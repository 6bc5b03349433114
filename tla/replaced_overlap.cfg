CONSTANTS
    Absent = Absent
    Channels = {1}
    Streams = {}
    TimestampedStreams = {}
    CacheDefinitions <- PausedChannel
    ProtocolVersion = 1
    MinReportInterval = 1
    SecondNanos = 2
    Word = 16
    MaxTime = 3
    MaxChannels = 1
    Instances = 1
SPECIFICATION Spec
INVARIANT ReportsNeverOverlap
