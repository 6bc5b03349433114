CONSTANTS
    Absent = Absent
    Channels = {1, 2}
    Streams = {}
    TimestampedStreams = {}
    CacheDefinitions <- PausedBackfill
    ProtocolVersion = 1
    MinReportInterval = 1
    SecondNanos = 2
    Word = 16
    MaxTime = 4
    MaxChannels = 2
    Instances = 1
SPECIFICATION Spec
INVARIANT BackfillWaitsForEncoding
