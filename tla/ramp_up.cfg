CONSTANTS
    Absent = Absent
    Channels = {1, 2}
    Streams = {}
    TimestampedStreams = {}
    CacheDefinitions <- FixedChannels
    ProtocolVersion = 1
    MinReportInterval = 1
    SecondNanos = 2
    Word = 16
    MaxTime = 3
    MaxChannels = 2
    Instances = 2
SPECIFICATION Spec
INVARIANT RampUpLeavesNoGap
