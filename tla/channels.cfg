CONSTANTS
    Absent = Absent
    Channels = {1, 2}
    Streams = {}
    TimestampedStreams = {}
    CacheDefinitions <- ChangingChannels
    ProtocolVersion = 2
    MinReportInterval = 1
    SecondNanos = 2
    Word = 16
    MaxTime = 4
    MaxChannels = 2
    Instances = 1
SPECIFICATION Spec
INVARIANTS NoOverlap NoGap ReportSpacing BackfillAscends BackfillComplete
