CONSTANTS
    Absent = Absent
    Channels = {1}
    Streams = {s1}
    TimestampedStreams = {}
    CacheDefinitions <- WaitingChannel
    ProtocolVersion = 1
    MinReportInterval = 1
    SecondNanos = 2
    Word = 16
    MaxTime = 3
    MaxChannels = 1
    Instances = 2
SPECIFICATION Spec
INVARIANTS NoOverlap NoGap OneProducer RetirementFrozen
