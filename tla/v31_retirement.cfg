CONSTANTS
    Absent = Absent
    Channels = {1, 2}
    MinReportInterval = 1
    SecondNanos = 2
    MaxConsensusClockLead = 1
    MaxUint64 = 15
    MaxTime = 4
    MaxChannels = 2
    Instances = 2
    Scenes <- OneHandover
SPECIFICATION Spec
INVARIANT RetiredWatermarksAgree
