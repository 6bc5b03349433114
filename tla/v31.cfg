CONSTANTS
    Absent = Absent
    Channels = {1, 2}
    MinReportInterval = 1
    SecondNanos = 2
    MaxConsensusClockLead = 1
    MaxUint64 = 15
    MaxTime = 4
    MaxChannels = 2
    Instances = 2
    Scenes <- FourScenes
SPECIFICATION Spec
INVARIANTS  V31NoGap V31BackfillOrder V31OneProducer
