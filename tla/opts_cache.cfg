SPECIFICATION Spec
CONSTANTS
    Nodes = {n1}
    Callers = {w1, w2}
    Channels = {c1, c2}
    Opts = {o1, o2}
    Absent = Absent
    MaxVotes = 1
SYMMETRY Symmetry
INVARIANTS
    DecodedFresh
    ReportsPure
    CoherentUnlessMissed
