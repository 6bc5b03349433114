SPECIFICATION Spec
CONSTANTS
    Nodes = {n1, n2}
    Callers = {w1}
    Channels = {c1}
    Opts = {o1, o2}
    Absent = Absent
    MaxVotes = 1
INVARIANT OutcomePure
