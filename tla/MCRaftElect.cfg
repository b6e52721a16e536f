SPECIFICATION Spec
CONSTANTS
    Server = {s1, s2, s3}
    Command = {c1}
    Nil = Nil
    MaxTerm = 4
    MaxLog = 1
    MaxInFlight = 2
SYMMETRY Symmetry
CONSTRAINT ElectionBound
INVARIANTS
    ElectionSafety
    LeaderCompleteness
    StateMachineSafety
PROPERTY VotesKept
CHECK_DEADLOCK FALSE
