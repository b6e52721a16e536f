SPECIFICATION Spec
CONSTANTS
    Server = {s1, s2, s3}
    Command = {c1}
    Nil = Nil
    MaxTerm = 2
    MaxLog = 2
    MaxInFlight = 3
SYMMETRY Symmetry
CONSTRAINT NoVoteForgotten
INVARIANTS
    MatchIndexSound
    LogMatching
    CommittedOnMajority
PROPERTIES
    LeaderAppendOnly
    ImplementsReplicatedLog
CHECK_DEADLOCK FALSE
