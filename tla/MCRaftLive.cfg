SPECIFICATION FairSpec
CONSTANTS
    Server = {s1, s2}
    Command = {c1}
    Nil = Nil
    MaxTerm = 3
    MaxLog = 2
    MaxInFlight = 2
INVARIANT TypeOK
PROPERTY EventuallyApplied
CHECK_DEADLOCK FALSE
