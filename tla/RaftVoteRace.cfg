SPECIFICATION Spec
CONSTANTS
    Server = {s1, s2, s3}
    Command = {c1}
    Nil = Nil
    MaxTerm = 1
INVARIANT OneLeaderPerTerm
CHECK_DEADLOCK FALSE
