SPECIFICATION Spec
CONSTANTS
    Server = {s1, s2}
    leader = s1
    follower = s2
    Command = {c1, c2, c3}
    Nil = Nil
INVARIANT SameSequence
