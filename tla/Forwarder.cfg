SPECIFICATION FairSpec
CONSTANTS
    Client = {a, b}
    Target = t
    Stranger = {s}
    None = None
    MaxDatagrams = 3
    Capacity = 2
INVARIANTS
    AnswersGoForward
PROPERTIES
    TargetIsKnown
    BothWaysGoOn
CHECK_DEADLOCK FALSE
