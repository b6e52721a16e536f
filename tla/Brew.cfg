SPECIFICATION FairSpec
CONSTANTS
    Caller = {a, b}
    Loop = {l1, l2}
    None = None
INVARIANTS
    OneLoop
    OffAfterStop
    HeatedByLoop
PROPERTIES
    FreshPid
    StopEndsLoop
    AutoShutoff
CHECK_DEADLOCK FALSE
