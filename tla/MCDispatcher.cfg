SPECIFICATION FairSpec
CONSTANTS
    i1 = i1
    i2 = i2
    i3 = i3
    i4 = i4
    i5 = i5
    i6 = i6
    i7 = i7
    None = None
    Partitions = 2
    Capacity = 1
    Item = {i1, i2, i3, i4, i5, i6, i7}
    Key <- Keys
    Child <- Children
    Caller = {a, b}
    Disposer = {b}
    HandlerThrows = {i7}
INVARIANTS
    TypeOK
    KeyOrder
    NoneLost
    DrainRunsAccepted
    SettledAfterStop
PROPERTIES
    StopEnds
    ItemsRun
    WritesEnd
CHECK_DEADLOCK FALSE
