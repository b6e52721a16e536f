SPECIFICATION Spec
CONSTANTS
    i1 = i1
    i2 = i2
    i3 = i3
    i4 = i4
    i5 = i5
    i6 = i6
    i7 = i7
    None = None
    Partitions = 2
    Capacity = 1
    Item = {i1, i2, i3, i4}
    Key <- Keys
    Child <- OneChild
    Caller = {a}
    Disposer = {}
    HandlerThrows = {}
INVARIANT DrainLeavesNothing
CHECK_DEADLOCK FALSE
