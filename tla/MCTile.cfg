SPECIFICATION Spec
CONSTANTS
    Extent = 16
    Grain = 10
    ByteCount <- ByteCounts
    Null = Null
    Unsupported = Unsupported
    Source <- Sources
INVARIANTS
    TagsDecode
    GeometryShown
    SizesExact
CHECK_DEADLOCK FALSE
