SPECIFICATION Spec
CONSTANTS
    ULong = 65536
    Index <- Indexes
    MaxRanges = {1, 2, 64}
    DefaultRangeCompactation = 4
    NoSearch = NoSearch
INVARIANTS
    CurveIsContinuous
    RangesCover
    FoundExactly
    NearestFound
CHECK_DEADLOCK FALSE
