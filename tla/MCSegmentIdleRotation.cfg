SPECIFICATION Spec
CONSTANTS
    Publishers = {p1, p2}
    NoOne = NoOne
    MaxRecords = 3
    MaxObjects = 7
    SegmentSize = 2
    MaxCrashes = 1
INVARIANTS RotationPossible
CHECK_DEADLOCK FALSE
