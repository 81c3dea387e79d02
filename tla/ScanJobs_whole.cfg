SPECIFICATION Spec
CONSTANTS
    Jobs = 3
    Table = {t1, t2}
    NoTable = NoTable
    Checks = 2
    Keep = 1
INVARIANTS
    ScansAreSound
PROPERTIES
    OpenedScansEnd
    IsASerialQueue
CHECK_DEADLOCK FALSE
