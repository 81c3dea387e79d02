SPECIFICATION Spec
CONSTANTS
    Files = 5
    MaxRows = 2
    Batch = 3
    Limit = 2
    Reason = {r1, r2}
    NoReason = NoReason
INVARIANTS
    TypeOK
    RowsJoinTheirOriginals
    FilesAreAccountedFor
PROPERTIES
    IsABatchLog
CHECK_DEADLOCK FALSE
