SPECIFICATION Spec
CONSTANTS
    Job = {j1, j2}
    Table = {t1, t2}
    NoJob = NoJob
    NoTable = NoTable
    Foreign = Foreign
    Files = 2
    Faults = 1
    Keep = 1
SYMMETRY Ids
INVARIANTS
    TypeOK
    OneWriterPerTable
    AliveMeansScheduled
    JournalsTellTheTruth
PROPERTIES
    OnlyItsMakerGrowsATable
