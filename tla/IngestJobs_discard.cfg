SPECIFICATION Spec
CONSTANTS
    Job = {j1, j2}
    Table = {t1}
    NoJob = NoJob
    NoTable = NoTable
    Foreign = Foreign
    Files = 1
    Faults = 1
    Keep = 1
PROPERTIES
    DiscardTakesOnlyItsOwn
