\* Failing sector reads and writes at every I/O point of every operation.
CONSTANTS
    SectorBytes = 32
    FatSectors = 1
    SectorsPerCluster = 2
    SlotsPerCluster = 8
    RootCluster = 2
    Names <- MCNames
    MaxDepth = 1
    MaxOps = 2
    IoFail = TRUE
    CharSigned = FALSE
SPECIFICATION Spec
INVARIANT
    FreeCountNeverUnderstated
    FailedCallsCorruptOnlyTheirOwn
