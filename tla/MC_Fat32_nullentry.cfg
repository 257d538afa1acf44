\* spec.md section 8: a created name is listed; directories can fill up.
CONSTANTS
    SectorBytes = 32
    FatSectors = 1
    SectorsPerCluster = 2
    SlotsPerCluster = 8
    RootCluster = 2
    Names <- MCNames
    MaxDepth = 2
    MaxOps = 3
    IoFail = FALSE
    CharSigned = FALSE
SPECIFICATION Spec
INVARIANT CreatedEntriesListed
