\* Failing I/O: a parent entry written before its FAT entry.
CONSTANTS
    SectorBytes = 32
    FatSectors = 1
    SectorsPerCluster = 2
    SlotsPerCluster = 8
    RootCluster = 2
    Names <- MCNames
    MaxDepth = 2
    MaxOps = 3
    IoFail = TRUE
    CharSigned = FALSE
SPECIFICATION Spec
INVARIANT NoSharedClusters
