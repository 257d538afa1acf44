\* A FAT of two sectors: find_free_cluster past the first FAT sector.
CONSTANTS
    SectorBytes = 16
    FatSectors = 2
    SectorsPerCluster = 2
    SlotsPerCluster = 8
    RootCluster = 2
    Names <- MCNames
    MaxDepth = 2
    MaxOps = 3
    IoFail = FALSE
    CharSigned = FALSE
SPECIFICATION Spec
INVARIANT NoSharedClusters
