\* Reliable I/O, a volume within the first FAT sector, unsigned char:
\* the allocation, free-count and directory-structure invariants.
CONSTANTS
    SectorBytes = 32
    FatSectors = 1
    SectorsPerCluster = 2
    SlotsPerCluster = 8
    RootCluster = 2
    Names <- MCNames
    MaxDepth = 2
    MaxOps = 3
    IoFail = FALSE
    CharSigned = FALSE
SPECIFICATION Spec
INVARIANTS
    TypeOK
    FreeCountExact
    NoSharedClusters
    DirListsOnlyItsEntries
PROPERTIES
    
    PathsKeepTheirTarget
