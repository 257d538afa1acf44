\* The x86-64 build: char is signed.
CONSTANTS
    SectorBytes = 32
    FatSectors = 1
    SectorsPerCluster = 2
    SlotsPerCluster = 8
    RootCluster = 2
    Names <- MCNames
    MaxDepth = 2
    MaxOps = 3
    IoFail = FALSE
    CharSigned = TRUE
SPECIFICATION Spec
INVARIANT DirListsOnlyItsEntries
