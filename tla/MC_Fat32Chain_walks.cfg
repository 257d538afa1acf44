\* Three data clusters, any FAT (cycles included), failing reads, unsigned
\* char, directories another host may have written: files() stays in
\* long_name_buffer and terminates on an acyclic FAT; read_file implements
\* ChainCopy on every FAT.
CONSTANTS
    SectorBytes = 20
    FatSectors = 1
    ClusterBytes = 2
    FileSizes = {1, 3, 6}
    DirImages <- MCDirImages
    AllowCycles = TRUE
    IoFail = TRUE
    Ops = {"ls", "read"}
    CharSigned = FALSE
SPECIFICATION Spec
\* One call is modelled: it returns and the model stops.
CHECK_DEADLOCK FALSE
INVARIANTS
    TypeOK
    NameBufferInBounds
PROPERTIES
    SoundListingTerminates
    ReadImplementsChainCopy
