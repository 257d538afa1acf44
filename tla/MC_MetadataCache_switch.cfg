\* Two disks with two partitions each, failing I/O, partition switches.
CONSTANTS
    Disks = {1, 2}
    PartIds = {1, 2}
    InitFree <- MCInitFree
    MaxSwitches = 3
    IoFail = TRUE
SPECIFICATION Spec
INVARIANTS
    TypeOK
    CounterWithinPartitionBounds
