\* spec.md section 4.1: one partition, transient read failures, a caller
\* that keeps calling.
CONSTANTS
    Disks = {1}
    PartIds = {1}
    InitFree <- MCInitFree
    MaxSwitches = 0
    IoFail = TRUE
SPECIFICATION FairSpec
PROPERTY EveryPartitionServed
