--------------------------- MODULE MetadataCache ---------------------------
(***************************************************************************)
(* The metadata cache of kernel/src/fat32.cpp over several (disk,         *)
(* partition) pairs: cached_disk, cached_partition, partition_start and    *)
(* the heap copies fat_bs and fat_is, reloaded by cache_disk_partition     *)
(* when the pair differs, and written back by write_is.  Every public     *)
(* operation starts with cache_disk_partition; free_size, ls and          *)
(* read_file only read the cache, mkdir and touch, once their FAT write   *)
(* succeeded, decrement fat_is->free_clusters and call write_is.  What    *)
(* happens to the FAT and the directories is the subject of Fat32.        *)
(***************************************************************************)
EXTENDS Integers, FiniteSets

CONSTANTS
    Disks,      \* disk uuids (u64; never -1)
    PartIds,    \* partition uuids
    InitFree,   \* partition -> free_clusters on disk, also its free clusters
    MaxSwitches, \* bound on calls that replace one cached pair by another
    IoFail      \* TRUE when a sector read or write may fail

Partitions == Disks \X PartIds

ASSUME /\ -1 \notin Disks \cup PartIds
       /\ InitFree \in [Partitions -> Nat]
       /\ MaxSwitches \in Nat /\ IoFail \in BOOLEAN

NoId == -1    \* cached_disk = cached_partition = -1 before the first call

VARIABLES
    cachedDisk,      \* cached_disk
    cachedPartition, \* cached_partition
    partitionStart,  \* partition_start, as the partition it belongs to
    fatBs,           \* fat_bs: [held, part]; held = FALSE is nullptr
    fatIs,           \* fat_is: [held, part, free]
    fsi,             \* partition -> free_clusters of its FS-information sector
    heap,            \* fat_bs_t / fat_is_t objects allocated and never freed
    used,            \* partition -> clusters mkdir/touch marked in its FAT
    switches,        \* calls that found another pair cached
    ret              \* [part, ok]: the last call and what the cache returned

vars == <<cachedDisk, cachedPartition, partitionStart, fatBs, fatIs, fsi,
          heap, used, switches, ret>>

Outcomes == IF IoFail THEN BOOLEAN ELSE {TRUE}

(* A sector read through fat_bs == nullptr: fs_information_sector is read  *)
(* from address 0x30, so the FS-information copy comes from some sector   *)
(* of the disk, not the partition's; Stray stands for it.                  *)
Stray == <<0, 0>>

(***************************************************************************)
(* cache_bs: a new fat_bs_t is read into; on success it replaces fat_bs    *)
(* (the old object is not deleted), on failure it is freed and fat_bs is   *)
(* nullptr.  cache_is then does the same for fat_is, reading the sector    *)
(* at partition.start + fat_bs->fs_information_sector.                     *)
(***************************************************************************)
CacheBs(p, ok) == IF ok THEN [held |-> TRUE, part |-> p] ELSE [held |-> FALSE, part |-> p]

CacheIs(p, bs, ok) ==
    LET from == IF bs.held THEN p ELSE Stray
    IN  IF ok THEN [held |-> TRUE, part |-> from,
                       free |-> IF bs.held THEN fsi[p] ELSE 0]
        ELSE [held |-> FALSE, part |-> from, free |-> 0]

(* A variant keyed on the partition uuid alone.                            *)
CachedOnPartitionOnly(p) == cachedPartition = p[2]

(* cache_disk_partition: is the pair the cached one?                       *)
Cached(p) == cachedDisk = p[1] /\ cachedPartition = p[2]

(***************************************************************************)
(* cache_disk_partition(disk, partition) of a call on p with the read     *)
(* outcomes bsOk, isOk: reload on a different pair, and set the cached    *)
(* ids whatever the reads gave; return fat_bs && fat_is.  The new cache   *)
(* state is the record returned.                                           *)
(***************************************************************************)
CacheDiskPartition(p, bsOk, isOk) ==
    IF Cached(p)
    THEN [bs |-> fatBs, is |-> fatIs, heap |-> heap, load |-> FALSE]
    ELSE LET bs == CacheBs(p, bsOk)
             is == CacheIs(p, bs, isOk)
         IN  [bs   |-> bs, is |-> is, load |-> TRUE,
              heap |-> heap + (IF bsOk THEN 1 ELSE 0) + (IF isOk THEN 1 ELSE 0)]

Loaded(c) == c.bs.held /\ c.is.held

(***************************************************************************)
(* One public call on partition p.  alloc: the call is a mkdir or touch  *)
(* whose FAT write succeeded (find_free_cluster found a cluster, so the   *)
(* partition had one free); it then runs fat_is->free_clusters -= 1 and   *)
(* write_is, whose write succeeds when wOk.                               *)
(***************************************************************************)
Call(p, bsOk, isOk, alloc, wOk) ==
    LET c      == CacheDiskPartition(p, bsOk, isOk)
        ok     == Loaded(c)
        is     == [c.is EXCEPT !.free = @ - 1]
        switch == c.load /\ cachedDisk # NoId
    IN  /\ switch => switches < MaxSwitches
        /\ alloc => ok /\ used[p] < InitFree[p]
        /\ cachedDisk' = p[1]
        /\ cachedPartition' = p[2]
        /\ partitionStart' = IF c.load THEN p ELSE partitionStart
        /\ fatBs' = c.bs
        /\ heap' = c.heap
        /\ switches' = IF switch THEN switches + 1 ELSE switches
        /\ ret' = [part |-> p, ok |-> ok]
        /\ IF alloc
           THEN /\ fatIs' = is
                /\ used' = [used EXCEPT ![p] = @ + 1]
                /\ fsi' = IF wOk THEN [fsi EXCEPT ![p] = is.free] ELSE fsi
           ELSE /\ fatIs' = c.is
                /\ UNCHANGED <<used, fsi>>

(* free_size, ls, read_file, and mkdir/touch returning before the FAT     *)
(* entry is written: the cache is refreshed, nothing else changes here.    *)
Query(p) == \E bsOk, isOk \in Outcomes : Call(p, bsOk, isOk, FALSE, TRUE)

(* mkdir/touch past write_fat_value.                                       *)
Allocate(p) == \E bsOk, isOk, wOk \in Outcomes : Call(p, bsOk, isOk, TRUE, wOk)

(* A variant with the cached ids left zero-initialised.                  *)
InitZeroIds ==
    /\ cachedDisk = 0 /\ cachedPartition = 0
    /\ partitionStart = Stray
    /\ fatBs = [held |-> FALSE, part |-> Stray]
    /\ fatIs = [held |-> FALSE, part |-> Stray, free |-> 0]
    /\ fsi = InitFree /\ heap = 0 /\ used = [p \in Partitions |-> 0]
    /\ switches = 0 /\ ret = [part |-> Stray, ok |-> FALSE]

Init ==
    /\ cachedDisk = NoId
    /\ cachedPartition = NoId
    /\ partitionStart = Stray
    /\ fatBs = [held |-> FALSE, part |-> Stray]
    /\ fatIs = [held |-> FALSE, part |-> Stray, free |-> 0]
    /\ fsi = InitFree
    /\ heap = 0
    /\ used = [p \in Partitions |-> 0]
    /\ switches = 0
    /\ ret = [part |-> Stray, ok |-> FALSE]

Next == \E p \in Partitions : Query(p) \/ Allocate(p)

(***************************************************************************)
(* The caller keeps calling every partition, and a read the device failed *)
(* succeeds when the call is repeated (a transient failure): a call on p  *)
(* whose reads succeed is weakly fair.                                     *)
(***************************************************************************)
Fairness == \A p \in Partitions : WF_vars(Call(p, TRUE, TRUE, FALSE, TRUE))

Spec == Init /\ [][Next]_vars

FairSpec == Spec /\ Fairness

-----------------------------------------------------------------------------
(* Properties.                                                             *)

Copy == [held : BOOLEAN, part : Partitions \cup {Stray}]

TypeOK ==
    /\ cachedDisk \in Disks \cup {NoId}
    /\ cachedPartition \in PartIds \cup {NoId}
    /\ partitionStart \in Partitions \cup {Stray}
    /\ fatBs \in Copy
    /\ fatIs \in [held : BOOLEAN, part : Partitions \cup {Stray}, free : Nat]
    /\ fsi \in [Partitions -> Nat]
    /\ heap \in Nat /\ switches \in 0..MaxSwitches
    /\ used \in [Partitions -> Nat]
    /\ ret \in [part : Partitions \cup {Stray}, ok : BOOLEAN]

(***************************************************************************)
(* Across partition switches and failed write_is calls, the free counter  *)
(* each partition's FS-information sector holds, and the cached copy of   *)
(* the partition last called, lie between its real number of free         *)
(* clusters and its initial count: write_is only ever persists the copy   *)
(* loaded from, and decremented for, the partition it writes to.          *)
(***************************************************************************)
CounterWithinPartitionBounds ==
    /\ \A p \in Partitions : InitFree[p] - used[p] <= fsi[p] /\ fsi[p] <= InitFree[p]
    /\ ret.ok => LET p == ret.part
                 IN  /\ fatIs.part = p
                     /\ InitFree[p] - used[p] <= fatIs.free
                     /\ fatIs.free <= fsi[p]

(***************************************************************************)
(* spec.md section 5, resource policy: the only long-lived allocations    *)
(* are the two cached sectors, replaced wholesale on invalidation: no     *)
(* fat_bs_t or fat_is_t object outlives the pointer to it.                *)
(***************************************************************************)
NoLeakedSectors ==
    heap = (IF fatBs.held THEN 1 ELSE 0) + (IF fatIs.held THEN 1 ELSE 0)

(***************************************************************************)
(* spec.md section 4.1: a failed read leaves the cache empty, so the next *)
(* call reloads it: when the caller keeps calling and the device's        *)
(* failures are transient, every partition is served again and again.     *)
(***************************************************************************)
EveryPartitionServed == \A p \in Partitions : []<>(ret.part = p /\ ret.ok)

=============================================================================
