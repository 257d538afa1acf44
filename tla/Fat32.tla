------------------------------- MODULE Fat32 -------------------------------
(***************************************************************************)
(* The FAT32 driver of kernel/src/fat32.cpp on one (disk, partition):     *)
(* the FAT, the directory clusters, the FS-information free counter on    *)
(* disk and its cached copy, and the five public operations free_size,    *)
(* ls, read_file, mkdir and touch.  Each operation is one atomic step (the *)
(* driver is single threaded, spec.md section 5); a failing sector read or *)
(* write is a nondeterministic early return at the point where the code    *)
(* checks it, leaving the writes before it on disk.                        *)
(*                                                                         *)
(* A directory cluster is a sequence of slots.  A short slot is            *)
(* [name, attrib, cluster, size] (name: 11 bytes); a long slot is          *)
(* [sequence_number, attrib = 0x0F, alias_checksum, units].  Byte 0 of a   *)
(* slot is name[0] or sequence_number.                                     *)
(***************************************************************************)
EXTENDS Integers, Sequences, SequencesExt, FiniteSets, Fat32Format

CONSTANTS
    SectorBytes,        \* 512: the literal of the FAT index arithmetic
    FatSectors,         \* fat_size(): sectors of the first FAT
    SectorsPerCluster,  \* fat_bs->sectors_per_cluster
    SlotsPerCluster,    \* 16 * sectors_per_cluster directory entries
    RootCluster,        \* fat_bs->root_directory_cluster_start
    Names,              \* names (byte sequences) passed to mkdir/touch/...
    MaxDepth,           \* longest path passed to an operation
    MaxOps,             \* bound on mkdir/touch calls
    IoFail              \* TRUE when a sector read or write may fail

EntriesPerSector == SectorBytes \div 4      \* 512 / sizeof(uint32_t)
MaxCluster       == FatSectors * EntriesPerSector - 1
Clusters         == 0..MaxCluster
DataClusters     == 2..MaxCluster
ClusterBytes     == SectorsPerCluster * 512

ASSUME /\ SectorBytes % 4 = 0 /\ EntriesPerSector >= 3
       /\ FatSectors \in Nat \ {0} /\ SectorsPerCluster \in Nat \ {0}
       /\ SlotsPerCluster >= 4 /\ RootCluster \in DataClusters
       /\ Names \subseteq Seq(1..255) /\ <<>> \notin Names
       /\ MaxDepth \in Nat /\ MaxOps \in Nat /\ IoFail \in BOOLEAN

EOC      == 268435448   \* 0x0FFFFFF8, end of chain
U32Wrap  == -1          \* stands for 0xFFFFFFFF, free_clusters - 1 at 0
DirAttrib  == 16        \* 1 << 4
FileAttrib == 0

Paths == UNION {[1..d -> Names] : d \in 0..MaxDepth}

VARIABLES
    fat,         \* the first FAT: cluster -> 28-bit entry
    dirs,        \* data cluster -> its slots, read as a directory
    fsiFree,     \* free_clusters of the FS-information sector on disk
    cache,       \* "empty" (cached ids -1), "loaded", "failed"
    cachedFree,  \* fat_is->free_clusters in memory
    created,     \* history: mkdir/touch calls that returned true
    failed,      \* history: calls that returned false after writing the parent
    ops,         \* mkdir/touch calls made
    ret          \* what the last operation returned

vars == <<fat, dirs, fsiFree, cache, cachedFree, created, failed, ops, ret>>

-----------------------------------------------------------------------------
(* Directory slots.                                                        *)

SetByte0(s, b) ==
    IF IsLong(s) THEN [s EXCEPT !.sequence_number = b]
                 ELSE [s EXCEPT !.name[1] = b]

EndSlot    == [name |-> [j \in 1..11 |-> 0], attrib |-> 0, cluster |-> 0, size |-> 0]
ZeroCluster == [k \in 1..SlotsPerCluster |-> EndSlot]
(* A cluster no one wrote: bytes left by an earlier use of the disk.       *)
JunkSlot   == [name |-> [j \in 1..11 |-> 1], attrib |-> 0, cluster |-> 0, size |-> 0]
JunkCluster == [k \in 1..SlotsPerCluster |-> JunkSlot]

(***************************************************************************)
(* files(disk, cluster): the records of one directory cluster, in order.  *)
(* The model's directories are one cluster long; at the end of a cluster  *)
(* without an end marker next_cluster reads 0 or EOC, the only values the *)
(* driver writes, and the listing stops.                                  *)
(***************************************************************************)
Files(ds, c) ==
    IF c \in DataClusters
    THEN ScanSlots(ds[c], 1, NoLongName, <<>>, ClusterBytes).acc
    ELSE <<>>

(***************************************************************************)
(* find_cluster_number: walk the path from the root; a non-tail segment   *)
(* matches a directory only, the tail matches any entry; first match.     *)
(***************************************************************************)
(* A variant that follows the last matching entry of each directory.     *)
RECURSIVE ResolveLast(_, _, _)
ResolveLast(ds, c, path) ==
    IF path = <<>> THEN [found |-> TRUE, cluster |-> c]
    ELSE LET fs   == Files(ds, c)
             last == Len(path) = 1
             hits == {k \in DOMAIN fs : (last \/ fs[k].directory)
                                        /\ fs[k].name = Head(path)}
         IN  IF hits = {} THEN [found |-> FALSE, cluster |-> 0]
             ELSE ResolveLast(ds, fs[Max(hits)].location, Tail(path))

RECURSIVE Resolve(_, _, _)
Resolve(ds, c, path) ==
    IF path = <<>> THEN [found |-> TRUE, cluster |-> c]
    ELSE LET fs   == Files(ds, c)
             last == Len(path) = 1
             hits == {k \in DOMAIN fs : (last \/ fs[k].directory)
                                        /\ fs[k].name = Head(path)}
         IN  IF hits = {} THEN [found |-> FALSE, cluster |-> 0]
             ELSE Resolve(ds, fs[Min(hits)].location, Tail(path))

FindClusterNumber(ds, path) == Resolve(ds, RootCluster, path)

(* files(disk, path): the listing of the directory the path resolves to,  *)
(* empty when it does not resolve.                                         *)
FilesOfPath(ds, path) ==
    LET r == FindClusterNumber(ds, path)
    IN  IF r.found THEN Files(ds, r.cluster) ELSE <<>>

-----------------------------------------------------------------------------
(* The FAT.                                                                *)

(* write_fat_value: sector c*4/512, index c % 512 of a 128-entry buffer;  *)
(* an index past the buffer writes the heap, the sector goes back as read.*)
WriteFatValue(f, c, v) ==
    LET sector == (c * 4) \div SectorBytes
        index  == c % SectorBytes
    IN  IF index < EntriesPerSector
        THEN [f EXCEPT ![sector * EntriesPerSector + index] = v]
        ELSE f

(***************************************************************************)
(* find_free_cluster: for j < fat_size() read sector fat_begin + j *      *)
(* sectors_per_cluster and return i + j * 128 for its first zero entry i  *)
(* (not clusters 0 and 1).  A sector past the FAT holds unknown bytes: any *)
(* i may be returned from it, or the scan goes on.  The set of results.   *)
(***************************************************************************)
RECURSIVE FreeScan(_, _)
FreeScan(f, j) ==
    IF j >= FatSectors THEN {0}
    ELSE LET s   == j * SectorsPerCluster
             idx == {i \in 0..(EntriesPerSector - 1) : ~(j = 0 /\ i < 2)}
         IN  IF s < FatSectors
             THEN LET free == {i \in idx : f[s * EntriesPerSector + i] = 0}
                  IN  IF free = {} THEN FreeScan(f, j + 1)
                      ELSE {Min(free) + j * EntriesPerSector}
             ELSE {i + j * EntriesPerSector : i \in idx} \cup FreeScan(f, j + 1)

(* Variants of find_free_cluster a slip would give: j + i * 128 for      *)
(* i + j * 128, and testing the entry for != 0 instead of == 0.           *)
FindFreeClusterSwapped(f) ==
    {(c % EntriesPerSector) * EntriesPerSector + c \div EntriesPerSector :
        c \in FreeScan(f, 0)}
FindFreeClusterUsed(f) ==
    LET used == {i \in 2..(EntriesPerSector - 1) : f[i] # 0}
    IN  IF used = {} THEN {0} ELSE {Min(used)}

FindFreeCluster(f) == FreeScan(f, 0)

(* A variant that forgets the decrement.                                  *)
DecU32Skipped(x) == x

(* fat_is->free_clusters -= 1 on a uint32_t.                               *)
DecU32(x) == IF x = 0 THEN U32Wrap ELSE x - 1

-----------------------------------------------------------------------------
RunStart(seqEnd, n) == seqEnd - n + 1

FindFreeEntry(slots, n) ==
    LET S       == Len(slots)
        Free(k) == EndOfDirectory(slots[k]) \/ EntryUnused(slots[k])
        ends    == {k \in 1..S : EndOfDirectory(slots[k])}
        runEnds == {k \in n..S : \A m \in (k - n + 1)..k : Free(m)}
        Null    == [ok |-> FALSE, start |-> 0, buf |-> slots]
    IN  IF ends = {} \/ runEnds = {} THEN Null
        ELSE LET end    == Min(ends)
                 seqEnd == Min(runEnds)
                 start  == RunStart(seqEnd, n)
                 tail   == {k \in (seqEnd + 1)..S : \A m \in k..S : Free(m)}
             IN  IF end > seqEnd THEN [ok |-> TRUE, start |-> start, buf |-> slots]
                 ELSE IF tail = {} THEN Null
                 ELSE [ok |-> TRUE, start |-> start,
                       buf |-> [slots EXCEPT ![end]       = SetByte0(@, 229),
                                             ![Min(tail)] = SetByte0(@, 0)]]

(* init_entry<Long> then attrib: the long slots, then the short slot.      *)
ShortEntry(name, cluster, attrib) ==
    [name |-> ShortName(name), attrib |-> attrib, cluster |-> cluster, size |-> 0]

InitEntry(buf, start, name, cluster, attrib) ==
    LET ldes == LongEntries(name)
        k    == Len(ldes)
    IN  [j \in DOMAIN buf |->
           IF j \in start..(start + k - 1) THEN ldes[j - start + 1]
           ELSE IF j = start + k THEN ShortEntry(name, cluster, attrib)
           ELSE buf[j]]

(* A variant whose ".." points at the new directory itself.              *)
NewDirClusterSelfParent(c, parent) ==
    [k \in 1..SlotsPerCluster |->
        CASE k = 1 -> ShortEntry(<<46>>, c, DirAttrib)
          [] k = 2 -> ShortEntry(<<46, 46>>, c, DirAttrib)
          [] k = SlotsPerCluster -> EndSlot
          [] OTHER -> SetByte0(EndSlot, 229)]

(* mkdir: "." and ".." (no long names), name[0] = 0xE5 on slots 2..n-2 of *)
(* an uninitialised buffer (its other bytes modelled as zero), the end    *)
(* marker in the last slot.                                                *)
NewDirCluster(c, parent) ==
    [k \in 1..SlotsPerCluster |->
        CASE k = 1 -> ShortEntry(<<46>>, c, DirAttrib)
          [] k = 2 -> ShortEntry(<<46, 46>>, parent, DirAttrib)
          [] k = SlotsPerCluster -> EndSlot
          [] OTHER -> SetByte0(EndSlot, 229)]

(* A variant writing the new directory at lba(parent) instead of lba(c). *)
WriteNewDirectoryAtParent(ds, c, parent) ==
    [ds EXCEPT ![parent] = NewDirCluster(c, parent)]

(* mkdir, last step: write the new directory cluster at lba(c).           *)
WriteNewDirectory(ds, c, parent) == [ds EXCEPT ![c] = NewDirCluster(c, parent)]

-----------------------------------------------------------------------------
(***************************************************************************)
(* cache_disk_partition: on the first call read the boot and FS-info      *)
(* sectors; a failed read leaves a null pointer, and since the cached ids *)
(* are set anyway every later call returns false ("failed").              *)
(***************************************************************************)
CacheOutcomes ==
    IF cache = "empty" THEN {"loaded"} \cup (IF IoFail THEN {"failed"} ELSE {})
    ELSE {cache}

LoadedFree == IF cache = "empty" THEN fsiFree ELSE cachedFree

(* A variant that persists free_clusters before the FAT entry.           *)
CreateStepsIsFirst == <<"resolve", "fat_scan", "read_parent", "write_parent",
                        "write_is", "write_fat", "write_dir">>

(* The I/O points of mkdir/touch in the order the code reaches them.      *)
CreateSteps == <<"resolve", "fat_scan", "read_parent", "write_parent",
                 "write_fat", "write_is", "write_dir">>

StepIndex(s) == CHOOSE k \in DOMAIN CreateSteps : CreateSteps[k] = s

(* The I/O that can fail in this call ("none": no failure).               *)
FailPoints(path, isDir) ==
    {"none"} \cup
    IF ~IoFail THEN {}
    ELSE {s \in Range(CreateSteps) : /\ s = "resolve" => path # <<>>
                                     /\ s = "write_dir" => isDir}

(***************************************************************************)
(* mkdir (isDir) and touch, after the cache is loaded: resolve the parent,*)
(* allocate a cluster, read the parent's first cluster, find_free_entry,  *)
(* init the entry (through nullptr when none was found), write the parent,*)
(* mark the cluster end of chain, decrement and write free_clusters, and  *)
(* for mkdir write the new directory.  fp is the first failing I/O.       *)
(***************************************************************************)
Create(path, name, isDir, fp) ==
    LET Done(s)    == fp = "none" \/ StepIndex(fp) > StepIndex(s)
        Reached(s) == fp = "none" \/ StepIndex(fp) >= StepIndex(s)
        parent  == FindClusterNumber(dirs, path)
        free    == LoadedFree
    IN  IF ~parent.found \/ ~Done("resolve")
        THEN /\ ret' = FALSE
             /\ cachedFree' = free
             /\ UNCHANGED <<fat, dirs, fsiFree, created, failed>>
        ELSE \E c \in FindFreeCluster(fat) :
             IF c = 0 \/ ~Done("fat_scan") \/ ~Done("read_parent")
                \/ ~Done("write_parent")
             THEN /\ ret' = FALSE
                  /\ cachedFree' = free
                  /\ UNCHANGED <<fat, dirs, fsiFree, created, failed>>
             ELSE
             LET p     == parent.cluster
                 run   == FindFreeEntry(dirs[p], NumberOfEntries(Len(name)))
                 pbuf  == IF run.ok
                          THEN InitEntry(run.buf, run.start, name, c,
                                         IF isDir THEN DirAttrib ELSE FileAttrib)
                          ELSE run.buf
                 ds1   == [dirs EXCEPT ![p] = pbuf]
                 free1 == IF Reached("write_is") THEN DecU32(free) ELSE free
             IN  /\ dirs' = IF isDir /\ Done("write_dir")
                            THEN WriteNewDirectory(ds1, c, p) ELSE ds1
                 /\ fat' = IF Done("write_fat") THEN WriteFatValue(fat, c, EOC)
                           ELSE fat
                 /\ cachedFree' = free1
                 /\ fsiFree' = IF Done("write_is") THEN free1 ELSE fsiFree
                 /\ ret' = (fp = "none")
                 /\ LET h == [parent |-> p, name |-> name, cluster |-> c, dir |-> isDir]
                    IN  IF fp = "none"
                        THEN created' = created \cup {h} /\ UNCHANGED failed
                        ELSE failed' = failed \cup {h} /\ UNCHANGED created

(* fat32::mkdir / fat32::touch.                                            *)
CreateOp(path, name, isDir) ==
    /\ ops < MaxOps
    /\ ops' = ops + 1
    /\ \E cs \in CacheOutcomes :
         /\ cache' = cs
         /\ IF cs # "loaded"
            THEN /\ ret' = FALSE
                 /\ UNCHANGED <<fat, dirs, fsiFree, cachedFree, created, failed>>
            ELSE \E fp \in FailPoints(path, isDir) : Create(path, name, isDir, fp)

Mkdir(path, name) == CreateOp(path, name, TRUE)
Touch(path, name) == CreateOp(path, name, FALSE)

(* A read of the operation may fail (files() then returns what it has).   *)
ReadOutcomes == IF IoFail THEN BOOLEAN ELSE {TRUE}

(* fat32::ls: files(disk, path), empty when the path is not found.        *)
Ls(path) ==
    /\ \E cs \in CacheOutcomes, ok \in ReadOutcomes :
         /\ cache' = cs
         /\ cachedFree' = IF cs = "loaded" THEN LoadedFree ELSE cachedFree
         /\ ret' = IF cs = "loaded" /\ ok THEN FilesOfPath(dirs, path) ELSE <<>>
    /\ UNCHANGED <<fat, dirs, fsiFree, created, failed, ops>>

(***************************************************************************)
(* fat32::read_file: the first entry of the listing named file; nothing   *)
(* when absent or of size 0; else the bytes of its chain up to its size.  *)
(* No entry of the model is larger than a cluster, so one cluster read    *)
(* completes it; a failed read returns what was read (nothing).           *)
(***************************************************************************)
ReadFile(path, file) ==
    /\ \E cs \in CacheOutcomes, ok \in ReadOutcomes :
         LET fs   == FilesOfPath(dirs, path)
             hits == {k \in DOMAIN fs : fs[k].name = file}
             size == IF hits = {} THEN 0 ELSE fs[Min(hits)].size
         IN  /\ cache' = cs
             /\ cachedFree' = IF cs = "loaded" THEN LoadedFree ELSE cachedFree
             /\ ret' = IF cs = "loaded" /\ ok /\ size > 0
                       THEN Min({size, ClusterBytes}) ELSE 0
    /\ UNCHANGED <<fat, dirs, fsiFree, created, failed, ops>>

(* free_clusters * sectors_per_cluster * 512: a uint32_t times promoted   *)
(* ints is computed in uint32_t and only then widened to the uint64_t     *)
(* result.  512 = 2^9, so the product mod 2^32 is ((free * spc) mod 2^23) *)
(* * 512, a form whose intermediate values fit TLC's integers.            *)
FreeBytes(free) == (((free % 2^23) * SectorsPerCluster) % 2^23) * 512

(* fat32::free_size.                                                       *)
FreeSize ==
    /\ \E cs \in CacheOutcomes :
         /\ cache' = cs
         /\ cachedFree' = IF cs = "loaded" THEN LoadedFree ELSE cachedFree
         /\ ret' = IF cs = "loaded" THEN FreeBytes(LoadedFree) ELSE 0
    /\ UNCHANGED <<fat, dirs, fsiFree, created, failed, ops>>

-----------------------------------------------------------------------------
(* A freshly formatted volume: clusters 0, 1 and the root are reserved,   *)
(* the root cluster is zeroed; the other clusters are zeroed or hold old  *)
(* bytes, depending on the formatter.                                      *)
Init ==
    /\ fat = [c \in Clusters |-> IF c \in {0, 1, RootCluster} THEN EOC ELSE 0]
    /\ \E other \in {ZeroCluster, JunkCluster} :
         dirs = [c \in DataClusters |-> IF c = RootCluster THEN ZeroCluster
                                        ELSE other]
    /\ fsiFree = Cardinality(DataClusters) - 1
    /\ cache = "empty"
    /\ cachedFree = 0
    /\ created = {}
    /\ failed = {}
    /\ ops = 0
    /\ ret = FALSE

Next ==
    \/ \E path \in Paths, name \in Names : Mkdir(path, name)
    \/ \E path \in Paths, name \in Names : Touch(path, name)
    \/ \E path \in Paths : Ls(path)
    \/ \E path \in Paths, name \in Names : ReadFile(path, name)
    \/ FreeSize

Spec == Init /\ [][Next]_vars

-----------------------------------------------------------------------------
(* Views used by the properties.                                           *)

DotNames == {<<46>>, <<46, 46>>}

ActualFree == Cardinality({c \in DataClusters : fat[c] = 0})

Children(ds, c) ==
    {f.location : f \in {f \in Range(Files(ds, c)) :
                           f.directory /\ f.name \notin DotNames}} \cap DataClusters

RECURSIVE ReachFrom(_, _, _)
ReachFrom(ds, frontier, seen) ==
    IF frontier = {} THEN seen
    ELSE LET new == UNION {Children(ds, c) : c \in frontier} \ seen
         IN  ReachFrom(ds, new, seen \cup new)

(* The directories ls can reach from the root.                            *)
ReachableDirs(ds) == ReachFrom(ds, {RootCluster}, {RootCluster})

(* The listed entries other than "." and "..", as <<directory, index>>.   *)
Entries(ds) ==
    {<<d, k>> \in ReachableDirs(ds) \X (1..SlotsPerCluster) :
        k \in DOMAIN Files(ds, d) /\ Files(ds, d)[k].name \notin DotNames}

Loc(ds, e) == Files(ds, e[1])[e[2]].location

Visible(f) == [name |-> f.name, directory |-> f.directory, location |-> f.location]

-----------------------------------------------------------------------------
(* Properties.                                                             *)

Slot == [name : [1..11 -> 0..255], attrib : 0..255, cluster : Nat, size : Nat]
        \cup [sequence_number : 0..255, attrib : {LongAttrib},
              alias_checksum : 0..255, units : [1..UnitsPerLong -> 0..65535]]

TypeOK ==
    /\ fat \in [Clusters -> 0..EOC]
    /\ dirs \in [DataClusters -> [1..SlotsPerCluster -> Slot]]
    /\ fsiFree \in Nat \cup {U32Wrap}
    /\ cache \in {"empty", "loaded", "failed"}
    /\ cachedFree \in Nat \cup {U32Wrap}
    /\ created \cup failed \subseteq [parent : DataClusters, name : Names,
                                     cluster : DataClusters, dir : BOOLEAN]
    /\ ops \in 0..MaxOps

(***************************************************************************)
(* With no I/O failure, free_clusters on disk and in the cache both equal *)
(* the number of free FAT entries: mkdir/touch decrement it exactly when  *)
(* find_free_cluster's cluster is marked end of chain.                    *)
(***************************************************************************)
FreeCountExact ==
    /\ fsiFree = ActualFree
    /\ cache = "loaded" => cachedFree = ActualFree

(***************************************************************************)
(* Under failing I/O (no rollback, spec.md section 7) the order FAT write, *)
(* then decrement, then write_is keeps the cached counter exact and the   *)
(* on-disk counter never below the real number of free clusters.          *)
(***************************************************************************)
FreeCountNeverUnderstated ==
    /\ fsiFree >= ActualFree
    /\ cache = "loaded" => cachedFree = ActualFree

(***************************************************************************)
(* No two listed entries share a cluster, and none points at the root:    *)
(* find_free_cluster never hands out a cluster an entry already uses.  A  *)
(* FAT mark that is lost (a failed write_fat_value, or a write past the   *)
(* FAT buffer) leaves the cluster free, and the next call takes it again.  *)
(* The entries are those of every reachable directory but the cluster of  *)
(* a mkdir that failed before writing it, which lists whatever bytes the  *)
(* cluster held (FailedCallsCorruptOnlyTheirOwn states that part).        *)
(***************************************************************************)
NoSharedClusters ==
    LET broken == {h.cluster : h \in {h \in failed : h.dir}}
        E      == {e \in Entries(dirs) : e[1] \notin broken}
    IN  /\ \A e1, e2 \in E : e1 # e2 => Loc(dirs, e1) # Loc(dirs, e2)
        /\ \A e \in E : Loc(dirs, e) \in DataClusters \ {RootCluster}

(* Directory d lists "." (itself) and ".." (the parent a call of made     *)
(* gave it) first, unless it is the root, and then only entries the calls *)
(* of made wrote into it.                                                  *)
ListsOnly(d, made) ==
    LET fs   == Files(dirs, d)
        own  == {[name |-> h.name, directory |-> h.dir, location |-> h.cluster] :
                   h \in {h \in made : h.parent = d}}
        body == IF d = RootCluster THEN fs ELSE SubSeq(fs, 3, Len(fs))
    IN  /\ d # RootCluster =>
             /\ Len(fs) >= 2
             /\ Visible(fs[1]) = [name |-> <<46>>, directory |-> TRUE, location |-> d]
             /\ \E h \in made :
                  /\ h.dir /\ h.cluster = d
                  /\ Visible(fs[2]) = [name |-> <<46, 46>>, directory |-> TRUE,
                                       location |-> h.parent]
        /\ \A k \in DOMAIN body : Visible(body[k]) \in own

(***************************************************************************)
(* A reachable directory lists exactly: "." and ".." first, except the    *)
(* root, then only entries a successful mkdir/touch created in it: the    *)
(* slots mkdir marked unused, and the end marker find_free_entry moves,   *)
(* hide everything else.                                                   *)
(***************************************************************************)
DirListsOnlyItsEntries == \A d \in ReachableDirs(dirs) : ListsOnly(d, created)

(***************************************************************************)
(* Under failing I/O with no rollback (spec.md section 7), a mkdir/touch  *)
(* that fails after writing its parent entry damages no directory but the *)
(* one it was creating: when the FAT, free-count or new-directory write   *)
(* fails, the parent lists the new entry, and a mkdir's cluster may keep  *)
(* the bytes of an earlier use of the disk; every other reachable         *)
(* directory still lists "." and ".." and only entries calls wrote.       *)
(***************************************************************************)
FailedCallsCorruptOnlyTheirOwn ==
    LET broken == {h.cluster : h \in {h \in failed : h.dir}}
    IN  \A d \in ReachableDirs(dirs) \ broken : ListsOnly(d, created \cup failed)

(* The tree ls shows: every entry, other than "." and "..", of every      *)
(* directory reachable from the root, as an entry of Fat32Abstract.       *)
Tree(ds) ==
    UNION {LET fs == Files(ds, d)
           IN  {[parent |-> d, name |-> fs[k].name, node |-> fs[k].location,
                 dir |-> fs[k].directory] :
                  k \in {k \in DOMAIN fs : fs[k].name \notin DotNames}} :
             d \in ReachableDirs(ds)}

FS == INSTANCE Fat32Abstract WITH Root <- RootCluster, Nodes <- DataClusters,
                                  tree <- Tree(dirs)

PathsKeepTheirTarget ==
    [][\A p \in Paths : FindClusterNumber(dirs, p).found =>
                         FindClusterNumber(dirs', p) = FindClusterNumber(dirs, p)]_vars

(***************************************************************************)
(* spec.md section 8: after touch/mkdir returned true, ls of the parent   *)
(* lists the name with the allocated cluster.                             *)
(***************************************************************************)
CreatedEntriesListed ==
    \A h \in created :
        [name |-> h.name, directory |-> h.dir, location |-> h.cluster]
            \in {Visible(f) : f \in Range(Files(dirs, h.parent))}

=============================================================================
