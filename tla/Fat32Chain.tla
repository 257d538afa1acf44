----------------------------- MODULE Fat32Chain -----------------------------
(***************************************************************************)
(* The two cluster-chain walks of kernel/src/fat32.cpp over a volume      *)
(* written by any FAT32 host: files(disk, cluster), which lists a         *)
(* directory cluster by cluster, and the loop of read_file, which copies  *)
(* a file cluster by cluster.  Both follow next_cluster, which reads the  *)
(* FAT through read_fat_value.  One call is modelled: files() takes one   *)
(* step per cluster read, slot or next_cluster, read_file one per loop    *)
(* iteration; the call ends in pc = "done".                                *)
(***************************************************************************)
EXTENDS Integers, Sequences, SequencesExt, FiniteSets, Fat32Format

CONSTANTS
    SectorBytes,   \* 512: the literal of the FAT index arithmetic
    FatSectors,    \* sectors of the FAT
    ClusterBytes,  \* sectors_per_cluster * 512, scaled
    DirImages,     \* slot sequences a directory cluster of the volume holds
    FileSizes,     \* file_size of the entry read_file found (> 0)
    AllowCycles,   \* TRUE: the FAT may be corrupt and link a chain into a cycle
    IoFail,        \* TRUE when a sector read may fail
    Ops            \* the calls modelled: a subset of {"ls", "read"}

EntriesPerSector == SectorBytes \div 4
MaxCluster       == FatSectors * EntriesPerSector - 1
Clusters         == 0..MaxCluster
DataClusters     == 2..MaxCluster

ASSUME /\ SectorBytes % 4 = 0 /\ EntriesPerSector >= 3
       /\ FatSectors \in Nat \ {0} /\ ClusterBytes \in Nat \ {0}
       /\ FileSizes \subseteq Nat \ {0}
       /\ AllowCycles \in BOOLEAN /\ IoFail \in BOOLEAN
       /\ Ops \subseteq {"ls", "read"}

EOC         == 268435448   \* 0x0FFFFFF8: next_cluster returns 0 from here up
Bad         == 268435447   \* 0x0FFFFFF7, the bad-cluster sentinel
BufferBytes == 256         \* char long_name_buffer[256]

(* The entries a FAT of this volume holds for its data clusters.           *)
FatValues == DataClusters \cup {0, EOC, Bad}

VARIABLES
    fat,     \* the FAT: cluster -> 28-bit entry
    dirs,    \* data cluster -> its slots, read as a directory
    op,      \* "ls": files(cluster); "read": the loop of read_file
    pc,      \* "run" while the loop goes on, "done" once the call returns
    cur,     \* cluster_number
    k,       \* files(): the slot of the cluster (0: not yet read)
    st,      \* files(): long_name, long_name_buffer, i (its records are
             \* not kept: no property here is about them)
    start,   \* the first cluster of the walk
    size,    \* read_file: file_size
    read,    \* read_file: bytes copied
    failed   \* a sector read of this call failed

vars == <<fat, dirs, op, pc, cur, k, st, start, size, read, failed>>

Outcomes == IF IoFail THEN BOOLEAN ELSE {TRUE}

(***************************************************************************)
(* read_fat_value: read FAT sector (c * 4) / 512 and take entry c % 512 of *)
(* its 128-entry buffer.  An index past the buffer reads the heap, and a  *)
(* sector past the FAT some other sector: any value.  A failed read gives *)
(* 0.  The set of [v, ok] outcomes.                                        *)
(***************************************************************************)
ReadFatValue(f, c) ==
    LET sector == (c * 4) \div SectorBytes
        index  == c % SectorBytes
        vals   == IF index < EntriesPerSector /\ sector < FatSectors
                  THEN {f[sector * EntriesPerSector + index]}
                  ELSE FatValues
    IN  {[v |-> v, ok |-> TRUE] : v \in vals}
          \cup (IF IoFail THEN {[v |-> 0, ok |-> FALSE]} ELSE {})

(* next_cluster: 0 for an end-of-chain entry, else the entry.              *)
NextCluster(f, c) ==
    {[v |-> IF r.v >= EOC THEN 0 ELSE r.v, ok |-> r.ok] : r \in ReadFatValue(f, c)}

(* A variant that misses the sentinel.                                     *)
ChainStopsAtZeroOnly(v) == v = 0

(* files() and read_file stop on 0 (end, free entry or failed read) and    *)
(* on the bad-cluster sentinel.                                            *)
ChainStops(v) == v = 0 \/ v = Bad

(***************************************************************************)
(* The while loop of files(), one step per I/O or slot: read the cluster  *)
(* (k = 0; a failure returns what was found), take its slots one by one   *)
(* (k = 1..Len; an end marker returns), then follow next_cluster.         *)
(***************************************************************************)
ListRead ==
    /\ op = "ls" /\ pc = "run" /\ k = 0
    /\ \E ok \in Outcomes :
         IF ok THEN k' = 1 /\ UNCHANGED <<pc, failed>>
         ELSE pc' = "done" /\ failed' = TRUE /\ UNCHANGED k
    /\ UNCHANGED <<fat, dirs, op, cur, st, start, size, read>>

ListSlot ==
    /\ op = "ls" /\ pc = "run" /\ k \in 1..Len(dirs[cur])
    /\ LET s == dirs[cur][k]
       IN  IF EndOfDirectory(s)
           THEN pc' = "done" /\ UNCHANGED <<k, st>>
           ELSE st' = SlotState(st, s) /\ k' = k + 1 /\ UNCHANGED pc
    /\ UNCHANGED <<fat, dirs, op, cur, start, size, read, failed>>

(* A variant that drops next_cluster's result and reads the cluster again. *)
ListNextUnassigned ==
    /\ op = "ls" /\ pc = "run" /\ k = Len(dirs[cur]) + 1
    /\ \E n \in NextCluster(fat, cur) :
         /\ failed' = ~n.ok
         /\ IF ChainStops(n.v)
            THEN pc' = "done" /\ UNCHANGED <<cur, k>>
            ELSE pc' = "run" /\ k' = 0 /\ UNCHANGED cur
    /\ UNCHANGED <<fat, dirs, op, st, start, size, read>>

ListNext ==
    /\ op = "ls" /\ pc = "run" /\ k = Len(dirs[cur]) + 1
    /\ \E n \in NextCluster(fat, cur) :
         /\ failed' = ~n.ok
         /\ IF ChainStops(n.v)
            THEN pc' = "done" /\ UNCHANGED <<cur, k>>
            ELSE pc' = "run" /\ cur' = n.v /\ k' = 0
    /\ UNCHANGED <<fat, dirs, op, st, start, size, read>>

ListStep == ListRead \/ ListSlot \/ ListNext

(* Variants of the copy loop: read not advanced; a whole cluster copied.   *)
BytesCopiedNone(remaining) == 0
BytesCopiedWhole(remaining) == ClusterBytes

(* The inner for loop of read_file: min(cluster_size, file_size - read).   *)
BytesCopied(remaining) == IF remaining < ClusterBytes THEN remaining ELSE ClusterBytes

(***************************************************************************)
(* One iteration of the while loop of read_file: read the cluster (a      *)
(* failure breaks), copy its bytes; if the file is not complete follow    *)
(* next_cluster, breaking on 0 or the sentinel.                           *)
(***************************************************************************)
ReadStep ==
    /\ op = "read" /\ pc = "run"
    /\ \E ok \in Outcomes :
         IF ~ok
         THEN /\ pc' = "done" /\ failed' = TRUE
              /\ UNCHANGED <<cur, read>>
         ELSE LET read1 == read + BytesCopied(size - read)
              IN  /\ read' = read1
                  /\ IF read1 >= size
                     THEN pc' = "done" /\ UNCHANGED <<cur, failed>>
                     ELSE \E n \in NextCluster(fat, cur) :
                            /\ failed' = ~n.ok
                            /\ IF ChainStops(n.v)
                               THEN pc' = "done" /\ UNCHANGED cur
                               ELSE pc' = "run" /\ cur' = n.v
    /\ UNCHANGED <<fat, dirs, op, start, k, st, size>>

-----------------------------------------------------------------------------
(* The chain from c as the FAT links it, at most n clusters.               *)
RECURSIVE Chain(_, _, _)
Chain(f, c, n) ==
    IF n = 0 THEN <<>>
    ELSE <<c>> \o (IF f[c] \in DataClusters THEN Chain(f, f[c], n - 1) ELSE <<>>)

(* A FAT of a sound volume: no chain returns to a cluster it has left.    *)
Acyclic(f) ==
    \A c \in DataClusters :
        LET ch == Chain(f, c, Cardinality(DataClusters))
        IN  f[Last(ch)] \notin DataClusters

(***************************************************************************)
(* The volume: clusters 0 and 1 reserved, every data cluster's entry and  *)
(* directory content chosen; one call, files() from a directory's first   *)
(* cluster or read_file from a file's first cluster with its size.        *)
(***************************************************************************)
Init ==
    /\ \E f \in [DataClusters -> FatValues] :
         /\ AllowCycles \/ Acyclic(f)
         /\ fat = [c \in Clusters |-> IF c < 2 THEN EOC ELSE f[c]]
    /\ op \in Ops
    /\ dirs \in IF op = "ls" THEN [DataClusters -> DirImages]
                ELSE {[c \in DataClusters |-> CHOOSE i \in DirImages : TRUE]}
    /\ start \in DataClusters
    /\ size \in IF op = "read" THEN FileSizes ELSE {0}
    /\ pc = "run"
    /\ cur = start
    /\ k = 0
    /\ st = NoLongName
    /\ read = 0
    /\ failed = FALSE

Next == ListStep \/ ReadStep

(* Each loop is code the kernel runs to its end once called: both steps   *)
(* are weakly fair.                                                        *)
Fairness == WF_vars(ListStep) /\ WF_vars(ReadStep)

Spec == Init /\ [][Next]_vars /\ Fairness

-----------------------------------------------------------------------------
(* Properties.                                                             *)

TypeOK ==
    /\ fat \in [Clusters -> FatValues \cup {EOC}]
    /\ op \in {"ls", "read"} /\ pc \in {"run", "done"}
    /\ cur \in DataClusters
    /\ k \in 0..Len(dirs[cur]) + 1
    /\ read \in 0..size
    /\ failed \in BOOLEAN

(***************************************************************************)
(* spec.md section 4.3.1: the listing follows the chain and stops at an   *)
(* end marker, the end of the chain or the sentinel: files() returns.     *)
(***************************************************************************)
ListingTerminates == op = "ls" => <>(pc = "done")

(* The same, for a volume whose FAT links no chain into a cycle.         *)
SoundListingTerminates == op = "ls" /\ Acyclic(fat) => <>(pc = "done")

(***************************************************************************)
(* Every position files() writes into long_name_buffer, for the long-name *)
(* entries of the volume and across the clusters of a directory, lies in *)
(* its 256 bytes.                                                          *)
(***************************************************************************)
NameBufferInBounds == \A p \in DOMAIN st.buf : 0 <= p /\ p < BufferBytes

(* The clusters of the file's chain that file_size covers.               *)
FileChain == Chain(fat, start, (size + ClusterBytes - 1) \div ClusterBytes)

(* The loop of read_file seen as the copy ChainCopy describes: the chain  *)
(* it should follow, the clusters copied (read rounded up to clusters),   *)
(* the cluster it reads next, and whether it returned.  A listing call    *)
(* (size 0) copies nothing: the empty copy, done from the start.          *)
CC == INSTANCE ChainCopy
          WITH chain  <- FileChain,
               copied <- (read + ClusterBytes - 1) \div ClusterBytes,
               at     <- IF op = "read" THEN cur ELSE start,
               done   <- (op = "ls" \/ pc = "done")

(***************************************************************************)
(* spec.md sections 4.2, 4.5 and 8 (scenario 6): read_file copies the     *)
(* file's clusters in the order the FAT links them, up to file_size or to *)
(* the end of the chain or the sentinel, stops early only on a failed     *)
(* read, and returns, even when a corrupt FAT links the chain into a      *)
(* cycle.                                                                  *)
(***************************************************************************)
ReadImplementsChainCopy == CC!Spec

(***************************************************************************)
(* spec.md section 4.3.1: an unused (0xE5) slot resets a partial LFN      *)
(* accumulation, and a short entry emits and resets it; so the long name  *)
(* files() gives a short entry comes from the long entries right before   *)
(* it.  Stated for the slot files() is at, within its cluster.             *)
(***************************************************************************)
LongNameFromAdjacentRun ==
    LET s == dirs[cur][k]
    IN  (/\ op = "ls" /\ pc = "run" /\ k \in 2..Len(dirs[cur])
         /\ ~EndOfDirectory(s) /\ ~EntryUnused(s) /\ ~IsLong(s)
         /\ st.long)
        => IsLong(dirs[cur][k - 1])

=============================================================================
