------------------------------ MODULE MC_Fat32 ------------------------------
(***************************************************************************)
(* Instantiates Fat32 for TLC.  Scaled geometry: 8 FAT entries per sector *)
(* (128 on disk), the FAT index literal scaled with it (32 for 512),      *)
(* 2 sectors per cluster and 8 directory slots per cluster (32 on disk).  *)
(***************************************************************************)
EXTENDS Fat32

(* "a": one long entry and the short entry (2 slots).                      *)
NameShort == <<97>>
(* "bbbbbbbbbbbbb", 13 bytes: two long entries and the short (3 slots).    *)
NameLong  == [p \in 1..13 |-> 98]

MCNames     == {NameShort, NameLong}

=============================================================================
