-------------------------- MODULE MC_MetadataCache --------------------------
(***************************************************************************)
(* Instantiates MetadataCache for TLC: partitions are pairs of small      *)
(* uuids, and each starts with a different number of free clusters, so a *)
(* counter written to the wrong partition is out of that partition's      *)
(* bounds.                                                                 *)
(***************************************************************************)
EXTENDS MetadataCache

MCInitFree == [p \in Partitions |-> p[1] + 2 * p[2] - 1]

=============================================================================
