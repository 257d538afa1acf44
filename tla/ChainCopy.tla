----------------------------- MODULE ChainCopy -----------------------------
(***************************************************************************)
(* What read_file of kernel/src/fat32.cpp promises (spec.md sections 4.2,  *)
(* 4.5 and 8): it copies the clusters of the file's chain, one at a time  *)
(* and in the order the chain links them, until the chain ends or the     *)
(* file is complete; an I/O failure may end the copy early; and the copy  *)
(* ends.  chain is the part of the chain the file's size covers, fixed    *)
(* for the call; copied counts the clusters copied; at is the cluster     *)
(* the copy reads next.                                                    *)
(***************************************************************************)
EXTENDS Naturals, Sequences

CONSTANT IoFail   \* TRUE when a sector read may fail

VARIABLES chain, copied, at, done

vars == <<chain, copied, at, done>>

(* An empty chain (file_size 0) is not read at all.                       *)
Init ==
    /\ copied = 0
    /\ done = (chain = <<>>)
    /\ chain /= <<>> => at = chain[1]

(* Copy the cluster at; the copy is complete once the whole chain is       *)
(* copied, else it moves to the next cluster or a failed FAT read ends it. *)
Copy ==
    /\ ~done
    /\ copied' = copied + 1
    /\ IF copied' = Len(chain)
       THEN done' = TRUE /\ UNCHANGED at
       ELSE \/ at' = chain[copied' + 1] /\ done' = FALSE
            \/ IoFail /\ done' = TRUE /\ UNCHANGED at
    /\ UNCHANGED chain

(* A failed read of the cluster at ends the copy.                          *)
Fail ==
    /\ IoFail /\ ~done
    /\ done' = TRUE
    /\ UNCHANGED <<chain, copied, at>>

Next == Copy \/ Fail

Spec == Init /\ [][Next]_vars /\ WF_vars(Next)

=============================================================================
