---------------------------- MODULE Fat32Abstract ----------------------------
(***************************************************************************)
(* What the FAT32 driver of kernel/src/fat32.cpp promises of the tree of  *)
(* names it stores (spec.md sections 3.2, 4.5 and 8), with no disk        *)
(* layout: a set of entries, each naming a node under a parent directory. *)
(* mkdir and touch either add one entry, for a node no entry uses yet,    *)
(* under a directory already in the tree, or change nothing; no operation *)
(* deletes, renames or moves an entry; ls, read_file and free_size change *)
(* nothing.                                                                *)
(***************************************************************************)
EXTENDS FiniteSets

CONSTANTS
    Root,    \* the node of the root directory
    Nodes,   \* the nodes entries may name (the root among them)
    Names    \* the names given to mkdir and touch

ASSUME Root \in Nodes

VARIABLE tree   \* the set of entries

Entry == [parent : Nodes, name : Names, node : Nodes, dir : BOOLEAN]

(* The directories of tree t: the root and the nodes of its directory    *)
(* entries.                                                                *)
DirNodes(t) == {Root} \cup {e.node : e \in {e \in t : e.dir}}

(* The nodes tree t uses.                                                  *)
UsedNodes(t) == {Root} \cup {e.node : e \in t}

Init == tree = {}

(***************************************************************************)
(* mkdir or touch: the new tree is the old one with one entry e added,    *)
(* under a directory of the old tree, for a node the old tree does not   *)
(* use.  e is the one element of new \ old; naming it so is the same as   *)
(* quantifying over Entry, without enumerating Entry.                      *)
(***************************************************************************)
Create(old, new) ==
    \E e \in new \ old :
        /\ e \in Entry
        /\ e.parent \in DirNodes(old)
        /\ e.node \in Nodes \ UsedNodes(old)
        /\ new = old \cup {e}

Next == Create(tree, tree')

Spec == Init /\ [][Next]_tree

TypeOK == tree \subseteq Entry

=============================================================================
