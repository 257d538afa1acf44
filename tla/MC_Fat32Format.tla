--------------------------- MODULE MC_Fat32Format ---------------------------
(***************************************************************************)
(* Checks the operators of Fat32Format over every name of a bounded set:   *)
(* the state is one name, chosen in Init and never changed, so each        *)
(* invariant is checked once per name.                                     *)
(***************************************************************************)
EXTENDS Fat32Format

CONSTANT MaxLen   \* longest name checked (the driver accepts up to 255)

VARIABLE name

(* Names of one repeated byte for every length, an alternating ASCII /     *)
(* high-byte pattern for every length, and all short names over 'a', a    *)
(* high byte and 0xFF.                                                     *)
TestNames ==
       {[p \in 1..n |-> 97] : n \in 1..MaxLen}
  \cup {[p \in 1..n |-> IF p % 2 = 1 THEN 97 ELSE 200] : n \in 1..MaxLen}
  \cup (BoundedSeq({97, 200, 255}, 3) \ {<<>>})

Init == name \in TestNames
Next == UNCHANGED name
Spec == Init /\ [][Next]_name

(***************************************************************************)
(* number_of_entries reserves exactly the LFN entries init_entry<true>     *)
(* then writes plus the short entry (so nothing is written past the run    *)
(* find_free_entry found), their sequence numbers are 1..k with 0x40 on    *)
(* the last only, and together they hold every byte of the name: the      *)
(* name is a prefix of what files() decodes from them.                     *)
(***************************************************************************)
EncodeFitsReservedRun ==
    LET ldes == LongEntries(name)
        k    == Len(ldes)
    IN  /\ k + 1 = NumberOfEntries(Len(name))
        /\ \A s \in 1..k : ldes[s].sequence_number
                             = s + (IF s = k THEN LastLongFlag ELSE 0)
        /\ IsPrefix(name, DecodeLong(ldes))

(***************************************************************************)
(* files() places each LFN entry by its sequence number, so a name whose   *)
(* entries are stored in descending order (as other FAT hosts write them,  *)
(* 0x40 entry first) decodes to the same name as the ascending order       *)
(* init_entry<true> writes.                                                *)
(***************************************************************************)
DecodeOrderIndependent ==
    DecodeLong(Reverse(LongEntries(name))) = DecodeLong(LongEntries(name))

(***************************************************************************)
(* spec.md section 8, LFN round trip: the name files() reads back from the *)
(* entries touch/mkdir wrote equals the name given.                        *)
(***************************************************************************)
LfnRoundTrip == DecodeLong(LongEntries(name)) = name

(***************************************************************************)
(* spec.md section 8, alias checksum: the stored checksum equals the       *)
(* unsigned 8-bit rotate-right-and-add over the 11-byte short form.        *)
(***************************************************************************)
RefChecksum(bytes) ==
    FoldLeft(LAMBDA s, b : ((s % 2) * 128 + s \div 2 + b) % 256, 0, bytes)

ChecksumMatchesReference ==
    \A s \in DOMAIN LongEntries(name) :
        LongEntries(name)[s].alias_checksum = RefChecksum(ShortName(name))

=============================================================================
