---------------------------- MODULE Fat32Format ----------------------------
(***************************************************************************)
(* The pure, byte-level part of the FAT32 driver (kernel/src/fat32.cpp):   *)
(* the VFAT long-file-name (LFN) encoder of init_entry, the LFN decoder    *)
(* that files() runs over a directory, the alias checksum, the short-name  *)
(* copy and number_of_entries.                                             *)
(*                                                                         *)
(* A name is a sequence of bytes (integers 1..255).  The driver keeps      *)
(* names in "char", so every conversion depends on whether the build's     *)
(* char is signed (CharSigned): a byte b >= 128 is the char value b - 256, *)
(* and static_cast<uint16_t> of it sign-extends to 0xFF00 + b.             *)
(***************************************************************************)
EXTENDS Integers, Sequences, SequencesExt, FiniteSets

CONSTANT CharSigned   \* TRUE when the compiler's char is signed (x86-64 GCC)

ASSUME CharSigned \in BOOLEAN

Space        == 32    \* ' ', the padding of a short name
Pad          == 255   \* 0xFF, the padding of unused LFN code units
LongAttrib   == 15    \* 0x0F, attrib of a long-name entry
LastLongFlag == 64    \* 0x40, marks the last LFN entry of a name
UnitsPerLong == 13    \* 5 + 6 + 2 UCS-2 code units per long entry
Stale        == -1    \* a long_name_buffer byte no entry of this listing wrote

(* The value a char holding byte b has.                                    *)
AsChar(b) == IF CharSigned /\ b >= 128 THEN b - 256 ELSE b

(* The char an int is stored into (implementation-defined wrap mod 256).   *)
ToChar(x) == IF CharSigned THEN ((x + 128) % 256) - 128 ELSE x % 256

(* static_cast<uint16_t>(c) of the char holding byte b, and back.          *)
CharToUnit(b) == IF CharSigned /\ b >= 128 THEN 65280 + b ELSE b
UnitToByte(u) == u % 256

(* files(): a code unit equal to 0x0 or 0xFF ends the name.                *)
IsNameEnd(u) == u = 0 \/ u = Pad

(* A variant counting 13 name bytes per long entry.                       *)
NumberOfEntriesPer13(len) == (len - 1) \div 13 + 2

(***************************************************************************)
(* number_of_entries: slots reserved for a name, LFN entries plus the      *)
(* short entry.  init_entry<true> writes LfnSequences(len) LFN entries.    *)
(***************************************************************************)
NumberOfEntries(len) == (len - 1) \div 11 + 2

LfnSequences(len) == (len - 1) \div 11 + 1

(***************************************************************************)
(* The alias checksum loop of init_entry<true>: over the first 11 bytes of *)
(* the raw name (spaces past its end), sum = rotate + v, in char.          *)
(***************************************************************************)
ChecksumStep(sum, v) == ToChar((IF sum % 2 = 1 THEN 128 ELSE 0) + (sum \div 2) + v)

LfnChecksum(name) ==
    LET v == [c \in 1..11 |-> IF c <= Len(name) THEN AsChar(name[c]) ELSE Space]
    IN  FoldLeft(ChecksumStep, 0, v) % 256

(***************************************************************************)
(* init_entry<true>: the LFN entries, in ascending physical order, each    *)
(* with 13 code units of the name or Pad; the last one carries 0x40.       *)
(***************************************************************************)
LongEntries(name) ==
    LET len == Len(name)
        k   == LfnSequences(len)
    IN  [s \in 1..k |->
          [sequence_number |-> IF s = k THEN s + LastLongFlag ELSE s,
           attrib          |-> LongAttrib,
           alias_checksum  |-> LfnChecksum(name),
           units           |-> [j \in 1..UnitsPerLong |->
                                  LET p == (s - 1) * UnitsPerLong + j
                                  IN  IF p <= len THEN CharToUnit(name[p])
                                                  ELSE Pad]]]

(* init_entry: the 11-byte name field, copied and space padded.            *)
ShortName(name) == [j \in 1..11 |-> IF j <= Len(name) THEN name[j] ELSE Space]

(* files(): a short entry's name is its name field up to the first space.  *)
ShortDecoded(name11) ==
    LET ends == {j \in 1..11 : name11[j] = Space}
    IN  IF ends = {} THEN name11
        ELSE SubSeq(name11, 1, Min(ends) - 1)

(***************************************************************************)
(* The LFN accumulator of files(): long_name (a flag), long_name_buffer    *)
(* (positions 0..  -> byte; never cleared during one listing) and i, the   *)
(* largest position reached.  Start of a listing: NoLongName.              *)
(***************************************************************************)
NoLongName == [long |-> FALSE, buf |-> <<>>, i |-> 0]

(* A variant that does not clear the 0x40 flag.                          *)
LongStartUnmasked(seq) == (seq - 1) * UnitsPerLong

(* (sequence_number & ~0x40) - 1) * 13                                     *)
LongStart(seq) ==
    ((seq - (IF (seq \div LastLongFlag) % 2 = 1 THEN LastLongFlag ELSE 0)) - 1)
        * UnitsPerLong

(* Code units before the first terminator.                                 *)
UnitsBeforeEnd(units) ==
    LET ends == {j \in 1..UnitsPerLong : IsNameEnd(units[j])}
    IN  IF ends = {} THEN UnitsPerLong ELSE Min(ends) - 1

(* A variant that appends each entry at the current length.               *)
AddLongEntryAppend(st, lde) ==
    LET l   == st.i
        n   == UnitsBeforeEnd(lde.units)
        new == {l + j : j \in 0..(n - 1)}
    IN  [long |-> TRUE,
         buf  |-> [p \in DOMAIN st.buf \cup new |->
                     IF p \in new THEN UnitToByte(lde.units[p - l + 1])
                     ELSE st.buf[p]],
         i    |-> l + n]

(* files(), long-name branch: copy the units to positions l.., i = max.    *)
AddLongEntry(st, lde) ==
    LET l   == LongStart(lde.sequence_number)
        n   == UnitsBeforeEnd(lde.units)
        new == {l + j : j \in 0..(n - 1)}
    IN  [long |-> TRUE,
         buf  |-> [p \in DOMAIN st.buf \cup new |->
                     IF p \in new THEN UnitToByte(lde.units[p - l + 1])
                     ELSE st.buf[p]],
         i    |-> IF l + n > st.i THEN l + n ELSE st.i]

(* files(), short-entry branch with long_name set: bytes 0..i-1.           *)
LongName(st) ==
    [p \in 1..st.i |-> IF p - 1 \in DOMAIN st.buf THEN st.buf[p - 1] ELSE Stale]

(* After the short entry: long_name = false, i = 0, buffer kept.           *)
EndLongName(st) == [st EXCEPT !.long = FALSE, !.i = 0]

(* The name the listing reports for a name written by init_entry<true>.    *)
DecodeLong(ldes) ==
    LongName(FoldLeft(AddLongEntry, NoLongName, ldes))

-----------------------------------------------------------------------------
(* Directory slots.  A short slot is [name, attrib, cluster, size] (name: *)
(* 11 bytes); a long slot is [sequence_number, attrib = 0x0F,             *)
(* alias_checksum, units].  Byte 0 of a slot is name[0] or                *)
(* sequence_number.                                                        *)

IsLong(s) == s.attrib = LongAttrib
Byte0(s)  == IF IsLong(s) THEN s.sequence_number ELSE s.name[1]

(* end_of_directory, entry_unused (name[0] is a char compared with 0xE5).  *)
EndOfDirectory(s) == Byte0(s) = 0
EntryUnused(s)    == AsChar(Byte0(s)) = 229
IsDirectory(a)    == (a \div 16) % 2 = 1

(* The LFN accumulator after one slot of files() that is not an end      *)
(* marker: an unused slot leaves it, a long slot adds its units, a short  *)
(* slot ends the long name it closes.                                      *)
SlotState(st, s) ==
    IF EntryUnused(s) THEN st
    ELSE IF IsLong(s) THEN AddLongEntry(st, s)
    ELSE IF st.long THEN EndLongName(st)
    ELSE st

(* The record files() pushes for a short slot s after the accumulator st. *)
(* dirSize: the size reported for a directory (sectors_per_cluster * 512). *)
SlotRecord(st, s, dirSize) ==
    [name      |-> IF st.long THEN LongName(st) ELSE ShortDecoded(s.name),
     directory |-> IsDirectory(s.attrib),
     size      |-> IF IsDirectory(s.attrib) THEN dirSize ELSE s.size,
     location  |-> s.cluster]

(***************************************************************************)
(* The loop of files() over the slots of one cluster from slot k, with    *)
(* the LFN accumulator st and the records acc found so far: stop at an    *)
(* end marker (end = TRUE), else apply the slot and, for a used short     *)
(* slot, push its record.                                                  *)
(***************************************************************************)
RECURSIVE ScanSlots(_, _, _, _, _)
ScanSlots(slots, k, st, acc, dirSize) ==
    IF k > Len(slots) THEN [st |-> st, acc |-> acc, end |-> FALSE]
    ELSE IF EndOfDirectory(slots[k]) THEN [st |-> st, acc |-> acc, end |-> TRUE]
    ELSE LET s    == slots[k]
             push == ~EntryUnused(s) /\ ~IsLong(s)
         IN  ScanSlots(slots, k + 1, SlotState(st, s),
                       IF push THEN Append(acc, SlotRecord(st, s, dirSize)) ELSE acc,
                       dirSize)

=============================================================================
