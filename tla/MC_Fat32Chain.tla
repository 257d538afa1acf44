--------------------------- MODULE MC_Fat32Chain ---------------------------
(***************************************************************************)
(* Instantiates Fat32Chain for TLC: 4 slots per directory cluster, a      *)
(* cluster of 2 (scaled) bytes, and the directory clusters another FAT32  *)
(* host may have written.                                                  *)
(***************************************************************************)
EXTENDS Fat32Chain

ShortSlot(b) == [name |-> [j \in 1..11 |-> IF j = 1 THEN b ELSE Space],
                 attrib |-> 0, cluster |-> 0, size |-> 0]
EndSlotMC    == [name |-> [j \in 1..11 |-> 0], attrib |-> 0, cluster |-> 0, size |-> 0]
(* A long entry holding n bytes 'a', then 0x0000, then 0xFF padding.       *)
LongSlot(seq, n) ==
    [sequence_number |-> seq, attrib |-> LongAttrib, alias_checksum |-> 0,
     units |-> [j \in 1..UnitsPerLong |-> IF j <= n THEN 97
                                          ELSE IF j = n + 1 THEN 0 ELSE Pad]]

(* A short entry then the end marker.                                      *)
ImgEnd      == <<ShortSlot(97), EndSlotMC, EndSlotMC, EndSlotMC>>
(* Four short entries: the listing goes on to the next cluster.            *)
ImgFull     == <<ShortSlot(97), ShortSlot(98), ShortSlot(99), ShortSlot(100)>>
(* The last two long entries of a 255-byte name (0x54: 20 | 0x40).         *)
ImgLongTail == <<LongSlot(84, 8), LongSlot(19, 13), ShortSlot(97), ShortSlot(98)>>
(* A long-named file deleted by another host: its entries start with 0xE5. *)
ImgDeleted  == <<LongSlot(229, 13), ShortSlot(229), ShortSlot(97), ShortSlot(98)>>

MCDirImages    == {ImgEnd, ImgFull, ImgLongTail, ImgDeleted}
MCDirImagesEnd == {ImgEnd}

(* A file whose short entry was deleted (0xE5) while its long entry (0x41: *)
(* 1 | 0x40, "aa") was left, followed by a file with no long name.         *)
ImgOrphan == <<LongSlot(65, 2), ShortSlot(229), ShortSlot(98), EndSlotMC>>

MCDirImagesOrphan == {ImgOrphan}

=============================================================================
