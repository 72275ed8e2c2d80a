------------------------------- MODULE LfsRom -------------------------------
(***************************************************************************)
(* The internal flash as littlefs's block device (library/VFS/VFS_LFS.c,   *)
(* lfs_rom_erase and lfs_rom_write), in pages of LFS_ROM_PROG_SIZE bytes.  *)
(* littlefs programs a region inside a block, of pages that it has not     *)
(* programmed since the block was erased.                                  *)
(***************************************************************************)
EXTENDS Integers, Sequences

CONSTANTS
  Blocks,
  Pages,  \* pages of a block (block_size / LFS_ROM_PROG_SIZE)
  Bits    \* the bits of a page

Content == SUBSET Bits  \* the bits that are 1
Erased == Bits
PageOffsets == 0..(Pages - 1)

VARIABLES
  flash,  \* flash[b][p]: the content of page p of block b
  asked   \* history: asked[b][p]: what littlefs has asked for since the erase

vars == <<flash, asked>>

Init ==
  /\ flash = [b \in Blocks |-> [p \in PageOffsets |-> Erased]]
  /\ asked = flash

\* lfs_rom_erase.
Erase(b) ==
  /\ flash' = [flash EXCEPT ![b] = [p \in PageOffsets |-> Erased]]
  /\ asked' = [asked EXCEPT ![b] = flash'[b]]

\* The pages lfs_rom_write programs from off: with an offset, to the end of
\* the block; without, the region.
Programmed(off, data) ==
  IF off # 0 THEN off..(Pages - 1) ELSE 0..(Len(data) - 1)

\* lfs_rom_write.  Programming clears bits; what it programs behind the end
\* of the buffer is whatever lies there in memory.
Write(b, off, data) ==
  \E behind \in [PageOffsets -> Content] :
    LET In(p) == p - off \in 0..(Len(data) - 1)
        Source(p) == IF In(p) THEN data[p - off + 1] ELSE behind[p]
    IN
    /\ off + Len(data) <= Pages
    /\ \A p \in PageOffsets : In(p) => asked[b][p] = Erased
    /\ flash' = [flash EXCEPT ![b] = [p \in PageOffsets |->
         IF p \in Programmed(off, data) THEN @[p] \cap Source(p) ELSE @[p]]]
    /\ asked' = [asked EXCEPT ![b] = [p \in PageOffsets |->
         IF In(p) THEN data[p - off + 1] ELSE @[p]]]

Next ==
  \E b \in Blocks :
    \/ Erase(b)
    \/ \E off \in PageOffsets, n \in 1..Pages :
         \E data \in [1..n -> Content] : Write(b, off, data)

Spec == Init /\ [][Next]_vars
-----------------------------------------------------------------------------
\* lfs.h: prog programs "a region in a block": a page that littlefs has not
\* programmed is still erased, so that it can be programmed later, and one
\* that it has programmed holds what was asked for.
RegionProgrammed == \A b \in Blocks, p \in PageOffsets : flash[b][p] = asked[b][p]
=============================================================================
