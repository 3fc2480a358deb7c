------------------------------ MODULE UpgFlash ------------------------------
(***************************************************************************)
(* writeDataToNand (common/upg_flash.c) for a raw partition: one call of   *)
(* i4NFBPartitionWrite, then, unless the upgrade is a "fast" one, a check  *)
(* that reads the range back in slices of u4BlockSize bytes and compares   *)
(* each with the image.  The slices need not be whole erase blocks.        *)
(***************************************************************************)
EXTENDS NandPart

CONSTANT SliceSize       \* u4BlockSize, 1024 * 1000 in the code

ASSUME SliceAssumption == SliceSize \in Nat \ {0} /\ SliceSize % WriteSize = 0

VARIABLES
  fast,      \* _fgDoFastUpg
  upg,       \* write, check, then the result UPGR_OK or UPGR_FAIL
  slice      \* u4BlockIndex

upgVars == <<fast, upg, slice>>
allVars == <<vars, upgVars>>

UInit ==
  /\ Init
  /\ fast \in BOOLEAN
  /\ upg = "write" /\ slice = 0

Writing ==
  /\ upg = "write"
  /\ Next
  /\ UNCHANGED upgVars

\* Only -1 ends the upgrade here; another error of the write is overwritten by
\* the result of the check, and reported when the check is skipped.
WriteDone ==
  /\ upg = "write" /\ pc = "done"
  /\ upg' = IF ret = -1 \/ (fast /\ ret # 0) THEN "UPGR_FAIL"
            ELSE IF fast THEN "UPGR_OK" ELSE "check"
  /\ UNCHANGED <<vars, fast, slice>>

Image(from, n) == [i \in 1 .. n |-> Img(from + i - 1)]

\* i4NFBPartitionRead of no bytes returns what block_isbad said of the last
\* block it looked at, which is 1 only at the end of the partition.
ReadNothing(off) ==
  IF BlockStart(SkipBad(off)) >= Size /\ NumBlocks - 1 \in bad THEN 1 ELSE 0

\* Mutant: a slice that differs is read again.
CheckSliceM ==
  /\ upg = "check" /\ slice < w.len \div SliceSize
  /\ PartRead(w.off + SliceSize * slice, SliceSize) = Image(SliceSize * slice, SliceSize)
  /\ slice' = slice + 1
  /\ UNCHANGED <<vars, upg, fast>>

CheckSlice ==
  /\ upg = "check" /\ slice < w.len \div SliceSize
  /\ upg' = IF PartRead(w.off + SliceSize * slice, SliceSize)
                 = Image(SliceSize * slice, SliceSize)
            THEN "check" ELSE "UPGR_FAIL"
  /\ slice' = slice + 1
  /\ UNCHANGED <<vars, fast>>

\* Mutant: the bytes after the last whole slice are not compared.
CheckRestM ==
  /\ upg = "check" /\ slice = w.len \div SliceSize
  /\ upg' = "UPGR_OK"
  /\ UNCHANGED <<vars, fast, slice>>

CheckRest ==
  /\ upg = "check" /\ slice = w.len \div SliceSize
  /\ LET from == SliceSize * slice
         n    == w.len % SliceSize
     IN upg' = IF /\ PartRead(w.off + from, n) = Image(from, n)
                  /\ n = 0 => ReadNothing(w.off + from) = 0
               THEN "UPGR_OK" ELSE "UPGR_FAIL"
  /\ UNCHANGED <<vars, fast, slice>>

UNext == Writing \/ WriteDone \/ CheckSlice \/ CheckRest

USpec == UInit /\ [][UNext]_allVars /\ WF_allVars(UNext)

(***************************************************************************)
(* Properties.                                                             *)
(***************************************************************************)
\* UPGR_OK from a checked write means the whole image is readable in the
\* partition, even when a block with a head went bad and the write itself
\* misplaced the image.  And the check raises no false alarm: a page-aligned
\* write that went through without a failing driver call is UPGR_OK (but for an
\* image that ends a slice and the partition, whose last block is bad).
CheckedWrite ==
  /\ upg = "UPGR_OK" /\ ~fast =>
       \A o \in Request : o < LogSize /\ flash[Phys(o)] = Img(o - w.off)
  /\ /\ upg = "UPGR_FAIL" /\ pc = "done" /\ ret = 0 /\ NoFailures
     /\ w.off % WriteSize = 0
     => w.len % SliceSize = 0 /\ w.off + w.len = LogSize /\ NumBlocks - 1 \in bad

\* Every call of writeDataToNand comes to a result.
UpgReturns == (pc # "idle") ~> (upg \in {"UPGR_OK", "UPGR_FAIL"})
=============================================================================
