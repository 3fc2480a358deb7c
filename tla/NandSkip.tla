------------------------------ MODULE NandSkip ------------------------------
(***************************************************************************)
(* Reading and writing an image around the bad blocks of a NAND device:    *)
(* nand_read_skip_bad, nand_write_skip_bad and the count of get_len_incl_  *)
(* bad that decides how (nand_util.c).  The unit of length is the page.    *)
(***************************************************************************)
EXTENDS Integers, FiniteSets, Sequences

CONSTANTS SkipBlocks, SkipPer, MaxSkipBad   \* the device and its bad blocks

ASSUME NandSkipAssumption ==
  /\ SkipBlocks \in Nat \ {0} /\ SkipPer \in Nat \ {0} /\ MaxSkipBad \in Nat

Size == SkipBlocks * SkipPer

VARIABLES
  badBlocks,     \* bad blocks of the device
  step,          \* idle, count, decide, fast, loop
  start, asked,  \* offset and length of the call
  length,        \* *length: what the caller is told
  offset,        \* where the loop is
  incl, excl,    \* len_incl_bad, len_excl_bad
  left,          \* left_to_read, left_to_write
  moved,         \* history: flash pages read or written, in order
  result,        \* 0, -22 (EINVAL), -5 (a failing page)
  fewer,         \* history: the count stopped before it had the length
  ended          \* history: the loop ran past the last block

skip == <<badBlocks, step, start, asked, length, offset, incl, excl, left,
          moved, result, fewer, ended>>

SkipInit ==
  /\ badBlocks \in {b \in SUBSET (0 .. SkipBlocks - 1) : Cardinality(b) <= MaxSkipBad}
  /\ step = "idle" /\ start = 0 /\ asked = 0 /\ length = 0 /\ offset = 0
  /\ incl = 0 /\ excl = 0 /\ left = 0 /\ moved = <<>> /\ result = 0
  /\ fewer = FALSE /\ ended = FALSE

-----------------------------------------------------------------------------
\* nand_block_isbad: past the end of the device every block is bad (-EINVAL), and
\* right at its end the table is read behind its last entry.
MayBeBad(o)  == o >= Size \/ o \div SkipPer \in badBlocks
MayBeGood(o) == o <= Size /\ o \div SkipPer \notin badBlocks

ToBlockEnd(o) == SkipPer - (o % SkipPer)

Call ==
  /\ step = "idle"
  /\ \E o \in 0 .. Size - 1, n \in 1 .. Size :
       /\ start' = o /\ offset' = o
       /\ asked' = n /\ length' = n /\ left' = n
  /\ step' = "count" /\ incl' = 0 /\ excl' = 0 /\ moved' = <<>> /\ result' = 0
  /\ fewer' = FALSE /\ ended' = FALSE /\ UNCHANGED badBlocks

\* One block of get_len_incl_bad.  Where it stops the offset has already moved
\* by what it has counted.
Count ==
  /\ step = "count"
  /\ \E n \in {ToBlockEnd(offset)} :
       /\ offset' = offset + n /\ incl' = incl + n
       /\ excl' = IF MayBeGood(offset) THEN excl + n ELSE excl
  /\ fewer' = (offset' + incl' >= Size /\ excl' < length)
  /\ step' = IF excl' < length /\ offset' + incl' < Size THEN "count" ELSE "decide"
  /\ UNCHANGED <<badBlocks, start, asked, length, left, moved, result, ended>>

\* The image does not fit, it meets no bad block, or it meets some.
Decide ==
  /\ step = "decide" /\ offset' = start
  /\ \/ start + incl >= Size /\ step' = "idle" /\ result' = -22
     \/ start + incl < Size /\ incl = length /\ step' = "fast" /\ UNCHANGED result
     \/ start + incl < Size /\ incl # length /\ step' = "loop" /\ UNCHANGED result
  /\ UNCHANGED <<badBlocks, start, asked, length, incl, excl, left, moved, fewer, ended>>

\* n pages from the offset on.
Move(n) == moved' = moved \o [i \in 1 .. n |-> (offset + i) - 1]

Fast ==
  /\ step = "fast" /\ step' = "idle"
  /\ \E n \in 0 .. length :
       /\ Move(n) /\ length' = n /\ result' = IF n = length THEN 0 ELSE -5
  /\ UNCHANGED <<badBlocks, start, asked, offset, incl, excl, left, fewer, ended>>

-----------------------------------------------------------------------------
\* Mutant: a block is skipped by its size from wherever the loop is in it.
SkipM ==
  /\ step = "loop" /\ left > 0 /\ MayBeBad(offset)
  /\ offset' = IF offset > Size THEN offset ELSE offset + SkipPer
  /\ ended' = (ended \/ offset >= Size)
  /\ UNCHANGED <<badBlocks, step, start, asked, length, incl, excl, left, moved, result, fewer>>
\* Mutant: the loop goes on without leaving the bad block.
SkipStuckM ==
  /\ step = "loop" /\ left > 0 /\ MayBeBad(offset)
  /\ ended' = (ended \/ offset >= Size)
  /\ UNCHANGED <<badBlocks, step, start, asked, length, offset, incl, excl, left, moved, result, fewer>>
\* The loop skips a bad block.  Past the end it does so for ever.
Skip ==
  /\ step = "loop" /\ left > 0 /\ MayBeBad(offset)
  /\ offset' = IF offset > Size THEN offset ELSE offset + ToBlockEnd(offset)
  /\ ended' = (ended \/ offset >= Size)
  /\ UNCHANGED <<badBlocks, step, start, asked, length, incl, excl, left, moved, result, fewer>>

Chunk == IF left < ToBlockEnd(offset) THEN left ELSE ToBlockEnd(offset)

\* Mutant: every chunk goes to the end of its block, the last one too.
TransferM ==
  /\ step = "loop" /\ left > 0 /\ MayBeGood(offset) /\ offset < Size
  /\ Move(ToBlockEnd(offset))
  /\ left' = left - ToBlockEnd(offset) /\ offset' = offset + ToBlockEnd(offset)
  /\ UNCHANGED <<badBlocks, step, start, asked, length, incl, excl, result, fewer, ended>>
\* The rest of a good block, or of the image.
Transfer ==
  /\ step = "loop" /\ left > 0 /\ MayBeGood(offset) /\ offset < Size
  /\ Move(Chunk) /\ left' = left - Chunk /\ offset' = offset + Chunk
  /\ UNCHANGED <<badBlocks, step, start, asked, length, incl, excl, result, fewer, ended>>

\* A page of the chunk fails, or the chunk lies past the end of the device: the
\* chunk does not count as moved.
TransferFail ==
  /\ step = "loop" /\ left > 0 /\ MayBeGood(offset) /\ step' = "idle"
  /\ length' = length - left /\ result' = IF offset < Size THEN -5 ELSE -22
  /\ \E n \in 0 .. (IF offset < Size THEN Chunk - 1 ELSE 0) : Move(n)
  /\ ended' = (ended \/ offset >= Size)
  /\ UNCHANGED <<badBlocks, start, asked, offset, incl, excl, left, fewer>>

Moved ==
  /\ step = "loop" /\ left = 0 /\ step' = "idle" /\ result' = 0
  /\ UNCHANGED <<badBlocks, start, asked, length, offset, incl, excl, left, moved, fewer, ended>>

SkipStep == Count \/ Decide \/ Fast \/ Skip \/ Transfer \/ TransferFail \/ Moved
SkipNext == Call \/ SkipStep

SkipSpec == SkipInit /\ [][SkipNext]_skip /\ WF_skip(SkipStep)

-----------------------------------------------------------------------------
SkipTypeOK ==
  /\ badBlocks \subseteq 0 .. SkipBlocks - 1
  /\ step \in {"idle", "count", "decide", "fast", "loop"}
  /\ start \in 0 .. Size - 1 /\ asked \in 0 .. Size /\ length \in 0 .. Size
  /\ offset \in 0 .. Size + SkipPer /\ incl \in 0 .. Size /\ excl \in 0 .. Size
  /\ left \in 0 .. Size /\ moved \in Seq(0 .. Size - 1) /\ result \in {0, -5, -22}
  /\ fewer \in BOOLEAN /\ ended \in BOOLEAN

Good(p) == p \div SkipPer \notin badBlocks

\* s lists in order the good pages from a to before o.
Lists(s, a, o) ==
  /\ \A i, j \in DOMAIN s : i < j => s[i] < s[j]
  /\ {s[i] : i \in DOMAIN s} = {p \in a .. o - 1 : Good(p)}

\* The good pages before the last block of the device are too few for the image.
NoRoom == Cardinality({p \in start .. (Size - SkipPer) - 1 : Good(p)}) < asked

\* An image goes to, and comes from, the first good pages from its offset on, in
\* order: so what was written is read back as long as the bad blocks are the
\* same.  With success it is the length asked for, with an error at least what
\* the length then tells; and it is refused only if it does not fit before the
\* last block (nand_write_skip_bad, nand_read_skip_bad).  Known exception: the
\* count may stop early when the image is longer than half of what the device has
\* left; if it then happens to be the length, an image with bad blocks is taken
\* for one without and moved straight over them.
Skipped ==
  /\ \/ fewer /\ incl = asked
     \/ /\ \E o \in start .. Size : Lists(moved, start, o)
        /\ step = "idle" /\ result = 0  => length = asked /\ Len(moved) = asked
        /\ step = "idle" /\ result = -5 => length \in 0 .. Len(moved) /\ length < asked
  /\ step = "idle" /\ result = -22 => NoRoom /\ (moved = <<>> \/ fewer)

\* A call returns, except when the count stopped early and there are too few good
\* blocks: then the loop skips blocks past the end of the device for ever.
SkipReturns == step # "idle" ~> (step = "idle" \/ (fewer /\ ended))
=============================================================================
