------------------------------ MODULE NandPart ------------------------------
(***************************************************************************)
(* Reading and writing an MTD partition of the player's NAND flash         *)
(* (drivers/mtd/nand/mt85xx_part_oper.c).  A partition is addressed by     *)
(* LOGICAL offsets: block k of the partition is its k-th good block.       *)
(* i4NFBPartitionWrite replaces a byte range: it reads the head and the    *)
(* tail of a partly covered block into RAM, erases the block, and programs *)
(* it page by page; a block that cannot be erased or programmed is marked  *)
(* bad and the write goes on in the next block.                            *)
(*                                                                         *)
(* One action is one call of the flash driver (an erase or a page          *)
(* program) with the computation around it.  Byte contents are symbolic:   *)
(* a byte is what it was before the write (its own address), a byte of the *)
(* image, erased, or the zero of a fresh kzalloc buffer.                   *)
(***************************************************************************)
EXTENDS Integers, Sequences, FiniteSets

CONSTANTS
  WriteSize,       \* mtd->writesize, the bytes of a page
  PagesPerBlock,   \* mtd->erasesize / mtd->writesize
  NumBlocks,       \* the blocks of the partition
  Offsets,         \* the offsets u8Offset a write is called with
  Lengths,         \* the lengths u4MemLen a write is called with
  InitBad,         \* the sets of blocks that may be bad before the write
  MaxEraseFail,    \* bound on failing mtd->erase calls in OpenBlock
  MaxWriteFail,    \* bound on failing mtd->write calls
  MaxMarkFail      \* bound on failing mtd->block_markbad calls

ASSUME GeometryAssumption ==
  /\ WriteSize \in Nat \ {0}
  /\ PagesPerBlock \in Nat \ {0}
  /\ NumBlocks \in Nat \ {0}

EraseSize == WriteSize * PagesPerBlock
Size      == NumBlocks * EraseSize
Blocks    == 0 .. NumBlocks - 1
Addr      == 0 .. Size - 1

ASSUME RequestAssumption ==
  /\ Offsets \subseteq Addr
  /\ Lengths \subseteq Nat \ {0}
  /\ InitBad \subseteq SUBSET Blocks
  /\ {MaxEraseFail, MaxWriteFail, MaxMarkFail} \subseteq Nat

BlockOf(a)    == a \div EraseSize
BlockStart(a) == BlockOf(a) * EraseSize       \* a & (~mtd->erasesize + 1)
Lesser(a, b)  == IF a < b THEN a ELSE b

(***************************************************************************)
(* Bytes.                                                                  *)
(***************************************************************************)
Erased == -1                  \* 0xFF after an erase
Zero   == -2                  \* kzalloc
Img(i) == Size + i            \* byte i of the caller's buffer

VARIABLES
  flash,   \* the partition's bytes
  bad,     \* the blocks block_isbad reports
  pc,      \* idle, loop (outer while), blk (inner while), done
  w,       \* the locals of i4NFBPartitionWrite
  buf,     \* pu1BlockMemBuf
  ret,     \* i4Ret
  hist     \* history: the bad blocks of Init, and the driver calls that
           \* failed: erases, page programs (of these, in a block the image
           \* fills and in a block with a head) and mark-bads

vars == <<flash, bad, pc, w, buf, ret, hist>>

EIO == -5
NoFails == [erase |-> 0, write |-> 0, full |-> 0, head |-> 0, mark |-> 0]
Idle == [off |-> 0, len |-> 0, imglen |-> 0, wcnt |-> 0, mtdoffset |-> 0,
         blockstart |-> -1, head |-> 0, tail |-> 0, headoffset |-> 0,
         tailoffset |-> 0, headend |-> 0, tailstart |-> 0, tempoffset |-> 0,
         dataBack |-> FALSE]

Init ==
  /\ flash = [a \in Addr |-> a]
  /\ bad \in InitBad
  /\ pc = "idle"
  /\ w = Idle
  /\ buf = [i \in 0 .. EraseSize - 1 |-> Zero]
  /\ ret = 0
  /\ hist = [bad |-> bad, n |-> NoFails]

(***************************************************************************)
(* The scan before the first block: every bad block in front of the start  *)
(* moves the start one block up.  The same loop opens i4NFBPartitionRead.  *)
(***************************************************************************)
\* From block offset ofs on, with the start at s.
Skip[at \in Nat \X Nat] ==
  LET ofs == at[1]
      s   == at[2]
  IN IF ofs < BlockStart(s) /\ ofs < Size
     THEN Skip[<<ofs + EraseSize, IF BlockOf(ofs) \in bad THEN s + EraseSize ELSE s>>]
     ELSE s

SkipBad(start) == Skip[<<0, start>>]

\* The size check only counts the whole pages of the request.
Fits(off, len) == (len \div WriteSize) * WriteSize <= Size - off

Begin(off, len) ==
  /\ pc = "idle"
  /\ w' = [Idle EXCEPT !.off = off, !.len = len, !.imglen = len,
                       !.mtdoffset = IF Fits(off, len) THEN SkipBad(off) ELSE off]
  /\ IF Fits(off, len) THEN pc' = "loop" /\ ret' = 0
                       ELSE pc' = "done" /\ ret' = -1
  /\ UNCHANGED <<flash, bad, buf, hist>>

MoreToDo == (w.imglen > 0 \/ w.head > 0 \/ w.tail > 0) /\ w.mtdoffset < Size
InBody   == pc = "blk" \/ (pc = "loop" /\ MoreToDo)
NewBlock == w.blockstart # BlockStart(w.mtdoffset)

(***************************************************************************)
(* The inner while: enter the block of mtdoffset.                          *)
(***************************************************************************)
Close(r) == pc' = "done" /\ ret' = IF w.imglen > 0 THEN -1 ELSE r

OpenPastEnd ==       \* block_isbad refuses an offset outside the partition
  /\ InBody /\ NewBlock
  /\ w.mtdoffset >= Size
  /\ Close(-1)
  /\ UNCHANGED <<flash, bad, w, buf, hist>>

OpenBad ==
  /\ InBody /\ NewBlock
  /\ w.mtdoffset < Size
  /\ BlockOf(w.mtdoffset) \in bad
  /\ w' = [w EXCEPT !.blockstart = BlockStart(w.mtdoffset), !.head = 0, !.tail = 0,
                    !.mtdoffset = @ + EraseSize]
  /\ pc' = "blk" /\ ret' = 1
  /\ UNCHANGED <<flash, bad, buf, hist>>

HeadSize == w.mtdoffset - BlockStart(w.mtdoffset)
TailSizeM == 0       \* mutant: only the head of the block is kept

TailSize ==
  LET end == BlockStart(w.mtdoffset) + EraseSize
  IN IF w.mtdoffset + w.imglen >= end THEN 0 ELSE end - (w.mtdoffset + w.imglen)
Partly   == HeadSize > 0 \/ TailSize > 0

Opened ==
  LET bs == BlockStart(w.mtdoffset)
  IN [w EXCEPT !.blockstart = bs, !.head = HeadSize, !.tail = TailSize,
               !.headoffset = 0, !.tailoffset = EraseSize - TailSize,
               !.headend = w.mtdoffset, !.tailstart = bs + EraseSize - TailSize,
               !.tempoffset = IF Partly THEN bs ELSE @,
               !.dataBack = IF Partly THEN FALSE ELSE @]

\* The head and tail to keep come from the flash, unless a block was just
\* given up and its bytes are still in the buffer.
Saved ==
  IF Partly /\ ~w.dataBack
  THEN [i \in 0 .. EraseSize - 1 |-> flash[BlockStart(w.mtdoffset) + i]]
  ELSE buf

ErasedAtM(bs) == flash       \* mutant: the erase is forgotten

ErasedAt(bs) == [a \in Addr |-> IF BlockStart(a) = bs THEN Erased ELSE flash[a]]

CanOpen == InBody /\ NewBlock /\ w.mtdoffset < Size /\ BlockOf(w.mtdoffset) \notin bad

OpenReadFail ==
  /\ CanOpen /\ Partly /\ ~w.dataBack
  /\ Close(0)
  /\ UNCHANGED <<flash, bad, w, buf, hist>>

OpenGood ==
  /\ CanOpen
  /\ w' = Opened /\ buf' = Saved
  /\ flash' = ErasedAt(BlockStart(w.mtdoffset))
  /\ pc' = "blk" /\ ret' = 0
  /\ UNCHANGED <<bad, hist>>

\* The erase fails: the block is marked bad and the write moves on.  The
\* RAM bad block table has the mark even when block_markbad reports an error.
OpenEraseFail ==
  /\ CanOpen /\ hist.n.erase < MaxEraseFail
  /\ buf' = Saved
  /\ bad' = bad \cup {BlockOf(w.mtdoffset)}
  /\ flash' \in {flash, ErasedAt(BlockStart(w.mtdoffset))}
  /\ \/ /\ w' = [Opened EXCEPT !.mtdoffset = @ + EraseSize]
        /\ pc' = "blk" /\ ret' = 0
        /\ hist' = [hist EXCEPT !.n.erase = @ + 1]
     \/ /\ hist.n.mark < MaxMarkFail
        /\ w' = Opened
        /\ Close(EIO)
        /\ hist' = [hist EXCEPT !.n.erase = @ + 1, !.n.mark = @ + 1]

(***************************************************************************)
(* One page: what is left of the head, then image bytes, then tail bytes.  *)
(***************************************************************************)
HeadPart == Lesser(w.head, WriteSize)                                \* writelen
ImgPartM == WriteSize - HeadPart          \* mutant: not capped by what is left
ImgPart  == Lesser(w.imglen, WriteSize - HeadPart)                   \* readlen
TailPart == Lesser(w.tail, WriteSize - HeadPart - ImgPart)           \* readcnt
PageAddr == IF HeadPart > 0 THEN w.tempoffset ELSE w.mtdoffset       \* writeoffset

PageByte(i) ==                                                  \* pu1TempMemBuf
  CASE i < HeadPart -> buf[w.headoffset + i]
    [] i >= HeadPart /\ i < HeadPart + ImgPart -> Img(w.wcnt + i - HeadPart)
    [] i >= HeadPart + ImgPart /\ i < HeadPart + ImgPart + TailPart
         -> buf[w.tailoffset + i - HeadPart - ImgPart]
    [] OTHER -> Erased

Advanced ==
  [w EXCEPT !.head = @ - HeadPart, !.headoffset = @ + HeadPart,
            !.tempoffset = @ + HeadPart,
            !.imglen = @ - ImgPart, !.wcnt = @ + ImgPart,
            !.mtdoffset = @ + ImgPart + TailPart,
            !.tail = @ - TailPart, !.tailoffset = @ + TailPart]

CanWrite == InBody /\ ~NewBlock

Programmed == [a \in Addr |-> IF a \in PageAddr .. PageAddr + WriteSize - 1
                               THEN PageByte(a - PageAddr) ELSE flash[a]]

WritePage ==
  /\ CanWrite
  /\ w' = Advanced
  /\ flash' = Programmed
  /\ pc' = "loop"
  /\ UNCHANGED <<bad, buf, ret, hist>>

RewindM == 0         \* mutant: the image goes on where it was

\* How many image bytes of the block that is given up were already taken.
Rewind ==
  LET o == Advanced.mtdoffset
  IN CASE o <= w.headend -> 0
       [] o > w.headend /\ o <= w.tailstart -> o - w.headend
       [] OTHER -> w.tailstart - w.headend

WriteFail ==
  /\ CanWrite /\ hist.n.write < MaxWriteFail
  /\ w' = [Advanced EXCEPT !.mtdoffset = w.blockstart + EraseSize,
                           !.imglen = @ + Rewind, !.wcnt = @ - Rewind,
                           !.dataBack = TRUE]
  /\ \/ flash' = ErasedAt(w.blockstart) /\ ret' = 0
     \/ flash' \in {flash, Programmed} /\ ret' = EIO
  /\ bad' = bad \cup {BlockOf(PageAddr)}
  /\ hist' = [hist EXCEPT !.n.write = @ + 1,
                 !.n.full = @ + (IF w.headend = w.blockstart
                                  /\ w.tailstart = w.blockstart + EraseSize
                               THEN 1 ELSE 0),
                 !.n.head = @ + (IF w.headend > w.blockstart THEN 1 ELSE 0)]
  /\ pc' = "loop"
  /\ UNCHANGED buf

Finish ==
  /\ pc = "loop" /\ ~MoreToDo
  /\ Close(ret)
  /\ UNCHANGED <<flash, bad, w, buf, hist>>

WriteStep ==
  \/ OpenPastEnd \/ OpenBad \/ OpenReadFail \/ OpenGood \/ OpenEraseFail
  \/ WritePage \/ WriteFail \/ Finish

Next == (\E off \in Offsets, len \in Lengths : Begin(off, len)) \/ WriteStep

Spec == Init /\ [][Next]_vars /\ WF_vars(Next)

(***************************************************************************)
(* i4NFBPartitionRead: a page at a time, a bad block skipped whole.  The   *)
(* result is shorter than len when the read reports -1.                    *)
(***************************************************************************)
PieceM(ofs, need) == Lesser(need, WriteSize)      \* mutant: the column is ignored

Piece(ofs, need) ==
  LET col == ofs % WriteSize
  IN IF need >= WriteSize THEN WriteSize - col ELSE need

\* The addresses the read takes its bytes from: at ofs, with need still to read.
Path[at \in Nat \X Nat] ==
  LET ofs  == at[1]
      need == at[2]
      n    == Piece(ofs, need)
  IN IF need = 0 \/ ofs >= Size THEN <<>>
     ELSE IF BlockOf(ofs) \in bad THEN Path[<<ofs + EraseSize, need>>]
     ELSE IF ofs + n > Size THEN <<>>
     ELSE [i \in 1 .. n |-> ofs + i - 1] \o Path[<<ofs + n, need - n>>]

ReadPath(off, len) == IF Fits(off, len) THEN Path[<<SkipBad(off), len>>] ELSE <<>>

PartRead(off, len) ==
  LET p == ReadPath(off, len) IN [i \in 1 .. Len(p) |-> flash[p[i]]]

(***************************************************************************)
(* What an offset means: block k of the partition is its k-th good block.  *)
(***************************************************************************)
Good == Blocks \ bad
NthGood(k) == CHOOSE b \in Good : Cardinality({c \in Good : c < b}) = k
LogSize == Cardinality(Good) * EraseSize
Phys(o) == NthGood(BlockOf(o)) * EraseSize + (o % EraseSize)
PhysBefore(o) ==        \* the same, with the blocks that were bad at Begin
  LET good == Blocks \ hist.bad
  IN (CHOOSE b \in good : Cardinality({c \in good : c < b}) = BlockOf(o)) * EraseSize
       + (o % EraseSize)

Request == w.off .. w.off + w.len - 1
Written == pc = "done" /\ ret = 0
NoFailures == hist.n = NoFails

(***************************************************************************)
(* Properties.                                                             *)
(***************************************************************************)
Bytes == Addr \cup {Erased, Zero} \cup {Img(i) : i \in 0 .. w.len - 1}

\* Type invariant of the partition and of the locals of the write.
TypeOK ==
  /\ flash \in [Addr -> Bytes] /\ bad \subseteq Blocks
  /\ pc \in {"idle", "loop", "blk", "done"}
  /\ w.imglen \in 0 .. w.len /\ w.wcnt = w.len - w.imglen
  /\ w.mtdoffset \in 0 .. 2 * Size
  /\ w.head \in 0 .. EraseSize /\ w.tail \in 0 .. EraseSize
  /\ buf \in [0 .. EraseSize - 1 -> Bytes]
  /\ ret \in {0, 1, -1, EIO}
  /\ bad = hist.bad \/ hist.n.erase + hist.n.write > 0

\* When i4NFBPartitionWrite returns 0 the partition holds the image at the
\* requested offsets, whatever blocks were bad or went bad on the way, as
\* long as no program failed in a block whose head had to be kept.
ImageReadBack ==
  Written /\ hist.n.head = 0 =>
    \A o \in Request : o < LogSize /\ flash[Phys(o)] = Img(o - w.off)

\* What a write is not asked to change it keeps.  If no driver call failed that
\* is every byte outside its range: head, tail and all other blocks.  If programs
\* fail only in a block that has a tail to keep, the tail moves with the image:
\* the bytes after it, to the end of its last block, are as before.
RestPreserved == Written =>
  /\ NoFailures => \A a \in Addr : a \notin {Phys(o) : o \in Request} => flash[a] = a
  /\ hist.n.full = 0 /\ hist.n.head = 0 /\ hist.n.erase = 0 =>
       \A o \in w.off + w.len .. LogSize - 1 :
         BlockOf(o) = BlockOf(w.off + w.len - 1) => flash[Phys(o)] = PhysBefore(o)

\* Flash discipline: a byte is only programmed after an erase of its block, while
\* every later page of the block is still erased; no step erases or programs a
\* block that is marked bad, and a mark stays.
ProgramInOrder ==
  [][/\ bad \subseteq bad'
     /\ \A a \in Addr :
          /\ BlockOf(a) \in bad => flash'[a] = flash[a]
          /\ flash'[a] \notin {flash[a], Erased} =>
               /\ flash[a] = Erased
               /\ \A b \in Addr : BlockOf(b) = BlockOf(a) /\ b \div WriteSize > a \div WriteSize
                                   => flash'[b] = Erased]_vars

\* i4NFBPartitionRead returns the bytes of the range it is asked for: where
\* the read starts on a page, or ends in the page run it starts in.
ReadMatches ==
  \A off \in Offsets, len \in Lengths :
    (off + len <= LogSize /\ (len >= WriteSize \/ (off % WriteSize) + len <= WriteSize))
      => ReadPath(off, len) = [i \in 1 .. len |-> Phys(off + i - 1)]
=============================================================================
