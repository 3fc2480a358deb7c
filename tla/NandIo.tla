------------------------------- MODULE NandIo -------------------------------
(***************************************************************************)
(* The operations of one NAND device and its one-page cache: nand_base.c   *)
(* over the controller driver mt85xx_nand.c.  `databuf' serves the cached  *)
(* page, and the driver also puts there the status byte of a STATUS        *)
(* command and the page of every partial or out-of-band read.              *)
(*                                                                         *)
(* A page has two pieces: its head, the first four bytes, where the        *)
(* status goes, and the rest.                                              *)
(***************************************************************************)
EXTENDS Integers

CONSTANTS
  NumBlocks, PerBlock,   \* blocks of the device, pages of a block
  MaxOps, MaxLen,        \* calls of a behaviour, pages of a read or write
  MaxErr                 \* pages that fail to be programmed, erased or read, or decay

ASSUME NandIoAssumption ==
  /\ NumBlocks \in Nat \ {0} /\ PerBlock \in Nat \ {0, 1}
  /\ MaxOps \in Nat /\ MaxLen \in Nat \ {0} /\ MaxErr \in Nat

Pages == 0 .. NumBlocks * PerBlock - 1
Ranges == {r \in Pages \X Pages : r[1] <= r[2] /\ r[2] < r[1] + MaxLen}
BlockOf(p) == p \div PerBlock
PagesOf(b) == b * PerBlock .. (b + 1) * PerBlock - 1
None == -1
Nothing == <<>>

\* What a page or a piece of the buffer holds: nothing but FF, the zeros of a
\* bad mark, the device's status, what the ECC cannot correct, or what the n-th
\* call wrote to page p, <<p, n>>.
Blank   == <<>>
Mark    == <<"mark">>
Status  == <<"status">>
Garbage == <<"garbage">>
Data == Pages \X (1 .. MaxOps)
Contents == {Blank, Mark, Status, Garbage} \cup Data

VARIABLES
  flash,         \* contents of the pages
  bad,           \* blocks bad according to the bad block table
  pagebuf,       \* chip->pagebuf: the page of the cache
  head, rest,    \* chip->buffers->databuf
  pc,            \* idle, or the call under way
  page, last,    \* pages of the call still to do
  from, upto,    \* the first page is read from its rest on, the last up to its head
  ret,           \* what the last call returned: 0, or -1 for an error
  given,         \* the last piece the read under way gave to its caller
  foreign,       \* history: databuf was loaded with something else than the cached page
  ops, errs      \* calls, failures

cache == <<pagebuf, head, rest, foreign>>
call == <<page, last, from, upto>>
vars == <<flash, bad, cache, pc, call, ret, given, ops, errs>>

Init ==
  /\ flash = [p \in Pages |-> Blank] /\ bad = {}
  /\ pagebuf = None /\ head = Blank /\ rest = Blank /\ foreign = FALSE
  /\ pc = "idle" /\ page = 0 /\ last = 0 /\ from = FALSE /\ upto = FALSE
  /\ ret = 0 /\ given = Nothing /\ ops = 0 /\ errs = 0

-----------------------------------------------------------------------------
\* A page goes to databuf, and `p' says which one the cache is taken to hold.
Load(c, p) == /\ head' = c /\ rest' = c /\ pagebuf' = p
              /\ foreign' = (p # None /\ c # flash[p])

\* STATUS: nand_check_wp before a write or an erase, nand_wait after an erase.
\* The cache is invalidated when the call touches the cached page.
StatusAndInvalidate(touched) ==
  /\ head' = Status
  /\ pagebuf' = IF touched THEN None ELSE pagebuf
  /\ foreign' = (foreign /\ ~touched)
  /\ UNCHANGED rest

Return(r) == /\ pc' = "idle" /\ ret' = r
             /\ page' = 0 /\ last' = 0 /\ from' = FALSE /\ upto' = FALSE

\* A call begins.
Begin(op, p, q) ==
  /\ pc = "idle" /\ ops < MaxOps /\ ops' = ops + 1
  /\ pc' = op /\ page' = p /\ last' = q
  /\ UNCHANGED <<flash, bad, ret, given, errs>>

-----------------------------------------------------------------------------
\* nand_read of the pages p to q, the first and the last not necessarily whole.
BeginRead ==
  /\ \E r \in Ranges, f, u \in BOOLEAN :
       Begin("read", r[1], r[2]) /\ from' = f /\ upto' = u
  /\ UNCHANGED cache

Whole == ~from /\ (upto => page # last)

\* A piece goes to the caller, and the read to its next page.
Give(h, r, f) ==
  /\ given' = [page |-> page, head |-> h, rest |-> r, headToo |-> ~from, foreign |-> f]
  /\ page' = page + 1 /\ from' = FALSE /\ UNCHANGED <<pc, ret, last, upto>>

\* The page is in the cache.
ReadCached ==
  /\ pc = "read" /\ page = pagebuf /\ page <= last
  /\ Give(head, rest, foreign)
  /\ UNCHANGED <<flash, bad, cache, ops, errs>>

\* The page is read: a whole one into the caller's buffer, a part of one through
\* the cache.  A page the ECC cannot correct is an error only if its spare area
\* is not FF, which nand_default_block_markbad programs and nand_write does not;
\* the cache is then still taken to hold its former page.
AtPage == pc = "read" /\ page # pagebuf /\ page <= last
ReadPage ==
  /\ AtPage
  /\ \/ /\ flash[page] \in {Mark, Garbage} /\ Return(-1) /\ given' = Nothing
        /\ IF Whole THEN UNCHANGED cache ELSE Load(Garbage, pagebuf)
     \/ /\ flash[page] # Mark /\ Give(flash[page], flash[page], FALSE)
        /\ IF Whole THEN UNCHANGED cache ELSE Load(flash[page], page)
  /\ UNCHANGED <<flash, bad, ops, errs>>

\* The controller gives up on the data or on the ECC: the buffer is left as it
\* was, or filled with something.  This too is an error only if the spare area
\* is not FF, and that may be the one of an earlier page.
ReadTimeout ==
  /\ AtPage /\ errs < MaxErr /\ errs' = errs + 1
  /\ \E taken \in BOOLEAN, c \in {<<head, rest>>, <<Garbage, Garbage>>} :
       /\ IF taken THEN Give(Garbage, Garbage, TRUE) ELSE Return(-1) /\ given' = Nothing
       /\ IF Whole THEN UNCHANGED cache
          ELSE /\ head' = c[1] /\ rest' = c[2] /\ pagebuf' = IF taken THEN page ELSE pagebuf
               /\ foreign' = (pagebuf' # None /\ (foreign \/ taken \/ c # <<head, rest>>))
  /\ UNCHANGED <<flash, bad, ops>>

ReadDone ==
  /\ pc = "read" /\ page > last /\ Return(0) /\ given' = Nothing
  /\ UNCHANGED <<flash, bad, cache, ops, errs>>

\* An out-of-band read passes the whole page through databuf, or gives up; its
\* result is always 0.
ReadOob ==
  /\ Begin("idle", 0, 0) /\ UNCHANGED <<from, upto>>
  /\ \/ \E p \in Pages : Load(IF flash[p] = Mark THEN Garbage ELSE flash[p], pagebuf)
     \/ Load(Garbage, pagebuf)
     \/ UNCHANGED cache

-----------------------------------------------------------------------------
\* nand_write of the pages p to q: the STATUS of nand_check_wp, the cache, and
\* then the pages.  (A write of nothing but FF returns at once.)
\* Mutant: the invalidation misses the first page of the range.
BeginWriteM ==
  /\ \E r \in Ranges :
       Begin("write", r[1], r[2]) /\ StatusAndInvalidate(pagebuf \in r[1] + 1 .. r[2])
  /\ UNCHANGED <<from, upto>>
BeginWrite ==
  /\ \E r \in Ranges :
       Begin("write", r[1], r[2]) /\ StatusAndInvalidate(pagebuf \in r[1] .. r[2])
  /\ UNCHANGED <<from, upto>>

\* Program p with c.  The failure the device reports goes unnoticed, only the
\* controller's timeout is an error; a page programmed twice cannot be read.
Programs(p, c) ==
  \/ /\ flash' = [flash EXCEPT ![p] = IF flash[p] = Blank \/ c = Mark THEN c ELSE Garbage]
     /\ UNCHANGED errs
  \/ errs < MaxErr /\ errs' = errs + 1 /\ flash' = [flash EXCEPT ![p] = Garbage]

WritePage ==
  /\ pc = "write" /\ Programs(page, <<page, ops>>)
  /\ IF page = last THEN Return(0) ELSE page' = page + 1 /\ UNCHANGED <<pc, ret, last, from, upto>>
  /\ UNCHANGED <<bad, cache, given, ops>>

\* The controller gives up on a page.  (In a write the STATUS is already there.)
WriteTimeout ==
  /\ pc \in {"write", "mark"} /\ errs < MaxErr /\ errs' = errs + 1
  /\ StatusAndInvalidate(page = pagebuf)
  /\ \E c \in {flash[page], Garbage} : flash' = [flash EXCEPT ![page] = c]
  /\ Return(-1)
  /\ UNCHANGED <<bad, given, ops>>

-----------------------------------------------------------------------------
\* nand_erase of the blocks b to e.
BeginErase ==
  /\ \E b \in 0 .. NumBlocks - 1 : \E e \in b .. NumBlocks - 1 :
       Begin("erase", b * PerBlock, e * PerBlock)
  /\ StatusAndInvalidate(FALSE) /\ UNCHANGED <<from, upto>>

EraseBad ==
  /\ pc = "erase" /\ BlockOf(page) \in bad
  /\ Return(-1) /\ UNCHANGED <<flash, bad, cache, given, ops, errs>>

\* Mutant: the cache is not invalidated.
EraseBlockM ==
  /\ pc = "erase" /\ BlockOf(page) \notin bad
  /\ StatusAndInvalidate(FALSE)
  /\ flash' = [p \in Pages |-> IF p \in PagesOf(BlockOf(page)) THEN Blank ELSE flash[p]]
  /\ IF page = last THEN Return(0)
     ELSE page' = page + PerBlock /\ UNCHANGED <<pc, ret, last, from, upto>>
  /\ UNCHANGED <<bad, given, ops, errs>>
EraseBlock ==
  /\ pc = "erase" /\ BlockOf(page) \notin bad
  /\ StatusAndInvalidate(pagebuf \in PagesOf(BlockOf(page)))
  /\ flash' = [p \in Pages |-> IF p \in PagesOf(BlockOf(page)) THEN Blank ELSE flash[p]]
  /\ IF page = last THEN Return(0)
     ELSE page' = page + PerBlock /\ UNCHANGED <<pc, ret, last, from, upto>>
  /\ UNCHANGED <<bad, given, ops, errs>>

\* The status says that the erase failed.
EraseFail ==
  /\ pc = "erase" /\ BlockOf(page) \notin bad /\ errs < MaxErr /\ errs' = errs + 1
  /\ StatusAndInvalidate(pagebuf \in PagesOf(BlockOf(page)))
  /\ \E c \in {"as it was", "garbage"} :
       flash' = [p \in Pages |-> IF c = "garbage" /\ p \in PagesOf(BlockOf(page))
                                 THEN Garbage ELSE flash[p]]
  /\ Return(-1) /\ UNCHANGED <<bad, given, ops>>

-----------------------------------------------------------------------------
\* nand_block_markbad: the table, in RAM and on flash, then zeros on the first,
\* the second and the last page of the block, each by a nand_write.
BeginMark ==
  /\ \E b \in (0 .. NumBlocks - 1) \ bad :
       /\ pc = "idle" /\ ops < MaxOps /\ ops' = ops + 1
       /\ bad' = bad \cup {b} /\ pc' = "mark"
       /\ page' = b * PerBlock /\ last' = (b + 1) * PerBlock - 1
  /\ StatusAndInvalidate(FALSE)
  /\ UNCHANGED <<flash, from, upto, ret, given, errs>>

MarkPage ==
  /\ pc = "mark" /\ Programs(page, Mark)
  /\ StatusAndInvalidate(page = pagebuf)
  /\ IF page = last THEN Return(0)
     ELSE /\ page' = IF page + 1 < last /\ page % PerBlock = 0 THEN page + 1 ELSE last
          /\ UNCHANGED <<pc, ret, last, from, upto>>
  /\ UNCHANGED <<bad, given, ops>>

-----------------------------------------------------------------------------
\* A page decays beyond what the ECC corrects.
Decay ==
  /\ pc = "idle" /\ errs < MaxErr /\ errs' = errs + 1
  /\ \E p \in Pages : flash[p] \in Data /\ flash' = [flash EXCEPT ![p] = Garbage]
  /\ UNCHANGED <<bad, cache, pc, call, ret, given, ops>>

Step == \/ ReadCached \/ ReadPage \/ ReadTimeout \/ ReadDone \/ WritePage \/ WriteTimeout
        \/ EraseBad \/ EraseBlock \/ EraseFail \/ MarkPage
Next == BeginRead \/ ReadOob \/ BeginWrite \/ BeginErase \/ BeginMark \/ Decay \/ Step

Spec == Init /\ [][Next]_vars /\ WF_vars(Step)

-----------------------------------------------------------------------------
TypeOK ==
  /\ flash \in [Pages -> Contents \ {Status}] /\ bad \subseteq 0 .. NumBlocks - 1
  /\ pagebuf \in Pages \cup {None} /\ head \in Contents /\ rest \in Contents
  /\ pc \in {"idle", "read", "write", "erase", "mark"}
  /\ page \in 0 .. NumBlocks * PerBlock /\ last \in Pages /\ from \in BOOLEAN /\ upto \in BOOLEAN
  /\ ret \in {0, -1} /\ foreign \in BOOLEAN /\ ops \in 0 .. MaxOps /\ errs \in 0 .. MaxErr

\* What a read gives its caller is what the page holds, whatever was read,
\* written, erased and marked bad before, through the cache or not: never the
\* data of before a write or an erase, never another page's, and never that of a
\* page with a bad mark (nand_do_read_ops).  Known exceptions: the status byte at
\* the head of a cached page; a page that cannot be corrected, or decays while it
\* is cached; and, through `foreign', a cache that a failing or an out-of-band
\* read loaded with something else, and a page on which the controller gave up,
\* which counts as read with whatever the buffer held if the spare area is FF.
ReadsRight ==
  given # Nothing =>
    \/ given.foreign \/ flash[given.page] = Garbage
    \/ /\ given.rest = flash[given.page] /\ given.rest # Mark
       /\ given.headToo => given.head \in {flash[given.page], Status}


\* Every call comes to its end.
Returns == pc # "idle" ~> pc = "idle"
=============================================================================
