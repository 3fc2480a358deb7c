------------------------------- MODULE UbiEba -------------------------------
(***************************************************************************)
(* UBI's association of logical with physical eraseblocks (eba.c), the     *)
(* wear-levelling unit that hands out, erases and moves physical           *)
(* eraseblocks (wl.c), and the scan that rebuilds both after a power loss  *)
(* (scan.c).  The boot loader has no background thread: pending works run  *)
(* when a free eraseblock is needed or in ubi_wl_flush.                    *)
(*                                                                         *)
(* A page holds the number of the operation that wrote it, from 2 on.  Erase counters *)
(* are left out: which of the free and used eraseblocks is chosen, and     *)
(* whether the threshold of wear levelling is reached, is left open, and   *)
(* the protection trees are part of `used'.                                *)
(***************************************************************************)
EXTENDS Naturals, FiniteSets, Sequences, SequencesExt

CONSTANTS
  NumPebs,    \* peb_count
  Lebs,       \* the eraseblocks of the volumes
  Pages,      \* pages of an eraseblock
  Retries,    \* UBI_IO_RETRIES
  Level,      \* beb_rsvd_level
  NumHeld,    \* how many of them hold a page at the start
  MaxOps, MaxMoves, MaxFail, MaxCut

ASSUME UbiAssumption ==
  /\ NumPebs \in Nat /\ IsFiniteSet(Lebs) /\ Pages \in Nat \ {0}
  /\ Level \in Nat \ {0} /\ Retries \in Nat
  /\ NumPebs >= Cardinality(Lebs) + 2 /\ NumHeld \in 0 .. Cardinality(Lebs)
  /\ MaxOps \in Nat

Pebs == 1 .. NumPebs
None == 0         \* UBI_LEB_UNMAPPED
Torn == 0         \* a page that reads with -EBADMSG
WL   == 0         \* the wear-levelling work; a PEB number is its erase work

NoVid   == [st |-> "none"]
TornVid == [st |-> "torn"]
Vid(l, sq, crc) == [st |-> "ok", l |-> l, sq |-> sq, crc |-> crc]
Blank   == [ec |-> "none", vid |-> NoVid, data |-> <<>>]
Garbage == [ec |-> "bad", vid |-> TornVid, data |-> <<>>]

VARIABLES
  peb,      \* flash: EC header, VID header and data pages of each PEB
  bad,      \* flash: the PEBs marked bad
  up,       \* off, on, or failed: the attach returned an error
  eba,      \* eba_tbl
  free, used, scrub,   \* the trees of PEBs
  works,    \* the list of pending works
  wls,      \* wl_scheduled
  sqnum,    \* global_sqnum
  ro,       \* ro_mode
  rsvd, avail,   \* beb_rsvd_pebs, avail_pebs
  op,       \* the call under way
  wk,       \* the work under way
  hurt,     \* history: LEBs whose headers no longer say which copy is good
  ops, moves, fails, cuts

flash  == <<peb, bad>>
pools  == <<free, used, scrub>>
count  == <<rsvd, avail>>
budget == <<ops, moves, fails, cuts>>
vars == <<peb, bad, up, eba, free, used, scrub, works, wls, sqnum, ro,
          rsvd, avail, op, wk, hurt, ops, moves, fails, cuts>>

Idle(r) == [k |-> "none", l |-> None, at |-> "idle", p |-> None, buf |-> <<>>,
            n |-> 0, crc |-> <<>>, sq |-> 0, tries |-> 0, ret |-> r]
NoWork == [at |-> "none", p |-> None, q |-> None, n |-> 0, sq |-> 0, scr |-> FALSE]

-----------------------------------------------------------------------------
(* The scan.                                                               *)

\* The pages a data CRC is computed over, as far as they were written.
Covered(p) == {i \in 1 .. Len(peb[p].vid.crc) : i <= Len(peb[p].data)}
CrcOk(p)   == /\ Len(peb[p].data) >= Len(peb[p].vid.crc)
              /\ \A i \in Covered(p) : peb[p].data[i] = peb[p].vid.crc[i]
EccError(p) == \E i \in Covered(p) : peb[p].data[i] = Torn

ScanInit == [leb |-> [l \in Lebs |-> None], erase |-> <<>>, corr |-> <<>>,
             free |-> {}, scrub |-> {}, max |-> 0, ok |-> TRUE]

Bigger(a, b) == IF a > b THEN a ELSE b

\* Mutant: the copy flag is not looked at.
SecondCopyM(s, p, q) ==
  LET new == IF peb[p].vid.sq > peb[q].vid.sq THEN p ELSE q
      old == IF new = p THEN q ELSE p
  IN [s EXCEPT !.leb[peb[p].vid.l] = new, !.erase = Append(@, old)]

\* compare_lebs, and the outcome in ubi_scan_add_used: s.leb[l] = q already.
SecondCopy(s, p, q) ==
  LET new == IF peb[p].vid.sq > peb[q].vid.sq THEN p ELSE q
      old == IF new = p THEN q ELSE p
      isCopy == peb[new].vid.crc # <<>>
      win == IF isCopy /\ ~CrcOk(new) THEN old ELSE new
  IN [s EXCEPT !.leb[peb[p].vid.l] = win,
               !.ok = @ /\ peb[p].vid.sq # peb[q].vid.sq
                        /\ ~(isCopy /\ EccError(new)),
               !.erase = IF win = new THEN Append(@, old) ELSE @,
               !.corr  = IF win = old THEN Append(@, new) ELSE @,
               !.scrub = IF win = q THEN @
                         ELSE (@ \ {q}) \cup {x \in {p} : peb[p].ec = "bad"}]

AddUsed(s, p) ==
  LET l == peb[p].vid.l
      t == [s EXCEPT !.max = Bigger(@, peb[p].vid.sq)]
  IN IF s.leb[l] # None THEN SecondCopy(t, p, s.leb[l])
     ELSE [t EXCEPT !.leb[l] = p,
                    !.scrub = @ \cup {x \in {p} : peb[p].ec = "bad"}]

\* process_eb
ProcessEb(s, p) ==
  IF p \in bad THEN s
  ELSE IF peb[p].ec = "none" THEN [s EXCEPT !.erase = Append(@, p)]
  ELSE IF peb[p].vid.st = "ok" THEN AddUsed(s, p)
  ELSE IF peb[p].vid.st = "torn" \/ peb[p].ec = "bad"
       THEN [s EXCEPT !.corr = Append(@, p)]
  ELSE [s EXCEPT !.free = @ \cup {p}]

\* ubi_scan after the PEBs up to n
Scanned[n \in 0 .. NumPebs] == IF n = 0 THEN ScanInit ELSE ProcessEb(Scanned[n - 1], n)
Scan == Scanned[NumPebs]

-----------------------------------------------------------------------------
(* The flash operation under way, what it does when it succeeds, and what  *)
(* it may leave behind when it fails or power is lost.                     *)

MovedVid ==
  LET from == peb[wk.p]
  IN Vid(from.vid.l, wk.sq, IF from.data = <<>> THEN from.vid.crc ELSE from.data)

Do(o, p, v) == [o |-> o, p |-> p, v |-> v]

Pending ==
  CASE wk.at \in {"erase", "ec"} -> Do(wk.at, wk.p, None)
    [] wk.at = "vid"             -> Do("vid", wk.q, MovedVid)
    [] wk.at = "data"            -> Do("page", wk.q, peb[wk.p].data[wk.n + 1])
    [] wk.at = "none" /\ op.at = "append" -> Do("page", eba[op.l], op.buf[op.n + 1])
    [] wk.at = "none" /\ op.at = "vid"  -> Do("vid", op.p, Vid(op.l, op.sq, op.crc))
    [] wk.at = "none" /\ op.at = "data" -> Do("page", op.p, op.buf[op.n + 1])
    [] OTHER -> Do("none", None, None)

Done ==
  LET d == Pending
  IN CASE d.o = "erase" -> [peb EXCEPT ![d.p] = Blank]
       [] d.o = "ec"    -> [peb EXCEPT ![d.p].ec = "ok"]
       [] d.o = "vid"   -> [peb EXCEPT ![d.p].vid = d.v]
       [] d.o = "page"  -> [peb EXCEPT ![d.p].data = Append(@, d.v)]
       [] OTHER         -> peb

Half ==
  LET d == Pending
  IN CASE d.o = "erase" -> {peb, Done, [peb EXCEPT ![d.p] = Garbage]}
       [] d.o = "ec"    -> {peb, [peb EXCEPT ![d.p].ec = "bad"]}
       [] d.o = "vid"   -> {peb, [peb EXCEPT ![d.p].vid = TornVid]}
       [] d.o = "page"  -> {peb, [peb EXCEPT ![d.p].data = Append(@, Torn)]}
       [] OTHER         -> {peb}

-----------------------------------------------------------------------------
NoRam == /\ eba' = [l \in Lebs |-> None] /\ free' = {} /\ used' = {} /\ scrub' = {}
         /\ works' = <<>> /\ wls' = FALSE /\ sqnum' = 0 /\ ro' = FALSE
         /\ rsvd' = 0 /\ avail' = 0 /\ op' = Idle("none") /\ wk' = NoWork

Init ==
  /\ \E held \in [1 .. NumHeld -> Lebs] :
       /\ \A p, q \in 1 .. NumHeld : held[p] = held[q] => p = q
       /\ peb = [p \in Pebs |->
                   IF p <= NumHeld
                   THEN [ec |-> "ok", vid |-> Vid(held[p], p, <<>>), data |-> <<1>>]
                   ELSE [Blank EXCEPT !.ec = IF p = NumPebs THEN "none" ELSE "ok"]]
  /\ bad = {} /\ up = "off"
  /\ eba = [l \in Lebs |-> None] /\ free = {} /\ used = {} /\ scrub = {}
  /\ works = <<>> /\ wls = FALSE /\ sqnum = 0 /\ ro = FALSE
  /\ rsvd = 0 /\ avail = 0 /\ op = Idle("none") /\ wk = NoWork
  /\ hurt = {} /\ ops = 0 /\ moves = 0 /\ fails = 0 /\ cuts = 0

\* ensure_wear_leveling, with w the works scheduled before it.
EnsureWl(sched, w) ==
  \/ /\ sched \/ scrub' = {}
     /\ works' = w /\ wls' = sched /\ UNCHANGED moves
  \/ /\ ~sched /\ scrub' # {}
     /\ works' = Append(w, WL) /\ wls' = TRUE /\ UNCHANGED moves
  \/ /\ ~sched /\ scrub' = {} /\ used' # {} /\ free' # {} /\ moves < MaxMoves
     /\ works' = Append(w, WL) /\ wls' = TRUE /\ moves' = moves + 1

\* Mutant: the eraseblocks of the corr list are not scheduled for erasure.
PendingErasesM(s) == s.erase
PendingErases(s) == s.erase \o s.corr

Copies(l) == {p \in Pebs \ bad : peb[p].vid.st = "ok" /\ peb[p].vid.l = l}

\* A LEB all of whose headers are those of copies whose data was cut.
Misled == {l \in Lebs : Copies(l) # {} /\ \A p \in Copies(l) : ~CrcOk(p)}

Good == NumPebs - Cardinality(bad)
\* What is left for bad blocks after volumes, wear levelling and atomic change.
Spare == Good - Cardinality(Lebs) - 2

Attach ==
  /\ up = "off"
  /\ LET s == Scan IN
     IF s.ok /\ Good >= Cardinality(Lebs) + 2
     THEN /\ up' = "on" /\ eba' = s.leb /\ free' = s.free
          /\ scrub' = s.scrub
          /\ used' = {s.leb[l] : l \in Lebs} \ (scrub' \cup {None})
          /\ sqnum' = s.max + 1
          /\ rsvd' = IF Spare < Level THEN Spare ELSE Level
          /\ avail' = Spare - rsvd'
          /\ hurt' = hurt \cup Misled
          /\ EnsureWl(FALSE, PendingErases(s))
     ELSE /\ up' = "failed"
          /\ UNCHANGED <<eba, pools, sqnum, count, hurt, works, wls, moves>>
  /\ UNCHANGED <<flash, ro, op, wk, ops, fails, cuts>>

Cut ==
  /\ up = "on" /\ cuts < MaxCut
  /\ peb' \in Half /\ up' = "off" /\ cuts' = cuts + 1
  /\ NoRam
  /\ UNCHANGED <<bad, hurt, ops, moves, fails>>

-----------------------------------------------------------------------------
(* Calls.                                                                  *)

Ready == up = "on" /\ op.at = "idle" /\ ~ro /\ ops < MaxOps
Begin(o) == op' = o /\ ops' = ops + 1
DataOf(l) == peb[eba[l]].data

New(k, l, buf, crc) == [Idle("none") EXCEPT !.k = k, !.l = l, !.at = "get",
                                            !.buf = buf, !.crc = crc, !.sq = sqnum]
Buf(n) == [i \in 1 .. n |-> ops + 2]

\* ubi_leb_write to a mapped LEB, after what is there
WriteMapped(l, n) ==
  /\ Ready /\ eba[l] # None /\ Len(DataOf(l)) + n <= Pages
  /\ Begin([Idle("none") EXCEPT !.k = "write", !.l = l, !.at = "append", !.buf = Buf(n)])
  /\ UNCHANGED <<flash, up, eba, pools, works, wls, sqnum, ro, count, wk, hurt, moves, fails, cuts>>

\* ubi_leb_write to an unmapped LEB, or ubi_leb_map (n = 0)
WriteUnmapped(l, n) ==
  /\ Ready /\ eba[l] = None
  /\ Begin(New("write", l, Buf(n), <<>>)) /\ sqnum' = sqnum + 1
  /\ UNCHANGED <<flash, up, eba, pools, works, wls, ro, count, wk, hurt, moves, fails, cuts>>

\* ubi_leb_change
Change(l, n) ==
  /\ Ready
  /\ Begin(New("change", l, Buf(n), Buf(n))) /\ sqnum' = sqnum + 1
  /\ UNCHANGED <<flash, up, eba, pools, works, wls, ro, count, wk, hurt, moves, fails, cuts>>

\* ubi_wl_put_peb of the PEBs ps, in that order
Put(ps) ==
  /\ used' = used \ ToSet(ps) /\ scrub' = scrub \ ToSet(ps)
  /\ works' = works \o ps
Old(l) == IF eba[l] = None THEN <<>> ELSE <<eba[l]>>

\* ubi_leb_unmap, and ubi_leb_erase, which also flushes
Unmap(l, k) ==
  /\ Ready /\ (k = "erase" \/ eba[l] # None)
  /\ eba' = [eba EXCEPT ![l] = None] /\ Put(Old(l))
  /\ Begin(IF k = "erase" THEN [Idle("none") EXCEPT !.k = k, !.l = l, !.at = "flush"]
           ELSE Idle("ok"))
  /\ UNCHANGED <<flash, up, free, wls, sqnum, ro, count, wk, hurt, moves, fails, cuts>>

\* A read finds a bit-flip: ubi_wl_scrub_peb
ReadBitflip(l) ==
  /\ Ready /\ eba[l] # None /\ eba[l] \notin scrub
  /\ used' = used \ {eba[l]} /\ scrub' = scrub \cup {eba[l]} /\ UNCHANGED free
  /\ EnsureWl(wls, works)
  /\ Begin(Idle("ok"))
  /\ UNCHANGED <<flash, up, eba, sqnum, ro, count, wk, hurt, fails, cuts>>

\* ubi_wl_flush, as the update of a volume ends
Flush ==
  /\ Ready /\ works # <<>>
  /\ Begin([Idle("none") EXCEPT !.k = "flush", !.at = "flush"])
  /\ UNCHANGED <<flash, up, eba, pools, works, wls, sqnum, ro, count, wk, hurt, moves, fails, cuts>>

-----------------------------------------------------------------------------
(* The steps of a write, an atomic change or a recovery.                   *)

AtOp(a) == up = "on" /\ wk.at = "none" /\ op.at = a

\* Which free PEB is taken depends on the erase counters: the first or the last.
Picks == {Min(free), Max(free)}

\* ubi_wl_get_peb
GetPeb ==
  /\ AtOp("get")
  /\ free # {}
  /\ \E p \in Picks : /\ free' = free \ {p} /\ used' = used \cup {p}
                      /\ op' = [op EXCEPT !.at = "vid", !.p = p]
  /\ UNCHANGED <<flash, up, eba, scrub, works, wls, sqnum, ro, count, wk, hurt, budget>>

\* Without a free PEB the works are done here, or there is no space.
NeedPeb ==
  /\ AtOp("get") /\ free = {}
  /\ IF works # <<>> THEN op' = [op EXCEPT !.at = "produce"] /\ UNCHANGED ro
     ELSE op' = Idle("err") /\ ro' = (op.k = "recover")
  /\ UNCHANGED <<flash, up, eba, pools, works, wls, sqnum, count, wk, hurt, budget>>

Produced ==
  /\ AtOp("produce") /\ free # {}
  /\ op' = [op EXCEPT !.at = "get"]
  /\ UNCHANGED <<flash, up, eba, pools, works, wls, sqnum, ro, count, wk, hurt, budget>>

WriteVid ==
  /\ AtOp("vid")
  /\ peb' = Done
  /\ op' = [op EXCEPT !.at = IF op.buf = <<>> THEN "map" ELSE "data"]
  /\ UNCHANGED <<bad, up, eba, pools, works, wls, sqnum, ro, count, wk, hurt, budget>>

\* recover_peb reads the pages before the failed write: an ECC error there
\* gives up.  op.buf holds what is to be written in all.
Readable == op.k # "recover" \/ Torn \notin ToSet(op.buf)

WritePage ==
  /\ AtOp("data") /\ Readable
  /\ peb' = Done
  /\ op' = [op EXCEPT !.n = @ + 1, !.at = IF op.n + 1 = Len(op.buf) THEN "map" ELSE @]
  /\ UNCHANGED <<bad, up, eba, pools, works, wls, sqnum, ro, count, wk, hurt, budget>>

RecoverUnreadable ==
  /\ AtOp("data") /\ ~Readable
  /\ Put(<<op.p>>) /\ ro' = TRUE /\ op' = Idle("err")
  /\ UNCHANGED <<flash, up, eba, free, wls, sqnum, count, wk, hurt, budget>>

MapPeb ==
  /\ AtOp("map")
  /\ eba' = [eba EXCEPT ![op.l] = op.p]
  /\ Put(Old(op.l))
  /\ op' = Idle("ok")
  /\ UNCHANGED <<flash, up, free, wls, sqnum, ro, count, wk, hurt, budget>>

\* Mutant: with the sequence number of the failed attempt.
AgainM == [op EXCEPT !.at = "get", !.p = None, !.n = 0, !.tries = @ + 1]
\* The next attempt of a write, a change or a recovery.
Again == [op EXCEPT !.at = "get", !.p = None, !.n = 0, !.tries = @ + 1, !.sq = sqnum]

\* After the last attempt, a write and a change return what ubi_wl_put_peb
\* returned, which is 0.
WriteFail ==
  /\ AtOp("vid") \/ (AtOp("data") /\ Readable)
  /\ fails < MaxFail /\ fails' = fails + 1
  /\ peb' \in Half
  /\ Put(<<op.p>>)
  /\ IF op.tries < Retries
     THEN op' = Again /\ sqnum' = sqnum + 1 /\ UNCHANGED ro
     ELSE /\ op' = Idle(IF op.k = "recover" THEN "err" ELSE "ok")
          /\ ro' = TRUE /\ UNCHANGED sqnum
  /\ UNCHANGED <<bad, up, eba, free, wls, count, wk, hurt, ops, moves, cuts>>

\* Writing to a mapped LEB.
AppendPage ==
  /\ AtOp("append")
  /\ peb' = Done
  /\ op' = IF op.n + 1 = Len(op.buf) THEN Idle("ok") ELSE [op EXCEPT !.n = @ + 1]
  /\ UNCHANGED <<bad, up, eba, pools, works, wls, sqnum, ro, count, wk, hurt, budget>>

\* The pages before the failed write.
Before(l, n) == SubSeq(DataOf(l), 1, Len(DataOf(l)) - n)

\* recover_peb: a new header, copied from the old one but for its number, then
\* all the data.
AppendFail ==
  /\ AtOp("append") /\ fails < MaxFail /\ fails' = fails + 1
  /\ peb' \in Half
  /\ op' = New("recover", op.l, Before(op.l, op.n) \o op.buf, peb[eba[op.l]].vid.crc)
  /\ sqnum' = sqnum + 1 /\ hurt' = hurt \cup {op.l}
  /\ UNCHANGED <<bad, up, eba, pools, works, wls, ro, count, wk, ops, moves, cuts>>

-----------------------------------------------------------------------------
(* The works.                                                              *)

Working(a) == up = "on" /\ wk.at = a
Fails(r) == op' = Idle("err") /\ ro' = (ro \/ r) /\ wk' = NoWork

\* do_work
DoErase ==
  /\ AtOp("flush") \/ (AtOp("produce") /\ free = {})
  /\ works # <<>> /\ Head(works) # WL
  /\ wk' = [NoWork EXCEPT !.at = "erase", !.p = Head(works)] /\ works' = Tail(works)
  /\ UNCHANGED <<flash, up, eba, pools, wls, sqnum, ro, count, op, hurt, budget>>

CancelWl ==
  /\ AtOp("flush") \/ (AtOp("produce") /\ free = {})
  /\ works # <<>> /\ Head(works) = WL
  /\ free = {} \/ scrub = {}
  /\ works' = Tail(works) /\ wls' = FALSE
  /\ UNCHANGED <<flash, up, eba, pools, sqnum, ro, count, op, wk, hurt, budget>>

\* The eraseblock to move must read without an ECC error.
DoMove ==
  /\ AtOp("flush") /\ works # <<>> /\ Head(works) = WL /\ free # {}
  /\ \E p \in IF scrub # {} THEN scrub ELSE used, q \in Picks :
       /\ used' = used \ {p} /\ scrub' = scrub \ {p} /\ free' = free \ {q}
       /\ IF Torn \in ToSet(peb[p].data) THEN Fails(TRUE) /\ UNCHANGED sqnum
          ELSE /\ wk' = [at |-> "vid", p |-> p, q |-> q, n |-> 0, sq |-> sqnum,
                         scr |-> scrub # {}]
               /\ sqnum' = sqnum + 1 /\ UNCHANGED <<op, ro>>
  /\ works' = Tail(works) /\ wls' = (wk'.at = "vid")
  /\ UNCHANGED <<flash, up, eba, count, hurt, budget>>

\* Mutant: the flush ends once something is free.
FlushDoneM ==
  /\ AtOp("flush") /\ free # {}
  /\ op' = Idle("ok")
  /\ UNCHANGED <<flash, up, eba, pools, works, wls, sqnum, ro, count, wk, hurt, budget>>

FlushDone ==
  /\ AtOp("flush") /\ works = <<>>
  /\ op' = Idle("ok")
  /\ UNCHANGED <<flash, up, eba, pools, works, wls, sqnum, ro, count, wk, hurt, budget>>

\* sync_erase
EraseOk ==
  /\ Working("erase")
  /\ peb' = Done /\ wk' = [wk EXCEPT !.at = "ec"]
  /\ UNCHANGED <<bad, up, eba, pools, works, wls, sqnum, ro, count, op, hurt, budget>>

\* Mutant: the erased PEB is not given to the free tree.
EcOkM ==
  /\ Working("ec")
  /\ peb' = Done /\ wk' = NoWork
  /\ UNCHANGED pools
  /\ EnsureWl(wls, works)
  /\ UNCHANGED <<bad, up, eba, sqnum, ro, count, op, hurt, ops, fails, cuts>>

EcOk ==
  /\ Working("ec")
  /\ peb' = Done /\ wk' = NoWork
  /\ free' = free \cup {wk.p} /\ UNCHANGED <<used, scrub>>
  /\ EnsureWl(wls, works)
  /\ UNCHANGED <<bad, up, eba, sqnum, ro, count, op, hurt, ops, fails, cuts>>

EraseFail ==
  /\ Working("erase") \/ Working("ec")
  /\ fails < MaxFail /\ fails' = fails + 1
  /\ peb' \in Half /\ wk' = [wk EXCEPT !.at = "mark"]
  /\ UNCHANGED <<bad, up, eba, pools, works, wls, sqnum, ro, count, op, hurt, ops, moves, cuts>>

\* The reserve of PEBs for bad ones is filled from the available ones first.
Refill == IF Level + 1 <= rsvd THEN 0
          ELSE IF avail < Level + 1 - rsvd THEN avail ELSE Level + 1 - rsvd

MarkBad ==
  /\ Working("mark")
  /\ avail' = avail - Refill
  /\ IF rsvd + Refill = 0
     THEN Fails(TRUE) /\ UNCHANGED <<bad, rsvd>>
     ELSE /\ bad' = bad \cup {wk.p} /\ rsvd' = rsvd + Refill - 1
          /\ wk' = NoWork /\ UNCHANGED <<op, ro>>
  /\ UNCHANGED <<peb, up, eba, pools, works, wls, sqnum, hurt, budget>>

\* ubi_eba_copy_leb; the trylock of a LEB nobody else holds succeeds
MoveVid ==
  /\ Working("vid")
  /\ peb' = Done
  /\ wk' = [wk EXCEPT !.at = IF peb[wk.p].data = <<>> THEN "moved" ELSE "data"]
  /\ UNCHANGED <<bad, up, eba, pools, works, wls, sqnum, ro, count, op, hurt, budget>>

MovePage ==
  /\ Working("data")
  /\ peb' = Done
  /\ wk' = [wk EXCEPT !.n = @ + 1,
                      !.at = IF wk.n + 1 = Len(peb[wk.p].data) THEN "moved" ELSE @]
  /\ UNCHANGED <<bad, up, eba, pools, works, wls, sqnum, ro, count, op, hurt, budget>>

MoveFail ==
  /\ Working("vid") \/ Working("data")
  /\ fails < MaxFail /\ fails' = fails + 1
  /\ peb' \in Half /\ Fails(TRUE) /\ wls' = FALSE
  /\ UNCHANGED <<bad, up, eba, pools, works, sqnum, count, hurt, ops, moves, cuts>>

Moved ==
  /\ Working("moved")
  /\ eba' = [eba EXCEPT ![peb[wk.p].vid.l] = wk.q]
  /\ used' = used \cup {wk.q} /\ works' = Append(works, wk.p)
  /\ wk' = NoWork /\ wls' = FALSE
  /\ UNCHANGED <<flash, up, free, scrub, sqnum, ro, count, op, hurt, budget>>

\* A bit-flip is found when the copy is read back: the move is given up.
NotMoved ==
  /\ Working("moved") /\ fails < MaxFail /\ fails' = fails + 1
  /\ used' = IF wk.scr THEN used ELSE used \cup {wk.p}
  /\ scrub' = IF wk.scr THEN scrub \cup {wk.p} ELSE scrub
  /\ works' = Append(works, wk.q)
  /\ wk' = NoWork /\ wls' = FALSE
  /\ UNCHANGED <<flash, up, eba, free, sqnum, ro, count, op, hurt, ops, moves, cuts>>

-----------------------------------------------------------------------------
Call == \E l \in Lebs :
  \/ \E n \in 1 .. Pages : WriteMapped(l, n) \/ Change(l, n)
  \/ \E n \in 0 .. Pages : WriteUnmapped(l, n)
  \/ \E k \in {"unmap", "erase"} : Unmap(l, k)
  \/ ReadBitflip(l)

Fault == WriteFail \/ AppendFail \/ EraseFail \/ MoveFail \/ NotMoved

Step == \/ GetPeb \/ NeedPeb \/ Produced \/ WriteVid \/ WritePage
        \/ RecoverUnreadable \/ MapPeb \/ AppendPage
        \/ DoErase \/ CancelWl \/ DoMove \/ FlushDone
        \/ EraseOk \/ EcOk \/ MarkBad \/ MoveVid \/ MovePage \/ Moved

Next == Attach \/ Cut \/ Call \/ Flush \/ Step \/ Fault

Spec == Init /\ [][Next]_vars /\ WF_vars(Step)

-----------------------------------------------------------------------------
(* Properties.                                                             *)

\* Types; the accounts of PEBs never go below zero.
TypeOK ==
  /\ \A p \in Pebs : peb[p].ec \in {"ok", "none", "bad"} /\ Len(peb[p].data) <= Pages
  /\ bad \subseteq Pebs /\ up \in {"off", "on", "failed"}
  /\ eba \in [Lebs -> Pebs \cup {None}]
  /\ free \subseteq Pebs /\ used \subseteq Pebs /\ scrub \subseteq Pebs
  /\ ToSet(works) \subseteq Pebs \cup {WL}
  /\ rsvd \in 0 .. NumPebs /\ avail \in 0 .. NumPebs
  /\ hurt \subseteq Lebs

Erasing == (ToSet(works) \ {WL}) \cup (IF wk.at \in {"erase", "ec", "mark"} THEN {wk.p} ELSE {})
Moving  == IF wk.at \in {"vid", "data", "moved"} THEN {wk.p, wk.q} ELSE {}
Count(s, e) == Cardinality({i \in 1 .. Len(s) : s[i] = e})

\* Every good PEB is in exactly one place: free, used, waiting for scrubbing or
\* erasure, or being moved; and the PEBs in use are those some LEB is mapped to
\* and the one being written.  A PEB that falls out of these is lost until the
\* next attach, one that is in two of them is erased under its data.
EveryPebHasItsPlace == TypeOK /\ (up = "on" /\ ~ro =>
  /\ \A p \in Pebs \ bad :
       (IF p \in free THEN 1 ELSE 0) + (IF p \in used THEN 1 ELSE 0)
       + (IF p \in scrub THEN 1 ELSE 0) + (IF p \in Moving THEN 1 ELSE 0)
       + (IF wk.at \in {"erase", "ec", "mark"} /\ wk.p = p THEN 1 ELSE 0)
       + Count(works, p) = 1
  /\ used \cup scrub \cup {wk.p : x \in Moving}
       = ({eba[l] : l \in Lebs} \cup {op.p}) \ {None}
  /\ \A l, k \in Lebs : eba[l] = eba[k] /\ eba[l] # None => l = k)

\* There is always a PEB to be had for a write (the accounting of available
\* and reserved PEBs is right), so that no write runs out of space and
\* produce_free_peb does not spin.
SpaceIsLeft == op.at \in {"get", "produce"} => free \cup Erasing # {}

\* After a power loss the attach fails only where a page of an unfinished copy
\* reads with an ECC error.
AttachWorks == up = "failed" =>
  \E p \in Pebs : peb[p].vid.st = "ok" /\ EccError(p)

Content(p) == IF p = None THEN [m |-> FALSE, d |-> <<>>]
              ELSE [m |-> TRUE, d |-> peb[p].data]
Contents(leb) == [l \in Lebs |-> Content(leb[l])]

\* What a boot should find of each LEB: the newest copy that is whole, or the
\* oldest if none is.
Best(l) == LET whole == {p \in Copies(l) : CrcOk(p)}
           IN IF Copies(l) = {} THEN None
              ELSE IF whole # {}
              THEN CHOOSE p \in whole : \A q \in whole : peb[q].vid.sq <= peb[p].vid.sq
              ELSE CHOOSE p \in Copies(l) :
                     \A q \in Copies(l) : peb[q].vid.sq >= peb[p].vid.sq
Found == Contents([l \in Lebs |-> Best(l)])

Returns(l) == op.at # "idle" /\ op'.at = "idle" /\ op'.ret = "ok" /\ op.l = l
EndsWith(s, t) == Len(t) <= Len(s) /\ SubSeq(s, Len(s) - Len(t) + 1, Len(s)) = t

\* A write, change or recovery that returned 0 left its data where a boot finds
\* it, and an erased LEB stays erased.
AckedIsFound == [][ \A l \in Lebs : Returns(l) /\ ~ro' =>
  /\ op.k \in {"write", "change", "recover"} =>
       l \in hurt \/ (Found'[l].m /\ EndsWith(Found'[l].d, op.buf))
  /\ op.k = "erase" => ~Found'[l].m ]_vars

Store == INSTANCE LebStore WITH
  Values <- 1 .. MaxOps + 1,
  disk <- Found,
  view <- IF up = "on" THEN Contents(eba)
          ELSE [l \in Lebs |-> [m |-> FALSE, d |-> <<Torn>>]]

\* The eraseblocks implement the store of LebStore.
StoreSpec == Store!Spec
=============================================================================
