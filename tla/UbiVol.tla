------------------------------- MODULE UbiVol -------------------------------
(***************************************************************************)
(* UBI volumes: the volume table in its two copies (vtbl.c), creating,     *)
(* removing and growing volumes (vmt.c, build.c), updating them under the  *)
(* update marker (upd.c), as the `ubi' commands use them (cmd_ubi.c), with *)
(* a power loss at every write or erasure.                                 *)
(*                                                                         *)
(* An operation is the program of what it still has to do.  Below it, a    *)
(* write takes a free physical eraseblock, erasing one that waits for it   *)
(* if there is none, and an unmapped one waits for its erasure.  Flash     *)
(* errors and moves are in UbiEba.                                         *)
(***************************************************************************)
EXTENDS Integers, FiniteSets, Sequences, SequencesExt

CONSTANTS
  NumPebs,    \* good_peb_count
  Slots,      \* vtbl_slots
  MaxLebs,    \* bound on the LEBs of a volume
  Level,      \* beb_rsvd_level
  MaxOps, MaxCut

ASSUME UbiVolAssumption ==
  /\ NumPebs \in Nat /\ Slots \in Nat \ {0} /\ MaxLebs \in Nat \ {0, 1}
  /\ Level \in Nat /\ NumPebs >= Level + 4
  /\ MaxLebs >= NumPebs - 4 - Level      \* room for a volume that takes all
  /\ {MaxOps, MaxCut} \subseteq Nat

Pebs == 1 .. NumPebs
Vols == 1 .. Slots
Layout == 0             \* UBI_LAYOUT_VOLUME_ID
Lnums == 0 .. MaxLebs - 1
None == 0               \* UBI_LEB_UNMAPPED
Hole == [d |-> "hole"]                  \* an unmapped LEB
Torn == [d |-> "torn"]
Data(n) == [d |-> "data", n |-> n]      \* what operation n wrote
Table(t) == [d |-> "table", t |-> t]

\* A volume table record; size 0 is the empty record.
Rec(n, type, auto) == [size |-> n, type |-> type, upd |-> FALSE, auto |-> auto]
NoRec == Rec(0, "none", FALSE)
EmptyTable == [s \in Vols |-> NoRec]

\* A physical eraseblock: blank, free, with a torn header, or with one.
Blank   == [st |-> "blank"]
Free    == [st |-> "free"]
Corrupt == [st |-> "corrupt"]
Leb(v, l, sq, used, d) == [st |-> "leb", v |-> v, l |-> l, sq |-> sq, used |-> used, d |-> d]

NoVol == [size |-> 0, type |-> "none", used |-> 0, updating |-> FALSE, upd |-> FALSE, corrupted |-> FALSE]

VARIABLES
  peb,       \* flash
  up,        \* off, on, or failed
  vtbl,      \* the volume table in RAM
  vols,      \* volumes[]
  eba,       \* eba_tbl of the layout and the other volumes
  free,      \* free tree
  works,     \* PEBs waiting for erasure, in order
  avail, rsvd,   \* avail_pebs, beb_rsvd_pebs
  sqnum,     \* global_sqnum
  todo,      \* the rest of the operation under way
  op,        \* which operation that is, on which volume
  tab,       \* history: the table of the last change that reached LEB 0
  formatted, \* history: both copies have been there
  told,      \* history: contents of each volume as of its last change
  hurt,      \* history: volumes whose old data was not erased
  ops, cuts

ram  == <<vtbl, vols, eba, free, works, avail, rsvd, sqnum, todo, op>>
hist == <<tab, formatted, told, hurt>>
vars == <<peb, up, ram, hist, ops, cuts>>

-----------------------------------------------------------------------------
(* The scan.                                                               *)

Used(p) == peb[p].used

ScanInit == [leb |-> [v \in 0 .. Slots |-> [l \in Lnums |-> None]],
             used |-> [v \in 0 .. Slots |-> None], seen |-> {},
             erase |-> <<>>, corr |-> <<>>, free |-> {}, ok |-> TRUE]

\* ubi_scan_add_used, with add_volume and validate_vid_hdr.
AddUsed(s, p) ==
  LET v == peb[p].v
      l == peb[p].l
      q == s.leb[v][l]
      t == IF v \in s.seen THEN s
           ELSE [s EXCEPT !.seen = @ \cup {v}, !.used[v] = Used(p)]
      valid == v \notin s.seen \/ Used(p) = s.used[v]
  IN IF q # None /\ peb[q].sq > peb[p].sq
     THEN [t EXCEPT !.erase = Append(@, p)]
     ELSE [t EXCEPT !.leb[v][l] = p, !.ok = @ /\ valid,
                    !.erase = IF q = None THEN @ ELSE Append(@, q)]

ProcessEb(s, p) ==
  CASE peb[p].st = "blank"   -> [s EXCEPT !.erase = Append(@, p)]
    [] peb[p].st = "free"    -> [s EXCEPT !.free = @ \cup {p}]
    [] peb[p].st = "corrupt" -> [s EXCEPT !.corr = Append(@, p)]
    [] OTHER                 -> AddUsed(s, p)

Scanned[n \in 0 .. NumPebs] == IF n = 0 THEN ScanInit ELSE ProcessEb(Scanned[n - 1], n)
Scan == Scanned[NumPebs]

IsEmpty == \A p \in Pebs : peb[p].st = "blank"
MaxSq == LET sqs == {peb[p].sq : p \in {q \in Pebs : peb[q].st = "leb"}}
         IN IF sqs = {} THEN 0 ELSE CHOOSE n \in sqs : \A k \in sqs : k <= n

\* Copy i of the table as scanned: corrupted or missing copies are Torn.
Copy(s, i) == IF s.leb[Layout][i] = None THEN Torn ELSE peb[s.leb[Layout][i]].d

\* What process_lvol or create_empty_lvol has to write: copy and contents.
Nothing == [i |-> 0, d |-> Torn]
\* Mutant: the second copy is trusted first.
ToRestoreM(s) ==
  IF IsEmpty THEN [i |-> 0, d |-> Table(EmptyTable)]
  ELSE IF Copy(s, 1) # Torn /\ Copy(s, 1) # Copy(s, 0) THEN [i |-> 0, d |-> Copy(s, 1)]
  ELSE IF Copy(s, 0) # Torn /\ Copy(s, 1) # Copy(s, 0) THEN [i |-> 1, d |-> Copy(s, 0)]
  ELSE Nothing
ToRestore(s) ==
  IF IsEmpty THEN [i |-> 0, d |-> Table(EmptyTable)]
  ELSE IF Copy(s, 0) # Torn /\ Copy(s, 1) # Copy(s, 0) THEN [i |-> 1, d |-> Copy(s, 0)]
  ELSE IF Copy(s, 0) = Torn /\ Copy(s, 1) # Torn THEN [i |-> 0, d |-> Copy(s, 1)]
  ELSE Nothing

-----------------------------------------------------------------------------
(* Programs.                                                               *)

Un(v, l)             == [o |-> "unmap", v |-> v, l |-> l]
Wr(v, l, used, d)    == [o |-> "write", v |-> v, l |-> l, used |-> used, d |-> d]
FlushAll             == <<[o |-> "flush"]>>
SetTable(t)          == [o |-> "vtbl", t |-> t]
SetVol(s, vol)       == <<[o |-> "vol", s |-> s, vol |-> vol]>>
GiveBack(n)          == <<[o |-> "back", n |-> n]>>

\* Mutant: both copies are unmapped before the first is written.
ChangeM(t) == <<SetTable(t), Un(Layout, 0), Un(Layout, 1)>> \o FlushAll
              \o <<Wr(Layout, 0, 0, Table(t)), Wr(Layout, 1, 0, Table(t))>>
\* ubi_change_vtbl_record
Change(t) == <<SetTable(t), Un(Layout, 0), Wr(Layout, 0, 0, Table(t)),
                            Un(Layout, 1), Wr(Layout, 1, 0, Table(t))>>

Marked(s, b) == [vtbl EXCEPT ![s].upd = b]
Wipe(s)      == [i \in 1 .. vols[s].size |-> Un(s, i - 1)]
UsedEbs(s, n) == IF vols[s].type = "static" THEN n ELSE 0
Fill(s, n)   == [i \in 1 .. n |-> Wr(s, i - 1, UsedEbs(s, n), Data(ops + 1))]

\* clear_update_marker and ubi_wl_flush
Finish(s, n) ==
  Change(Marked(s, FALSE))
  \o SetVol(s, [vols[s] EXCEPT !.upd = FALSE, !.updating = TRUE,
                               !.corrupted = @ /\ vols[s].type = "dynamic",
                               !.used = IF vols[s].type = "static" THEN n ELSE @])
  \o FlushAll

\* ubi_volume_write of n LEBs; without any, the volume is wiped and finished twice.
Update(s, n) ==
  (IF vols[s].upd THEN <<>>
   ELSE Change(Marked(s, TRUE))
        \o SetVol(s, [vols[s] EXCEPT !.upd = TRUE, !.updating = TRUE]))
  \o Wipe(s)
  \o (IF n = 0 THEN Finish(s, 0) ELSE <<>>)
  \o Fill(s, n) \o Finish(s, n)
  \o SetVol(s, [vols[s] EXCEPT !.upd = FALSE, !.updating = FALSE,
                               !.corrupted = @ /\ vols[s].type = "dynamic",
                               !.used = IF vols[s].type = "static" THEN n ELSE @])

\* Mutant: without the flush before.
MakeM(s, n, type) == Change([vtbl EXCEPT ![s] = Rec(n, type, FALSE)])
             \o SetVol(s, [NoVol EXCEPT !.size = n, !.type = type,
                                        !.used = IF type = "dynamic" THEN n ELSE 0])
\* ubi_create_volume, once the eraseblocks are reserved
Make(s, n, type) ==
  FlushAll
  \o Change([vtbl EXCEPT ![s] = Rec(n, type, FALSE)])
  \o SetVol(s, [NoVol EXCEPT !.size = n, !.type = type,
                             !.used = IF type = "dynamic" THEN n ELSE 0])

\* Mutant: the eraseblocks of the volume are not given back.
UnmakeM(s) == Change([vtbl EXCEPT ![s] = NoRec]) \o Wipe(s) \o SetVol(s, NoVol)
\* ubi_remove_vol
Unmake(s) == Change([vtbl EXCEPT ![s] = NoRec]) \o Wipe(s)
             \o SetVol(s, NoVol) \o GiveBack(vols[s].size)

\* ubi_resize_volume, growing
Grow(t, s, vol, n) == Change([t EXCEPT ![s].size = n, ![s].auto = FALSE])
                      \o SetVol(s, [vol EXCEPT !.size = n,
                                               !.used = IF vol.type = "dynamic" THEN n ELSE @])

Start(k, s, prog) == todo' = prog /\ op' = [k |-> k, s |-> s]
NoOp == [k |-> "none", s |-> None]

-----------------------------------------------------------------------------
RamOff == /\ vtbl' = EmptyTable /\ vols' = [s \in Vols |-> NoVol]
          /\ eba' = ScanInit.leb /\ free' = {} /\ works' = <<>>
          /\ avail' = 0 /\ rsvd' = 0 /\ sqnum' = 0 /\ todo' = <<>> /\ op' = NoOp

NoContents == [l \in Lnums |-> Hole]

\* A flash with one volume of n LEBs, all written if it is not to be resized.
OneVolume(n, type, auto) ==
  LET t == [EmptyTable EXCEPT ![1] = Rec(n, type, auto)]
      k == IF auto THEN 0 ELSE n
  IN /\ tab = t
     /\ told = [s \in Vols |-> [l \in Lnums |-> IF s = 1 /\ l < k THEN Data(0) ELSE Hole]]
     /\ peb = [p \in Pebs |->
          IF p <= 2 THEN Leb(Layout, p - 1, p, 0, Table(t))
          ELSE IF p - 3 < k
          THEN Leb(1, p - 3, p, IF type = "static" THEN k ELSE 0, Data(0))
          ELSE Free]

Init ==
  /\ \/ /\ peb = [p \in Pebs |-> Blank] /\ formatted = FALSE
        /\ tab = EmptyTable /\ told = [s \in Vols |-> NoContents]
     \/ /\ formatted = TRUE
        /\ \E n \in 1 .. MaxLebs, type \in {"static", "dynamic"}, auto \in BOOLEAN :
             n + 4 <= NumPebs /\ OneVolume(n, type, auto)
  /\ up = "off" /\ vtbl = EmptyTable /\ vols = [s \in Vols |-> NoVol]
  /\ eba = ScanInit.leb /\ free = {} /\ works = <<>> /\ avail = 0 /\ rsvd = 0
  /\ sqnum = 0 /\ todo = <<>> /\ op = NoOp
  /\ hurt = {} /\ ops = 0 /\ cuts = 0

\* init_volumes for one record
Reserved(t) == LET upto[s \in 0 .. Slots] == IF s = 0 THEN 0 ELSE upto[s - 1] + t[s].size
               IN upto[Slots]
InitVol(s, r, v) ==
  LET found == {l \in Lnums : s.leb[v][l] # None}
      short == r.type = "static" /\ v \in s.seen /\ Cardinality(found) # s.used[v]
  IN IF r.size = 0 THEN NoVol
     ELSE [size |-> r.size, type |-> r.type, updating |-> FALSE, upd |-> FALSE,
           corrupted |-> short,
           used |-> IF r.type = "dynamic" THEN r.size
                    ELSE IF v \in s.seen /\ ~short THEN s.used[v] ELSE 0]

\* check_sv
Consistent(s, r, v) == v \in s.seen /\ r.size # 0 =>
  /\ \A l \in Lnums : s.leb[v][l] # None => l < r.size
  /\ s.used[v] <= r.size

\* The LEBs of volumes the table does not have are erased.
Removed(s, t) == {s.leb[v][l] : v \in {x \in Vols : t[x].size = 0}, l \in Lnums} \ {None}

Spare(s) == s.free \cup ToSet(s.erase) \cup ToSet(s.corr)

\* An attach that has a copy of the table to write writes it and goes on as a
\* new scan would.
Restore ==
  /\ up = "off" /\ Scan.ok
  /\ LET s == Scan
         r == ToRestore(s)
     IN /\ r # Nothing /\ Spare(s) # {}
        /\ LET p == IF s.free # {} THEN Min(s.free)
                    ELSE IF s.erase # <<>> THEN Head(s.erase) ELSE Head(s.corr)
               w == Leb(Layout, r.i, MaxSq + 1, 0, r.d)
           IN \/ /\ peb' = [peb EXCEPT ![p] = w] /\ UNCHANGED cuts
              \/ /\ cuts < MaxCut /\ cuts' = cuts + 1
                 /\ \E x \in {Free, Corrupt, [w EXCEPT !.d = Torn]} :
                      peb' = [peb EXCEPT ![p] = x]
        /\ formatted' = (formatted \/ (cuts' = cuts /\ r.i = 1))
  /\ UNCHANGED <<up, ram, tab, told, hurt, ops>>

Attach ==
  /\ up = "off"
  /\ LET s == Scan
         t == Copy(s, 0).t
         left == NumPebs - 2 - Reserved(t)
     IN IF s.ok /\ ToRestore(s) = Nothing /\ Copy(s, 0) # Torn
           /\ \A v \in Vols : Consistent(s, t[v], v)
        THEN LET level == IF left - 2 < Level THEN left - 2 ELSE Level
                 resize == {v \in Vols : t[v].auto}
                 v0 == CHOOSE v \in resize : TRUE
             IN /\ up' = "on"
                /\ vtbl' = IF resize = {} THEN t ELSE [t EXCEPT ![v0].auto = FALSE]
                /\ vols' = [v \in Vols |-> InitVol(s, t[v], v)]
                /\ eba' = [v \in 0 .. Slots |-> IF v # Layout /\ t[v].size = 0
                                                THEN ScanInit.leb[v] ELSE s.leb[v]]
                /\ free' = s.free
                /\ works' = s.erase \o SetToSeq(Removed(s, t)) \o s.corr
                /\ rsvd' = level /\ sqnum' = MaxSq + 1
                /\ IF resize = {} THEN avail' = left - 2 - level /\ UNCHANGED <<todo, op>>
                   ELSE /\ avail' = 0
                        /\ Start("resize", v0,
                                 Grow(t, v0, vols'[v0], t[v0].size + left - 2 - level))
        ELSE /\ ToRestore(s) = Nothing \/ ~s.ok \/ Spare(s) = {}
             /\ up' = "failed" /\ UNCHANGED ram
  /\ UNCHANGED <<peb, hist, ops, cuts>>

-----------------------------------------------------------------------------
(* Commands.                                                               *)

Ready == up = "on" /\ todo = <<>> /\ ops < MaxOps

CreateVol(n, type) ==
  /\ Ready /\ n <= avail
  /\ \E s \in Vols : /\ vols[s] = NoVol /\ \A r \in 1 .. s - 1 : vols[r] # NoVol
                     /\ Start("create", s, Make(s, n, type))
  /\ avail' = avail - n /\ ops' = ops + 1
  /\ UNCHANGED <<peb, up, vtbl, vols, eba, free, works, rsvd, sqnum, hist, cuts>>

RemoveVol(s) ==
  /\ Ready /\ vols[s] # NoVol
  /\ Start("remove", s, Unmake(s)) /\ ops' = ops + 1
  /\ UNCHANGED <<peb, up, vtbl, vols, eba, free, works, avail, rsvd, sqnum, hist, cuts>>

WriteVol(s, n) ==
  /\ Ready /\ vols[s] # NoVol /\ n <= vols[s].size
  /\ vols' = [vols EXCEPT ![s].updating = TRUE]
  /\ Start("update", s, Update(s, n)) /\ ops' = ops + 1
  /\ UNCHANGED <<peb, up, vtbl, eba, free, works, avail, rsvd, sqnum, hist, cuts>>

-----------------------------------------------------------------------------
(* The steps of an operation.                                              *)

At(o) == up = "on" /\ todo # <<>> /\ Head(todo).o = o
Advance == todo' = Tail(todo) /\ UNCHANGED op

RamStep ==
  /\ At("vtbl") \/ At("vol") \/ At("back")
  /\ LET h == Head(todo) IN
     /\ vtbl' = IF h.o = "vtbl" THEN h.t ELSE vtbl
     /\ vols' = IF h.o = "vol" THEN [vols EXCEPT ![h.s] = h.vol] ELSE vols
     /\ IF h.o = "back"
        THEN LET more == IF Level <= rsvd THEN 0
                         ELSE IF avail + h.n < Level - rsvd THEN avail + h.n ELSE Level - rsvd
             IN avail' = avail + h.n - more /\ rsvd' = rsvd + more
        ELSE UNCHANGED <<avail, rsvd>>
  /\ Advance
  /\ UNCHANGED <<peb, up, eba, free, works, sqnum, hist, ops, cuts>>

\* ubi_eba_unmap_leb
UnmapStep ==
  /\ At("unmap")
  /\ LET h == Head(todo) IN
     /\ eba' = [eba EXCEPT ![h.v][h.l] = None]
     /\ works' = IF eba[h.v][h.l] = None THEN works ELSE Append(works, eba[h.v][h.l])
  /\ Advance
  /\ UNCHANGED <<peb, up, vtbl, vols, free, avail, rsvd, sqnum, hist, ops, cuts>>

\* The contents of s once the operation is done, as the change that ends it says.
Says(s) ==
  IF op.k = "update" /\ op.s = s
  THEN [l \in Lnums |-> IF eba[s][l] = None THEN Hole ELSE peb[eba[s][l]].d]
  ELSE IF op.k = "create" /\ op.s = s THEN NoContents ELSE told[s]

\* A table change counts from when LEB 0 is written.
Commits(h) ==
  IF h.v = Layout /\ h.l = 0
  THEN /\ tab' = h.d.t /\ told' = [s \in Vols |-> Says(s)]
       /\ hurt' = IF op.k \in {"create", "update"} THEN hurt \ {op.s} ELSE hurt
       /\ UNCHANGED formatted
  ELSE UNCHANGED hist

Picks == {Min(free), Max(free)}

\* ubi_eba_write_leb and ubi_eba_write_leb_st
WriteStep ==
  /\ At("write") /\ free # {}
  /\ LET h == Head(todo) IN
     /\ \E p \in Picks :
          /\ peb' = [peb EXCEPT ![p] = Leb(h.v, h.l, sqnum, h.used, h.d)]
          /\ eba' = [eba EXCEPT ![h.v][h.l] = p]
          /\ free' = free \ {p}
     /\ Commits(h)
  /\ sqnum' = sqnum + 1 /\ Advance
  /\ UNCHANGED <<up, vtbl, vols, works, avail, rsvd, ops, cuts>>

\* do_work, for a write without a free PEB or for a flush
EraseStep ==
  /\ (At("write") /\ free = {}) \/ At("flush")
  /\ works # <<>>
  /\ peb' = [peb EXCEPT ![Head(works)] = Free]
  /\ free' = free \cup {Head(works)} /\ works' = Tail(works)
  /\ UNCHANGED <<up, vtbl, vols, eba, avail, rsvd, sqnum, todo, op, hist, ops, cuts>>

FlushDone ==
  /\ At("flush") /\ works = <<>>
  /\ Advance
  /\ UNCHANGED <<peb, up, vtbl, vols, eba, free, works, avail, rsvd, sqnum, hist, ops, cuts>>

\* Power is lost: before, during or after a write or an erasure.
Halves ==
  {peb}
  \cup (IF At("write") /\ free # {}
        THEN {[peb EXCEPT ![p] = x] : p \in Picks,
                x \in {Corrupt, Leb(Head(todo).v, Head(todo).l, sqnum, Head(todo).used, Torn)}}
        ELSE IF (At("write") \/ At("flush")) /\ works # <<>>
        THEN {[peb EXCEPT ![Head(works)] = Corrupt]} ELSE {})

\* The update has been finished but old data of unmapped LEBs not yet erased.
Unflushed == /\ op.k = "update" /\ ~tab[op.s].upd
             /\ \E i \in 1 .. Len(works) :
                  LET w == peb[works[i]]
                  IN w.st = "leb" /\ w.v = op.s /\ eba[op.s][w.l] = None

Cut ==
  /\ up = "on" /\ cuts < MaxCut /\ cuts' = cuts + 1
  /\ up' = "off" /\ RamOff
  /\ peb' \in Halves
  /\ hurt' = IF Unflushed THEN hurt \cup {op.s} ELSE hurt
  /\ UNCHANGED <<tab, formatted, told, ops>>

-----------------------------------------------------------------------------
Command == \E s \in Vols, n \in 0 .. MaxLebs :
  \/ n > 0 /\ \E type \in {"static", "dynamic"} : CreateVol(n, type)
  \/ RemoveVol(s)
  \/ WriteVol(s, n)

Step == RamStep \/ UnmapStep \/ WriteStep \/ EraseStep \/ FlushDone

Next == Restore \/ Attach \/ Command \/ Step \/ Cut

Spec == Init /\ [][Next]_vars

-----------------------------------------------------------------------------
(* Properties.                                                             *)

Idle == up = "on" /\ todo = <<>>

\* Types; the accounts of PEBs never go below zero.
TypeOK ==
  /\ up \in {"off", "on", "failed"} /\ avail \in 0 .. NumPebs /\ rsvd \in 0 .. Level
  /\ free \subseteq Pebs /\ ToSet(works) \subseteq Pebs
  /\ eba \in [0 .. Slots -> [Lnums -> Pebs \cup {None}]]
  /\ DOMAIN vtbl = Vols /\ DOMAIN vols = Vols /\ hurt \subseteq Vols

\* What a scan finds of a LEB: the copy with the greatest sequence number.
Copies(v, l) == {p \in Pebs : peb[p].st = "leb" /\ peb[p].v = v /\ peb[p].l = l}
Newest(v, l) == CHOOSE p \in Copies(v, l) : \A q \in Copies(v, l) : peb[q].sq <= peb[p].sq
Found(v, l)  == IF Copies(v, l) = {} THEN Hole ELSE peb[Newest(v, l)].d

\* At every moment a boot would find the table of the last change that
\* reached LEB 0: in LEB 0, or in LEB 1 while LEB 0 is being written.
TableKept == formatted =>
  \/ Found(Layout, 0) = Table(tab)
  \/ Found(Layout, 0) \in {Hole, Torn} /\ Found(Layout, 1) = Table(tab)

\* At every moment a boot would find the contents that the last finished
\* change of a volume left, and nothing of a volume that had its number
\* before; unless its update marker is set, or the power was lost after an
\* update had cleared it and before the old data was erased.
ContentsKept == \A s \in Vols \ hurt :
  tab[s].size # 0 /\ ~tab[s].upd /\ ~(Unflushed /\ op.s = s) =>
    \A l \in Lnums : Found(s, l) = told[s][l]

\* Between operations the volumes in RAM are those of the table on flash, and
\* every PEB is accounted for: volumes, layout, wear levelling, atomic change,
\* the reserve for bad ones and what is available.
RamMatchesFlash == TypeOK /\ (Idle =>
  /\ vtbl = tab
  /\ \A s \in Vols : vols[s].size = tab[s].size
  /\ avail + rsvd + 4 + Reserved(tab) = NumPebs)

\* Headers of a static volume that disagree on how many LEBs it has.
Mixed == \E p, q \in Pebs : /\ peb[p].st = "leb" /\ peb[q].st = "leb"
                            /\ peb[p].v = peb[q].v /\ peb[p].used # peb[q].used

\* An attach fails only if the very first one was cut, or if the update of a
\* static volume to another size was.
AttachWorks == up = "failed" => ~formatted \/ Mixed

\* vtbl.c:31 says that an interrupted update leaves the marker, so that we know
\* that the contents of the volume is damaged.
DamageKnown == \A s \in Vols : Idle /\ tab[s].upd => vols[s].upd
=============================================================================
