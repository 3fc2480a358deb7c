---------------------------- MODULE UbiEba_proofs ----------------------------
(***************************************************************************)
(* Proofs about the physical eraseblocks of UBI, for any number of them,   *)
(* of logical eraseblocks, pages, operations, failures and power losses:   *)
(* every eraseblock has its place, a write always gets one, a boot         *)
(* attaches, and what a boot finds of the logical eraseblocks changes only *)
(* as the store of LebStore does, so that data a call has returned for is  *)
(* found.                                                                  *)
(*                                                                         *)
(* The inductive invariant says, of the flash, which of the headers and    *)
(* pages can be there and that no two copies have the same sequence        *)
(* number; of the tables in RAM, that the trees, the pending works and the *)
(* work and the call under way share the good eraseblocks out among them,  *)
(* that the eraseblocks in use are those the table maps, and that a mapped *)
(* eraseblock has a header that says so; and of the accounts, that with    *)
(* what is left for bad eraseblocks they count the good ones.              *)
(*                                                                         *)
(* A second one, of the copies of a logical eraseblock, needs the first.   *)
(* The copy that is mapped is whole and the newest of the whole ones, but  *)
(* for that of a move that was given up, which holds the same pages, and   *)
(* for the one about to be mapped.  Of an eraseblock that is not mapped,   *)
(* what the call under way has written is newer than the rest, and of the  *)
(* rest the newest whole copy is the last to be erased.                    *)
(***************************************************************************)
EXTENDS UbiEba, FiniteSetTheorems, WellFoundedInduction, TLAPS

PebState == [ec   : {"ok", "none", "bad"},
             vid  : {NoVid, TornVid} \cup [st : {"ok"}, l : Lebs, sq : Nat, crc : Seq(Nat)],
             data : Seq(Nat)]
OpState == [k : {"none", "write", "change", "erase", "flush", "recover"}, l : Lebs \cup {None},
            at : {"idle", "get", "produce", "vid", "data", "map", "append", "flush"},
            p : Pebs \cup {None}, buf : Seq(Nat), n : Nat, crc : Seq(Nat), sq : Nat,
            tries : Nat, ret : {"none", "ok", "err"}]
WkState == [at : {"none", "erase", "ec", "mark", "vid", "data", "moved"},
            p : Pebs \cup {None}, q : Pebs \cup {None}, n : Nat, sq : Nat, scr : BOOLEAN]

HasVid(p) == peb[p].vid.st = "ok"
Fresh(p)  == peb[p].vid = NoVid /\ peb[p].ec # "none"

\* What is on the flash, at any time.
FlashOk ==
  /\ peb \in [Pebs -> PebState] /\ bad \subseteq Pebs
  /\ \A p \in Pebs : /\ Len(peb[p].data) <= Pages
                     /\ peb[p].vid = NoVid => peb[p].data = <<>>
                     /\ peb[p].ec = "none" => peb[p].vid = NoVid
  /\ \A p, q \in Pebs \ bad : p # q /\ HasVid(p) /\ HasVid(q) => peb[p].vid.sq # peb[q].vid.sq
  /\ Good >= Cardinality(Lebs) + 2

\* What is in RAM.
RamOk ==
  /\ up \in {"off", "on", "failed"} /\ eba \in [Lebs -> Pebs \cup {None}]
  /\ free \subseteq Pebs /\ used \subseteq Pebs /\ scrub \subseteq Pebs
  /\ works \in Seq(Pebs \cup {WL}) /\ wls \in BOOLEAN /\ sqnum \in Nat /\ ro \in BOOLEAN
  /\ op \in OpState /\ wk \in WkState /\ hurt \subseteq Lebs /\ ops \in Nat
  /\ rsvd \in Nat /\ avail \in Nat /\ rsvd <= NumPebs /\ avail <= NumPebs

\* Nothing is under way without power, and after an error that made the device
\* read-only.
Still == up # "on" \/ ro => op.at = "idle" /\ wk.at = "none" /\ (up # "on" => ro = FALSE /\ op = Idle("none"))

FailedOk == up = "failed" => \E p \in Pebs : HasVid(p) /\ EccError(p)

On == up = "on" /\ ~ro

\* The accounts: what is left for bad eraseblocks.
Accounts == On => rsvd + avail = Spare

\* Each sequence number is used once.
Numbered == On =>
  /\ \A p \in Pebs \ bad : HasVid(p) => peb[p].vid.sq < sqnum
  /\ op.at \in {"get", "produce", "vid"} =>
       op.sq < sqnum /\ \A p \in Pebs \ bad : HasVid(p) => peb[p].vid.sq # op.sq
  /\ wk.at = "vid" =>
       wk.sq < sqnum /\ \A p \in Pebs \ bad : HasVid(p) => peb[p].vid.sq # wk.sq

\* A mapped eraseblock says so, a free one is erased.
Linked == On =>
  /\ \A l \in Lebs : eba[l] # None => HasVid(eba[l]) /\ peb[eba[l]].vid.l = l
  /\ \A p \in free : Fresh(p)

\* The call under way and its eraseblock.
Calling == On =>
  /\ op.at \in {"vid", "data", "map"} <=> op.p # None
  /\ op.at \notin {"idle", "flush"} => op.l \in Lebs /\ Len(op.buf) <= Pages
  /\ op.at \in {"get", "produce", "vid"} => op.n = 0
  /\ op.at = "vid" => Fresh(op.p)
  /\ op.at \in {"data", "map"} => HasVid(op.p) /\ peb[op.p].vid.l = op.l
  /\ op.at = "data" => Len(peb[op.p].data) = op.n /\ op.n < Len(op.buf)
  /\ op.at = "append" =>
       /\ eba[op.l] # None /\ op.n < Len(op.buf) /\ op.n <= Len(DataOf(op.l))
       /\ Len(DataOf(op.l)) - op.n + Len(op.buf) <= Pages

Erases == wk.at \in {"erase", "ec", "mark"}
Moves  == wk.at \in {"vid", "data", "moved"}

\* The work under way and its eraseblocks.
Doing == On =>
  /\ wk.at # "none" => op.at \in {"flush", "produce"} /\ wk.p \in Pebs
  /\ wk.at = "ec" => peb[wk.p].vid = NoVid
  /\ Moves => op.at = "flush" /\ wk.q \in Pebs /\ wk.p # wk.q /\ HasVid(wk.p) /\ eba[peb[wk.p].vid.l] = wk.p
  /\ wk.at = "vid" => Fresh(wk.q) /\ wk.n = 0
  /\ wk.at \in {"data", "moved"} => HasVid(wk.q) /\ peb[wk.q].vid.l = peb[wk.p].vid.l
  /\ wk.at = "data" => Len(peb[wk.q].data) = wk.n /\ wk.n < Len(peb[wk.p].data)

Once(s) == \A i, j \in DOMAIN s : s[i] = s[j] /\ s[i] # WL => i = j
Queued  == ToSet(works) \ {WL}
Hands   == IF Erases THEN {wk.p} ELSE IF Moves THEN {wk.p, wk.q} ELSE {}
Mapped  == {eba[l] : l \in Lebs} \ {None}

\* The good eraseblocks are shared out.
Apart(f, u, s, h, q) ==
  /\ f \cap u = {} /\ f \cap s = {} /\ f \cap h = {} /\ f \cap q = {}
  /\ u \cap s = {} /\ u \cap h = {} /\ u \cap q = {}
  /\ s \cap h = {} /\ s \cap q = {} /\ h \cap q = {}

Shared == On =>
  /\ Apart(free, used, scrub, Hands, Queued) /\ Once(works)
  /\ free \cup used \cup scrub \cup Hands \cup Queued = Pebs \ bad
  /\ used \cup scrub \cup (IF Moves THEN {wk.p} ELSE {})
       = Mapped \cup (IF op.p = None THEN {} ELSE {op.p})
  /\ op.p \notin Mapped

IInv == /\ FlashOk /\ RamOk /\ Still /\ FailedOk
        /\ Accounts /\ Numbered /\ Linked /\ Calling /\ Doing /\ Shared

(***************************************************************************)
(* Induction, smallest and largest elements, and sequences of eraseblocks. *)
(***************************************************************************)
\* A set of numbers that is not empty has a least one.
LEMMA Least ==
  ASSUME NEW T, T \subseteq Nat, T # {}
  PROVE  \E m \in T : \A y \in T : m <= y
<1>1. PICK m \in T : \A y \in T : ~(<<y, m>> \in OpToRel(<, Nat))
  BY NatLessThanWellFounded, WFMin
<1>2. ASSUME NEW y \in T PROVE m <= y
  <2>1. ~(y < m)
    BY <1>1 DEF OpToRel
  <2> QED BY <2>1
<1> QED BY <1>2

\* A set of numbers that holds 0 and the successor of each up to n holds those
\* up to n.
LEMMA UpTo ==
  ASSUME NEW n \in Nat, NEW S, 0 \in S, \A i \in 1 .. n : i - 1 \in S => i \in S
  PROVE  \A i \in 0 .. n : i \in S
<1> DEFINE T == (0 .. n) \ S
<1> SUFFICES ASSUME T # {} PROVE FALSE
  OBVIOUS
<1>1. T \subseteq Nat
  OBVIOUS
<1>2. PICK m \in T : \A y \in T : m <= y
  BY <1>1, Least
<1>3. m # 0 /\ m \in 1 .. n /\ m - 1 \in 0 .. n /\ ~(m <= m - 1)
  OBVIOUS
<1>4. m - 1 \in S
  BY <1>2, <1>3
<1> QED BY <1>3, <1>4

\* The free eraseblock that is taken is a free one.
LEMMA PicksFree == ASSUME free \subseteq Pebs, free # {} PROVE Picks \subseteq free
<1>0. NumPebs \in Nat /\ free \subseteq Nat
  BY UbiAssumption DEF Pebs
<1>1. \E x \in free : \A y \in free : x <= y
  BY <1>0, Least
<1> DEFINE T == {NumPebs - x : x \in free}
<1>2. T \subseteq Nat /\ T # {}
  <2>1. \A x \in free : NumPebs - x \in Nat
    BY <1>0 DEF Pebs
  <2> QED BY <2>1
<1>3. PICK m \in T : \A y \in T : m <= y
  BY <1>2, Least
<1>4. PICK x \in free : m = NumPebs - x
  OBVIOUS
<1>5. ASSUME NEW y \in free PROVE x >= y
  <2>1. NumPebs - x <= NumPebs - y
    BY <1>3, <1>4
  <2> QED BY <1>0, <2>1
<1>6. Min(free) \in free
  BY <1>1 DEF Min
<1>7. Max(free) \in free
  BY <1>5 DEF Max
<1> QED BY <1>6, <1>7 DEF Picks

LEMMA AppendFacts ==
  ASSUME NEW S, NEW s \in Seq(S), NEW x \in S
  PROVE  /\ Append(s, x) \in Seq(S) /\ ToSet(Append(s, x)) = ToSet(s) \cup {x}
         /\ s \o <<x>> = Append(s, x) /\ s \o <<>> = s
         /\ Once(s) /\ (x = WL \/ x \notin ToSet(s)) => Once(Append(s, x))
<1> DEFINE t == Append(s, x)
           m == Len(s)
<1>1. /\ m \in Nat /\ DOMAIN s = 1 .. m /\ t \in Seq(S) /\ DOMAIN t = 1 .. m + 1
      /\ t[m + 1] = x /\ \A i \in 1 .. m : t[i] = s[i]
  OBVIOUS
<1>2. s \o <<x>> = t /\ s \o <<>> = s
  OBVIOUS
<1> HIDE DEF t, m
<1>3. \A i \in 1 .. m + 1 : i \in 1 .. m \/ i = m + 1
  BY <1>1
<1>4. ToSet(t) = ToSet(s) \cup {x}
  <2>1. \A i \in 1 .. m : i \in 1 .. m + 1
    BY <1>1
  <2>2. m + 1 \in 1 .. m + 1
    BY <1>1
  <2> QED BY <1>1, <1>3, <2>1, <2>2 DEF ToSet
<1>5. ASSUME Once(s), x = WL \/ x \notin ToSet(s) PROVE Once(t)
  <2> SUFFICES ASSUME NEW i \in 1 .. m + 1, NEW j \in 1 .. m + 1, t[i] = t[j], t[i] # WL PROVE i = j
    BY <1>1 DEF Once
  <2>1. CASE i \in 1 .. m /\ j \in 1 .. m
    BY <1>1, <1>5, <2>1 DEF Once
  <2>2. CASE i \in 1 .. m /\ j = m + 1
    <3>1. x \in ToSet(s)
      BY <1>1, <2>2 DEF ToSet
    <3> QED BY <1>1, <1>5, <2>2, <3>1
  <2>3. CASE i = m + 1 /\ j \in 1 .. m
    <3>1. x \in ToSet(s)
      BY <1>1, <2>3 DEF ToSet
    <3> QED BY <1>1, <1>5, <2>3, <3>1
  <2> QED BY <1>3, <2>1, <2>2, <2>3
<1> QED BY <1>1, <1>2, <1>4, <1>5 DEF t

LEMMA TailFacts ==
  ASSUME NEW S, NEW s \in Seq(S), s # <<>>
  PROVE  /\ Tail(s) \in Seq(S) /\ Head(s) \in S /\ ToSet(s) = ToSet(Tail(s)) \cup {Head(s)}
         /\ Once(s) => Once(Tail(s)) /\ (Head(s) = WL \/ Head(s) \notin ToSet(Tail(s)))
<1> DEFINE t == Tail(s)
           m == Len(s) - 1
           x == Head(s)
<1>1. /\ m \in Nat /\ DOMAIN s = 1 .. m + 1 /\ t \in Seq(S) /\ DOMAIN t = 1 .. m
      /\ s[1] = x /\ x \in S /\ \A i \in 1 .. m : t[i] = s[i + 1]
  OBVIOUS
<1> HIDE DEF t, m, x
<1>2. \A i \in 1 .. m : i + 1 \in 1 .. m + 1
  BY <1>1
<1>3. ToSet(s) = ToSet(t) \cup {x}
  <2>1. ASSUME NEW y \in ToSet(s) PROVE y \in ToSet(t) \cup {x}
    <3>1. PICK i \in 1 .. m + 1 : y = s[i]
      BY <1>1 DEF ToSet
    <3>2. CASE i = 1
      BY <1>1, <3>1, <3>2
    <3>3. CASE i # 1
      <4>1. i - 1 \in 1 .. m /\ (i - 1) + 1 = i
        BY <1>1, <3>3
      <4>2. t[i - 1] = s[i]
        BY <1>1, <4>1
      <4> QED BY <1>1, <3>1, <4>1, <4>2 DEF ToSet
    <3> QED BY <3>2, <3>3
  <2>2. ASSUME NEW y \in ToSet(t) PROVE y \in ToSet(s)
    <3>1. PICK i \in 1 .. m : y = t[i]
      BY <1>1 DEF ToSet
    <3> QED BY <1>1, <1>2, <3>1 DEF ToSet
  <2>3. 1 \in 1 .. m + 1
    BY <1>1
  <2>4. x \in ToSet(s)
    BY <1>1, <2>3 DEF ToSet
  <2> QED BY <2>1, <2>2, <2>4
<1>4. ASSUME Once(s) PROVE Once(t) /\ (x = WL \/ x \notin ToSet(t))
  <2>1. Once(t)
    <3> SUFFICES ASSUME NEW i \in 1 .. m, NEW j \in 1 .. m, t[i] = t[j], t[i] # WL PROVE i = j
      BY <1>1 DEF Once
    <3>1. i + 1 = j + 1
      BY <1>1, <1>2, <1>4 DEF Once
    <3> QED BY <3>1
  <2>2. ASSUME x # WL, x \in ToSet(t) PROVE FALSE
    <3>1. PICK i \in 1 .. m : x = t[i]
      BY <1>1, <2>2 DEF ToSet
    <3>2. 1 \in 1 .. m + 1 /\ s[1] = s[i + 1] /\ i + 1 \in 1 .. m + 1
      BY <1>1, <1>2, <3>1
    <3>3. 1 = i + 1
      BY <1>1, <1>4, <2>2, <3>2 DEF Once
    <3> QED BY <3>3
  <2> QED BY <2>1, <2>2
<1> QED BY <1>1, <1>3, <1>4 DEF t, x

LEMMA ConcatFacts ==
  ASSUME NEW S, NEW s \in Seq(S), NEW t \in Seq(S)
  PROVE  /\ s \o t \in Seq(S) /\ ToSet(s \o t) = ToSet(s) \cup ToSet(t)
         /\ Once(s) /\ Once(t) /\ ToSet(s) \cap ToSet(t) = {} => Once(s \o t)
<1> DEFINE r == s \o t
           m == Len(s)
           n == Len(t)
<1>1. /\ m \in Nat /\ n \in Nat /\ DOMAIN s = 1 .. m /\ DOMAIN t = 1 .. n /\ r \in Seq(S)
      /\ DOMAIN r = 1 .. m + n /\ \A i \in 1 .. m : r[i] = s[i]
  OBVIOUS
<1>2. ASSUME NEW j \in 1 .. n PROVE r[m + j] = t[j] /\ m + j \in 1 .. m + n
  <2>1. m + j \in m + 1 .. m + n /\ (m + j) - m = j
    BY <1>1
  <2> QED BY <1>1, <2>1
<1> HIDE DEF r, m, n
<1>3. \A i \in 1 .. m + n : i \in 1 .. m \/ \E j \in 1 .. n : i = m + j
  <2> SUFFICES ASSUME NEW i \in 1 .. m + n, i \notin 1 .. m PROVE \E j \in 1 .. n : i = m + j
    OBVIOUS
  <2>1. i - m \in 1 .. n /\ i = m + (i - m)
    BY <1>1
  <2> QED BY <2>1
<1>4. \A i \in 1 .. m : i \in 1 .. m + n
  BY <1>1
<1>5. ToSet(r) = ToSet(s) \cup ToSet(t)
  <2>1. ASSUME NEW y \in ToSet(r) PROVE y \in ToSet(s) \cup ToSet(t)
    <3>1. PICK i \in 1 .. m + n : y = r[i]
      BY <1>1 DEF ToSet
    <3>2. CASE i \in 1 .. m
      BY <1>1, <3>1, <3>2 DEF ToSet
    <3>3. CASE i \notin 1 .. m
      <4>1. PICK j \in 1 .. n : i = m + j
        BY <1>3, <3>3
      <4> QED BY <1>1, <1>2, <3>1, <4>1 DEF ToSet
    <3> QED BY <3>2, <3>3
  <2>2. ToSet(s) \subseteq ToSet(r)
    BY <1>1, <1>4 DEF ToSet
  <2>3. ToSet(t) \subseteq ToSet(r)
    BY <1>1, <1>2 DEF ToSet
  <2> QED BY <2>1, <2>2, <2>3
<1>6. ASSUME Once(s), Once(t), ToSet(s) \cap ToSet(t) = {} PROVE Once(r)
  <2> SUFFICES ASSUME NEW i \in 1 .. m + n, NEW j \in 1 .. m + n, r[i] = r[j], r[i] # WL PROVE i = j
    BY <1>1 DEF Once
  <2>1. CASE i \in 1 .. m /\ j \in 1 .. m
    BY <1>1, <1>6, <2>1 DEF Once
  <2>2. ASSUME NEW a \in 1 .. m, NEW b \in 1 .. n PROVE s[a] # t[b]
    BY <1>1, <1>6 DEF ToSet
  <2>3. CASE i \notin 1 .. m /\ j \notin 1 .. m
    <3>1. PICK a \in 1 .. n, b \in 1 .. n : i = m + a /\ j = m + b
      BY <1>3, <2>3
    <3>2. t[a] = t[b] /\ t[a] # WL
      BY <1>2, <3>1
    <3>3. a = b
      BY <1>1, <1>6, <3>2 DEF Once
    <3> QED BY <3>1, <3>3
  <2>4. CASE i \in 1 .. m /\ j \notin 1 .. m
    <3>1. PICK b \in 1 .. n : j = m + b
      BY <1>3, <2>4
    <3>2. s[i] = t[b]
      BY <1>1, <1>2, <2>4, <3>1
    <3> QED BY <2>2, <2>4, <3>2
  <2>5. CASE i \notin 1 .. m /\ j \in 1 .. m
    <3>1. PICK b \in 1 .. n : i = m + b
      BY <1>3, <2>5
    <3>2. s[j] = t[b]
      BY <1>1, <1>2, <2>5, <3>1
    <3> QED BY <2>2, <2>5, <3>2
  <2> QED BY <2>1, <2>3, <2>4, <2>5
<1> QED BY <1>1, <1>5, <1>6 DEF r

(***************************************************************************)
(* The scan.                                                               *)
(***************************************************************************)
\* ubi_scan looks at one eraseblock after the other.
LEMMA ScannedStep ==
  /\ Scanned[0] = ScanInit
  /\ \A n \in 1 .. NumPebs : Scanned[n] = ProcessEb(Scanned[n - 1], n)
<1> DEFINE Is(g, m) == g = [n \in 0 .. m |-> IF n = 0 THEN ScanInit ELSE ProcessEb(g[n - 1], n)]
           S == {m \in Nat : \E g : Is(g, m)}
<1>0. NumPebs \in Nat
  BY UbiAssumption
<1>1. 0 \in S
  <2> DEFINE g == [n \in 0 .. 0 |-> ScanInit]
  <2>1. Is(g, 0)
    OBVIOUS
  <2>2. \E h : Is(h, 0)
    BY <2>1
  <2> QED BY <2>2
<1>2. ASSUME NEW k \in 1 .. NumPebs, k - 1 \in S PROVE k \in S
  <2>0. k \in Nat /\ k - 1 \in Nat /\ k # 0
    BY <1>0
  <2>1. PICK g : Is(g, k - 1)
    BY <1>2
  <2> DEFINE h == [n \in 0 .. k |-> IF n = k THEN ProcessEb(g[k - 1], n) ELSE g[n]]
  <2>2. \A n \in 0 .. k : n \in 0 .. k - 1 \/ n = k
    BY <2>0
  <2>3. ASSUME NEW n \in 0 .. k
        PROVE  h[n] = IF n = 0 THEN ScanInit ELSE ProcessEb(h[n - 1], n)
    <3>1. CASE n = k
      <4>1. k - 1 \in 0 .. k /\ k - 1 # k
        BY <2>0
      <4>2. h[n - 1] = g[k - 1] /\ h[n] = ProcessEb(g[k - 1], n)
        BY <3>1, <4>1
      <4> QED BY <2>0, <3>1, <4>2
    <3>2. CASE n \in 0 .. k - 1 /\ n # 0
      <4>1. n - 1 \in 0 .. k /\ n - 1 # k /\ n # k
        BY <2>0, <3>2
      <4>2. h[n] = g[n] /\ h[n - 1] = g[n - 1]
        BY <4>1
      <4>3. g[n] = ProcessEb(g[n - 1], n)
        BY <2>1, <3>2
      <4> QED BY <3>2, <4>2, <4>3
    <3>3. CASE n = 0
      <4>1. h[n] = g[n] /\ 0 \in 0 .. k - 1
        BY <2>0, <3>3
      <4>2. g[0] = ScanInit
        BY <2>1, <4>1
      <4> QED BY <3>3, <4>1, <4>2
    <3> QED BY <2>2, <3>1, <3>2, <3>3
  <2>4. h = [n \in 0 .. k |-> h[n]]
    OBVIOUS
  <2> HIDE DEF h
  <2>5. h = [n \in 0 .. k |-> IF n = 0 THEN ScanInit ELSE ProcessEb(h[n - 1], n)]
    BY <2>3, <2>4
  <2>6. \E e : Is(e, k)
    BY <2>5
  <2> QED BY <2>0, <2>6
<1> HIDE DEF S
<1>3. NumPebs \in S
  <2>1. \A i \in 0 .. NumPebs : i \in S
    BY <1>0, <1>1, <1>2, UpTo
  <2> QED BY <1>0, <2>1
<1>4. \E g : g = [n \in 0 .. NumPebs |-> IF n = 0 THEN ScanInit ELSE ProcessEb(g[n - 1], n)]
  BY <1>3 DEF S
<1>5. Scanned = [n \in 0 .. NumPebs |-> IF n = 0 THEN ScanInit ELSE ProcessEb(Scanned[n - 1], n)]
  BY <1>4 DEF Scanned
<1>6. 0 \in 0 .. NumPebs /\ \A n \in 1 .. NumPebs : n \in 0 .. NumPebs /\ n # 0
  BY <1>0
<1>7. Scanned[0] = ScanInit
  BY <1>5, <1>6
<1>8. ASSUME NEW n \in 1 .. NumPebs PROVE Scanned[n] = ProcessEb(Scanned[n - 1], n)
  BY <1>5, <1>6
<1> QED BY <1>7, <1>8

ScanState == [leb : [Lebs -> Pebs \cup {None}], erase : Seq(Pebs \cup {WL}),
              corr : Seq(Pebs \cup {WL}), free : SUBSET Pebs, scrub : SUBSET Pebs,
              max : Nat, ok : BOOLEAN]

Held(s) == {s.leb[l] : l \in Lebs} \ {None}

\* The eraseblocks looked at are shared out.
ScanShared(s, P) ==
  /\ Held(s) \cap s.free = {} /\ Held(s) \cap ToSet(s.erase) = {} /\ Held(s) \cap ToSet(s.corr) = {}
  /\ s.free \cap ToSet(s.erase) = {} /\ s.free \cap ToSet(s.corr) = {}
  /\ ToSet(s.erase) \cap ToSet(s.corr) = {}
  /\ Held(s) \cup s.free \cup ToSet(s.erase) \cup ToSet(s.corr) = P
  /\ Once(s.erase) /\ Once(s.corr) /\ s.scrub \subseteq Held(s)

\* They are linked to what they hold, and the numbers seen.
ScanLinked(s, P) ==
  /\ \A l \in Lebs : s.leb[l] # None => HasVid(s.leb[l]) /\ peb[s.leb[l]].vid.l = l
  /\ \A p \in s.free : Fresh(p)
  /\ \A p \in P : HasVid(p) => peb[p].vid.sq <= s.max

ScanFails(s) == ~s.ok => \E p \in Pebs : HasVid(p) /\ EccError(p)

Seen(n) == (1 .. n) \ bad

ScanOk(s, n) == s \in ScanState /\ ScanShared(s, Seen(n)) /\ ScanLinked(s, Seen(n)) /\ ScanFails(s)

LEMMA PebFacts ==
  ASSUME FlashOk, NEW p \in Pebs
  PROVE  /\ peb[p] \in PebState
         /\ HasVid(p) => peb[p].vid.l \in Lebs /\ peb[p].vid.sq \in Nat /\ peb[p].vid.crc \in Seq(Nat)
         /\ HasVid(p) => peb[p].vid # NoVid /\ peb[p].vid # TornVid
         /\ ~HasVid(p) => peb[p].vid \in {NoVid, TornVid}
         /\ peb[p].vid.st = "none" <=> peb[p].vid = NoVid
         /\ peb[p].vid.st = "torn" <=> peb[p].vid = TornVid
         /\ peb[p].data \in Seq(Nat) /\ Len(peb[p].data) \in Nat
<1>1. peb[p] \in PebState
  BY DEF FlashOk
<1>2. peb[p].vid \in {NoVid, TornVid} \cup [st : {"ok"}, l : Lebs, sq : Nat, crc : Seq(Nat)]
  BY <1>1 DEF PebState
<1>3. peb[p].data \in Seq(Nat)
  BY <1>1 DEF PebState
<1>4. NoVid.st = "none" /\ TornVid.st = "torn"
  BY DEF NoVid, TornVid
<1> QED BY <1>1, <1>2, <1>3, <1>4 DEF HasVid

LEMMA ScanStart == ScanOk(ScanInit, 0)
<1>1. ScanInit \in ScanState
  BY DEF ScanInit, ScanState
<1>2. Held(ScanInit) = {} /\ ScanInit.free = {} /\ ToSet(ScanInit.erase) = {}
      /\ ToSet(ScanInit.corr) = {} /\ ScanInit.scrub = {} /\ ScanInit.ok
      /\ \A l \in Lebs : ScanInit.leb[l] = None
  BY DEF ScanInit, Held, ToSet
<1>3. Once(ScanInit.erase) /\ Once(ScanInit.corr)
  BY DEF ScanInit, Once
<1>4. Seen(0) = {}
  BY DEF Seen
<1> QED BY <1>1, <1>2, <1>3, <1>4 DEF ScanOk, ScanShared, ScanLinked, ScanFails

LEMMA SeenNext ==
  ASSUME NEW p \in Pebs
  PROVE  /\ p \in bad => Seen(p) = Seen(p - 1)
         /\ p \notin bad => Seen(p) = Seen(p - 1) \cup {p}
         /\ p \notin Seen(p - 1)
<1>1. NumPebs \in Nat /\ p \in Nat
  BY UbiAssumption DEF Pebs
<1>2. 1 .. p = (1 .. p - 1) \cup {p} /\ p \notin 1 .. p - 1
  BY <1>1 DEF Pebs
<1> QED BY <1>2 DEF Seen

LEMMA SeenPebs == ASSUME NEW p \in Pebs, NEW x \in Seen(p - 1) PROVE x \in Pebs
<1>1. NumPebs \in Nat
  BY UbiAssumption
<1> QED BY <1>1 DEF Seen, Pebs

\* From s to t, of the copies p and q one wins.
Second(s, t, p, q, win, lose) ==
  /\ (win = p /\ lose = q) \/ (win = q /\ lose = p)
  /\ t.leb = [s.leb EXCEPT ![peb[p].vid.l] = win] /\ t.free = s.free /\ t.max = s.max
  /\ \/ t.erase = Append(s.erase, lose) /\ t.corr = s.corr
     \/ t.erase = s.erase /\ t.corr = Append(s.corr, lose)
  /\ \/ win = q /\ t.scrub = s.scrub
     \/ win = p /\ t.scrub \subseteq (s.scrub \ {q}) \cup {p}
  /\ t \in ScanState
  /\ ~t.ok => ~s.ok \/ peb[p].vid.sq = peb[q].vid.sq \/ EccError(p) \/ EccError(q)

\* A second copy of a logical eraseblock is found.
LEMMA SecondFacts ==
  ASSUME FlashOk, NEW s \in ScanState, NEW p \in Pebs, NEW q \in Pebs, p # q, HasVid(p), HasVid(q),
         NEW t, t = SecondCopy(s, p, q)
  PROVE  \E win, lose \in {p, q} : Second(s, t, p, q, win, lose)
<1> DEFINE new == IF peb[p].vid.sq > peb[q].vid.sq THEN p ELSE q
           old == IF new = p THEN q ELSE p
           isCopy == peb[new].vid.crc # <<>>
           win == IF isCopy /\ ~CrcOk(new) THEN old ELSE new
           lose == IF win = new THEN old ELSE new
           l == peb[p].vid.l
<1>1. (new = p /\ old = q) \/ (new = q /\ old = p)
  OBVIOUS
<1>2. (win = p /\ lose = q) \/ (win = q /\ lose = p)
  BY <1>1
<1>3. t = [s EXCEPT !.leb[l] = win,
               !.ok = @ /\ peb[p].vid.sq # peb[q].vid.sq /\ ~(isCopy /\ EccError(new)),
               !.erase = IF win = new THEN Append(@, old) ELSE @,
               !.corr  = IF win = old THEN Append(@, new) ELSE @,
               !.scrub = IF win = q THEN @
                         ELSE (@ \ {q}) \cup {x \in {p} : peb[p].ec = "bad"}]
  BY DEF SecondCopy
<1> HIDE DEF win
<1>4. /\ t.leb = [s.leb EXCEPT ![l] = win] /\ t.free = s.free /\ t.max = s.max
      /\ t.erase = IF win = new THEN Append(s.erase, old) ELSE s.erase
      /\ t.corr = IF win = old THEN Append(s.corr, new) ELSE s.corr
      /\ t.scrub = IF win = q THEN s.scrub ELSE (s.scrub \ {q}) \cup {x \in {p} : peb[p].ec = "bad"}
  BY <1>3 DEF ScanState
<1>5. t.ok = (s.ok /\ peb[p].vid.sq # peb[q].vid.sq /\ ~(isCopy /\ EccError(new)))
  BY <1>3 DEF ScanState
<1> HIDE DEF new, old, isCopy, lose
<1>6. \/ t.erase = Append(s.erase, lose) /\ t.corr = s.corr
      \/ t.erase = s.erase /\ t.corr = Append(s.corr, lose)
  <2>1. CASE win = new
    BY <1>1, <1>4, <2>1 DEF lose
  <2>2. CASE win # new
    BY <1>1, <1>2, <1>4, <2>2 DEF lose
  <2> QED BY <2>1, <2>2
<1>7. \/ win = q /\ t.scrub = s.scrub
      \/ win = p /\ t.scrub \subseteq (s.scrub \ {q}) \cup {p}
  BY <1>2, <1>4
<1>8. ~t.ok => ~s.ok \/ peb[p].vid.sq = peb[q].vid.sq \/ EccError(p) \/ EccError(q)
  BY <1>1, <1>5
<1>9. t \in ScanState
  <2>1. t.leb \in [Lebs -> Pebs \cup {None}]
    <3>1. s.leb \in [Lebs -> Pebs \cup {None}] /\ win \in Pebs \cup {None} /\ l \in Lebs
      BY <1>2, PebFacts DEF ScanState
    <3> HIDE DEF l
    <3> QED BY <1>4, <3>1 DEF l
  <2>2. t.erase \in Seq(Pebs \cup {WL}) /\ t.corr \in Seq(Pebs \cup {WL})
    <3>1. s.erase \in Seq(Pebs \cup {WL}) /\ s.corr \in Seq(Pebs \cup {WL}) /\ lose \in Pebs \cup {WL}
      BY <1>2 DEF ScanState
    <3>2. Append(s.erase, lose) \in Seq(Pebs \cup {WL}) /\ Append(s.corr, lose) \in Seq(Pebs \cup {WL})
      BY <3>1, AppendFacts
    <3> QED BY <1>6, <3>1, <3>2
  <2>3. t.free \in SUBSET Pebs /\ t.scrub \in SUBSET Pebs /\ t.max \in Nat
    BY <1>4 DEF ScanState
  <2>4. t.ok \in BOOLEAN
    BY <1>5
  <2>5. t = [leb |-> t.leb, erase |-> t.erase, corr |-> t.corr, free |-> t.free, scrub |-> t.scrub,
             max |-> t.max, ok |-> t.ok]
    BY <1>3 DEF ScanState
  <2> QED BY <2>1, <2>2, <2>3, <2>4, <2>5 DEF ScanState
<1>10. /\ t.leb = [s.leb EXCEPT ![l] = win] /\ t.free = s.free /\ t.max = s.max
  BY <1>4
<1>11. win \in {p, q} /\ lose \in {p, q}
  BY <1>2
<1> QED BY <1>2, <1>6, <1>7, <1>8, <1>9, <1>10, <1>11 DEF Second

\* An eraseblock is added to one of the lists, or to the free ones.
LEMMA ScanLists ==
  ASSUME FlashOk, NEW p \in Pebs \ bad, NEW s, ScanOk(s, p - 1), ~HasVid(p),
         NEW t \in ScanState, t.leb = s.leb, t.max = s.max, t.scrub = s.scrub, t.ok = s.ok,
         \/ t.erase = Append(s.erase, p) /\ t.corr = s.corr /\ t.free = s.free
         \/ t.corr = Append(s.corr, p) /\ t.erase = s.erase /\ t.free = s.free
         \/ t.free = s.free \cup {p} /\ Fresh(p) /\ t.erase = s.erase /\ t.corr = s.corr
  PROVE  ScanOk(t, p)
<1>1. s \in ScanState /\ ScanShared(s, Seen(p - 1)) /\ ScanLinked(s, Seen(p - 1)) /\ ScanFails(s)
  BY DEF ScanOk
<1>2. Seen(p) = Seen(p - 1) \cup {p} /\ p \notin Seen(p - 1)
  BY SeenNext
<1>3. s.erase \in Seq(Pebs \cup {WL}) /\ s.corr \in Seq(Pebs \cup {WL}) /\ p \in Pebs \cup {WL}
  BY <1>1 DEF ScanState
<1>4. p \notin Held(s) \cup s.free \cup ToSet(s.erase) \cup ToSet(s.corr)
  BY <1>1, <1>2 DEF ScanShared
<1>5. /\ ToSet(Append(s.erase, p)) = ToSet(s.erase) \cup {p}
      /\ ToSet(Append(s.corr, p)) = ToSet(s.corr) \cup {p}
      /\ Once(s.erase) => Once(Append(s.erase, p))
      /\ Once(s.corr) => Once(Append(s.corr, p))
  BY <1>3, <1>4, AppendFacts
<1>6. Held(t) = Held(s)
  BY DEF Held
<1>7. ScanShared(t, Seen(p))
  <2>1. CASE t.erase = Append(s.erase, p) /\ t.corr = s.corr /\ t.free = s.free
    BY <1>1, <1>2, <1>4, <1>5, <1>6, <2>1 DEF ScanShared
  <2>2. CASE t.corr = Append(s.corr, p) /\ t.erase = s.erase /\ t.free = s.free
    BY <1>1, <1>2, <1>4, <1>5, <1>6, <2>2 DEF ScanShared
  <2>3. CASE t.free = s.free \cup {p} /\ Fresh(p) /\ t.erase = s.erase /\ t.corr = s.corr
    BY <1>1, <1>2, <1>4, <1>6, <2>3 DEF ScanShared
  <2> QED BY <2>1, <2>2, <2>3
<1>8. ScanLinked(t, Seen(p))
  BY <1>1, <1>2 DEF ScanLinked
<1> QED BY <1>1, <1>7, <1>8 DEF ScanOk, ScanFails

\* The first copy of a logical eraseblock.
LEMMA ScanFirst ==
  ASSUME FlashOk, NEW p \in Pebs \ bad, NEW s, ScanOk(s, p - 1), HasVid(p),
         s.leb[peb[p].vid.l] = None,
         NEW t \in ScanState, t.leb = [s.leb EXCEPT ![peb[p].vid.l] = p],
         t.erase = s.erase, t.corr = s.corr, t.free = s.free,
         t.scrub \subseteq s.scrub \cup {p}, t.ok = s.ok,
         t.max >= s.max, t.max >= peb[p].vid.sq
  PROVE  ScanOk(t, p)
<1> DEFINE l == peb[p].vid.l
<1>1. s \in ScanState /\ ScanShared(s, Seen(p - 1)) /\ ScanLinked(s, Seen(p - 1)) /\ ScanFails(s)
  BY DEF ScanOk
<1>2. Seen(p) = Seen(p - 1) \cup {p} /\ p \notin Seen(p - 1)
  BY SeenNext
<1>3. l \in Lebs /\ s.leb \in [Lebs -> Pebs \cup {None}] /\ p # None
  BY <1>1, PebFacts DEF ScanState, Pebs, None
<1>4. p \notin Held(s) \cup s.free \cup ToSet(s.erase) \cup ToSet(s.corr)
  BY <1>1, <1>2 DEF ScanShared
<1> HIDE DEF l
<1>5. t.leb[l] = p /\ \A k \in Lebs : k # l => t.leb[k] = s.leb[k]
  BY <1>3 DEF l
<1>6. Held(t) = Held(s) \cup {p}
  BY <1>3, <1>5 DEF Held, l
<1>7. ScanShared(t, Seen(p))
  BY <1>1, <1>2, <1>4, <1>6 DEF ScanShared
<1>8. ScanLinked(t, Seen(p))
  <2>1. \A k \in Lebs : t.leb[k] # None => HasVid(t.leb[k]) /\ peb[t.leb[k]].vid.l = k
    BY <1>1, <1>3, <1>5 DEF ScanLinked, l
  <2>2. \A x \in t.free : Fresh(x)
    BY <1>1 DEF ScanLinked
  <2>3. ASSUME NEW x \in Seen(p), HasVid(x) PROVE peb[x].vid.sq <= t.max
    <3>1. CASE x = p
      BY <3>1, PebFacts DEF ScanState
    <3>2. CASE x \in Seen(p - 1)
      <4> DEFINE a == peb[x].vid.sq
      <4>0. x \in Pebs
        BY <3>2, SeenPebs
      <4>1. a <= s.max /\ a \in Nat /\ s.max \in Nat /\ t.max \in Nat
        <5>1. a <= s.max
          BY <1>1, <2>3, <3>2 DEF ScanLinked
        <5>2. a \in Nat
          BY <2>3, <4>0, PebFacts
        <5> QED BY <1>1, <5>1, <5>2 DEF ScanState
      <4> HIDE DEF a
      <4>2. a <= t.max
        BY <4>1
      <4> QED BY <4>2 DEF a
    <3> QED BY <1>2, <3>1, <3>2
  <2> QED BY <2>1, <2>2, <2>3 DEF ScanLinked
<1> QED BY <1>1, <1>7, <1>8 DEF ScanOk, ScanFails

\* A further copy.
LEMMA ScanSecond ==
  ASSUME FlashOk, NEW p \in Pebs \ bad, NEW s, ScanOk(s, p - 1), HasVid(p),
         NEW q \in Pebs, s.leb[peb[p].vid.l] = q,
         NEW m \in Nat, m >= s.max, m >= peb[p].vid.sq,
         NEW t, t = SecondCopy([s EXCEPT !.max = m], p, q)
  PROVE  ScanOk(t, p)
<1> DEFINE l == peb[p].vid.l
           r == [s EXCEPT !.max = m]
<1>1. s \in ScanState /\ ScanShared(s, Seen(p - 1)) /\ ScanLinked(s, Seen(p - 1)) /\ ScanFails(s)
  BY DEF ScanOk
<1>2. Seen(p) = Seen(p - 1) \cup {p} /\ p \notin Seen(p - 1)
  BY SeenNext
<1>3. /\ l \in Lebs /\ s.leb \in [Lebs -> Pebs \cup {None}] /\ p # None /\ q # None
      /\ s.erase \in Seq(Pebs \cup {WL}) /\ s.corr \in Seq(Pebs \cup {WL})
  BY <1>1, PebFacts DEF ScanState, Pebs, None
<1>4. p \notin Held(s) \cup s.free \cup ToSet(s.erase) \cup ToSet(s.corr)
  BY <1>1, <1>2 DEF ScanShared
<1>5. q \in Held(s) /\ HasVid(q) /\ peb[q].vid.l = l /\ q # p
  BY <1>1, <1>3, <1>4 DEF Held, ScanLinked
<1>6. /\ r \in ScanState /\ r.leb = s.leb /\ r.free = s.free /\ r.max = m /\ r.erase = s.erase
      /\ r.corr = s.corr /\ r.scrub = s.scrub /\ r.ok = s.ok
  BY <1>1 DEF ScanState
<1>6a. t = SecondCopy(r, p, q) /\ p \in Pebs /\ p # q
  BY <1>5
<1> HIDE DEF r, l
<1>7a. PICK win \in {p, q}, lose \in {p, q} : Second(r, t, p, q, win, lose)
  <2>1. r \in ScanState
    BY <1>6
  <2>2. HasVid(q)
    BY <1>5
  <2> QED BY <1>6a, <2>1, <2>2, SecondFacts
<1>7. /\ (win = p /\ lose = q) \/ (win = q /\ lose = p)
      /\ t.leb = [r.leb EXCEPT ![peb[p].vid.l] = win] /\ t.free = r.free /\ t.max = r.max
      /\ \/ t.erase = Append(r.erase, lose) /\ t.corr = r.corr
         \/ t.erase = r.erase /\ t.corr = Append(r.corr, lose)
      /\ \/ win = q /\ t.scrub = r.scrub
         \/ win = p /\ t.scrub \subseteq (r.scrub \ {q}) \cup {p}
      /\ t \in ScanState
      /\ ~t.ok => ~r.ok \/ peb[p].vid.sq = peb[q].vid.sq \/ EccError(p) \/ EccError(q)
  BY <1>7a DEF Second
<1>8. t.leb[l] = win /\ \A k \in Lebs : k # l => t.leb[k] = s.leb[k] /\ s.leb[k] # q
  <2>1. t.leb[l] = win /\ \A k \in Lebs : k # l => t.leb[k] = s.leb[k]
    BY <1>3, <1>6, <1>7 DEF l
  <2>2. \A k \in Lebs : k # l => s.leb[k] # q
    BY <1>1, <1>3, <1>5 DEF ScanLinked
  <2> QED BY <2>1, <2>2
<1>9. Held(t) = (Held(s) \ {q}) \cup {win}
  <2>1. win # None /\ l \in Lebs /\ s.leb[l] = q
    BY <1>3, <1>7 DEF l
  <2>2. ASSUME NEW x \in Held(t) PROVE x \in (Held(s) \ {q}) \cup {win}
    <3>1. PICK k \in Lebs : x = t.leb[k] /\ x # None
      BY DEF Held
    <3> QED BY <1>8, <3>1 DEF Held
  <2>3. ASSUME NEW x \in Held(s), x # q PROVE x \in Held(t)
    <3>1. PICK k \in Lebs : x = s.leb[k] /\ x # None
      BY DEF Held
    <3>2. k # l
      BY <2>1, <2>3, <3>1
    <3> QED BY <1>8, <3>1, <3>2 DEF Held
  <2>4. win \in Held(t)
    BY <1>8, <2>1 DEF Held
  <2> QED BY <2>2, <2>3, <2>4
<1>10. /\ ToSet(Append(s.erase, lose)) = ToSet(s.erase) \cup {lose}
       /\ ToSet(Append(s.corr, lose)) = ToSet(s.corr) \cup {lose}
       /\ Once(s.erase) => Once(Append(s.erase, lose))
       /\ Once(s.corr) => Once(Append(s.corr, lose))
  <2>1. lose \in Pebs \cup {WL} /\ lose \notin ToSet(s.erase) /\ lose \notin ToSet(s.corr)
    BY <1>1, <1>4, <1>5, <1>7 DEF ScanShared
  <2> QED BY <1>3, <2>1, AppendFacts
<1>11. ScanShared(t, Seen(p))
  <2>0. t.free = s.free
    BY <1>6, <1>7
  <2>1. /\ ToSet(t.erase) \cup ToSet(t.corr) = ToSet(s.erase) \cup ToSet(s.corr) \cup {lose}
        /\ ToSet(t.erase) \cap ToSet(t.corr) = {} /\ Once(t.erase) /\ Once(t.corr)
    <3>1. lose \notin ToSet(s.erase) /\ lose \notin ToSet(s.corr)
      BY <1>1, <1>4, <1>5, <1>7 DEF ScanShared
    <3>2. /\ ToSet(s.erase) \cap ToSet(s.corr) = {} /\ Once(s.erase) /\ Once(s.corr)
      BY <1>1 DEF ScanShared
    <3>3. CASE t.erase = Append(r.erase, lose) /\ t.corr = r.corr
      BY <1>6, <1>10, <3>1, <3>2, <3>3
    <3>4. CASE t.erase = r.erase /\ t.corr = Append(r.corr, lose)
      BY <1>6, <1>10, <3>1, <3>2, <3>4
    <3> QED BY <1>7, <3>3, <3>4
  <2>2. (Held(s) \cup {p}) = Held(t) \cup {lose} /\ lose \notin Held(t) /\ win \in Held(t)
    BY <1>4, <1>5, <1>7, <1>9
  <2>3. t.scrub \subseteq Held(t)
    BY <1>1, <1>5, <1>6, <1>7, <1>9 DEF ScanShared
  <2>4. /\ Held(s) \cap s.free = {} /\ Held(s) \cap (ToSet(s.erase) \cup ToSet(s.corr)) = {}
        /\ s.free \cap (ToSet(s.erase) \cup ToSet(s.corr)) = {}
        /\ Held(s) \cup s.free \cup (ToSet(s.erase) \cup ToSet(s.corr)) = Seen(p - 1)
    BY <1>1 DEF ScanShared
  <2> DEFINE E == ToSet(t.erase) \cup ToSet(t.corr)
             F == ToSet(s.erase) \cup ToSet(s.corr)
  <2>5. E = F \cup {lose}
    BY <2>1
  <2> HIDE DEF E, F
  <2>6. Held(t) \cap s.free = {} /\ Held(t) \cap E = {} /\ s.free \cap E = {}
        /\ Held(t) \cup s.free \cup E = Seen(p)
    BY <1>2, <1>4, <1>5, <1>7, <2>2, <2>4, <2>5 DEF F
  <2> QED BY <2>0, <2>1, <2>3, <2>6 DEF ScanShared, E
<1>12. ScanLinked(t, Seen(p))
  <2>1. \A k \in Lebs : t.leb[k] # None => HasVid(t.leb[k]) /\ peb[t.leb[k]].vid.l = k
    BY <1>1, <1>3, <1>5, <1>7, <1>8 DEF ScanLinked, l
  <2>2. \A x \in t.free : Fresh(x)
    BY <1>1, <1>6, <1>7 DEF ScanLinked
  <2>3. ASSUME NEW x \in Seen(p), HasVid(x) PROVE peb[x].vid.sq <= t.max
    <3>0. t.max = m
      BY <1>6, <1>7
    <3>1. CASE x = p
      BY <3>0, <3>1
    <3>2. CASE x \in Seen(p - 1)
      <4> DEFINE a == peb[x].vid.sq
      <4>0. x \in Pebs
        BY <3>2, SeenPebs
      <4>1. a <= s.max /\ a \in Nat /\ s.max \in Nat
        <5>1. a <= s.max
          BY <1>1, <2>3, <3>2 DEF ScanLinked
        <5>2. a \in Nat
          BY <2>3, <4>0, PebFacts
        <5> QED BY <1>1, <5>1, <5>2 DEF ScanState
      <4> HIDE DEF a
      <4>2. a <= m
        BY <4>1
      <4> QED BY <3>0, <4>2 DEF a
    <3> QED BY <1>2, <3>1, <3>2
  <2> QED BY <2>1, <2>2, <2>3 DEF ScanLinked
<1>13. ScanFails(t)
  <2>1. q \in Pebs \ bad
    BY <1>1, <1>5 DEF ScanShared, Seen
  <2>2. peb[p].vid.sq # peb[q].vid.sq
    BY <1>5, <2>1 DEF FlashOk
  <2>3. ~t.ok => ~s.ok \/ EccError(p) \/ EccError(q)
    BY <1>6, <1>7, <2>2
  <2> QED BY <1>1, <1>5, <2>3 DEF ScanFails
<1> QED BY <1>7, <1>11, <1>12, <1>13 DEF ScanOk

LEMMA ScanProcess ==
  ASSUME FlashOk, NEW p \in Pebs, NEW s, ScanOk(s, p - 1)
  PROVE  ScanOk(ProcessEb(s, p), p)
<1> DEFINE t == ProcessEb(s, p)
           l == peb[p].vid.l
<1>1. s \in ScanState /\ ScanShared(s, Seen(p - 1)) /\ ScanLinked(s, Seen(p - 1)) /\ ScanFails(s)
  BY DEF ScanOk
<1>2. /\ s.leb \in [Lebs -> Pebs \cup {None}] /\ s.free \subseteq Pebs /\ s.scrub \subseteq Pebs
      /\ s.erase \in Seq(Pebs \cup {WL}) /\ s.corr \in Seq(Pebs \cup {WL}) /\ s.max \in Nat
      /\ s.ok \in BOOLEAN /\ p \in Pebs \cup {WL}
  BY <1>1 DEF ScanState
<1>3. Append(s.erase, p) \in Seq(Pebs \cup {WL}) /\ Append(s.corr, p) \in Seq(Pebs \cup {WL})
  BY <1>2, AppendFacts
<1>4. CASE p \in bad
  BY <1>1, <1>4, SeenNext DEF ScanOk, ProcessEb
<1>5. CASE p \notin bad /\ peb[p].ec = "none"
  <2>1. ~HasVid(p)
    BY <1>5, PebFacts DEF FlashOk
  <2>2. t = [s EXCEPT !.erase = Append(@, p)]
    BY <1>5 DEF ProcessEb
  <2> HIDE DEF t
  <2>3. /\ t \in ScanState /\ t.leb = s.leb /\ t.max = s.max /\ t.scrub = s.scrub /\ t.ok = s.ok
        /\ t.erase = Append(s.erase, p) /\ t.corr = s.corr /\ t.free = s.free
    BY <1>1, <1>3, <2>2 DEF ScanState
  <2>4. ScanOk(t, p)
    BY <1>5, <2>1, <2>3, ScanLists
  <2> QED BY <2>4 DEF t
<1>6. CASE p \notin bad /\ peb[p].ec # "none" /\ ~HasVid(p) /\ (peb[p].vid.st = "torn" \/ peb[p].ec = "bad")
  <2>2. t = [s EXCEPT !.corr = Append(@, p)]
    BY <1>6 DEF ProcessEb, HasVid
  <2> HIDE DEF t
  <2>3. /\ t \in ScanState /\ t.leb = s.leb /\ t.max = s.max /\ t.scrub = s.scrub /\ t.ok = s.ok
        /\ t.corr = Append(s.corr, p) /\ t.erase = s.erase /\ t.free = s.free
    BY <1>1, <1>3, <2>2 DEF ScanState
  <2>4. ScanOk(t, p)
    BY <1>6, <2>3, ScanLists
  <2> QED BY <2>4 DEF t
<1>7. CASE p \notin bad /\ peb[p].ec # "none" /\ ~HasVid(p) /\ ~(peb[p].vid.st = "torn" \/ peb[p].ec = "bad")
  <2>1. Fresh(p)
    BY <1>7, PebFacts DEF Fresh
  <2>2. t = [s EXCEPT !.free = @ \cup {p}]
    BY <1>7 DEF ProcessEb, HasVid
  <2> HIDE DEF t
  <2>3. /\ t \in ScanState /\ t.leb = s.leb /\ t.max = s.max /\ t.scrub = s.scrub /\ t.ok = s.ok
        /\ t.free = s.free \cup {p} /\ t.erase = s.erase /\ t.corr = s.corr
    BY <1>1, <2>2 DEF ScanState
  <2>4. ScanOk(t, p)
    BY <1>7, <2>1, <2>3, ScanLists
  <2> QED BY <2>4 DEF t
<1>8. CASE p \notin bad /\ peb[p].ec # "none" /\ HasVid(p)
  <2> DEFINE m == Bigger(s.max, peb[p].vid.sq)
  <2>1. l \in Lebs /\ peb[p].vid.sq \in Nat
    BY <1>8, PebFacts
  <2>2. m \in Nat /\ m >= s.max /\ m >= peb[p].vid.sq
    BY <1>2, <2>1 DEF Bigger
  <2>3. CASE s.leb[l] = None
    <3>1. t = [s EXCEPT !.max = m, !.leb[l] = p,
                        !.scrub = @ \cup {x \in {p} : peb[p].ec = "bad"}]
      BY <1>1, <1>8, <2>3 DEF ProcessEb, AddUsed, HasVid, ScanState
    <3> HIDE DEF t, m, l
    <3>2. /\ t.leb = [s.leb EXCEPT ![l] = p] /\ t.max = m /\ t.ok = s.ok
          /\ t.scrub = s.scrub \cup {x \in {p} : peb[p].ec = "bad"}
          /\ t.free = s.free /\ t.erase = s.erase /\ t.corr = s.corr
          /\ t = [leb |-> t.leb, erase |-> t.erase, corr |-> t.corr, free |-> t.free,
                  scrub |-> t.scrub, max |-> t.max, ok |-> t.ok]
      BY <1>1, <3>1 DEF ScanState
    <3>3. t.leb \in [Lebs -> Pebs \cup {None}] /\ t.scrub \subseteq s.scrub \cup {p}
      BY <1>2, <2>1, <3>2
    <3>4. t \in ScanState
      BY <1>2, <2>2, <3>2, <3>3 DEF ScanState
    <3>5. /\ s.leb[peb[p].vid.l] = None /\ t.leb = [s.leb EXCEPT ![peb[p].vid.l] = p]
          /\ t.max >= s.max /\ t.max >= peb[p].vid.sq
      BY <2>2, <2>3, <3>2 DEF l
    <3>6. ScanOk(t, p)
      BY <1>8, <3>2, <3>3, <3>4, <3>5, ScanFirst
    <3> QED BY <3>6 DEF t
  <2>4. CASE s.leb[l] # None
    <3> DEFINE q == s.leb[l]
    <3>1. q \in Pebs
      BY <1>2, <2>1, <2>4
    <3>2. t = SecondCopy([s EXCEPT !.max = m], p, q)
      BY <1>1, <1>8, <2>4 DEF ProcessEb, AddUsed, HasVid, ScanState
    <3>3. s.leb[peb[p].vid.l] = q
      OBVIOUS
    <3> HIDE DEF t, m, q, l
    <3>4. ScanOk(t, p)
      BY <1>8, <2>2, <3>1, <3>2, <3>3, ScanSecond
    <3> QED BY <3>4 DEF t
  <2> QED BY <2>3, <2>4
<1> QED BY <1>4, <1>5, <1>6, <1>7, <1>8

\* What the scan has found.
LEMMA ScanHolds == ASSUME FlashOk PROVE ScanOk(Scan, NumPebs)
<1> DEFINE S == {n \in 0 .. NumPebs : ScanOk(Scanned[n], n)}
<1>0. NumPebs \in Nat /\ 0 \in 0 .. NumPebs
  BY UbiAssumption
<1>1. 0 \in S
  BY <1>0, ScannedStep, ScanStart
<1>2. ASSUME NEW n \in 1 .. NumPebs, n - 1 \in S PROVE n \in S
  <2>1. n \in Pebs /\ n \in 0 .. NumPebs
    BY <1>0 DEF Pebs
  <2>2. ScanOk(ProcessEb(Scanned[n - 1], n), n)
    BY <1>2, <2>1, ScanProcess
  <2> QED BY <2>1, <2>2, ScannedStep
<1> HIDE DEF S
<1>3. \A i \in 0 .. NumPebs : i \in S
  BY <1>0, <1>1, <1>2, UpTo
<1>4. NumPebs \in S
  BY <1>0, <1>3
<1> QED BY <1>4 DEF S, Scan

(***************************************************************************)
(* The start, and what an operation on the flash leaves.                   *)
(***************************************************************************)
LEMMA InitHolds == ASSUME Init PROVE IInv
<1>0. NumPebs \in Nat /\ NumHeld \in Nat /\ Pages >= 1
  BY UbiAssumption, FS_CardinalityType
<1>1. PICK held \in [1 .. NumHeld -> Lebs] :
        peb = [p \in Pebs |->
                 IF p <= NumHeld
                 THEN [ec |-> "ok", vid |-> Vid(held[p], p, <<>>), data |-> <<1>>]
                 ELSE [Blank EXCEPT !.ec = IF p = NumPebs THEN "none" ELSE "ok"]]
  BY DEF Init
<1>2. ASSUME NEW p \in Pebs
      PROVE  /\ peb[p] \in PebState /\ Len(peb[p].data) <= Pages
             /\ peb[p].vid = NoVid => peb[p].data = <<>>
             /\ peb[p].ec = "none" => peb[p].vid = NoVid
             /\ HasVid(p) => peb[p].vid.sq = p
  <2>0. p \in Nat
    BY DEF Pebs
  <2>1. CASE p <= NumHeld
    <3>1. peb[p] = [ec |-> "ok", vid |-> Vid(held[p], p, <<>>), data |-> <<1>>]
      BY <1>1, <2>1
    <3>2. p \in 1 .. NumHeld
      BY <1>0, <2>0, <2>1 DEF Pebs
    <3>3. held[p] \in Lebs
      BY <3>2
    <3>4. Vid(held[p], p, <<>>) \in [st : {"ok"}, l : Lebs, sq : Nat, crc : Seq(Nat)]
      BY <2>0, <3>3 DEF Vid
    <3>5. Vid(held[p], p, <<>>) # NoVid
      BY DEF Vid, NoVid
    <3>6. <<1>> \in Seq(Nat) /\ Len(<<1>>) = 1
      OBVIOUS
    <3>7. peb[p].vid.sq = p
      BY <3>1 DEF Vid
    <3> QED BY <1>0, <3>1, <3>4, <3>5, <3>6, <3>7 DEF PebState
  <2>2. CASE ~(p <= NumHeld)
    <3>1. peb[p] = [ec |-> IF p = NumPebs THEN "none" ELSE "ok", vid |-> NoVid, data |-> <<>>]
      BY <1>1, <2>2 DEF Blank
    <3>2. ~HasVid(p)
      BY <3>1 DEF HasVid, NoVid
    <3>3. <<>> \in Seq(Nat) /\ Len(<<>>) = 0
      OBVIOUS
    <3>4. 0 <= Pages
      BY UbiAssumption
    <3> QED BY <3>1, <3>2, <3>3, <3>4 DEF PebState
  <2> QED BY <2>1, <2>2
<1>3. FlashOk
  <2>1. peb \in [Pebs -> PebState]
    BY <1>1, <1>2
  <2>2. bad = {} /\ Cardinality(bad) = 0
    BY FS_EmptySet DEF Init
  <2>3. Good >= Cardinality(Lebs) + 2
    BY <1>0, <2>2, UbiAssumption DEF Good
  <2> QED BY <1>2, <2>1, <2>2, <2>3 DEF FlashOk
<1>4. RamOk
  <2>1. Idle("none") \in OpState /\ NoWork \in WkState
    BY DEF Idle, NoWork, OpState, WkState, None
  <2>2. <<>> \in Seq(Pebs \cup {WL})
    OBVIOUS
  <2>3. /\ up = "off" /\ eba = [l \in Lebs |-> None] /\ free = {} /\ used = {} /\ scrub = {}
        /\ works = <<>> /\ wls = FALSE /\ sqnum = 0 /\ ro = FALSE /\ op = Idle("none") /\ wk = NoWork
        /\ hurt = {} /\ ops = 0 /\ rsvd = 0 /\ avail = 0
    BY DEF Init
  <2>4. eba \in [Lebs -> Pebs \cup {None}] /\ works \in Seq(Pebs \cup {WL}) /\ ro \in BOOLEAN /\ wls \in BOOLEAN
    BY <2>2, <2>3
  <2>5. sqnum \in Nat /\ ops \in Nat /\ rsvd \in Nat /\ avail \in Nat /\ rsvd <= NumPebs /\ avail <= NumPebs
    BY <1>0, <2>3
  <2> QED BY <2>1, <2>3, <2>4, <2>5 DEF RamOk
<1>5. Still /\ FailedOk
  BY DEF Init, Still, FailedOk, Idle, NoWork
<1>6. ~On
  BY DEF Init, On
<1> QED BY <1>3, <1>4, <1>5, <1>6 DEF IInv, Accounts, Numbered, Linked, Calling, Doing, Shared

\* From peb to f, only d was written to, and not what another one holds.
Written(f, d) ==
  /\ f \in [Pebs -> PebState] /\ \A p \in Pebs : p # d => f[p] = peb[p]
  /\ Len(f[d].data) <= Pages
  /\ f[d].vid = NoVid => f[d].data = <<>>
  /\ f[d].ec = "none" => f[d].vid = NoVid
  /\ f[d].vid.st = "ok" => \A p \in Pebs \ bad : p # d /\ HasVid(p) => f[d].vid.sq # peb[p].vid.sq

LEMMA WrittenFlash ==
  ASSUME FlashOk, NEW d \in Pebs, Written(peb', d), bad' = bad
  PROVE  FlashOk'
<1>1. peb' \in [Pebs -> PebState] /\ bad' \subseteq Pebs /\ Good' >= Cardinality(Lebs) + 2
  BY DEF FlashOk, Written, Good
<1>2. \A p \in Pebs : /\ Len(peb'[p].data) <= Pages
                      /\ peb'[p].vid = NoVid => peb'[p].data = <<>>
                      /\ peb'[p].ec = "none" => peb'[p].vid = NoVid
  BY DEF FlashOk, Written
<1>3. \A p, q \in Pebs \ bad : p # q /\ HasVid(p)' /\ HasVid(q)' => peb'[p].vid.sq # peb'[q].vid.sq
  <2> SUFFICES ASSUME NEW p \in Pebs \ bad, NEW q \in Pebs \ bad, p # q, HasVid(p)', HasVid(q)'
               PROVE  peb'[p].vid.sq # peb'[q].vid.sq
    OBVIOUS
  <2>1. CASE p # d /\ q # d
    <3>1. peb'[p] = peb[p] /\ peb'[q] = peb[q]
      BY <2>1 DEF Written
    <3> QED BY <3>1 DEF FlashOk, HasVid
  <2>2. CASE p = d
    <3>1. peb'[q] = peb[q]
      BY <2>2 DEF Written
    <3> QED BY <2>2, <3>1 DEF Written, HasVid
  <2>3. CASE q = d
    <3>1. peb'[p] = peb[p]
      BY <2>3 DEF Written
    <3> QED BY <2>3, <3>1 DEF Written, HasVid
  <2> QED BY <2>1, <2>2, <2>3
<1> QED BY <1>1, <1>2, <1>3 DEF FlashOk

LEMMA SameWritten == ASSUME FlashOk, NEW d \in Pebs \ bad PROVE Written(peb, d)
BY DEF FlashOk, Written, HasVid

LEMMA FlashSame == ASSUME FlashOk, UNCHANGED flash PROVE FlashOk'
BY DEF FlashOk, HasVid, Good, flash

LEMMA NowOn == ASSUME RamOk, Still, up = "on", op.at # "idle" \/ wk.at # "none" PROVE On
BY DEF RamOk, Still, On

\* The eraseblocks at hand are good ones.
LEMMA HandsGood ==
  ASSUME RamOk, Doing, Shared, On
  PROVE  /\ wk.at # "none" => wk.p \in Pebs \ bad
         /\ Moves => wk.q \in Pebs \ bad
         /\ op.p # None => op.p \in Pebs \ bad
         /\ \A l \in Lebs : eba[l] # None => eba[l] \in Pebs \ bad
<1>1. free \cup used \cup scrub \cup Hands \cup Queued = Pebs \ bad
  BY DEF Shared
<1>2. ASSUME Moves PROVE wk.p \in Pebs \ bad /\ wk.q \in Pebs \ bad
  <2>1. ~Erases
    BY <1>2 DEF Moves, Erases
  <2> QED BY <1>1, <1>2, <2>1 DEF Hands
<1>3. ASSUME Erases PROVE wk.p \in Pebs \ bad
  BY <1>1, <1>3 DEF Hands
<1>4. wk.at # "none" => Moves \/ Erases
  BY DEF RamOk, WkState, Moves, Erases
<1>5. Mapped \cup (IF op.p = None THEN {} ELSE {op.p}) \subseteq Pebs \ bad
  BY <1>1, <1>2 DEF Shared
<1> QED BY <1>2, <1>3, <1>4, <1>5 DEF Mapped

PutPage(d, v) == [peb EXCEPT ![d].data = Append(@, v)]
PutVid(d, v)  == [peb EXCEPT ![d].vid = v]

\* A page is appended.
LEMMA PageWritten ==
  ASSUME FlashOk, NEW d \in Pebs \ bad, HasVid(d), Len(peb[d].data) < Pages, NEW v \in Nat,
         NEW f, f = PutPage(d, v)
  PROVE  /\ Written(f, d) /\ f[d].vid = peb[d].vid /\ f[d].ec = peb[d].ec
         /\ f[d].data = Append(peb[d].data, v) /\ Len(f[d].data) = Len(peb[d].data) + 1
<1>1. peb \in [Pebs -> PebState] /\ peb[d] \in PebState /\ peb[d].data \in Seq(Nat) /\ peb[d].vid # NoVid
  BY PebFacts DEF FlashOk
<1>2. /\ f[d] = [peb[d] EXCEPT !.data = Append(@, v)] /\ \A p \in Pebs : p # d => f[p] = peb[p]
      /\ f = [peb EXCEPT ![d] = f[d]]
  BY <1>1 DEF PutPage
<1>3. /\ f[d].vid = peb[d].vid /\ f[d].ec = peb[d].ec /\ f[d].data = Append(peb[d].data, v)
      /\ f[d] = [ec |-> f[d].ec, vid |-> f[d].vid, data |-> f[d].data]
  BY <1>1, <1>2 DEF PebState
<1>4. Append(peb[d].data, v) \in Seq(Nat) /\ Len(Append(peb[d].data, v)) = Len(peb[d].data) + 1
  BY <1>1
<1>5. Len(f[d].data) <= Pages
  <2>1. Len(peb[d].data) \in Nat /\ Pages \in Nat
    BY <1>1, UbiAssumption
  <2> QED BY <1>3, <1>4, <2>1
<1>6. f[d] \in PebState
  BY <1>1, <1>3, <1>4 DEF PebState
<1>7. f \in [Pebs -> PebState]
  BY <1>1, <1>2, <1>6
<1>8. \A p \in Pebs \ bad : p # d /\ HasVid(p) => f[d].vid.sq # peb[p].vid.sq
  BY <1>3 DEF FlashOk
<1>9. f[d].ec = "none" => f[d].vid = NoVid
  BY <1>3 DEF FlashOk
<1> QED BY <1>1, <1>2, <1>3, <1>4, <1>5, <1>7, <1>8, <1>9 DEF Written

\* A header that can be written.
NewVid(v) == \/ v = TornVid
             \/ /\ v \in [st : {"ok"}, l : Lebs, sq : Nat, crc : Seq(Nat)]
                /\ \A p \in Pebs \ bad : HasVid(p) => peb[p].vid.sq # v.sq

\* A header is written to an erased eraseblock.
LEMMA VidWritten ==
  ASSUME FlashOk, NEW d \in Pebs \ bad, Fresh(d), NEW v, NewVid(v),
         NEW f, f = PutVid(d, v)
  PROVE  Written(f, d) /\ f[d].vid = v /\ f[d].ec = peb[d].ec /\ f[d].data = <<>>
<1>1. peb \in [Pebs -> PebState] /\ peb[d] \in PebState /\ peb[d].data = <<>> /\ peb[d].ec # "none"
  BY DEF FlashOk, Fresh
<1>2. /\ f[d] = [peb[d] EXCEPT !.vid = v] /\ \A p \in Pebs : p # d => f[p] = peb[p]
      /\ f = [peb EXCEPT ![d] = f[d]]
  BY <1>1 DEF PutVid
<1>3. /\ f[d].vid = v /\ f[d].ec = peb[d].ec /\ f[d].data = peb[d].data
      /\ f[d] = [ec |-> f[d].ec, vid |-> f[d].vid, data |-> f[d].data]
  BY <1>1, <1>2 DEF PebState
<1>4. v \in {NoVid, TornVid} \cup [st : {"ok"}, l : Lebs, sq : Nat, crc : Seq(Nat)]
  BY DEF NewVid
<1>5. f[d] \in PebState
  BY <1>1, <1>3, <1>4 DEF PebState
<1>6. f \in [Pebs -> PebState]
  BY <1>1, <1>2, <1>5
<1>7. Len(<<>>) <= Pages
  BY UbiAssumption
<1>8. f[d].vid.st = "ok" => \A p \in Pebs \ bad : p # d /\ HasVid(p) => f[d].vid.sq # peb[p].vid.sq
  BY <1>3 DEF TornVid, NewVid
<1> QED BY <1>1, <1>2, <1>3, <1>6, <1>7, <1>8 DEF Written

\* sync_erase
LEMMA EraseFlash ==
  ASSUME IInv, On, wk.at = "erase", NEW f \in Half \cup {Done}
  PROVE  /\ wk.p \in Pebs \ bad /\ Written(f, wk.p)
         /\ f[wk.p].vid.st = "ok" => f[wk.p].vid = peb[wk.p].vid
         /\ f = Done => f[wk.p].vid = NoVid
<1> DEFINE d == wk.p
<1>0. FlashOk /\ d \in Pebs \ bad
  BY HandsGood DEF IInv
<1>1. Pending = Do("erase", d, None)
  BY DEF Pending
<1>2. Done = [peb EXCEPT ![d] = Blank]
  BY <1>1 DEF Done, Do
<1>3. f \in {peb, Done, [peb EXCEPT ![d] = Garbage]}
  BY <1>1 DEF Half, Do
<1> HIDE DEF d
<1>4. peb \in [Pebs -> PebState]
  BY <1>0 DEF FlashOk
<1>5. ASSUME NEW x \in {Blank, Garbage}, f = [peb EXCEPT ![d] = x] PROVE Written(f, d) /\ f[d] = x
  <2>1. x \in PebState /\ x.data = <<>> /\ x.vid.st # "ok" /\ (x.ec = "none" => x.vid = NoVid)
    <3>1. <<>> \in Seq(Nat)
      OBVIOUS
    <3>2. CASE x = Blank
      BY <3>1, <3>2 DEF Blank, PebState, NoVid
    <3>3. CASE x = Garbage
      BY <3>1, <3>3 DEF Garbage, PebState, TornVid
    <3> QED BY <3>2, <3>3
  <2>2. f[d] = x /\ \A p \in Pebs : p # d => f[p] = peb[p]
    BY <1>0, <1>4, <1>5
  <2>3. f \in [Pebs -> PebState]
    BY <1>4, <1>5, <2>1
  <2>4. Len(<<>>) <= Pages
    BY UbiAssumption
  <2> QED BY <2>1, <2>2, <2>3, <2>4 DEF Written
<1>6. Blank.vid = NoVid /\ Blank.vid.st # "ok" /\ Garbage.vid.st # "ok"
  BY DEF Blank, Garbage, NoVid, TornVid
<1>7. CASE f = peb
  <2>1. Written(f, d)
    BY <1>0, <1>7, SameWritten
  <2>2. f = Done => f[d] = Blank
    BY <1>0, <1>2, <1>4
  <2> QED BY <1>0, <1>6, <1>7, <2>1, <2>2 DEF d
<1>8. CASE f = Done
  BY <1>0, <1>2, <1>5, <1>6, <1>8 DEF d
<1>9. CASE f = [peb EXCEPT ![d] = Garbage] /\ f # Done
  BY <1>0, <1>5, <1>6, <1>9 DEF d
<1> QED BY <1>3, <1>7, <1>8, <1>9

LEMMA EcFlash ==
  ASSUME IInv, On, wk.at = "ec", NEW f \in Half \cup {Done}
  PROVE  /\ wk.p \in Pebs \ bad /\ Written(f, wk.p) /\ f[wk.p].vid = NoVid
         /\ f = Done => f[wk.p].ec = "ok"
<1> DEFINE d == wk.p
<1>0. FlashOk /\ d \in Pebs \ bad /\ peb[d].vid = NoVid
  BY HandsGood DEF IInv, Doing
<1>1. Pending = Do("ec", d, None)
  BY DEF Pending
<1>2. Done = [peb EXCEPT ![d].ec = "ok"]
  BY <1>1 DEF Done, Do
<1>3. f \in {peb, Done, [peb EXCEPT ![d].ec = "bad"]}
  BY <1>1 DEF Half, Do
<1> HIDE DEF d
<1>4. peb \in [Pebs -> PebState] /\ peb[d] \in PebState /\ peb[d].data = <<>>
  BY <1>0 DEF FlashOk
<1>5. ASSUME NEW x \in {"ok", "bad"}, f = [peb EXCEPT ![d].ec = x]
      PROVE  Written(f, d) /\ f[d].ec = x /\ f[d].vid = NoVid
  <2>1. f[d] = [peb[d] EXCEPT !.ec = x] /\ \A p \in Pebs : p # d => f[p] = peb[p]
    BY <1>0, <1>4, <1>5
  <2>2. f[d] \in PebState /\ f[d].ec = x /\ f[d].vid = NoVid /\ f[d].data = <<>>
    BY <1>0, <1>4, <2>1 DEF PebState
  <2>3. f \in [Pebs -> PebState]
    BY <1>4, <1>5, <2>2
  <2>4. Len(<<>>) <= Pages /\ NoVid.st # "ok"
    BY UbiAssumption DEF NoVid
  <2> QED BY <2>1, <2>2, <2>3, <2>4 DEF Written
<1>7. CASE f = peb /\ f # Done
  BY <1>0, <1>7, SameWritten DEF d
<1>8. CASE f = Done
  BY <1>0, <1>2, <1>5, <1>8 DEF d
<1>9. CASE f = [peb EXCEPT ![d].ec = "bad"] /\ f # Done
  BY <1>0, <1>5, <1>9 DEF d
<1> QED BY <1>3, <1>7, <1>8, <1>9

\* write_vid_hdr of a move
LEMMA MoveVidFlash ==
  ASSUME IInv, On, wk.at = "vid", NEW f \in Half \cup {Done}
  PROVE  /\ wk.q \in Pebs \ bad /\ Written(f, wk.q) /\ f[wk.q].data = <<>>
         /\ f[wk.q].vid.st = "ok" => f[wk.q].vid.sq = wk.sq
         /\ f = Done => f[wk.q].vid.st = "ok" /\ f[wk.q].vid.l = peb[wk.p].vid.l
<1> DEFINE d == wk.q
           v == MovedVid
<1>0. /\ FlashOk /\ Moves /\ d \in Pebs \ bad /\ Fresh(d) /\ wk.p \in Pebs /\ HasVid(wk.p) /\ wk.sq \in Nat
      /\ \A p \in Pebs \ bad : HasVid(p) => peb[p].vid.sq # wk.sq
  <2>1. Moves
    BY DEF Moves
  <2> QED BY <2>1, HandsGood DEF IInv, Doing, Numbered, RamOk, WkState
<1>1. Pending = Do("vid", d, v)
  BY DEF Pending
<1>2. Done = PutVid(d, v)
  BY <1>1 DEF Done, Do, PutVid
<1>3. f \in {peb, Done, PutVid(d, TornVid)}
  BY <1>1 DEF Half, Do, PutVid
<1>4. v \in [st : {"ok"}, l : Lebs, sq : Nat, crc : Seq(Nat)] /\ v.sq = wk.sq /\ v.l = peb[wk.p].vid.l
  BY <1>0, PebFacts DEF MovedVid, Vid
<1>5. peb[d].data = <<>> /\ peb[d].vid.st # "ok" /\ TornVid.st # "ok" /\ v.st = "ok"
  BY <1>0 DEF FlashOk, Fresh, NoVid, TornVid, MovedVid, Vid
<1>6. NewVid(v) /\ NewVid(TornVid)
  BY <1>0, <1>4 DEF NewVid
<1> HIDE DEF d, v
<1>7. CASE f = Done
  <2>1. Written(f, d) /\ f[d].vid = v /\ f[d].data = <<>>
    BY <1>0, <1>2, <1>6, <1>7, VidWritten
  <2> QED BY <1>0, <1>4, <1>5, <2>1 DEF d
<1>8. CASE f = PutVid(d, TornVid) /\ f # Done
  <2>1. Written(f, d) /\ f[d].vid = TornVid /\ f[d].data = <<>>
    BY <1>0, <1>6, <1>8, VidWritten
  <2> QED BY <1>0, <1>5, <1>8, <2>1 DEF d
<1>9. CASE f = peb /\ f # Done
  BY <1>0, <1>5, <1>9, SameWritten DEF d
<1> QED BY <1>3, <1>7, <1>8, <1>9

\* A page is copied by a move.
LEMMA MovePageFlash ==
  ASSUME IInv, On, wk.at = "data", NEW f \in Half \cup {Done}
  PROVE  /\ wk.q \in Pebs \ bad /\ Written(f, wk.q) /\ f[wk.q].vid = peb[wk.q].vid
         /\ f = Done => Len(f[wk.q].data) = wk.n + 1
<1> DEFINE d == wk.q
           n == wk.n
           src == peb[wk.p].data
<1>0. /\ FlashOk /\ Moves /\ d \in Pebs \ bad /\ HasVid(d) /\ wk.p \in Pebs /\ n \in Nat
      /\ Len(peb[d].data) = n /\ n < Len(src)
  <2>1. Moves
    BY DEF Moves
  <2> QED BY <2>1, HandsGood DEF IInv, Doing, RamOk, WkState
<1>1. Pending = Do("page", d, src[n + 1])
  BY DEF Pending
<1>2. Done = PutPage(d, src[n + 1])
  BY <1>1 DEF Done, Do, PutPage
<1>3. f \in {peb, Done, PutPage(d, Torn)}
  BY <1>1 DEF Half, Do, PutPage
<1>4. src \in Seq(Nat) /\ Len(src) \in Nat /\ Len(src) <= Pages
  BY <1>0, PebFacts DEF FlashOk
<1> HIDE DEF d, src, n
<1>5. n + 1 \in 1 .. Len(src) /\ Len(peb[d].data) < Pages
  BY <1>0, <1>4, UbiAssumption
<1>6. src[n + 1] \in Nat /\ Torn \in Nat
  BY <1>4, <1>5 DEF Torn
<1>7. CASE f = Done
  <2>1. Written(f, d) /\ f[d].vid = peb[d].vid /\ Len(f[d].data) = Len(peb[d].data) + 1
    BY <1>0, <1>2, <1>5, <1>6, <1>7, PageWritten
  <2> QED BY <1>0, <2>1 DEF d, n
<1>8. CASE f = PutPage(d, Torn) /\ f # Done
  <2>1. Written(f, d) /\ f[d].vid = peb[d].vid
    BY <1>0, <1>5, <1>6, <1>8, PageWritten
  <2> QED BY <1>0, <1>8, <2>1 DEF d
<1>9. CASE f = peb /\ f # Done
  BY <1>0, <1>9, SameWritten DEF d
<1> QED BY <1>3, <1>7, <1>8, <1>9

\* The header of a write, a change or a recovery.
LEMMA OpVidFlash ==
  ASSUME IInv, On, op.at = "vid", wk.at = "none", NEW f \in Half \cup {Done}
  PROVE  /\ op.p \in Pebs \ bad /\ Written(f, op.p) /\ f[op.p].data = <<>>
         /\ f[op.p].vid.st = "ok" => f[op.p].vid.sq = op.sq
         /\ f = Done => f[op.p].vid.st = "ok" /\ f[op.p].vid.l = op.l
<1> DEFINE d == op.p
           v == Vid(op.l, op.sq, op.crc)
<1>0. /\ FlashOk /\ d \in Pebs \ bad /\ Fresh(d) /\ op.l \in Lebs /\ op.sq \in Nat /\ op.crc \in Seq(Nat)
      /\ \A p \in Pebs \ bad : HasVid(p) => peb[p].vid.sq # op.sq
  BY HandsGood DEF IInv, Calling, Numbered, RamOk, OpState
<1>1. Pending = Do("vid", d, v)
  BY DEF Pending
<1>2. Done = PutVid(d, v)
  BY <1>1 DEF Done, Do, PutVid
<1>3. f \in {peb, Done, PutVid(d, TornVid)}
  BY <1>1 DEF Half, Do, PutVid
<1>4. v \in [st : {"ok"}, l : Lebs, sq : Nat, crc : Seq(Nat)] /\ v.sq = op.sq /\ v.l = op.l
  BY <1>0 DEF Vid
<1>5. peb[d].data = <<>> /\ peb[d].vid.st # "ok" /\ TornVid.st # "ok" /\ v.st = "ok"
  BY <1>0 DEF FlashOk, Fresh, NoVid, TornVid, Vid
<1>6. NewVid(v) /\ NewVid(TornVid)
  BY <1>0, <1>4 DEF NewVid
<1> HIDE DEF d, v
<1>7. CASE f = Done
  <2>1. Written(f, d) /\ f[d].vid = v /\ f[d].data = <<>>
    BY <1>0, <1>2, <1>6, <1>7, VidWritten
  <2> QED BY <1>0, <1>4, <1>5, <2>1 DEF d
<1>8. CASE f = PutVid(d, TornVid) /\ f # Done
  <2>1. Written(f, d) /\ f[d].vid = TornVid /\ f[d].data = <<>>
    BY <1>0, <1>6, <1>8, VidWritten
  <2> QED BY <1>0, <1>5, <1>8, <2>1 DEF d
<1>9. CASE f = peb /\ f # Done
  BY <1>0, <1>5, <1>9, SameWritten DEF d
<1> QED BY <1>3, <1>7, <1>8, <1>9

\* A page more of a buffer of b pages, of which n are written, in an eraseblock
\* of m pages that holds k.
LEMMA Room == \A n, k, b, m \in Nat :
  /\ n < b => n + 1 \in 1 .. b
  /\ n <= k /\ k - n + b <= m => n + 1 <= k + 1 /\ (k + 1) - (n + 1) + b <= m /\ (n < b => k < m)
OBVIOUS

\* A page of it, and a page appended to a mapped eraseblock.
LEMMA OpPageFlash ==
  ASSUME IInv, On, op.at \in {"data", "append"}, wk.at = "none", NEW d,
         d = IF op.at = "data" THEN op.p ELSE eba[op.l], NEW f \in Half \cup {Done}
  PROVE  /\ d \in Pebs \ bad /\ Written(f, d) /\ f[d].vid = peb[d].vid
         /\ f = Done => Len(f[d].data) = Len(peb[d].data) + 1
<1> DEFINE n == op.n
           src == op.buf
           k == Len(peb[d].data)
<1>0. /\ FlashOk /\ n \in Nat /\ src \in Seq(Nat) /\ Len(src) \in Nat
      /\ n < Len(src) /\ Len(src) <= Pages /\ Pages \in Nat
  BY UbiAssumption DEF IInv, Calling, RamOk, OpState
<1>1. d \in Pebs \ bad /\ HasVid(d) /\ k \in Nat /\ (op.at = "data" => k = n)
      /\ (op.at = "append" => n <= k /\ k - n + Len(src) <= Pages)
  <2>1. CASE op.at = "data"
    <3>1. d \in Pebs \ bad /\ HasVid(d) /\ k = n
      BY <2>1, HandsGood DEF IInv, Calling
    <3> QED BY <1>0, <2>1, <3>1
  <2>2. CASE op.at = "append"
    <3>1. d # None /\ op.l \in Lebs /\ d = eba[op.l]
      BY <2>2 DEF IInv, Calling
    <3>2. d \in Pebs \ bad /\ HasVid(d)
      BY <3>1, HandsGood DEF IInv, Linked
    <3>3. k \in Nat
      BY <1>0, <3>2, PebFacts
    <3>4. n <= k /\ k - n + Len(src) <= Pages
      BY <2>2, <3>1 DEF IInv, Calling, DataOf
    <3> QED BY <2>2, <3>2, <3>3, <3>4
  <2> QED BY <2>1, <2>2
<1>2. Pending = Do("page", d, src[n + 1])
  BY DEF Pending
<1>3. Done = PutPage(d, src[n + 1])
  BY <1>2 DEF Done, Do, PutPage
<1>4. f \in {peb, Done, PutPage(d, Torn)}
  BY <1>2 DEF Half, Do, PutPage
<1> HIDE DEF src, n
<1>5. n + 1 \in 1 .. Len(src) /\ k < Pages
  <2> DEFINE b == Len(src)
  <2>1. n \in Nat /\ k \in Nat /\ b \in Nat /\ Pages \in Nat /\ n < b /\ b <= Pages
    BY <1>0, <1>1
  <2>2. k = n \/ (n <= k /\ k - n + b <= Pages)
    BY <1>1
  <2> HIDE DEF b, k
  <2>3. n + 1 \in 1 .. b
    BY <2>1, Room
  <2>4. k = n => k < Pages
    BY <2>1
  <2>5. n <= k /\ k - n + b <= Pages => k < Pages
    BY <2>1, Room
  <2> QED BY <2>2, <2>3, <2>4, <2>5 DEF b
<1>6. src[n + 1] \in Nat /\ Torn \in Nat
  BY <1>0, <1>5 DEF Torn
<1>6a. FlashOk /\ d \in Pebs \ bad /\ HasVid(d) /\ Len(peb[d].data) < Pages
  BY <1>0, <1>1, <1>5
<1>7. CASE f = Done
  <2> DEFINE v == src[n + 1]
  <2>0. f = PutPage(d, v) /\ v \in Nat
    BY <1>3, <1>6, <1>7
  <2> HIDE DEF v
  <2>1. Written(f, d) /\ f[d].vid = peb[d].vid /\ Len(f[d].data) = Len(peb[d].data) + 1
    BY <1>6a, <2>0, PageWritten
  <2> QED BY <1>1, <2>1
<1>8. CASE f = PutPage(d, Torn) /\ f # Done
  <2>1. Written(f, d) /\ f[d].vid = peb[d].vid
    BY <1>6, <1>6a, <1>8, PageWritten
  <2> QED BY <1>1, <1>8, <2>1
<1>9. CASE f = peb /\ f # Done
  BY <1>0, <1>1, <1>9, SameWritten
<1> QED BY <1>4, <1>7, <1>8, <1>9

\* Whatever was under way.
LEMMA HalfOk ==
  ASSUME IInv, up = "on", NEW f \in Half, f # peb
  PROVE  \E d \in Pebs : Written(f, d)
<1> USE DEF IInv
<1>1. CASE Pending = Do("none", None, None)
  BY <1>1 DEF Half, Do
<1>2. CASE Pending # Do("none", None, None)
  <2>1. \/ wk.at \in {"erase", "ec", "vid", "data"}
        \/ wk.at = "none" /\ op.at \in {"append", "vid", "data"}
    BY <1>2 DEF Pending
  <2>2. On
    BY <2>1, NowOn
  <2>3. CASE wk.at = "erase"
    BY <2>2, <2>3, EraseFlash
  <2>4. CASE wk.at = "ec"
    BY <2>2, <2>4, EcFlash
  <2>5. CASE wk.at = "vid"
    BY <2>2, <2>5, MoveVidFlash
  <2>6. CASE wk.at = "data"
    BY <2>2, <2>6, MovePageFlash
  <2>7. CASE wk.at = "none" /\ op.at = "vid"
    BY <2>2, <2>7, OpVidFlash
  <2>8. CASE wk.at = "none" /\ op.at \in {"append", "data"}
    <3> DEFINE d == IF op.at = "data" THEN op.p ELSE eba[op.l]
    <3>1. Written(f, d) /\ d \in Pebs
      BY <2>2, <2>8, OpPageFlash
    <3> QED BY <3>1
  <2> QED BY <2>1, <2>3, <2>4, <2>5, <2>6, <2>7, <2>8
<1> QED BY <1>1, <1>2

LEMMA HalfFlash == ASSUME IInv, up = "on", peb' \in Half, bad' = bad PROVE FlashOk'
<1>1. CASE peb' = peb
  BY <1>1, FlashSame DEF IInv, flash
<1>2. CASE peb' # peb
  <2>1. PICK d \in Pebs : Written(peb', d)
    BY <1>2, HalfOk
  <2> QED BY <2>1, WrittenFlash DEF IInv
<1> QED BY <1>1, <1>2

\* Power is lost.
LEMMA CutKeeps == ASSUME IInv, Cut PROVE IInv'
<1>1. FlashOk'
  BY HalfFlash DEF Cut
<1>2. RamOk'
  <2>1. Idle("none") \in OpState /\ NoWork \in WkState
    BY DEF Idle, NoWork, OpState, WkState, None
  <2>2. <<>> \in Seq(Pebs \cup {WL}) /\ NumPebs \in Nat
    BY UbiAssumption
  <2>3. /\ up' = "off" /\ eba' = [l \in Lebs |-> None] /\ free' = {} /\ used' = {} /\ scrub' = {}
        /\ works' = <<>> /\ wls' = FALSE /\ sqnum' = 0 /\ ro' = FALSE /\ op' = Idle("none") /\ wk' = NoWork
        /\ hurt' = hurt /\ ops' = ops /\ rsvd' = 0 /\ avail' = 0
    BY DEF Cut, NoRam
  <2>4. eba' \in [Lebs -> Pebs \cup {None}] /\ works' \in Seq(Pebs \cup {WL}) /\ ro' \in BOOLEAN /\ wls' \in BOOLEAN
    BY <2>2, <2>3
  <2>5. sqnum' \in Nat /\ rsvd' \in Nat /\ avail' \in Nat /\ rsvd' <= NumPebs /\ avail' <= NumPebs
    BY <2>2, <2>3
  <2>6. hurt' \subseteq Lebs /\ ops' \in Nat
    BY <2>3 DEF IInv, RamOk
  <2> QED BY <2>1, <2>3, <2>4, <2>5, <2>6 DEF RamOk
<1>3. Still' /\ FailedOk'
  BY DEF Cut, NoRam, Still, FailedOk, Idle, NoWork
<1>4. ~On'
  BY DEF Cut, On
<1> QED BY <1>1, <1>2, <1>3, <1>4 DEF IInv, Accounts, Numbered, Linked, Calling, Doing, Shared

\* ensure_wear_leveling adds no eraseblock to the works.
LEMMA EnsureFacts ==
  ASSUME NEW w \in Seq(Pebs \cup {WL}), NEW sched \in BOOLEAN, EnsureWl(sched, w)
  PROVE  /\ works' \in Seq(Pebs \cup {WL}) /\ wls' \in BOOLEAN
         /\ ToSet(works') \ {WL} = ToSet(w) \ {WL} /\ (Once(w) => Once(works'))
<1>1. (works' = w \/ works' = Append(w, WL)) /\ wls' \in BOOLEAN
  BY DEF EnsureWl
<1>2. CASE works' = w
  BY <1>1, <1>2
<1>3. CASE works' = Append(w, WL)
  <2>1. /\ Append(w, WL) \in Seq(Pebs \cup {WL}) /\ ToSet(Append(w, WL)) = ToSet(w) \cup {WL}
        /\ Once(w) => Once(Append(w, WL))
    BY AppendFacts
  <2> QED BY <1>1, <1>3, <2>1
<1> QED BY <1>1, <1>2, <1>3

LEMMA SpareFacts ==
  ASSUME FlashOk
  PROVE  Spare \in Nat /\ Spare <= NumPebs /\ Good \in Nat /\ Good <= NumPebs
         /\ Good = Cardinality(Lebs) + 2 + Spare /\ Cardinality(Lebs) \in Nat
<1>1. NumPebs \in Nat /\ Cardinality(Lebs) \in Nat
  BY UbiAssumption, FS_CardinalityType
<1>2. IsFiniteSet(Pebs) /\ bad \subseteq Pebs
  BY <1>1, FS_Interval DEF Pebs, FlashOk
<1>3. IsFiniteSet(bad)
  BY <1>2, FS_Subset
<1>4. Cardinality(bad) \in Nat
  BY <1>3, FS_CardinalityType
<1>5. Good >= Cardinality(Lebs) + 2
  BY DEF FlashOk
<1> QED BY <1>1, <1>4, <1>5 DEF Good, Spare

\* The attach.
LEMMA AttachOn ==
  ASSUME IInv, Attach, up' = "on" PROVE IInv'
<1> DEFINE s == Scan
           w == PendingErases(s)
<1>1. /\ FlashOk /\ RamOk /\ up = "off" /\ op = Idle("none") /\ wk.at = "none" /\ ro = FALSE
  BY DEF IInv, Still, Attach
<1>2. /\ s \in ScanState /\ ScanShared(s, Pebs \ bad) /\ ScanLinked(s, Pebs \ bad)
  <2>1. Seen(NumPebs) = Pebs \ bad
    BY DEF Seen, Pebs
  <2> QED BY <1>1, <2>1, ScanHolds DEF ScanOk
<1>3. /\ eba' = s.leb /\ free' = s.free /\ scrub' = s.scrub
      /\ used' = {s.leb[l] : l \in Lebs} \ (scrub' \cup {None}) /\ sqnum' = s.max + 1
      /\ rsvd' = (IF Spare < Level THEN Spare ELSE Level) /\ avail' = Spare - rsvd'
      /\ EnsureWl(FALSE, w) /\ hurt' = hurt \cup Misled
  BY DEF Attach
<1>4. peb' = peb /\ bad' = bad /\ ro' = ro /\ op' = op /\ wk' = wk /\ ops' = ops
  BY DEF Attach, flash
<1>5. /\ s.leb \in [Lebs -> Pebs \cup {None}] /\ s.free \subseteq Pebs /\ s.scrub \subseteq Pebs
      /\ s.erase \in Seq(Pebs \cup {WL}) /\ s.corr \in Seq(Pebs \cup {WL}) /\ s.max \in Nat
  BY <1>2 DEF ScanState
<1> HIDE DEF s
<1>6. w \in Seq(Pebs \cup {WL}) /\ ToSet(w) = ToSet(s.erase) \cup ToSet(s.corr) /\ Once(w)
  BY <1>2, <1>5, ConcatFacts DEF ScanShared, PendingErases
<1> HIDE DEF w
<1>7. /\ works' \in Seq(Pebs \cup {WL}) /\ wls' \in BOOLEAN
      /\ ToSet(works') \ {WL} = ToSet(w) \ {WL} /\ Once(works')
  BY <1>3, <1>6, EnsureFacts
<1>8. rsvd' \in Nat /\ avail' \in Nat /\ rsvd' + avail' = Spare /\ rsvd' <= NumPebs /\ avail' <= NumPebs
  <2>1. Spare \in Nat /\ Spare <= NumPebs /\ Level \in Nat /\ NumPebs \in Nat
    BY <1>1, SpareFacts, UbiAssumption
  <2> QED BY <1>3, <2>1
<1>9. FlashOk'
  BY <1>1, <1>4, FlashSame DEF flash
<1>10. used' = Held(s) \ s.scrub
  BY <1>3 DEF Held
<1>11. Held(s) \subseteq Pebs /\ sqnum' \in Nat
  BY <1>3, <1>5 DEF Held
<1>12. RamOk'
  BY <1>1, <1>3, <1>4, <1>5, <1>7, <1>8, <1>10, <1>11 DEF RamOk, Misled
<1>13. Still' /\ FailedOk'
  BY <1>1, <1>4 DEF Still, FailedOk
<1>14. Accounts'
  BY <1>4, <1>8 DEF Accounts, Spare, Good
<1>15. op.at = "idle" /\ op.p = None
  BY <1>1 DEF Idle
<1>16. Numbered'
  <2>1. ASSUME NEW p \in Pebs \ bad, HasVid(p) PROVE peb[p].vid.sq < sqnum'
    <3> DEFINE a == peb[p].vid.sq
    <3>1. a <= s.max
      BY <1>2, <2>1 DEF ScanLinked
    <3>2. a \in Nat
      BY <1>1, <2>1, PebFacts
    <3> HIDE DEF a
    <3>3. a < sqnum'
      BY <1>3, <1>5, <3>1, <3>2
    <3> QED BY <3>3 DEF a
  <2> QED BY <1>1, <1>4, <1>15, <2>1 DEF Numbered, HasVid
<1>17. Linked'
  BY <1>2, <1>3, <1>4 DEF Linked, ScanLinked, HasVid, Fresh
<1>18. Calling'
  BY <1>4, <1>15 DEF Calling
<1>19. Doing'
  BY <1>1, <1>4 DEF Doing, Moves
<1>20. Shared'
  <2>1. Hands' = {} /\ ~Moves'
    BY <1>1, <1>4 DEF Hands, Moves, Erases
  <2>2. Queued' = ToSet(s.erase) \cup ToSet(s.corr)
    <3>1. ToSet(s.erase) \cup ToSet(s.corr) \subseteq Pebs \ bad
      BY <1>2 DEF ScanShared
    <3>2. WL \notin Pebs
      BY DEF Pebs, WL
    <3> QED BY <1>6, <1>7, <3>1, <3>2 DEF Queued
  <2>3. Mapped' = Held(s) /\ op'.p = None
    BY <1>3, <1>4, <1>15 DEF Mapped, Held
  <2>4. None \notin Mapped'
    BY DEF Mapped
  <2> DEFINE E == ToSet(s.erase) \cup ToSet(s.corr)
  <2>5. /\ Held(s) \cap s.free = {} /\ Held(s) \cap E = {} /\ s.free \cap E = {}
        /\ Held(s) \cup s.free \cup E = Pebs \ bad /\ s.scrub \subseteq Held(s)
    BY <1>2 DEF ScanShared
  <2>6. Queued' = E /\ free' = s.free /\ scrub' = s.scrub /\ bad' = bad
    BY <1>3, <1>4, <2>2
  <2> HIDE DEF E
  <2>7. Apart(free, used, scrub, Hands, Queued)'
    BY <1>10, <2>1, <2>5, <2>6 DEF Apart
  <2>8. (free \cup used \cup scrub \cup Hands \cup Queued = Pebs \ bad)'
    BY <1>10, <2>1, <2>5, <2>6
  <2>9. used' \cup scrub' \cup (IF Moves' THEN {wk'.p} ELSE {}) = Mapped' \cup (IF op'.p = None THEN {} ELSE {op'.p})
    BY <1>10, <2>1, <2>3, <2>5, <2>6
  <2> QED BY <1>7, <2>3, <2>4, <2>7, <2>8, <2>9 DEF Shared
<1> QED BY <1>9, <1>12, <1>13, <1>14, <1>16, <1>17, <1>18, <1>19, <1>20 DEF IInv

LEMMA AttachKeeps == ASSUME IInv, Attach PROVE IInv'
<1>1. CASE up' = "on"
  BY <1>1, AttachOn
<1>2. CASE up' # "on"
  <2>1. /\ FlashOk /\ RamOk /\ up = "off" /\ op = Idle("none") /\ wk.at = "none" /\ ro = FALSE
    BY DEF IInv, Still, Attach
  <2>2. /\ up' = "failed" /\ ~Scan.ok
        /\ UNCHANGED <<eba, free, used, scrub, sqnum, rsvd, avail, hurt, works, wls, peb, bad, ro, op, wk, ops>>
    BY <1>2, <2>1 DEF Attach, FlashOk, pools, count, flash
  <2>3. FlashOk'
    BY <2>1, <2>2, FlashSame DEF flash
  <2>4. RamOk'
    BY <2>1, <2>2 DEF RamOk
  <2>4a. Still'
    BY <2>1, <2>2 DEF Still, Idle
  <2>5. FailedOk'
    <3>1. \E p \in Pebs : HasVid(p) /\ EccError(p)
      BY <2>1, <2>2, ScanHolds DEF ScanOk, ScanFails
    <3> QED BY <2>2, <3>1 DEF FailedOk, HasVid, EccError, Covered
  <2>6. ~On'
    BY <2>2 DEF On
  <2> QED BY <2>3, <2>4, <2>4a, <2>5, <2>6 DEF IInv, Accounts, Numbered, Linked, Calling, Doing, Shared
<1> QED BY <1>1, <1>2

(***************************************************************************)
(* Calls.                                                                  *)
(***************************************************************************)
LEMMA Begins == ASSUME IInv, Ready PROVE On /\ wk.at = "none" /\ op.p = None
<1>1. On
  BY DEF IInv, RamOk, Ready, On
<1> QED BY <1>1 DEF IInv, Ready, Doing, Calling

LEMMA BufFacts == ASSUME IInv, NEW n \in 0 .. Pages PROVE Buf(n) \in Seq(Nat) /\ Len(Buf(n)) = n
<1>1. ops + 2 \in Nat /\ n \in Nat
  BY UbiAssumption DEF IInv, RamOk
<1> QED BY <1>1 DEF Buf

\* A call that changes neither flash nor tables yet.
LEMMA Begun ==
  ASSUME IInv, Ready,
         UNCHANGED <<flash, up, eba, pools, works, wls, ro, count, wk, hurt>>,
         op' \in OpState, op'.p = None, ops' = ops + 1,
         \/ /\ op'.at = "get" /\ op'.sq = sqnum /\ sqnum' = sqnum + 1 /\ op'.n = 0
            /\ op'.l \in Lebs /\ Len(op'.buf) <= Pages
         \/ /\ op'.at = "append" /\ op'.n = 0 /\ op'.l \in Lebs /\ eba[op'.l] # None
            /\ 0 < Len(op'.buf) /\ Len(DataOf(op'.l)) + Len(op'.buf) <= Pages /\ sqnum' = sqnum
         \/ op'.at = "flush" /\ sqnum' = sqnum
  PROVE  IInv'
<1>0. On /\ wk.at = "none" /\ op.p = None
  BY Begins
<1>1. /\ peb' = peb /\ bad' = bad /\ up' = up /\ eba' = eba /\ free' = free /\ used' = used /\ scrub' = scrub
      /\ works' = works /\ wls' = wls /\ ro' = ro /\ rsvd' = rsvd /\ avail' = avail /\ wk' = wk /\ hurt' = hurt
  BY DEF flash, pools, count
<1>2. FlashOk' /\ RamOk
  BY FlashSame DEF IInv
<1>3. sqnum \in Nat /\ sqnum' \in Nat /\ ops' \in Nat /\ sqnum <= sqnum'
  <2>1. sqnum \in Nat /\ ops \in Nat
    BY <1>2 DEF RamOk
  <2>2. sqnum' = sqnum \/ sqnum' = sqnum + 1
    OBVIOUS
  <2> QED BY <2>1, <2>2
<1>4. RamOk'
  BY <1>1, <1>2, <1>3 DEF RamOk
<1>5. Still' /\ FailedOk'
  BY <1>0, <1>1 DEF Still, FailedOk, On
<1>6. Accounts'
  BY <1>0, <1>1 DEF IInv, Accounts, Spare, Good, On
<1>7. Numbered'
  <2>1. ASSUME NEW p \in Pebs \ bad, HasVid(p)
        PROVE  peb[p].vid.sq < sqnum' /\ (op'.sq = sqnum => peb[p].vid.sq # op'.sq)
    <3> DEFINE a == peb[p].vid.sq
    <3>1. a \in Nat /\ a < sqnum
      BY <1>0, <2>1, PebFacts DEF IInv, Numbered
    <3> HIDE DEF a
    <3>2. a < sqnum' /\ a # sqnum
      BY <1>3, <3>1
    <3> QED BY <3>2 DEF a
  <2>2. op'.at = "get" => op'.sq < sqnum' /\ op'.sq = sqnum
    BY <1>3
  <2> QED BY <1>0, <1>1, <2>1, <2>2 DEF Numbered, HasVid
<1>8. Linked'
  BY <1>0, <1>1 DEF IInv, Linked, On, HasVid, Fresh
<1>9. Calling'
  <2>1. CASE op'.at \in {"get", "flush"}
    BY <1>1, <2>1 DEF Calling
  <2>2. CASE op'.at = "append"
    <3>1. eba[op'.l] \in Pebs
      BY <1>2, <2>2 DEF RamOk
    <3>2. Len(DataOf(op'.l)) \in Nat
      BY <3>1, PebFacts DEF IInv, DataOf
    <3>3. Len(op'.buf) \in Nat /\ Pages \in Nat
      BY UbiAssumption DEF OpState
    <3>4. /\ Len(op'.buf) <= Pages /\ op'.n <= Len(DataOf(op'.l))
          /\ Len(DataOf(op'.l)) - op'.n + Len(op'.buf) <= Pages
      <4> DEFINE d == Len(DataOf(op'.l))
                 b == Len(op'.buf)
      <4>1. d \in Nat /\ b \in Nat /\ Pages \in Nat /\ d + b <= Pages /\ op'.n = 0
        BY <2>2, <3>2, <3>3
      <4> HIDE DEF d, b
      <4>2. b <= Pages /\ op'.n <= d /\ d - op'.n + b <= Pages
        BY <4>1
      <4> QED BY <4>2 DEF d, b
    <3>5. DataOf(op'.l) = peb'[eba'[op'.l]].data
      BY <1>1 DEF DataOf
    <3> HIDE DEF DataOf
    <3> QED BY <1>1, <2>2, <3>4, <3>5 DEF Calling, DataOf
  <2> QED BY <2>1, <2>2
<1>10. Doing'
  BY <1>0, <1>1 DEF Doing, Moves
<1>11. Shared'
  BY <1>0, <1>1 DEF IInv, Shared, On, Apart, Hands, Queued, Mapped, Erases, Moves
<1> QED BY <1>2, <1>4, <1>5, <1>6, <1>7, <1>8, <1>9, <1>10, <1>11 DEF IInv

LEMMA WriteMappedKeeps == ASSUME IInv, NEW l \in Lebs, NEW n \in 1 .. Pages, WriteMapped(l, n) PROVE IInv'
<1>0. Buf(n) \in Seq(Nat) /\ Len(Buf(n)) = n
  BY BufFacts
<1>1. op' = [k |-> "write", l |-> l, at |-> "append", p |-> None, buf |-> Buf(n), n |-> 0, crc |-> <<>>,
             sq |-> 0, tries |-> 0, ret |-> "none"]
  BY DEF WriteMapped, Begin, Idle
<1>2. op' \in OpState
  BY <1>0, <1>1 DEF OpState, None
<1>3. /\ Ready /\ UNCHANGED <<flash, up, eba, pools, works, wls, ro, count, wk, hurt>> /\ sqnum' = sqnum
      /\ ops' = ops + 1 /\ eba[l] # None /\ Len(DataOf(l)) + n <= Pages
  BY DEF WriteMapped, Begin
<1>4. 0 < Len(op'.buf) /\ op'.l = l /\ Len(op'.buf) = n
  BY <1>0, <1>1
<1> QED BY <1>1, <1>2, <1>3, <1>4, Begun

LEMMA NewKeeps ==
  ASSUME IInv, NEW l \in Lebs, NEW n \in 0 .. Pages, Ready, NEW k \in {"write", "change"},
         NEW crc \in Seq(Nat), Begin(New(k, l, Buf(n), crc)), sqnum' = sqnum + 1,
         UNCHANGED <<flash, up, eba, pools, works, wls, ro, count, wk, hurt>>
  PROVE  IInv'
<1>0. Buf(n) \in Seq(Nat) /\ Len(Buf(n)) = n
  BY BufFacts
<1>1. op' = [k |-> k, l |-> l, at |-> "get", p |-> None, buf |-> Buf(n), n |-> 0, crc |-> crc,
             sq |-> sqnum, tries |-> 0, ret |-> "none"]
  BY DEF Begin, New, Idle
<1>2. op' \in OpState
  BY <1>0, <1>1 DEF OpState, None, IInv, RamOk
<1>3. Len(op'.buf) <= Pages /\ ops' = ops + 1
  BY <1>0, <1>1 DEF Begin
<1> QED BY <1>1, <1>2, <1>3, Begun

LEMMA WriteUnmappedKeeps == ASSUME IInv, NEW l \in Lebs, NEW n \in 0 .. Pages, WriteUnmapped(l, n) PROVE IInv'
<1>1. <<>> \in Seq(Nat)
  OBVIOUS
<1> QED BY <1>1, NewKeeps DEF WriteUnmapped

LEMMA ChangeKeeps == ASSUME IInv, NEW l \in Lebs, NEW n \in 1 .. Pages, Change(l, n) PROVE IInv'
<1>1. n \in 0 .. Pages /\ Buf(n) \in Seq(Nat)
  BY BufFacts
<1> QED BY <1>1, NewKeeps DEF Change

LEMMA FlushKeeps == ASSUME IInv, Flush PROVE IInv'
<1>1. op' = [k |-> "flush", l |-> None, at |-> "flush", p |-> None, buf |-> <<>>, n |-> 0, crc |-> <<>>,
             sq |-> 0, tries |-> 0, ret |-> "none"]
  BY DEF Flush, Begin, Idle
<1>2. op' \in OpState
  BY <1>1 DEF OpState, None
<1>3. /\ Ready /\ UNCHANGED <<flash, up, eba, pools, works, wls, ro, count, wk, hurt>> /\ sqnum' = sqnum
      /\ ops' = ops + 1
  BY DEF Flush, Begin
<1>4. op'.at = "flush" /\ op'.p = None
  BY <1>1
<1> QED BY <1>2, <1>3, <1>4, Begun

\* An eraseblock is put into the works.
LEMMA QueueFacts ==
  ASSUME RamOk, NEW x \in Pebs, x \notin Queued, works' = works \o <<x>>
  PROVE  works' \in Seq(Pebs \cup {WL}) /\ Queued' = Queued \cup {x} /\ (Once(works) => Once(works'))
<1>1. works \in Seq(Pebs \cup {WL}) /\ x \in Pebs \cup {WL} /\ x # WL
  BY DEF RamOk, Pebs, WL
<1>2. x \notin ToSet(works)
  BY <1>1 DEF Queued
<1>3. /\ works' \in Seq(Pebs \cup {WL}) /\ ToSet(works') = ToSet(works) \cup {x}
      /\ Once(works) => Once(works')
  <2>1. /\ works \o <<x>> = Append(works, x) /\ Append(works, x) \in Seq(Pebs \cup {WL})
        /\ ToSet(Append(works, x)) = ToSet(works) \cup {x}
        /\ Once(works) => Once(Append(works, x))
    BY <1>1, <1>2, AppendFacts
  <2> QED BY <2>1
<1> QED BY <1>1, <1>3 DEF Queued

\* Put, for one eraseblock or none.
LEMMA PutFacts ==
  ASSUME RamOk, NEW x \in Pebs \cup {None}, x \notin Queued, Put(IF x = None THEN <<>> ELSE <<x>>)
  PROVE  /\ works' \in Seq(Pebs \cup {WL}) /\ Queued' = Queued \cup ({x} \ {None})
         /\ Once(works) => Once(works')
         /\ used' = used \ {x} /\ scrub' = scrub \ {x}
<1>0. None \notin used /\ None \notin scrub
  BY DEF RamOk, Pebs, None
<1>1. CASE x = None
  <2>1. ToSet(<<>>) = {}
    BY DEF ToSet
  <2>2. works \o <<>> = works
    BY DEF RamOk
  <2>3. works' = works /\ used' = used /\ scrub' = scrub
    BY <1>1, <2>1, <2>2 DEF Put
  <2> QED BY <1>0, <1>1, <2>3 DEF RamOk, Queued
<1>2. CASE x # None
  <2>1. ToSet(<<x>>) = {x}
    BY DEF ToSet
  <2>2. works' = works \o <<x>> /\ used' = used \ {x} /\ scrub' = scrub \ {x}
    BY <1>2, <2>1 DEF Put
  <2> QED BY <1>2, <2>2, QueueFacts
<1> QED BY <1>1, <1>2

Remap(l, y) == [eba EXCEPT ![l] = y]

\* The table is changed for one logical eraseblock.
LEMMA MappedNext ==
  ASSUME IInv, On, NEW l \in Lebs, NEW y \in Pebs \cup {None}, eba' = Remap(l, y)
  PROVE  /\ eba' \in [Lebs -> Pebs \cup {None}] /\ eba'[l] = y
         /\ \A k \in Lebs : k # l => eba'[k] = eba[k]
         /\ Mapped' = (Mapped \ {eba[l]}) \cup ({y} \ {None})
<1>1. eba \in [Lebs -> Pebs \cup {None}]
  BY DEF IInv, RamOk
<1>2. /\ eba'[l] = y /\ \A k \in Lebs : k # l => eba'[k] = eba[k]
      /\ eba' \in [Lebs -> Pebs \cup {None}]
  BY <1>1 DEF Remap
<1>3. \A k \in Lebs : k # l /\ eba[k] # None => eba[k] # eba[l]
  BY DEF IInv, Linked
<1> QED BY <1>1, <1>2, <1>3 DEF Mapped

\* The eraseblock of a logical one is in use, or being moved.
LEMMA InUse ==
  ASSUME IInv, On, NEW l \in Lebs, eba[l] # None
  PROVE  /\ eba[l] \in Mapped /\ eba[l] \in Pebs /\ eba[l] \in used \cup scrub \cup Hands
         /\ eba[l] \notin free /\ eba[l] \notin Queued
         /\ ~Moves => eba[l] \in used \cup scrub
<1>1. eba[l] \in Mapped /\ eba[l] \in Pebs
  BY DEF Mapped, IInv, RamOk
<1>2. ~(Moves /\ Erases)
  BY DEF Moves, Erases
<1>3. eba[l] \in used \cup scrub \cup (IF Moves THEN {wk.p} ELSE {})
  BY <1>1 DEF IInv, Shared
<1>4. Moves => wk.p \in Hands
  BY <1>2 DEF Hands
<1> QED BY <1>1, <1>3, <1>4 DEF IInv, Shared, Apart

\* What stays when the flash and the accounts do.
LEMMA Frame ==
  ASSUME IInv, On, UNCHANGED <<peb, bad, up, rsvd, avail, hurt>>
  PROVE  /\ FlashOk' /\ FailedOk' /\ Accounts' /\ up = "on" /\ up' = "on"
         /\ \A p \in Pebs : HasVid(p)' = HasVid(p) /\ Fresh(p)' = Fresh(p)
<1>1. FlashOk'
  BY FlashSame DEF IInv, flash
<1>2. FailedOk' /\ Accounts'
  BY DEF On, IInv, FailedOk, Accounts, Spare, Good
<1> QED BY <1>1, <1>2 DEF On, HasVid, Fresh

LEMMA IdleOp == \A r \in {"none", "ok", "err"} :
  Idle(r) \in OpState /\ Idle(r).at = "idle" /\ Idle(r).p = None
<1>1. <<>> \in Seq(Nat)
  OBVIOUS
<1> QED BY <1>1 DEF Idle, OpState, None

LEMMA NoWorkOk == NoWork \in WkState /\ NoWork.at = "none"
BY DEF NoWork, WkState, None

LEMMA UnmapKeeps == ASSUME IInv, NEW l \in Lebs, NEW k \in {"unmap", "erase"}, Unmap(l, k) PROVE IInv'
<1> DEFINE x == eba[l]
<1>0. On /\ wk.at = "none" /\ op.p = None /\ RamOk /\ Ready
  BY Begins DEF Unmap, IInv
<1>1. UNCHANGED <<peb, bad, up, free, wls, sqnum, ro, rsvd, avail, wk, hurt>> /\ ops' = ops + 1
  BY DEF Unmap, flash, count, Begin
<1>2. op' \in OpState /\ op'.at \in {"idle", "flush"} /\ op'.p = None
  <2>1. CASE k = "erase"
    <3>1. op' = [k |-> k, l |-> l, at |-> "flush", p |-> None, buf |-> <<>>, n |-> 0, crc |-> <<>>,
                 sq |-> 0, tries |-> 0, ret |-> "none"]
      BY <2>1 DEF Unmap, Begin, Idle
    <3> QED BY <2>1, <3>1 DEF OpState, None
  <2>2. CASE k # "erase"
    BY <2>2, IdleOp DEF Unmap, Begin
  <2> QED BY <2>1, <2>2
<1>3. x \in Pebs \cup {None} /\ None \notin Pebs
  BY <1>0 DEF RamOk, None, Pebs
<1>4. /\ x \notin Queued /\ (x # None => x \in used \cup scrub /\ x \in Mapped)
      /\ x = None => x \notin used \cup scrub
  <2>1. CASE x = None
    BY <1>0, <1>3, <2>1 DEF Queued, WL, None, RamOk
  <2>2. CASE x # None
    <3>1. ~Moves
      BY <1>0 DEF Moves
    <3> QED BY <1>0, <2>2, <3>1, InUse
  <2> QED BY <2>1, <2>2
<1>5. Put(IF x = None THEN <<>> ELSE <<x>>)
  BY DEF Unmap, Old
<1>6. /\ works' \in Seq(Pebs \cup {WL}) /\ Queued' = Queued \cup ({x} \ {None})
      /\ Once(works) => Once(works')
      /\ used' = used \ {x} /\ scrub' = scrub \ {x}
  BY <1>0, <1>3, <1>4, <1>5, PutFacts
<1>7. /\ eba' \in [Lebs -> Pebs \cup {None}] /\ eba'[l] = None
      /\ \A j \in Lebs : j # l => eba'[j] = eba[j]
      /\ Mapped' = Mapped \ {x}
  <2>1. eba' = Remap(l, None) /\ None \in Pebs \cup {None}
    BY DEF Unmap, Remap
  <2>2. /\ eba' \in [Lebs -> Pebs \cup {None}] /\ eba'[l] = None
        /\ \A j \in Lebs : j # l => eba'[j] = eba[j]
        /\ Mapped' = (Mapped \ {eba[l]}) \cup ({None} \ {None})
    BY <1>0, <2>1, MappedNext
  <2> QED BY <2>2
<1> HIDE DEF x
<1>8. /\ FlashOk' /\ FailedOk' /\ Accounts' /\ up = "on" /\ up' = "on"
      /\ \A p \in Pebs : HasVid(p)' = HasVid(p) /\ Fresh(p)' = Fresh(p)
  BY <1>0, <1>1, Frame
<1>9. ops' \in Nat
  BY <1>0, <1>1 DEF RamOk
<1>10. RamOk' /\ Still'
  <2>1. RamOk'
    BY <1>0, <1>1, <1>2, <1>6, <1>7, <1>9 DEF RamOk
  <2> QED BY <1>0, <1>1, <1>8, <2>1 DEF Still, On
<1>11. Numbered'
  BY <1>0, <1>1, <1>2, <1>8 DEF IInv, Numbered, FlashOk
<1>12. Linked'
  BY <1>0, <1>1, <1>7, <1>8 DEF IInv, Linked, RamOk
<1>13. Calling' /\ Doing'
  BY <1>0, <1>1, <1>2 DEF Calling, Doing, Moves
<1>14. Shared'
  <2>1. Hands' = {} /\ ~Moves' /\ Hands = {} /\ ~Moves
    BY <1>0, <1>1 DEF Hands, Moves, Erases
  <2>2. /\ Apart(free, used, scrub, Hands, Queued) /\ Once(works)
        /\ free \cup used \cup scrub \cup Hands \cup Queued = Pebs \ bad
        /\ used \cup scrub = Mapped
    BY <1>0, <2>1 DEF IInv, Shared
  <2>3. Apart(free, used, scrub, Hands, Queued)'
    BY <1>1, <1>4, <1>6, <2>1, <2>2 DEF Apart
  <2>4. (free \cup used \cup scrub \cup Hands \cup Queued = Pebs \ bad)'
    BY <1>1, <1>4, <1>6, <2>1, <2>2
  <2>5. used' \cup scrub' = Mapped'
    BY <1>6, <1>7, <2>2
  <2> QED BY <1>2, <1>3, <1>6, <2>1, <2>2, <2>3, <2>4, <2>5 DEF Shared, Mapped
<1> QED BY <1>8, <1>10, <1>11, <1>12, <1>13, <1>14 DEF IInv

LEMMA ReadBitflipKeeps == ASSUME IInv, NEW l \in Lebs, ReadBitflip(l) PROVE IInv'
<1> DEFINE x == eba[l]
<1>0. On /\ wk.at = "none" /\ op.p = None /\ RamOk
  BY Begins DEF ReadBitflip, IInv
<1>1. UNCHANGED <<peb, bad, up, eba, free, sqnum, ro, rsvd, avail, wk, hurt>> /\ ops' = ops + 1
      /\ op' = Idle("ok") /\ used' = used \ {x} /\ scrub' = scrub \cup {x} /\ EnsureWl(wls, works)
      /\ x # None /\ x \notin scrub
  BY DEF ReadBitflip, flash, count, Begin
<1>2. op' \in OpState /\ op'.at = "idle" /\ op'.p = None
  BY <1>1, IdleOp
<1>3. ~Moves /\ ~Moves' /\ Hands = {} /\ Hands' = {}
  BY <1>0, <1>1 DEF Hands, Moves, Erases
<1>4. x \in Pebs /\ x \in used
  BY <1>0, <1>1, <1>3, InUse
<1>5. works \in Seq(Pebs \cup {WL}) /\ wls \in BOOLEAN
  BY <1>0 DEF RamOk
<1>6. /\ works' \in Seq(Pebs \cup {WL}) /\ wls' \in BOOLEAN /\ Queued' = Queued
      /\ Once(works) => Once(works')
  BY <1>1, <1>5, EnsureFacts DEF Queued
<1> HIDE DEF x
<1>8. /\ FlashOk' /\ FailedOk' /\ Accounts' /\ up = "on" /\ up' = "on"
      /\ \A p \in Pebs : HasVid(p)' = HasVid(p) /\ Fresh(p)' = Fresh(p)
  BY <1>0, <1>1, Frame
<1>9. ops' \in Nat
  BY <1>0, <1>1 DEF RamOk
<1>10. RamOk' /\ Still'
  <2>1. RamOk'
    BY <1>0, <1>1, <1>2, <1>4, <1>6, <1>9 DEF RamOk
  <2> QED BY <1>0, <1>1, <1>8, <2>1 DEF Still, On
<1>11. Numbered'
  BY <1>0, <1>1, <1>2, <1>8 DEF IInv, Numbered, FlashOk
<1>12. Linked'
  BY <1>0, <1>1, <1>8 DEF IInv, Linked, RamOk
<1>13. Calling' /\ Doing'
  BY <1>0, <1>1, <1>2 DEF Calling, Doing, Moves
<1>14. Shared'
  <2>2. /\ Apart(free, used, scrub, Hands, Queued) /\ Once(works)
        /\ free \cup used \cup scrub \cup Hands \cup Queued = Pebs \ bad
        /\ used \cup scrub = Mapped
    BY <1>0, <1>3 DEF IInv, Shared
  <2>3. Apart(free, used, scrub, Hands, Queued)'
    BY <1>1, <1>3, <1>4, <1>6, <2>2 DEF Apart
  <2>4. (free \cup used \cup scrub \cup Hands \cup Queued = Pebs \ bad)'
    BY <1>1, <1>3, <1>4, <1>6, <2>2
  <2>5. used' \cup scrub' = Mapped' /\ None \notin Mapped'
    BY <1>1, <1>4, <2>2 DEF Mapped
  <2> QED BY <1>2, <1>3, <1>6, <2>2, <2>3, <2>4, <2>5 DEF Shared
<1> QED BY <1>8, <1>10, <1>11, <1>12, <1>13, <1>14 DEF IInv

(***************************************************************************)
(* The steps of a write, a change or a recovery.                           *)
(***************************************************************************)
LEMMA AtOpOn ==
  ASSUME IInv, NEW a, a # "idle", AtOp(a)
  PROVE  /\ On /\ wk.at = "none" /\ op.at = a /\ ~Moves /\ Hands = {} /\ RamOk
         /\ op \in OpState /\ used \cup scrub = Mapped \cup (IF op.p = None THEN {} ELSE {op.p})
<1>1. On
  BY NowOn DEF AtOp, IInv
<1>2. wk.at = "none" /\ op.at = a /\ RamOk /\ op \in OpState
  BY DEF AtOp, IInv, RamOk
<1>3. ~Moves /\ Hands = {}
  BY <1>2 DEF Hands, Moves, Erases
<1> QED BY <1>1, <1>2, <1>3 DEF IInv, Shared

\* The operation stops, and the device becomes read-only.
LEMMA GivenUp ==
  ASSUME IInv, FlashOk', up = "on", up' = "on", ro' = TRUE, op' \in OpState, op'.at = "idle",
         wk' \in WkState, wk'.at = "none", RamOk'
  PROVE  IInv'
<1>1. ~On' /\ Still' /\ FailedOk'
  BY DEF On, Still, FailedOk
<1> QED BY <1>1 DEF IInv, Accounts, Numbered, Linked, Calling, Doing, Shared

LEMMA GetPebKeeps == ASSUME IInv, GetPeb PROVE IInv'
<1>0. /\ On /\ wk.at = "none" /\ op.at = "get" /\ ~Moves /\ Hands = {} /\ RamOk
      /\ op \in OpState /\ used \cup scrub = Mapped \cup (IF op.p = None THEN {} ELSE {op.p})
  BY AtOpOn DEF GetPeb
<1>1. PICK p \in Picks : /\ free' = free \ {p} /\ used' = used \cup {p}
                         /\ op' = [op EXCEPT !.at = "vid", !.p = p]
  BY DEF GetPeb
<1>2. /\ UNCHANGED <<peb, bad, up, eba, scrub, works, wls, sqnum, ro, rsvd, avail, wk, hurt, ops>>
  BY DEF GetPeb, flash, count, budget
<1>3. p \in free /\ p \in Pebs
  <2>1. free \subseteq Pebs /\ free # {}
    BY <1>0 DEF RamOk, GetPeb
  <2> QED BY <2>1, PicksFree
<1>4. /\ op' \in OpState /\ op'.at = "vid" /\ op'.p = p /\ op'.sq = op.sq /\ op'.l = op.l
      /\ op'.buf = op.buf /\ op'.n = op.n
  BY <1>0, <1>1, <1>3 DEF OpState
<1>5. op.p = None /\ op.n = 0 /\ op.l \in Lebs /\ Len(op.buf) <= Pages /\ Fresh(p) /\ p # None
  BY <1>0, <1>3 DEF IInv, Calling, Linked, Pebs, None
<1>6. /\ FlashOk' /\ FailedOk' /\ Accounts' /\ up = "on" /\ up' = "on"
      /\ \A q \in Pebs : HasVid(q)' = HasVid(q) /\ Fresh(q)' = Fresh(q)
  BY <1>0, <1>2, Frame
<1>7. RamOk' /\ Still'
  <2>1. RamOk'
    BY <1>0, <1>1, <1>2, <1>3, <1>4 DEF RamOk
  <2> QED BY <1>0, <1>2, <1>6, <2>1 DEF Still, On
<1>8. Numbered'
  BY <1>0, <1>2, <1>4, <1>6 DEF IInv, Numbered, FlashOk
<1>9. Linked'
  BY <1>0, <1>1, <1>2, <1>6 DEF IInv, Linked, RamOk
<1>10. Calling'
  BY <1>3, <1>4, <1>5, <1>6 DEF Calling
<1>11. Doing'
  BY <1>0, <1>2 DEF Doing, Moves
<1>12. Shared'
  <2>1. Hands' = {} /\ ~Moves' /\ Queued' = Queued /\ Mapped' = Mapped
    BY <1>0, <1>2 DEF Hands, Moves, Erases, Queued, Mapped
  <2>2. /\ Apart(free, used, scrub, Hands, Queued) /\ Once(works)
        /\ free \cup used \cup scrub \cup Hands \cup Queued = Pebs \ bad
        /\ used \cup scrub = Mapped
    BY <1>0, <1>5 DEF IInv, Shared
  <2>3. Apart(free, used, scrub, Hands, Queued)'
    BY <1>0, <1>1, <1>2, <1>3, <2>1, <2>2 DEF Apart
  <2>4. (free \cup used \cup scrub \cup Hands \cup Queued = Pebs \ bad)'
    BY <1>0, <1>1, <1>2, <1>3, <2>1, <2>2
  <2>5. used' \cup scrub' = Mapped' \cup {op'.p} /\ op'.p \notin Mapped'
    BY <1>1, <1>2, <1>3, <1>4, <2>1, <2>2 DEF Apart
  <2> QED BY <1>2, <1>4, <1>5, <2>1, <2>2, <2>3, <2>4, <2>5 DEF Shared
<1> QED BY <1>6, <1>7, <1>8, <1>9, <1>10, <1>11, <1>12 DEF IInv

\* Only the call changes, with neither flash nor tables.
LEMMA Turned ==
  ASSUME IInv, On, wk.at = "none",
         UNCHANGED <<peb, bad, up, eba, free, used, scrub, works, wls, sqnum, ro, rsvd, avail, wk, hurt, ops>>,
         op' \in OpState, op'.p = None, op.p = None,
         \/ op'.at = "idle"
         \/ /\ op.at \in {"get", "produce"} /\ op'.at \in {"get", "produce"}
            /\ op'.sq = op.sq /\ op'.l = op.l /\ op'.buf = op.buf /\ op'.n = op.n
  PROVE  IInv'
<1>6. /\ FlashOk' /\ FailedOk' /\ Accounts' /\ up = "on" /\ up' = "on"
      /\ \A q \in Pebs : HasVid(q)' = HasVid(q) /\ Fresh(q)' = Fresh(q)
  BY Frame
<1>7. RamOk' /\ Still'
  BY <1>6 DEF IInv, RamOk, Still, On
<1>8. Numbered'
  BY <1>6 DEF IInv, Numbered, FlashOk
<1>9. Linked'
  BY <1>6 DEF IInv, Linked, RamOk
<1>10. Calling'
  BY <1>6 DEF IInv, Calling
<1>11. Doing'
  BY DEF Doing, Moves
<1>12. Shared'
  BY DEF IInv, Shared, On, Apart, Hands, Queued, Mapped, Erases, Moves
<1> QED BY <1>6, <1>7, <1>8, <1>9, <1>10, <1>11, <1>12 DEF IInv

LEMMA NeedPebKeeps == ASSUME IInv, NeedPeb PROVE IInv'
<1>0. /\ On /\ wk.at = "none" /\ op.at = "get" /\ RamOk /\ op \in OpState
  BY AtOpOn DEF NeedPeb
<1>1. UNCHANGED <<peb, bad, up, eba, free, used, scrub, works, wls, sqnum, rsvd, avail, wk, hurt, ops>>
  BY DEF NeedPeb, flash, pools, count, budget
<1>2. op.p = None
  BY <1>0 DEF IInv, Calling
<1>3. CASE works # <<>>
  <2>1. op' = [op EXCEPT !.at = "produce"] /\ ro' = ro
    BY <1>3 DEF NeedPeb
  <2>2. /\ op' \in OpState /\ op'.at = "produce" /\ op'.p = None /\ op'.sq = op.sq /\ op'.l = op.l
        /\ op'.buf = op.buf /\ op'.n = op.n
    BY <1>0, <1>2, <2>1 DEF OpState
  <2> QED BY <1>0, <1>1, <1>2, <2>1, <2>2, Turned
<1>4. CASE works = <<>>
  <2>1. op' = Idle("err") /\ ro' \in BOOLEAN
    BY <1>4 DEF NeedPeb
  <2>2. op' \in OpState /\ op'.at = "idle" /\ op'.p = None
    BY <2>1, IdleOp
  <2>3. CASE ro' = ro
    BY <1>0, <1>1, <1>2, <2>2, <2>3, Turned
  <2>4. CASE ro' # ro
    <3>1. FlashOk' /\ up = "on" /\ up' = "on"
      BY <1>0, <1>1, Frame
    <3>2. RamOk' /\ wk' \in WkState /\ wk'.at = "none"
      BY <1>0, <1>1, <2>1, <2>2 DEF RamOk
    <3>3. ro' = TRUE
      BY <1>0, <1>4, <2>4 DEF On, RamOk, NeedPeb
    <3> QED BY <2>2, <3>1, <3>2, <3>3, GivenUp
  <2> QED BY <2>3, <2>4
<1> QED BY <1>3, <1>4

LEMMA ProducedKeeps == ASSUME IInv, Produced PROVE IInv'
<1>0. /\ On /\ wk.at = "none" /\ op.at = "produce" /\ RamOk /\ op \in OpState
  BY AtOpOn DEF Produced
<1>1. UNCHANGED <<peb, bad, up, eba, free, used, scrub, works, wls, sqnum, ro, rsvd, avail, wk, hurt, ops>>
  BY DEF Produced, flash, pools, count, budget
<1>2. op.p = None
  BY <1>0 DEF IInv, Calling
<1>3. op' = [op EXCEPT !.at = "get"]
  BY DEF Produced
<1>4. /\ op' \in OpState /\ op'.at = "get" /\ op'.p = None /\ op'.sq = op.sq /\ op'.l = op.l
      /\ op'.buf = op.buf /\ op'.n = op.n
  BY <1>0, <1>2, <1>3 DEF OpState
<1> QED BY <1>0, <1>1, <1>2, <1>4, Turned

LEMMA FlushDoneKeeps == ASSUME IInv, FlushDone PROVE IInv'
<1>0. /\ On /\ wk.at = "none" /\ op.at = "flush" /\ RamOk /\ op \in OpState
  BY AtOpOn DEF FlushDone
<1>1. UNCHANGED <<peb, bad, up, eba, free, used, scrub, works, wls, sqnum, ro, rsvd, avail, wk, hurt, ops>>
  BY DEF FlushDone, flash, pools, count, budget
<1>2. op.p = None
  BY <1>0 DEF IInv, Calling
<1>4. op' \in OpState /\ op'.at = "idle" /\ op'.p = None
  BY IdleOp DEF FlushDone
<1> QED BY <1>0, <1>1, <1>2, <1>4, Turned

\* The eraseblock being written is in use.
LEMMA OpPeb ==
  ASSUME IInv, On, op.at \in {"vid", "data", "map"}, wk.at = "none"
  PROVE  /\ op.p \in Pebs \ bad /\ op.p \in used \cup scrub /\ op.p \notin Mapped
         /\ op.p \notin Queued /\ op.p \notin free /\ op.p # None /\ op.l \in Lebs
<1>1. op.p # None /\ op.l \in Lebs
  BY DEF IInv, Calling
<1>2. op.p \in Pebs \ bad
  BY <1>1, HandsGood DEF IInv
<1>3. ~Moves
  BY DEF Moves
<1> QED BY <1>1, <1>2, <1>3 DEF IInv, Shared, Apart

LEMMA RecoverUnreadableKeeps == ASSUME IInv, RecoverUnreadable PROVE IInv'
<1>0. /\ On /\ wk.at = "none" /\ op.at = "data" /\ RamOk /\ op \in OpState
  BY AtOpOn DEF RecoverUnreadable
<1>1. UNCHANGED <<peb, bad, up, eba, free, wls, sqnum, rsvd, avail, wk, hurt, ops>> /\ ro' = TRUE
      /\ op' = Idle("err") /\ Put(<<op.p>>)
  BY DEF RecoverUnreadable, flash, count, budget
<1>2. op' \in OpState /\ op'.at = "idle"
  BY <1>1, IdleOp
<1>3. op.p \in Pebs \ bad /\ op.p \notin Queued /\ op.p # None
  BY <1>0, OpPeb
<1>4. works' \in Seq(Pebs \cup {WL}) /\ used' = used \ {op.p} /\ scrub' = scrub \ {op.p}
  <2>1. Put(IF op.p = None THEN <<>> ELSE <<op.p>>)
    BY <1>1, <1>3
  <2> QED BY <1>0, <1>3, <2>1, PutFacts
<1>5. FlashOk' /\ up = "on" /\ up' = "on"
  BY <1>0, <1>1, Frame
<1>6. RamOk' /\ wk' \in WkState /\ wk'.at = "none"
  BY <1>0, <1>1, <1>2, <1>4 DEF RamOk
<1> QED BY <1>1, <1>2, <1>5, <1>6, GivenUp

LEMMA MapPebKeeps == ASSUME IInv, MapPeb PROVE IInv'
<1> DEFINE x == eba[op.l]
           l == op.l
<1>0. /\ On /\ wk.at = "none" /\ op.at = "map" /\ ~Moves /\ Hands = {} /\ RamOk
      /\ op \in OpState /\ used \cup scrub = Mapped \cup (IF op.p = None THEN {} ELSE {op.p})
  BY AtOpOn DEF MapPeb
<1>1. /\ UNCHANGED <<peb, bad, up, free, wls, sqnum, ro, rsvd, avail, wk, hurt, ops>>
      /\ op' = Idle("ok") /\ Put(Old(l)) /\ eba' = Remap(l, op.p)
  BY DEF MapPeb, flash, count, budget, Remap
<1>2. op' \in OpState /\ op'.at = "idle" /\ op'.p = None
  BY <1>1, IdleOp
<1>3. /\ op.p \in Pebs \ bad /\ op.p \in used \cup scrub /\ op.p \notin Mapped
      /\ op.p \notin Queued /\ op.p \notin free /\ op.p # None /\ l \in Lebs
  BY <1>0, OpPeb
<1>4. x \in Pebs \cup {None} /\ None \notin Pebs
  BY <1>0, <1>3 DEF RamOk, Pebs, None
<1>5. /\ x \notin Queued /\ (x # None => x \in used \cup scrub /\ x \in Mapped)
      /\ x = None => x \notin used \cup scrub
  <2>1. CASE x = None
    BY <1>0, <1>4, <2>1 DEF Queued, WL, None, RamOk
  <2>2. CASE x # None
    BY <1>0, <1>3, <2>2, InUse
  <2> QED BY <2>1, <2>2
<1>6. /\ works' \in Seq(Pebs \cup {WL}) /\ Queued' = Queued \cup ({x} \ {None})
      /\ Once(works) => Once(works')
      /\ used' = used \ {x} /\ scrub' = scrub \ {x}
  <2>1. Put(IF x = None THEN <<>> ELSE <<x>>)
    BY <1>1 DEF Old
  <2> QED BY <1>0, <1>4, <1>5, <2>1, PutFacts
<1>7. /\ eba' \in [Lebs -> Pebs \cup {None}] /\ eba'[l] = op.p
      /\ \A j \in Lebs : j # l => eba'[j] = eba[j]
      /\ Mapped' = (Mapped \ {x}) \cup {op.p}
  <2>1. op.p \in Pebs \cup {None}
    BY <1>3
  <2>2. /\ eba' \in [Lebs -> Pebs \cup {None}] /\ eba'[l] = op.p
        /\ \A k \in Lebs : k # l => eba'[k] = eba[k]
        /\ Mapped' = (Mapped \ {eba[l]}) \cup ({op.p} \ {None})
    BY <1>0, <1>1, <1>3, <2>1, MappedNext
  <2> QED BY <1>3, <2>2
<1>8. /\ FlashOk' /\ FailedOk' /\ Accounts' /\ up = "on" /\ up' = "on"
      /\ \A p \in Pebs : HasVid(p)' = HasVid(p) /\ Fresh(p)' = Fresh(p)
  BY <1>0, <1>1, Frame
<1>9. HasVid(op.p) /\ peb[op.p].vid.l = l
  BY <1>0 DEF IInv, Calling
<1> HIDE DEF x, l
<1>10. RamOk' /\ Still'
  <2>1. RamOk'
    BY <1>0, <1>1, <1>2, <1>6, <1>7 DEF RamOk
  <2> QED BY <1>0, <1>1, <1>8, <2>1 DEF Still, On
<1>11. Numbered'
  BY <1>0, <1>1, <1>2, <1>8 DEF IInv, Numbered, FlashOk
<1>12. Linked'
  <2>1. ASSUME NEW j \in Lebs, eba'[j] # None
        PROVE  peb'[eba'[j]].vid.st = "ok" /\ peb'[eba'[j]].vid.l = j
    <3>1. CASE j = l
      BY <1>1, <1>3, <1>7, <1>9, <3>1 DEF HasVid
    <3>2. CASE j # l
      <4>1. eba'[j] = eba[j] /\ eba[j] # None /\ eba[j] \in Pebs
        BY <1>0, <1>7, <2>1, <3>2 DEF RamOk
      <4>2. HasVid(eba[j]) /\ peb[eba[j]].vid.l = j
        BY <1>0, <4>1 DEF IInv, Linked
      <4> QED BY <1>1, <4>1, <4>2 DEF HasVid
    <3> QED BY <3>1, <3>2
  <2>2. \A p \in free' : Fresh(p)'
    BY <1>0, <1>1, <1>8 DEF IInv, Linked, RamOk
  <2> QED BY <2>1, <2>2 DEF Linked, HasVid
<1>13. Calling' /\ Doing'
  BY <1>0, <1>1, <1>2 DEF Calling, Doing, Moves
<1>14. Shared'
  <2>1. Hands' = {} /\ ~Moves'
    BY <1>0, <1>1 DEF Hands, Moves, Erases
  <2>2. /\ Apart(free, used, scrub, Hands, Queued) /\ Once(works)
        /\ free \cup used \cup scrub \cup Hands \cup Queued = Pebs \ bad
        /\ used \cup scrub = Mapped \cup {op.p}
    BY <1>0, <1>3 DEF IInv, Shared
  <2>3. Apart(free, used, scrub, Hands, Queued)'
    BY <1>0, <1>1, <1>5, <1>6, <2>1, <2>2 DEF Apart
  <2>4. (free \cup used \cup scrub \cup Hands \cup Queued = Pebs \ bad)'
    BY <1>0, <1>1, <1>5, <1>6, <2>1, <2>2
  <2>5. op.p # x
    BY <1>3, <1>5
  <2>6. used' \cup scrub' = Mapped' /\ None \notin Mapped'
    BY <1>6, <1>7, <2>2, <2>5 DEF Mapped
  <2> QED BY <1>2, <1>6, <2>1, <2>2, <2>3, <2>4, <2>6 DEF Shared
<1> QED BY <1>8, <1>10, <1>11, <1>12, <1>13, <1>14 DEF IInv

\* What stays when one eraseblock is written to.
LEMMA WrittenFrame ==
  ASSUME IInv, On, NEW d \in Pebs, Written(peb', d), UNCHANGED <<bad, up, rsvd, avail>>
  PROVE  /\ FlashOk' /\ FailedOk' /\ Accounts' /\ up = "on" /\ up' = "on"
         /\ \A p \in Pebs : p # d => peb'[p] = peb[p] /\ HasVid(p)' = HasVid(p) /\ Fresh(p)' = Fresh(p)
<1>1. FlashOk'
  BY WrittenFlash DEF IInv
<1>2. FailedOk' /\ Accounts'
  BY DEF On, IInv, FailedOk, Accounts, Spare, Good
<1>3. \A p \in Pebs : p # d => peb'[p] = peb[p]
  BY DEF Written
<1> QED BY <1>1, <1>2, <1>3 DEF On, HasVid, Fresh

\* A header or a page of the call is written to a new eraseblock.
LEMMA Progress ==
  ASSUME IInv, On, wk.at = "none", op.at \in {"vid", "data"}, Written(peb', op.p),
         UNCHANGED <<bad, up, eba, free, used, scrub, works, wls, sqnum, ro, rsvd, avail, wk, hurt, ops>>,
         HasVid(op.p)', peb'[op.p].vid.l = op.l, peb'[op.p].vid.sq < sqnum,
         op' \in OpState, op'.p = op.p, op'.l = op.l, op'.buf = op.buf, op'.at \in {"data", "map"},
         op'.at = "data" => Len(peb'[op.p].data) = op'.n /\ op'.n < Len(op.buf)
  PROVE  IInv'
<1>1. /\ op.p \in Pebs \ bad /\ op.p \in used \cup scrub /\ op.p \notin Mapped
      /\ op.p \notin Queued /\ op.p \notin free /\ op.p # None /\ op.l \in Lebs
  BY OpPeb
<1>2. /\ FlashOk' /\ FailedOk' /\ Accounts' /\ up = "on" /\ up' = "on"
      /\ \A p \in Pebs : p # op.p => peb'[p] = peb[p] /\ HasVid(p)' = HasVid(p) /\ Fresh(p)' = Fresh(p)
  BY <1>1, WrittenFrame
<1>3. RamOk' /\ Still'
  BY <1>2 DEF IInv, RamOk, Still, On
<1>4. Numbered'
  <2>1. ASSUME NEW p \in Pebs \ bad, HasVid(p)' PROVE peb'[p].vid.sq < sqnum
    <3>1. CASE p = op.p
      BY <3>1
    <3>2. CASE p # op.p
      BY <1>2, <2>1, <3>2 DEF IInv, Numbered
    <3> QED BY <3>1, <3>2
  <2> QED BY <2>1 DEF Numbered
<1>5. Linked'
  <2>1. ASSUME NEW j \in Lebs, eba[j] # None
        PROVE  peb'[eba[j]].vid.st = "ok" /\ peb'[eba[j]].vid.l = j
    <3>1. eba[j] # op.p /\ eba[j] \in Pebs
      BY <1>1, <2>1 DEF Mapped, IInv, RamOk
    <3>2. HasVid(eba[j]) /\ peb[eba[j]].vid.l = j
      BY <2>1 DEF IInv, Linked
    <3> QED BY <1>2, <3>1, <3>2 DEF HasVid
  <2>2. \A p \in free : Fresh(p)'
    BY <1>1, <1>2 DEF IInv, Linked, RamOk
  <2> QED BY <2>1, <2>2 DEF Linked, HasVid
<1>6. Calling'
  <2>1. Len(op.buf) <= Pages
    BY DEF IInv, Calling
  <2> QED BY <1>1, <2>1 DEF Calling, HasVid
<1>7. Doing'
  BY DEF Doing, Moves
<1>8. Shared'
  BY DEF IInv, Shared, On, Apart, Hands, Queued, Mapped, Erases, Moves
<1> QED BY <1>2, <1>3, <1>4, <1>5, <1>6, <1>7, <1>8 DEF IInv

LEMMA WriteVidKeeps == ASSUME IInv, WriteVid PROVE IInv'
<1>0. /\ On /\ wk.at = "none" /\ op.at = "vid" /\ RamOk /\ op \in OpState
  BY AtOpOn DEF WriteVid
<1>1. /\ peb' = Done
      /\ UNCHANGED <<bad, up, eba, free, used, scrub, works, wls, sqnum, ro, rsvd, avail, wk, hurt, ops>>
      /\ op' = [op EXCEPT !.at = IF op.buf = <<>> THEN "map" ELSE "data"]
  BY DEF WriteVid, pools, count, budget
<1>2. /\ Written(peb', op.p) /\ peb'[op.p].data = <<>> /\ peb'[op.p].vid.st = "ok"
      /\ peb'[op.p].vid.l = op.l /\ peb'[op.p].vid.sq = op.sq
  <2>1. Done \in Half \cup {Done}
    OBVIOUS
  <2> QED BY <1>0, <1>1, <2>1, OpVidFlash
<1>3. op.n = 0 /\ op.sq < sqnum
  BY <1>0 DEF IInv, Calling, Numbered
<1>4. /\ op' \in OpState /\ op'.p = op.p /\ op'.l = op.l /\ op'.buf = op.buf /\ op'.n = op.n
      /\ op'.at = IF op.buf = <<>> THEN "map" ELSE "data"
  BY <1>0, <1>1 DEF OpState
<1>5. op'.at = "data" => Len(peb'[op.p].data) = op'.n /\ op'.n < Len(op.buf)
  <2>1. op.buf \in Seq(Nat)
    BY <1>0 DEF OpState
  <2>2. op.buf # <<>> => 0 < Len(op.buf)
    BY <2>1
  <2>3. Len(<<>>) = 0
    OBVIOUS
  <2> QED BY <1>2, <1>3, <1>4, <2>2, <2>3
<1>6. HasVid(op.p)'
  BY <1>0, <1>1, <1>2, <1>4 DEF HasVid
<1>7. peb'[op.p].vid.sq < sqnum /\ op'.at \in {"data", "map"} /\ op.at \in {"vid", "data"}
  BY <1>0, <1>2, <1>3, <1>4
<1> QED BY <1>0, <1>1, <1>2, <1>4, <1>5, <1>6, <1>7, Progress

LEMMA WritePageKeeps == ASSUME IInv, WritePage PROVE IInv'
<1>0. /\ On /\ wk.at = "none" /\ op.at = "data" /\ RamOk /\ op \in OpState
  BY AtOpOn DEF WritePage
<1>1. /\ peb' = Done
      /\ UNCHANGED <<bad, up, eba, free, used, scrub, works, wls, sqnum, ro, rsvd, avail, wk, hurt, ops>>
      /\ op' = [op EXCEPT !.n = @ + 1, !.at = IF op.n + 1 = Len(op.buf) THEN "map" ELSE @]
  BY DEF WritePage, pools, count, budget
<1>2. /\ op.p \in Pebs \ bad /\ HasVid(op.p) /\ peb[op.p].vid.l = op.l /\ Len(peb[op.p].data) = op.n
      /\ op.n < Len(op.buf) /\ peb[op.p].vid.sq < sqnum
  BY <1>0, OpPeb DEF IInv, Calling, Numbered
<1>3. Written(peb', op.p) /\ peb'[op.p].vid = peb[op.p].vid /\ Len(peb'[op.p].data) = op.n + 1
  <2>1. Done \in Half \cup {Done}
    OBVIOUS
  <2> QED BY <1>0, <1>1, <1>2, <2>1, OpPageFlash
<1>4. /\ op' \in OpState /\ op'.p = op.p /\ op'.l = op.l /\ op'.buf = op.buf /\ op'.n = op.n + 1
      /\ op'.at = IF op.n + 1 = Len(op.buf) THEN "map" ELSE "data"
  <2> DEFINE m == op.n + 1
             a == IF m = Len(op.buf) THEN "map" ELSE "data"
  <2>1. m \in Nat /\ op' = [op EXCEPT !.n = m, !.at = a]
    BY <1>0, <1>1 DEF OpState
  <2>2. a \in {"data", "map"}
    OBVIOUS
  <2> HIDE DEF m, a
  <2>3. op' \in OpState /\ op'.p = op.p /\ op'.l = op.l /\ op'.buf = op.buf /\ op'.n = m /\ op'.at = a
    BY <1>0, <2>1, <2>2 DEF OpState
  <2> QED BY <2>3 DEF m, a
<1>5. op'.at = "data" => Len(peb'[op.p].data) = op'.n /\ op'.n < Len(op.buf)
  <2>1. op.n \in Nat /\ Len(op.buf) \in Nat
    BY <1>0 DEF OpState
  <2> QED BY <1>2, <1>3, <1>4, <2>1
<1>6. HasVid(op.p)'
  BY <1>2, <1>3, <1>4 DEF HasVid
<1>7. peb'[op.p].vid.sq < sqnum /\ op'.at \in {"data", "map"} /\ op.at \in {"vid", "data"}
      /\ peb'[op.p].vid.l = op.l
  BY <1>0, <1>2, <1>3, <1>4
<1> QED BY <1>0, <1>1, <1>3, <1>4, <1>5, <1>6, <1>7, Progress

\* The eraseblock that is written on after its data.
LEMMA AppendPeb ==
  ASSUME IInv, On, wk.at = "none", op.at = "append"
  PROVE  /\ op.l \in Lebs /\ eba[op.l] \in Pebs \ bad /\ HasVid(eba[op.l]) /\ peb[eba[op.l]].vid.l = op.l
         /\ peb[eba[op.l]].vid.sq < sqnum /\ eba[op.l] \notin free /\ op.p = None
         /\ op.n \in Nat /\ Len(op.buf) \in Nat /\ op.n < Len(op.buf) /\ Len(op.buf) <= Pages
         /\ Len(DataOf(op.l)) \in Nat /\ op.n <= Len(DataOf(op.l))
         /\ Len(DataOf(op.l)) - op.n + Len(op.buf) <= Pages
<1>1. /\ op.l \in Lebs /\ eba[op.l] # None /\ op.n < Len(op.buf) /\ Len(op.buf) <= Pages
      /\ op.n <= Len(DataOf(op.l)) /\ Len(DataOf(op.l)) - op.n + Len(op.buf) <= Pages /\ op.p = None
  BY DEF IInv, Calling
<1>2. eba[op.l] \in Pebs \ bad /\ HasVid(eba[op.l]) /\ peb[eba[op.l]].vid.l = op.l
  BY <1>1, HandsGood DEF IInv, Linked
<1>3. peb[eba[op.l]].vid.sq < sqnum
  BY <1>2 DEF IInv, Numbered
<1>4. eba[op.l] \notin free
  BY <1>1, InUse
<1>5. op.n \in Nat /\ Len(op.buf) \in Nat
  BY DEF IInv, RamOk, OpState
<1>6. Len(DataOf(op.l)) \in Nat
  BY <1>2, PebFacts DEF IInv, DataOf
<1> QED BY <1>1, <1>2, <1>3, <1>4, <1>5, <1>6

LEMMA AppendPageKeeps == ASSUME IInv, AppendPage PROVE IInv'
<1> DEFINE d == eba[op.l]
           k == Len(peb[d].data)
<1>0. /\ On /\ wk.at = "none" /\ op.at = "append" /\ RamOk /\ op \in OpState
  BY AtOpOn DEF AppendPage
<1>1. /\ peb' = Done
      /\ UNCHANGED <<bad, up, eba, free, used, scrub, works, wls, sqnum, ro, rsvd, avail, wk, hurt, ops>>
      /\ op' = IF op.n + 1 = Len(op.buf) THEN Idle("ok") ELSE [op EXCEPT !.n = @ + 1]
  BY DEF AppendPage, pools, count, budget
<1>2. /\ op.l \in Lebs /\ d \in Pebs \ bad /\ HasVid(d) /\ peb[d].vid.l = op.l
      /\ peb[d].vid.sq < sqnum /\ d \notin free /\ op.p = None
      /\ op.n \in Nat /\ Len(op.buf) \in Nat /\ op.n < Len(op.buf) /\ Len(op.buf) <= Pages
      /\ k \in Nat /\ op.n <= k /\ k - op.n + Len(op.buf) <= Pages
  BY <1>0, AppendPeb DEF DataOf
<1>3. Written(peb', d) /\ peb'[d].vid = peb[d].vid /\ Len(peb'[d].data) = k + 1
  <2>1. Done \in Half \cup {Done}
    OBVIOUS
  <2> QED BY <1>0, <1>1, <2>1, OpPageFlash
<1>4. /\ op' \in OpState /\ op'.p = None /\ op'.at \in {"idle", "append"}
      /\ op'.at = "append" =>
           op'.l = op.l /\ op'.buf = op.buf /\ op'.n = op.n + 1 /\ op'.n < Len(op.buf)
  <2>1. CASE op.n + 1 = Len(op.buf)
    BY <1>1, <2>1, IdleOp
  <2>2. CASE op.n + 1 # Len(op.buf)
    <3> DEFINE m == op.n + 1
    <3>1. m \in Nat /\ m < Len(op.buf) /\ op' = [op EXCEPT !.n = m]
      BY <1>1, <1>2, <2>2
    <3> HIDE DEF m
    <3>2. op' \in OpState /\ op'.p = op.p /\ op'.at = op.at /\ op'.l = op.l /\ op'.buf = op.buf /\ op'.n = m
      BY <1>0, <3>1 DEF OpState
    <3> QED BY <1>0, <1>2, <3>1, <3>2 DEF m
  <2> QED BY <2>1, <2>2
<1>5. /\ FlashOk' /\ FailedOk' /\ Accounts' /\ up = "on" /\ up' = "on"
      /\ \A p \in Pebs : p # d => peb'[p] = peb[p] /\ HasVid(p)' = HasVid(p) /\ Fresh(p)' = Fresh(p)
  BY <1>0, <1>1, <1>2, <1>3, WrittenFrame
<1>6. (k + 1) - (op.n + 1) + Len(op.buf) <= Pages /\ op.n + 1 <= k + 1
  <2> DEFINE n == op.n
             b == Len(op.buf)
  <2>1. n \in Nat /\ k \in Nat /\ b \in Nat /\ Pages \in Nat /\ n <= k /\ k - n + b <= Pages
    BY <1>2, UbiAssumption
  <2> HIDE DEF n, b, k
  <2>2. (k + 1) - (n + 1) + b <= Pages /\ n + 1 <= k + 1
    BY <2>1, Room
  <2> QED BY <2>2 DEF n, b
<1>7. RamOk' /\ Still'
  BY <1>0, <1>1, <1>4, <1>5 DEF RamOk, Still, On
<1>8. Numbered'
  <2>1. ASSUME NEW p \in Pebs \ bad, peb'[p].vid.st = "ok" PROVE peb'[p].vid.sq < sqnum
    <3>1. CASE p = d
      BY <1>2, <1>3, <3>1
    <3>2. CASE p # d
      BY <1>0, <1>5, <2>1, <3>2 DEF IInv, Numbered, HasVid
    <3> QED BY <3>1, <3>2
  <2> QED BY <1>0, <1>1, <1>4, <2>1 DEF Numbered, HasVid
<1>9. Linked'
  <2>1. ASSUME NEW j \in Lebs, eba[j] # None
        PROVE  peb'[eba[j]].vid = peb[eba[j]].vid
    <3>1. eba[j] \in Pebs
      BY <1>0, <2>1 DEF RamOk
    <3> QED BY <1>3, <1>5, <3>1
  <2>2. \A p \in free : Fresh(p)'
    BY <1>0, <1>2, <1>5 DEF IInv, Linked, RamOk
  <2> QED BY <1>0, <1>1, <2>1, <2>2 DEF IInv, Linked, HasVid
<1>10. Calling'
  <2>1. ASSUME op'.at = "append"
        PROVE  /\ op'.l \in Lebs /\ Len(op'.buf) <= Pages /\ eba'[op'.l] # None
               /\ op'.n < Len(op'.buf) /\ op'.n <= Len(DataOf(op.l)')
               /\ Len(DataOf(op.l)') - op'.n + Len(op'.buf) <= Pages
    <3>1. op'.l = op.l /\ op'.buf = op.buf /\ op'.n = op.n + 1 /\ op'.n < Len(op.buf)
      BY <1>4, <2>1
    <3>2. DataOf(op.l)' = peb'[d].data /\ eba'[op'.l] = d
      BY <1>1, <3>1 DEF DataOf
    <3>3. d # None
      BY <1>2 DEF Pebs, None
    <3>4. Len(DataOf(op.l)') = k + 1
      BY <1>3, <3>2
    <3> HIDE DEF d, k
    <3>5. op'.n <= Len(DataOf(op.l)') /\ Len(DataOf(op.l)') - op'.n + Len(op'.buf) <= Pages
      <4> DEFINE N == op'.n
                 K == Len(DataOf(op.l)')
                 B == Len(op'.buf)
                 n == op.n + 1
                 b == Len(op.buf)
      <4>1. N = n /\ K = k + 1 /\ B = b
        BY <3>1, <3>4
      <4>2. (k + 1) - n + b <= Pages /\ n <= k + 1
        BY <1>6
      <4> HIDE DEF N, K, B, n, b
      <4>3. N <= K /\ K - N + B <= Pages
        BY <4>1, <4>2
      <4> QED BY <4>3 DEF N, K, B
    <3> QED BY <1>2, <3>1, <3>2, <3>3, <3>5
  <2> QED BY <1>4, <2>1 DEF Calling, DataOf
<1>11. Doing'
  BY <1>0, <1>1 DEF Doing, Moves
<1>12. Shared'
  BY <1>0, <1>1, <1>2, <1>4 DEF IInv, Shared, On, Apart, Hands, Queued, Mapped, Erases, Moves
<1> QED BY <1>5, <1>7, <1>8, <1>9, <1>10, <1>11, <1>12 DEF IInv

\* After a failed write the call asks for another eraseblock.
LEMMA Retried ==
  ASSUME IInv, On, wk.at = "none", NEW d \in Pebs \ bad, Written(peb', d), d \notin free,
         peb'[d].vid.st = "ok" => peb'[d].vid.sq < sqnum,
         \A j \in Lebs : eba[j] # None => peb'[eba[j]].vid = peb[eba[j]].vid,
         UNCHANGED <<bad, up, eba, free, wls, ro, rsvd, avail, wk, ops>>, sqnum' = sqnum + 1,
         op' \in OpState, op'.at = "get", op'.p = None, op'.n = 0, op'.sq = sqnum,
         op'.l \in Lebs, Len(op'.buf) <= Pages,
         RamOk', Shared'
  PROVE  IInv'
<1>1. /\ FlashOk' /\ FailedOk' /\ Accounts' /\ up = "on" /\ up' = "on"
      /\ \A p \in Pebs : p # d => peb'[p] = peb[p] /\ HasVid(p)' = HasVid(p) /\ Fresh(p)' = Fresh(p)
  BY WrittenFrame
<1>2. Still'
  BY <1>1 DEF Still, On
<1>3. sqnum \in Nat /\ sqnum < sqnum + 1
  BY DEF IInv, RamOk
<1>4. Numbered'
  <2>1. ASSUME NEW p \in Pebs \ bad, peb'[p].vid.st = "ok"
        PROVE  peb'[p].vid.sq < sqnum' /\ peb'[p].vid.sq # op'.sq
    <3> DEFINE a == peb'[p].vid.sq
    <3>1. a < sqnum
      BY <1>1, <2>1 DEF IInv, Numbered, HasVid
    <3>2. a \in Nat
      <4>1. FlashOk' /\ HasVid(p)'
        BY <1>1, <2>1 DEF HasVid
      <4>2. peb'[p] \in PebState
        BY <4>1 DEF FlashOk
      <4>3. peb'[p].vid \in {NoVid, TornVid} \cup [st : {"ok"}, l : Lebs, sq : Nat, crc : Seq(Nat)]
        BY <4>2 DEF PebState
      <4> QED BY <2>1, <4>3 DEF NoVid, TornVid
    <3> HIDE DEF a
    <3>3. a < sqnum' /\ a # op'.sq
      BY <1>3, <3>1, <3>2
    <3> QED BY <3>3 DEF a
  <2>2. op'.sq < sqnum'
    BY <1>3
  <2> QED BY <2>1, <2>2 DEF Numbered, HasVid
<1>5. Linked'
  <2>1. \A p \in free : Fresh(p)'
    BY <1>1 DEF IInv, Linked, RamOk
  <2> QED BY <2>1 DEF IInv, Linked, HasVid
<1>6. Calling' /\ Doing'
  BY DEF Calling, Doing, Moves
<1> QED BY <1>1, <1>2, <1>4, <1>5, <1>6 DEF IInv

LEMMA WriteFailKeeps == ASSUME IInv, WriteFail PROVE IInv'
<1> DEFINE d == op.p
<1>0. /\ On /\ wk.at = "none" /\ op.at \in {"vid", "data"} /\ ~Moves /\ Hands = {} /\ RamOk
      /\ op \in OpState /\ used \cup scrub = Mapped \cup (IF op.p = None THEN {} ELSE {op.p})
  <2>1. AtOp("vid") \/ AtOp("data")
    BY DEF WriteFail
  <2> QED BY <2>1, AtOpOn
<1>1. /\ peb' \in Half /\ Put(<<d>>)
      /\ UNCHANGED <<bad, up, eba, free, wls, rsvd, avail, wk, hurt, ops>>
      /\ \/ op' = Again /\ sqnum' = sqnum + 1 /\ ro' = ro
         \/ op' \in {Idle("err"), Idle("ok")} /\ ro' = TRUE /\ sqnum' = sqnum
  BY DEF WriteFail, count
<1>2. /\ d \in Pebs \ bad /\ d \in used \cup scrub /\ d \notin Mapped
      /\ d \notin Queued /\ d \notin free /\ d # None /\ op.l \in Lebs /\ Len(op.buf) <= Pages
  BY <1>0, OpPeb DEF IInv, Calling
<1>3. Written(peb', d) /\ (peb'[d].vid.st = "ok" => peb'[d].vid.sq < sqnum)
  <2>1. peb' \in Half \cup {Done}
    BY <1>1
  <2>2. CASE op.at = "vid"
    BY <1>0, <2>1, <2>2, OpVidFlash DEF IInv, Numbered
  <2>3. CASE op.at = "data"
    <3>1. HasVid(d) /\ peb[d].vid.sq < sqnum
      BY <1>0, <1>2, <2>3 DEF IInv, Calling, Numbered
    <3>2. Written(peb', d) /\ peb'[d].vid = peb[d].vid
      BY <1>0, <2>1, <2>3, OpPageFlash
    <3> QED BY <3>1, <3>2
  <2> QED BY <1>0, <2>2, <2>3
<1>4. /\ works' \in Seq(Pebs \cup {WL}) /\ Queued' = Queued \cup {d} /\ (Once(works) => Once(works'))
      /\ used' = used \ {d} /\ scrub' = scrub \ {d}
  <2>1. Put(IF d = None THEN <<>> ELSE <<d>>) /\ d \in Pebs \cup {None}
    BY <1>1, <1>2
  <2>2. /\ works' \in Seq(Pebs \cup {WL}) /\ Queued' = Queued \cup ({d} \ {None})
        /\ Once(works) => Once(works')
        /\ used' = used \ {d} /\ scrub' = scrub \ {d}
    BY <1>0, <1>2, <2>1, PutFacts
  <2> QED BY <1>2, <2>2
<1>5. CASE op' = Again /\ sqnum' = sqnum + 1 /\ ro' = ro
  <2>1. /\ op' \in OpState /\ op'.at = "get" /\ op'.p = None /\ op'.n = 0 /\ op'.sq = sqnum
        /\ op'.l = op.l /\ op'.buf = op.buf
    <3> DEFINE m == op.tries + 1
    <3>1. m \in Nat /\ op \in OpState /\ sqnum \in Nat
      BY <1>0 DEF OpState, RamOk
    <3>2. op' = [op EXCEPT !.at = "get", !.p = None, !.n = 0, !.tries = m, !.sq = sqnum]
      BY <1>5 DEF Again
    <3> HIDE DEF m
    <3> QED BY <3>1, <3>2 DEF OpState
  <2>2. sqnum' \in Nat
    BY <1>0, <1>5 DEF RamOk
  <2>3. RamOk'
    BY <1>0, <1>1, <1>4, <1>5, <2>1, <2>2 DEF RamOk
  <2>4. \A j \in Lebs : eba[j] # None => peb'[eba[j]].vid = peb[eba[j]].vid
    <3> SUFFICES ASSUME NEW j \in Lebs, eba[j] # None PROVE peb'[eba[j]].vid = peb[eba[j]].vid
      OBVIOUS
    <3>1. eba[j] # d /\ eba[j] \in Pebs
      BY <1>0, <1>2 DEF Mapped, RamOk
    <3> QED BY <1>3, <3>1 DEF Written
  <2>5. Shared'
    <3> HIDE DEF d
    <3>1. Hands' = {} /\ ~Moves' /\ Mapped' = Mapped
      BY <1>0, <1>1 DEF Hands, Moves, Erases, Mapped
    <3>2. /\ Apart(free, used, scrub, Hands, Queued) /\ Once(works)
          /\ free \cup used \cup scrub \cup Hands \cup Queued = Pebs \ bad
      BY <1>0 DEF IInv, Shared
    <3>3. Apart(free, used, scrub, Hands, Queued)'
      BY <1>0, <1>1, <1>2, <1>4, <3>1, <3>2 DEF Apart
    <3>4. (free \cup used \cup scrub \cup Hands \cup Queued = Pebs \ bad)'
      BY <1>0, <1>1, <1>2, <1>4, <3>1, <3>2
    <3>5. used' \cup scrub' = Mapped' /\ None \notin Mapped'
      BY <1>0, <1>2, <1>4, <3>1 DEF Mapped, d
    <3> QED BY <1>4, <2>1, <3>1, <3>2, <3>3, <3>4, <3>5 DEF Shared
  <2> HIDE DEF d
  <2>6. op'.l \in Lebs /\ Len(op'.buf) <= Pages
    BY <1>2, <2>1
  <2> QED BY <1>0, <1>1, <1>2, <1>3, <1>5, <2>1, <2>3, <2>4, <2>5, <2>6, Retried
<1>6. CASE op' \in {Idle("err"), Idle("ok")} /\ ro' = TRUE /\ sqnum' = sqnum
  <2>1. op' \in OpState /\ op'.at = "idle"
    BY <1>6, IdleOp
  <2>2. FlashOk' /\ up = "on" /\ up' = "on"
    BY <1>0, <1>1, <1>2, <1>3, WrittenFrame
  <2>3. RamOk' /\ wk' \in WkState /\ wk'.at = "none"
    BY <1>0, <1>1, <1>4, <1>6, <2>1 DEF RamOk
  <2> QED BY <1>6, <2>1, <2>2, <2>3, GivenUp
<1> QED BY <1>1, <1>5, <1>6

LEMMA AppendFailKeeps == ASSUME IInv, AppendFail PROVE IInv'
<1> DEFINE d == eba[op.l]
           data == peb[d].data
           k == Len(data)
           b == Before(op.l, op.n)
<1>0. /\ On /\ wk.at = "none" /\ op.at = "append" /\ RamOk /\ op \in OpState
  BY AtOpOn DEF AppendFail
<1>1. /\ peb' \in Half
      /\ UNCHANGED <<bad, up, eba, free, used, scrub, works, wls, ro, rsvd, avail, wk, ops>>
      /\ op' = New("recover", op.l, b \o op.buf, peb[d].vid.crc)
      /\ sqnum' = sqnum + 1 /\ hurt' = hurt \cup {op.l}
  BY DEF AppendFail, count, pools
<1>2. /\ op.l \in Lebs /\ d \in Pebs \ bad /\ HasVid(d) /\ peb[d].vid.l = op.l
      /\ peb[d].vid.sq < sqnum /\ d \notin free /\ op.p = None
      /\ op.n \in Nat /\ Len(op.buf) \in Nat /\ op.n < Len(op.buf) /\ Len(op.buf) <= Pages
      /\ k \in Nat /\ op.n <= k /\ k - op.n + Len(op.buf) <= Pages
  BY <1>0, AppendPeb DEF DataOf
<1>3. Written(peb', d) /\ peb'[d].vid = peb[d].vid
  <2>1. peb' \in Half \cup {Done}
    BY <1>1
  <2> QED BY <1>0, <2>1, OpPageFlash
<1>4. /\ data \in Seq(Nat) /\ peb[d].vid.crc \in Seq(Nat) /\ op.buf \in Seq(Nat) /\ sqnum \in Nat
  BY <1>0, <1>2, PebFacts DEF IInv, OpState, RamOk
<1>5. b \o op.buf \in Seq(Nat) /\ Len(b \o op.buf) <= Pages
  <2> DEFINE m == k - op.n
  <2>1. m \in 0 .. k /\ m + Len(op.buf) <= Pages
    BY <1>2
  <2>2. b = SubSeq(data, 1, m)
    BY DEF Before, DataOf
  <2> HIDE DEF data, m, b
  <2>3. k = Len(data)
    BY DEF data
  <2> HIDE DEF k
  <2>4. b \in Seq(Nat) /\ Len(b) = m
    BY <1>4, <2>1, <2>2, <2>3
  <2>5. b \o op.buf \in Seq(Nat) /\ Len(b \o op.buf) = Len(b) + Len(op.buf)
    <3> DEFINE e == op.buf
    <3>1. e \in Seq(Nat)
      BY <1>4
    <3> HIDE DEF e
    <3>2. b \o e \in Seq(Nat) /\ Len(b \o e) = Len(b) + Len(e)
      BY <2>4, <3>1
    <3> QED BY <3>2 DEF e
  <2> QED BY <2>1, <2>4, <2>5
<1> HIDE DEF b, data, k
<1>6. op' = [k |-> "recover", l |-> op.l, at |-> "get", p |-> None, buf |-> b \o op.buf, n |-> 0,
             crc |-> peb[d].vid.crc, sq |-> sqnum, tries |-> 0, ret |-> "none"]
  BY <1>1 DEF New, Idle
<1>7. op' \in OpState
  BY <1>2, <1>4, <1>5, <1>6 DEF OpState, None
<1>8. RamOk' /\ Shared'
  <2>1. hurt' \subseteq Lebs /\ sqnum' \in Nat
    BY <1>0, <1>1, <1>2, <1>4 DEF RamOk
  <2>2. RamOk'
    BY <1>0, <1>1, <1>7, <2>1 DEF RamOk
  <2>3. op'.p = op.p
    BY <1>2, <1>6
  <2>4. Shared'
    BY <1>0, <1>1, <2>3 DEF IInv, Shared, On, Apart, Hands, Queued, Mapped, Erases, Moves
  <2> QED BY <2>2, <2>4
<1>9. \A j \in Lebs : eba[j] # None => peb'[eba[j]].vid = peb[eba[j]].vid
  <2> SUFFICES ASSUME NEW j \in Lebs, eba[j] # None PROVE peb'[eba[j]].vid = peb[eba[j]].vid
    OBVIOUS
  <2>1. eba[j] \in Pebs
    BY <1>0 DEF RamOk
  <2> QED BY <1>3, <2>1 DEF Written
<1>10. peb'[d].vid.st = "ok" => peb'[d].vid.sq < sqnum
  BY <1>2, <1>3
<1>11. op'.at = "get" /\ op'.p = None /\ op'.n = 0 /\ op'.sq = sqnum /\ op'.l \in Lebs /\ Len(op'.buf) <= Pages
  BY <1>2, <1>5, <1>6
<1> HIDE DEF d
<1> QED BY <1>0, <1>1, <1>2, <1>3, <1>7, <1>8, <1>9, <1>10, <1>11, Retried

(***************************************************************************)
(* The works.                                                              *)
(***************************************************************************)
LEMMA WorkOn ==
  ASSUME IInv, up = "on", wk.at # "none"
  PROVE  /\ On /\ op.at \in {"flush", "produce"} /\ op.p = None /\ RamOk /\ FlashOk /\ wk \in WkState
         /\ wk.p \in Pebs \ bad /\ wk.p # None
         /\ wk.p \in Hands /\ (Moves => wk.q \in Hands /\ wk.q \in Pebs \ bad /\ wk.p # wk.q)
         /\ wk.p \notin free /\ wk.p \notin used /\ wk.p \notin scrub /\ wk.p \notin Queued
<1>1. On /\ RamOk /\ FlashOk /\ wk \in WkState
  BY NowOn DEF IInv, RamOk
<1>2. op.at \in {"flush", "produce"} /\ op.p = None
  BY <1>1 DEF IInv, Doing, Calling
<1>3. wk.p \in Pebs \ bad /\ (Moves => wk.q \in Pebs \ bad /\ wk.p # wk.q)
  BY <1>1, HandsGood DEF IInv, Doing
<1>4. wk.p \in Hands /\ (Moves => wk.q \in Hands)
  BY <1>1 DEF Hands, Moves, Erases, WkState
<1>5. wk.p \notin free /\ wk.p \notin used /\ wk.p \notin scrub /\ wk.p \notin Queued
  BY <1>1, <1>4 DEF IInv, Shared, Apart
<1>6. wk.p # None
  BY <1>3 DEF Pebs, None
<1> QED BY <1>1, <1>2, <1>3, <1>4, <1>5, <1>6

LEMMA WorkStarts ==
  ASSUME IInv, AtOp("flush") \/ (AtOp("produce") /\ free = {})
  PROVE  /\ On /\ wk.at = "none" /\ op.at \in {"flush", "produce"} /\ ~Moves /\ ~Erases /\ Hands = {} /\ RamOk
         /\ op.p = None /\ used \cup scrub = Mapped /\ works \in Seq(Pebs \cup {WL})
<1>1. /\ On /\ wk.at = "none" /\ op.at \in {"flush", "produce"} /\ ~Moves /\ Hands = {} /\ RamOk
      /\ used \cup scrub = Mapped \cup (IF op.p = None THEN {} ELSE {op.p})
  BY AtOpOn
<1>2. op.p = None /\ ~Erases
  BY <1>1 DEF IInv, Calling, Erases
<1> QED BY <1>1, <1>2 DEF RamOk

LEMMA DoEraseKeeps == ASSUME IInv, DoErase PROVE IInv'
<1> DEFINE x == Head(works)
<1>0. /\ On /\ wk.at = "none" /\ op.at \in {"flush", "produce"} /\ ~Moves /\ Hands = {} /\ RamOk
      /\ op.p = None /\ used \cup scrub = Mapped /\ works \in Seq(Pebs \cup {WL})
  BY WorkStarts DEF DoErase
<1>1. /\ UNCHANGED <<peb, bad, up, eba, free, used, scrub, wls, sqnum, ro, rsvd, avail, op, hurt, ops>>
      /\ wk' = [NoWork EXCEPT !.at = "erase", !.p = x] /\ works' = Tail(works) /\ works # <<>> /\ x # WL
  BY DEF DoErase, flash, pools, count, budget
<1>2. /\ works' \in Seq(Pebs \cup {WL}) /\ x \in Pebs \cup {WL} /\ ToSet(works) = ToSet(works') \cup {x}
      /\ Once(works) => Once(works') /\ (x = WL \/ x \notin ToSet(works'))
  BY <1>0, <1>1, TailFacts
<1>3. Once(works)
  BY <1>0 DEF IInv, Shared
<1>4. Queued' = Queued \ {x} /\ x \in Queued /\ x \in Pebs /\ Once(works')
  BY <1>1, <1>2, <1>3 DEF Queued
<1> HIDE DEF x
<1>5. wk' \in WkState /\ wk'.at = "erase" /\ wk'.p = x /\ Hands' = {x} /\ ~Moves'
  BY <1>1, <1>4 DEF NoWork, WkState, None, Hands, Erases, Moves
<1>6. /\ FlashOk' /\ FailedOk' /\ Accounts' /\ up = "on" /\ up' = "on"
      /\ \A p \in Pebs : HasVid(p)' = HasVid(p) /\ Fresh(p)' = Fresh(p)
  BY <1>0, <1>1, Frame
<1>7. RamOk' /\ Still'
  BY <1>0, <1>1, <1>2, <1>5, <1>6 DEF RamOk, Still, On
<1>8. Numbered'
  BY <1>0, <1>1, <1>5, <1>6 DEF IInv, Numbered, FlashOk
<1>9. Linked' /\ Calling'
  BY <1>0, <1>1 DEF IInv, Linked, Calling, HasVid, Fresh, DataOf
<1>10. Doing'
  BY <1>0, <1>1, <1>4, <1>5 DEF Doing
<1>11. Shared'
  <2>1. /\ Apart(free, used, scrub, Hands, Queued)
        /\ free \cup used \cup scrub \cup Hands \cup Queued = Pebs \ bad
    BY <1>0 DEF IInv, Shared
  <2>2. Apart(free, used, scrub, Hands, Queued)'
    BY <1>0, <1>1, <1>4, <1>5, <2>1 DEF Apart
  <2>3. (free \cup used \cup scrub \cup Hands \cup Queued = Pebs \ bad)'
    BY <1>0, <1>1, <1>4, <1>5, <2>1
  <2>4. used' \cup scrub' = Mapped' /\ None \notin Mapped'
    BY <1>0, <1>1 DEF Mapped
  <2> QED BY <1>0, <1>1, <1>4, <1>5, <2>2, <2>3, <2>4 DEF Shared
<1> QED BY <1>6, <1>7, <1>8, <1>9, <1>10, <1>11 DEF IInv

LEMMA CancelWlKeeps == ASSUME IInv, CancelWl PROVE IInv'
<1>0. /\ On /\ wk.at = "none" /\ op.at \in {"flush", "produce"} /\ ~Moves /\ ~Erases /\ Hands = {} /\ RamOk
      /\ op.p = None /\ used \cup scrub = Mapped /\ works \in Seq(Pebs \cup {WL})
  BY WorkStarts DEF CancelWl
<1>1. /\ UNCHANGED <<peb, bad, up, eba, free, used, scrub, sqnum, ro, rsvd, avail, op, wk, hurt, ops>>
      /\ works' = Tail(works) /\ wls' = FALSE /\ works # <<>> /\ Head(works) = WL
  BY DEF CancelWl, flash, pools, count, budget
<1>2. /\ works' \in Seq(Pebs \cup {WL}) /\ ToSet(works) = ToSet(works') \cup {WL}
      /\ Once(works) => Once(works')
  BY <1>0, <1>1, TailFacts
<1>3. Queued' = Queued /\ Once(works')
  BY <1>0, <1>2 DEF Queued, IInv, Shared
<1>6. /\ FlashOk' /\ FailedOk' /\ Accounts' /\ up = "on" /\ up' = "on"
  BY <1>0, <1>1, Frame
<1>7. RamOk' /\ Still'
  BY <1>0, <1>1, <1>2, <1>6 DEF RamOk, Still, On
<1>8. Numbered' /\ Linked' /\ Calling'
  BY <1>0, <1>1 DEF IInv, Numbered, Linked, Calling, HasVid, Fresh, DataOf, On
<1>10. Doing'
  BY <1>0, <1>1 DEF Doing, Moves
<1>11. Shared'
  <2>1. Hands' = Hands /\ Moves' = Moves /\ Mapped' = Mapped
    BY <1>1 DEF Hands, Moves, Erases, Mapped
  <2> QED BY <1>0, <1>1, <1>3, <2>1 DEF IInv, Shared, Apart
<1> QED BY <1>6, <1>7, <1>8, <1>10, <1>11 DEF IInv

LEMMA DoMoveKeeps == ASSUME IInv, DoMove PROVE IInv'
<1>0. /\ On /\ wk.at = "none" /\ op.at = "flush" /\ ~Moves /\ ~Erases /\ Hands = {} /\ RamOk
      /\ op.p = None /\ used \cup scrub = Mapped /\ works \in Seq(Pebs \cup {WL})
  BY WorkStarts DEF DoMove, AtOp
<1>1. /\ UNCHANGED <<peb, bad, up, eba, rsvd, avail, hurt, ops>>
      /\ works' = Tail(works) /\ wls' = (wk'.at = "vid") /\ works # <<>> /\ Head(works) = WL /\ free # {}
  BY DEF DoMove, flash, count, budget
<1>2. PICK p \in IF scrub # {} THEN scrub ELSE used, q \in Picks :
       /\ used' = used \ {p} /\ scrub' = scrub \ {p} /\ free' = free \ {q}
       /\ \/ Fails(TRUE) /\ sqnum' = sqnum
          \/ /\ wk' = [at |-> "vid", p |-> p, q |-> q, n |-> 0, sq |-> sqnum, scr |-> scrub # {}]
             /\ sqnum' = sqnum + 1 /\ op' = op /\ ro' = ro
  BY DEF DoMove
<1>3. q \in free /\ q \in Pebs /\ p \in used \cup scrub /\ p \in Mapped /\ p \in Pebs
  <2>1. free \subseteq Pebs /\ used \subseteq Pebs /\ scrub \subseteq Pebs
    BY <1>0 DEF RamOk
  <2>2. q \in free
    BY <1>1, <2>1, PicksFree
  <2>3. p \in used \cup scrub
    BY <1>2
  <2> QED BY <1>0, <2>1, <2>2, <2>3
<1>4. /\ works' \in Seq(Pebs \cup {WL}) /\ ToSet(works) = ToSet(works') \cup {WL}
      /\ Once(works) => Once(works')
  BY <1>0, <1>1, TailFacts
<1>5. Queued' = Queued /\ Once(works')
  BY <1>0, <1>4 DEF Queued, IInv, Shared
<1>6. /\ FlashOk' /\ FailedOk' /\ Accounts' /\ up = "on" /\ up' = "on"
      /\ \A x \in Pebs : HasVid(x)' = HasVid(x) /\ Fresh(x)' = Fresh(x)
  BY <1>0, <1>1, Frame
<1>7. free' \subseteq Pebs /\ used' \subseteq Pebs /\ scrub' \subseteq Pebs /\ wls' \in BOOLEAN
  BY <1>0, <1>1, <1>2 DEF RamOk
<1>8. CASE Fails(TRUE) /\ sqnum' = sqnum
  <2>1. op' = Idle("err") /\ ro' = TRUE /\ wk' = NoWork
    BY <1>0, <1>8 DEF Fails
  <2>2. op' \in OpState /\ op'.at = "idle" /\ wk' \in WkState /\ wk'.at = "none"
    BY <2>1, IdleOp, NoWorkOk
  <2>3. RamOk'
    BY <1>0, <1>1, <1>4, <1>7, <1>8, <2>1, <2>2 DEF RamOk
  <2> QED BY <1>6, <2>1, <2>2, <2>3, GivenUp
<1>9. CASE /\ wk' = [at |-> "vid", p |-> p, q |-> q, n |-> 0, sq |-> sqnum, scr |-> scrub # {}]
           /\ sqnum' = sqnum + 1 /\ op' = op /\ ro' = ro
  <2>1. sqnum \in Nat /\ sqnum' \in Nat /\ sqnum < sqnum'
    BY <1>0, <1>9 DEF RamOk
  <2>2. wk' \in WkState /\ wk'.at = "vid" /\ wk'.p = p /\ wk'.q = q /\ wk'.sq = sqnum
    BY <1>3, <1>9, <2>1 DEF WkState
  <2>3. RamOk' /\ Still'
    BY <1>0, <1>1, <1>4, <1>6, <1>7, <1>9, <2>1, <2>2 DEF RamOk, Still, On
  <2>4. HasVid(p) /\ eba[peb[p].vid.l] = p /\ Fresh(q)
    BY <1>0, <1>3 DEF IInv, Linked, Mapped
  <2>5. Hands' = {p, q} /\ Moves' /\ Mapped' = Mapped
    BY <1>1, <2>2 DEF Hands, Moves, Erases, Mapped
  <2>6. /\ Apart(free, used, scrub, Hands, Queued)
        /\ free \cup used \cup scrub \cup Hands \cup Queued = Pebs \ bad
    BY <1>0 DEF IInv, Shared
  <2>7. p # q
    BY <1>3, <2>6 DEF Apart
  <2>8. Numbered'
    <3>1. ASSUME NEW x \in Pebs \ bad, HasVid(x)
          PROVE  peb[x].vid.sq < sqnum' /\ peb[x].vid.sq # sqnum
      <4> DEFINE a == peb[x].vid.sq
      <4>1. a < sqnum /\ a \in Nat
        BY <1>0, <3>1, PebFacts DEF IInv, Numbered
      <4> HIDE DEF a
      <4>2. a < sqnum' /\ a # sqnum
        BY <2>1, <4>1
      <4> QED BY <4>2 DEF a
    <3> QED BY <1>0, <1>1, <1>9, <2>1, <2>2, <3>1 DEF Numbered, HasVid
  <2>9. Linked' /\ Calling'
    BY <1>0, <1>1, <1>2, <1>9 DEF IInv, Linked, Calling, HasVid, Fresh, DataOf
  <2>10. Doing'
    BY <1>0, <1>1, <1>3, <1>9, <2>2, <2>4, <2>7 DEF Doing, HasVid, Fresh
  <2>11. Shared'
    <3>1. Apart(free, used, scrub, Hands, Queued)'
      BY <1>0, <1>2, <1>3, <1>5, <2>5, <2>6 DEF Apart
    <3>2. (free \cup used \cup scrub \cup Hands \cup Queued = Pebs \ bad)'
      BY <1>0, <1>1, <1>2, <1>3, <1>5, <2>5, <2>6
    <3>3. used' \cup scrub' \cup {p} = Mapped' /\ None \notin Mapped'
      BY <1>0, <1>2, <1>3, <2>5 DEF Mapped
    <3> QED BY <1>0, <1>5, <1>9, <2>2, <2>5, <3>1, <3>2, <3>3 DEF Shared
  <2> QED BY <1>6, <2>3, <2>8, <2>9, <2>10, <2>11 DEF IInv
<1> QED BY <1>2, <1>8, <1>9

\* The work under way, on an eraseblock that no table holds.
LEMMA Erased ==
  ASSUME IInv, up = "on", Erases, Written(peb', wk.p),
         peb'[wk.p].vid.st = "ok" => peb'[wk.p].vid = peb[wk.p].vid,
         UNCHANGED <<bad, up, eba, free, used, scrub, works, wls, sqnum, ro, rsvd, avail, op, hurt, ops>>,
         wk' \in WkState, wk'.p = wk.p, wk'.at \in {"ec", "mark"},
         wk'.at = "ec" => peb'[wk.p].vid = NoVid
  PROVE  IInv'
<1> DEFINE d == wk.p
<1>0. /\ On /\ op.at \in {"flush", "produce"} /\ op.p = None /\ RamOk /\ FlashOk
      /\ d \in Pebs \ bad /\ d \notin free /\ d \notin used /\ d \notin scrub
  BY WorkOn DEF Erases
<1>1. /\ FlashOk' /\ FailedOk' /\ Accounts' /\ up = "on" /\ up' = "on"
      /\ \A p \in Pebs : p # d => peb'[p] = peb[p] /\ HasVid(p)' = HasVid(p) /\ Fresh(p)' = Fresh(p)
  BY <1>0, WrittenFrame
<1>2. ~Moves /\ ~Moves' /\ Hands' = Hands
  BY DEF Hands, Moves, Erases
<1>3. d \notin Mapped
  BY <1>0, <1>2 DEF IInv, Shared
<1>4. RamOk' /\ Still'
  BY <1>0, <1>1 DEF RamOk, Still, On
<1>5. \A p \in Pebs \ bad : peb'[p].vid.st = "ok" => peb'[p].vid = peb[p].vid /\ HasVid(p)
  <2> SUFFICES ASSUME NEW p \in Pebs \ bad, peb'[p].vid.st = "ok"
               PROVE  peb'[p].vid = peb[p].vid /\ HasVid(p)
    OBVIOUS
  <2>1. peb'[p].vid = peb[p].vid
    BY <1>1
  <2> QED BY <2>1 DEF HasVid
<1>6. Numbered'
  BY <1>0, <1>5 DEF IInv, Numbered, HasVid
<1>7. Linked'
  <2>1. ASSUME NEW j \in Lebs, eba[j] # None PROVE peb'[eba[j]] = peb[eba[j]]
    <3>1. eba[j] # d /\ eba[j] \in Pebs
      BY <1>0, <1>3, <2>1 DEF Mapped, RamOk
    <3> QED BY <1>1, <3>1
  <2>2. \A p \in free : Fresh(p)'
    BY <1>0, <1>1 DEF IInv, Linked, RamOk
  <2> QED BY <1>0, <2>1, <2>2 DEF IInv, Linked, HasVid
<1>8. Calling'
  BY <1>0 DEF IInv, Calling
<1>9. Doing'
  BY <1>0, <1>2 DEF Doing
<1>10. Shared'
  BY <1>0, <1>2 DEF IInv, Shared, Apart, Queued, Mapped
<1> QED BY <1>1, <1>4, <1>6, <1>7, <1>8, <1>9, <1>10 DEF IInv

LEMMA EraseOkKeeps == ASSUME IInv, EraseOk PROVE IInv'
<1>0. up = "on" /\ wk.at = "erase" /\ Erases /\ wk \in WkState /\ On
  BY NowOn DEF EraseOk, Working, Erases, IInv, RamOk
<1>1. /\ peb' = Done /\ wk' = [wk EXCEPT !.at = "ec"]
      /\ UNCHANGED <<bad, up, eba, free, used, scrub, works, wls, sqnum, ro, rsvd, avail, op, hurt, ops>>
  BY DEF EraseOk, pools, count, budget
<1>2. wk' \in WkState /\ wk'.p = wk.p /\ wk'.at = "ec"
  BY <1>0, <1>1 DEF WkState
<1>3. Written(peb', wk.p) /\ peb'[wk.p].vid = NoVid
  <2>1. Done \in Half \cup {Done}
    OBVIOUS
  <2> QED BY <1>0, <1>1, <2>1, EraseFlash
<1>4. peb'[wk.p].vid.st # "ok"
  BY <1>3 DEF NoVid
<1> QED BY <1>0, <1>1, <1>2, <1>3, <1>4, Erased

LEMMA EraseFailKeeps == ASSUME IInv, EraseFail PROVE IInv'
<1>0. up = "on" /\ wk.at \in {"erase", "ec"} /\ Erases /\ wk \in WkState /\ On
  BY NowOn DEF EraseFail, Working, Erases, IInv, RamOk
<1>1. /\ peb' \in Half /\ wk' = [wk EXCEPT !.at = "mark"]
      /\ UNCHANGED <<bad, up, eba, free, used, scrub, works, wls, sqnum, ro, rsvd, avail, op, hurt, ops>>
  BY DEF EraseFail, pools, count
<1>2. wk' \in WkState /\ wk'.p = wk.p /\ wk'.at = "mark"
  BY <1>0, <1>1 DEF WkState
<1>3. Written(peb', wk.p) /\ (peb'[wk.p].vid.st = "ok" => peb'[wk.p].vid = peb[wk.p].vid)
  <2>1. peb' \in Half \cup {Done} /\ NoVid.st # "ok"
    BY <1>1 DEF NoVid
  <2>2. CASE wk.at = "erase"
    BY <1>0, <2>1, <2>2, EraseFlash
  <2>3. CASE wk.at = "ec"
    BY <1>0, <2>1, <2>3, EcFlash
  <2> QED BY <1>0, <2>2, <2>3
<1> QED BY <1>0, <1>1, <1>2, <1>3, Erased

LEMMA EcOkKeeps == ASSUME IInv, EcOk PROVE IInv'
<1> DEFINE d == wk.p
<1>0. /\ On /\ op.at \in {"flush", "produce"} /\ op.p = None /\ RamOk /\ FlashOk /\ wk.at = "ec" /\ up = "on"
      /\ d \in Pebs \ bad /\ d \notin free /\ d \notin used /\ d \notin scrub /\ d \notin Queued /\ Erases
  BY WorkOn DEF EcOk, Working, Erases
<1>1. /\ peb' = Done /\ wk' = NoWork /\ free' = free \cup {d} /\ EnsureWl(wls, works)
      /\ UNCHANGED <<bad, up, eba, used, scrub, sqnum, ro, rsvd, avail, op, hurt, ops>>
  BY DEF EcOk, count
<1>2. Written(peb', d) /\ peb'[d].vid = NoVid /\ peb'[d].ec = "ok"
  <2>1. Done \in Half \cup {Done}
    OBVIOUS
  <2> QED BY <1>0, <1>1, <2>1, EcFlash
<1>3. /\ FlashOk' /\ FailedOk' /\ Accounts' /\ up = "on" /\ up' = "on"
      /\ \A p \in Pebs : p # d => peb'[p] = peb[p] /\ HasVid(p)' = HasVid(p) /\ Fresh(p)' = Fresh(p)
  BY <1>0, <1>1, <1>2, WrittenFrame
<1>4. /\ works' \in Seq(Pebs \cup {WL}) /\ wls' \in BOOLEAN /\ Queued' = Queued
      /\ Once(works) => Once(works')
  <2>1. works \in Seq(Pebs \cup {WL}) /\ wls \in BOOLEAN
    BY <1>0 DEF RamOk
  <2> QED BY <1>1, <2>1, EnsureFacts DEF Queued
<1>5. /\ ~Moves /\ ~Moves' /\ Hands' = {} /\ Hands = {d} /\ wk' \in WkState /\ wk'.at = "none"
      /\ Mapped' = Mapped
  BY <1>0, <1>1, NoWorkOk DEF Hands, Moves, Erases, Mapped
<1> HIDE DEF d
<1>6. d \notin Mapped
  BY <1>0, <1>5 DEF IInv, Shared
<1>7. RamOk' /\ Still'
  <2>1. free' \subseteq Pebs
    BY <1>0, <1>1 DEF RamOk
  <2> QED BY <1>0, <1>1, <1>3, <1>4, <1>5, <2>1 DEF RamOk, Still, On
<1>8. \A p \in Pebs \ bad : peb'[p].vid.st = "ok" => peb'[p].vid = peb[p].vid /\ HasVid(p)
  <2> SUFFICES ASSUME NEW p \in Pebs \ bad, peb'[p].vid.st = "ok"
               PROVE  peb'[p].vid = peb[p].vid /\ HasVid(p)
    OBVIOUS
  <2>1. peb'[p].vid = peb[p].vid
    BY <1>2, <1>3 DEF NoVid
  <2> QED BY <2>1 DEF HasVid
<1>9. Numbered'
  BY <1>0, <1>1, <1>5, <1>8 DEF IInv, Numbered, HasVid
<1>10. Linked'
  <2>1. ASSUME NEW j \in Lebs, eba[j] # None PROVE peb'[eba[j]] = peb[eba[j]]
    <3>1. eba[j] # d /\ eba[j] \in Pebs
      BY <1>0, <1>6, <2>1 DEF Mapped, RamOk
    <3> QED BY <1>3, <3>1
  <2>2. ASSUME NEW p \in free' PROVE peb'[p].vid = NoVid /\ peb'[p].ec # "none"
    <3>1. CASE p = d
      BY <1>2, <3>1
    <3>2. CASE p # d
      <4>1. p \in free /\ p \in Pebs
        BY <1>0, <1>1, <3>2 DEF RamOk
      <4> QED BY <1>0, <1>3, <3>2, <4>1 DEF IInv, Linked, Fresh
    <3> QED BY <3>1, <3>2
  <2> QED BY <1>0, <1>1, <2>1, <2>2 DEF IInv, Linked, HasVid, Fresh
<1>11. Calling' /\ Doing'
  BY <1>0, <1>1, <1>5 DEF IInv, Calling, Doing
<1>12. Shared'
  <2>1. /\ Apart(free, used, scrub, Hands, Queued) /\ Once(works)
        /\ free \cup used \cup scrub \cup Hands \cup Queued = Pebs \ bad
        /\ used \cup scrub = Mapped /\ None \notin Mapped
    BY <1>0, <1>5 DEF IInv, Shared, Mapped
  <2>2. Apart(free, used, scrub, Hands, Queued)'
    BY <1>0, <1>1, <1>4, <1>5, <2>1 DEF Apart
  <2>3. (free \cup used \cup scrub \cup Hands \cup Queued = Pebs \ bad)'
    BY <1>0, <1>1, <1>4, <1>5, <2>1
  <2> QED BY <1>0, <1>1, <1>4, <1>5, <2>1, <2>2, <2>3 DEF Shared
<1> QED BY <1>3, <1>7, <1>9, <1>10, <1>11, <1>12 DEF IInv

LEMMA MarkBadKeeps == ASSUME IInv, MarkBad PROVE IInv'
<1> DEFINE d == wk.p
           r == Refill
<1>0. /\ On /\ op.at \in {"flush", "produce"} /\ op.p = None /\ RamOk /\ FlashOk /\ wk.at = "mark" /\ up = "on"
      /\ d \in Pebs \ bad /\ d \notin free /\ d \notin used /\ d \notin scrub /\ d \notin Queued /\ Erases
  BY WorkOn DEF MarkBad, Working, Erases
<1>1. /\ UNCHANGED <<peb, up, eba, free, used, scrub, works, wls, sqnum, hurt, ops>> /\ avail' = avail - r
      /\ \/ Fails(TRUE) /\ bad' = bad /\ rsvd' = rsvd
         \/ /\ rsvd + r # 0 /\ bad' = bad \cup {d} /\ rsvd' = rsvd + r - 1
            /\ wk' = NoWork /\ op' = op /\ ro' = ro
  BY DEF MarkBad, pools, budget
<1>2. rsvd \in Nat /\ avail \in Nat /\ Level \in Nat /\ NumPebs \in Nat
      /\ rsvd <= NumPebs /\ avail <= NumPebs /\ rsvd + avail = Spare /\ Spare \in Nat /\ Spare <= NumPebs
  BY <1>0, UbiAssumption, SpareFacts DEF RamOk, IInv, Accounts
<1>3. r \in Nat /\ r <= avail
  BY <1>2 DEF Refill
<1> HIDE DEF r
<1>4. avail' \in Nat /\ avail' <= NumPebs
  BY <1>1, <1>2, <1>3
<1>5. wk'.at = "none" /\ wk' \in WkState
  BY <1>1, NoWorkOk DEF Fails
<1>6. CASE Fails(TRUE) /\ bad' = bad /\ rsvd' = rsvd
  <2>1. op' = Idle("err") /\ ro' = TRUE
    BY <1>0, <1>6 DEF Fails
  <2>2. op' \in OpState /\ op'.at = "idle"
    BY <2>1, IdleOp
  <2>3. FlashOk'
    BY <1>0, <1>1, <1>6, FlashSame DEF flash
  <2>4. RamOk'
    BY <1>0, <1>1, <1>2, <1>4, <1>5, <1>6, <2>1, <2>2 DEF RamOk
  <2> QED BY <1>0, <1>1, <1>5, <2>1, <2>2, <2>3, <2>4, GivenUp
<1>7. CASE /\ rsvd + r # 0 /\ bad' = bad \cup {d} /\ rsvd' = rsvd + r - 1
           /\ wk' = NoWork /\ op' = op /\ ro' = ro
  <2>1. rsvd' \in Nat /\ rsvd' <= NumPebs /\ rsvd' + avail' = Spare - 1 /\ Spare >= 1
    BY <1>1, <1>2, <1>3, <1>7
  <2>2. Good' = Good - 1 /\ Good \in Nat
    <3>1. IsFiniteSet(bad)
      <4>1. IsFiniteSet(Pebs) /\ bad \subseteq Pebs
        BY <1>0, <1>2, FS_Interval DEF Pebs, FlashOk
      <4> QED BY <4>1, FS_Subset
    <3>2. Cardinality(bad') = Cardinality(bad) + 1 /\ Cardinality(bad) \in Nat
      BY <1>0, <1>7, <3>1, FS_AddElement, FS_CardinalityType
    <3>3. Good \in Nat
      BY <1>0, SpareFacts
    <3> QED BY <1>2, <3>2, <3>3 DEF Good
  <2>3. Accounts' /\ Good' >= Cardinality(Lebs) + 2
    <3>1. Good = Cardinality(Lebs) + 2 + Spare /\ Cardinality(Lebs) \in Nat
      BY <1>0, SpareFacts
    <3>2. Spare' = Good' - Cardinality(Lebs) - 2
      BY DEF Spare
    <3>3. rsvd' + avail' = Spare' /\ Good' >= Cardinality(Lebs) + 2
      BY <1>2, <2>1, <2>2, <3>1, <3>2
    <3> QED BY <3>3 DEF Accounts
  <2>4. FlashOk'
    BY <1>0, <1>1, <1>7, <2>3 DEF FlashOk, HasVid
  <2>5. RamOk' /\ Still' /\ FailedOk'
    BY <1>0, <1>1, <1>4, <1>5, <1>7, <2>1 DEF RamOk, Still, FailedOk, On
  <2>6. Numbered' /\ Linked'
    BY <1>0, <1>1, <1>5, <1>7 DEF IInv, Numbered, Linked, HasVid, Fresh
  <2>7. Calling' /\ Doing'
    BY <1>0, <1>1, <1>5, <1>7 DEF IInv, Calling, Doing, Moves
  <2>8. Shared'
    <3>1. ~Moves /\ ~Moves' /\ Hands' = {} /\ Hands = {d} /\ Mapped' = Mapped /\ Queued' = Queued
      BY <1>0, <1>1, <1>5 DEF Hands, Moves, Erases, Mapped, Queued
    <3> HIDE DEF d
    <3>2. /\ Apart(free, used, scrub, Hands, Queued) /\ Once(works)
          /\ free \cup used \cup scrub \cup Hands \cup Queued = Pebs \ bad
          /\ used \cup scrub = Mapped /\ None \notin Mapped
      BY <1>0, <3>1 DEF IInv, Shared, Mapped
    <3>3. Apart(free, used, scrub, Hands, Queued)'
      BY <1>0, <1>1, <3>1, <3>2 DEF Apart
    <3>4. (free \cup used \cup scrub \cup Hands \cup Queued = Pebs \ bad)'
      BY <1>0, <1>1, <1>7, <3>1, <3>2
    <3> QED BY <1>0, <1>1, <1>7, <3>1, <3>2, <3>3, <3>4 DEF Shared
  <2> QED BY <2>3, <2>4, <2>5, <2>6, <2>7, <2>8 DEF IInv
<1> QED BY <1>1, <1>6, <1>7

\* An eraseblock is being moved: the one it is copied to is mapped to nothing.
LEMMA MoveOn ==
  ASSUME IInv, up = "on", Moves
  PROVE  /\ On /\ op.at = "flush" /\ op.p = None /\ RamOk /\ wk \in WkState /\ ~Erases
         /\ Hands = {wk.p, wk.q} /\ wk.p \in Pebs \ bad /\ wk.q \in Pebs \ bad /\ wk.p # wk.q
         /\ HasVid(wk.p) /\ eba[peb[wk.p].vid.l] = wk.p /\ peb[wk.p].vid.l \in Lebs
         /\ wk.p \in Mapped /\ wk.q \notin Mapped
         /\ wk.p \notin Queued /\ wk.q \notin Queued /\ wk.q \notin free /\ wk.p \notin free
         /\ wk.q \notin used /\ wk.q \notin scrub /\ wk.p \notin used /\ wk.p \notin scrub
<1>1. wk.at # "none" /\ ~Erases
  BY DEF Moves, Erases
<1>2. /\ On /\ op.p = None /\ RamOk /\ FlashOk /\ wk \in WkState /\ wk.p \in Pebs \ bad
      /\ wk.q \in Pebs \ bad /\ wk.p # wk.q
  BY <1>1, WorkOn
<1>3. op.at = "flush" /\ HasVid(wk.p) /\ eba[peb[wk.p].vid.l] = wk.p
  BY <1>2 DEF IInv, Doing
<1>4. peb[wk.p].vid.l \in Lebs
  BY <1>2, <1>3, PebFacts
<1>5. Hands = {wk.p, wk.q}
  BY <1>1 DEF Hands
<1>6. /\ wk.p \notin Queued /\ wk.q \notin Queued /\ wk.q \notin free /\ wk.p \notin free
      /\ wk.q \notin used /\ wk.q \notin scrub /\ wk.p \notin used /\ wk.p \notin scrub
  BY <1>2, <1>5 DEF IInv, Shared, Apart
<1>7. used \cup scrub \cup {wk.p} = Mapped
  BY <1>2 DEF IInv, Shared
<1> QED BY <1>1, <1>2, <1>3, <1>4, <1>5, <1>6, <1>7

\* The header or a page of the copy is written.
LEMMA Copied ==
  ASSUME IInv, up = "on", wk.at \in {"vid", "data"}, Written(peb', wk.q),
         UNCHANGED <<bad, up, eba, free, used, scrub, works, wls, sqnum, ro, rsvd, avail, op, hurt, ops>>,
         HasVid(wk.q)', peb'[wk.q].vid.l = peb[wk.p].vid.l, peb'[wk.q].vid.sq < sqnum,
         wk' \in WkState, wk'.p = wk.p, wk'.q = wk.q, wk'.at \in {"data", "moved"},
         wk'.at = "data" => Len(peb'[wk.q].data) = wk'.n /\ wk'.n < Len(peb[wk.p].data)
  PROVE  IInv'
<1>1. Moves /\ Moves'
  BY DEF Moves
<1>2. /\ On /\ op.at = "flush" /\ op.p = None /\ RamOk /\ ~Erases
      /\ wk.p \in Pebs \ bad /\ wk.q \in Pebs \ bad /\ wk.p # wk.q
      /\ HasVid(wk.p) /\ eba[peb[wk.p].vid.l] = wk.p /\ wk.q \notin Mapped /\ wk.q \notin free
  BY <1>1, MoveOn
<1>3. /\ FlashOk' /\ FailedOk' /\ Accounts' /\ up = "on" /\ up' = "on"
      /\ \A p \in Pebs : p # wk.q => peb'[p] = peb[p] /\ HasVid(p)' = HasVid(p) /\ Fresh(p)' = Fresh(p)
  BY <1>2, WrittenFrame
<1>4. RamOk' /\ Still'
  BY <1>2, <1>3 DEF RamOk, Still, On
<1>5. Numbered'
  <2>1. ASSUME NEW p \in Pebs \ bad, HasVid(p)' PROVE peb'[p].vid.sq < sqnum
    BY <1>2, <1>3, <2>1 DEF IInv, Numbered
  <2> QED BY <1>2, <2>1 DEF Numbered, HasVid
<1>6. Linked'
  <2>1. ASSUME NEW j \in Lebs, eba[j] # None PROVE peb'[eba[j]] = peb[eba[j]]
    <3>1. eba[j] # wk.q /\ eba[j] \in Pebs
      BY <1>2, <2>1 DEF Mapped, RamOk
    <3> QED BY <1>3, <3>1
  <2>2. \A p \in free : Fresh(p)'
    BY <1>2, <1>3 DEF IInv, Linked, RamOk
  <2> QED BY <1>2, <2>1, <2>2 DEF IInv, Linked, HasVid
<1>7. Calling'
  BY <1>2 DEF IInv, Calling
<1>8. Doing'
  BY <1>1, <1>2, <1>3 DEF Doing, HasVid
<1>9. Shared'
  <2>1. Hands' = Hands /\ Mapped' = Mapped /\ Queued' = Queued
    BY <1>1, <1>2 DEF Hands, Moves, Erases, Mapped, Queued
  <2> QED BY <1>1, <1>2, <2>1 DEF IInv, Shared, Apart
<1> QED BY <1>3, <1>4, <1>5, <1>6, <1>7, <1>8, <1>9 DEF IInv

LEMMA MoveVidKeeps == ASSUME IInv, MoveVid PROVE IInv'
<1>0. up = "on" /\ wk.at = "vid" /\ Moves /\ On /\ RamOk /\ wk \in WkState /\ wk.p \in Pebs
  BY MoveOn DEF MoveVid, Working, Moves
<1>1. /\ peb' = Done /\ wk' = [wk EXCEPT !.at = IF peb[wk.p].data = <<>> THEN "moved" ELSE "data"]
      /\ UNCHANGED <<bad, up, eba, free, used, scrub, works, wls, sqnum, ro, rsvd, avail, op, hurt, ops>>
  BY DEF MoveVid, pools, count, budget
<1>2. Done \in Half \cup {Done}
  OBVIOUS
<1>3. /\ Written(peb', wk.q) /\ peb'[wk.q].data = <<>> /\ peb'[wk.q].vid.st = "ok"
      /\ peb'[wk.q].vid.sq = wk.sq /\ peb'[wk.q].vid.l = peb[wk.p].vid.l
  BY <1>0, <1>1, <1>2, MoveVidFlash
<1>4. wk.sq < sqnum /\ wk.n = 0
  BY <1>0 DEF IInv, Numbered, Doing
<1>5. wk' \in WkState /\ wk'.p = wk.p /\ wk'.q = wk.q /\ wk'.n = 0 /\ wk'.at \in {"data", "moved"}
  BY <1>0, <1>1, <1>4 DEF WkState
<1>6. ASSUME wk'.at = "data" PROVE Len(peb'[wk.q].data) = wk'.n /\ wk'.n < Len(peb[wk.p].data)
  <2>1. peb[wk.p].data # <<>>
    BY <1>0, <1>1, <1>6 DEF WkState
  <2>2. peb[wk.p].data \in Seq(Nat)
    BY <1>0, PebFacts DEF IInv
  <2>3. Len(<<>>) = 0 /\ (peb[wk.p].data # <<>> => 0 < Len(peb[wk.p].data))
    BY <2>2
  <2> QED BY <1>3, <1>5, <2>1, <2>3
<1>7. HasVid(wk.q)' /\ peb'[wk.q].vid.sq < sqnum
  BY <1>3, <1>4, <1>5 DEF HasVid
<1> QED BY <1>0, <1>1, <1>3, <1>5, <1>6, <1>7, Copied

LEMMA MovePageKeeps == ASSUME IInv, MovePage PROVE IInv'
<1> DEFINE m == wk.n + 1
           k == Len(peb[wk.p].data)
<1>0. /\ up = "on" /\ wk.at = "data" /\ Moves /\ On /\ RamOk /\ wk \in WkState /\ wk.p \in Pebs
      /\ wk.q \in Pebs \ bad
  BY MoveOn DEF MovePage, Working, Moves
<1>1. /\ peb' = Done /\ wk' = [wk EXCEPT !.n = m, !.at = IF m = k THEN "moved" ELSE @]
      /\ UNCHANGED <<bad, up, eba, free, used, scrub, works, wls, sqnum, ro, rsvd, avail, op, hurt, ops>>
  BY DEF MovePage, pools, count, budget
<1>2. Done \in Half \cup {Done}
  OBVIOUS
<1>3. Written(peb', wk.q) /\ peb'[wk.q].vid = peb[wk.q].vid /\ Len(peb'[wk.q].data) = m
  BY <1>0, <1>1, <1>2, MovePageFlash
<1>4. HasVid(wk.q) /\ peb[wk.q].vid.l = peb[wk.p].vid.l /\ wk.n < k
  BY <1>0 DEF IInv, Doing
<1>5. peb[wk.q].vid.sq < sqnum
  BY <1>0, <1>4 DEF IInv, Numbered
<1>6. m \in Nat /\ k \in Nat /\ m <= k
  BY <1>0, <1>4, PebFacts DEF IInv, WkState
<1> HIDE DEF m, k
<1>7. /\ wk' \in WkState /\ wk'.p = wk.p /\ wk'.q = wk.q /\ wk'.n = m
      /\ wk'.at = IF m = k THEN "moved" ELSE "data"
  BY <1>0, <1>1, <1>6 DEF WkState
<1>8. wk'.at = "data" => m < k
  BY <1>6, <1>7
<1>9. wk'.at = "data" => Len(peb'[wk.q].data) = wk'.n /\ wk'.n < Len(peb[wk.p].data)
  BY <1>3, <1>7, <1>8 DEF k
<1>10. HasVid(wk.q)' /\ peb'[wk.q].vid.sq < sqnum /\ peb'[wk.q].vid.l = peb[wk.p].vid.l
  BY <1>3, <1>4, <1>5, <1>7 DEF HasVid
<1> QED BY <1>0, <1>1, <1>3, <1>7, <1>9, <1>10, Copied

LEMMA MoveFailKeeps == ASSUME IInv, MoveFail PROVE IInv'
<1>0. up = "on" /\ Moves /\ RamOk
  BY MoveOn DEF MoveFail, Working, Moves
<1>1. /\ peb' \in Half /\ op' = Idle("err") /\ wk' = NoWork /\ wls' = FALSE /\ ro' = TRUE
      /\ UNCHANGED <<bad, up, eba, free, used, scrub, works, sqnum, rsvd, avail, hurt, ops>>
  BY <1>0 DEF MoveFail, Fails, pools, count
<1>2. op' \in OpState /\ op'.at = "idle" /\ wk' \in WkState /\ wk'.at = "none"
  BY <1>1, IdleOp, NoWorkOk
<1>3. FlashOk'
  BY <1>0, <1>1, HalfFlash
<1>4. RamOk'
  BY <1>0, <1>1, <1>2 DEF RamOk
<1> QED BY <1>0, <1>1, <1>2, <1>3, <1>4, GivenUp

\* The move ends: the work is done and one of the two goes into the works.
LEMMA MoveEnds ==
  ASSUME IInv, On, Moves, op.at = "flush", op.p = None, UNCHANGED <<peb, bad, up, free, sqnum, ro, rsvd, avail, op, hurt, ops>>,
         wk' = NoWork, wls' = FALSE, eba' \in [Lebs -> Pebs \cup {None}],
         \A l \in Lebs : eba'[l] # None => HasVid(eba'[l]) /\ peb[eba'[l]].vid.l = l,
         used' \subseteq Pebs, scrub' \subseteq Pebs, works' \in Seq(Pebs \cup {WL}), Shared'
  PROVE  IInv'
<1>1. /\ FlashOk' /\ FailedOk' /\ Accounts' /\ up = "on" /\ up' = "on"
      /\ \A p \in Pebs : HasVid(p)' = HasVid(p) /\ Fresh(p)' = Fresh(p)
  BY Frame
<1>2. wk' \in WkState /\ wk'.at = "none"
  BY NoWorkOk
<1>3. RamOk' /\ Still'
  BY <1>1, <1>2 DEF IInv, RamOk, Still, On
<1>4. Numbered'
  BY <1>2 DEF IInv, Numbered, HasVid
<1>5. Linked'
  <2>1. \A p \in free : Fresh(p)'
    BY <1>1 DEF IInv, Linked, RamOk
  <2> QED BY <2>1 DEF Linked, HasVid
<1>6. Calling' /\ Doing'
  BY <1>2 DEF IInv, Calling, Doing, Moves
<1> QED BY <1>1, <1>3, <1>4, <1>5, <1>6 DEF IInv

LEMMA MovedKeeps == ASSUME IInv, Moved PROVE IInv'
<1> DEFINE l == peb[wk.p].vid.l
           p == wk.p
           q == wk.q
<1>0. up = "on" /\ wk.at = "moved" /\ Moves
  BY DEF Moved, Working, Moves
<1>1. /\ On /\ op.at = "flush" /\ op.p = None /\ RamOk /\ ~Erases
      /\ Hands = {p, q} /\ p \in Pebs \ bad /\ q \in Pebs \ bad /\ p # q
      /\ HasVid(p) /\ eba[l] = p /\ l \in Lebs /\ p \in Mapped /\ q \notin Mapped
      /\ p \notin Queued /\ q \notin Queued
  BY <1>0, MoveOn
<1>2. HasVid(q) /\ peb[q].vid.l = l
  BY <1>0, <1>1 DEF IInv, Doing
<1>3. /\ eba' = Remap(l, q) /\ used' = used \cup {q} /\ works' = Append(works, p)
      /\ wk' = NoWork /\ wls' = FALSE
      /\ UNCHANGED <<peb, bad, up, free, scrub, sqnum, ro, rsvd, avail, op, hurt, ops>>
  BY DEF Moved, Remap, flash, count, budget
<1> HIDE DEF l, p, q
<1>4. /\ eba' \in [Lebs -> Pebs \cup {None}] /\ eba'[l] = q
      /\ \A k \in Lebs : k # l => eba'[k] = eba[k]
      /\ Mapped' = (Mapped \ {p}) \cup {q} /\ None \notin Mapped
  <2>1. q \in Pebs \cup {None} /\ q # None
    BY <1>1 DEF Pebs, None
  <2>2. /\ eba' \in [Lebs -> Pebs \cup {None}] /\ eba'[l] = q
        /\ \A k \in Lebs : k # l => eba'[k] = eba[k]
        /\ Mapped' = (Mapped \ {eba[l]}) \cup ({q} \ {None})
    BY <1>1, <1>3, <2>1, MappedNext
  <2> QED BY <1>1, <2>1, <2>2 DEF Mapped
<1>5. works' \in Seq(Pebs \cup {WL}) /\ Queued' = Queued \cup {p} /\ (Once(works) => Once(works'))
  <2>1. works' = works \o <<p>>
    BY <1>1, <1>3 DEF RamOk
  <2> QED BY <1>1, <2>1, QueueFacts
<1>6. \A j \in Lebs : eba'[j] # None => HasVid(eba'[j]) /\ peb[eba'[j]].vid.l = j
  <2> SUFFICES ASSUME NEW j \in Lebs, eba'[j] # None PROVE HasVid(eba'[j]) /\ peb[eba'[j]].vid.l = j
    OBVIOUS
  <2>1. CASE j = l
    BY <1>2, <1>4, <2>1
  <2>2. CASE j # l
    BY <1>1, <1>4, <2>2 DEF IInv, Linked
  <2> QED BY <2>1, <2>2
<1>7. Shared'
  <2>1. wk'.at = "none" /\ Hands' = {} /\ ~Moves'
    BY <1>3, NoWorkOk DEF Hands, Moves, Erases
  <2>2. /\ Apart(free, used, scrub, Hands, Queued) /\ Once(works)
        /\ free \cup used \cup scrub \cup Hands \cup Queued = Pebs \ bad
        /\ used \cup scrub \cup {p} = Mapped
    BY <1>0, <1>1 DEF IInv, Shared, p
  <2>3. Apart(free, used, scrub, Hands, Queued)'
    BY <1>1, <1>3, <1>5, <2>1, <2>2 DEF Apart
  <2>4. (free \cup used \cup scrub \cup Hands \cup Queued = Pebs \ bad)'
    BY <1>1, <1>3, <1>5, <2>1, <2>2
  <2>5. used' \cup scrub' = Mapped' /\ None \notin Mapped'
    <3>1. p \notin used /\ p \notin scrub
      BY <1>1, <2>2 DEF Apart
    <3> QED BY <1>1, <1>3, <1>4, <2>2, <3>1 DEF Pebs, None
  <2> QED BY <1>1, <1>3, <1>5, <2>1, <2>2, <2>3, <2>4, <2>5 DEF Shared
<1>8. used' \subseteq Pebs /\ scrub' \subseteq Pebs
  BY <1>1, <1>3 DEF RamOk
<1> QED BY <1>0, <1>1, <1>3, <1>4, <1>5, <1>6, <1>7, <1>8, MoveEnds

LEMMA NotMovedKeeps == ASSUME IInv, NotMoved PROVE IInv'
<1> DEFINE p == wk.p
           q == wk.q
<1>0. up = "on" /\ wk.at = "moved" /\ Moves
  BY DEF NotMoved, Working, Moves
<1>1. /\ On /\ op.at = "flush" /\ op.p = None /\ RamOk /\ ~Erases
      /\ Hands = {p, q} /\ p \in Pebs \ bad /\ q \in Pebs \ bad /\ p # q
      /\ p \in Mapped /\ q \notin Mapped /\ p \notin Queued /\ q \notin Queued
  BY <1>0, MoveOn
<1>2. /\ \/ used' = used \cup {p} /\ scrub' = scrub
         \/ used' = used /\ scrub' = scrub \cup {p}
      /\ works' = Append(works, q) /\ wk' = NoWork /\ wls' = FALSE
      /\ UNCHANGED <<peb, bad, up, eba, free, sqnum, ro, rsvd, avail, op, hurt, ops>>
  BY DEF NotMoved, flash, count
<1> HIDE DEF p, q
<1>3. works' \in Seq(Pebs \cup {WL}) /\ Queued' = Queued \cup {q} /\ (Once(works) => Once(works'))
  <2>1. works' = works \o <<q>>
    BY <1>1, <1>2 DEF RamOk
  <2> QED BY <1>1, <2>1, QueueFacts
<1>4. \A j \in Lebs : eba'[j] # None => HasVid(eba'[j]) /\ peb[eba'[j]].vid.l = j
  BY <1>1, <1>2 DEF IInv, Linked
<1>5. Shared'
  <2>1. wk'.at = "none" /\ Hands' = {} /\ ~Moves' /\ Mapped' = Mapped
    BY <1>2, NoWorkOk DEF Hands, Moves, Erases, Mapped
  <2>2. /\ Apart(free, used, scrub, Hands, Queued) /\ Once(works)
        /\ free \cup used \cup scrub \cup Hands \cup Queued = Pebs \ bad
        /\ used \cup scrub \cup {p} = Mapped /\ None \notin Mapped
    BY <1>0, <1>1 DEF IInv, Shared, p, Mapped
  <2>3. Apart(free, used, scrub, Hands, Queued)'
    BY <1>1, <1>2, <1>3, <2>1, <2>2 DEF Apart
  <2>4. (free \cup used \cup scrub \cup Hands \cup Queued = Pebs \ bad)'
    BY <1>1, <1>2, <1>3, <2>1, <2>2
  <2>5. used' \cup scrub' = Mapped'
    BY <1>2, <2>1, <2>2
  <2> QED BY <1>1, <1>2, <1>3, <2>1, <2>2, <2>3, <2>4, <2>5 DEF Shared
<1>6. /\ used' \subseteq Pebs /\ scrub' \subseteq Pebs
      /\ eba' \in [Lebs -> Pebs \cup {None}]
  BY <1>1, <1>2 DEF RamOk
<1> QED BY <1>0, <1>1, <1>2, <1>3, <1>4, <1>5, <1>6, MoveEnds

(***************************************************************************)
(* Every step, and the invariant of the specification.                     *)
(***************************************************************************)
LEMMA CallKeeps == ASSUME IInv, Call \/ Flush PROVE IInv'
<1>1. CASE Call
  <2>1. PICK l \in Lebs :
          \/ \E n \in 1 .. Pages : WriteMapped(l, n) \/ Change(l, n)
          \/ \E n \in 0 .. Pages : WriteUnmapped(l, n)
          \/ \E k \in {"unmap", "erase"} : Unmap(l, k)
          \/ ReadBitflip(l)
    BY <1>1 DEF Call
  <2> QED BY <2>1, WriteMappedKeeps, ChangeKeeps, WriteUnmappedKeeps, UnmapKeeps, ReadBitflipKeeps
<1> QED BY <1>1, FlushKeeps

LEMMA StepKeeps == ASSUME IInv, Step PROVE IInv'
<1>1. \/ GetPeb \/ NeedPeb \/ Produced \/ WriteVid \/ WritePage \/ RecoverUnreadable
      \/ MapPeb \/ AppendPage \/ DoErase \/ CancelWl \/ DoMove \/ FlushDone
      \/ EraseOk \/ EcOk \/ MarkBad \/ MoveVid \/ MovePage \/ Moved
  BY DEF Step
<1> QED BY <1>1, GetPebKeeps, NeedPebKeeps, ProducedKeeps, WriteVidKeeps, WritePageKeeps,
           RecoverUnreadableKeeps, MapPebKeeps, AppendPageKeeps, DoEraseKeeps, CancelWlKeeps,
           DoMoveKeeps, FlushDoneKeeps, EraseOkKeeps, EcOkKeeps, MarkBadKeeps, MoveVidKeeps,
           MovePageKeeps, MovedKeeps

LEMMA FaultKeeps == ASSUME IInv, Fault PROVE IInv'
BY WriteFailKeeps, AppendFailKeeps, EraseFailKeeps, MoveFailKeeps, NotMovedKeeps DEF Fault

LEMMA NextKeeps == ASSUME IInv, [Next]_vars PROVE IInv'
<1>1. CASE UNCHANGED vars
  <2>1. UNCHANGED <<peb, bad, up, eba, free, used, scrub, works, wls, sqnum, ro, rsvd, avail, op, wk, hurt, ops>>
    BY <1>1 DEF vars
  <2>2. FlashOk' /\ RamOk' /\ Still' /\ FailedOk'
    BY <2>1, FlashSame DEF IInv, flash, RamOk, Still, FailedOk, HasVid, EccError, Covered
  <2>3. Accounts' /\ Numbered' /\ Linked'
    BY <2>1 DEF IInv, Accounts, Numbered, Linked, On, HasVid, Fresh, Spare, Good
  <2>4. Calling' /\ Doing'
    BY <2>1 DEF IInv, Calling, Doing, On, HasVid, Fresh, DataOf, Moves
  <2>5. Shared'
    BY <2>1 DEF IInv, Shared, On, Apart, Hands, Queued, Mapped, Erases, Moves
  <2> QED BY <2>2, <2>3, <2>4, <2>5 DEF IInv
<1>2. CASE Next
  BY <1>2, AttachKeeps, CutKeeps, CallKeeps, StepKeeps, FaultKeeps DEF Next
<1> QED BY <1>1, <1>2

LEMMA Invariant == Spec => []IInv
<1>1. Init => IInv
  BY InitHolds
<1>2. IInv /\ [Next]_vars => IInv'
  BY NextKeeps
<1> QED BY <1>1, <1>2, PTL DEF Spec

\* An attach fails only after a power loss in the middle of a page of a copy.
\* Read with the code: compare_lebs returns an error where two headers of a LEB
\* have one sequence number, or the newer copy cannot be read, and then ubi_scan
\* and with it the attach fails; that no two headers on the flash ever have the
\* same number, whatever was cut and when, leaves the second case only.
THEOREM AttachWorksAlways == Spec => []AttachWorks
<1>1. IInv => AttachWorks
  BY DEF IInv, FailedOk, AttachWorks, HasVid
<1> QED BY <1>1, Invariant, PTL

(***************************************************************************)
(* Every eraseblock has its place.                                         *)
(***************************************************************************)
\* A pending work is counted once.
LEMMA CountOnce ==
  ASSUME NEW s, s \in Seq(Pebs \cup {WL}), Once(s), NEW p \in Pebs
  PROVE  Count(s, p) = IF p \in ToSet(s) THEN 1 ELSE 0
<1> DEFINE S == {i \in 1 .. Len(s) : s[i] = p}
<1>1. DOMAIN s = 1 .. Len(s) /\ p # WL
  BY DEF Pebs, WL
<1>2. CASE p \in ToSet(s)
  <2>1. PICK i \in 1 .. Len(s) : s[i] = p
    BY <1>1, <1>2 DEF ToSet
  <2>2. S = {i}
    BY <1>1, <2>1 DEF Once
  <2>3. Cardinality(S) = 1
    BY <2>2, FS_Singleton
  <2> QED BY <1>2, <2>3 DEF Count
<1>3. CASE p \notin ToSet(s)
  <2>1. S = {}
    BY <1>1, <1>3 DEF ToSet
  <2>2. Cardinality(S) = 0
    BY <2>1, FS_EmptySet
  <2> QED BY <1>3, <2>2 DEF Count
<1> QED BY <1>2, <1>3

LEMMA TypesHold == ASSUME IInv PROVE TypeOK
<1>1. \A p \in Pebs : peb[p].ec \in {"ok", "none", "bad"} /\ Len(peb[p].data) <= Pages
  <2> SUFFICES ASSUME NEW p \in Pebs PROVE peb[p].ec \in {"ok", "none", "bad"} /\ Len(peb[p].data) <= Pages
    OBVIOUS
  <2>1. peb[p] \in PebState /\ Len(peb[p].data) <= Pages
    BY DEF IInv, FlashOk
  <2> QED BY <2>1 DEF PebState
<1>2. ToSet(works) \subseteq Pebs \cup {WL}
  BY DEF IInv, RamOk, ToSet
<1>3. rsvd \in 0 .. NumPebs /\ avail \in 0 .. NumPebs
  BY UbiAssumption DEF IInv, RamOk
<1> QED BY <1>1, <1>2, <1>3 DEF IInv, RamOk, FlashOk, TypeOK

LEMMA PlacesHold == ASSUME IInv PROVE EveryPebHasItsPlace
<1>1. ASSUME On, NEW p \in Pebs \ bad
      PROVE  (IF p \in free THEN 1 ELSE 0) + (IF p \in used THEN 1 ELSE 0)
             + (IF p \in scrub THEN 1 ELSE 0) + (IF p \in Moving THEN 1 ELSE 0)
             + (IF wk.at \in {"erase", "ec", "mark"} /\ wk.p = p THEN 1 ELSE 0)
             + Count(works, p) = 1
  <2> DEFINE h == Erases /\ wk.p = p
             m == p \in Moving
             q == p \in ToSet(works)
  <2>1. Count(works, p) = IF q THEN 1 ELSE 0
    BY <1>1, CountOnce DEF IInv, RamOk, Shared
  <2>2. ~(Erases /\ Moves) /\ (p \in Hands <=> h \/ m) /\ ~(h /\ m)
    BY DEF Hands, Erases, Moves, Moving
  <2>3. (p \in Queued <=> q)
    BY DEF Queued, Pebs, WL
  <2>4. Apart(free, used, scrub, Hands, Queued) /\ free \cup used \cup scrub \cup Hands \cup Queued = Pebs \ bad
    BY <1>1 DEF IInv, Shared
  <2>5. \/ p \in free /\ p \notin used /\ p \notin scrub /\ ~h /\ ~m /\ ~q
        \/ p \notin free /\ p \in used /\ p \notin scrub /\ ~h /\ ~m /\ ~q
        \/ p \notin free /\ p \notin used /\ p \in scrub /\ ~h /\ ~m /\ ~q
        \/ p \notin free /\ p \notin used /\ p \notin scrub /\ h /\ ~m /\ ~q
        \/ p \notin free /\ p \notin used /\ p \notin scrub /\ ~h /\ m /\ ~q
        \/ p \notin free /\ p \notin used /\ p \notin scrub /\ ~h /\ ~m /\ q
    BY <2>2, <2>3, <2>4 DEF Apart
  <2>6. h <=> wk.at \in {"erase", "ec", "mark"} /\ wk.p = p
    BY DEF Erases
  <2> HIDE DEF h, m, q
  <2>7. (IF p \in free THEN 1 ELSE 0) + (IF p \in used THEN 1 ELSE 0) + (IF p \in scrub THEN 1 ELSE 0)
        + (IF m THEN 1 ELSE 0) + (IF h THEN 1 ELSE 0) + (IF q THEN 1 ELSE 0) = 1
    BY <2>5
  <2> QED BY <2>1, <2>6, <2>7 DEF m
<1>2. ASSUME On
      PROVE  used \cup scrub \cup {wk.p : x \in Moving} = ({eba[l] : l \in Lebs} \cup {op.p}) \ {None}
  <2>1. {wk.p : x \in Moving} = IF Moves THEN {wk.p} ELSE {}
    BY DEF Moving, Moves
  <2>2. used \cup scrub \cup (IF Moves THEN {wk.p} ELSE {}) = Mapped \cup (IF op.p = None THEN {} ELSE {op.p})
    BY <1>2 DEF IInv, Shared
  <2> QED BY <2>1, <2>2 DEF Mapped
<1>3. ASSUME On, NEW l \in Lebs, NEW k \in Lebs, eba[l] = eba[k], eba[l] # None PROVE l = k
  BY <1>3 DEF IInv, Linked
<1>4. (up = "on" /\ ~ro) <=> On
  BY DEF On
<1> QED BY <1>1, <1>2, <1>3, <1>4, TypesHold DEF EveryPebHasItsPlace

\* Every good eraseblock is free, in use, waiting for scrubbing or erasure or at
\* hand, exactly once, and those in use are those the table maps: none is lost
\* until the next attach, none is erased under its data.
THEOREM EveryPebIsPlaced == Spec => []EveryPebHasItsPlace
<1>1. IInv => EveryPebHasItsPlace
  BY PlacesHold
<1> QED BY <1>1, Invariant, PTL

(***************************************************************************)
(* A write gets an eraseblock.                                             *)
(***************************************************************************)
\* The table maps no more eraseblocks than there are logical ones.
LEMMA MappedFew == ASSUME IInv PROVE IsFiniteSet(Mapped) /\ Cardinality(Mapped) <= Cardinality(Lebs)
<1> DEFINE all == {eba[l] : l \in Lebs}
<1>1. IsFiniteSet(all) /\ Cardinality(all) <= Cardinality(Lebs)
  <2>1. eba \in [Lebs -> Pebs \cup {None}]
    BY DEF IInv, RamOk
  <2>2. eba \in Surjection(Lebs, all)
    BY <2>1 DEF Surjection
  <2> QED BY <2>2, UbiAssumption, FS_Surjection
<1>2. Mapped \subseteq all
  BY DEF Mapped
<1>3. IsFiniteSet(Mapped) /\ Cardinality(Mapped) <= Cardinality(all)
  BY <1>1, <1>2, FS_Subset
<1>4. /\ Cardinality(all) \in Nat /\ Cardinality(Mapped) \in Nat /\ Cardinality(Lebs) \in Nat
  BY <1>1, <1>3, UbiAssumption, FS_CardinalityType
<1> QED BY <1>1, <1>3, <1>4

LEMMA SpaceHolds == ASSUME IInv PROVE SpaceIsLeft
<1> SUFFICES ASSUME op.at \in {"get", "produce"}, free = {}, Erasing = {} PROVE FALSE
  BY DEF SpaceIsLeft
<1>1. On /\ ~Moves /\ op.p = None
  BY DEF IInv, RamOk, Still, On, Doing, Calling
<1>2. Hands = {} /\ Queued = {}
  BY <1>1 DEF Erasing, Hands, Queued, Erases
<1>3. Pebs \ bad = Mapped
  BY <1>1, <1>2 DEF IInv, Shared
<1>4. Cardinality(Mapped) <= Cardinality(Lebs)
  BY MappedFew
<1>5. Cardinality(Pebs \ bad) = NumPebs - Cardinality(bad) /\ Cardinality(bad) \in Nat
  <2>1. IsFiniteSet(Pebs) /\ Cardinality(Pebs) = NumPebs
    BY UbiAssumption, FS_Interval DEF Pebs
  <2>2. bad \subseteq Pebs /\ Pebs \cap bad = bad
    BY DEF IInv, FlashOk
  <2>3. IsFiniteSet(bad) /\ Cardinality(bad) \in Nat
    BY <2>1, <2>2, FS_Subset, FS_CardinalityType
  <2>4. Cardinality(Pebs \ bad) = Cardinality(Pebs) - Cardinality(Pebs \cap bad)
    BY <2>1, FS_Difference
  <2> QED BY <2>1, <2>2, <2>3, <2>4
<1>6. Cardinality(Lebs) \in Nat /\ NumPebs \in Nat
  BY UbiAssumption, FS_CardinalityType
<1>7. NumPebs - Cardinality(bad) >= Cardinality(Lebs) + 2
  BY DEF IInv, FlashOk, Good
<1> QED BY <1>3, <1>4, <1>5, <1>6, <1>7

\* A call that asks for an eraseblock finds one free or to be erased, however
\* many have become bad: __wl_get_peb does not run out of works and
\* produce_free_peb does not spin.
THEOREM WritesGetSpace == Spec => []SpaceIsLeft
<1>1. IInv => SpaceIsLeft
  BY SpaceHolds
<1> QED BY <1>1, Invariant, PTL

(***************************************************************************)
(* What a boot finds: for a function f from eraseblocks to their contents  *)
(* and a set S of good ones.                                               *)
(***************************************************************************)
Fine == Pebs \ bad

Intact(c) == /\ Len(c.data) >= Len(c.vid.crc)
             /\ \A i \in {i \in 1 .. Len(c.vid.crc) : i <= Len(c.data)} : c.data[i] = c.vid.crc[i]

CopiesOf(f, S, l) == {p \in S : f[p].vid.st = "ok" /\ f[p].vid.l = l}
WholeIn(f, S, l)  == {p \in CopiesOf(f, S, l) : Intact(f[p])}

\* The newest copy that is whole, or the oldest if none is.
Finds(f, S, l, p) ==
  /\ p \in CopiesOf(f, S, l)
  /\ WholeIn(f, S, l) # {} => /\ p \in WholeIn(f, S, l)
                              /\ \A q \in WholeIn(f, S, l) : f[q].vid.sq <= f[p].vid.sq
  /\ WholeIn(f, S, l) = {} => \A q \in CopiesOf(f, S, l) : f[q].vid.sq >= f[p].vid.sq

NoLeb    == [m |-> FALSE, d |-> <<>>]
LebOf(s) == [m |-> TRUE, d |-> s]
FoundIn(f, S, l) == IF CopiesOf(f, S, l) = {} THEN NoLeb
                    ELSE LebOf(f[CHOOSE p \in Pebs : Finds(f, S, l, p)].data)

FlashState(f, S) ==
  /\ f \in [Pebs -> PebState] /\ S \subseteq Pebs
  /\ \A p, q \in S : p # q /\ f[p].vid.st = "ok" /\ f[q].vid.st = "ok" => f[p].vid.sq # f[q].vid.sq

LEMMA FlashIs == ASSUME FlashOk PROVE FlashState(peb, Fine)
BY DEF FlashOk, FlashState, HasVid, Fine

LEMMA FlashIsNext == ASSUME FlashOk' PROVE FlashState(peb', Fine')
BY DEF FlashOk, FlashState, HasVid, Fine

LEMMA CopiesAre == \A l : Copies(l) = CopiesOf(peb, Fine, l) /\ (Copies(l))' = CopiesOf(peb', Fine', l)
BY DEF Copies, CopiesOf, Fine

LEMMA CrcIs == \A p : (CrcOk(p) <=> Intact(peb[p])) /\ (CrcOk(p)' <=> Intact(peb'[p]))
BY DEF CrcOk, Intact, Covered

\* Of a copy.
LEMMA CopyFacts ==
  ASSUME NEW f, NEW S, FlashState(f, S), NEW l, NEW p \in CopiesOf(f, S, l)
  PROVE  /\ p \in S /\ p \in Pebs /\ f[p] \in PebState /\ f[p].data \in Seq(Nat)
         /\ f[p].vid.sq \in Nat /\ f[p].vid.crc \in Seq(Nat) /\ f[p].vid.l = l
         /\ l \in Lebs /\ f[p].vid.st = "ok"
<1>1. p \in S /\ f[p].vid.st = "ok" /\ f[p].vid.l = l
  BY DEF CopiesOf
<1>2. p \in Pebs /\ f[p] \in PebState
  BY <1>1 DEF FlashState
<1>3. f[p].vid \in {NoVid, TornVid} \cup [st : {"ok"}, l : Lebs, sq : Nat, crc : Seq(Nat)]
      /\ f[p].data \in Seq(Nat)
  BY <1>2 DEF PebState
<1>4. f[p].vid # NoVid /\ f[p].vid # TornVid
  BY <1>1 DEF NoVid, TornVid
<1>5. f[p].vid \in [st : {"ok"}, l : Lebs, sq : Nat, crc : Seq(Nat)]
  BY <1>3, <1>4
<1> QED BY <1>1, <1>2, <1>3, <1>5

\* Numbers of eraseblocks have a bound.
LEMMA Bounded == ASSUME NEW g \in [Pebs -> Nat] PROVE \E N \in Nat : \A p \in Pebs : g[p] <= N
<1> DEFINE S == {n \in 0 .. NumPebs : \E N \in Nat : \A p \in 1 .. n : g[p] <= N}
<1>0. NumPebs \in Nat /\ 0 \in 0 .. NumPebs
  BY UbiAssumption
<1>1. 0 \in S
  BY <1>0
<1>2. ASSUME NEW n \in 1 .. NumPebs, n - 1 \in S PROVE n \in S
  <2>1. PICK N \in Nat : \A p \in 1 .. n - 1 : g[p] <= N
    BY <1>2
  <2>2. n \in Pebs /\ g[n] \in Nat
    BY DEF Pebs
  <2> DEFINE M == N + g[n]
  <2>3. M \in Nat /\ N <= M /\ g[n] <= M
    BY <2>1, <2>2
  <2>4. ASSUME NEW p \in 1 .. n PROVE g[p] <= M
    <3>1. CASE p = n
      BY <2>3, <3>1
    <3>2. CASE p # n
      <4>1. p \in 1 .. n - 1 /\ p \in Pebs
        BY <1>0, <3>2 DEF Pebs
      <4>2. g[p] <= N /\ g[p] \in Nat
        BY <2>1, <4>1
      <4> HIDE DEF M
      <4> QED BY <2>1, <2>3, <4>2
    <3> QED BY <3>1, <3>2
  <2>5. n \in 0 .. NumPebs
    BY <1>0
  <2> HIDE DEF M
  <2> QED BY <2>3, <2>4, <2>5
<1> HIDE DEF S
<1>3. \A i \in 0 .. NumPebs : i \in S
  BY <1>0, <1>1, <1>2, UpTo
<1>4. NumPebs \in S
  BY <1>0, <1>3
<1> QED BY <1>4 DEF S, Pebs

LEMMA Greatest ==
  ASSUME NEW T, T \subseteq Nat, T # {}, NEW N \in Nat, \A k \in T : k <= N
  PROVE  \E k \in T : \A j \in T : j <= k
<1> DEFINE U == {N - k : k \in T}
<1>1. U \subseteq Nat /\ U # {}
  <2>1. \A k \in T : N - k \in Nat
    OBVIOUS
  <2> QED BY <2>1
<1>2. PICK m \in U : \A y \in U : m <= y
  BY <1>1, Least
<1>3. PICK k \in T : m = N - k
  OBVIOUS
<1>4. \A j \in T : j <= k
  <2> TAKE j \in T
  <2>1. N - k <= N - j
    BY <1>2, <1>3
  <2>2. k \in Nat /\ j \in Nat
    OBVIOUS
  <2> QED BY <2>1, <2>2
<1> QED BY <1>4

\* A boot finds one of the copies, if there is any, and only one.
LEMMA FindsSome ==
  ASSUME NEW f, NEW S, FlashState(f, S), NEW l, CopiesOf(f, S, l) # {}
  PROVE  \E p \in Pebs : Finds(f, S, l, p)
<1> DEFINE C == CopiesOf(f, S, l)
           W == WholeIn(f, S, l)
<1>1. \A p \in C : p \in Pebs /\ f[p].vid.sq \in Nat
  BY CopyFacts
<1>2. W \subseteq C
  BY DEF WholeIn
<1> HIDE DEF C, W
<1>3. CASE W = {}
  <2> DEFINE T == {f[p].vid.sq : p \in C}
  <2>1. T \subseteq Nat /\ T # {}
    BY <1>1 DEF C
  <2>2. PICK m \in T : \A y \in T : m <= y
    BY <2>1, Least
  <2>3. PICK p \in C : m = f[p].vid.sq
    BY <2>2
  <2>4. \A q \in C : f[q].vid.sq >= f[p].vid.sq
    <3>1. \A q \in C : m <= f[q].vid.sq
      BY <2>2
    <3> QED BY <1>1, <2>3, <3>1
  <2> QED BY <1>1, <1>3, <2>3, <2>4 DEF Finds, C, W
<1>4. CASE W # {}
  <2> DEFINE T == {f[p].vid.sq : p \in W}
             g == [p \in Pebs |-> IF p \in C THEN f[p].vid.sq ELSE 0]
  <2>1. T \subseteq Nat /\ T # {}
    BY <1>1, <1>2, <1>4
  <2>2. g \in [Pebs -> Nat]
    BY <1>1
  <2>3. PICK N \in Nat : \A p \in Pebs : g[p] <= N
    BY <2>2, Bounded
  <2>4. ASSUME NEW k \in T PROVE k <= N
    <3>1. PICK p \in W : k = f[p].vid.sq
      OBVIOUS
    <3>2. g[p] = k /\ p \in Pebs
      BY <1>1, <1>2, <3>1
    <3> QED BY <2>3, <3>2
  <2>5. PICK m \in T : \A y \in T : y <= m
    <3> HIDE DEF T
    <3> QED BY <2>1, <2>3, <2>4, Greatest
  <2>6. PICK p \in W : m = f[p].vid.sq
    BY <2>5
  <2>7. \A q \in W : f[q].vid.sq <= f[p].vid.sq
    <3>1. \A q \in W : f[q].vid.sq <= m
      BY <2>5
    <3> QED BY <2>6, <3>1
  <2> QED BY <1>1, <1>2, <1>4, <2>6, <2>7 DEF Finds, C, W
<1> QED BY <1>3, <1>4

LEMMA FindsOne ==
  ASSUME NEW f, NEW S, FlashState(f, S), NEW l, NEW p, NEW q, Finds(f, S, l, p), Finds(f, S, l, q)
  PROVE  p = q
<1>1. p \in CopiesOf(f, S, l) /\ q \in CopiesOf(f, S, l)
  BY DEF Finds
<1>2. f[p].vid.sq \in Nat /\ f[q].vid.sq \in Nat
  BY <1>1, CopyFacts
<1>3. f[p].vid.sq <= f[q].vid.sq /\ f[q].vid.sq <= f[p].vid.sq
  <2>1. CASE WholeIn(f, S, l) = {}
    BY <1>1, <1>2, <2>1 DEF Finds
  <2>2. CASE WholeIn(f, S, l) # {}
    BY <1>1, <1>2, <2>2 DEF Finds
  <2> QED BY <2>1, <2>2
<1>4. f[p].vid.sq = f[q].vid.sq
  BY <1>2, <1>3
<1> QED BY <1>1, <1>4 DEF FlashState, CopiesOf

LEMMA FoundOne ==
  ASSUME NEW f, NEW S, FlashState(f, S), NEW l, NEW p, Finds(f, S, l, p)
  PROVE  FoundIn(f, S, l) = LebOf(f[p].data) /\ p \in CopiesOf(f, S, l)
<1> DEFINE q == CHOOSE x \in Pebs : Finds(f, S, l, x)
<1>1. p \in CopiesOf(f, S, l) /\ p \in Pebs
  BY CopyFacts DEF Finds
<1>2. Finds(f, S, l, q)
  BY <1>1
<1> HIDE DEF q
<1>3. q = p
  BY <1>2, FindsOne
<1> QED BY <1>1, <1>3 DEF FoundIn, q

LEMMA BestIs == ASSUME FlashOk, NEW l, NEW p, Finds(peb, Fine, l, p) PROVE Best(l) = p
<1> DEFINE C == Copies(l)
           W == {x \in C : CrcOk(x)}
<1>1. C = CopiesOf(peb, Fine, l) /\ W = WholeIn(peb, Fine, l)
  BY CopiesAre, CrcIs DEF WholeIn
<1>2. p \in C /\ FlashState(peb, Fine)
  BY <1>1, FlashIs DEF Finds
<1> DEFINE a == CHOOSE x \in W : \A y \in W : peb[y].vid.sq <= peb[x].vid.sq
           b == CHOOSE x \in C : \A y \in C : peb[y].vid.sq >= peb[x].vid.sq
<1>3. Best(l) = IF W # {} THEN a ELSE b
  BY <1>2 DEF Best
<1> HIDE DEF C, W
<1>4. W # {} => a \in W /\ \A y \in W : peb[y].vid.sq <= peb[a].vid.sq
  BY <1>1 DEF Finds
<1>5. W = {} => b \in C /\ \A y \in C : peb[y].vid.sq >= peb[b].vid.sq
  BY <1>1 DEF Finds
<1> HIDE DEF a, b
<1>6. W \subseteq C
  BY <1>1 DEF WholeIn
<1>7. Finds(peb, Fine, l, Best(l))
  BY <1>1, <1>3, <1>4, <1>5, <1>6 DEF Finds
<1> QED BY <1>2, <1>7, FindsOne

LEMMA BestIsNext == ASSUME FlashOk', NEW l, NEW p, Finds(peb', Fine', l, p) PROVE (Best(l))' = p
<1> DEFINE C == Copies(l)'
           W == {x \in C : CrcOk(x)'}
<1>1. C = CopiesOf(peb', Fine', l) /\ W = WholeIn(peb', Fine', l)
  BY CopiesAre, CrcIs DEF WholeIn
<1>2. p \in C /\ FlashState(peb', Fine')
  BY <1>1, FlashIsNext DEF Finds
<1> DEFINE a == CHOOSE x \in W : \A y \in W : peb'[y].vid.sq <= peb'[x].vid.sq
           b == CHOOSE x \in C : \A y \in C : peb'[y].vid.sq >= peb'[x].vid.sq
<1>3. (Best(l))' = IF W # {} THEN a ELSE b
  BY <1>2 DEF Best
<1> HIDE DEF C, W
<1>4. W # {} => a \in W /\ \A y \in W : peb'[y].vid.sq <= peb'[a].vid.sq
  BY <1>1 DEF Finds
<1>5. W = {} => b \in C /\ \A y \in C : peb'[y].vid.sq >= peb'[b].vid.sq
  BY <1>1 DEF Finds
<1> HIDE DEF a, b
<1>6. W \subseteq C
  BY <1>1 DEF WholeIn
<1>7. Finds(peb', Fine', l, (Best(l))')
  BY <1>1, <1>3, <1>4, <1>5, <1>6 DEF Finds
<1> QED BY <1>2, <1>7, FindsOne

LEMMA FoundIs == ASSUME FlashOk, NEW l \in Lebs PROVE Found[l] = FoundIn(peb, Fine, l)
<1>0. FlashState(peb, Fine) /\ Copies(l) = CopiesOf(peb, Fine, l) /\ Found[l] = Content(Best(l))
  BY FlashIs, CopiesAre DEF Found, Contents
<1>1. CASE Copies(l) = {}
  BY <1>0, <1>1 DEF Best, FoundIn, Content, NoLeb
<1>2. CASE Copies(l) # {}
  <2>1. PICK p \in Pebs : Finds(peb, Fine, l, p)
    BY <1>0, <1>2, FindsSome
  <2>2. Best(l) = p /\ p # None
    BY <2>1, BestIs DEF Pebs, None
  <2> QED BY <1>0, <2>1, <2>2, FoundOne DEF Content, LebOf
<1> QED BY <1>1, <1>2

LEMMA FoundIsNext == ASSUME FlashOk', NEW l \in Lebs PROVE Found'[l] = FoundIn(peb', Fine', l)
<1>0. FlashState(peb', Fine') /\ (Copies(l))' = CopiesOf(peb', Fine', l) /\ Found'[l] = (Content(Best(l)))'
  BY FlashIsNext, CopiesAre DEF Found, Contents
<1>1. CASE (Copies(l))' = {}
  BY <1>0, <1>1 DEF Best, FoundIn, Content, NoLeb
<1>2. CASE (Copies(l))' # {}
  <2>1. PICK p \in Pebs : Finds(peb', Fine', l, p)
    BY <1>0, <1>2, FindsSome
  <2>2. (Best(l))' = p /\ p # None
    BY <2>1, BestIsNext DEF Pebs, None
  <2>3. (Content(Best(l)))' = LebOf(peb'[p].data)
    BY <2>2 DEF Content, LebOf
  <2> QED BY <1>0, <2>1, <2>3, FoundOne
<1> QED BY <1>1, <1>2

\* What is found depends on the copies only.
LEMMA FoundSame ==
  ASSUME NEW f, NEW S, FlashState(f, S), NEW g, NEW T, FlashState(g, T), NEW l,
         CopiesOf(g, T, l) = CopiesOf(f, S, l), \A p \in CopiesOf(f, S, l) : g[p] = f[p]
  PROVE  FoundIn(g, T, l) = FoundIn(f, S, l)
<1>1. CASE CopiesOf(f, S, l) = {}
  BY <1>1 DEF FoundIn
<1>2. CASE CopiesOf(f, S, l) # {}
  <2>1. PICK p \in Pebs : Finds(f, S, l, p)
    BY <1>2, FindsSome
  <2>2. WholeIn(g, T, l) = WholeIn(f, S, l)
    BY DEF WholeIn
  <2>3. Finds(g, T, l, p)
    <3>1. WholeIn(f, S, l) \subseteq CopiesOf(f, S, l)
      BY DEF WholeIn
    <3> QED BY <2>1, <2>2, <3>1 DEF Finds
  <2>4. FoundIn(f, S, l) = LebOf(f[p].data) /\ FoundIn(g, T, l) = LebOf(g[p].data)
    BY <2>1, <2>3, FoundOne
  <2>5. p \in CopiesOf(f, S, l)
    BY <2>1, FoundOne
  <2> QED BY <2>4, <2>5
<1> QED BY <1>1, <1>2

\* A whole copy that no whole one is newer than.
LEMMA FoundWhole ==
  ASSUME NEW f, NEW S, FlashState(f, S), NEW l, NEW p \in CopiesOf(f, S, l), Intact(f[p]),
         \A q \in CopiesOf(f, S, l) : Intact(f[q]) => f[q].vid.sq <= f[p].vid.sq
  PROVE  FoundIn(f, S, l) = LebOf(f[p].data)
<1>1. p \in WholeIn(f, S, l) /\ \A q \in WholeIn(f, S, l) : f[q].vid.sq <= f[p].vid.sq
  BY DEF WholeIn
<1>2. Finds(f, S, l, p)
  BY <1>1 DEF Finds
<1> QED BY <1>2, FoundOne

\* A whole copy such that all whole ones that are newer hold the same pages.
LEMMA FoundAlike ==
  ASSUME NEW f, NEW S, FlashState(f, S), NEW l, NEW p \in CopiesOf(f, S, l), Intact(f[p]),
         \A q \in CopiesOf(f, S, l) :
           Intact(f[q]) => f[q].vid.sq <= f[p].vid.sq \/ f[q].data = f[p].data
  PROVE  FoundIn(f, S, l) = LebOf(f[p].data)
<1>1. PICK q \in Pebs : Finds(f, S, l, q)
  BY FindsSome
<1>2. p \in WholeIn(f, S, l)
  BY DEF WholeIn
<1>3. q \in CopiesOf(f, S, l) /\ Intact(f[q]) /\ f[p].vid.sq <= f[q].vid.sq
  BY <1>1, <1>2 DEF Finds, WholeIn
<1>4. f[p].vid.sq \in Nat /\ f[q].vid.sq \in Nat /\ p \in S /\ q \in S
  BY <1>3, CopyFacts
<1>5. f[q].data = f[p].data
  <2>1. CASE f[q].vid.sq <= f[p].vid.sq
    <3>1. f[q].vid.sq = f[p].vid.sq
      BY <1>3, <1>4, <2>1
    <3>2. q = p
      BY <1>3, <1>4, <3>1 DEF FlashState, CopiesOf
    <3> QED BY <3>2
  <2> QED BY <1>3, <2>1
<1> QED BY <1>1, <1>5, FoundOne

(***************************************************************************)
(* The copies of a logical eraseblock.                                     *)
(***************************************************************************)
\* The value that the call under way writes.
Now == ops + 1
Writing == op.at \in {"get", "produce", "vid", "data", "map"}

\* Values are those written up to now.
Paged == ops <= MaxOps /\ \A p \in Pebs : \A i \in DOMAIN peb[p].data : peb[p].data[i] <= Now

\* The call under way and the copy it writes.
Called == On =>
  /\ Writing => /\ op.k \in {"write", "change", "recover"}
                /\ op.k = "write" => eba[op.l] = None /\ op.crc = <<>>
                /\ op.k = "change" => op.buf # <<>> /\ op.crc = op.buf
                /\ op.k = "recover" => op.l \in hurt
  /\ op.at # "idle" => \A i \in DOMAIN op.buf : op.buf[i] <= Now
  /\ op.k \in {"write", "change"} => \A i \in DOMAIN op.buf : op.buf[i] = Now
  /\ op.at \in {"get", "produce", "vid"} => op.sq + 1 = sqnum
  /\ op.at \in {"data", "map"} =>
       /\ \A c \in CopiesOf(peb, Fine, op.l) : peb[c].vid.sq <= peb[op.p].vid.sq
       /\ op.k # "recover" => /\ peb[op.p].vid.crc = op.crc
                              /\ peb[op.p].data = SubSeq(op.buf, 1, op.n)
  /\ op.at = "map" => op.n = Len(op.buf)
  /\ op.at = "append" =>
       /\ op.k = "write"
       /\ \A i \in 1 .. op.n : DataOf(op.l)[Len(DataOf(op.l)) - op.n + i] = Now
  /\ op.at = "flush" => op.k \in {"erase", "flush"} /\ (op.k = "erase" => op.l \in Lebs /\ eba[op.l] = None)

\* The copy that a move makes.
Copying == On =>
  /\ wk.at = "vid" => wk.sq + 1 = sqnum
  /\ wk.at \in {"data", "moved"} =>
       /\ peb[wk.p].vid.sq < peb[wk.q].vid.sq
       /\ peb[wk.q].vid.crc = IF peb[wk.p].data = <<>> THEN peb[wk.p].vid.crc ELSE peb[wk.p].data
       /\ peb[wk.q].data = SubSeq(peb[wk.p].data, 1, wk.n)
  /\ wk.at = "moved" => wk.n = Len(peb[wk.p].data)

\* A mapped eraseblock is whole, and of the whole ones the newest: but for those
\* of a move that was given up, and for the one that is to be mapped.
Leads(f, l) ==
  /\ Intact(f[eba[l]])
  /\ \A c \in CopiesOf(f, Fine, l) : Intact(f[c]) =>
       \/ f[c].vid.sq <= f[eba[l]].vid.sq
       \/ op.at = "flush" /\ f[c].data = f[eba[l]].data
       \/ op.at = "map" /\ c = op.p
Leading == On => \A l \in Lebs \ hurt : eba[l] # None => Leads(peb, l)

\* One eraseblock is erased before another.
Ahead(d, z) == \E j \in DOMAIN works :
  works[j] = z /\ ((Erases /\ d = wk.p) \/ \E i \in DOMAIN works : i < j /\ works[i] = d)

\* Of the copies of an unmapped eraseblock, those in K are of the call under way,
\* which writes v, and of the others z is the newest whole one,
Layers(f, S, l, K, z, v) ==
  /\ K \subseteq CopiesOf(f, S, l)
  /\ \A c \in K : f[c].data \in Store!Cuts(v)
  /\ \A c \in K, d \in CopiesOf(f, S, l) \ K : f[d].vid.sq < f[c].vid.sq
  /\ CopiesOf(f, S, l) \ K # {} =>
       /\ z \in CopiesOf(f, S, l) \ K /\ Intact(f[z])
       /\ \A d \in CopiesOf(f, S, l) \ K : Intact(f[d]) => f[d].vid.sq <= f[z].vid.sq

\* and the last of them to be erased.
Line(l, K, z) ==
  /\ K # {} => Writing /\ op.l = l
  /\ op.at \in {"data", "map"} /\ op.l = l => op.p \in K
  /\ \A d \in CopiesOf(peb, Fine, l) \ K : d # z => Ahead(d, z)
  /\ \A d \in CopiesOf(peb, Fine, l) \ K, c \in K : c # op.p => Ahead(d, c)
Lays(l) == \E K, z : Layers(peb, Fine, l, K, z, Now) /\ Line(l, K, z)
Lined == On => \A l \in Lebs \ hurt : eba[l] = None => Lays(l)

\* The invariant of the copies.
AInv == Paged /\ Called /\ Copying /\ Leading /\ Lined

\* What a boot finds of them.
LEMMA LayersFound ==
  ASSUME NEW f, NEW S, FlashState(f, S), NEW l, NEW K, NEW z, NEW v, Layers(f, S, l, K, z, v)
  PROVE  \/ FoundIn(f, S, l) = NoLeb
         \/ \E r \in Store!Cuts(v) : FoundIn(f, S, l) = LebOf(r)
         \/ /\ CopiesOf(f, S, l) \ K # {} /\ \A c \in K : ~Intact(f[c])
            /\ FoundIn(f, S, l) = LebOf(f[z].data)
<1> DEFINE C == CopiesOf(f, S, l)
<1>1. CASE C = {}
  BY <1>1 DEF FoundIn
<1>2. CASE C # {}
  <2>1. PICK p \in Pebs : Finds(f, S, l, p)
    BY <1>2, FindsSome
  <2>2. FoundIn(f, S, l) = LebOf(f[p].data) /\ p \in C
    BY <2>1, FoundOne
  <2>3. CASE p \in K
    BY <2>2, <2>3 DEF Layers
  <2>4. CASE p \notin K
    <3>1. z \in C \ K /\ Intact(f[z])
      BY <2>2, <2>4 DEF Layers
    <3>2. z \in WholeIn(f, S, l)
      BY <3>1 DEF WholeIn
    <3>3. p \in WholeIn(f, S, l) /\ \A q \in WholeIn(f, S, l) : f[q].vid.sq <= f[p].vid.sq
      BY <2>1, <3>2 DEF Finds
    <3>4. f[p].vid.sq <= f[z].vid.sq
      BY <2>2, <2>4, <3>3 DEF Layers, WholeIn
    <3>5. f[z].vid.sq <= f[p].vid.sq /\ f[p].vid.sq \in Nat /\ f[z].vid.sq \in Nat
      BY <2>2, <3>1, <3>2, <3>3, CopyFacts
    <3>6. f[p].vid.sq = f[z].vid.sq
      BY <3>4, <3>5
    <3>7. p = z
      BY <2>2, <3>1, <3>6 DEF FlashState, CopiesOf
    <3>8. ASSUME NEW c \in K, Intact(f[c]) PROVE FALSE
      <4>1. c \in C /\ c \in WholeIn(f, S, l)
        BY <3>8 DEF Layers, WholeIn
      <4>2. f[c].vid.sq <= f[p].vid.sq /\ f[p].vid.sq < f[c].vid.sq
        BY <2>2, <2>4, <3>3, <4>1 DEF Layers
      <4>3. f[c].vid.sq \in Nat /\ f[p].vid.sq \in Nat
        BY <2>2, <4>1, CopyFacts
      <4> QED BY <4>2, <4>3
    <3> QED BY <2>2, <3>1, <3>7, <3>8
  <2> QED BY <2>3, <2>4
<1> QED BY <1>1, <1>2

\* What an unmapped eraseblock holds may change to.
Renews(d, e, v) == e = d \/ e = NoLeb \/ \E r \in Store!Cuts(v) : e = LebOf(r)

LEMMA LayersRenew ==
  ASSUME NEW f, NEW S, FlashState(f, S), NEW g, NEW T, FlashState(g, T), NEW l, NEW K, NEW J, NEW z, NEW v,
         Layers(f, S, l, K, z, v), Layers(g, T, l, J, z, v),
         CopiesOf(g, T, l) \ J # {} =>
           /\ CopiesOf(f, S, l) \ K # {} /\ g[z].data = f[z].data
           /\ \A c \in K : Intact(f[c]) => \E x \in J : Intact(g[x])
  PROVE  Renews(FoundIn(f, S, l), FoundIn(g, T, l), v)
<1>1. \/ FoundIn(g, T, l) = NoLeb
      \/ \E r \in Store!Cuts(v) : FoundIn(g, T, l) = LebOf(r)
      \/ /\ CopiesOf(g, T, l) \ J # {} /\ \A c \in J : ~Intact(g[c])
         /\ FoundIn(g, T, l) = LebOf(g[z].data)
  BY LayersFound
<1>2. CASE /\ CopiesOf(g, T, l) \ J # {} /\ \A c \in J : ~Intact(g[c])
           /\ FoundIn(g, T, l) = LebOf(g[z].data)
  <2>1. CopiesOf(f, S, l) \ K # {} /\ g[z].data = f[z].data /\ \A c \in K : ~Intact(f[c])
    BY <1>2
  <2>2. z \in CopiesOf(f, S, l) \ K /\ Intact(f[z])
        /\ \A d \in CopiesOf(f, S, l) \ K : Intact(f[d]) => f[d].vid.sq <= f[z].vid.sq
    BY <2>1 DEF Layers
  <2>3. FoundIn(f, S, l) = LebOf(f[z].data)
    BY <2>1, <2>2, FoundWhole
  <2> QED BY <1>2, <2>1, <2>3 DEF Renews
<1> QED BY <1>1, <1>2 DEF Renews

\* An eraseblock of other LEBs has changed.
LEMMA Untouched ==
  ASSUME NEW f, NEW g, NEW S, S \subseteq Pebs, NEW d, \A p \in Pebs : p # d => g[p] = f[p],
         NEW l, d \notin CopiesOf(f, S, l), d \notin CopiesOf(g, S, l)
  PROVE  CopiesOf(g, S, l) = CopiesOf(f, S, l) /\ \A p \in CopiesOf(f, S, l) : g[p] = f[p]
BY DEF CopiesOf

LEMMA LayersSame ==
  ASSUME NEW f, NEW g, NEW S, NEW T, NEW l, CopiesOf(g, T, l) = CopiesOf(f, S, l),
         \A p \in CopiesOf(f, S, l) : g[p] = f[p], NEW K, NEW z, NEW v, Layers(f, S, l, K, z, v)
  PROVE  Layers(g, T, l, K, z, v)
BY DEF Layers

(***************************************************************************)
(* What the operation under way on the flash changes, complete or not.     *)
(***************************************************************************)
Others(g, d) == \A p \in Pebs : p # d => g[p] = peb[p]

\* sync_erase, and the header after it
LEMMA EraseEffect ==
  ASSUME IInv, On, wk.at \in {"erase", "ec"}, NEW g \in Half \cup {Done}
  PROVE  /\ wk.p \in Fine /\ Others(g, wk.p) /\ g \in [Pebs -> PebState]
         /\ g[wk.p].vid.st # "ok" \/ g[wk.p] = peb[wk.p]
         /\ g = Done => g[wk.p].vid.st # "ok"
         /\ wk.at = "ec" => g[wk.p].vid.st # "ok"
<1>0. peb \in [Pebs -> PebState]
  BY DEF IInv, FlashOk
<1>1. NoVid.st # "ok" /\ TornVid.st # "ok"
  BY DEF NoVid, TornVid
<1>2. CASE wk.at = "erase"
  <2>1. wk.p \in Pebs \ bad /\ Written(g, wk.p) /\ (g = Done => g[wk.p].vid = NoVid)
    BY <1>2, EraseFlash
  <2>2. Pending = Do("erase", wk.p, None)
    BY <1>2 DEF Pending
  <2>3. g \in {peb, Done, [peb EXCEPT ![wk.p] = Garbage]}
    BY <2>2 DEF Half, Do
  <2>4. g[wk.p].vid.st # "ok" \/ g[wk.p] = peb[wk.p]
    <3>1. CASE g = [peb EXCEPT ![wk.p] = Garbage]
      BY <1>0, <1>1, <2>1, <3>1 DEF Garbage
    <3> QED BY <1>1, <2>1, <2>3, <3>1
  <2> QED BY <1>1, <1>2, <2>1, <2>4 DEF Written, Fine, Others
<1>3. CASE wk.at = "ec"
  <2>1. wk.p \in Pebs \ bad /\ Written(g, wk.p) /\ g[wk.p].vid = NoVid
    BY <1>3, EcFlash
  <2> QED BY <1>1, <2>1 DEF Written, Fine, Others
<1> QED BY <1>2, <1>3

\* A header is written to d, or cut.
VidTo(g, d, v) ==
  /\ d \in Fine /\ Others(g, d) /\ g \in [Pebs -> PebState] /\ g[d].data = <<>>
  /\ peb[d].vid.st # "ok" /\ v.st = "ok"
  /\ g = Done => g[d].vid = v
  /\ g \in Half => g[d].vid.st # "ok"

LEMMA MoveVidEffect ==
  ASSUME IInv, On, wk.at = "vid", NEW g \in Half \cup {Done} PROVE VidTo(g, wk.q, MovedVid)
<1>0. peb \in [Pebs -> PebState] /\ wk.q \in Pebs \ bad /\ Written(g, wk.q) /\ g[wk.q].data = <<>> /\ Fresh(wk.q)
  BY MoveVidFlash DEF IInv, FlashOk, Doing
<1>1. NoVid.st # "ok" /\ TornVid.st # "ok" /\ MovedVid.st = "ok"
  BY DEF NoVid, TornVid, MovedVid, Vid
<1>2. Pending = Do("vid", wk.q, MovedVid)
  BY DEF Pending
<1>3. Done = [peb EXCEPT ![wk.q].vid = MovedVid] /\ Half = {peb, [peb EXCEPT ![wk.q].vid = TornVid]}
  BY <1>2 DEF Done, Half, Do
<1>4. peb[wk.q].vid = NoVid /\ peb[wk.q] \in PebState
  BY <1>0 DEF Fresh
<1> HIDE DEF MovedVid
<1>5. g = Done => g[wk.q].vid = MovedVid
  BY <1>0, <1>3, <1>4 DEF PebState
<1>6. g \in Half => g[wk.q].vid.st # "ok"
  BY <1>0, <1>1, <1>3, <1>4 DEF PebState
<1> QED BY <1>0, <1>1, <1>4, <1>5, <1>6 DEF VidTo, Written, Others, Fine

LEMMA OpVidEffect ==
  ASSUME IInv, On, op.at = "vid", wk.at = "none", NEW g \in Half \cup {Done}
  PROVE  VidTo(g, op.p, Vid(op.l, op.sq, op.crc))
<1> DEFINE v == Vid(op.l, op.sq, op.crc)
<1>0. peb \in [Pebs -> PebState] /\ op.p \in Pebs \ bad /\ Written(g, op.p) /\ g[op.p].data = <<>> /\ Fresh(op.p)
  BY OpVidFlash DEF IInv, FlashOk, Calling
<1>1. NoVid.st # "ok" /\ TornVid.st # "ok" /\ v.st = "ok"
  BY DEF NoVid, TornVid, Vid
<1>2. Pending = Do("vid", op.p, v)
  BY DEF Pending
<1>3. Done = [peb EXCEPT ![op.p].vid = v] /\ Half = {peb, [peb EXCEPT ![op.p].vid = TornVid]}
  BY <1>2 DEF Done, Half, Do
<1>4. peb[op.p].vid = NoVid /\ peb[op.p] \in PebState
  BY <1>0 DEF Fresh
<1> HIDE DEF v
<1>5. g = Done => g[op.p].vid = v
  BY <1>0, <1>3, <1>4 DEF PebState
<1>6. g \in Half => g[op.p].vid.st # "ok"
  BY <1>0, <1>1, <1>3, <1>4 DEF PebState
<1>7. VidTo(g, op.p, v)
  BY <1>0, <1>1, <1>4, <1>5, <1>6 DEF VidTo, Written, Others, Fine
<1> QED BY <1>7 DEF v

\* A page is appended to d, or cut.
PageTo(g, d, v) ==
  /\ d \in Fine /\ Others(g, d) /\ g \in [Pebs -> PebState]
  /\ peb[d].vid.st = "ok" /\ g[d].vid = peb[d].vid
  /\ peb[d].data \in Seq(Nat) /\ Len(peb[d].data) < Pages /\ v \in Nat
  /\ g = Done => g[d].data = Append(peb[d].data, v)
  /\ g \in Half => g[d].data \in {peb[d].data, Append(peb[d].data, Torn)}

\* What a page written to d leaves.
LEMMA PageEffect ==
  ASSUME IInv, NEW d \in Fine, HasVid(d), Len(peb[d].data) < Pages, NEW v \in Nat,
         Pending = Do("page", d, v), NEW g \in Half \cup {Done}
  PROVE  PageTo(g, d, v)
<1>0. FlashOk /\ d \in Pebs \ bad /\ Torn \in Nat
  BY DEF IInv, Fine, Torn
<1>1. Done = PutPage(d, v) /\ Half = {peb, PutPage(d, Torn)}
  BY DEF Done, Half, Do, PutPage
<1>2. ASSUME NEW x \in Nat, g = PutPage(d, x)
      PROVE  Written(g, d) /\ g[d].vid = peb[d].vid /\ g[d].data = Append(peb[d].data, x)
  BY <1>0, <1>2, PageWritten
<1>3. Written(g, d) /\ g[d].vid = peb[d].vid
  BY <1>0, <1>1, <1>2, SameWritten
<1>4. /\ g = Done => g[d].data = Append(peb[d].data, v)
      /\ g \in Half => g[d].data \in {peb[d].data, Append(peb[d].data, Torn)}
  BY <1>0, <1>1, <1>2
<1>5. peb[d].data \in Seq(Nat)
  BY <1>0, PebFacts
<1> QED BY <1>3, <1>4, <1>5 DEF PageTo, Written, Others, HasVid

LEMMA MovePageEffect ==
  ASSUME IInv, On, wk.at = "data", NEW g \in Half \cup {Done}
  PROVE  PageTo(g, wk.q, peb[wk.p].data[wk.n + 1])
<1> DEFINE d == wk.q
           n == wk.n
           src == peb[wk.p].data
<1>0. /\ FlashOk /\ d \in Fine /\ HasVid(d) /\ wk.p \in Pebs /\ n \in Nat
      /\ Len(peb[d].data) = n /\ n < Len(src)
  <2>1. Moves
    BY DEF Moves
  <2> QED BY <2>1, HandsGood DEF IInv, Doing, RamOk, WkState, Fine
<1>1. src \in Seq(Nat) /\ Len(src) \in Nat /\ Len(src) <= Pages /\ Pages \in Nat
  BY <1>0, PebFacts, UbiAssumption DEF FlashOk
<1>2. Pending = Do("page", d, src[n + 1])
  BY DEF Pending
<1> HIDE DEF d, src, n
<1>3. n + 1 \in 1 .. Len(src) /\ Len(peb[d].data) < Pages
  BY <1>0, <1>1
<1>4. src[n + 1] \in Nat
  BY <1>1, <1>3
<1>5. PageTo(g, d, src[n + 1])
  BY <1>0, <1>2, <1>3, <1>4, PageEffect
<1> QED BY <1>5 DEF d, src, n

LEMMA OpPageEffect ==
  ASSUME IInv, On, op.at \in {"data", "append"}, wk.at = "none", NEW g \in Half \cup {Done}
  PROVE  /\ PageTo(g, IF op.at = "data" THEN op.p ELSE eba[op.l], op.buf[op.n + 1])
         /\ op.n \in Nat /\ op.n + 1 \in DOMAIN op.buf /\ op.buf \in Seq(Nat) /\ Len(op.buf) <= Pages
         /\ op.n + 1 <= Len(op.buf)
<1> DEFINE n == op.n
           src == op.buf
           d == IF op.at = "data" THEN op.p ELSE eba[op.l]
           k == Len(peb[d].data)
           b == Len(op.buf)
<1>0. /\ FlashOk /\ n \in Nat /\ src \in Seq(Nat) /\ b \in Nat
      /\ n < b /\ b <= Pages /\ Pages \in Nat
  BY UbiAssumption DEF IInv, Calling, RamOk, OpState
<1>1. d \in Fine /\ HasVid(d) /\ k \in Nat /\ (op.at = "data" => k = n)
      /\ (op.at = "append" => n <= k /\ k - n + b <= Pages)
  <2>1. CASE op.at = "data"
    <3>1. d \in Pebs \ bad /\ HasVid(d) /\ k = n
      BY <2>1, HandsGood DEF IInv, Calling
    <3> QED BY <1>0, <2>1, <3>1 DEF Fine
  <2>2. CASE op.at = "append"
    <3>1. d # None /\ op.l \in Lebs /\ d = eba[op.l]
      BY <2>2 DEF IInv, Calling
    <3>2. d \in Pebs \ bad /\ HasVid(d)
      BY <3>1, HandsGood DEF IInv, Linked
    <3>3. k \in Nat
      BY <1>0, <3>2, PebFacts
    <3>4. n <= k /\ k - n + b <= Pages
      BY <2>2, <3>1 DEF IInv, Calling, DataOf
    <3> QED BY <2>2, <3>2, <3>3, <3>4 DEF Fine
  <2> QED BY <2>1, <2>2
<1>2. Pending = Do("page", d, src[n + 1])
  BY DEF Pending
<1> HIDE DEF d, k, b, n
<1>3. n + 1 \in 1 .. b /\ k < Pages /\ n + 1 <= b
  <2>3. n + 1 \in 1 .. b
    BY <1>0, Room
  <2>4. k = n => k < Pages
    BY <1>0
  <2>5. n <= k /\ k - n + b <= Pages => k < Pages
    BY <1>0, <1>1, Room
  <2> QED BY <1>0, <1>1, <2>3, <2>4, <2>5
<1>4. src[n + 1] \in Nat
  BY <1>0, <1>3 DEF b
<1>5. PageTo(g, d, src[n + 1])
  BY <1>1, <1>2, <1>3, <1>4, PageEffect DEF k
<1> QED BY <1>0, <1>3, <1>5 DEF d, n, b

\* No operation on the flash.
LEMMA NoEffect ==
  ASSUME IInv, wk.at \notin {"erase", "ec", "vid", "data"},
         wk.at = "none" => op.at \notin {"append", "vid", "data"}, NEW g \in Half \cup {Done}
  PROVE  g = peb
<1>1. Pending = Do("none", None, None)
  BY DEF Pending
<1> QED BY <1>1 DEF Done, Half, Do

\* The first pages of a buffer.
LEMMA FirstPages ==
  ASSUME NEW s \in Seq(Nat), NEW n \in 0 .. Len(s)
  PROVE  /\ SubSeq(s, 1, n) \in Seq(Nat) /\ Len(SubSeq(s, 1, n)) = n
         /\ \A i \in 1 .. n : SubSeq(s, 1, n)[i] = s[i]
         /\ n + 1 <= Len(s) => SubSeq(s, 1, n + 1) = Append(SubSeq(s, 1, n), s[n + 1])
         /\ SubSeq(s, 1, Len(s)) = s
<1> DEFINE t == SubSeq(s, 1, n)
           m == Len(s)
<1>1. m \in Nat /\ n \in Nat /\ n <= m /\ DOMAIN s = 1 .. m
  OBVIOUS
<1>2. \A i \in 1 .. n : s[i] \in Nat
  BY <1>1
<1>3. t \in Seq(Nat) /\ Len(t) = n /\ \A i \in 1 .. n : t[i] = s[i]
  BY <1>1, <1>2
<1>4. ASSUME n + 1 <= m PROVE SubSeq(s, 1, n + 1) = Append(t, s[n + 1])
  <2> DEFINE u == SubSeq(s, 1, n + 1)
             w == Append(t, s[n + 1])
  <2>0. n + 1 \in 1 .. m /\ s[n + 1] \in Nat
    BY <1>1, <1>4
  <2>1. u \in Seq(Nat) /\ Len(u) = n + 1 /\ \A i \in 1 .. n + 1 : u[i] = s[i]
    BY <1>1, <1>4, <2>0
  <2> HIDE DEF t
  <2>2. w \in Seq(Nat) /\ Len(w) = n + 1 /\ (\A i \in 1 .. n : w[i] = t[i]) /\ w[n + 1] = s[n + 1]
    BY <1>1, <1>3, <2>0
  <2> HIDE DEF u, w, m
  <2>3. \A i \in 1 .. n + 1 : u[i] = w[i]
    BY <1>1, <1>3, <2>1, <2>2
  <2> QED BY <2>1, <2>2, <2>3 DEF u, w
<1>5. SubSeq(s, 1, m) = s
  OBVIOUS
<1> QED BY <1>3, <1>4, <1>5

\* Pages that a write of v leaves, complete or cut.
LEMMA RunIs ==
  ASSUME NEW v \in Nat, NEW s \in Seq(Nat), Len(s) <= Pages, \A i \in 1 .. Len(s) : s[i] = v
  PROVE  s \in Store!Runs(v) /\ s \in Store!Cuts(v) /\ Append(s, Torn) \in Store!Cuts(v)
<1>1. Len(s) \in 0 .. Pages
  BY UbiAssumption
<1>2. s = [i \in 1 .. Len(s) |-> v]
  OBVIOUS
<1>3. s \in Store!Runs(v)
  BY <1>1, <1>2 DEF Store!Runs
<1> QED BY <1>3 DEF Store!Cuts

LEMMA EmptyRun == \A v : <<>> \in Store!Cuts(v)
<1> TAKE v
<1>1. 0 \in 0 .. Pages
  BY UbiAssumption
<1>2. <<>> = [i \in 1 .. 0 |-> v]
  OBVIOUS
<1> QED BY <1>1, <1>2 DEF Store!Cuts, Store!Runs

LEMMA WrittenState == ASSUME FlashOk, NEW d \in Pebs, NEW g, Written(g, d) PROVE FlashState(g, Fine)
<1>1. g \in [Pebs -> PebState] /\ Fine \subseteq Pebs
  BY DEF Written, Fine
<1> SUFFICES ASSUME NEW p \in Fine, NEW q \in Fine, p # q, g[p].vid.st = "ok", g[q].vid.st = "ok"
             PROVE  g[p].vid.sq # g[q].vid.sq
  BY <1>1 DEF FlashState
<1>2. CASE p # d /\ q # d
  BY <1>2, FlashIs DEF Written, FlashState, Fine
<1>3. CASE p = d
  BY <1>3 DEF Written, Fine, HasVid
<1>4. CASE q = d
  BY <1>4 DEF Written, Fine, HasVid
<1> QED BY <1>2, <1>3, <1>4

LEMMA EffectState ==
  ASSUME IInv, On, NEW g \in Half \cup {Done} PROVE FlashState(g, Fine)
<1>0. FlashOk
  BY DEF IInv
<1>1. CASE wk.at = "erase"
  BY <1>0, <1>1, EraseFlash, WrittenState
<1>2. CASE wk.at = "ec"
  BY <1>0, <1>2, EcFlash, WrittenState
<1>3. CASE wk.at = "vid"
  BY <1>0, <1>3, MoveVidFlash, WrittenState
<1>4. CASE wk.at = "data"
  BY <1>0, <1>4, MovePageFlash, WrittenState
<1>5. CASE wk.at = "none" /\ op.at = "vid"
  BY <1>0, <1>5, OpVidFlash, WrittenState
<1>6. CASE wk.at = "none" /\ op.at \in {"append", "data"}
  <2> DEFINE d == IF op.at = "data" THEN op.p ELSE eba[op.l]
  <2>1. Written(g, d) /\ d \in Pebs
    BY <1>6, OpPageFlash
  <2> QED BY <1>0, <2>1, WrittenState
<1>7. CASE wk.at \notin {"erase", "ec", "vid", "data"} /\ (wk.at = "none" => op.at \notin {"append", "vid", "data"})
  BY <1>0, <1>7, NoEffect, FlashIs
<1> QED BY <1>1, <1>2, <1>3, <1>4, <1>5, <1>6, <1>7

\* Where the copies of a logical eraseblock are.
LEMMA CopyPlaces ==
  ASSUME IInv, On, NEW l \in Lebs, NEW c \in CopiesOf(peb, Fine, l)
  PROVE  \/ c \in Queued \/ (Erases /\ c = wk.p)
         \/ op.at \in {"data", "map"} /\ c = op.p /\ op.l = l
         \/ c = eba[l]
         \/ wk.at \in {"data", "moved"} /\ c = wk.q /\ eba[l] = wk.p /\ peb[wk.p].vid.l = l
<1>0. /\ c \in Pebs \ bad /\ HasVid(c) /\ peb[c].vid.l = l
      /\ free \cup used \cup scrub \cup Hands \cup Queued = Pebs \ bad
      /\ used \cup scrub \subseteq Mapped \cup (IF op.p = None THEN {} ELSE {op.p})
  BY DEF CopiesOf, Fine, HasVid, IInv, Shared
<1>1. c \notin free
  BY <1>0 DEF IInv, Linked, Fresh, HasVid, NoVid
<1>2. CASE c \in used \cup scrub
  <2>1. CASE c \in Mapped
    <3>1. PICK k \in Lebs : c = eba[k] /\ c # None
      BY <2>1 DEF Mapped
    <3>2. k = l
      BY <1>0, <3>1 DEF IInv, Linked
    <3> QED BY <3>1, <3>2
  <2>2. CASE c = op.p /\ op.p # None
    <3>1. op.at \in {"vid", "data", "map"}
      BY <2>2 DEF IInv, Calling
    <3>2. op.at # "vid"
      BY <1>0, <2>2 DEF IInv, Calling, Fresh, HasVid, NoVid
    <3> QED BY <1>0, <2>2, <3>1, <3>2 DEF IInv, Calling
  <2> QED BY <1>0, <1>2, <2>1, <2>2
<1>3. CASE c \in Hands
  <2>1. CASE Erases
    BY <1>3, <2>1 DEF Hands
  <2>2. CASE Moves /\ ~Erases
    <3>1. c = wk.p \/ c = wk.q
      BY <1>3, <2>2 DEF Hands
    <3>2. CASE c = wk.p
      BY <1>0, <2>2, <3>2 DEF IInv, Doing
    <3>3. CASE c = wk.q
      <4>1. wk.at # "vid"
        BY <1>0, <3>3 DEF IInv, Doing, Fresh, HasVid, NoVid
      <4> QED BY <1>0, <2>2, <3>3, <4>1 DEF IInv, Doing, Moves
    <3> QED BY <3>1, <3>2, <3>3
  <2> QED BY <1>3, <2>1, <2>2 DEF Hands
<1> QED BY <1>0, <1>1, <1>2, <1>3

\* The mapped one is in no other place.
LEMMA MappedPlace ==
  ASSUME IInv, On, NEW l \in Lebs, eba[l] # None
  PROVE  /\ eba[l] \in CopiesOf(peb, Fine, l) /\ eba[l] \notin Queued /\ eba[l] # op.p
         /\ Erases => eba[l] # wk.p
         /\ Moves => eba[l] # wk.q
<1>1. eba[l] \in Pebs \ bad /\ HasVid(eba[l]) /\ peb[eba[l]].vid.l = l
  BY HandsGood DEF IInv, Linked
<1>2. eba[l] \in Mapped /\ op.p \notin Mapped
  BY DEF Mapped, IInv, Shared
<1>3. eba[l] \in used \cup scrub \cup (IF Moves THEN {wk.p} ELSE {})
  BY <1>2 DEF IInv, Shared
<1>4. Moves => ~Erases /\ wk.p # wk.q
  BY DEF Moves, Erases, IInv, Doing
<1>5. Apart(free, used, scrub, Hands, Queued)
  BY DEF IInv, Shared
<1>6. Erases => Hands = {wk.p}
  BY DEF Hands
<1>7. Moves => Hands = {wk.p, wk.q}
  BY <1>4 DEF Hands
<1> QED BY <1>1, <1>2, <1>3, <1>4, <1>5, <1>6, <1>7 DEF Apart, CopiesOf, Fine, HasVid

LEMMA HandPlace ==
  ASSUME IInv, On, Erases
  PROVE  wk.p \notin Queued /\ wk.p # op.p /\ op.p = None /\ wk.p \in Pebs \ bad
<1>1. wk.p \in Hands /\ wk.at # "none" /\ wk.p \in Pebs \ bad
  BY HandsGood DEF Hands, Erases, IInv
<1>2. wk.p \notin Queued
  BY <1>1 DEF IInv, Shared, Apart
<1>3. op.p = None
  BY <1>1 DEF IInv, Calling, Doing
<1>4. wk.p # None
  BY <1>1 DEF Pebs, None
<1> QED BY <1>1, <1>2, <1>3, <1>4

(***************************************************************************)
(* An unmapped eraseblock, when the flash changes to g.                    *)
(***************************************************************************)
\* K becomes J: copies are erased, and the call under way may add one.
Relayered(g, l, K, J, z) ==
  /\ Layers(g, Fine, l, J, z, Now)
  /\ Renews(FoundIn(peb, Fine, l), FoundIn(g, Fine, l), Now)
  /\ CopiesOf(g, Fine, l) \ J \subseteq CopiesOf(peb, Fine, l) \ K
  /\ J \subseteq K \cup {op.p}
  /\ op.p \in J /\ op.p \notin K => wk.at = "none" /\ op.at = "vid" /\ op.l = l /\ g = Done
  /\ op.at \in {"data", "map"} /\ op.l = l => op.p \in J
  /\ wk.at = "none" /\ op.at = "vid" /\ op.l = l /\ g = Done => op.p \in J

Unmapped(l, K, z) == /\ l \in Lebs \ hurt /\ eba[l] = None
                     /\ Layers(peb, Fine, l, K, z, Now) /\ Line(l, K, z)

LEMMA LayersUntouched ==
  ASSUME IInv, On, NEW l, NEW K, NEW z, Unmapped(l, K, z), NEW g \in Half \cup {Done},
         NEW d, Others(g, d), d \notin CopiesOf(peb, Fine, l), d \notin CopiesOf(g, Fine, l),
         ~(wk.at = "none" /\ op.at = "vid" /\ op.l = l /\ g = Done)
  PROVE  Relayered(g, l, K, K, z)
<1>0. FlashState(peb, Fine) /\ FlashState(g, Fine) /\ Fine \subseteq Pebs
  BY FlashIs, EffectState DEF IInv, Fine
<1>1. CopiesOf(g, Fine, l) = CopiesOf(peb, Fine, l) /\ \A p \in CopiesOf(peb, Fine, l) : g[p] = peb[p]
  BY <1>0, Untouched DEF Others
<1>2. Layers(g, Fine, l, K, z, Now)
  BY <1>1, LayersSame DEF Unmapped
<1>3. FoundIn(g, Fine, l) = FoundIn(peb, Fine, l)
  BY <1>0, <1>1, FoundSame
<1> QED BY <1>1, <1>2, <1>3 DEF Relayered, Renews, Unmapped, Line

LEMMA AheadIn == \A d, z : Ahead(d, z) => z \in ToSet(works)
BY DEF Ahead, ToSet

\* A copy is gone, erased or in a bad eraseblock: it was the first in line.
LEMMA CopyGone ==
  ASSUME IInv, On, Erases, NEW l, NEW K, NEW z, Unmapped(l, K, z),
         NEW g, NEW S, FlashState(g, S), NEW C, C = CopiesOf(peb, Fine, l),
         wk.p \in C, CopiesOf(g, S, l) = C \ {wk.p}, \A p \in C \ {wk.p} : g[p] = peb[p]
  PROVE  /\ Layers(g, S, l, K \ {wk.p}, z, Now)
         /\ Renews(FoundIn(peb, Fine, l), FoundIn(g, S, l), Now)
<1> DEFINE d == wk.p
           J == K \ {d}
           N == C \ K
<1>0. d \notin ToSet(works) /\ d # op.p /\ FlashState(peb, Fine) /\ d # WL
  BY HandPlace, FlashIs DEF IInv, Queued, Pebs, WL
<1>1. /\ K \subseteq C /\ Line(l, K, z)
      /\ \A c \in K : peb[c].data \in Store!Cuts(Now)
      /\ \A c \in K, e \in N : peb[e].vid.sq < peb[c].vid.sq
      /\ N # {} => z \in N /\ Intact(peb[z]) /\ \A e \in N : Intact(peb[e]) => peb[e].vid.sq <= peb[z].vid.sq
  BY DEF Unmapped, Layers
<1>2. d \in K => N = {}
  BY <1>0, <1>1, AheadIn DEF Line
<1>3. d = z => N \subseteq {z}
  BY <1>0, <1>1, AheadIn DEF Line
<1>4. (C \ {d}) \ J = N \ {d}
  OBVIOUS
<1> HIDE DEF d, J, N
<1>5. N \ {d} # {} => d \notin K /\ d # z /\ N # {} /\ z \in N \ {d} /\ J = K
  BY <1>1, <1>2, <1>3 DEF J
<1>6. J \subseteq C \ {d} /\ J \subseteq K /\ N \subseteq C
  BY <1>1 DEF J, N
<1>7. \A p \in C \ {d} : g[p] = peb[p]
  BY DEF d
<1>8. Layers(g, S, l, J, z, Now)
  <2>1. \A c \in J : g[c].data \in Store!Cuts(Now)
    BY <1>1, <1>6, <1>7
  <2>2. \A c \in J, e \in N \ {d} : g[e].vid.sq < g[c].vid.sq
    BY <1>1, <1>6, <1>7
  <2>3. N \ {d} # {} => z \in N \ {d} /\ Intact(g[z])
                        /\ \A e \in N \ {d} : Intact(g[e]) => g[e].vid.sq <= g[z].vid.sq
    BY <1>1, <1>5, <1>6, <1>7
  <2>4. CopiesOf(g, S, l) = C \ {d}
    BY DEF d
  <2> QED BY <1>4, <1>6, <2>1, <2>2, <2>3, <2>4 DEF Layers
<1>9. N \ {d} # {} => N # {} /\ g[z].data = peb[z].data /\ \A c \in K : Intact(peb[c]) => \E x \in J : Intact(g[x])
  BY <1>1, <1>5, <1>6, <1>7
<1>10. CopiesOf(g, S, l) \ J # {} => /\ CopiesOf(peb, Fine, l) \ K # {} /\ g[z].data = peb[z].data
                                     /\ \A c \in K : Intact(peb[c]) => \E x \in J : Intact(g[x])
  BY <1>4, <1>9 DEF d, N
<1>11. Layers(peb, Fine, l, K, z, Now)
  BY DEF Unmapped
<1>12. Renews(FoundIn(peb, Fine, l), FoundIn(g, S, l), Now)
  BY <1>0, <1>8, <1>10, <1>11, LayersRenew
<1> QED BY <1>8, <1>12 DEF J, d

LEMMA EraseLayers ==
  ASSUME IInv, On, wk.at \in {"erase", "ec"}, NEW l, NEW K, NEW z, Unmapped(l, K, z),
         NEW g \in Half \cup {Done}
  PROVE  \E J : Relayered(g, l, K, J, z)
<1> DEFINE C == CopiesOf(peb, Fine, l)
           d == wk.p
<1>0. FlashState(g, Fine) /\ d \in Fine /\ Others(g, d) /\ Fine \subseteq Pebs
      /\ (g[d].vid.st # "ok" \/ g[d] = peb[d]) /\ Erases
  BY EffectState, EraseEffect DEF Erases, Fine
<1>1. CASE d \in C /\ g[d].vid.st # "ok"
  <2>1. CopiesOf(g, Fine, l) = C \ {d} /\ \A p \in C \ {d} : g[p] = peb[p]
    BY <1>0, <1>1 DEF CopiesOf, Others
  <2>2. Layers(g, Fine, l, K \ {d}, z, Now) /\ Renews(FoundIn(peb, Fine, l), FoundIn(g, Fine, l), Now)
    BY <1>0, <1>1, <2>1, CopyGone
  <2>3. op.at \notin {"vid", "data", "map"}
    BY DEF IInv, Doing
  <2> QED BY <2>1, <2>2, <2>3 DEF Relayered
<1>2. CASE d \in C /\ g[d] = peb[d]
  <2>1. CopiesOf(g, Fine, l) = C /\ \A p \in C : g[p] = peb[p]
    BY <1>0, <1>2 DEF CopiesOf, Others
  <2>2. Layers(g, Fine, l, K, z, Now)
    BY <2>1, LayersSame DEF Unmapped
  <2>3. FoundIn(g, Fine, l) = FoundIn(peb, Fine, l)
    BY <1>0, <2>1, FlashIs, FoundSame DEF IInv
  <2>4. Relayered(g, l, K, K, z)
    BY <2>1, <2>2, <2>3 DEF Relayered, Renews, Unmapped, Line
  <2> QED BY <2>4
<1>3. CASE d \notin C
  <2>1. d \notin CopiesOf(g, Fine, l)
    BY <1>0, <1>3 DEF CopiesOf
  <2>2. ~(wk.at = "none" /\ op.at = "vid" /\ op.l = l /\ g = Done)
    OBVIOUS
  <2>3. Relayered(g, l, K, K, z)
    BY <1>0, <1>3, <2>1, <2>2, LayersUntouched
  <2> QED BY <2>3
<1> QED BY <1>0, <1>1, <1>2, <1>3

\* A copy of a mapped one is moved.
LEMMA MoveLayers ==
  ASSUME IInv, On, wk.at \in {"vid", "data"}, NEW l, NEW K, NEW z, Unmapped(l, K, z),
         NEW g \in Half \cup {Done}
  PROVE  \E J : Relayered(g, l, K, J, z)
<1> DEFINE d == wk.q
<1>0. eba[l] = None /\ eba[peb[wk.p].vid.l] = wk.p /\ wk.p # None /\ peb[wk.p].vid.l # l
  BY DEF Unmapped, IInv, Doing, Moves, Pebs, None
<1>1. CASE wk.at = "vid"
  <2>1. VidTo(g, d, MovedVid) /\ MovedVid.l = peb[wk.p].vid.l
    BY <1>1, MoveVidEffect DEF MovedVid, Vid
  <2>2. Others(g, d) /\ d \notin CopiesOf(peb, Fine, l) /\ d \notin CopiesOf(g, Fine, l)
    BY <1>0, <2>1 DEF VidTo, CopiesOf
  <2>3. Relayered(g, l, K, K, z)
    BY <1>1, <2>2, LayersUntouched
  <2> QED BY <2>3
<1>2. CASE wk.at = "data"
  <2>1. PageTo(g, d, peb[wk.p].data[wk.n + 1]) /\ peb[d].vid.l = peb[wk.p].vid.l
    BY <1>2, MovePageEffect DEF IInv, Doing
  <2>2. Others(g, d) /\ d \notin CopiesOf(peb, Fine, l) /\ d \notin CopiesOf(g, Fine, l)
    BY <1>0, <2>1 DEF PageTo, CopiesOf
  <2>3. Relayered(g, l, K, K, z)
    BY <1>2, <2>2, LayersUntouched
  <2> QED BY <2>3
<1> QED BY <1>1, <1>2

\* What a step of the call under way leaves is a run of what it writes.
LEMMA NowIs == ASSUME IInv PROVE Now \in Nat /\ Now # Torn /\ Now >= 1
BY DEF IInv, RamOk, Now, Torn

LEMMA CrcLonger == ASSUME NEW c, NEW n \in Nat, NEW m \in Nat, Len(c.data) = n, Len(c.vid.crc) = m, n < m PROVE ~Intact(c)
BY DEF Intact

LEMMA OpVidLayers ==
  ASSUME IInv, Called, On, wk.at = "none", op.at = "vid", NEW l, NEW K, NEW z, Unmapped(l, K, z),
         NEW g \in Half \cup {Done}
  PROVE  \E J : Relayered(g, l, K, J, z)
<1> DEFINE d == op.p
           C == CopiesOf(peb, Fine, l)
           v == Vid(op.l, op.sq, op.crc)
<1>0. VidTo(g, d, v) /\ v.st = "ok" /\ v.l = op.l /\ v.sq = op.sq
  BY OpVidEffect DEF Vid
<1>1. /\ d \in Fine /\ Others(g, d) /\ g[d].data = <<>> /\ d \notin C /\ Fine \subseteq Pebs
      /\ g = Done => g[d].vid = v
      /\ g \in Half => g[d].vid.st # "ok"
  BY <1>0 DEF VidTo, CopiesOf, Fine
<1>2. FlashState(g, Fine) /\ FlashState(peb, Fine)
  BY EffectState, FlashIs DEF IInv
<1>3. CASE op.l # l \/ g # Done
  <2>1. d \notin CopiesOf(g, Fine, l)
    BY <1>0, <1>1, <1>3 DEF CopiesOf
  <2>2. Relayered(g, l, K, K, z)
    BY <1>1, <1>3, <2>1, LayersUntouched
  <2> QED BY <2>2
<1>4. CASE op.l = l /\ g = Done
  <2> DEFINE J == K \cup {d}
  <2>1. g[d].vid.st = "ok" /\ g[d].vid.l = l /\ g[d].vid.sq = op.sq
    BY <1>0, <1>1, <1>4
  <2>2. \A p \in C : g[p] = peb[p] /\ p # d /\ p \in Fine
    BY <1>1 DEF Others, CopiesOf
  <2>3. CopiesOf(g, Fine, l) = C \cup {d}
    BY <1>1, <2>1, <2>2 DEF CopiesOf, Others
  <2>4. \A p \in C : peb[p].vid.sq < op.sq
    <3> SUFFICES ASSUME NEW p \in C PROVE peb[p].vid.sq < op.sq
      OBVIOUS
    <3>1. p \in Pebs \ bad /\ HasVid(p) /\ peb[p].vid.sq \in Nat
      BY <1>2, CopyFacts DEF Fine, HasVid
    <3>2. peb[p].vid.sq < sqnum /\ peb[p].vid.sq # op.sq /\ op.sq + 1 = sqnum
      BY <3>1 DEF IInv, Numbered, Called
    <3>3. op.sq \in Nat /\ sqnum \in Nat
      BY DEF IInv, RamOk, OpState
    <3> QED BY <3>1, <3>2, <3>3
  <2>5. /\ K \subseteq C
        /\ \A c \in K : peb[c].data \in Store!Cuts(Now)
        /\ \A c \in K, e \in C \ K : peb[e].vid.sq < peb[c].vid.sq
        /\ C \ K # {} => /\ z \in C \ K /\ Intact(peb[z])
                         /\ \A e \in C \ K : Intact(peb[e]) => peb[e].vid.sq <= peb[z].vid.sq
    BY DEF Unmapped, Layers
  <2> HIDE DEF C, d
  <2>6. (C \cup {d}) \ J = C \ K
    BY <1>1, <2>5
  <2>7. Layers(g, Fine, l, J, z, Now)
    <3>1. \A c \in J : g[c].data \in Store!Cuts(Now)
      BY <1>1, <2>2, <2>5, EmptyRun
    <3>2. \A c \in J, e \in C \ K : g[e].vid.sq < g[c].vid.sq
      BY <2>1, <2>2, <2>4, <2>5
    <3>3. C \ K # {} => /\ z \in C \ K /\ Intact(g[z])
                        /\ \A e \in C \ K : Intact(g[e]) => g[e].vid.sq <= g[z].vid.sq
      BY <2>2, <2>5
    <3> QED BY <2>3, <2>5, <2>6, <3>1, <3>2, <3>3 DEF Layers
  <2>8. CopiesOf(g, Fine, l) \ J # {} => /\ C \ K # {} /\ g[z].data = peb[z].data
                                         /\ \A c \in K : Intact(peb[c]) => \E x \in J : Intact(g[x])
    BY <2>2, <2>3, <2>5, <2>6
  <2>9. Layers(peb, Fine, l, K, z, Now)
    BY DEF Unmapped
  <2>10. Renews(FoundIn(peb, Fine, l), FoundIn(g, Fine, l), Now)
    BY <1>2, <2>7, <2>8, <2>9, LayersRenew DEF C
  <2>11. CopiesOf(g, Fine, l) \ J \subseteq C \ K
    BY <2>3, <2>6
  <2>12. Relayered(g, l, K, J, z)
    BY <1>4, <2>7, <2>10, <2>11 DEF Relayered, C, d
  <2> QED BY <2>12
<1> QED BY <1>3, <1>4

LEMMA OpPageLayers ==
  ASSUME IInv, Called, On, wk.at = "none", op.at = "data", NEW l, NEW K, NEW z, Unmapped(l, K, z),
         NEW g \in Half \cup {Done}
  PROVE  \E J : Relayered(g, l, K, J, z)
<1> DEFINE d == op.p
           C == CopiesOf(peb, Fine, l)
<1>0. /\ PageTo(g, d, op.buf[op.n + 1]) /\ op.n \in Nat /\ op.n + 1 \in DOMAIN op.buf
      /\ op.buf \in Seq(Nat) /\ Len(op.buf) <= Pages /\ op.n + 1 <= Len(op.buf)
  BY OpPageEffect
<1>1. /\ d \in Fine /\ Others(g, d) /\ peb[d].vid.st = "ok" /\ g[d].vid = peb[d].vid /\ peb[d].vid.l = op.l
      /\ Fine \subseteq Pebs
  BY <1>0 DEF PageTo, IInv, Calling, Fine
<1>2. FlashState(g, Fine) /\ FlashState(peb, Fine)
  BY EffectState, FlashIs DEF IInv
<1>3. CASE op.l # l
  <2>1. d \notin CopiesOf(g, Fine, l) /\ d \notin C
    BY <1>1, <1>3 DEF CopiesOf
  <2>2. Relayered(g, l, K, K, z)
    BY <1>1, <1>3, <2>1, LayersUntouched
  <2> QED BY <2>2
<1>4. CASE op.l = l
  <2>1. /\ op.k \in {"write", "change"} /\ d \in K
        /\ peb[d].vid.crc = op.crc /\ peb[d].data = SubSeq(op.buf, 1, op.n)
        /\ \A i \in DOMAIN op.buf : op.buf[i] = Now
        /\ op.k = "write" => op.crc = <<>>
        /\ op.k = "change" => op.crc = op.buf
    BY <1>4 DEF Called, Writing, Unmapped, Line
  <2>2. Now \in Nat
    BY NowIs
  <2>3. g[d].data \in Store!Cuts(Now)
    <3> DEFINE s == SubSeq(op.buf, 1, op.n)
               t == SubSeq(op.buf, 1, op.n + 1)
    <3>1. Len(op.buf) \in Nat /\ op.n \in 0 .. Len(op.buf) /\ op.n + 1 \in 0 .. Len(op.buf) /\ DOMAIN op.buf = 1 .. Len(op.buf)
      BY <1>0
    <3>2. /\ s \in Seq(Nat) /\ Len(s) = op.n /\ (\A i \in 1 .. op.n : s[i] = op.buf[i])
          /\ t = Append(s, op.buf[op.n + 1])
      BY <1>0, <3>1, FirstPages
    <3>3. t \in Seq(Nat) /\ Len(t) = op.n + 1 /\ (\A i \in 1 .. op.n + 1 : t[i] = op.buf[i])
      BY <1>0, <3>1, FirstPages
    <3> HIDE DEF s, t
    <3>4. (\A i \in 1 .. op.n : s[i] = Now) /\ (\A i \in 1 .. op.n + 1 : t[i] = Now)
      <4>1. \A i \in 1 .. op.n + 1 : i \in DOMAIN op.buf
        BY <1>0, <3>1
      <4>2. \A i \in 1 .. op.n : i \in DOMAIN op.buf
        BY <1>0, <3>1
      <4> QED BY <2>1, <3>2, <3>3, <4>1, <4>2
    <3>5. op.n <= Pages /\ op.n + 1 <= Pages
      BY <1>0, UbiAssumption
    <3>6. s \in Store!Cuts(Now) /\ t \in Store!Cuts(Now) /\ Append(s, Torn) \in Store!Cuts(Now)
      BY <2>2, <3>2, <3>3, <3>4, <3>5, RunIs
    <3>7. g[d].data \in {s, Append(s, Torn), t}
      BY <1>0, <2>1, <3>2 DEF PageTo, s
    <3> QED BY <3>6, <3>7
  <2>4. Intact(peb[d]) => Intact(g[d])
    <3>1. CASE op.k = "write"
      <4>1. g[d].vid.crc = <<>> /\ g[d].data \in Seq(Nat)
        BY <1>0, <1>1, <2>1, <3>1 DEF PageTo, PebState
      <4> QED BY <4>1 DEF Intact
    <3>2. CASE op.k = "change"
      <4>1. Len(peb[d].data) = op.n /\ Len(peb[d].vid.crc) = Len(op.buf) /\ op.n < Len(op.buf) /\ Len(op.buf) \in Nat
        BY <1>0, <2>1, <3>2 DEF IInv, Calling
      <4> QED BY <1>0, <4>1, CrcLonger
    <3> QED BY <2>1, <3>1, <3>2
  <2>5. /\ K \subseteq C
        /\ \A c \in K : peb[c].data \in Store!Cuts(Now)
        /\ \A c \in K, e \in C \ K : peb[e].vid.sq < peb[c].vid.sq
        /\ C \ K # {} => /\ z \in C \ K /\ Intact(peb[z])
                         /\ \A e \in C \ K : Intact(peb[e]) => peb[e].vid.sq <= peb[z].vid.sq
        /\ Layers(peb, Fine, l, K, z, Now)
    BY DEF Unmapped, Layers
  <2>6. CopiesOf(g, Fine, l) = C /\ \A p \in C : g[p].vid = peb[p].vid /\ (p # d => g[p] = peb[p])
    BY <1>1 DEF CopiesOf, Others
  <2> HIDE DEF C, d
  <2>7. Layers(g, Fine, l, K, z, Now)
    <3>1. \A c \in K : g[c].data \in Store!Cuts(Now)
      BY <2>3, <2>5, <2>6
    <3>2. \A c \in K, e \in C \ K : g[e].vid.sq < g[c].vid.sq
      BY <2>5, <2>6
    <3>3. C \ K # {} => /\ z \in C \ K /\ Intact(g[z])
                        /\ \A e \in C \ K : Intact(g[e]) => g[e].vid.sq <= g[z].vid.sq
      BY <2>1, <2>5, <2>6
    <3> QED BY <2>5, <2>6, <3>1, <3>2, <3>3 DEF Layers
  <2>8. CopiesOf(g, Fine, l) \ K # {} => /\ C \ K # {} /\ g[z].data = peb[z].data
                                         /\ \A c \in K : Intact(peb[c]) => \E x \in K : Intact(g[x])
    BY <2>1, <2>4, <2>5, <2>6
  <2>9. Renews(FoundIn(peb, Fine, l), FoundIn(g, Fine, l), Now)
    BY <1>2, <2>5, <2>7, <2>8, LayersRenew DEF C
  <2>10. Relayered(g, l, K, K, z)
    BY <2>1, <2>6, <2>7, <2>9 DEF Relayered, C, d
  <2> QED BY <2>10
<1> QED BY <1>3, <1>4

LEMMA UnmappedFlash ==
  ASSUME IInv, Called, On, NEW l, NEW K, NEW z, Unmapped(l, K, z), NEW g \in Half \cup {Done}
  PROVE  \E J : Relayered(g, l, K, J, z)
<1>1. CASE wk.at \in {"erase", "ec"}
  BY <1>1, EraseLayers
<1>2. CASE wk.at \in {"vid", "data"}
  BY <1>2, MoveLayers
<1>3. CASE wk.at = "none" /\ op.at = "vid"
  BY <1>3, OpVidLayers
<1>4. CASE wk.at = "none" /\ op.at = "data"
  BY <1>4, OpPageLayers
<1>5. CASE wk.at = "none" /\ op.at = "append"
  <2> DEFINE d == eba[op.l]
  <2>1. PageTo(g, d, op.buf[op.n + 1]) /\ op.l # l /\ peb[d].vid.l = op.l
    BY <1>5, OpPageEffect, AppendPeb DEF Unmapped, IInv, Calling
  <2>2. Others(g, d) /\ d \notin CopiesOf(peb, Fine, l) /\ d \notin CopiesOf(g, Fine, l)
    BY <2>1 DEF PageTo, CopiesOf
  <2>3. Relayered(g, l, K, K, z)
    BY <1>5, <2>2, LayersUntouched
  <2> QED BY <2>3
<1>6. CASE wk.at \notin {"erase", "ec", "vid", "data"} /\ (wk.at = "none" => op.at \notin {"append", "vid", "data"})
  <2>1. g = peb
    BY <1>6, NoEffect
  <2>2. Relayered(peb, l, K, K, z)
    BY <1>6 DEF Relayered, Renews, Unmapped, Line
  <2> QED BY <2>1, <2>2
<1> QED BY <1>1, <1>2, <1>3, <1>4, <1>5, <1>6

(***************************************************************************)
(* A mapped eraseblock, when the flash changes to g.                       *)
(***************************************************************************)
\* The last page of an atomic change is written.
Swaps(g, l) == /\ wk.at = "none" /\ op.at = "data" /\ op.l = l /\ op.k = "change" /\ g = Done
               /\ op.n + 1 = Len(op.buf) /\ g[op.p].data = op.buf

Appends(g, l) == /\ wk.at = "none" /\ op.at = "append" /\ op.l = l
                 /\ \/ g = Done /\ g[eba[l]].data = Append(peb[eba[l]].data, Now)
                    \/ g \in Half /\ g[eba[l]].data \in {peb[eba[l]].data, Append(peb[eba[l]].data, Torn)}

Follows(g, l) ==
  /\ eba[l] \in CopiesOf(g, Fine, l) /\ Intact(g[eba[l]]) /\ g[eba[l]].vid = peb[eba[l]].vid
  /\ g[eba[l]] = peb[eba[l]] \/ Appends(g, l)
  /\ \A c \in CopiesOf(g, Fine, l) : Intact(g[c]) =>
       \/ g[c].vid.sq <= g[eba[l]].vid.sq
       \/ op.at = "flush" /\ g[c].data = g[eba[l]].data
       \/ op.at = "map" /\ c = op.p
       \/ Swaps(g, l) /\ c = op.p

LEMMA IntactFull ==
  ASSUME NEW c, c.data \in Seq(Nat), c.vid.crc \in Seq(Nat), Intact(c), Len(c.data) <= Len(c.vid.crc)
  PROVE  c.data = c.vid.crc
<1> DEFINE s == c.data
           t == c.vid.crc
<1>1. Len(s) = Len(t) /\ Len(s) \in Nat
  BY DEF Intact
<1>2. \A i \in 1 .. Len(t) : s[i] = t[i]
  BY <1>1 DEF Intact
<1>3. s \in Seq(Nat) /\ t \in Seq(Nat)
  OBVIOUS
<1> DEFINE m == Len(s)
<1>4. m \in Nat /\ Len(s) = m /\ Len(t) = m
  BY <1>1
<1> HIDE DEF s, t, m
<1>5. \A i \in 1 .. m : s[i] = t[i]
  BY <1>2, <1>4
<1>6. s = t
  BY <1>3, <1>4, <1>5
<1> QED BY <1>6 DEF s, t

\* At most one page is appended.
LEMMA OneMore ==
  ASSUME NEW s \in Seq(Nat), NEW a \in Nat, NEW b \in Nat, NEW t \in {s, Append(s, a), Append(s, b)}
  PROVE  /\ t \in Seq(Nat) /\ Len(t) \in Nat /\ Len(s) \in Nat
         /\ Len(t) <= Len(s) + 1 /\ Len(s) <= Len(t) /\ \A i \in 1 .. Len(s) : t[i] = s[i]
<1>1. ASSUME NEW x \in Nat, t = Append(s, x)
      PROVE  t \in Seq(Nat) /\ Len(t) = Len(s) + 1 /\ Len(s) \in Nat /\ \A i \in 1 .. Len(s) : t[i] = s[i]
  BY <1>1
<1>2. CASE t = s
  <2>1. Len(s) \in Nat
    OBVIOUS
  <2> QED BY <1>2, <2>1
<1>3. CASE t # s
  <2>1. PICK x \in Nat : t = Append(s, x)
    BY <1>3
  <2>2. t \in Seq(Nat) /\ Len(t) = Len(s) + 1 /\ Len(s) \in Nat /\ \A i \in 1 .. Len(s) : t[i] = s[i]
    BY <1>1, <2>1
  <2> QED BY <2>2
<1> QED BY <1>2, <1>3

\* It is not the one that changes.
LEMMA FollowsOthers ==
  ASSUME IInv, On, NEW l \in Lebs, eba[l] # None, Leads(peb, l), NEW g, NEW d, Others(g, d), d # eba[l],
         d \in CopiesOf(g, Fine, l) /\ Intact(g[d]) =>
           \/ g[d] = peb[d]
           \/ op.at = "flush" /\ g[d].data = peb[eba[l]].data
           \/ Swaps(g, l) /\ d = op.p
  PROVE  Follows(g, l)
<1>1. eba[l] \in CopiesOf(peb, Fine, l) /\ Fine \subseteq Pebs
  BY MappedPlace DEF Fine
<1>2. g[eba[l]] = peb[eba[l]] /\ eba[l] \in CopiesOf(g, Fine, l)
  BY <1>1 DEF Others, CopiesOf
<1> SUFFICES ASSUME NEW c \in CopiesOf(g, Fine, l), Intact(g[c])
             PROVE  \/ g[c].vid.sq <= g[eba[l]].vid.sq
                    \/ op.at = "flush" /\ g[c].data = g[eba[l]].data
                    \/ op.at = "map" /\ c = op.p
                    \/ Swaps(g, l) /\ c = op.p
  BY <1>2 DEF Follows, Leads
<1>3. ASSUME g[c] = peb[c] PROVE c \in CopiesOf(peb, Fine, l) /\ Intact(peb[c])
  BY <1>3 DEF CopiesOf
<1>4. CASE g[c] = peb[c]
  BY <1>2, <1>3, <1>4 DEF Leads
<1>5. CASE g[c] # peb[c]
  <2>1. c = d
    BY <1>1, <1>5 DEF Others, CopiesOf
  <2> QED BY <1>2, <1>5, <2>1
<1> QED BY <1>4, <1>5

LEMMA MoveVidFollows ==
  ASSUME IInv, On, wk.at = "vid", NEW l \in Lebs, eba[l] # None, Leads(peb, l), NEW g \in Half \cup {Done}
  PROVE  Follows(g, l)
<1> DEFINE d == wk.q
           src == peb[wk.p].data
<1>0. VidTo(g, d, MovedVid) /\ op.at = "flush" /\ d # eba[l] /\ eba[peb[wk.p].vid.l] = wk.p
      /\ wk.p \in Pebs
  BY MoveVidEffect, MappedPlace DEF IInv, Doing, Moves
<1>1. src \in Seq(Nat) /\ Len(src) \in Nat
  BY <1>0, PebFacts DEF IInv
<1>2. ASSUME d \in CopiesOf(g, Fine, l), Intact(g[d]) PROVE g[d].data = peb[eba[l]].data
  <2>1. g[d].vid.st = "ok" /\ g[d].vid.l = l
    BY <1>2 DEF CopiesOf
  <2>2. g[d].vid = MovedVid /\ g[d].data = <<>>
    BY <1>0, <2>1 DEF VidTo
  <2>3. eba[l] = wk.p
    BY <1>0, <2>1, <2>2 DEF MovedVid, Vid
  <2>4. src = <<>>
    <3> SUFFICES ASSUME src # <<>> PROVE FALSE
      OBVIOUS
    <3>1. g[d].vid.crc = src
      BY <2>2 DEF MovedVid, Vid
    <3>2. Len(src) > 0
      BY <1>1
    <3>3. Len(g[d].data) >= Len(src)
      BY <1>2, <3>1 DEF Intact
    <3> QED BY <1>1, <2>2, <3>2, <3>3
  <2> QED BY <2>2, <2>3, <2>4
<1>3. Others(g, d)
  BY <1>0 DEF VidTo
<1> HIDE DEF d, src
<1> QED BY <1>0, <1>2, <1>3, FollowsOthers

LEMMA MovePageFollows ==
  ASSUME IInv, Copying, On, wk.at = "data", NEW l \in Lebs, eba[l] # None, Leads(peb, l), NEW g \in Half \cup {Done}
  PROVE  Follows(g, l)
<1> DEFINE d == wk.q
           src == peb[wk.p].data
           n == wk.n
<1>0. /\ PageTo(g, d, src[n + 1]) /\ op.at = "flush" /\ d # eba[l] /\ eba[peb[wk.p].vid.l] = wk.p
      /\ wk.p \in Pebs /\ d \in Pebs /\ peb[d].vid.l = peb[wk.p].vid.l /\ n < Len(src) /\ n \in Nat
      /\ Len(peb[d].data) = n
  BY MovePageEffect, MappedPlace DEF IInv, Doing, Moves, RamOk, WkState
<1>1. src \in Seq(Nat) /\ Len(src) \in Nat
  BY <1>0, PebFacts DEF IInv
<1>2. peb[d].vid.crc = src
  <2>1. src # <<>>
    BY <1>0, <1>1
  <2> QED BY <2>1 DEF Copying
<1>3. ASSUME d \in CopiesOf(g, Fine, l), Intact(g[d]) PROVE g[d].data = peb[eba[l]].data
  <2>1. g[d].vid.l = l /\ g[d].vid = peb[d].vid
    BY <1>0, <1>3 DEF CopiesOf, PageTo
  <2>2. eba[l] = wk.p
    BY <1>0, <2>1
  <2>3. g[d].data \in Seq(Nat) /\ Len(g[d].data) <= n + 1
    <3>1. g[d].data \in {peb[d].data, Append(peb[d].data, Torn), Append(peb[d].data, src[n + 1])}
          /\ peb[d].data \in Seq(Nat) /\ src[n + 1] \in Nat /\ Torn \in Nat
      BY <1>0 DEF PageTo, Torn
    <3> HIDE DEF d, src, n
    <3> QED BY <1>0, <3>1, OneMore
  <2>4. Len(g[d].data) <= Len(g[d].vid.crc)
    <3>1. Len(g[d].data) \in Nat
      BY <2>3
    <3>2. Len(g[d].vid.crc) = Len(src)
      BY <1>2, <2>1
    <3> HIDE DEF d, src, n
    <3> QED BY <1>0, <1>1, <2>3, <3>1, <3>2
  <2>5. g[d].vid.crc \in Seq(Nat)
    BY <1>1, <1>2, <2>1
  <2>6. g[d].data = g[d].vid.crc
    BY <1>3, <2>3, <2>4, <2>5, IntactFull
  <2> QED BY <1>2, <2>1, <2>2, <2>6
<1>4. Others(g, d)
  BY <1>0 DEF PageTo
<1> HIDE DEF d, src
<1> QED BY <1>0, <1>3, <1>4, FollowsOthers

\* The call under way writes a copy of a mapped eraseblock: it changes it.
LEMMA Changing ==
  ASSUME IInv, Called, On, Writing, NEW l \in Lebs \ hurt, op.l = l, eba[l] # None
  PROVE  op.k = "change" /\ op.buf # <<>> /\ op.crc = op.buf
BY DEF Called, Writing

LEMMA OpVidFollows ==
  ASSUME IInv, Called, On, wk.at = "none", op.at = "vid", NEW l \in Lebs \ hurt, eba[l] # None, Leads(peb, l),
         NEW g \in Half \cup {Done}
  PROVE  Follows(g, l)
<1> DEFINE d == op.p
           v == Vid(op.l, op.sq, op.crc)
<1>0. VidTo(g, d, v) /\ d # eba[l] /\ op.buf \in Seq(Nat)
  BY OpVidEffect, MappedPlace DEF IInv, RamOk, OpState
<1>1. ASSUME d \in CopiesOf(g, Fine, l), Intact(g[d]) PROVE FALSE
  <2>1. g[d].vid.st = "ok" /\ g[d].vid.l = l
    BY <1>1 DEF CopiesOf
  <2>2. g[d].vid = v /\ g[d].data = <<>>
    BY <1>0, <2>1 DEF VidTo
  <2>3. op.l = l /\ g[d].vid.crc = op.crc
    BY <2>1, <2>2 DEF Vid
  <2>4. op.crc = op.buf /\ op.buf # <<>>
    BY <2>3, Changing DEF Writing
  <2>5. Len(op.buf) > 0 /\ Len(op.buf) \in Nat
    BY <1>0, <2>4
  <2>6. Len(g[d].data) >= Len(op.buf) /\ Len(g[d].data) = 0
    BY <1>1, <2>2, <2>3, <2>4 DEF Intact
  <2> QED BY <2>5, <2>6
<1>2. Others(g, d)
  BY <1>0 DEF VidTo
<1> HIDE DEF d
<1> QED BY <1>0, <1>1, <1>2, FollowsOthers

LEMMA OpPageFollows ==
  ASSUME IInv, Called, On, wk.at = "none", op.at = "data", NEW l \in Lebs \ hurt, eba[l] # None, Leads(peb, l),
         NEW g \in Half \cup {Done}
  PROVE  Follows(g, l)
<1> DEFINE d == op.p
           s == peb[d].data
           n == op.n
<1>0. /\ PageTo(g, d, op.buf[n + 1]) /\ n \in Nat /\ n + 1 \in DOMAIN op.buf
      /\ op.buf \in Seq(Nat) /\ Len(op.buf) \in Nat /\ n + 1 <= Len(op.buf) /\ d # eba[l]
      /\ Len(s) = n /\ peb[d].vid.l = op.l
  BY OpPageEffect, MappedPlace DEF IInv, Calling
<1>1. ASSUME d \in CopiesOf(g, Fine, l), Intact(g[d]) PROVE Swaps(g, l)
  <2>1. g[d].vid.l = l /\ g[d].vid = peb[d].vid
    BY <1>0, <1>1 DEF CopiesOf, PageTo
  <2>2. op.l = l /\ op.k = "change" /\ op.crc = op.buf /\ peb[d].vid.crc = op.buf
        /\ \A i \in DOMAIN op.buf : op.buf[i] = Now
    BY <1>0, <2>1, Changing DEF Writing, Called
  <2>3. /\ g[d].data \in {s, Append(s, Torn), Append(s, op.buf[n + 1])} /\ s \in Seq(Nat)
        /\ op.buf[n + 1] = Now /\ Now \in Nat /\ Torn \in Nat /\ Now # Torn
        /\ g = Done \/ g[d].data \in {s, Append(s, Torn)}
    BY <1>0, <2>2, NowIs DEF PageTo, Torn
  <2> HIDE DEF s, d, n
  <2>4. g[d].data \in Seq(Nat) /\ Len(g[d].data) <= n + 1
    BY <1>0, <2>3, OneMore DEF s
  <2>5. Len(g[d].data) <= Len(g[d].vid.crc) /\ g[d].vid.crc \in Seq(Nat)
    BY <1>0, <2>1, <2>2, <2>4
  <2>6. g[d].data = op.buf
    BY <1>1, <2>1, <2>2, <2>4, <2>5, IntactFull
  <2>7. Len(op.buf) = n + 1
    BY <1>0, <2>4, <2>6
  <2>8. g = Done
    <3> SUFFICES ASSUME g[d].data \in {s, Append(s, Torn)} PROVE FALSE
      BY <2>3
    <3>1. g[d].data = Append(s, Torn)
      BY <1>0, <2>3, <2>6, <2>7
    <3>2. Append(s, Torn)[n + 1] = Torn
      BY <1>0, <2>3
    <3> QED BY <2>3, <2>6, <3>1, <3>2
  <2> QED BY <2>2, <2>6, <2>7, <2>8 DEF Swaps, d, n
<1>2. Others(g, d)
  BY <1>0 DEF PageTo
<1> HIDE DEF d
<1>3. Follows(g, l)
  BY <1>0, <1>1, <1>2, FollowsOthers DEF d
<1> QED BY <1>3

LEMMA AppendFollows ==
  ASSUME IInv, Called, On, wk.at = "none", op.at = "append", NEW l \in Lebs \ hurt, eba[l] # None, Leads(peb, l),
         NEW g \in Half \cup {Done}
  PROVE  Follows(g, l)
<1> DEFINE d == eba[op.l]
           s == peb[d].data
<1>0. /\ PageTo(g, d, op.buf[op.n + 1]) /\ op.n + 1 \in DOMAIN op.buf /\ d \in Pebs
      /\ peb[d].vid.l = op.l /\ op.k = "write" /\ op.buf[op.n + 1] = Now /\ Now \in Nat
  BY OpPageEffect, AppendPeb, NowIs DEF Called
<1>1. CASE op.l # l
  <2>1. d # eba[l]
    BY <1>0, <1>1 DEF IInv, Linked
  <2>2. d \notin CopiesOf(g, Fine, l) /\ Others(g, d)
    BY <1>0, <1>1 DEF CopiesOf, PageTo
  <2> HIDE DEF d
  <2> QED BY <2>1, <2>2, FollowsOthers
<1>2. CASE op.l = l
  <2>1. eba[l] \in CopiesOf(peb, Fine, l) /\ Fine \subseteq Pebs /\ Intact(peb[d])
    BY <1>2, MappedPlace DEF Fine, Leads
  <2>2. g[d].vid = peb[d].vid /\ Others(g, d) /\ s \in Seq(Nat) /\ peb[d].vid.crc \in Seq(Nat)
        /\ eba[l] \in CopiesOf(g, Fine, l)
    BY <1>0, <1>2, <2>1, PebFacts DEF PageTo, IInv, CopiesOf, HasVid
  <2>3. /\ g = Done => g[d].data = Append(s, Now)
        /\ g \in Half => g[d].data \in {s, Append(s, Torn)}
    BY <1>0 DEF PageTo
  <2>4. Appends(g, l)
    BY <1>2, <2>3 DEF Appends
  <2>5. Intact(g[d])
    <3>1. ASSUME NEW x \in Nat, g[d].data = Append(s, x) PROVE Intact(g[d])
      <4> DEFINE m == Len(s)
                 c == peb[d].vid.crc
      <4>0. m \in Nat /\ Len(c) \in Nat /\ Len(c) <= m
        BY <2>1, <2>2 DEF Intact
      <4>1. m \in Nat /\ Len(c) \in Nat /\ Len(c) <= m /\ \A i \in 1 .. Len(c) : s[i] = c[i]
        <5>1. \A i \in 1 .. Len(c) : i <= m
          BY <4>0
        <5> QED BY <2>1, <4>0, <5>1 DEF Intact
      <4> HIDE DEF m, c
      <4>2. Len(g[d].data) = m + 1 /\ \A i \in 1 .. m : g[d].data[i] = s[i]
        BY <2>2, <3>1 DEF m
      <4>3. \A i \in 1 .. Len(c) : g[d].data[i] = c[i]
        <5>1. \A i \in 1 .. Len(c) : i \in 1 .. m
          BY <4>1
        <5> QED BY <4>1, <4>2, <5>1
      <4>4. Len(g[d].data) >= Len(c)
        BY <4>1, <4>2
      <4> QED BY <2>2, <4>3, <4>4 DEF Intact, c
    <3>2. CASE g[d].data = s
      BY <2>1, <2>2, <3>2 DEF Intact
    <3> QED BY <1>0, <2>3, <3>1, <3>2 DEF Torn
  <2>6. ASSUME NEW c \in CopiesOf(g, Fine, l), Intact(g[c]) PROVE g[c].vid.sq <= g[d].vid.sq
    <3>1. CASE c = d
      <4>1. g[d].vid.sq \in Nat
        BY <1>2, <2>1, <2>2, PebFacts DEF CopiesOf, IInv, HasVid
      <4> QED BY <3>1, <4>1
    <3>2. CASE c # d
      <4>1. g[c] = peb[c] /\ c \in CopiesOf(peb, Fine, l) /\ Intact(peb[c])
        BY <2>1, <2>2, <2>6, <3>2 DEF CopiesOf, Others
      <4> QED BY <1>2, <2>2, <4>1 DEF Leads
    <3> QED BY <3>1, <3>2
  <2> QED BY <1>2, <2>2, <2>4, <2>5, <2>6 DEF Follows
<1> QED BY <1>1, <1>2

LEMMA MappedFlash ==
  ASSUME IInv, Called, Copying, On, NEW l \in Lebs \ hurt, eba[l] # None, Leads(peb, l),
         NEW g \in Half \cup {Done}
  PROVE  Follows(g, l)
<1>1. CASE wk.at \in {"erase", "ec"}
  <2>1. Others(g, wk.p) /\ wk.p # eba[l] /\ (g[wk.p].vid.st # "ok" \/ g[wk.p] = peb[wk.p])
    BY <1>1, EraseEffect, MappedPlace DEF Erases
  <2> QED BY <2>1, FollowsOthers DEF CopiesOf
<1>2. CASE wk.at = "vid"
  BY <1>2, MoveVidFollows
<1>3. CASE wk.at = "data"
  BY <1>3, MovePageFollows
<1>4. CASE wk.at = "none" /\ op.at = "vid"
  BY <1>4, OpVidFollows
<1>5. CASE wk.at = "none" /\ op.at = "data"
  BY <1>5, OpPageFollows
<1>6. CASE wk.at = "none" /\ op.at = "append"
  BY <1>6, AppendFollows
<1>7. CASE wk.at \notin {"erase", "ec", "vid", "data"} /\ (wk.at = "none" => op.at \notin {"append", "vid", "data"})
  <2>1. g = peb
    BY <1>7, NoEffect
  <2>2. eba[l] \in CopiesOf(peb, Fine, l)
    BY MappedPlace
  <2> QED BY <2>1, <2>2 DEF Follows, Leads
<1> QED BY <1>1, <1>2, <1>3, <1>4, <1>5, <1>6, <1>7

\* What a boot finds of it.
LEMMA MappedFound ==
  ASSUME IInv, Called, On, NEW l \in Lebs \ hurt, eba[l] # None, NEW g \in Half \cup {Done}, Follows(g, l),
         op.at # "map" \/ op.l # l, ~Swaps(g, l)
  PROVE  FoundIn(g, Fine, l) = LebOf(g[eba[l]].data)
<1>1. FlashState(g, Fine)
  BY EffectState
<1>2. \A c \in CopiesOf(g, Fine, l) : Intact(g[c]) =>
        g[c].vid.sq <= g[eba[l]].vid.sq \/ g[c].data = g[eba[l]].data
  <2> SUFFICES ASSUME NEW c \in CopiesOf(g, Fine, l), Intact(g[c]), op.at = "map", c = op.p PROVE FALSE
    BY DEF Follows
  <2>1. op.l # l /\ wk.at = "none" /\ g[c].vid.l = l
    BY DEF CopiesOf, IInv, Doing
  <2>2. g = peb
    BY <2>1, NoEffect
  <2> QED BY <2>1, <2>2 DEF IInv, Calling
<1> QED BY <1>1, <1>2, FoundAlike DEF Follows

LEMMA SwapFound ==
  ASSUME IInv, Called, On, NEW l \in Lebs \ hurt, eba[l] # None, NEW g \in Half \cup {Done}, Follows(g, l),
         Swaps(g, l)
  PROVE  FoundIn(g, Fine, l) = LebOf(op.buf) /\ \A i \in DOMAIN op.buf : op.buf[i] = Now
<1> DEFINE q == op.p
<1>1. FlashState(g, Fine) /\ g \in [Pebs -> PebState]
  BY EffectState DEF FlashState
<1>2. PageTo(g, q, op.buf[op.n + 1]) /\ peb[q].vid.l = l /\ peb[q].vid.crc = op.buf /\ op.buf \in Seq(Nat)
      /\ \A i \in DOMAIN op.buf : op.buf[i] = Now
  BY OpPageEffect, Changing DEF Swaps, IInv, Calling, Called, Writing
<1>3. g[q].vid = peb[q].vid /\ q \in Fine /\ q \in CopiesOf(g, Fine, l) /\ Others(g, q) /\ Fine \subseteq Pebs
  BY <1>2 DEF PageTo, CopiesOf, Fine
<1>4. Intact(g[q])
  <2>1. g[q].data = op.buf /\ g[q].vid.crc = op.buf
    BY <1>2, <1>3 DEF Swaps
  <2> QED BY <1>2, <2>1 DEF Intact
<1>5. \A c \in CopiesOf(g, Fine, l) : g[c].vid.sq <= g[q].vid.sq
  <2> TAKE c \in CopiesOf(g, Fine, l)
  <2>1. g[c].vid = peb[c].vid
    BY <1>3 DEF Others, CopiesOf
  <2>2. c \in CopiesOf(peb, Fine, l)
    BY <2>1 DEF CopiesOf
  <2> QED BY <1>3, <2>1, <2>2 DEF Called, Swaps
<1>6. FoundIn(g, Fine, l) = LebOf(g[q].data)
  BY <1>1, <1>3, <1>4, <1>5, FoundWhole
<1> QED BY <1>2, <1>6 DEF Swaps

(***************************************************************************)
(* The pages, and the works that come before others.                       *)
(***************************************************************************)
LEMMA EmptyPages == \A f, p, n : f[p].data = <<>> => \A i \in DOMAIN f[p].data : f[p].data[i] <= n
<1> TAKE f, p, n
<1>1. DOMAIN <<>> = {}
  BY DOMAIN <<>> = 1 .. 0
<1> QED BY <1>1

LEMMA MorePages ==
  ASSUME NEW s \in Seq(Nat), NEW n \in Nat, \A i \in DOMAIN s : s[i] <= n, NEW x \in Nat, x <= n
  PROVE  \A i \in DOMAIN Append(s, x) : Append(s, x)[i] <= n
<1> DEFINE m == Len(s)
           t == Append(s, x)
<1>1. m \in Nat /\ DOMAIN s = 1 .. m /\ DOMAIN t = 1 .. m + 1 /\ t[m + 1] = x /\ \A i \in 1 .. m : t[i] = s[i]
  OBVIOUS
<1> HIDE DEF m, t
<1>2. \A i \in 1 .. m + 1 : i \in 1 .. m \/ i = m + 1
  BY <1>1
<1>3. \A i \in DOMAIN t : t[i] <= n
  BY <1>1, <1>2
<1> QED BY <1>3 DEF t

LEMMA PagePages ==
  ASSUME IInv, Paged, NEW g, NEW d, NEW v, PageTo(g, d, v), v <= Now, g \in Half \cup {Done}
  PROVE  \A p \in Pebs : \A i \in DOMAIN g[p].data : g[p].data[i] <= Now
<1>1. d \in Pebs /\ peb[d].data \in Seq(Nat) /\ v \in Nat /\ Torn \in Nat /\ Now \in Nat /\ Torn <= Now
  BY NowIs DEF PageTo, Fine, Torn
<1>2. \A i \in DOMAIN peb[d].data : peb[d].data[i] <= Now
  BY <1>1 DEF Paged
<1>3. g[d].data = peb[d].data \/ \E x \in {Torn, v} : g[d].data = Append(peb[d].data, x)
  BY DEF PageTo
<1>4. \A i \in DOMAIN g[d].data : g[d].data[i] <= Now
  <2> DEFINE s == peb[d].data
             t == g[d].data
  <2> HIDE DEF s, t
  <2>1. s \in Seq(Nat) /\ \A i \in DOMAIN s : s[i] <= Now
    BY <1>1, <1>2 DEF s
  <2>2. t = s \/ \E x \in {Torn, v} : t = Append(s, x)
    BY <1>3 DEF s, t
  <2>3. CASE t = s
    BY <2>1, <2>3 DEF t
  <2>4. ASSUME NEW x \in {Torn, v}, t = Append(s, x) PROVE \A i \in DOMAIN t : t[i] <= Now
    <3>1. x \in Nat /\ x <= Now
      BY <1>1
    <3> QED BY <1>1, <2>1, <2>4, <3>1, MorePages
  <2> QED BY <2>2, <2>3, <2>4 DEF t
<1>5. \A p \in Pebs : p # d => g[p] = peb[p]
  BY DEF PageTo, Others
<1> QED BY <1>4, <1>5 DEF Paged

LEMMA FlashPages ==
  ASSUME IInv, Paged, Called, On, NEW g \in Half \cup {Done}
  PROVE  \A p \in Pebs : \A i \in DOMAIN g[p].data : g[p].data[i] <= Now
<1>0. peb \in [Pebs -> PebState]
  BY DEF IInv, FlashOk
<1>1. CASE wk.at = "erase"
  <2>1. Pending = Do("erase", wk.p, None)
    BY <1>1 DEF Pending
  <2>2. g \in {peb, [peb EXCEPT ![wk.p] = Blank], [peb EXCEPT ![wk.p] = Garbage]}
    BY <2>1 DEF Half, Done, Do
  <2>3. \A p \in Pebs : g[p] = peb[p] \/ g[p].data = <<>>
    BY <1>0, <2>2 DEF Blank, Garbage
  <2> QED BY <2>3, EmptyPages DEF Paged
<1>2. CASE wk.at = "ec"
  <2>1. Pending = Do("ec", wk.p, None)
    BY <1>2 DEF Pending
  <2>2. g \in {peb, [peb EXCEPT ![wk.p].ec = "ok"], [peb EXCEPT ![wk.p].ec = "bad"]}
    BY <2>1 DEF Half, Done, Do
  <2>3. \A p \in Pebs : g[p].data = peb[p].data
    BY <1>0, <2>2 DEF PebState
  <2> QED BY <2>3 DEF Paged
<1>3. CASE wk.at = "vid"
  <2>1. VidTo(g, wk.q, MovedVid)
    BY <1>3, MoveVidEffect
  <2>2. \A p \in Pebs : g[p] = peb[p] \/ g[p].data = <<>>
    BY <2>1 DEF VidTo, Others
  <2> QED BY <2>2, EmptyPages DEF Paged
<1>4. CASE wk.at = "data"
  <2> DEFINE n == wk.n
             src == peb[wk.p].data
  <2>1. PageTo(g, wk.q, src[n + 1]) /\ wk.p \in Pebs /\ n \in Nat /\ n < Len(src)
    BY <1>4, MovePageEffect DEF IInv, Doing, Moves, RamOk, WkState
  <2>2. src \in Seq(Nat) /\ Len(src) \in Nat
    BY <2>1, PebFacts DEF IInv
  <2>3. n + 1 \in DOMAIN src
    BY <2>1, <2>2
  <2>4. src[n + 1] <= Now
    BY <2>1, <2>3 DEF Paged
  <2> QED BY <2>1, <2>4, PagePages
<1>5. CASE wk.at = "none" /\ op.at = "vid"
  <2>1. VidTo(g, op.p, Vid(op.l, op.sq, op.crc))
    BY <1>5, OpVidEffect
  <2>2. \A p \in Pebs : g[p] = peb[p] \/ g[p].data = <<>>
    BY <2>1 DEF VidTo, Others
  <2> QED BY <2>2, EmptyPages DEF Paged
<1>6. CASE wk.at = "none" /\ op.at \in {"data", "append"}
  <2> DEFINE d == IF op.at = "data" THEN op.p ELSE eba[op.l]
  <2>1. PageTo(g, d, op.buf[op.n + 1]) /\ op.n + 1 \in DOMAIN op.buf
    BY <1>6, OpPageEffect
  <2>2. op.buf[op.n + 1] <= Now
    BY <1>6, <2>1 DEF Called
  <2> HIDE DEF d
  <2> QED BY <2>1, <2>2, PagePages
<1>7. CASE wk.at \notin {"erase", "ec", "vid", "data"} /\ (wk.at = "none" => op.at \notin {"append", "vid", "data"})
  BY <1>7, NoEffect DEF Paged
<1> QED BY <1>1, <1>2, <1>3, <1>4, <1>5, <1>6, <1>7

LEMMA PagedKept ==
  ASSUME IInv, Paged, Called, peb' = peb \/ (On /\ peb' \in Half \cup {Done}),
         ops' = ops \/ (ops < MaxOps /\ ops' = ops + 1)
  PROVE  Paged'
<1>1. \A p \in Pebs : \A i \in DOMAIN peb'[p].data : peb'[p].data[i] <= Now
  BY FlashPages DEF Paged
<1>2. ops \in Nat /\ MaxOps \in Nat /\ ops <= MaxOps
  BY UbiAssumption DEF IInv, RamOk, Paged
<1>3. ops' <= MaxOps /\ (Now' = Now \/ (Now' = Now + 1 /\ Now \in Nat))
  BY <1>2 DEF Now
<1>4. peb' \in [Pebs -> PebState]
  <2>1. CASE peb' = peb
    BY <2>1 DEF IInv, FlashOk
  <2>2. CASE On /\ peb' \in Half \cup {Done}
    BY <2>2, EffectState DEF FlashState
  <2> QED BY <2>1, <2>2
<1> SUFFICES ASSUME NEW p \in Pebs, NEW i \in DOMAIN peb'[p].data PROVE peb'[p].data[i] <= Now'
  BY <1>3 DEF Paged
<1>5. peb'[p].data \in Seq(Nat)
  BY <1>4 DEF PebState
<1>6. peb'[p].data[i] \in Nat
  BY <1>5
<1>7. peb'[p].data[i] <= Now
  BY <1>1
<1> QED BY <1>3, <1>6, <1>7

\* Works that are queued come after those that are.
LEMMA AheadMore ==
  ASSUME IInv, NEW s \in Seq(Pebs \cup {WL}), works' = works \o s, NEW d, NEW z, Ahead(d, z),
         Erases /\ d = wk.p => Erases' /\ wk'.p = wk.p
  PROVE  Ahead(d, z)'
<1> DEFINE m == Len(works)
           n == Len(s)
<1>1. works \in Seq(Pebs \cup {WL}) /\ m \in Nat /\ n \in Nat /\ DOMAIN works = 1 .. m
  BY DEF IInv, RamOk
<1>2. DOMAIN works' = 1 .. m + n /\ \A i \in 1 .. m : works'[i] = works[i]
  BY <1>1
<1> HIDE DEF m, n
<1>3. \A i \in DOMAIN works : i \in DOMAIN works' /\ works'[i] = works[i]
  BY <1>1, <1>2
<1> QED BY <1>3 DEF Ahead

LEMMA AheadPut ==
  ASSUME IInv, NEW x \in Pebs, works' = works \o <<x>>, NEW d \in Queued
  PROVE  Ahead(d, x)'
<1> DEFINE m == Len(works)
<1>1. works \in Seq(Pebs \cup {WL}) /\ m \in Nat /\ DOMAIN works = 1 .. m
  BY DEF IInv, RamOk
<1>2. DOMAIN works' = 1 .. m + 1 /\ works'[m + 1] = x /\ \A i \in 1 .. m : works'[i] = works[i]
  BY <1>1
<1>3. PICK i \in 1 .. m : works[i] = d
  BY <1>1 DEF Queued, ToSet
<1> HIDE DEF m
<1>4. i \in 1 .. m + 1 /\ m + 1 \in 1 .. m + 1 /\ i < m + 1 /\ works'[i] = d
  BY <1>1, <1>2, <1>3
<1> QED BY <1>2, <1>4 DEF Ahead

\* The first of the works is taken up.
LEMMA AheadTail ==
  ASSUME IInv, ~Erases, works # <<>>, works' = Tail(works), NEW d, NEW z, Ahead(d, z),
         d = Head(works) => Erases' /\ wk'.p = d
  PROVE  Ahead(d, z)'
<1> DEFINE m == Len(works) - 1
<1>1. works \in Seq(Pebs \cup {WL})
  BY DEF IInv, RamOk
<1>2. /\ m \in Nat /\ DOMAIN works = 1 .. m + 1 /\ DOMAIN works' = 1 .. m
      /\ works[1] = Head(works) /\ \A i \in 1 .. m : works'[i] = works[i + 1]
  BY <1>1
<1>3. PICK j \in DOMAIN works, i \in DOMAIN works : works[j] = z /\ i < j /\ works[i] = d
  BY DEF Ahead
<1> HIDE DEF m
<1>4. j - 1 \in 1 .. m /\ works'[j - 1] = z
  <2>1. j - 1 \in 1 .. m /\ (j - 1) + 1 = j
    BY <1>2, <1>3
  <2> QED BY <1>2, <1>3, <2>1
<1>5. CASE i = 1
  <2>1. Erases' /\ d = wk'.p
    BY <1>2, <1>3, <1>5
  <2> QED BY <1>2, <1>4, <2>1 DEF Ahead
<1>6. CASE i # 1
  <2>1. i - 1 \in 1 .. m /\ (i - 1) + 1 = i /\ i - 1 < j - 1
    BY <1>2, <1>3, <1>6
  <2>2. works'[i - 1] = d
    BY <1>2, <1>3, <2>1
  <2> QED BY <1>2, <1>4, <2>1, <2>2 DEF Ahead
<1> QED BY <1>5, <1>6

LEMMA AheadSame ==
  ASSUME UNCHANGED works, NEW d, NEW z, Ahead(d, z), Erases /\ d = wk.p => Erases' /\ wk'.p = wk.p
  PROVE  Ahead(d, z)'
BY DEF Ahead

\* The wear-levelling work may be queued.
LEMMA AheadWl ==
  ASSUME IInv, NEW sched, EnsureWl(sched, works), NEW d, NEW z, Ahead(d, z), ~(Erases /\ d = wk.p)
  PROVE  Ahead(d, z)'
<1>1. works \in Seq(Pebs \cup {WL}) /\ <<WL>> \in Seq(Pebs \cup {WL})
  BY DEF IInv, RamOk
<1>2. works' = works \/ works' = Append(works, WL)
  BY DEF EnsureWl
<1>3. Append(works, WL) = works \o <<WL>>
  BY <1>1
<1> QED BY <1>1, <1>2, <1>3, AheadSame, AheadMore

(***************************************************************************)
(* What the steps have in common.                                          *)
(***************************************************************************)
LEMMA PebHalf == peb \in Half
BY DEF Half

LEMMA OffLater == ASSUME Paged', ~On' PROVE AInv'
BY DEF AInv, Called, Copying, Leading, Lined

LEMMA LeadsKept ==
  ASSUME IInv, Called, Copying, On, NEW l \in Lebs \ hurt, eba[l] # None, Leads(peb, l),
         peb' \in Half \cup {Done}, bad' = bad, eba'[l] = eba[l],
         op.at = "flush" => op'.at = "flush",
         op.at = "map" /\ op.l = l => op'.at = "map" /\ op'.p = op.p,
         Swaps(peb', l) => op'.at = "map" /\ op'.p = op.p
  PROVE  Leads(peb, l)'
<1>1. Follows(peb', l) /\ Fine' = Fine
  BY MappedFlash DEF Fine
<1>2. ASSUME NEW c \in CopiesOf(peb', Fine, l), op.at = "map", c = op.p PROVE op.l = l
  <2>1. peb' = peb
    BY <1>2, NoEffect DEF IInv, Doing
  <2> QED BY <1>2, <2>1 DEF CopiesOf, IInv, Calling
<1>3. ASSUME NEW c \in CopiesOf(peb', Fine', l), Intact(peb'[c])
      PROVE  \/ peb'[c].vid.sq <= peb'[eba'[l]].vid.sq
             \/ op'.at = "flush" /\ peb'[c].data = peb'[eba'[l]].data
             \/ op'.at = "map" /\ c = op'.p
  BY <1>1, <1>2, <1>3 DEF Follows
<1>4. Intact(peb'[eba'[l]])
  BY <1>1 DEF Follows
<1> QED BY <1>3, <1>4 DEF Leads

LEMMA LinedKept ==
  ASSUME IInv, Called, On, NEW l \in Lebs \ hurt, eba[l] = None, Lays(l),
         peb' \in Half \cup {Done}, bad' = bad, ops' = ops,
         Writing /\ op.l = l => Writing' /\ op'.l = l,
         op'.at \in {"data", "map"} /\ op'.l = l =>
           /\ op.l = l /\ op'.p = op.p
           /\ op.at \in {"data", "map"} \/ (wk.at = "none" /\ op.at = "vid" /\ peb' = Done),
         \A d \in CopiesOf(peb', Fine, l), x \in Pebs : Ahead(d, x) => Ahead(d, x)',
         \A d, x \in CopiesOf(peb', Fine, l) : x = op.p /\ op'.p # op.p /\ d # x => Ahead(d, x)'
  PROVE  Lays(l)'
<1>1. PICK K, z : Unmapped(l, K, z)
  BY DEF Lays, Unmapped
<1>2. PICK J : Relayered(peb', l, K, J, z)
  BY <1>1, UnmappedFlash
<1> DEFINE C == CopiesOf(peb, Fine, l)
           D == CopiesOf(peb', Fine, l)
<1>3. /\ Layers(peb', Fine, l, J, z, Now) /\ D \ J \subseteq C \ K /\ J \subseteq K \cup {op.p}
      /\ op.p \in J /\ op.p \notin K => wk.at = "none" /\ op.at = "vid" /\ op.l = l /\ peb' = Done
      /\ op.at \in {"data", "map"} /\ op.l = l => op.p \in J
      /\ wk.at = "none" /\ op.at = "vid" /\ op.l = l /\ peb' = Done => op.p \in J
  BY <1>2 DEF Relayered
<1>4. /\ K # {} => Writing /\ op.l = l
      /\ \A d \in C \ K : d # z => Ahead(d, z)
      /\ \A d \in C \ K, c \in K : c # op.p => Ahead(d, c)
      /\ K \subseteq C /\ C \subseteq Pebs /\ J \subseteq D
      /\ C \ K # {} => z \in Pebs
  BY <1>1, <1>3 DEF Unmapped, Line, Layers, CopiesOf, Fine
<1>5. Layers(peb, Fine, l, J, z, Now)'
  BY <1>3 DEF Layers, CopiesOf, Fine, Now
<1> HIDE DEF C
<1>6. J # {} => Writing' /\ op'.l = l
  BY <1>3, <1>4 DEF Writing
<1>7. op'.at \in {"data", "map"} /\ op'.l = l => op'.p \in J
  BY <1>3
<1>8. \A d \in D \ J : d # z => Ahead(d, z)'
  BY <1>3, <1>4
<1>9. ASSUME NEW d \in D \ J, NEW c \in J, c # op'.p PROVE Ahead(d, c)'
  <2>1. CASE c = op.p
    <3>1. c \in D /\ d \in D /\ d # c
      BY <1>4
    <3> QED BY <1>9, <2>1, <3>1
  <2>2. CASE c # op.p
    <3>1. c \in K /\ d \in C \ K /\ c \in Pebs
      BY <1>3, <1>4, <2>2
    <3> QED BY <1>4, <2>2, <3>1
  <2> QED BY <2>1, <2>2
<1>10. Line(l, J, z)'
  <2>1. CopiesOf(peb, Fine, l)' = D
    BY DEF Fine
  <2> HIDE DEF D
  <2> QED BY <1>6, <1>7, <1>8, <1>9, <2>1 DEF Line
<1> QED BY <1>5, <1>10 DEF Lays

LEMMA LinedCall ==
  ASSUME IInv, op.at = "idle", NEW l, Lays(l), UNCHANGED flash, op'.at \notin {"data", "map"},
         \A d \in Pebs, x \in Pebs : Ahead(d, x) => Ahead(d, x)'
  PROVE  Lays(l)'
<1>1. PICK K, z : Layers(peb, Fine, l, K, z, Now) /\ Line(l, K, z)
  BY DEF Lays
<1>2. K = {}
  BY <1>1 DEF Line, Writing
<1>3. CopiesOf(peb, Fine, l)' = CopiesOf(peb, Fine, l) /\ CopiesOf(peb, Fine, l) \subseteq Pebs
  BY DEF CopiesOf, Fine, flash
<1>4. Layers(peb, Fine, l, {}, z, Now)'
  BY <1>1, <1>2, <1>3 DEF Layers, flash
<1>5. CopiesOf(peb, Fine, l) # {} => z \in Pebs
  BY <1>1, <1>2, <1>3 DEF Layers
<1>6. Line(l, {}, z)'
  BY <1>1, <1>2, <1>3, <1>5 DEF Line
<1> QED BY <1>4, <1>6 DEF Lays

\* A call begins that neither maps nor unmaps.
LEMMA CallBegins ==
  ASSUME IInv, AInv, Ready, UNCHANGED <<flash, eba, wk, hurt>>, ops' = ops + 1,
         op'.at \notin {"data", "map"}, Called',
         works' = works \/ EnsureWl(wls, works)
  PROVE  AInv'
<1>0. On /\ wk.at = "none" /\ op.at = "idle" /\ peb' = peb /\ peb' \in Half \cup {Done} /\ bad' = bad
  BY Begins, PebHalf DEF Ready, flash
<1>1. Called /\ Copying /\ Paged /\ Leading /\ Lined
  BY DEF AInv
<1>2. Paged'
  BY <1>0, <1>1, PagedKept DEF Ready
<1>3. Copying'
  BY <1>0 DEF Copying, Moves
<1>4. ASSUME NEW l \in Lebs \ hurt, eba[l] # None PROVE Leads(peb, l)'
  BY <1>0, <1>1, <1>4, LeadsKept DEF Leading, Swaps
<1>5. ~Erases
  BY <1>0 DEF Erases
<1>6. \A d \in Pebs, x \in Pebs : Ahead(d, x) => Ahead(d, x)'
  BY <1>5, AheadSame, AheadWl
<1>7. ASSUME NEW l \in Lebs \ hurt, eba[l] = None PROVE Lays(l)'
  BY <1>0, <1>1, <1>6, <1>7, LinedCall DEF Lined
<1> QED BY <1>2, <1>3, <1>4, <1>7 DEF AInv, Leading, Lined

LEMMA CalledIdle == \A r \in {"none", "ok", "err"} : op' = Idle(r) => Called'
<1>1. \A r : Idle(r).at = "idle" /\ Idle(r).k = "none"
  BY DEF Idle
<1> QED BY <1>1 DEF Called, Writing

\* What a call writes.
LEMMA BufIs == \A n \in 0 .. Pages : /\ \A i \in DOMAIN Buf(n) : Buf(n)[i] = ops + 2
                                     /\ n # 0 => Buf(n) # <<>>
<1> TAKE n \in 0 .. Pages
<1>1. DOMAIN Buf(n) = 1 .. n /\ \A i \in 1 .. n : Buf(n)[i] = ops + 2
  BY DEF Buf
<1>2. n # 0 => 1 \in 1 .. n
  BY UbiAssumption
<1>3. DOMAIN <<>> = 1 .. 0
  OBVIOUS
<1>4. 1 \notin 1 .. 0
  OBVIOUS
<1> QED BY <1>1, <1>2, <1>3, <1>4

LEMMA WriteMappedAInv == ASSUME IInv, AInv, NEW l \in Lebs, NEW n \in 1 .. Pages, WriteMapped(l, n) PROVE AInv'
<1>1. op' = [Idle("none") EXCEPT !.k = "write", !.l = l, !.at = "append", !.buf = Buf(n)] /\ ops' = ops + 1
  BY DEF WriteMapped, Begin
<1>2. op'.k = "write" /\ op'.at = "append" /\ op'.buf = Buf(n) /\ op'.n = 0
  BY <1>1 DEF Idle
<1>3. n \in 0 .. Pages /\ ops \in Nat
  BY UbiAssumption DEF IInv, RamOk
<1>4. Now' = ops + 2 /\ \A i \in DOMAIN Buf(n) : Buf(n)[i] = ops + 2
  BY <1>1, <1>3, BufIs DEF Now
<1>5. \A i \in 1 .. 0 : FALSE
  OBVIOUS
<1>6. Called'
  BY <1>2, <1>3, <1>4, <1>5 DEF Called, Writing
<1> QED BY <1>1, <1>2, <1>6, CallBegins DEF WriteMapped

LEMMA WriteUnmappedAInv == ASSUME IInv, AInv, NEW l \in Lebs, NEW n \in 0 .. Pages, WriteUnmapped(l, n) PROVE AInv'
<1>1. op' = New("write", l, Buf(n), <<>>) /\ ops' = ops + 1 /\ sqnum' = sqnum + 1 /\ eba'[l] = None
  BY DEF WriteUnmapped, Begin
<1>2. op'.k = "write" /\ op'.at = "get" /\ op'.buf = Buf(n) /\ op'.sq = sqnum /\ op'.l = l /\ op'.crc = <<>>
  BY <1>1 DEF Idle, New
<1>3. ops \in Nat
  BY DEF IInv, RamOk
<1>4. Now' = ops + 2 /\ \A i \in DOMAIN Buf(n) : Buf(n)[i] = ops + 2
  BY <1>1, <1>3, BufIs DEF Now
<1>5. Called'
  BY <1>1, <1>2, <1>3, <1>4 DEF Called, Writing
<1> QED BY <1>1, <1>2, <1>5, CallBegins DEF WriteUnmapped

LEMMA ChangeAInv == ASSUME IInv, AInv, NEW l \in Lebs, NEW n \in 1 .. Pages, Change(l, n) PROVE AInv'
<1>1. op' = New("change", l, Buf(n), Buf(n)) /\ ops' = ops + 1 /\ sqnum' = sqnum + 1
  BY DEF Change, Begin
<1>2. op'.k = "change" /\ op'.at = "get" /\ op'.buf = Buf(n) /\ op'.sq = sqnum /\ op'.l = l /\ op'.crc = Buf(n)
  BY <1>1 DEF Idle, New
<1>3. ops \in Nat /\ n \in 0 .. Pages /\ n # 0
  BY UbiAssumption DEF IInv, RamOk
<1>4. Now' = ops + 2 /\ (\A i \in DOMAIN Buf(n) : Buf(n)[i] = ops + 2) /\ Buf(n) # <<>>
  BY <1>1, <1>3, BufIs DEF Now
<1>5. Called'
  BY <1>1, <1>2, <1>3, <1>4 DEF Called, Writing
<1> QED BY <1>1, <1>2, <1>5, CallBegins DEF Change

LEMMA FlushAInv == ASSUME IInv, AInv, Flush PROVE AInv'
<1>1. op' = [Idle("none") EXCEPT !.k = "flush", !.at = "flush"] /\ ops' = ops + 1
  BY DEF Flush, Begin
<1>2. op'.k = "flush" /\ op'.at = "flush" /\ op'.buf = <<>>
  BY <1>1 DEF Idle
<1>3. DOMAIN <<>> = {}
  BY DOMAIN <<>> = 1 .. 0
<1>4. Called'
  BY <1>2, <1>3 DEF Called, Writing
<1> QED BY <1>1, <1>2, <1>4, CallBegins DEF Flush

LEMMA ReadBitflipAInv == ASSUME IInv, AInv, NEW l \in Lebs, ReadBitflip(l) PROVE AInv'
<1>1. op' = Idle("ok") /\ ops' = ops + 1 /\ EnsureWl(wls, works)
  BY DEF ReadBitflip, Begin
<1>2. op'.at = "idle" /\ Called'
  BY <1>1, CalledIdle DEF Idle
<1> QED BY <1>1, <1>2, CallBegins DEF ReadBitflip

LEMMA UnmapAInv == ASSUME IInv, AInv, NEW l \in Lebs, NEW k \in {"unmap", "erase"}, Unmap(l, k) PROVE AInv'
<1>0. /\ On /\ wk.at = "none" /\ op.at = "idle" /\ op.p = None /\ ~Erases /\ peb' = peb /\ bad' = bad
      /\ peb' \in Half \cup {Done} /\ Ready /\ UNCHANGED <<flash, wk, hurt>> /\ ops' = ops + 1
      /\ eba' = [eba EXCEPT ![l] = None] /\ works' = works \o Old(l)
  BY Begins, PebHalf DEF Unmap, Ready, Begin, Put, flash, Erases
<1>1. Called /\ Copying /\ Paged /\ Leading /\ Lined
  BY DEF AInv
<1>2. eba \in [Lebs -> Pebs \cup {None}] /\ eba'[l] = None /\ (\A j \in Lebs : j # l => eba'[j] = eba[j])
  BY <1>0 DEF IInv, RamOk
<1>3. Called' /\ op'.at \in {"flush", "idle"}
  <2>1. CASE k = "erase"
    <3>1. op' = [Idle("none") EXCEPT !.k = k, !.l = l, !.at = "flush"]
      BY <2>1 DEF Unmap, Begin
    <3>2. op'.k = "erase" /\ op'.at = "flush" /\ op'.buf = <<>> /\ op'.l = l
      BY <2>1, <3>1 DEF Idle
    <3>3. DOMAIN <<>> = {}
      BY DOMAIN <<>> = 1 .. 0
    <3> QED BY <1>2, <3>2, <3>3 DEF Called, Writing
  <2>2. CASE k # "erase"
    <3>1. op' = Idle("ok")
      BY <2>2 DEF Unmap, Begin
    <3> QED BY <3>1, CalledIdle DEF Idle
  <2> QED BY <2>1, <2>2
<1>4. Paged'
  BY <1>0, <1>1, PagedKept DEF Ready
<1>5. Copying'
  BY <1>0 DEF Copying, Moves
<1>6. ASSUME NEW j \in Lebs \ hurt, eba'[j] # None PROVE Leads(peb, j)'
  <2>1. eba[j] # None /\ eba'[j] = eba[j]
    BY <1>2, <1>6
  <2> QED BY <1>0, <1>1, <2>1, LeadsKept DEF Leading, Swaps
<1>7. Old(l) \in Seq(Pebs \cup {WL})
  <2>1. eba[l] \in Pebs \cup {None}
    BY <1>2
  <2>2. CASE eba[l] = None
    BY <2>2 DEF Old
  <2>3. CASE eba[l] # None
    <3>1. <<eba[l]>> \in Seq(Pebs \cup {WL})
      BY <2>1, <2>3
    <3> QED BY <2>3, <3>1 DEF Old
  <2> QED BY <2>2, <2>3
<1>8. \A d \in Pebs, x \in Pebs : Ahead(d, x) => Ahead(d, x)'
  BY <1>0, <1>7, AheadMore
<1>9. ASSUME NEW j \in Lebs \ hurt, eba[j] = None PROVE Lays(j)'
  BY <1>0, <1>1, <1>3, <1>8, <1>9, LinedCall DEF Lined
<1>10. ASSUME eba[l] # None, l \notin hurt PROVE Lays(l)'
  <2> DEFINE C == CopiesOf(peb, Fine, l)
  <2>0. PICK z : z = eba[l]
    OBVIOUS
  <2>1. z \in C /\ z \in Pebs /\ C \subseteq Pebs /\ Leads(peb, l) /\ works' = works \o <<z>>
    BY <1>0, <1>1, <1>2, <1>10, <2>0, MappedPlace DEF Leading, CopiesOf, Fine, Old
  <2>2. CopiesOf(peb, Fine, l)' = C
    BY <1>0 DEF Fine
  <2>3. Intact(peb[z]) /\ \A d \in C : Intact(peb[d]) => peb[d].vid.sq <= peb[z].vid.sq
    BY <1>0, <2>0, <2>1 DEF Leads
  <2>4. ASSUME NEW d \in C, d # z PROVE Ahead(d, z)'
    <3>1. d \in Queued
      BY <1>0, <2>0, <2>4, CopyPlaces
    <3> QED BY <2>1, <3>1, AheadPut
  <2> HIDE DEF C
  <2>5. Layers(peb, Fine, l, {}, z, Now)'
    BY <1>0, <2>1, <2>2, <2>3 DEF Layers
  <2>6. Line(l, {}, z)'
    BY <1>3, <2>2, <2>4 DEF Line
  <2> QED BY <2>5, <2>6 DEF Lays
<1>11. Leading' /\ Lined'
  BY <1>0, <1>2, <1>6, <1>9, <1>10 DEF Leading, Lined
<1> QED BY <1>3, <1>4, <1>5, <1>11 DEF AInv

(***************************************************************************)
(* The steps of a write, a change or a recovery.                           *)
(***************************************************************************)
\* A cut page does not complete a change.
LEMMA HalfNoSwap ==
  ASSUME IInv, Called, On, NEW l \in Lebs \ hurt, NEW g \in Half PROVE ~Swaps(g, l)
<1> SUFFICES ASSUME Swaps(g, l) PROVE FALSE
  OBVIOUS
<1> DEFINE s == peb[op.p].data
           n == op.n
<1>0. wk.at = "none" /\ op.at = "data" /\ g[op.p].data = op.buf /\ n + 1 = Len(op.buf) /\ op.k = "change"
  BY DEF Swaps
<1>1. /\ PageTo(g, op.p, op.buf[n + 1]) /\ n + 1 \in DOMAIN op.buf /\ op.buf \in Seq(Nat) /\ Len(s) = n
      /\ op.buf[n + 1] = Now /\ Now # Torn /\ n \in Nat
  BY <1>0, OpPageEffect, NowIs DEF Called, IInv, Calling
<1>2. s \in Seq(Nat) /\ (op.buf = s \/ op.buf = Append(s, Torn))
  BY <1>0, <1>1 DEF PageTo
<1> HIDE DEF s, n
<1>3. op.buf = Append(s, Torn)
  <2>1. Len(op.buf) # Len(s)
    BY <1>0, <1>1
  <2> QED BY <1>2, <2>1
<1>4. Append(s, Torn)[n + 1] = Torn
  BY <1>1, <1>2 DEF Torn
<1> QED BY <1>1, <1>3, <1>4

LEMMA OpStep ==
  ASSUME IInv, AInv, On, wk.at = "none", wk' = wk, peb' \in Half \cup {Done}, UNCHANGED <<bad, eba, ops>>,
         hurt \subseteq hurt', Called', op.at \notin {"flush", "map"},
         Writing => Writing' /\ op'.l = op.l,
         op'.at \in {"data", "map"} =>
           op'.p = op.p /\ op'.l = op.l /\ (op.at = "data" \/ (op.at = "vid" /\ peb' = Done)),
         works' = works \/ (op.at \in {"vid", "data"} /\ works' = works \o <<op.p>>),
         op'.p # op.p => op.p = None \/ works' = works \o <<op.p>>,
         \A l \in Lebs \ hurt' : Swaps(peb', l) => op'.at = "map" /\ op'.p = op.p
  PROVE  AInv'
<1>0. Called /\ Copying /\ Paged /\ Leading /\ Lined /\ ~Erases /\ Fine \subseteq Pebs
      /\ works \in Seq(Pebs \cup {WL}) /\ op.p \in Pebs \cup {None} /\ None \notin Pebs
  BY DEF AInv, Erases, Fine, IInv, RamOk, OpState, Pebs, None
<1>1. Paged'
  BY <1>0, PagedKept
<1>2. Copying'
  BY DEF Copying, Moves
<1>3. ASSUME NEW l \in Lebs \ hurt', eba[l] # None PROVE Leads(peb, l)'
  BY <1>0, <1>3, LeadsKept DEF Leading
<1>4. \A d, x : Ahead(d, x) => Ahead(d, x)'
  <2>1. CASE works' = works
    BY <1>0, <2>1, AheadSame
  <2>2. CASE op.at \in {"vid", "data"} /\ works' = works \o <<op.p>>
    <3>1. op.p # None
      BY <2>2 DEF IInv, Calling
    <3>2. op.p \in Pebs
      BY <1>0, <3>1
    <3>3. <<op.p>> \in Seq(Pebs \cup {WL})
      BY <3>2
    <3> QED BY <1>0, <2>2, <3>3, AheadMore
  <2> QED BY <2>1, <2>2
<1>5. ASSUME NEW l \in Lebs \ hurt', eba[l] = None PROVE Lays(l)'
  <2> DEFINE D == CopiesOf(peb', Fine, l)
  <2>1. D \subseteq Pebs
    BY <1>0 DEF CopiesOf
  <2>2. ASSUME NEW d \in D, NEW x \in D, x = op.p, op'.p # op.p, d # x PROVE Ahead(d, x)'
    <3>1. x \in Pebs /\ works' = works \o <<x>> /\ op.p # None
      BY <1>0, <2>1, <2>2
    <3>2. op.at \in {"vid", "data"}
      BY <3>1 DEF IInv, Calling
    <3>3. Others(peb', op.p)
      BY <3>2, OpVidEffect, OpPageEffect DEF VidTo, PageTo
    <3>4. d \in CopiesOf(peb, Fine, l)
      BY <2>1, <2>2, <3>3 DEF CopiesOf, Others
    <3>5. d \in Queued
      BY <1>0, <1>5, <2>1, <2>2, <3>4, CopyPlaces
    <3> QED BY <3>1, <3>5, AheadPut
  <2>3. Lays(l)
    BY <1>0, <1>5 DEF Lined
  <2>4. op'.at \in {"data", "map"} /\ op'.l = l =>
          /\ op.l = l /\ op'.p = op.p
          /\ op.at \in {"data", "map"} \/ (wk.at = "none" /\ op.at = "vid" /\ peb' = Done)
    OBVIOUS
  <2>5. \A d \in D, x \in Pebs : Ahead(d, x) => Ahead(d, x)'
    BY <1>4
  <2>6. \A d, x \in D : x = op.p /\ op'.p # op.p /\ d # x => Ahead(d, x)'
    BY <2>2
  <2> QED BY <1>0, <1>5, <2>3, <2>4, <2>5, <2>6, LinedKept
<1>6. Leading' /\ Lined'
  BY <1>3, <1>5 DEF Leading, Lined
<1> QED BY <1>1, <1>2, <1>6 DEF AInv

LEMMA GetPebAInv == ASSUME IInv, AInv, GetPeb PROVE AInv'
<1>0. On /\ wk.at = "none" /\ op.at = "get" /\ op \in OpState /\ op.p = None /\ Called /\ peb' \in Half
      /\ UNCHANGED <<flash, works, eba, wk, hurt, ops, sqnum>>
  BY AtOpOn, PebHalf DEF GetPeb, IInv, Calling, AInv, budget, flash
<1>1. PICK p : op' = [op EXCEPT !.at = "vid", !.p = p]
  BY DEF GetPeb
<1>2. op'.at = "vid" /\ op'.p = p /\ op'.l = op.l /\ op'.k = op.k /\ op'.buf = op.buf /\ op'.crc = op.crc /\ op'.sq = op.sq
  BY <1>0, <1>1 DEF OpState
<1>3. Called' /\ Writing /\ Writing'
  BY <1>0, <1>2 DEF Called, Writing, Now
<1> QED BY <1>0, <1>2, <1>3, OpStep DEF Swaps, flash

LEMMA ProducedAInv == ASSUME IInv, AInv, Produced PROVE AInv'
<1>0. On /\ wk.at = "none" /\ op.at = "produce" /\ op \in OpState /\ op.p = None /\ Called /\ peb' \in Half
      /\ UNCHANGED <<flash, works, eba, wk, hurt, ops, sqnum>> /\ op' = [op EXCEPT !.at = "get"]
  BY AtOpOn, PebHalf DEF Produced, IInv, Calling, AInv, budget, flash
<1>2. op'.at = "get" /\ op'.p = None /\ op'.l = op.l /\ op'.k = op.k /\ op'.buf = op.buf /\ op'.crc = op.crc /\ op'.sq = op.sq
  BY <1>0 DEF OpState
<1>3. Called' /\ Writing /\ Writing'
  BY <1>0, <1>2 DEF Called, Writing, Now
<1> QED BY <1>0, <1>2, <1>3, OpStep DEF Swaps, flash

LEMMA NoCopies ==
  ASSUME NEW l, CopiesOf(peb, Fine, l) = {}, Writing /\ op.l = l => op.at \notin {"data", "map"} PROVE Lays(l)
BY DEF Lays, Layers, Line, Writing

\* There are no works, so that no copies are left of what is unmapped.
LEMMA NothingLeft ==
  ASSUME IInv, On, wk.at = "none", works = <<>>, op.at \notin {"data", "map"},
         NEW l \in Lebs, NEW c \in CopiesOf(peb, Fine, l)
  PROVE  c = eba[l] /\ eba[l] # None
<1>1. c \notin Queued
  BY DEF Queued, ToSet
<1>2. c \in Pebs
  BY DEF CopiesOf, Fine
<1> QED BY <1>1, <1>2, CopyPlaces DEF Erases, Pebs, None

LEMMA EndsIdle ==
  ASSUME IInv, AInv, On, wk.at = "none", works = <<>>, op.at \in {"get", "flush"},
         UNCHANGED <<flash, works, eba, wk, hurt, ops>>, Called', op'.at = "idle"
  PROVE  AInv'
<1>0. Called /\ Copying /\ Paged /\ Leading /\ Lined /\ peb' = peb /\ bad' = bad /\ Fine' = Fine
  BY DEF AInv, flash, Fine
<1>1. Paged'
  BY <1>0, PagedKept
<1>2. Copying'
  BY DEF Copying, Moves
<1>3. ASSUME NEW l \in Lebs \ hurt, eba[l] # None PROVE Leads(peb, l)'
  <2>1. Intact(peb[eba[l]])
    BY <1>0, <1>3 DEF Leading, Leads
  <2>2. ASSUME NEW c \in CopiesOf(peb, Fine, l) PROVE peb[c].vid.sq <= peb[eba[l]].vid.sq
    <3>1. c = eba[l] /\ peb[c].vid.sq \in Nat
      BY NothingLeft, CopyFacts, FlashIs DEF IInv
    <3> QED BY <3>1
  <2> QED BY <1>0, <2>1, <2>2 DEF Leads
<1>4. ASSUME NEW l \in Lebs \ hurt, eba[l] = None PROVE Lays(l)'
  <2>1. CopiesOf(peb, Fine, l) = {}
    BY <1>4, NothingLeft
  <2>2. CopiesOf(peb, Fine, l)' = {}
    BY <1>0, <2>1
  <2> QED BY <2>2 DEF Lays, Layers, Line, Writing
<1> QED BY <1>1, <1>2, <1>3, <1>4 DEF AInv, Leading, Lined

LEMMA NeedPebAInv == ASSUME IInv, AInv, NeedPeb PROVE AInv'
<1>0. On /\ wk.at = "none" /\ op.at = "get" /\ op \in OpState /\ op.p = None /\ Called /\ peb' \in Half
      /\ UNCHANGED <<flash, works, eba, wk, hurt, ops, sqnum>>
  BY AtOpOn, PebHalf DEF NeedPeb, IInv, Calling, AInv, budget, flash
<1>1. CASE works # <<>>
  <2>1. op' = [op EXCEPT !.at = "produce"]
    BY <1>1 DEF NeedPeb
  <2>2. op'.at = "produce" /\ op'.p = None /\ op'.l = op.l /\ op'.k = op.k /\ op'.buf = op.buf /\ op'.crc = op.crc /\ op'.sq = op.sq
    BY <1>0, <2>1 DEF OpState
  <2>3. Called' /\ Writing /\ Writing'
    BY <1>0, <2>2 DEF Called, Writing, Now
  <2> QED BY <1>0, <2>2, <2>3, OpStep DEF Swaps, flash
<1>2. CASE works = <<>>
  <2>1. op' = Idle("err")
    BY <1>2 DEF NeedPeb
  <2>2. op'.at = "idle" /\ Called'
    BY <2>1, CalledIdle DEF Idle
  <2> QED BY <1>0, <1>2, <2>2, EndsIdle
<1> QED BY <1>1, <1>2

LEMMA FlushDoneAInv == ASSUME IInv, AInv, FlushDone PROVE AInv'
<1>0. On /\ wk.at = "none" /\ op.at = "flush" /\ works = <<>> /\ op' = Idle("ok")
      /\ UNCHANGED <<flash, works, eba, wk, hurt, ops>>
  BY AtOpOn DEF FlushDone, budget
<1>1. op'.at = "idle" /\ Called'
  BY <1>0, CalledIdle DEF Idle
<1> QED BY <1>0, <1>1, EndsIdle

LEMMA RecoverUnreadableAInv == ASSUME IInv, AInv, RecoverUnreadable PROVE AInv'
<1>1. ~On' /\ peb' = peb /\ ops' = ops
  BY DEF RecoverUnreadable, On, flash, budget
<1> QED BY <1>1, PagedKept, OffLater DEF AInv

LEMMA WriteVidAInv == ASSUME IInv, AInv, WriteVid PROVE AInv'
<1>0. On /\ wk.at = "none" /\ op.at = "vid" /\ op \in OpState /\ Called /\ peb' = Done
      /\ UNCHANGED <<bad, works, eba, wk, hurt, ops, sqnum>>
  BY AtOpOn DEF WriteVid, AInv, budget
<1>1. op' = [op EXCEPT !.at = IF op.buf = <<>> THEN "map" ELSE "data"]
  BY DEF WriteVid
<1>2. /\ op'.at = IF op.buf = <<>> THEN "map" ELSE "data"
      /\ op'.p = op.p /\ op'.l = op.l /\ op'.k = op.k /\ op'.buf = op.buf /\ op'.crc = op.crc /\ op'.n = op.n
  BY <1>0, <1>1 DEF OpState
<1>3. /\ VidTo(Done, op.p, Vid(op.l, op.sq, op.crc)) /\ op.n = 0 /\ op.buf \in Seq(Nat) /\ op.sq \in Nat
      /\ sqnum \in Nat /\ op.sq + 1 = sqnum
  BY <1>0, OpVidEffect DEF IInv, Calling, RamOk, OpState, Called
<1>4. /\ peb'[op.p].vid = Vid(op.l, op.sq, op.crc) /\ peb'[op.p].data = <<>> /\ Others(peb', op.p)
      /\ Fine \subseteq Pebs
  BY <1>0, <1>3 DEF VidTo, Fine
<1>5. peb'[op.p].vid.sq = op.sq /\ peb'[op.p].vid.crc = op.crc
  BY <1>4 DEF Vid
<1>6. ASSUME NEW c \in CopiesOf(peb', Fine, op.l) PROVE peb'[c].vid.sq <= op.sq
  <2>1. CASE c = op.p
    BY <1>3, <1>5, <2>1
  <2>2. CASE c # op.p
    <3>1. peb'[c] = peb[c] /\ c \in CopiesOf(peb, Fine, op.l)
      BY <1>4, <2>2 DEF CopiesOf, Others
    <3>2. HasVid(c) /\ c \in Pebs \ bad /\ peb[c].vid.sq \in Nat
      BY <3>1, CopyFacts, FlashIs DEF HasVid, Fine, IInv
    <3>3. peb[c].vid.sq < sqnum
      BY <1>0, <3>2 DEF IInv, Numbered
    <3> QED BY <1>3, <3>1, <3>2, <3>3
  <2> QED BY <2>1, <2>2
<1>7. SubSeq(op.buf, 1, op.n) = <<>>
  BY <1>3
<1>8. op.buf = <<>> => op.n = Len(op.buf)
  BY <1>3
<1>9. Called'
  <2>1. Now' = Now /\ Fine' = Fine /\ op'.at \in {"data", "map"}
    BY <1>0, <1>2 DEF Now, Fine
  <2>2. Writing'
    BY <2>1 DEF Writing
  <2>3. \A c \in CopiesOf(peb', Fine', op'.l) : peb'[c].vid.sq <= peb'[op'.p].vid.sq
    BY <1>2, <1>5, <1>6, <2>1
  <2>4. op'.k # "recover" => peb'[op'.p].vid.crc = op'.crc /\ peb'[op'.p].data = SubSeq(op'.buf, 1, op'.n)
    BY <1>2, <1>4, <1>5, <1>7
  <2>5. /\ op.k \in {"write", "change", "recover"}
        /\ op.k = "write" => eba[op.l] = None /\ op.crc = <<>>
        /\ op.k = "change" => op.buf # <<>> /\ op.crc = op.buf
        /\ op.k = "recover" => op.l \in hurt
        /\ \A i \in DOMAIN op.buf : op.buf[i] <= Now
        /\ op.k \in {"write", "change"} => \A i \in DOMAIN op.buf : op.buf[i] = Now
    BY <1>0 DEF Called, Writing
  <2>6. op'.at = "map" => op'.n = Len(op'.buf)
    BY <1>2, <1>8
  <2> QED BY <1>0, <1>2, <2>1, <2>3, <2>4, <2>5, <2>6 DEF Called
<1> QED BY <1>0, <1>2, <1>9, OpStep DEF Swaps, Writing

LEMMA WritePageAInv == ASSUME IInv, AInv, WritePage PROVE AInv'
<1> DEFINE n == op.n
<1>0. On /\ wk.at = "none" /\ op.at = "data" /\ op \in OpState /\ Called /\ peb' = Done
      /\ UNCHANGED <<bad, works, eba, wk, hurt, ops, sqnum>>
  BY AtOpOn DEF WritePage, AInv, budget
<1>1. op' = [op EXCEPT !.n = @ + 1, !.at = IF op.n + 1 = Len(op.buf) THEN "map" ELSE @]
  BY DEF WritePage
<1>2. /\ op'.at = IF n + 1 = Len(op.buf) THEN "map" ELSE "data"
      /\ op'.p = op.p /\ op'.l = op.l /\ op'.k = op.k /\ op'.buf = op.buf /\ op'.crc = op.crc /\ op'.n = n + 1
  BY <1>0, <1>1 DEF OpState
<1>3. /\ PageTo(Done, op.p, op.buf[n + 1]) /\ n \in Nat /\ op.buf \in Seq(Nat) /\ n + 1 <= Len(op.buf)
  BY <1>0, OpPageEffect
<1>4. /\ peb'[op.p].vid = peb[op.p].vid /\ peb'[op.p].data = Append(peb[op.p].data, op.buf[n + 1]) /\ Others(peb', op.p)
      /\ Fine \subseteq Pebs
  BY <1>0, <1>3 DEF PageTo, Fine
<1>6. ASSUME NEW c \in CopiesOf(peb', Fine, op.l) PROVE peb'[c].vid.sq <= peb'[op.p].vid.sq
  <2>1. peb'[c].vid = peb[c].vid /\ c \in CopiesOf(peb, Fine, op.l)
    BY <1>4 DEF CopiesOf, Others
  <2> QED BY <1>0, <1>4, <2>1 DEF Called
<1>7. n \in 0 .. Len(op.buf)
  BY <1>3
<1>8. SubSeq(op.buf, 1, n + 1) = Append(SubSeq(op.buf, 1, n), op.buf[n + 1])
  BY <1>3, <1>7, FirstPages
<1>9. Called'
  <2>1. Now' = Now /\ Fine' = Fine /\ op'.at \in {"data", "map"}
    BY <1>0, <1>2 DEF Now, Fine
  <2>3. \A c \in CopiesOf(peb', Fine', op'.l) : peb'[c].vid.sq <= peb'[op'.p].vid.sq
    BY <1>2, <1>6, <2>1
  <2>5. /\ op.k \in {"write", "change", "recover"}
        /\ op.k = "write" => eba[op.l] = None /\ op.crc = <<>>
        /\ op.k = "change" => op.buf # <<>> /\ op.crc = op.buf
        /\ op.k = "recover" => op.l \in hurt
        /\ \A i \in DOMAIN op.buf : op.buf[i] <= Now
        /\ op.k \in {"write", "change"} => \A i \in DOMAIN op.buf : op.buf[i] = Now
        /\ op.k # "recover" => peb[op.p].vid.crc = op.crc /\ peb[op.p].data = SubSeq(op.buf, 1, n)
    BY <1>0 DEF Called, Writing
  <2>4. op'.k # "recover" => peb'[op'.p].vid.crc = op'.crc /\ peb'[op'.p].data = SubSeq(op'.buf, 1, op'.n)
    BY <1>2, <1>4, <1>8, <2>5
  <2>6. op'.at = "map" => op'.n = Len(op'.buf)
    BY <1>2
  <2> QED BY <1>0, <1>2, <2>1, <2>3, <2>4, <2>5, <2>6 DEF Called
<1>10. \A l \in Lebs \ hurt' : Swaps(peb', l) => op'.at = "map" /\ op'.p = op.p
  BY <1>2 DEF Swaps
<1> QED BY <1>0, <1>2, <1>9, <1>10, OpStep DEF Writing

LEMMA WriteFailAInv == ASSUME IInv, AInv, WriteFail PROVE AInv'
<1>0. On /\ wk.at = "none" /\ op.at \in {"vid", "data"} /\ op \in OpState /\ Called /\ Paged /\ peb' \in Half
      /\ UNCHANGED <<bad, eba, wk, hurt, ops>> /\ works' = works \o <<op.p>>
  BY AtOpOn DEF WriteFail, AInv, Put
<1>1. CASE op.tries < Retries
  <2>1. op' = Again /\ sqnum' = sqnum + 1
    BY <1>1 DEF WriteFail
  <2>2. op'.at = "get" /\ op'.p = None /\ op'.l = op.l /\ op'.k = op.k /\ op'.buf = op.buf /\ op'.crc = op.crc /\ op'.sq = sqnum
    BY <1>0, <2>1 DEF OpState, Again
  <2>3. Called' /\ Writing'
    BY <1>0, <2>1, <2>2 DEF Called, Writing, Now
  <2>4. \A l \in Lebs \ hurt' : ~Swaps(peb', l)
    BY <1>0, HalfNoSwap
  <2> QED BY <1>0, <2>2, <2>3, <2>4, OpStep
<1>2. CASE ~(op.tries < Retries)
  <2>1. ~On'
    BY <1>2 DEF WriteFail, On
  <2> QED BY <1>0, <2>1, PagedKept, OffLater
<1> QED BY <1>1, <1>2

LEMMA AppendPageAInv == ASSUME IInv, AInv, AppendPage PROVE AInv'
<1> DEFINE n == op.n
           s == DataOf(op.l)
           m == Len(s)
<1>0. On /\ wk.at = "none" /\ op.at = "append" /\ op \in OpState /\ Called /\ peb' = Done /\ op.p = None
      /\ UNCHANGED <<bad, works, eba, wk, hurt, ops, sqnum>>
  BY AtOpOn DEF AppendPage, AInv, budget, IInv, Calling
<1>1. \A l \in Lebs \ hurt' : ~Swaps(peb', l)
  BY <1>0 DEF Swaps
<1>2. CASE n + 1 = Len(op.buf)
  <2>1. op' = Idle("ok")
    BY <1>2 DEF AppendPage
  <2>2. op'.at = "idle" /\ Called' /\ op'.p = None
    BY <2>1, CalledIdle DEF Idle
  <2> QED BY <1>0, <1>1, <2>2, OpStep DEF Writing
<1>3. CASE n + 1 # Len(op.buf)
  <2>1. op' = [op EXCEPT !.n = @ + 1]
    BY <1>3 DEF AppendPage
  <2>2. op'.at = "append" /\ op'.p = None /\ op'.l = op.l /\ op'.k = op.k /\ op'.buf = op.buf /\ op'.crc = op.crc
        /\ op'.n = n + 1
    BY <1>0, <2>1 DEF OpState
  <2>3. /\ PageTo(Done, eba[op.l], op.buf[n + 1]) /\ n \in Nat /\ op.buf[n + 1] = Now /\ m \in Nat /\ n <= m
        /\ op.k = "write" /\ \A i \in 1 .. n : s[m - n + i] = Now
    BY <1>0, OpPageEffect, AppendPeb DEF Called
  <2>4. s \in Seq(Nat)
    BY <2>3 DEF PageTo, DataOf
  <2>5. peb'[eba'[op'.l]].data = Append(s, Now) /\ Now \in Nat
    BY <1>0, <2>2, <2>3, NowIs DEF PageTo, DataOf
  <2> DEFINE t == Append(s, Now)
  <2>6. Len(t) = m + 1 /\ t[m + 1] = Now /\ \A i \in 1 .. m : t[i] = s[i]
    BY <2>4, <2>5
  <2>7. ASSUME NEW i \in 1 .. n + 1 PROVE t[Len(t) - (n + 1) + i] = Now
    <3> HIDE DEF t, s, m, n
    <3>1. Len(t) - (n + 1) + i = m - n + i
      BY <2>3, <2>6
    <3>2. CASE i = n + 1
      <4>1. m - n + i = m + 1
        BY <2>3, <3>2
      <4> QED BY <2>6, <3>1, <4>1
    <3>3. CASE i # n + 1
      <4>1. i \in 1 .. n /\ m - n + i \in 1 .. m
        BY <2>3, <3>3
      <4> QED BY <2>3, <2>6, <3>1, <4>1
    <3> QED BY <3>2, <3>3
  <2>8. \A i \in 1 .. op'.n : peb'[eba'[op'.l]].data[Len(peb'[eba'[op'.l]].data) - op'.n + i] = Now
    BY <2>2, <2>5, <2>7
  <2>9. Called'
    <3>1. Now' = Now
      BY <1>0 DEF Now
    <3>2. \A i \in DOMAIN op.buf : op.buf[i] = Now /\ op.buf[i] <= Now
      BY <1>0, <2>3 DEF Called
    <3>3. (\A i \in 1 .. op.n : DataOf(op.l)[Len(DataOf(op.l)) - op.n + i] = Now)'
      BY <2>8, <3>1 DEF DataOf
    <3> QED BY <2>2, <2>3, <3>1, <3>2, <3>3 DEF Called, Writing
  <2> QED BY <1>0, <1>1, <2>2, <2>9, OpStep DEF Writing
<1> QED BY <1>2, <1>3

LEMMA ConcatAt ==
  ASSUME NEW t \in Seq(Nat), NEW u \in Seq(Nat)
  PROVE  /\ DOMAIN (t \o u) = 1 .. Len(t) + Len(u) /\ \A i \in 1 .. Len(t) : (t \o u)[i] = t[i]
         /\ \A i \in 1 .. Len(t) + Len(u) :
              i \notin 1 .. Len(t) => i - Len(t) \in 1 .. Len(u) /\ (t \o u)[i] = u[i - Len(t)]
<1>1. Len(t) \in Nat /\ Len(u) \in Nat /\ DOMAIN (t \o u) = 1 .. Len(t) + Len(u)
      /\ \A i \in 1 .. Len(t) : (t \o u)[i] = t[i]
  OBVIOUS
<1>2. ASSUME NEW i \in 1 .. Len(t) + Len(u), i \notin 1 .. Len(t)
      PROVE  i - Len(t) \in 1 .. Len(u) /\ (t \o u)[i] = u[i - Len(t)]
  <2>1. i \in Len(t) + 1 .. Len(t) + Len(u) /\ i - Len(t) \in 1 .. Len(u)
    BY <1>1, <1>2
  <2> QED BY <1>1, <2>1
<1> QED BY <1>1, <1>2

LEMMA AppendFailAInv == ASSUME IInv, AInv, AppendFail PROVE AInv'
<1> DEFINE s == DataOf(op.l)
           m == Len(s) - op.n
           b == Before(op.l, op.n) \o op.buf
<1>0. On /\ wk.at = "none" /\ op.at = "append" /\ op.p = None /\ Called /\ Paged /\ peb' \in Half
      /\ UNCHANGED <<bad, works, eba, wk, ops>> /\ sqnum' = sqnum + 1 /\ hurt' = hurt \cup {op.l}
      /\ op' = New("recover", op.l, b, peb[eba[op.l]].vid.crc)
  BY AtOpOn DEF AppendFail, AInv, IInv, Calling
<1>1. op'.k = "recover" /\ op'.at = "get" /\ op'.p = None /\ op'.l = op.l /\ op'.buf = b /\ op'.sq = sqnum
  BY <1>0 DEF New, Idle
<1>2. \A i \in DOMAIN b : b[i] <= Now
  <2>0. eba[op.l] \in Pebs /\ op.buf \in Seq(Nat) /\ op.n \in Nat /\ Len(s) \in Nat /\ op.n <= Len(s)
    BY <1>0, AppendPeb DEF IInv, RamOk, OpState
  <2>1. s \in Seq(Nat) /\ eba[op.l] \in Pebs /\ op.buf \in Seq(Nat) /\ m \in 0 .. Len(s)
    BY <2>0, PebFacts DEF DataOf, IInv
  <2>2. \A i \in DOMAIN s : s[i] <= Now
    BY <1>0, <2>1 DEF DataOf, Paged
  <2>3. \A i \in DOMAIN op.buf : op.buf[i] <= Now
    BY <1>0 DEF Called
  <2> DEFINE t == SubSeq(s, 1, m)
             u == op.buf
             k == Len(u)
  <2>4. t \in Seq(Nat) /\ Len(t) = m /\ \A i \in 1 .. m : t[i] = s[i]
    BY <2>1, FirstPages
  <2>5. b = t \o u /\ k \in Nat /\ m \in Nat /\ DOMAIN u = 1 .. k /\ \A i \in 1 .. m : i \in DOMAIN s
    BY <2>1 DEF Before
  <2> HIDE DEF s, b, t, m
  <2>6. DOMAIN b = 1 .. m + k /\ (\A i \in 1 .. m : b[i] = t[i])
        /\ \A i \in 1 .. m + k : i \notin 1 .. m => i - m \in 1 .. k /\ b[i] = u[i - m]
    BY <2>1, <2>4, <2>5, ConcatAt
  <2> HIDE DEF u, k
  <2>7. ASSUME NEW i \in 1 .. m + k PROVE b[i] <= Now
    <3>1. CASE i \in 1 .. m
      BY <2>2, <2>4, <2>5, <2>6, <3>1
    <3>2. CASE i \notin 1 .. m
      <4>1. i - m \in DOMAIN u /\ b[i] = u[i - m]
        BY <2>5, <2>6, <3>2
      <4> QED BY <2>3, <4>1 DEF u
    <3> QED BY <3>1, <3>2
  <2> QED BY <2>6, <2>7
<1> HIDE DEF b
<1>3. Now' = Now
  BY <1>0 DEF Now
<1>4. Called'
  BY <1>0, <1>1, <1>2, <1>3 DEF Called, Writing
<1>5. \A l \in Lebs \ hurt' : ~Swaps(peb', l)
  BY <1>0 DEF Swaps
<1>6. ~Writing
  BY <1>0 DEF Writing
<1> QED BY <1>0, <1>1, <1>4, <1>5, <1>6, OpStep

\* What is to be mapped is whole and newer than all other copies.
LEMMA Newest ==
  ASSUME IInv, Called, On, op.at = "map", op.l \notin hurt
  PROVE  /\ op.p \in CopiesOf(peb, Fine, op.l) /\ Intact(peb[op.p]) /\ peb[op.p].data = op.buf
         /\ \A c \in CopiesOf(peb, Fine, op.l) : peb[c].vid.sq <= peb[op.p].vid.sq
         /\ op.k \in {"write", "change"}
<1>1. op.p \in Pebs \ bad /\ HasVid(op.p) /\ peb[op.p].vid.l = op.l
  BY OpPeb DEF IInv, Calling, Doing
<1>2. /\ op.k \in {"write", "change"} /\ op.n = Len(op.buf)
      /\ op.k = "write" => op.crc = <<>>
      /\ op.k = "change" => op.crc = op.buf
      /\ peb[op.p].vid.crc = op.crc /\ peb[op.p].data = SubSeq(op.buf, 1, op.n)
      /\ \A c \in CopiesOf(peb, Fine, op.l) : peb[c].vid.sq <= peb[op.p].vid.sq
  BY DEF Called, Writing
<1>3. op.buf \in Seq(Nat) /\ Len(op.buf) \in Nat
  BY DEF IInv, RamOk, OpState
<1>4. peb[op.p].data = op.buf
  BY <1>2, <1>3
<1>5. Intact(peb[op.p])
  BY <1>2, <1>3, <1>4 DEF Intact
<1> QED BY <1>1, <1>2, <1>4, <1>5 DEF CopiesOf, HasVid, Fine

LEMMA MapPebAInv == ASSUME IInv, AInv, MapPeb PROVE AInv'
<1>0. On /\ wk.at = "none" /\ op.at = "map" /\ Called /\ Paged /\ Copying /\ Leading /\ Lined /\ ~Erases
      /\ peb' = peb /\ peb' \in Half \cup {Done} /\ bad' = bad /\ Fine' = Fine /\ UNCHANGED <<wk, hurt, ops>>
      /\ eba' = [eba EXCEPT ![op.l] = op.p] /\ works' = works \o Old(op.l) /\ op' = Idle("ok")
      /\ op.l \in Lebs /\ op.p \in Pebs /\ op.p # None
  BY AtOpOn, PebHalf, OpPeb DEF MapPeb, AInv, Put, budget, flash, Erases, Fine
<1>1. eba \in [Lebs -> Pebs \cup {None}] /\ eba'[op.l] = op.p /\ (\A j \in Lebs : j # op.l => eba'[j] = eba[j])
      /\ op'.at = "idle"
  BY <1>0 DEF IInv, RamOk, Idle
<1>2. Called' /\ Paged'
  BY <1>0, CalledIdle, PagedKept
<1>3. Copying'
  BY <1>0 DEF Copying, Moves
<1>4. ASSUME NEW l \in Lebs \ hurt, eba'[l] # None PROVE Leads(peb, l)'
  <2>1. CASE l = op.l
    <3>1. Intact(peb[op.p]) /\ \A c \in CopiesOf(peb, Fine, l) : peb[c].vid.sq <= peb[op.p].vid.sq
      BY <1>0, <2>1, Newest
    <3> QED BY <1>0, <1>1, <2>1, <3>1 DEF Leads
  <2>2. CASE l # op.l
    <3>1. eba'[l] = eba[l] /\ eba[l] # None /\ Leads(peb, l)
      BY <1>0, <1>1, <1>4, <2>2 DEF Leading
    <3> QED BY <1>0, <2>2, <3>1, LeadsKept DEF Swaps
  <2> QED BY <2>1, <2>2
<1>5. Old(op.l) \in Seq(Pebs \cup {WL})
  <2>1. eba[op.l] \in Pebs \cup {None}
    BY <1>0, <1>1
  <2>2. CASE eba[op.l] = None
    BY <2>2 DEF Old
  <2>3. CASE eba[op.l] # None
    <3>1. <<eba[op.l]>> \in Seq(Pebs \cup {WL})
      BY <2>1, <2>3
    <3> QED BY <2>3, <3>1 DEF Old
  <2> QED BY <2>2, <2>3
<1>6. \A d, x : Ahead(d, x) => Ahead(d, x)'
  BY <1>0, <1>5, AheadMore
<1>7. ASSUME NEW l \in Lebs \ hurt, eba'[l] = None PROVE Lays(l)'
  <2>1. l # op.l /\ eba[l] = None /\ Lays(l)
    BY <1>0, <1>1, <1>7 DEF Lined
  <2>2. op.p \notin CopiesOf(peb', Fine, l)
    BY <1>0, <2>1 DEF CopiesOf, IInv, Calling
  <2> QED BY <1>0, <1>1, <1>6, <2>1, <2>2, LinedKept
<1> QED BY <1>0, <1>2, <1>3, <1>4, <1>7 DEF AInv, Leading, Lined

(***************************************************************************)
(* The works.                                                              *)
(***************************************************************************)
LEMMA CalledWork ==
  ASSUME IInv, Called, On, op' = op, op.at \in {"flush", "produce"}, ops' = ops, hurt \subseteq hurt',
         op.at = "produce" => sqnum' = sqnum /\ eba' = eba,
         op.at = "flush" /\ op.k = "erase" => eba'[op.l] = None
  PROVE  Called'
<1>1. Now' = Now
  BY DEF Now
<1> QED BY <1>1 DEF Called, Writing

LEMMA WorkStep ==
  ASSUME IInv, AInv, On, UNCHANGED <<eba, ops, hurt, op, bad>>, op.at \in {"flush", "produce"},
         peb' \in Half \cup {Done}, op.at = "produce" => sqnum' = sqnum, Copying',
         \A d, x \in Pebs : Ahead(d, x) => Ahead(d, x)' \/ peb'[d].vid.st # "ok"
  PROVE  AInv'
<1>0. Called /\ Copying /\ Paged /\ Leading /\ Lined
  BY DEF AInv
<1>1. Called' /\ Paged'
  BY <1>0, CalledWork, PagedKept DEF Called
<1>2. ASSUME NEW l \in Lebs \ hurt, eba[l] # None PROVE Leads(peb, l)'
  BY <1>0, <1>2, LeadsKept DEF Leading, Swaps
<1>3. ASSUME NEW l \in Lebs \ hurt, eba[l] = None PROVE Lays(l)'
  <2>1. \A d \in CopiesOf(peb', Fine, l), x \in Pebs : Ahead(d, x) => Ahead(d, x)'
    BY DEF CopiesOf, Fine
  <2> QED BY <1>0, <1>3, <2>1, LinedKept DEF Writing, Lined
<1> QED BY <1>1, <1>2, <1>3 DEF AInv, Leading, Lined

LEMMA DoEraseAInv == ASSUME IInv, AInv, DoErase PROVE AInv'
<1>0. /\ On /\ wk.at = "none" /\ op.at \in {"flush", "produce"} /\ ~Erases /\ works # <<>>
      /\ peb' \in Half \cup {Done} /\ works' = Tail(works) /\ wk' = [NoWork EXCEPT !.at = "erase", !.p = Head(works)]
      /\ UNCHANGED <<eba, ops, hurt, op, bad, sqnum>>
  BY WorkStarts, PebHalf DEF DoErase, flash, budget
<1>1. wk'.at = "erase" /\ wk'.p = Head(works)
  BY <1>0 DEF NoWork
<1>2. Copying' /\ Erases'
  BY <1>1 DEF Copying, Moves, Erases
<1>3. \A d, x : Ahead(d, x) => Ahead(d, x)'
  BY <1>0, <1>1, <1>2, AheadTail
<1> QED BY <1>0, <1>2, <1>3, WorkStep

LEMMA CancelWlAInv == ASSUME IInv, AInv, CancelWl PROVE AInv'
<1>0. /\ On /\ wk.at = "none" /\ op.at \in {"flush", "produce"} /\ ~Erases /\ works # <<>> /\ Head(works) = WL
      /\ peb' \in Half \cup {Done} /\ works' = Tail(works) /\ wk' = wk
      /\ UNCHANGED <<eba, ops, hurt, op, bad, sqnum>>
  BY WorkStarts, PebHalf DEF CancelWl, flash, budget
<1>2. Copying'
  BY <1>0 DEF Copying, Moves
<1>3. \A d, x \in Pebs : Ahead(d, x) => Ahead(d, x)'
  BY <1>0, AheadTail DEF Pebs, WL
<1> QED BY <1>0, <1>2, <1>3, WorkStep

LEMMA DoMoveAInv == ASSUME IInv, AInv, DoMove PROVE AInv'
<1>0. /\ On /\ wk.at = "none" /\ op.at = "flush" /\ ~Erases /\ works # <<>> /\ Head(works) = WL
      /\ peb' = peb /\ peb' \in Half \cup {Done} /\ works' = Tail(works)
      /\ UNCHANGED <<eba, ops, hurt, bad>>
  BY WorkStarts, PebHalf DEF DoMove, AtOp, flash, budget
<1>1. PICK p, q :
       IF Torn \in ToSet(peb[p].data) THEN Fails(TRUE) /\ UNCHANGED sqnum
          ELSE /\ wk' = [at |-> "vid", p |-> p, q |-> q, n |-> 0, sq |-> sqnum,
                         scr |-> scrub # {}]
               /\ sqnum' = sqnum + 1 /\ UNCHANGED <<op, ro>>
  BY DEF DoMove
<1>2. CASE Torn \in ToSet(peb[p].data)
  <2>1. ~On'
    BY <1>1, <1>2 DEF Fails, On
  <2> QED BY <1>0, <2>1, PagedKept, OffLater DEF AInv
<1>3. CASE Torn \notin ToSet(peb[p].data)
  <2>1. wk'.at = "vid" /\ wk'.p = p /\ wk'.sq + 1 = sqnum' /\ op' = op
    BY <1>1, <1>3
  <2>2. Copying'
    BY <1>0, <1>3, <2>1 DEF Copying, Moves
  <2>3. \A d, x \in Pebs : Ahead(d, x) => Ahead(d, x)'
    BY <1>0, AheadTail DEF Pebs, WL
  <2> QED BY <1>0, <2>1, <2>2, <2>3, WorkStep
<1> QED BY <1>2, <1>3

LEMMA EraseOkAInv == ASSUME IInv, AInv, EraseOk PROVE AInv'
<1>0. /\ On /\ op.at \in {"flush", "produce"} /\ wk \in WkState /\ wk' = [wk EXCEPT !.at = "ec"] /\ works' = works
      /\ peb' \in Half \cup {Done} /\ UNCHANGED <<eba, ops, hurt, op, bad, sqnum>>
  BY WorkOn DEF EraseOk, Working, budget
<1>1. wk'.at = "ec" /\ wk'.p = wk.p
  BY <1>0 DEF WkState
<1>2. Copying' /\ Erases'
  BY <1>1 DEF Copying, Moves, Erases
<1> QED BY <1>0, <1>1, <1>2, AheadSame, WorkStep

LEMMA EraseFailAInv == ASSUME IInv, AInv, EraseFail PROVE AInv'
<1>0. /\ On /\ op.at \in {"flush", "produce"} /\ wk \in WkState /\ wk' = [wk EXCEPT !.at = "mark"] /\ works' = works
      /\ peb' \in Half \cup {Done} /\ UNCHANGED <<eba, ops, hurt, op, bad, sqnum>>
  BY WorkOn DEF EraseFail, Working, budget
<1>1. wk'.at = "mark" /\ wk'.p = wk.p
  BY <1>0 DEF WkState
<1>2. Copying' /\ Erases'
  BY <1>1 DEF Copying, Moves, Erases
<1> QED BY <1>0, <1>1, <1>2, AheadSame, WorkStep

LEMMA EcOkAInv == ASSUME IInv, AInv, EcOk PROVE AInv'
<1>0. /\ On /\ op.at \in {"flush", "produce"} /\ wk.at = "ec" /\ wk' = NoWork /\ EnsureWl(wls, works)
      /\ peb' = Done /\ UNCHANGED <<eba, ops, hurt, op, bad, sqnum>>
  BY WorkOn DEF EcOk, Working
<1>1. Copying'
  BY <1>0, NoWorkOk DEF Copying, Moves
<1>2. peb'[wk.p].vid.st # "ok"
  BY <1>0, EraseEffect
<1>3. \A d, x \in Pebs : Ahead(d, x) => Ahead(d, x)' \/ peb'[d].vid.st # "ok"
  BY <1>0, <1>2, AheadWl
<1> QED BY <1>0, <1>1, <1>3, WorkStep

LEMMA MoveFailAInv == ASSUME IInv, AInv, MoveFail PROVE AInv'
<1>1. ~On' /\ peb' \in Half /\ ops' = ops /\ On
  BY WorkOn DEF MoveFail, On, Fails, Working
<1> QED BY <1>1, PagedKept, OffLater DEF AInv

LEMMA MoveVidAInv == ASSUME IInv, AInv, MoveVid PROVE AInv'
<1> DEFINE src == peb[wk.p].data
<1>0. /\ On /\ op.at \in {"flush", "produce"} /\ wk \in WkState /\ wk.at = "vid" /\ works' = works
      /\ wk' = [wk EXCEPT !.at = IF src = <<>> THEN "moved" ELSE "data"]
      /\ peb' = Done /\ UNCHANGED <<eba, ops, hurt, op, bad, sqnum>> /\ ~Erases
      /\ wk.p \in Pebs /\ wk.p # wk.q /\ HasVid(wk.p) /\ wk.n = 0
  BY WorkOn DEF MoveVid, Working, budget, Erases, IInv, Doing, Moves
<1>1. wk'.at = (IF src = <<>> THEN "moved" ELSE "data") /\ wk'.p = wk.p /\ wk'.q = wk.q /\ wk'.n = 0
  BY <1>0 DEF WkState
<1>2. VidTo(Done, wk.q, MovedVid) /\ wk.sq + 1 = sqnum
  BY <1>0, MoveVidEffect DEF AInv, Copying, Moves
<1>3. peb'[wk.p] = peb[wk.p] /\ peb'[wk.q].vid = MovedVid /\ peb'[wk.q].data = <<>>
  BY <1>0, <1>2 DEF VidTo, Others
<1>4. peb[wk.p].vid.sq < wk.sq
  <2>1. wk.p \in Pebs \ bad
    BY <1>0, HandsGood DEF IInv
  <2>2. peb[wk.p].vid.sq < sqnum /\ peb[wk.p].vid.sq # wk.sq /\ peb[wk.p].vid.sq \in Nat
    BY <1>0, <2>1, PebFacts DEF IInv, Numbered
  <2>3. wk.sq \in Nat /\ sqnum \in Nat
    BY <1>0 DEF WkState, IInv, RamOk
  <2> QED BY <1>2, <2>2, <2>3
<1>5. MovedVid.sq = wk.sq /\ MovedVid.crc = IF src = <<>> THEN peb[wk.p].vid.crc ELSE src
  BY DEF MovedVid, Vid
<1>6. src \in Seq(Nat)
  BY <1>0, PebFacts DEF IInv
<1>7. SubSeq(src, 1, 0) = <<>> /\ (src = <<>> => Len(src) = 0)
  BY <1>6
<1>8. Copying'
  BY <1>1, <1>2, <1>3, <1>4, <1>5, <1>7 DEF Copying, Moves
<1> QED BY <1>0, <1>8, AheadSame, WorkStep

LEMMA MovePageAInv == ASSUME IInv, AInv, MovePage PROVE AInv'
<1> DEFINE src == peb[wk.p].data
           n == wk.n
<1>0. /\ On /\ op.at \in {"flush", "produce"} /\ wk \in WkState /\ wk.at = "data" /\ works' = works
      /\ wk' = [wk EXCEPT !.n = @ + 1, !.at = IF wk.n + 1 = Len(src) THEN "moved" ELSE @]
      /\ peb' = Done /\ UNCHANGED <<eba, ops, hurt, op, bad, sqnum>> /\ ~Erases
      /\ wk.p \in Pebs /\ wk.p # wk.q /\ n \in Nat /\ n < Len(src)
  BY WorkOn DEF MovePage, Working, budget, Erases, IInv, Doing, Moves, WkState
<1>1. wk'.at = (IF n + 1 = Len(src) THEN "moved" ELSE "data") /\ wk'.p = wk.p /\ wk'.q = wk.q /\ wk'.n = n + 1
  BY <1>0 DEF WkState
<1>2. /\ PageTo(Done, wk.q, src[n + 1]) /\ peb[wk.p].vid.sq < peb[wk.q].vid.sq
      /\ peb[wk.q].vid.crc = IF src = <<>> THEN peb[wk.p].vid.crc ELSE src
      /\ peb[wk.q].data = SubSeq(src, 1, n)
  BY <1>0, MovePageEffect DEF AInv, Copying, Moves
<1>3. peb'[wk.p] = peb[wk.p] /\ peb'[wk.q].vid = peb[wk.q].vid /\ peb'[wk.q].data = Append(SubSeq(src, 1, n), src[n + 1])
  BY <1>0, <1>2 DEF PageTo, Others
<1>6. src \in Seq(Nat)
  BY <1>0, PebFacts DEF IInv
<1>7. n \in 0 .. Len(src) /\ n + 1 <= Len(src)
  BY <1>0, <1>6
<1>8. SubSeq(src, 1, n + 1) = Append(SubSeq(src, 1, n), src[n + 1])
  BY <1>6, <1>7, FirstPages
<1>9. Copying'
  BY <1>1, <1>2, <1>3, <1>8 DEF Copying, Moves
<1> QED BY <1>0, <1>9, AheadSame, WorkStep

LEMMA NotMovedAInv == ASSUME IInv, AInv, NotMoved PROVE AInv'
<1>0. /\ On /\ op.at \in {"flush", "produce"} /\ wk.at = "moved" /\ wk.q \in Pebs /\ works' = Append(works, wk.q)
      /\ wk' = NoWork /\ peb' \in Half \cup {Done} /\ UNCHANGED <<eba, ops, hurt, op, bad, sqnum>> /\ ~Erases
      /\ works \in Seq(Pebs \cup {WL})
  BY WorkOn, PebHalf DEF NotMoved, Working, flash, Erases, IInv, Doing, Moves, RamOk
<1>1. Copying'
  BY <1>0, NoWorkOk DEF Copying, Moves
<1>2. <<wk.q>> \in Seq(Pebs \cup {WL}) /\ works' = works \o <<wk.q>>
  BY <1>0
<1> QED BY <1>0, <1>1, <1>2, AheadMore, WorkStep

\* The copy of a move takes the place of the eraseblock it was made of.
LEMMA MovedAInv == ASSUME IInv, AInv, Moved PROVE AInv'
<1>00. PICK j : j = peb[wk.p].vid.l
  OBVIOUS
<1> DEFINE p == wk.p
           q == wk.q
           src == peb[wk.p].data
<1>0. /\ On /\ op.at = "flush" /\ wk.at = "moved" /\ Moves /\ wk \in WkState
      /\ p \in Fine /\ q \in Fine /\ HasVid(p) /\ eba[j] = p /\ j \in Lebs
      /\ works \in Seq(Pebs \cup {WL}) /\ ~Erases
  BY <1>00, MoveOn DEF Moved, Working, Moves, Fine, RamOk
<1>1. /\ eba' = [eba EXCEPT ![j] = q] /\ works' = Append(works, p) /\ wk' = NoWork
      /\ UNCHANGED <<peb, bad, op, ops, hurt, sqnum>> /\ peb' \in Half \cup {Done}
  BY <1>00, PebHalf DEF Moved, flash, budget
<1>2. eba \in [Lebs -> Pebs \cup {None}] /\ p \in Pebs /\ p # None /\ q # None /\ q \in Pebs /\ Fine' = Fine
  BY <1>0, <1>1 DEF IInv, RamOk, Fine, Pebs, None
<1>3. Called /\ Copying /\ Paged /\ Leading /\ Lined
  BY DEF AInv
<1>4. /\ peb[p].vid.sq < peb[q].vid.sq /\ HasVid(q) /\ peb[q].vid.l = j
      /\ peb[q].vid.crc = IF src = <<>> THEN peb[p].vid.crc ELSE src
      /\ peb[q].data = src /\ src \in Seq(Nat)
  <2>1. src \in Seq(Nat) /\ Len(src) \in 0 .. Len(src)
    BY <1>2, PebFacts DEF IInv
  <2>2. SubSeq(src, 1, Len(src)) = src
    BY <2>1, FirstPages
  <2> QED BY <1>00, <1>0, <1>3, <2>1, <2>2 DEF Copying, IInv, Doing
<1>5. p \in CopiesOf(peb, Fine, j) /\ q \in CopiesOf(peb, Fine, j)
  BY <1>00, <1>0, <1>4 DEF CopiesOf, HasVid
<1> HIDE DEF p, q, src
<1>6. eba'[j] = q /\ \A l \in Lebs : l # j => eba'[l] = eba[l]
  BY <1>0, <1>1, <1>2
<1>7. ASSUME j \notin hurt PROVE Leads(peb, j)'
  <2>1. Intact(peb[p]) /\ \A c \in CopiesOf(peb, Fine, j) : Intact(peb[c]) =>
            peb[c].vid.sq <= peb[p].vid.sq \/ peb[c].data = src
    BY <1>0, <1>2, <1>3, <1>7 DEF Leading, Leads, src, p
  <2>2. Intact(peb[q])
    <3>1. CASE src = <<>>
      BY <1>4, <2>1, <3>1 DEF Intact, src, p
    <3>2. CASE src # <<>>
      <4>1. peb[q].vid.crc = peb[q].data /\ Len(src) \in Nat
        BY <1>4, <3>2
      <4> QED BY <1>4, <4>1 DEF Intact
    <3> QED BY <3>1, <3>2
  <2>3. ASSUME NEW c \in CopiesOf(peb, Fine, j), Intact(peb[c])
        PROVE  peb[c].vid.sq <= peb[q].vid.sq \/ peb[c].data = peb[q].data
    <3>1. FlashState(peb, Fine)
      BY FlashIs DEF IInv
    <3>2. peb[c].vid.sq \in Nat /\ peb[p].vid.sq \in Nat /\ peb[q].vid.sq \in Nat
      BY <1>5, <3>1, CopyFacts
    <3> QED BY <1>4, <2>1, <2>3, <3>2
  <2>4. eba'[j] = q /\ op'.at = "flush" /\ peb' = peb /\ Fine' = Fine
    BY <1>0, <1>1, <1>2, <1>6
  <2> QED BY <2>2, <2>3, <2>4 DEF Leads
<1>8. ASSUME NEW l \in Lebs \ hurt, l # j, eba[l] # None PROVE Leads(peb, l)'
  BY <1>0, <1>1, <1>3, <1>6, <1>8, LeadsKept DEF Leading, Swaps
<1>9. \A d, x : Ahead(d, x) => Ahead(d, x)'
  <2>1. <<p>> \in Seq(Pebs \cup {WL}) /\ works' = works \o <<p>>
    BY <1>0, <1>1, <1>2
  <2> QED BY <1>0, <2>1, AheadMore
<1>10. ASSUME NEW l \in Lebs \ hurt, eba[l] = None PROVE Lays(l)'
  BY <1>0, <1>1, <1>3, <1>9, <1>10, LinedKept DEF Writing, Lined
<1>11. Called'
  BY <1>0, <1>1, <1>3, <1>2, <1>6, CalledWork DEF Called
<1>12. Paged' /\ Copying'
  BY <1>1, <1>3, PagedKept, NoWorkOk DEF Copying
<1>13. ASSUME NEW l \in Lebs \ hurt, eba'[l] # None PROVE Leads(peb, l)'
  <2>1. CASE l = j
    BY <1>7, <1>13, <2>1
  <2>2. CASE l # j
    BY <1>6, <1>8, <1>13, <2>2
  <2> QED BY <2>1, <2>2
<1>14. ASSUME NEW l \in Lebs \ hurt, eba'[l] = None PROVE Lays(l)'
  BY <1>2, <1>6, <1>10, <1>14
<1>15. Leading' /\ Lined'
  BY <1>1, <1>13, <1>14 DEF Leading, Lined
<1> QED BY <1>11, <1>12, <1>15 DEF AInv

\* An unmapped eraseblock loses a copy to a bad eraseblock, or is as it was.
LEMMA BadLayers ==
  ASSUME IInv, On, Erases, bad' = bad \cup {wk.p}, peb' = peb, FlashState(peb, Fine'),
         NEW l, NEW K, NEW z, Unmapped(l, K, z)
  PROVE  /\ Layers(peb, Fine', l, K \ {wk.p}, z, Now)
         /\ Renews(FoundIn(peb, Fine, l), FoundIn(peb, Fine', l), Now)
         /\ CopiesOf(peb, Fine', l) = CopiesOf(peb, Fine, l) \ {wk.p}
<1>1. CopiesOf(peb, Fine', l) = CopiesOf(peb, Fine, l) \ {wk.p}
  BY DEF CopiesOf, Fine
<1>2. CASE wk.p \in CopiesOf(peb, Fine, l)
  <2>1. FlashState(peb, Fine')
    OBVIOUS
  <2> QED BY <1>1, <1>2, <2>1, CopyGone
<1>3. CASE wk.p \notin CopiesOf(peb, Fine, l)
  <2>1. CopiesOf(peb, Fine', l) = CopiesOf(peb, Fine, l)
    BY <1>1, <1>3
  <2>2. K \ {wk.p} = K
    BY <1>3 DEF Unmapped, Layers
  <2>3. Layers(peb, Fine', l, K, z, Now)
    BY <2>1, LayersSame DEF Unmapped
  <2>4. FoundIn(peb, Fine', l) = FoundIn(peb, Fine, l)
    BY <2>1, FlashIs, FoundSame DEF IInv
  <2> QED BY <1>1, <2>2, <2>3, <2>4 DEF Renews
<1> QED BY <1>2, <1>3

LEMMA MarkBadIs ==
  ASSUME IInv, MarkBad
  PROVE  /\ On /\ wk.at = "mark" /\ op.at \in {"flush", "produce"} /\ Erases /\ wk.p \in Pebs \ bad
         /\ UNCHANGED <<peb, up, eba, works, sqnum, hurt, ops>> /\ wk' = NoWork
         /\ \/ ro' = TRUE /\ bad' = bad /\ op' = Idle("err")
            \/ ro' = ro /\ bad' = bad \cup {wk.p} /\ op' = op /\ FlashState(peb, Fine')
<1>1. On /\ wk.at = "mark" /\ op.at \in {"flush", "produce"} /\ Erases /\ wk.p \in Pebs \ bad
  BY WorkOn DEF MarkBad, Working, Erases
<1>2. UNCHANGED <<peb, up, eba, works, sqnum, hurt, ops>>
  BY DEF MarkBad, pools, budget
<1>3. FlashState(peb, Fine')
  BY <1>2, MarkBadKeeps, FlashIsNext DEF IInv
<1> QED BY <1>1, <1>2, <1>3 DEF MarkBad, Fails

LEMMA MarkBadAInv == ASSUME IInv, AInv, MarkBad PROVE AInv'
<1>0. /\ On /\ wk.at = "mark" /\ op.at \in {"flush", "produce"} /\ Erases /\ wk.p \in Pebs \ bad
      /\ UNCHANGED <<peb, up, eba, works, sqnum, hurt, ops>> /\ wk' = NoWork
  BY MarkBadIs
<1>1. Called /\ Copying /\ Paged /\ Leading /\ Lined
  BY DEF AInv
<1>2. Paged'
  BY <1>0, <1>1, PagedKept
<1>3. CASE ro' = TRUE
  BY <1>2, <1>3, OffLater DEF On
<1>4. CASE bad' = bad \cup {wk.p} /\ op' = op /\ FlashState(peb, Fine')
  <2>1. Copying'
    BY <1>0, NoWorkOk DEF Copying
  <2>2. Called'
    BY <1>0, <1>1, <1>4, CalledWork DEF Called
  <2>3. ASSUME NEW l \in Lebs \ hurt, eba[l] # None PROVE Leads(peb, l)'
    <3>1. CopiesOf(peb, Fine', l) \subseteq CopiesOf(peb, Fine, l)
      BY <1>4 DEF CopiesOf, Fine
    <3>2. Leads(peb, l)
      BY <1>0, <1>1, <2>3 DEF Leading
    <3> QED BY <1>0, <1>4, <3>1, <3>2 DEF Leads
  <2>4. ASSUME NEW l \in Lebs \ hurt, eba[l] = None PROVE Lays(l)'
    <3>1. PICK K, z : Layers(peb, Fine, l, K, z, Now) /\ Line(l, K, z)
      BY <1>0, <1>1, <2>4 DEF Lined, Lays
    <3>2. Unmapped(l, K, z)
      BY <2>4, <3>1 DEF Unmapped
    <3>3. PICK d : d = wk.p
      OBVIOUS
    <3>4. /\ Layers(peb, Fine', l, K \ {d}, z, Now)
          /\ CopiesOf(peb, Fine', l) = CopiesOf(peb, Fine, l) \ {d}
      BY <1>0, <1>4, <3>2, <3>3, BadLayers
    <3>5. Layers(peb, Fine, l, K \ {d}, z, Now)'
      BY <1>0, <3>4 DEF Now, Layers
    <3>6. \A x, y : x # d /\ Ahead(x, y) => Ahead(x, y)'
      BY <1>0, <3>3 DEF Ahead
    <3>7. Line(l, K \ {d}, z)'
      <4>1. op.at \notin {"data", "map"} /\ CopiesOf(peb, Fine, l)' = CopiesOf(peb, Fine, l) \ {d}
        BY <1>0, <3>4
      <4>2. (CopiesOf(peb, Fine, l) \ {d}) \ (K \ {d}) \subseteq (CopiesOf(peb, Fine, l) \ K) \ {d}
        OBVIOUS
      <4> QED BY <1>0, <1>4, <3>1, <3>6, <4>1, <4>2 DEF Line, Writing
    <3> QED BY <3>5, <3>7 DEF Lays
  <2>5. Leading' /\ Lined'
    BY <1>0, <2>3, <2>4 DEF Leading, Lined
  <2> QED BY <1>2, <2>1, <2>2, <2>5 DEF AInv
<1> QED BY <1>3, <1>4, MarkBadIs

\* Without a call or a work the flash stays as it is.
LEMMA CutIs ==
  ASSUME IInv, Cut
  PROVE  up = "on" /\ ~On' /\ bad' = bad /\ ops' = ops /\ hurt' = hurt /\ up' = "off"
         /\ peb' \in Half /\ (On \/ peb' = peb)
<1>1. ASSUME ~On PROVE peb' = peb
  <2>1. op.at = "idle" /\ wk.at = "none"
    BY <1>1 DEF Cut, IInv, Still, On
  <2> QED BY <2>1, NoEffect DEF Cut
<1> QED BY <1>1 DEF Cut, On, NoRam

LEMMA CutAInv == ASSUME IInv, AInv, Cut PROVE AInv'
BY CutIs, PagedKept, OffLater DEF AInv

(***************************************************************************)
(* What the scan finds is the best copy.                                   *)
(***************************************************************************)
\* One more copy.
LEMMA FindsMore ==
  ASSUME NEW S, NEW p, p \notin S, NEW l, peb[p].vid.st = "ok", peb[p].vid.l = l, NEW q, Finds(peb, S, l, q),
         NEW new, NEW old, \/ new = p /\ old = q /\ peb[p].vid.sq > peb[q].vid.sq
                           \/ new = q /\ old = p /\ peb[q].vid.sq >= peb[p].vid.sq,
         \A x \in CopiesOf(peb, S, l) \cup {p} : peb[x].vid.sq \in Nat,
         NEW win, win = IF Intact(peb[new]) THEN new ELSE old
  PROVE  Finds(peb, S \cup {p}, l, win)
<1> DEFINE T == S \cup {p}
           C == CopiesOf(peb, S, l)
           W == WholeIn(peb, S, l)
<1>1. CopiesOf(peb, T, l) = C \cup {p}
  BY DEF CopiesOf
<1>2. WholeIn(peb, T, l) = W \cup {x \in {p} : Intact(peb[x])} /\ W \subseteq C
  BY <1>1 DEF WholeIn
<1>3. /\ q \in C /\ \A x \in C \cup {p} : peb[x].vid.sq \in Nat
      /\ W # {} => q \in W /\ \A x \in W : peb[x].vid.sq <= peb[q].vid.sq
      /\ W = {} => \A x \in C : peb[x].vid.sq >= peb[q].vid.sq
      /\ q \in W <=> Intact(peb[q])
  BY DEF Finds, WholeIn
<1> HIDE DEF C, W
<1>4. CASE new = p /\ old = q /\ Intact(peb[p])
  <2>1. \A x \in W : peb[x].vid.sq <= peb[p].vid.sq
    BY <1>2, <1>3, <1>4
  <2>2. win = p
    BY <1>4
  <2>3. WholeIn(peb, T, l) = W \cup {p} /\ p \in CopiesOf(peb, T, l)
    BY <1>1, <1>2, <1>4
  <2>4. peb[p].vid.sq <= peb[p].vid.sq
    BY <1>3
  <2> QED BY <2>1, <2>2, <2>3, <2>4 DEF Finds
<1>5. CASE new = p /\ old = q /\ ~Intact(peb[p])
  <2>1. \A x \in C \cup {p} : W = {} => peb[x].vid.sq >= peb[q].vid.sq
    BY <1>2, <1>3, <1>5
  <2> QED BY <1>1, <1>2, <1>3, <1>5, <2>1 DEF Finds
<1>6. CASE new = q /\ old = p /\ Intact(peb[q])
  <2>1. \A x \in W \cup {p} : peb[x].vid.sq <= peb[q].vid.sq
    BY <1>2, <1>3, <1>6
  <2> QED BY <1>1, <1>2, <1>3, <1>6, <2>1 DEF Finds
<1>7. CASE new = q /\ old = p /\ ~Intact(peb[q])
  <2>1. W = {} /\ \A x \in C : peb[x].vid.sq >= peb[p].vid.sq
    BY <1>2, <1>3, <1>7
  <2> QED BY <1>1, <1>2, <1>3, <1>7, <2>1 DEF Finds
<1> QED BY <1>4, <1>5, <1>6, <1>7

ScanRight(s, n) == \A l \in Lebs :
  IF CopiesOf(peb, Seen(n), l) = {} THEN s.leb[l] = None ELSE Finds(peb, Seen(n), l, s.leb[l])

\* The scan comes to an eraseblock that holds no copy.
LEMMA ScanSkips ==
  ASSUME FlashOk, NEW p \in Pebs, NEW s, ScanRight(s, p - 1), p \in bad \/ ~HasVid(p), NEW t, t.leb = s.leb
  PROVE  ScanRight(t, p)
<1>1. \A l : CopiesOf(peb, Seen(p), l) = CopiesOf(peb, Seen(p - 1), l)
  BY SeenNext DEF CopiesOf, HasVid
<1>2. \A l, q : Finds(peb, Seen(p), l, q) <=> Finds(peb, Seen(p - 1), l, q)
  BY <1>1 DEF Finds, WholeIn
<1> QED BY <1>1, <1>2 DEF ScanRight

LEMMA ScanPicks ==
  ASSUME FlashOk, NEW p \in Pebs, NEW s \in ScanState, ScanRight(s, p - 1)
  PROVE  ScanRight(ProcessEb(s, p), p)
<1> DEFINE t == ProcessEb(s, p)
<1>1. CASE p \in bad \/ ~HasVid(p)
  <2>1. t.leb = s.leb
    <3>1. peb[p].ec = "none" => ~HasVid(p)
      BY PebFacts DEF FlashOk
    <3> QED BY <1>1, <3>1 DEF ProcessEb, HasVid, ScanState
  <2> QED BY <1>1, <2>1, ScanSkips
<1>2. CASE p \notin bad /\ HasVid(p)
  <2>0. PICK j : j = peb[p].vid.l
    OBVIOUS
  <2> DEFINE S == Seen(p - 1)
             q == s.leb[j]
             m == Bigger(s.max, peb[p].vid.sq)
  <2>1. /\ j \in Lebs /\ Seen(p) = S \cup {p} /\ p \notin S /\ peb[p].ec # "none" /\ S \subseteq Pebs \ bad
        /\ peb[p].vid.sq \in Nat
    BY <1>2, <2>0, PebFacts, SeenNext, SeenPebs DEF FlashOk, Seen
  <2>2. t = AddUsed(s, p)
    BY <1>2, <2>1 DEF ProcessEb, HasVid
  <2>3. ASSUME NEW win, t.leb = [s.leb EXCEPT ![j] = win], Finds(peb, S \cup {p}, j, win)
        PROVE  ScanRight(t, p)
    <3>1. t.leb[j] = win /\ \A l \in Lebs : l # j => t.leb[l] = s.leb[l]
      BY <2>1, <2>3 DEF ScanState
    <3> HIDE DEF t, S, q
    <3>2. ASSUME NEW l \in Lebs, l # j
          PROVE  /\ CopiesOf(peb, S \cup {p}, l) = CopiesOf(peb, S, l)
                 /\ \A x : Finds(peb, S, l, x) => Finds(peb, S \cup {p}, l, x)
      <4>1. CopiesOf(peb, S \cup {p}, l) = CopiesOf(peb, S, l)
        BY <2>0, <3>2 DEF CopiesOf
      <4> QED BY <4>1 DEF Finds, WholeIn
    <3>3. CopiesOf(peb, S \cup {p}, j) # {}
      BY <2>3 DEF Finds
    <3>4. \A l \in Lebs : IF CopiesOf(peb, S, l) = {} THEN s.leb[l] = None ELSE Finds(peb, S, l, s.leb[l])
      BY DEF ScanRight, S
    <3>5. ASSUME NEW l \in Lebs
          PROVE  IF CopiesOf(peb, S \cup {p}, l) = {} THEN t.leb[l] = None ELSE Finds(peb, S \cup {p}, l, t.leb[l])
      BY <2>3, <3>1, <3>2, <3>3, <3>4
    <3> QED BY <2>1, <3>5 DEF ScanRight
  <2>4. CASE q = None
    <3>1. CopiesOf(peb, S, j) = {}
      <4>1. \A x : Finds(peb, S, j, x) => x \in Pebs
        BY <2>1 DEF Finds, CopiesOf
      <4> QED BY <2>1, <2>4, <4>1 DEF ScanRight, Pebs, None
    <3>2. CopiesOf(peb, S \cup {p}, j) = {p}
      BY <1>2, <2>0, <3>1 DEF CopiesOf, HasVid
    <3>3. Finds(peb, S \cup {p}, j, p)
      BY <2>1, <3>2 DEF Finds, WholeIn
    <3>4. t.leb = [s.leb EXCEPT ![j] = p]
      BY <2>0, <2>2, <2>4 DEF AddUsed, ScanState
    <3> QED BY <2>3, <3>3, <3>4
  <2>5. CASE q # None
    <3> DEFINE new == IF peb[p].vid.sq > peb[q].vid.sq THEN p ELSE q
               old == IF new = p THEN q ELSE p
               isCopy == peb[new].vid.crc # <<>>
               win == IF isCopy /\ ~CrcOk(new) THEN old ELSE new
    <3>1. Finds(peb, S, j, q)
      BY <2>1, <2>5 DEF ScanRight
    <3>2. q \in S /\ q # p /\ HasVid(q) /\ q \in Pebs
      BY <2>1, <3>1 DEF Finds, CopiesOf, HasVid
    <3>3. peb[q].vid.sq \in Nat /\ peb[p].vid.sq \in Nat /\ \A x \in CopiesOf(peb, S, j) \cup {p} : peb[x].vid.sq \in Nat
      BY <2>1, <3>2, PebFacts DEF CopiesOf, HasVid
    <3>4. t.leb = [s.leb EXCEPT ![j] = win]
      BY <2>0, <2>2, <2>5 DEF AddUsed, SecondCopy, ScanState
    <3>5. /\ new \in Pebs
          /\ \/ new = p /\ old = q /\ peb[p].vid.sq > peb[q].vid.sq
             \/ new = q /\ old = p /\ peb[q].vid.sq >= peb[p].vid.sq
      BY <3>2, <3>3
    <3>6. win = IF Intact(peb[new]) THEN new ELSE old
      <4>1. ~isCopy => Intact(peb[new])
        <5>1. Len(peb[new].data) \in Nat
          BY <3>5, PebFacts
        <5> HIDE DEF new
        <5> QED BY <5>1 DEF Intact
      <4> QED BY <4>1, CrcIs
    <3> HIDE DEF new, old, win, q, S, t
    <3>7. Finds(peb, S \cup {p}, j, win)
      BY <1>2, <2>0, <2>1, <3>1, <3>3, <3>5, <3>6, FindsMore DEF HasVid
    <3>8. ScanRight(t, p)
      BY <2>3, <3>4, <3>7
    <3> QED BY <3>8 DEF t
  <2> QED BY <2>4, <2>5
<1> QED BY <1>1, <1>2

LEMMA ScanFinds == ASSUME FlashOk PROVE
  \A l \in Lebs : IF CopiesOf(peb, Fine, l) = {} THEN Scan.leb[l] = None ELSE Finds(peb, Fine, l, Scan.leb[l])
<1> DEFINE S == {n \in 0 .. NumPebs : ScanOk(Scanned[n], n) /\ ScanRight(Scanned[n], n)}
<1>0. NumPebs \in Nat /\ 0 \in 0 .. NumPebs
  BY UbiAssumption
<1>1. 0 \in S
  <2>1. ScanRight(ScanInit, 0)
    <3>1. Seen(0) = {}
      BY DEF Seen
    <3> QED BY <3>1 DEF ScanRight, CopiesOf, ScanInit
  <2> QED BY <1>0, <2>1, ScannedStep, ScanStart
<1>2. ASSUME NEW n \in 1 .. NumPebs, n - 1 \in S PROVE n \in S
  <2>1. n \in Pebs /\ n \in 0 .. NumPebs
    BY <1>0 DEF Pebs
  <2>2. ScanOk(ProcessEb(Scanned[n - 1], n), n) /\ ScanRight(ProcessEb(Scanned[n - 1], n), n)
    <3>1. Scanned[n - 1] \in ScanState
      BY <1>2 DEF ScanOk
    <3> QED BY <1>2, <2>1, <3>1, ScanProcess, ScanPicks
  <2> QED BY <2>1, <2>2, ScannedStep
<1> HIDE DEF S
<1>3. \A i \in 0 .. NumPebs : i \in S
  BY <1>0, <1>1, <1>2, UpTo
<1>4. NumPebs \in S
  BY <1>0, <1>3
<1>5. ScanRight(Scan, NumPebs) /\ Seen(NumPebs) = Fine
  BY <1>4 DEF S, Scan, Seen, Fine, Pebs
<1> QED BY <1>5 DEF ScanRight

LEMMA AttachIs ==
  ASSUME IInv, Attach
  PROVE  /\ up = "off" /\ ~ro /\ op = Idle("none") /\ op.at = "idle" /\ wk.at = "none"
         /\ UNCHANGED <<peb, bad, ro, op, wk, ops>> /\ hurt \subseteq hurt'
         /\ \/ up' = "failed" /\ hurt' = hurt /\ eba' = eba
            \/ up' = "on" /\ eba' = Scan.leb /\ hurt' = hurt \cup Misled
BY DEF Attach, flash, IInv, Still

LEMMA AttachAInv == ASSUME IInv, AInv, Attach PROVE AInv'
<1>0. /\ op = Idle("none") /\ op.at = "idle" /\ wk.at = "none" /\ UNCHANGED <<peb, bad, ro, op, wk, ops>>
      /\ up' = "failed" \/ (eba' = Scan.leb /\ hurt' = hurt \cup Misled)
  BY AttachIs
<1>1. Paged'
  BY <1>0, PagedKept DEF AInv
<1>2. CASE up' = "failed"
  BY <1>1, <1>2, OffLater DEF On
<1>3. CASE eba' = Scan.leb /\ hurt' = hurt \cup Misled
  <2>1. Called' /\ Copying'
    BY <1>0, CalledIdle DEF Copying, Moves
  <2>2. ASSUME NEW l \in Lebs \ hurt', eba'[l] # None PROVE Leads(peb, l)'
    <3>1. PICK p : p = eba'[l]
      OBVIOUS
    <3>2. Finds(peb, Fine, l, p)
      BY <1>3, <2>2, <3>1, ScanFinds DEF IInv
    <3>3. WholeIn(peb, Fine, l) # {}
      <4>1. CopiesOf(peb, Fine, l) # {} /\ l \notin Misled
        BY <1>3, <2>2, <3>2 DEF Finds
      <4> QED BY <4>1, CopiesAre, CrcIs DEF Misled, WholeIn
    <3>4. Intact(peb[p]) /\ \A c \in CopiesOf(peb, Fine, l) : Intact(peb[c]) => peb[c].vid.sq <= peb[p].vid.sq
      BY <3>2, <3>3 DEF Finds, WholeIn
    <3>5. Fine' = Fine
      BY <1>0 DEF Fine
    <3> QED BY <1>0, <3>1, <3>4, <3>5 DEF Leads
  <2>3. ASSUME NEW l \in Lebs \ hurt', eba'[l] = None PROVE Lays(l)'
    <3>1. CopiesOf(peb, Fine, l) = {}
      <4>1. ~Finds(peb, Fine, l, None)
        BY DEF Finds, CopiesOf, Fine, Pebs, None
      <4> QED BY <1>3, <2>3, <4>1, ScanFinds DEF IInv
    <3>2. CopiesOf(peb, Fine, l)' = {} /\ ~Writing'
      BY <1>0, <3>1 DEF CopiesOf, Fine, Writing
    <3> QED BY <1>0, <3>2 DEF Lays, Layers, Line
  <2> QED BY <1>1, <2>1, <2>2, <2>3 DEF AInv, Leading, Lined
<1> QED BY <1>0, <1>2, <1>3

LEMMA InitAInv == ASSUME Init PROVE AInv
<1>1. ~On /\ ops = 0 /\ Now = 1 /\ ops <= MaxOps
  BY UbiAssumption DEF Init, On, Now
<1>2. ASSUME NEW p \in Pebs PROVE \A i \in DOMAIN peb[p].data : peb[p].data[i] <= 1
  <2>1. peb[p].data = <<1>> \/ peb[p].data = <<>>
    <3>1. PICK held \in [1 .. NumHeld -> Lebs] :
         peb = [q \in Pebs |->
                   IF q <= NumHeld
                   THEN [ec |-> "ok", vid |-> Vid(held[q], q, <<>>), data |-> <<1>>]
                   ELSE [Blank EXCEPT !.ec = IF q = NumPebs THEN "none" ELSE "ok"]]
      BY DEF Init
    <3>2. peb[p].data = <<1>> \/ peb[p] = [Blank EXCEPT !.ec = IF p = NumPebs THEN "none" ELSE "ok"]
      BY <3>1
    <3> QED BY <3>2 DEF Blank
  <2>2. CASE peb[p].data = <<1>>
    <3>1. DOMAIN <<1>> = {1} /\ <<1>>[1] <= 1
      OBVIOUS
    <3> QED BY <2>2, <3>1
  <2> QED BY <2>1, <2>2, EmptyPages
<1> QED BY <1>1, <1>2 DEF AInv, Paged, Called, Copying, Leading, Lined

LEMMA CallAInv == ASSUME IInv, AInv, Call \/ Flush PROVE AInv'
BY WriteMappedAInv, ChangeAInv, WriteUnmappedAInv, UnmapAInv, ReadBitflipAInv, FlushAInv DEF Call

LEMMA StepAInv == ASSUME IInv, AInv, Step PROVE AInv'
<1>1. ASSUME GetPeb \/ NeedPeb \/ Produced \/ WriteVid \/ WritePage \/ RecoverUnreadable \/ MapPeb \/ AppendPage
      PROVE  AInv'
  BY <1>1, GetPebAInv, NeedPebAInv, ProducedAInv, WriteVidAInv, WritePageAInv, RecoverUnreadableAInv, MapPebAInv,
     AppendPageAInv
<1>2. ASSUME DoErase \/ CancelWl \/ DoMove \/ FlushDone \/ EraseOk \/ EcOk \/ MarkBad \/ MoveVid \/ MovePage \/ Moved
      PROVE  AInv'
  BY <1>2, DoEraseAInv, CancelWlAInv, DoMoveAInv, FlushDoneAInv, EraseOkAInv, EcOkAInv, MarkBadAInv, MoveVidAInv,
     MovePageAInv, MovedAInv
<1> QED BY <1>1, <1>2 DEF Step

LEMMA FaultAInv == ASSUME IInv, AInv, Fault PROVE AInv'
BY WriteFailAInv, AppendFailAInv, EraseFailAInv, MoveFailAInv, NotMovedAInv DEF Fault

LEMMA StillAInv == ASSUME IInv, AInv, UNCHANGED vars PROVE AInv'
<1>1. UNCHANGED <<peb, bad, up, eba, works, sqnum, ro, op, wk, hurt, ops>>
  BY DEF vars
<1>2. Now' = Now /\ Fine' = Fine /\ On' = On /\ Writing' = Writing /\ Erases' = Erases /\ Moves' = Moves
  BY <1>1 DEF Now, Fine, On, Writing, Erases, Moves
<1>3. Paged' /\ Called' /\ Copying'
  BY <1>1, <1>2 DEF AInv, Paged, Called, Copying, DataOf
<1>4. \A l : Leads(peb, l)' <=> Leads(peb, l)
  BY <1>1, <1>2 DEF Leads
<1>5. \A d, x : Ahead(d, x)' <=> Ahead(d, x)
  BY <1>1, <1>2 DEF Ahead
<1>6. \A l : Lays(l) => Lays(l)'
  <2> SUFFICES ASSUME NEW l, NEW K, NEW z, Layers(peb, Fine, l, K, z, Now), Line(l, K, z) PROVE Lays(l)'
    BY DEF Lays
  <2>1. Layers(peb, Fine, l, K, z, Now)'
    BY <1>1, <1>2 DEF Layers
  <2>2. Line(l, K, z)'
    BY <1>1, <1>2, <1>5 DEF Line
  <2> QED BY <2>1, <2>2 DEF Lays
<1>7. Leading' /\ Lined'
  BY <1>1, <1>2, <1>4, <1>6 DEF AInv, Leading, Lined
<1> QED BY <1>3, <1>7 DEF AInv

LEMMA NextAInv == ASSUME IInv, AInv, [Next]_vars PROVE AInv'
<1>1. CASE Attach
  BY <1>1, AttachAInv
<1>2. CASE Cut
  BY <1>2, CutAInv
<1> QED BY <1>1, <1>2, CallAInv, StepAInv, FaultAInv, StillAInv DEF Next

LEMMA CopiesInvariant == Spec => [](IInv /\ AInv)
<1>1. Init => IInv /\ AInv
  BY InitHolds, InitAInv
<1>2. IInv /\ AInv /\ [Next]_vars => (IInv /\ AInv)'
  BY NextKeeps, NextAInv
<1> QED BY <1>1, <1>2, PTL DEF Spec

(***************************************************************************)
(* The eraseblocks implement the store.                                    *)
(***************************************************************************)
View(l) == IF up = "on" THEN Content(eba[l]) ELSE Store!Off
StoreStep(l) == Store!Step(Found[l], Found'[l], View(l), View(l)')

LEMMA ViewIs ==
  /\ \A l : up = "on" => View(l) = IF eba[l] = None THEN NoLeb ELSE LebOf(peb[eba[l]].data)
  /\ \A l : up' = "on" => View(l)' = IF eba'[l] = None THEN NoLeb ELSE LebOf(peb'[eba'[l]].data)
  /\ \A l : (up # "on" => View(l) = Store!Off) /\ (up' # "on" => View(l)' = Store!Off)
BY DEF View, Content, NoLeb, LebOf

LEMMA LebIs == Store!Unmapped = NoLeb /\ \A s : Store!Mapped(s) = LebOf(s) /\ LebOf(s).d = s /\ LebOf(s).m
                                                 /\ LebOf(s) # Store!Off /\ LebOf(s) # NoLeb
BY DEF Store!Unmapped, Store!Mapped, Store!Off, NoLeb, LebOf

LEMMA NotOff == NoLeb # Store!Off
<1>1. Len(<<Torn>>) = 1 /\ Len(<<>>) = 0
  OBVIOUS
<1>2. <<Torn>> # <<>>
  BY <1>1
<1>3. NoLeb.d = <<>> /\ Store!Off.d = <<Torn>>
  BY DEF NoLeb, Store!Off
<1> QED BY <1>2, <1>3

\* A value is not less than the pages that a boot finds.
LEMMA LatestIs ==
  ASSUME IInv, Paged, NEW l PROVE Store!Latest(Now, FoundIn(peb, Fine, l)) /\ Now \in 1 .. MaxOps + 1
<1>1. Now \in 1 .. MaxOps + 1
  BY UbiAssumption DEF Now, Paged, IInv, RamOk
<1>2. CASE CopiesOf(peb, Fine, l) = {}
  <2>1. FoundIn(peb, Fine, l).d = <<>>
    BY <1>2 DEF FoundIn, NoLeb
  <2>2. \A i \in 1 .. Len(<<>>) : FALSE
    OBVIOUS
  <2> QED BY <1>1, <2>1, <2>2 DEF Store!Latest
<1>3. CASE CopiesOf(peb, Fine, l) # {}
  <2>1. PICK p \in Pebs : Finds(peb, Fine, l, p)
    BY <1>3, FlashIs, FindsSome DEF IInv
  <2>2. FoundIn(peb, Fine, l) = LebOf(peb[p].data)
    BY <2>1, FlashIs, FoundOne DEF IInv
  <2>3. peb[p].data \in Seq(Nat) /\ \A i \in DOMAIN peb[p].data : peb[p].data[i] <= Now
    BY <2>1, PebFacts DEF Paged, IInv
  <2>4. \A i \in 1 .. Len(peb[p].data) : Now >= peb[p].data[i]
    BY <1>1, <2>3
  <2> QED BY <1>1, <2>2, <2>4, LebIs DEF Store!Latest
<1> QED BY <1>2, <1>3

LEMMA RenewIs ==
  ASSUME IInv, Paged, NEW l, NEW d, d = FoundIn(peb, Fine, l), NEW e, Renews(d, e, Now)
  PROVE  e = d \/ Store!Renew(d, e, NoLeb)
<1>1. CASE e = NoLeb
  BY <1>1, LebIs DEF Store!Renew
<1>2. ASSUME NEW r \in Store!Cuts(Now), e = LebOf(r) PROVE Store!Renew(d, e, NoLeb)
  <2>1. Store!Latest(Now, d) /\ Now \in 1 .. MaxOps + 1
    BY LatestIs
  <2>2. e \in {Store!Mapped(s) : s \in Store!Cuts(Now)}
    BY <1>2, LebIs
  <2> QED BY <2>1, <2>2, LebIs DEF Store!Renew
<1> QED BY <1>1, <1>2 DEF Renews

\* Neither the flash nor the table changes.
LEMMA QuietStep == ASSUME IInv, UNCHANGED <<peb, bad, up, eba>>, NEW l \in Lebs PROVE StoreStep(l)
<1>1. FlashOk'
  BY FlashSame DEF IInv, flash
<1>2. Found'[l] = Found[l] /\ View(l)' = View(l)
  BY <1>1, FoundIs, FoundIsNext DEF IInv, Fine, View, Content
<1> QED BY <1>2 DEF StoreStep, Store!Step

\* What a boot finds of an unmapped and of a mapped eraseblock, when the flash
\* changes.
LEMMA UnmappedRenews ==
  ASSUME IInv, AInv, On, NEW l \in Lebs \ hurt, eba[l] = None, peb' \in Half \cup {Done}, bad' = bad, FlashOk'
  PROVE  Found'[l] = Found[l] \/ Store!Renew(Found[l], Found'[l], NoLeb)
<1>1. PICK K, z : Unmapped(l, K, z)
  BY DEF AInv, Lined, Lays, Unmapped
<1>2. Renews(FoundIn(peb, Fine, l), FoundIn(peb', Fine, l), Now)
  BY <1>1, UnmappedFlash DEF Relayered, AInv
<1>3. Found[l] = FoundIn(peb, Fine, l) /\ Found'[l] = FoundIn(peb', Fine, l)
  BY FoundIs, FoundIsNext DEF IInv, Fine
<1> QED BY <1>2, <1>3, RenewIs DEF AInv

LEMMA MappedIs ==
  ASSUME IInv, AInv, On, NEW l \in Lebs \ hurt, eba[l] # None, op.at # "map" \/ op.l # l
  PROVE  Found[l] = LebOf(peb[eba[l]].data) /\ Found[l] = View(l)
<1>1. Follows(peb, l) /\ Called
  BY PebHalf, MappedFlash DEF AInv, Leading
<1>2. ~Swaps(peb, l)
  <2> SUFFICES ASSUME Swaps(peb, l) PROVE FALSE
    OBVIOUS
  <2>1. PICK m : m = op.n
    OBVIOUS
  <2>2. Len(peb[op.p].data) = m /\ m + 1 = Len(peb[op.p].data) /\ m \in Nat
    BY <2>1 DEF Swaps, IInv, Calling, RamOk, OpState
  <2> QED BY <2>2
<1>3. FoundIn(peb, Fine, l) = LebOf(peb[eba[l]].data)
  BY <1>1, <1>2, PebHalf, MappedFound
<1> QED BY <1>3, FoundIs, ViewIs DEF IInv, On

LEMMA MappedIsNext ==
  ASSUME IInv, AInv, On, NEW l \in Lebs \ hurt, eba[l] # None, op.at # "map" \/ op.l # l,
         peb' \in Half \cup {Done}, bad' = bad, FlashOk', ~Swaps(peb', l)
  PROVE  /\ Found'[l] = LebOf(peb'[eba[l]].data)
         /\ \/ peb'[eba[l]] = peb[eba[l]]
            \/ /\ wk.at = "none" /\ op.at = "append" /\ op.l = l
               /\ peb' = Done => peb'[eba[l]].data = Append(peb[eba[l]].data, Now)
               /\ peb' \in Half => peb'[eba[l]].data \in {peb[eba[l]].data, Append(peb[eba[l]].data, Torn)}
<1>1. Follows(peb', l) /\ Called
  BY MappedFlash DEF AInv, Leading
<1>2. FoundIn(peb', Fine, l) = LebOf(peb'[eba[l]].data)
  BY <1>1, MappedFound
<1>3. Found'[l] = FoundIn(peb', Fine, l)
  BY FoundIsNext DEF Fine
<1>4. ASSUME Appends(peb', l)
      PROVE  /\ wk.at = "none" /\ op.at = "append" /\ op.l = l
             /\ peb' = Done => peb'[eba[l]].data = Append(peb[eba[l]].data, Now)
             /\ peb' \in Half => peb'[eba[l]].data \in {peb[eba[l]].data, Append(peb[eba[l]].data, Torn)}
  <2>1. wk.at = "none" /\ op.at = "append" /\ op.l = l
    BY <1>4 DEF Appends
  <2>2. PageTo(peb', eba[l], op.buf[op.n + 1]) /\ op.buf[op.n + 1] = Now
    BY <1>1, <2>1, OpPageEffect DEF Called
  <2> QED BY <2>1, <2>2 DEF PageTo
<1> QED BY <1>1, <1>2, <1>3, <1>4 DEF Follows

\* The last page of an atomic change.
LEMMA SwapIs ==
  ASSUME IInv, AInv, On, NEW l \in Lebs \ hurt, eba[l] # None, peb' \in Half \cup {Done}, bad' = bad, FlashOk',
         Swaps(peb', l)
  PROVE  Store!Swap(Found[l], Found'[l], View(l), View(l)) /\ peb'[eba[l]] = peb[eba[l]]
<1>1. Follows(peb', l) /\ Called
  BY MappedFlash DEF AInv, Leading
<1>2. FoundIn(peb', Fine, l) = LebOf(op.buf) /\ \A i \in DOMAIN op.buf : op.buf[i] = Now
  BY <1>1, SwapFound
<1>3. Found'[l] = FoundIn(peb', Fine, l) /\ Found[l] = FoundIn(peb, Fine, l)
  BY FoundIs, FoundIsNext DEF Fine, IInv
<1>4. op.buf \in Seq(Nat) /\ Len(op.buf) <= Pages /\ op.buf # <<>> /\ Now \in Nat
  BY <1>1, Changing, OpPageEffect, NowIs DEF Swaps, Writing
<1>5. \A i \in 1 .. Len(op.buf) : op.buf[i] = Now
  BY <1>2, <1>4
<1>6. op.buf \in Store!Runs(Now) \ {<<>>}
  BY <1>4, <1>5, RunIs
<1>7. Store!Latest(Now, Found[l]) /\ Now \in 1 .. MaxOps + 1
  BY <1>3, LatestIs DEF AInv
<1>8. Found'[l] \in {Store!Mapped(r) : r \in Store!Runs(Now) \ {<<>>}}
  BY <1>2, <1>3, <1>6, LebIs
<1>9. peb'[eba[l]] = peb[eba[l]]
  BY <1>1 DEF Follows, Appends, Swaps
<1> QED BY <1>7, <1>8, <1>9 DEF Store!Swap

\* A step that writes or erases.
LEMMA FlashStep ==
  ASSUME IInv, AInv, On, up' = "on", peb' \in Half \cup {Done}, bad' = bad, eba' = eba, FlashOk',
         NEW l \in Lebs \ hurt, wk.at = "none" /\ op.at = "append" /\ op.l = l => peb' = Done
  PROVE  StoreStep(l)
<1>0. up = "on"
  BY DEF On
<1>1. CASE eba[l] = None
  <2>1. View(l) = NoLeb /\ View(l)' = NoLeb
    BY <1>0, <1>1, ViewIs
  <2> QED BY <1>1, <2>1, UnmappedRenews DEF StoreStep, Store!Step
<1>2. CASE eba[l] # None /\ op.at = "map" /\ op.l = l
  <2>1. wk.at = "none"
    BY <1>2 DEF IInv, Doing
  <2>2. peb' = peb
    BY <1>2, <2>1, NoEffect
  <2> QED BY <1>0, <2>2, QuietStep
<1>3. CASE eba[l] # None /\ Swaps(peb', l)
  <2>1. Store!Swap(Found[l], Found'[l], View(l), View(l)) /\ peb'[eba[l]] = peb[eba[l]]
    BY <1>3, SwapIs
  <2>2. View(l)' = View(l)
    BY <1>0, <2>1, ViewIs
  <2> QED BY <2>1, <2>2 DEF StoreStep, Store!Step
<1>4. CASE eba[l] # None /\ ~(op.at = "map" /\ op.l = l) /\ ~Swaps(peb', l)
  <2>1. Found[l] = LebOf(peb[eba[l]].data) /\ Found[l] = View(l)
    BY <1>4, MappedIs
  <2>2. /\ Found'[l] = LebOf(peb'[eba[l]].data)
        /\ peb'[eba[l]] = peb[eba[l]] \/ peb'[eba[l]].data = Append(peb[eba[l]].data, Now)
    BY <1>4, MappedIsNext
  <2>3. View(l)' = Found'[l]
    BY <1>4, <2>2, ViewIs
  <2>4. CASE peb'[eba[l]] = peb[eba[l]]
    BY <2>1, <2>2, <2>3, <2>4 DEF StoreStep, Store!Step
  <2>5. CASE peb'[eba[l]].data = Append(peb[eba[l]].data, Now)
    <3>1. Now \in 1 .. MaxOps + 1
      BY LatestIs DEF AInv
    <3>2. Found[l].m /\ Found'[l] = Store!Mapped(Append(Found[l].d, Now))
      BY <2>1, <2>2, <2>5, LebIs
    <3>3. Store!Extend(Found[l], Found'[l], View(l), View(l)')
      BY <2>1, <2>3, <3>1, <3>2 DEF Store!Extend
    <3> QED BY <3>3 DEF StoreStep, Store!Step
  <2> QED BY <2>2, <2>4, <2>5
<1> QED BY <1>1, <1>2, <1>3, <1>4

\* A boot reads what it finds.
LEMMA AttachStores == ASSUME IInv, IInv', Attach, NEW l \in Lebs PROVE StoreStep(l)
<1>0. /\ up = "off" /\ UNCHANGED <<peb, bad>>
      /\ up' = "failed" \/ (up' = "on" /\ eba' = Scan.leb)
  BY AttachIs
<1>1. Found'[l] = Found[l] /\ Found[l] = FoundIn(peb, Fine, l)
  BY <1>0, FoundIs, FoundIsNext DEF IInv, Fine
<1>2. View(l) = Store!Off
  BY <1>0, ViewIs
<1>3. CASE up' = "failed"
  BY <1>1, <1>2, <1>3, ViewIs DEF StoreStep, Store!Step
<1>4. CASE up' = "on" /\ eba' = Scan.leb
  <2>1. View(l)' = Found[l]
    <3>1. CASE CopiesOf(peb, Fine, l) = {}
      <4>1. eba'[l] = None
        BY <1>4, <3>1, ScanFinds DEF IInv
      <4> QED BY <1>1, <1>4, <3>1, <4>1, ViewIs DEF FoundIn
    <3>2. CASE CopiesOf(peb, Fine, l) # {}
      <4>1. PICK p : p = eba'[l]
        OBVIOUS
      <4>2. Finds(peb, Fine, l, p)
        BY <1>4, <3>2, <4>1, ScanFinds DEF IInv
      <4>3. FoundIn(peb, Fine, l) = LebOf(peb[p].data) /\ p # None
        BY <4>2, FlashIs, FoundOne DEF IInv, CopiesOf, Fine, Pebs, None
      <4> QED BY <1>0, <1>1, <1>4, <4>1, <4>3, ViewIs
    <3> QED BY <3>1, <3>2
  <2> QED BY <1>1, <1>2, <2>1 DEF StoreStep, Store!Step, Store!Boot
<1> QED BY <1>0, <1>3, <1>4

LEMMA CutLeb == ASSUME NEW s PROVE [LebOf(s) EXCEPT !.d = Append(@, Torn)] = LebOf(Append(s, Torn))
<1>1. PICK u : u = Append(s, Torn)
  OBVIOUS
<1>2. LebOf(s) \in [m : {TRUE}, d : {s, u}] /\ LebOf(s).d = s
  BY DEF LebOf
<1>3. PICK t : t = [LebOf(s) EXCEPT !.d = u]
  OBVIOUS
<1>4. t \in [m : {TRUE}, d : {s, u}] /\ t.d = u
  BY <1>2, <1>3
<1>5. t.m = TRUE /\ t = [m |-> t.m, d |-> t.d]
  BY <1>4
<1>6. t = LebOf(u)
  BY <1>4, <1>5 DEF LebOf
<1> QED BY <1>1, <1>2, <1>3, <1>6

\* A power loss leaves of a write or an erasure what a boot may find.
LEMMA CutStores == ASSUME IInv, AInv, IInv', Cut, NEW l \in Lebs \ hurt PROVE StoreStep(l)
<1>0. up = "on" /\ bad' = bad /\ up' = "off" /\ peb' \in Half /\ (On \/ peb' = peb)
  BY CutIs
<1>1. View(l)' = Store!Off
  BY <1>0, ViewIs
<1>2. CASE peb' = peb
  <2>1. Found'[l] = Found[l]
    BY <1>0, <1>2, FoundIs, FoundIsNext DEF IInv, Fine
  <2> QED BY <1>1, <2>1 DEF StoreStep, Store!Step, Store!Stop
<1>3. CASE On /\ eba[l] = None
  <2>1. View(l) = NoLeb
    BY <1>0, <1>3, ViewIs
  <2>2. Found'[l] = Found[l] \/ Store!Renew(Found[l], Found'[l], NoLeb)
    BY <1>0, <1>3, UnmappedRenews DEF IInv
  <2> QED BY <1>1, <2>1, <2>2 DEF StoreStep, Store!Step, Store!Stop
<1>4. CASE On /\ eba[l] # None /\ op.at = "map" /\ op.l = l
  <2>1. wk.at = "none"
    BY <1>4 DEF IInv, Doing
  <2>2. peb' = peb
    BY <1>0, <1>4, <2>1, NoEffect
  <2> QED BY <1>2, <2>2
<1>5. CASE On /\ eba[l] # None /\ ~(op.at = "map" /\ op.l = l)
  <2>1. ~Swaps(peb', l)
    BY <1>0, <1>5, HalfNoSwap DEF AInv
  <2>2. Found[l] = LebOf(peb[eba[l]].data)
    BY <1>5, MappedIs
  <2>3. /\ Found'[l] = LebOf(peb'[eba[l]].data)
        /\ peb'[eba[l]] = peb[eba[l]] \/ peb'[eba[l]].data \in {peb[eba[l]].data, Append(peb[eba[l]].data, Torn)}
    BY <1>0, <1>5, <2>1, MappedIsNext DEF IInv
  <2>4. Found'[l] = Found[l] \/ Found'[l] = [Found[l] EXCEPT !.d = Append(@, Torn)]
    <3>1. PICK s, t : s = peb[eba[l]].data /\ t = peb'[eba[l]].data
      OBVIOUS
    <3>2. [LebOf(s) EXCEPT !.d = Append(@, Torn)] = LebOf(Append(s, Torn))
      BY CutLeb
    <3> QED BY <2>2, <2>3, <3>1, <3>2
  <2> QED BY <1>1, <2>4 DEF StoreStep, Store!Step, Store!Stop
<1> QED BY <1>0, <1>2, <1>3, <1>4, <1>5

\* What was written is mapped.
LEMMA MapPebStores == ASSUME IInv, AInv, IInv', MapPeb, NEW l \in Lebs \ hurt PROVE StoreStep(l)
<1>0. On /\ op.at = "map" /\ UNCHANGED <<peb, bad, up>> /\ eba' = [eba EXCEPT ![op.l] = op.p] /\ up = "on"
      /\ eba \in [Lebs -> Pebs \cup {None}] /\ op.p # None /\ op.l \in Lebs
  BY AtOpOn DEF MapPeb, flash, On, IInv, RamOk, Calling
<1>1. Found'[l] = Found[l] /\ Found[l] = FoundIn(peb, Fine, l)
  BY <1>0, FoundIs, FoundIsNext DEF IInv, Fine
<1>2. CASE op.l = l
  <2>1. /\ op.p \in CopiesOf(peb, Fine, l) /\ Intact(peb[op.p])
        /\ \A c \in CopiesOf(peb, Fine, l) : peb[c].vid.sq <= peb[op.p].vid.sq
    BY <1>0, <1>2, Newest DEF AInv
  <2>2. Found[l] = LebOf(peb[op.p].data)
    BY <1>1, <2>1, FlashIs, FoundWhole DEF IInv
  <2>3. eba'[l] = op.p
    BY <1>0, <1>2
  <2>4. View(l)' = Found[l] /\ View(l) # Store!Off
    BY <1>0, <2>2, <2>3, ViewIs, LebIs, NotOff
  <2> QED BY <1>1, <2>4 DEF StoreStep, Store!Step, Store!Show
<1>3. CASE op.l # l
  <2>1. View(l)' = View(l)
    BY <1>0, <1>3, ViewIs
  <2> QED BY <1>1, <2>1 DEF StoreStep, Store!Step
<1> QED BY <1>2, <1>3

LEMMA UnmapStores ==
  ASSUME IInv, IInv', NEW j \in Lebs, NEW k \in {"unmap", "erase"}, Unmap(j, k), NEW l \in Lebs PROVE StoreStep(l)
<1>0. UNCHANGED <<peb, bad, up>> /\ eba' = [eba EXCEPT ![j] = None] /\ up = "on"
      /\ eba \in [Lebs -> Pebs \cup {None}]
  BY DEF Unmap, Ready, flash, IInv, RamOk
<1>1. Found'[l] = Found[l]
  BY <1>0, FoundIs, FoundIsNext DEF IInv, Fine
<1>2. CASE j = l
  <2>1. View(l)' = NoLeb /\ View(l) # Store!Off
    BY <1>0, <1>2, ViewIs, LebIs, NotOff
  <2> QED BY <1>1, <2>1, LebIs DEF StoreStep, Store!Step, Store!Forget
<1>3. CASE j # l
  <2>1. View(l)' = View(l)
    BY <1>0, <1>3, ViewIs
  <2> QED BY <1>1, <2>1 DEF StoreStep, Store!Step
<1> QED BY <1>2, <1>3

\* A moved eraseblock reads as before.
LEMMA MovedStores == ASSUME IInv, AInv, IInv', Moved, NEW l \in Lebs PROVE StoreStep(l)
<1>0. /\ On /\ wk.at = "moved" /\ Moves /\ up = "on" /\ eba[peb[wk.p].vid.l] = wk.p /\ peb[wk.p].vid.l \in Lebs
      /\ wk.p \in Pebs /\ wk.q # None /\ wk.p # None
  BY MoveOn DEF Moved, Working, Moves, Pebs, None
<1>1. /\ UNCHANGED <<peb, bad, up>> /\ eba' = [eba EXCEPT ![peb[wk.p].vid.l] = wk.q]
      /\ eba \in [Lebs -> Pebs \cup {None}]
  BY DEF Moved, flash, IInv, RamOk
<1>2. Found'[l] = Found[l]
  BY <1>1, FoundIs, FoundIsNext DEF IInv, Fine
<1>3. peb[wk.q].data = peb[wk.p].data
  <2>1. peb[wk.p].data \in Seq(Nat) /\ Len(peb[wk.p].data) \in 0 .. Len(peb[wk.p].data)
    BY <1>0, PebFacts DEF IInv
  <2>2. SubSeq(peb[wk.p].data, 1, Len(peb[wk.p].data)) = peb[wk.p].data
    BY <2>1, FirstPages
  <2> QED BY <1>0, <2>2 DEF AInv, Copying
<1>4. View(l)' = View(l)
  <2>1. CASE l = peb[wk.p].vid.l
    BY <1>0, <1>1, <1>3, <2>1, ViewIs
  <2>2. CASE l # peb[wk.p].vid.l
    BY <1>0, <1>1, <2>2, ViewIs
  <2> QED BY <2>1, <2>2
<1> QED BY <1>2, <1>4 DEF StoreStep, Store!Step

\* An eraseblock is marked bad: only a copy that was to be erased is lost.
LEMMA MarkBadStores == ASSUME IInv, AInv, IInv', MarkBad, NEW l \in Lebs \ hurt PROVE StoreStep(l)
<1>0. /\ On /\ wk.at = "mark" /\ op.at \in {"flush", "produce"} /\ Erases /\ wk.p \in Pebs \ bad
      /\ UNCHANGED <<peb, up, eba>> /\ up = "on"
      /\ bad' = bad \/ (bad' = bad \cup {wk.p} /\ FlashState(peb, Fine'))
  BY MarkBadIs DEF On
<1>1. View(l)' = View(l)
  BY <1>0 DEF View, Content
<1>2. CASE bad' = bad
  BY <1>0, <1>2, QuietStep
<1>3. CASE bad' = bad \cup {wk.p} /\ FlashState(peb, Fine') /\ eba[l] = None
  <2>1. PICK K, z : Unmapped(l, K, z)
    BY <1>0, <1>3 DEF AInv, Lined, Lays, Unmapped
  <2>2. Renews(FoundIn(peb, Fine, l), FoundIn(peb, Fine', l), Now)
    BY <1>0, <1>3, <2>1, BadLayers
  <2>3. Found[l] = FoundIn(peb, Fine, l) /\ Found'[l] = FoundIn(peb, Fine', l)
    BY <1>0, FoundIs, FoundIsNext DEF IInv
  <2>4. Found'[l] = Found[l] \/ Store!Renew(Found[l], Found'[l], NoLeb)
    BY <2>2, <2>3, RenewIs DEF AInv
  <2>5. View(l) = NoLeb
    BY <1>0, <1>3, ViewIs
  <2> QED BY <1>1, <2>4, <2>5 DEF StoreStep, Store!Step
<1>4. CASE bad' = bad \cup {wk.p} /\ FlashState(peb, Fine') /\ eba[l] # None
  <2>1. CopiesOf(peb, Fine', l) \subseteq CopiesOf(peb, Fine, l) /\ eba[l] \in CopiesOf(peb, Fine', l)
    BY <1>0, <1>4, MappedPlace DEF CopiesOf, Fine
  <2>2. Leads(peb, l)
    BY <1>0, <1>4 DEF AInv, Leading
  <2>3. FoundIn(peb, Fine', l) = LebOf(peb[eba[l]].data)
    <3>1. Intact(peb[eba[l]]) /\ \A c \in CopiesOf(peb, Fine', l) :
            Intact(peb[c]) => peb[c].vid.sq <= peb[eba[l]].vid.sq \/ peb[c].data = peb[eba[l]].data
      BY <1>0, <2>1, <2>2 DEF Leads
    <3>2. PICK S : S = Fine'
      OBVIOUS
    <3> QED BY <1>4, <2>1, <3>1, <3>2, FoundAlike
  <2>4. Found'[l] = LebOf(peb[eba[l]].data)
    BY <1>0, <2>3, FoundIsNext DEF IInv
  <2>5. Found'[l] = Found[l]
    BY <1>0, <1>4, <2>4, MappedIs
  <2> QED BY <1>1, <2>5 DEF StoreStep, Store!Step
<1> QED BY <1>0, <1>2, <1>3, <1>4

LEMMA StartsStored == ASSUME Init, NEW l \in Lebs PROVE Found[l] = NoLeb \/ Found[l] = LebOf(<<1>>)
<1>0. FlashOk
  BY InitHolds DEF IInv
<1>1. CASE CopiesOf(peb, Fine, l) = {}
  BY <1>0, <1>1, FoundIs DEF FoundIn
<1>2. CASE CopiesOf(peb, Fine, l) # {}
  <2>1. PICK p \in Pebs : Finds(peb, Fine, l, p)
    BY <1>0, <1>2, FlashIs, FindsSome
  <2>2. Found[l] = LebOf(peb[p].data) /\ peb[p].vid.st = "ok"
    BY <1>0, <2>1, FlashIs, FoundOne, FoundIs DEF CopiesOf
  <2>3. PICK held \in [1 .. NumHeld -> Lebs] :
         peb = [q \in Pebs |->
                   IF q <= NumHeld
                   THEN [ec |-> "ok", vid |-> Vid(held[q], q, <<>>), data |-> <<1>>]
                   ELSE [Blank EXCEPT !.ec = IF q = NumPebs THEN "none" ELSE "ok"]]
    BY DEF Init
  <2>4. peb[p].data = <<1>> \/ peb[p] = [Blank EXCEPT !.ec = IF p = NumPebs THEN "none" ELSE "ok"]
    BY <2>3
  <2>5. [Blank EXCEPT !.ec = IF p = NumPebs THEN "none" ELSE "ok"].vid.st = "none"
    BY DEF Blank, NoVid
  <2> QED BY <2>2, <2>4, <2>5
<1> QED BY <1>1, <1>2

LEMMA QuietSteps ==
  ASSUME Flush \/ GetPeb \/ NeedPeb \/ Produced \/ RecoverUnreadable \/ DoErase \/ CancelWl \/ DoMove \/ FlushDone
         \/ NotMoved \/ UNCHANGED vars
  PROVE  UNCHANGED <<peb, bad, up, eba, hurt>>
BY DEF Flush, GetPeb, NeedPeb, Produced, RecoverUnreadable, DoErase, CancelWl, DoMove, FlushDone, NotMoved, vars, flash,
       budget

LEMMA QuietCalls ==
  ASSUME NEW l, NEW n, WriteMapped(l, n) \/ WriteUnmapped(l, n) \/ Change(l, n) \/ ReadBitflip(l)
  PROVE  UNCHANGED <<peb, bad, up, eba, hurt>>
BY DEF WriteMapped, WriteUnmapped, Change, ReadBitflip, flash

LEMMA FlashSteps ==
  ASSUME IInv, \/ WriteVid \/ WritePage \/ WriteFail \/ AppendPage \/ AppendFail \/ EraseOk \/ EcOk \/ EraseFail
               \/ MoveVid \/ MovePage \/ MoveFail
  PROVE  /\ On /\ up' = "on" /\ peb' \in Half \cup {Done} /\ bad' = bad /\ eba' = eba /\ hurt \subseteq hurt'
         /\ wk.at = "none" /\ op.at = "append" /\ op.l \notin hurt' => peb' = Done
<1>1. CASE WriteVid \/ WritePage \/ WriteFail
  <2>1. AtOp("vid") \/ AtOp("data")
    BY <1>1 DEF WriteVid, WritePage, WriteFail
  <2> QED BY <1>1, <2>1, AtOpOn DEF WriteVid, WritePage, WriteFail, On, budget
<1>2. CASE AppendPage \/ AppendFail
  <2>1. AtOp("append")
    BY <1>2 DEF AppendPage, AppendFail
  <2>2. op.l \notin hurt' => AppendPage
    BY <1>2 DEF AppendFail, IInv, Calling
  <2> QED BY <1>2, <2>1, <2>2, AtOpOn DEF AppendPage, AppendFail, On, budget
<1>3. CASE EraseOk \/ EcOk \/ EraseFail \/ MoveVid \/ MovePage \/ MoveFail
  <2>1. up = "on" /\ wk.at # "none"
    BY <1>3 DEF EraseOk, EcOk, EraseFail, MoveVid, MovePage, MoveFail, Working
  <2> QED BY <1>3, <2>1, WorkOn DEF EraseOk, EcOk, EraseFail, MoveVid, MovePage, MoveFail, budget
<1> QED BY <1>1, <1>2, <1>3

\* Each eraseblock makes a step of the store.
LEMMA StoreSteps ==
  ASSUME IInv, AInv, [Next]_vars
  PROVE  hurt \subseteq hurt' /\ \A l \in Lebs \ hurt' : StoreStep(l)
<1>0. IInv'
  BY NextKeeps
<1>1. ASSUME UNCHANGED <<peb, bad, up, eba, hurt>> PROVE hurt \subseteq hurt' /\ \A l \in Lebs \ hurt' : StoreStep(l)
  BY <1>1, QuietStep
<1>2. ASSUME \/ WriteVid \/ WritePage \/ WriteFail \/ AppendPage \/ AppendFail \/ EraseOk \/ EcOk \/ EraseFail
             \/ MoveVid \/ MovePage \/ MoveFail
      PROVE  hurt \subseteq hurt' /\ \A l \in Lebs \ hurt' : StoreStep(l)
  BY <1>0, <1>2, FlashSteps, FlashStep DEF IInv
<1>3. CASE Attach
  BY <1>0, <1>3, AttachIs, AttachStores
<1>4. CASE Cut
  BY <1>0, <1>4, CutIs, CutStores
<1>5. CASE MapPeb
  <2>1. hurt' = hurt
    BY <1>5 DEF MapPeb
  <2> QED BY <1>0, <1>5, <2>1, MapPebStores
<1>6. CASE Moved
  <2>1. hurt' = hurt
    BY <1>6 DEF Moved
  <2> QED BY <1>0, <1>6, <2>1, MovedStores
<1>7. CASE MarkBad
  <2>1. hurt' = hurt
    BY <1>7, MarkBadIs
  <2> QED BY <1>0, <1>7, <2>1, MarkBadStores
<1>8. CASE Call
  <2>1. PICK j \in Lebs : \/ \E n : WriteMapped(j, n) \/ WriteUnmapped(j, n) \/ Change(j, n) \/ ReadBitflip(j)
                          \/ \E k \in {"unmap", "erase"} : Unmap(j, k)
    BY <1>8 DEF Call
  <2>2. CASE \E n : WriteMapped(j, n) \/ WriteUnmapped(j, n) \/ Change(j, n) \/ ReadBitflip(j)
    BY <1>1, <2>2, QuietCalls
  <2>3. CASE \E k \in {"unmap", "erase"} : Unmap(j, k)
    <3>1. PICK k \in {"unmap", "erase"} : Unmap(j, k)
      BY <2>3
    <3>2. hurt' = hurt
      BY <3>1 DEF Unmap
    <3> QED BY <1>0, <3>1, <3>2, UnmapStores
  <2> QED BY <2>1, <2>2, <2>3
<1>9. CASE \/ Flush \/ GetPeb \/ NeedPeb \/ Produced \/ RecoverUnreadable \/ DoErase \/ CancelWl \/ DoMove \/ FlushDone
           \/ NotMoved \/ UNCHANGED vars
  BY <1>1, <1>9, QuietSteps
<1> QED BY <1>2, <1>3, <1>4, <1>5, <1>6, <1>7, <1>8, <1>9 DEF Next, Step, Fault

\* The eraseblocks implement the store of LebStore: what a boot would find of a
\* logical eraseblock and what the running system reads of it change as its Step
\* allows.  Read with the code: ubi_eba_write_leb extends both by a page;
\* ubi_eba_atomic_leb_change switches the flash to the new copy with its last
\* page, and the table after that; ubi_eba_copy_leb shows in neither; and the
\* pending works (erase_worker) of what is unmapped, in the order they come and
\* wherever power is cut, leave of it the last contents, a part of what is being
\* written, or nothing, never contents older than these.
THEOREM EbaStoreIsImplemented == Spec => StoreSpec
<1> DEFINE view == IF up = "on" THEN Contents(eba) ELSE [l \in Lebs |-> [m |-> FALSE, d |-> <<Torn>>]]
<1>0. \A l \in Lebs : view[l] = View(l) /\ view'[l] = View(l)'
  BY DEF View, Contents, Store!Off
<1>1. Init => Store!Init
  <2> SUFFICES ASSUME Init PROVE Store!Init
    OBVIOUS
  <2>1. \A l \in Lebs : Found[l] = Store!Unmapped \/ \E x \in 1 .. MaxOps + 1 : Found[l] = Store!Mapped(<<x>>)
    <3>1. 1 \in 1 .. MaxOps + 1
      BY UbiAssumption
    <3> QED BY <3>1, StartsStored, LebIs
  <2>2. view \in [Lebs -> {Store!Off}] /\ hurt = {}
    BY DEF Init, Store!Off
  <2> QED BY <2>1, <2>2 DEF Store!Init
<1>2. IInv /\ AInv /\ [Next]_vars => [Store!Next]_<<Found, view, hurt>>
  <2> SUFFICES ASSUME IInv, AInv, [Next]_vars PROVE Store!Next
    OBVIOUS
  <2>1. hurt \subseteq hurt' /\ \A l \in Lebs \ hurt' : Store!Step(Found[l], Found'[l], view[l], view'[l])
    BY <1>0, StoreSteps DEF StoreStep
  <2> QED BY <2>1 DEF Store!Next, Store!Steps
<1> QED BY <1>1, <1>2, CopiesInvariant, PTL DEF Spec, StoreSpec, Store!Spec

(***************************************************************************)
(* A call that has returned 0.                                             *)
(***************************************************************************)
Acked(l) == Returns(l) /\ ~ro' =>
  /\ op.k \in {"write", "change", "recover"} =>
       l \in hurt \/ (Found'[l].m /\ EndsWith(Found'[l].d, op.buf))
  /\ op.k = "erase" => ~Found'[l].m

LEMMA EndsWithAll == ASSUME NEW s \in Seq(Nat) PROVE EndsWith(s, s)
<1>1. Len(s) \in 0 .. Len(s) /\ Len(s) - Len(s) + 1 = 1 /\ Len(s) <= Len(s)
  OBVIOUS
<1>2. SubSeq(s, 1, Len(s)) = s
  BY <1>1, FirstPages
<1> QED BY <1>1, <1>2 DEF EndsWith

\* Both end with as many pages of the same value.
LEMMA EndsWithRun ==
  ASSUME NEW s \in Seq(Nat), NEW n \in Nat, n <= Len(s), NEW v \in Nat, \A i \in 1 .. n : s[Len(s) - n + i] = v,
         NEW t \in Seq(Nat), Len(t) = n + 1, \A i \in DOMAIN t : t[i] = v
  PROVE  EndsWith(Append(s, v), t)
<1> DEFINE m == Len(s)
           a == Append(s, v)
           b == SubSeq(a, m - n + 1, m + 1)
<1>1. m \in Nat /\ Len(a) = m + 1 /\ a \in Seq(Nat) /\ a[m + 1] = v /\ \A i \in 1 .. m : a[i] = s[i]
  OBVIOUS
<1>2. Len(a) - Len(t) + 1 = m - n + 1 /\ m - n + 1 \in 1 .. m + 1 /\ Len(t) <= Len(a)
  BY <1>1
<1>3. b \in Seq(Nat) /\ Len(b) = n + 1 /\ \A i \in 1 .. n + 1 : b[i] = a[m - n + i]
  <2> HIDE DEF m, a
  <2>1. Len(a) = m + 1 /\ a \in Seq(Nat) /\ m \in Nat /\ n <= m
    BY <1>1 DEF m
  <2>2. \A i \in 1 .. n + 1 : m - n + 1 + i - 1 = m - n + i
    BY <2>1
  <2>3. Len(b) = n + 1 /\ b \in Seq(Nat)
    BY <2>1
  <2>4. \A i \in 1 .. n + 1 : b[i] = a[m - n + 1 + i - 1]
    BY <2>1
  <2> QED BY <2>2, <2>3, <2>4
<1>4. \A i \in 1 .. n + 1 : b[i] = v
  <2> SUFFICES ASSUME NEW i \in 1 .. n + 1 PROVE a[m - n + i] = v
    BY <1>3
  <2> HIDE DEF a
  <2>1. CASE i = n + 1
    <3>1. m - n + i = m + 1
      BY <1>1, <2>1
    <3> QED BY <1>1, <3>1
  <2>2. CASE i # n + 1
    <3>1. i \in 1 .. n /\ m - n + i \in 1 .. m
      BY <1>1, <2>2
    <3> QED BY <1>1, <3>1
  <2> QED BY <2>1, <2>2
<1>5. DOMAIN b = 1 .. n + 1 /\ DOMAIN t = 1 .. n + 1
  BY <1>3
<1>6. b = t
  <2> HIDE DEF b
  <2>1. \A i \in 1 .. n + 1 : b[i] = t[i]
    BY <1>4, <1>5
  <2> QED BY <1>3, <1>5, <2>1
<1> QED BY <1>1, <1>2, <1>6 DEF EndsWith

\* Only these steps return 0.
LEMMA Returning ==
  ASSUME IInv, [Next]_vars, NEW l, Returns(l), ~ro'
  PROVE  MapPeb \/ (AppendPage /\ op.n + 1 = Len(op.buf)) \/ FlushDone
<1>0. op.at # "idle" /\ op'.at = "idle" /\ op'.ret = "ok"
  BY DEF Returns
<1>1. ~(UNCHANGED op)
  BY <1>0
<1>2. \A r : Idle(r).ret = r
  BY DEF Idle
<1>3. op \in OpState
  BY DEF IInv, RamOk
<1>4. ~Call /\ ~Flush
  BY <1>0 DEF Call, Flush, WriteMapped, WriteUnmapped, Change, Unmap, ReadBitflip, Ready
<1>5. ~Attach /\ ~Cut /\ ~(UNCHANGED vars)
  BY <1>0, <1>1, <1>2 DEF Attach, Cut, NoRam, vars
<1>6. ~EraseOk /\ ~EcOk /\ ~EraseFail /\ ~MoveVid /\ ~MovePage /\ ~MoveFail /\ ~Moved /\ ~NotMoved /\ ~DoErase
      /\ ~CancelWl /\ ~DoMove /\ ~MarkBad
  BY <1>1 DEF EraseOk, EcOk, EraseFail, MoveVid, MovePage, MoveFail, Moved, NotMoved, DoErase, CancelWl, DoMove, MarkBad,
              Fails
<1>7. ~GetPeb /\ ~NeedPeb /\ ~Produced /\ ~WriteVid /\ ~WritePage
  <2>1. CASE GetPeb \/ Produced \/ WriteVid \/ WritePage
    <3>1. op'.at # "idle"
      <4>1. CASE GetPeb
        BY <1>3, <4>1 DEF GetPeb, OpState
      <4>2. CASE Produced
        BY <1>3, <4>2 DEF Produced, OpState
      <4>3. CASE WriteVid
        BY <1>3, <4>3 DEF WriteVid, OpState
      <4>4. CASE WritePage
        BY <1>0, <1>3, <4>4 DEF WritePage, AtOp, OpState
      <4> QED BY <2>1, <4>1, <4>2, <4>3, <4>4
    <3> QED BY <1>0, <3>1
  <2>2. CASE NeedPeb
    <3>1. CASE works # <<>>
      <4>1. op'.at = "produce"
        BY <1>3, <2>2, <3>1 DEF NeedPeb, OpState
      <4> QED BY <1>0, <4>1
    <3>2. CASE works = <<>>
      BY <1>0, <1>2, <2>2, <3>2 DEF NeedPeb
    <3> QED BY <3>1, <3>2
  <2> QED BY <2>1, <2>2
<1>8. ~WriteFail /\ ~AppendFail /\ ~RecoverUnreadable
  <2>1. WriteFail => op' = Again
    BY DEF WriteFail
  <2>2. Again.at = "get"
    BY <1>3 DEF Again, OpState
  <2>3. AppendFail => op'.at = "get"
    BY DEF AppendFail, New, Idle
  <2> QED BY <1>0, <2>1, <2>2, <2>3 DEF RecoverUnreadable
<1>9. AppendPage => op.n + 1 = Len(op.buf)
  <2>1. [op EXCEPT !.n = @ + 1].at = op.at
    BY <1>3 DEF OpState
  <2> QED BY <1>0, <2>1 DEF AppendPage
<1> QED BY <1>4, <1>5, <1>6, <1>7, <1>8, <1>9 DEF Next, Step, Fault

LEMMA MapPebAcked == ASSUME IInv, AInv, IInv', MapPeb, NEW l, op.l = l PROVE Acked(l)
<1>0. On /\ op.at = "map" /\ UNCHANGED <<peb, bad>> /\ op.k \in {"write", "change", "recover"} /\ l \in Lebs
      /\ op.buf \in Seq(Nat)
  BY AtOpOn DEF MapPeb, flash, AInv, Called, Writing, IInv, Calling, RamOk, OpState
<1>1. ASSUME l \notin hurt PROVE Found'[l] = LebOf(op.buf)
  <2>1. PICK p : p = op.p
    OBVIOUS
  <2>2. FoundIn(peb, Fine, l) = LebOf(op.buf)
    BY <1>0, <1>1, Newest, FlashIs, FoundWhole DEF AInv, IInv
  <2> QED BY <1>0, <2>2, FoundIsNext DEF IInv, Fine
<1> QED BY <1>0, <1>1, EndsWithAll, LebIs DEF Acked

LEMMA AppendPageAcked ==
  ASSUME IInv, AInv, IInv', AppendPage, op.n + 1 = Len(op.buf), NEW l, op.l = l PROVE Acked(l)
<1>0. /\ On /\ wk.at = "none" /\ op.at = "append" /\ peb' = Done /\ bad' = bad /\ l \in Lebs /\ op.k = "write"
      /\ eba[l] # None
  BY AtOpOn, AppendPeb DEF AppendPage, IInv, Calling, AInv, Called
<1> DEFINE s == peb[eba[l]].data
<1>1. /\ PageTo(Done, eba[l], op.buf[op.n + 1]) /\ op.n \in Nat /\ op.buf \in Seq(Nat) /\ op.buf[op.n + 1] = Now
      /\ op.n <= Len(s) /\ \A i \in 1 .. op.n : s[Len(s) - op.n + i] = Now
  BY <1>0, OpPageEffect, AppendPeb DEF AInv, Called, DataOf
<1>2. peb'[eba[l]].data = Append(s, Now) /\ s \in Seq(Nat)
  BY <1>0, <1>1 DEF PageTo
<1>3. \A i \in DOMAIN op.buf : op.buf[i] = Now
  BY <1>0 DEF AInv, Called
<1>4. EndsWith(Append(s, Now), op.buf)
  <2> HIDE DEF s
  <2> QED BY <1>1, <1>2, <1>3, NowIs, EndsWithRun
<1>5. ASSUME l \notin hurt PROVE Found'[l] = LebOf(peb'[eba[l]].data)
  <2>1. ~Swaps(peb', l)
    BY <1>0 DEF Swaps
  <2> QED BY <1>0, <1>5, <2>1, MappedIsNext DEF IInv
<1> QED BY <1>0, <1>2, <1>4, <1>5, LebIs DEF Acked

LEMMA FlushDoneAcked == ASSUME IInv, AInv, IInv', FlushDone, NEW l, op.l = l PROVE Acked(l)
<1>0. On /\ wk.at = "none" /\ op.at = "flush" /\ works = <<>> /\ UNCHANGED <<peb, bad>>
      /\ op.k \in {"erase", "flush"} /\ (op.k = "erase" => l \in Lebs /\ eba[l] = None)
  BY AtOpOn DEF FlushDone, flash, AInv, Called
<1>1. ASSUME op.k = "erase" PROVE Found'[l] = NoLeb
  <2>1. CopiesOf(peb, Fine, l) = {}
    BY <1>0, <1>1, NothingLeft
  <2> QED BY <1>0, <1>1, <2>1, FoundIsNext DEF IInv, Fine, FoundIn
<1> QED BY <1>0, <1>1 DEF Acked, NoLeb

\* A write, an atomic change or a recovery that returned 0 left its data where a
\* boot finds it, and an erased eraseblock stays erased.  Read with the code:
\* ubi_eba_write_leb and ubi_eba_atomic_leb_change return when the newest copy is
\* on the flash with all its pages and eba_tbl says so, ubi_leb_erase when
\* ubi_wl_flush has done every work; that no other copy, one still to be erased
\* or that of a move that was given up, is found in its place is what the
\* invariant of the copies is for.
THEOREM AckedIsAlwaysFound == Spec => AckedIsFound
<1>1. IInv /\ AInv /\ [Next]_vars => \A l \in Lebs : Acked(l)
  <2> SUFFICES ASSUME IInv, AInv, [Next]_vars, NEW l \in Lebs, Returns(l), ~ro' PROVE Acked(l)
    BY DEF Acked
  <2>1. IInv' /\ op.l = l
    BY NextKeeps DEF Returns
  <2> QED BY <2>1, Returning, MapPebAcked, AppendPageAcked, FlushDoneAcked
<1>2. IInv /\ AInv /\ [Next]_vars => [\A l \in Lebs : Returns(l) /\ ~ro' =>
        /\ op.k \in {"write", "change", "recover"} =>
             l \in hurt \/ (Found'[l].m /\ EndsWith(Found'[l].d, op.buf))
        /\ op.k = "erase" => ~Found'[l].m]_vars
  BY <1>1 DEF Acked
<1> QED BY <1>2, CopiesInvariant, PTL DEF Spec, AckedIsFound
=============================================================================
