---------------------------- MODULE UbiVol_proofs ----------------------------
(***************************************************************************)
(* Proofs about UBI volumes, for any number of eraseblocks, volumes,       *)
(* operations and power losses: the volume table that the last change left *)
(* can be read at every moment, between operations RAM agrees with it, a   *)
(* boot finds of a volume what its last finished change left, and it fails *)
(* only over the headers of a static volume that an update left behind.    *)
(*                                                                         *)
(* The invariant says that no two copies of a LEB have one sequence number *)
(* (FlashOk), that the table in RAM maps the newest copy of each, and that *)
(* of the two LEBs of the table all other copies wait for their erasure,   *)
(* the newest of an unmapped LEB as the last (Trees), that a change of the *)
(* table is under way step by step (Stages), and what the two copies of    *)
(* the table hold in each of its stages (Layouts).                         *)
(***************************************************************************)
EXTENDS UbiVol, FiniteSetTheorems, WellFoundedInduction, TLAPS

Sizes    == 0 .. MaxLebs
Types    == {"none", "static", "dynamic"}
Tables   == [Vols -> [size : Sizes, type : Types, upd : BOOLEAN, auto : BOOLEAN]]
VolState == [size : Sizes, type : Types, used : Nat, updating : BOOLEAN, upd : BOOLEAN,
             corrupted : BOOLEAN]
Contents == {Torn} \cup [d : {"data"}, n : Nat] \cup [d : {"table"}, t : Tables]
PebState == {Blank, Free, Corrupt}
            \cup [st : {"leb"}, v : 0 .. Slots, l : Lnums, sq : Nat, used : Nat, d : Contents]
Steps    == [o : {"unmap"}, v : 0 .. Slots, l : Lnums]
            \cup [o : {"write"}, v : 0 .. Slots, l : Lnums, used : Nat, d : Contents]
            \cup [o : {"flush"}] \cup [o : {"vtbl"}, t : Tables]
            \cup [o : {"vol"}, s : Vols, vol : VolState] \cup [o : {"back"}, n : Sizes]
EbaState == [0 .. Slots -> [Lnums -> Pebs \cup {None}]]

IsLeb(p)      == peb[p].st = "leb"
IsCopy(p,v,l) == IsLeb(p) /\ peb[p].v = v /\ peb[p].l = l

FlashOk ==
  /\ peb \in [Pebs -> PebState]
  /\ \A p, q \in Pebs : p # q /\ IsLeb(p) /\ IsLeb(q) => peb[p].sq # peb[q].sq

On == up = "on"

RamOk ==
  /\ up \in {"off", "on", "failed"} /\ vtbl \in Tables /\ vols \in [Vols -> VolState]
  /\ eba \in EbaState /\ free \subseteq Pebs /\ works \in Seq(Pebs) /\ sqnum \in Nat
  /\ todo \in Seq(Steps) /\ (up # "on" => todo = <<>>)
  /\ tab \in Tables /\ formatted \in BOOLEAN /\ ops \in Nat /\ cuts \in Nat

Once(s) == \A i, j \in DOMAIN s : s[i] = s[j] => i = j

\* What is mapped is the newest copy; the others of a table copy wait for their erasure.
Trees == On =>
  /\ \A p \in free : peb[p].st = "free"
  /\ Once(works) /\ \A i \in DOMAIN works : peb[works[i]].st # "free"
  /\ \A v \in 0 .. Slots, l \in Lnums : eba[v][l] # None =>
       /\ IsCopy(eba[v][l], v, l) /\ eba[v][l] \notin ToSet(works)
       /\ \A q \in Pebs : IsCopy(q, v, l) => peb[q].sq <= peb[eba[v][l]].sq
  /\ \A p \in Pebs : IsLeb(p) => peb[p].sq < sqnum
  /\ \A p \in Pebs, l \in {0, 1} : IsCopy(p, Layout, l) => eba[Layout][l] = p \/ p \in ToSet(works)
  /\ \A i, j \in DOMAIN works :
       i < j /\ IsLeb(works[i]) /\ IsCopy(works[j], peb[works[i]].v, peb[works[i]].l) =>
         \E q \in Pebs : /\ IsCopy(q, peb[works[i]].v, peb[works[i]].l)
                         /\ peb[q].sq > peb[works[i]].sq

(***************************************************************************)
(* A change of the table: RAM, then LEB 0 unmapped and written, then LEB 1.*)
(***************************************************************************)
Stage(h) ==
  CASE h.o = "vtbl" -> 1
    [] h.o = "unmap" /\ h.v = Layout /\ h.l = 0 -> 2
    [] h.o = "write" /\ h.v = Layout /\ h.l = 0 -> 3
    [] h.o = "unmap" /\ h.v = Layout /\ h.l = 1 -> 4
    [] h.o = "write" /\ h.v = Layout /\ h.l = 1 -> 5
    [] OTHER -> 0

Stages(s) == \A i \in 1 .. Len(s) :
  /\ Stage(s[i]) \in 1 .. 4 => i < Len(s) /\ Stage(s[i + 1]) = Stage(s[i]) + 1
  /\ i > 1 /\ Stage(s[i]) \in 2 .. 5 => Stage(s[i - 1]) = Stage(s[i]) - 1
  /\ Stage(s[i]) = 1 => s[i + 2].d = Table(s[i].t)
  /\ Stage(s[i]) = 3 => s[i + 2].d = s[i].d
  /\ Stage(s[i]) \in {3, 5} => s[i].d \in [d : {"table"}, t : Tables]

Now == IF todo = <<>> THEN 0 ELSE Stage(todo[1])

Layouts == On =>
  /\ formatted /\ Stages(todo)
  /\ eba[Layout][0] = None <=> Now = 3
  /\ eba[Layout][1] = None <=> Now = 5
  /\ eba[Layout][0] # None => peb[eba[Layout][0]].d = Table(tab)
  /\ eba[Layout][1] # None /\ Now # 4 => peb[eba[Layout][1]].d = Table(tab)
  /\ Now = 3 => Found(Layout, 0) \in {Hole, Table(tab)}
  /\ Now = 4 => todo[2].d = Table(tab)
  /\ Now = 5 => todo[1].d = Table(tab)
  /\ Now \notin {1, 2, 3} => vtbl = tab
  /\ Now = 2 => todo[2].d = Table(vtbl)
  /\ Now = 3 => todo[1].d = Table(vtbl)

Unformatted == ~formatted =>
  /\ ~On /\ tab = EmptyTable /\ Found(Layout, 1) \in {Hole, Torn}
  /\ Found(Layout, 0) \in {Hole, Torn, Table(EmptyTable)}

IInv == FlashOk /\ RamOk /\ Trees /\ Layouts /\ TableKept /\ Unformatted

(***************************************************************************)
(* Induction, smallest and largest elements, and sequences of eraseblocks. *)
(***************************************************************************)
\* A set of numbers that is not empty has a least one.
LEMMA Least ==
  ASSUME NEW T, T \subseteq Nat, T # {}
  PROVE  \E m \in T : \A y \in T : m <= y
<1>1. PICK m \in T : \A y \in T : ~(<<y, m>> \in OpToRel(<, Nat))
  BY NatLessThanWellFounded, WFMin
<1>2. ASSUME NEW y \in T PROVE m <= y
  <2>1. ~(y < m)
    BY <1>1 DEF OpToRel
  <2> QED BY <2>1
<1> QED BY <1>2

\* A set of numbers that holds 0 and the successor of each up to n holds those
\* up to n.
LEMMA UpTo ==
  ASSUME NEW n \in Nat, NEW S, 0 \in S, \A i \in 1 .. n : i - 1 \in S => i \in S
  PROVE  \A i \in 0 .. n : i \in S
<1> DEFINE T == (0 .. n) \ S
<1> SUFFICES ASSUME T # {} PROVE FALSE
  OBVIOUS
<1>1. T \subseteq Nat
  OBVIOUS
<1>2. PICK m \in T : \A y \in T : m <= y
  BY <1>1, Least
<1>3. m # 0 /\ m \in 1 .. n /\ m - 1 \in 0 .. n /\ ~(m <= m - 1)
  OBVIOUS
<1>4. m - 1 \in S
  BY <1>2, <1>3
<1> QED BY <1>3, <1>4

\* The free eraseblock that is taken is a free one.
LEMMA PicksFree == ASSUME free \subseteq Pebs, free # {} PROVE Picks \subseteq free
<1>0. NumPebs \in Nat /\ free \subseteq Nat
  BY UbiVolAssumption DEF Pebs
<1>1. \E x \in free : \A y \in free : x <= y
  BY <1>0, Least
<1> DEFINE T == {NumPebs - x : x \in free}
<1>2. T \subseteq Nat /\ T # {}
  <2>1. \A x \in free : NumPebs - x \in Nat
    BY <1>0 DEF Pebs
  <2> QED BY <2>1
<1>3. PICK m \in T : \A y \in T : m <= y
  BY <1>2, Least
<1>4. PICK x \in free : m = NumPebs - x
  OBVIOUS
<1>5. ASSUME NEW y \in free PROVE x >= y
  <2>1. NumPebs - x <= NumPebs - y
    BY <1>3, <1>4
  <2> QED BY <1>0, <2>1
<1>6. Min(free) \in free
  BY <1>1 DEF Min
<1>7. Max(free) \in free
  BY <1>5 DEF Max
<1> QED BY <1>6, <1>7 DEF Picks

LEMMA AppendFacts ==
  ASSUME NEW S, NEW s \in Seq(S), NEW x \in S
  PROVE  /\ Append(s, x) \in Seq(S) /\ ToSet(Append(s, x)) = ToSet(s) \cup {x}
         /\ s \o <<x>> = Append(s, x) /\ s \o <<>> = s
         /\ Once(s) /\ x \notin ToSet(s) => Once(Append(s, x))
<1> DEFINE t == Append(s, x)
           m == Len(s)
<1>1. /\ m \in Nat /\ DOMAIN s = 1 .. m /\ t \in Seq(S) /\ DOMAIN t = 1 .. m + 1
      /\ t[m + 1] = x /\ \A i \in 1 .. m : t[i] = s[i]
  OBVIOUS
<1>2. s \o <<x>> = t /\ s \o <<>> = s
  OBVIOUS
<1> HIDE DEF t, m
<1>3. \A i \in 1 .. m + 1 : i \in 1 .. m \/ i = m + 1
  BY <1>1
<1>4. ToSet(t) = ToSet(s) \cup {x}
  <2>1. \A i \in 1 .. m : i \in 1 .. m + 1
    BY <1>1
  <2>2. m + 1 \in 1 .. m + 1
    BY <1>1
  <2> QED BY <1>1, <1>3, <2>1, <2>2 DEF ToSet
<1>5. ASSUME Once(s), x \notin ToSet(s) PROVE Once(t)
  <2> SUFFICES ASSUME NEW i \in 1 .. m + 1, NEW j \in 1 .. m + 1, t[i] = t[j] PROVE i = j
    BY <1>1 DEF Once
  <2>1. CASE i \in 1 .. m /\ j \in 1 .. m
    BY <1>1, <1>5, <2>1 DEF Once
  <2>2. CASE i \in 1 .. m /\ j = m + 1
    <3>1. x \in ToSet(s)
      BY <1>1, <2>2 DEF ToSet
    <3> QED BY <1>1, <1>5, <2>2, <3>1
  <2>3. CASE i = m + 1 /\ j \in 1 .. m
    <3>1. x \in ToSet(s)
      BY <1>1, <2>3 DEF ToSet
    <3> QED BY <1>1, <1>5, <2>3, <3>1
  <2> QED BY <1>3, <2>1, <2>2, <2>3
<1> QED BY <1>1, <1>2, <1>4, <1>5 DEF t

LEMMA TailFacts ==
  ASSUME NEW S, NEW s \in Seq(S), s # <<>>
  PROVE  /\ Tail(s) \in Seq(S) /\ Head(s) \in S /\ ToSet(s) = ToSet(Tail(s)) \cup {Head(s)}
         /\ Once(s) => Once(Tail(s)) /\ Head(s) \notin ToSet(Tail(s))
<1> DEFINE t == Tail(s)
           m == Len(s) - 1
           x == Head(s)
<1>1. /\ m \in Nat /\ DOMAIN s = 1 .. m + 1 /\ t \in Seq(S) /\ DOMAIN t = 1 .. m
      /\ s[1] = x /\ x \in S /\ \A i \in 1 .. m : t[i] = s[i + 1]
  OBVIOUS
<1> HIDE DEF t, m, x
<1>2. \A i \in 1 .. m : i + 1 \in 1 .. m + 1
  BY <1>1
<1>3. ToSet(s) = ToSet(t) \cup {x}
  <2>1. ASSUME NEW y \in ToSet(s) PROVE y \in ToSet(t) \cup {x}
    <3>1. PICK i \in 1 .. m + 1 : y = s[i]
      BY <1>1 DEF ToSet
    <3>2. CASE i = 1
      BY <1>1, <3>1, <3>2
    <3>3. CASE i # 1
      <4>1. i - 1 \in 1 .. m /\ (i - 1) + 1 = i
        BY <1>1, <3>3
      <4>2. t[i - 1] = s[i]
        BY <1>1, <4>1
      <4> QED BY <1>1, <3>1, <4>1, <4>2 DEF ToSet
    <3> QED BY <3>2, <3>3
  <2>2. ASSUME NEW y \in ToSet(t) PROVE y \in ToSet(s)
    <3>1. PICK i \in 1 .. m : y = t[i]
      BY <1>1 DEF ToSet
    <3> QED BY <1>1, <1>2, <3>1 DEF ToSet
  <2>3. 1 \in 1 .. m + 1
    BY <1>1
  <2>4. x \in ToSet(s)
    BY <1>1, <2>3 DEF ToSet
  <2> QED BY <2>1, <2>2, <2>4
<1>4. ASSUME Once(s) PROVE Once(t) /\ x \notin ToSet(t)
  <2>1. Once(t)
    <3> SUFFICES ASSUME NEW i \in 1 .. m, NEW j \in 1 .. m, t[i] = t[j] PROVE i = j
      BY <1>1 DEF Once
    <3>1. i + 1 = j + 1
      BY <1>1, <1>2, <1>4 DEF Once
    <3> QED BY <3>1
  <2>2. ASSUME x \in ToSet(t) PROVE FALSE
    <3>1. PICK i \in 1 .. m : x = t[i]
      BY <1>1, <2>2 DEF ToSet
    <3>2. 1 \in 1 .. m + 1 /\ s[1] = s[i + 1] /\ i + 1 \in 1 .. m + 1
      BY <1>1, <1>2, <3>1
    <3>3. 1 = i + 1
      BY <1>1, <1>4, <2>2, <3>2 DEF Once
    <3> QED BY <3>3
  <2> QED BY <2>1, <2>2
<1> QED BY <1>1, <1>3, <1>4 DEF t, x

LEMMA ConcatFacts ==
  ASSUME NEW S, NEW s \in Seq(S), NEW t \in Seq(S)
  PROVE  /\ s \o t \in Seq(S) /\ ToSet(s \o t) = ToSet(s) \cup ToSet(t)
         /\ Once(s) /\ Once(t) /\ ToSet(s) \cap ToSet(t) = {} => Once(s \o t)
<1> DEFINE r == s \o t
           m == Len(s)
           n == Len(t)
<1>1. /\ m \in Nat /\ n \in Nat /\ DOMAIN s = 1 .. m /\ DOMAIN t = 1 .. n /\ r \in Seq(S)
      /\ DOMAIN r = 1 .. m + n /\ \A i \in 1 .. m : r[i] = s[i]
  OBVIOUS
<1>2. ASSUME NEW j \in 1 .. n PROVE r[m + j] = t[j] /\ m + j \in 1 .. m + n
  <2>1. m + j \in m + 1 .. m + n /\ (m + j) - m = j
    BY <1>1
  <2> QED BY <1>1, <2>1
<1> HIDE DEF r, m, n
<1>3. \A i \in 1 .. m + n : i \in 1 .. m \/ \E j \in 1 .. n : i = m + j
  <2> SUFFICES ASSUME NEW i \in 1 .. m + n, i \notin 1 .. m PROVE \E j \in 1 .. n : i = m + j
    OBVIOUS
  <2>1. i - m \in 1 .. n /\ i = m + (i - m)
    BY <1>1
  <2> QED BY <2>1
<1>4. \A i \in 1 .. m : i \in 1 .. m + n
  BY <1>1
<1>5. ToSet(r) = ToSet(s) \cup ToSet(t)
  <2>1. ASSUME NEW y \in ToSet(r) PROVE y \in ToSet(s) \cup ToSet(t)
    <3>1. PICK i \in 1 .. m + n : y = r[i]
      BY <1>1 DEF ToSet
    <3>2. CASE i \in 1 .. m
      BY <1>1, <3>1, <3>2 DEF ToSet
    <3>3. CASE i \notin 1 .. m
      <4>1. PICK j \in 1 .. n : i = m + j
        BY <1>3, <3>3
      <4> QED BY <1>1, <1>2, <3>1, <4>1 DEF ToSet
    <3> QED BY <3>2, <3>3
  <2>2. ToSet(s) \subseteq ToSet(r)
    BY <1>1, <1>4 DEF ToSet
  <2>3. ToSet(t) \subseteq ToSet(r)
    BY <1>1, <1>2 DEF ToSet
  <2> QED BY <2>1, <2>2, <2>3
<1>6. ASSUME Once(s), Once(t), ToSet(s) \cap ToSet(t) = {} PROVE Once(r)
  <2> SUFFICES ASSUME NEW i \in 1 .. m + n, NEW j \in 1 .. m + n, r[i] = r[j] PROVE i = j
    BY <1>1 DEF Once
  <2>1. CASE i \in 1 .. m /\ j \in 1 .. m
    BY <1>1, <1>6, <2>1 DEF Once
  <2>2. ASSUME NEW a \in 1 .. m, NEW b \in 1 .. n PROVE s[a] # t[b]
    BY <1>1, <1>6 DEF ToSet
  <2>3. CASE i \notin 1 .. m /\ j \notin 1 .. m
    <3>1. PICK a \in 1 .. n, b \in 1 .. n : i = m + a /\ j = m + b
      BY <1>3, <2>3
    <3>2. t[a] = t[b]
      BY <1>2, <3>1
    <3>3. a = b
      BY <1>1, <1>6, <3>2 DEF Once
    <3> QED BY <3>1, <3>3
  <2>4. CASE i \in 1 .. m /\ j \notin 1 .. m
    <3>1. PICK b \in 1 .. n : j = m + b
      BY <1>3, <2>4
    <3>2. s[i] = t[b]
      BY <1>1, <1>2, <2>4, <3>1
    <3> QED BY <2>2, <2>4, <3>2
  <2>5. CASE i \notin 1 .. m /\ j \in 1 .. m
    <3>1. PICK b \in 1 .. n : i = m + b
      BY <1>3, <2>5
    <3>2. s[j] = t[b]
      BY <1>1, <1>2, <2>5, <3>1
    <3> QED BY <2>2, <2>5, <3>2
  <2> QED BY <2>1, <2>3, <2>4, <2>5
<1> QED BY <1>1, <1>5, <1>6 DEF r

(***************************************************************************)
(* The scan.                                                               *)
(***************************************************************************)
\* ubi_scan looks at one eraseblock after the other.
LEMMA ScannedStep ==
  /\ Scanned[0] = ScanInit
  /\ \A n \in 1 .. NumPebs : Scanned[n] = ProcessEb(Scanned[n - 1], n)
<1> DEFINE Is(g, m) == g = [n \in 0 .. m |-> IF n = 0 THEN ScanInit ELSE ProcessEb(g[n - 1], n)]
           S == {m \in Nat : \E g : Is(g, m)}
<1>0. NumPebs \in Nat
  BY UbiVolAssumption
<1>1. 0 \in S
  <2> DEFINE g == [n \in 0 .. 0 |-> ScanInit]
  <2>1. Is(g, 0)
    OBVIOUS
  <2>2. \E h : Is(h, 0)
    BY <2>1
  <2> QED BY <2>2
<1>2. ASSUME NEW k \in 1 .. NumPebs, k - 1 \in S PROVE k \in S
  <2>0. k \in Nat /\ k - 1 \in Nat /\ k # 0
    BY <1>0
  <2>1. PICK g : Is(g, k - 1)
    BY <1>2
  <2> DEFINE h == [n \in 0 .. k |-> IF n = k THEN ProcessEb(g[k - 1], n) ELSE g[n]]
  <2>2. \A n \in 0 .. k : n \in 0 .. k - 1 \/ n = k
    BY <2>0
  <2>3. ASSUME NEW n \in 0 .. k
        PROVE  h[n] = IF n = 0 THEN ScanInit ELSE ProcessEb(h[n - 1], n)
    <3>1. CASE n = k
      <4>1. k - 1 \in 0 .. k /\ k - 1 # k
        BY <2>0
      <4>2. h[n - 1] = g[k - 1] /\ h[n] = ProcessEb(g[k - 1], n)
        BY <3>1, <4>1
      <4> QED BY <2>0, <3>1, <4>2
    <3>2. CASE n \in 0 .. k - 1 /\ n # 0
      <4>1. n - 1 \in 0 .. k /\ n - 1 # k /\ n # k
        BY <2>0, <3>2
      <4>2. h[n] = g[n] /\ h[n - 1] = g[n - 1]
        BY <4>1
      <4>3. g[n] = ProcessEb(g[n - 1], n)
        BY <2>1, <3>2
      <4> QED BY <3>2, <4>2, <4>3
    <3>3. CASE n = 0
      <4>1. h[n] = g[n] /\ 0 \in 0 .. k - 1
        BY <2>0, <3>3
      <4>2. g[0] = ScanInit
        BY <2>1, <4>1
      <4> QED BY <3>3, <4>1, <4>2
    <3> QED BY <2>2, <3>1, <3>2, <3>3
  <2>4. h = [n \in 0 .. k |-> h[n]]
    OBVIOUS
  <2> HIDE DEF h
  <2>5. h = [n \in 0 .. k |-> IF n = 0 THEN ScanInit ELSE ProcessEb(h[n - 1], n)]
    BY <2>3, <2>4
  <2>6. \E e : Is(e, k)
    BY <2>5
  <2> QED BY <2>0, <2>6
<1> HIDE DEF S
<1>3. NumPebs \in S
  <2>1. \A i \in 0 .. NumPebs : i \in S
    BY <1>0, <1>1, <1>2, UpTo
  <2> QED BY <1>0, <2>1
<1>4. \E g : g = [n \in 0 .. NumPebs |-> IF n = 0 THEN ScanInit ELSE ProcessEb(g[n - 1], n)]
  BY <1>3 DEF S
<1>5. Scanned = [n \in 0 .. NumPebs |-> IF n = 0 THEN ScanInit ELSE ProcessEb(Scanned[n - 1], n)]
  BY <1>4 DEF Scanned
<1>6. 0 \in 0 .. NumPebs /\ \A n \in 1 .. NumPebs : n \in 0 .. NumPebs /\ n # 0
  BY <1>0
<1>7. Scanned[0] = ScanInit
  BY <1>5, <1>6
<1>8. ASSUME NEW n \in 1 .. NumPebs PROVE Scanned[n] = ProcessEb(Scanned[n - 1], n)
  BY <1>5, <1>6
<1> QED BY <1>7, <1>8

(***************************************************************************)
(* Programs.                                                               *)
(***************************************************************************)
\* A program that does not begin within a change of the table.
Whole(s) == s \in Seq(Steps) /\ Stages(s) /\ (s # <<>> => Stage(s[1]) \in {0, 1})

LEMMA WholeConcat == ASSUME NEW s, NEW t, Whole(s), Whole(t) PROVE Whole(s \o t)
<1> DEFINE r == s \o t
           m == Len(s)
           n == Len(t)
<1>1. /\ m \in Nat /\ n \in Nat /\ r \in Seq(Steps) /\ Len(r) = m + n
      /\ \A i \in 1 .. m : r[i] = s[i]
      /\ s \in Seq(Steps) /\ t \in Seq(Steps) /\ Stages(s) /\ Stages(t)
  BY DEF Whole
<1>2. ASSUME NEW j \in 1 .. n PROVE r[m + j] = t[j]
  <2>1. m + j \in m + 1 .. m + n /\ (m + j) - m = j
    BY <1>1
  <2> QED BY <1>1, <2>1
<1>3. (m > 0 => Stage(s[1]) \in {0, 1}) /\ (n > 0 => Stage(t[1]) \in {0, 1})
  BY DEF Whole
<1> HIDE DEF r, m, n
<1>4. ASSUME NEW i \in 1 .. m
      PROVE  /\ Stage(r[i]) \in 1 .. 4 => i < m + n /\ Stage(r[i + 1]) = Stage(r[i]) + 1
             /\ i > 1 /\ Stage(r[i]) \in 2 .. 5 => Stage(r[i - 1]) = Stage(r[i]) - 1
             /\ Stage(r[i]) = 1 => r[i + 2].d = Table(r[i].t)
             /\ Stage(r[i]) = 3 => r[i + 2].d = r[i].d
             /\ Stage(r[i]) \in {3, 5} => r[i].d \in [d : {"table"}, t : Tables]
  <2>1. /\ Stage(s[i]) \in 1 .. 4 => i < m /\ Stage(s[i + 1]) = Stage(s[i]) + 1
        /\ i > 1 /\ Stage(s[i]) \in 2 .. 5 => Stage(s[i - 1]) = Stage(s[i]) - 1
        /\ Stage(s[i]) = 1 => s[i + 2].d = Table(s[i].t)
        /\ Stage(s[i]) = 3 => s[i + 2].d = s[i].d
        /\ Stage(s[i]) \in {3, 5} => s[i].d \in [d : {"table"}, t : Tables]
    BY <1>1 DEF Stages, m
  <2>2. r[i] = s[i] /\ (i > 1 => r[i - 1] = s[i - 1]) /\ (i < m => r[i + 1] = s[i + 1])
    BY <1>1
  <2>3. Stage(s[i]) \in {1, 3} => i < m - 1
    <3> SUFFICES ASSUME Stage(s[i]) \in {1, 3} PROVE i < m - 1
      OBVIOUS
    <3>1. i < m /\ Stage(s[i + 1]) \in 1 .. 4 /\ i + 1 \in 1 .. m
      BY <1>1, <2>1
    <3>2. i + 1 < m
      BY <1>1, <3>1 DEF Stages, m
    <3> QED BY <1>1, <3>2
  <2>4. i < m - 1 => r[i + 2] = s[i + 2]
    BY <1>1
  <2> QED BY <1>1, <2>1, <2>2, <2>3, <2>4
<1>5. ASSUME NEW j \in 1 .. n
      PROVE  /\ Stage(r[m + j]) \in 1 .. 4 => m + j < m + n /\ Stage(r[(m + j) + 1]) = Stage(r[m + j]) + 1
             /\ m + j > 1 /\ Stage(r[m + j]) \in 2 .. 5 => Stage(r[(m + j) - 1]) = Stage(r[m + j]) - 1
             /\ Stage(r[m + j]) = 1 => r[(m + j) + 2].d = Table(r[m + j].t)
             /\ Stage(r[m + j]) = 3 => r[(m + j) + 2].d = r[m + j].d
             /\ Stage(r[m + j]) \in {3, 5} => r[m + j].d \in [d : {"table"}, t : Tables]
  <2>1. /\ Stage(t[j]) \in 1 .. 4 => j < n /\ Stage(t[j + 1]) = Stage(t[j]) + 1
        /\ j > 1 /\ Stage(t[j]) \in 2 .. 5 => Stage(t[j - 1]) = Stage(t[j]) - 1
        /\ Stage(t[j]) = 1 => t[j + 2].d = Table(t[j].t)
        /\ Stage(t[j]) = 3 => t[j + 2].d = t[j].d
        /\ Stage(t[j]) \in {3, 5} => t[j].d \in [d : {"table"}, t : Tables]
    BY <1>1 DEF Stages, n
  <2>2. r[m + j] = t[j] /\ (j > 1 => r[(m + j) - 1] = t[j - 1]) /\ (j < n => r[(m + j) + 1] = t[j + 1])
    <3>1. r[m + j] = t[j]
      BY <1>2
    <3>2. j > 1 => j - 1 \in 1 .. n /\ m + (j - 1) = (m + j) - 1
      BY <1>1
    <3>3. j < n => j + 1 \in 1 .. n /\ m + (j + 1) = (m + j) + 1
      BY <1>1
    <3> QED BY <1>2, <3>1, <3>2, <3>3
  <2>3. Stage(t[j]) \in {1, 3} => j < n - 1
    <3> SUFFICES ASSUME Stage(t[j]) \in {1, 3} PROVE j < n - 1
      OBVIOUS
    <3>1. j < n /\ Stage(t[j + 1]) \in 1 .. 4 /\ j + 1 \in 1 .. n
      BY <1>1, <2>1
    <3>2. j + 1 < n
      BY <1>1, <3>1 DEF Stages, n
    <3> QED BY <1>1, <3>2
  <2>4. j < n - 1 => r[(m + j) + 2] = t[j + 2]
    <3>1. j < n - 1 => j + 2 \in 1 .. n /\ m + (j + 2) = (m + j) + 2
      BY <1>1
    <3> QED BY <1>2, <3>1
  <2>5. Stage(t[j]) \in 2 .. 5 => j > 1
    BY <1>1, <1>3
  <2> QED BY <1>1, <2>1, <2>2, <2>3, <2>4, <2>5
<1>6. \A i \in 1 .. m + n : i \in 1 .. m \/ \E j \in 1 .. n : i = m + j
  <2> SUFFICES ASSUME NEW i \in 1 .. m + n, i \notin 1 .. m PROVE \E j \in 1 .. n : i = m + j
    OBVIOUS
  <2>1. i - m \in 1 .. n /\ i = m + (i - m)
    BY <1>1
  <2> QED BY <2>1
<1>7. Stages(r)
  <2> SUFFICES ASSUME NEW i \in 1 .. m + n
               PROVE  /\ Stage(r[i]) \in 1 .. 4 => i < m + n /\ Stage(r[i + 1]) = Stage(r[i]) + 1
                      /\ i > 1 /\ Stage(r[i]) \in 2 .. 5 => Stage(r[i - 1]) = Stage(r[i]) - 1
                      /\ Stage(r[i]) = 1 => r[i + 2].d = Table(r[i].t)
                      /\ Stage(r[i]) = 3 => r[i + 2].d = r[i].d
                      /\ Stage(r[i]) \in {3, 5} => r[i].d \in [d : {"table"}, t : Tables]
    BY <1>1 DEF Stages
  <2>1. CASE i \in 1 .. m
    BY <1>4, <2>1
  <2>2. CASE i \notin 1 .. m
    <3>1. PICK j \in 1 .. n : i = m + j
      BY <1>6, <2>2
    <3> QED BY <1>5, <3>1
  <2> QED BY <2>1, <2>2
<1>8. r # <<>> => Stage(r[1]) \in {0, 1}
  <2>1. CASE m > 0
    BY <1>1, <1>3, <2>1
  <2>2. CASE m = 0 /\ n > 0
    <3>1. 1 \in 1 .. n /\ m + 1 = 1
      BY <1>1, <2>2
    <3> QED BY <1>2, <1>3, <2>2, <3>1
  <2>3. CASE m = 0 /\ n = 0
    BY <1>1, <2>3
  <2> QED BY <1>1, <2>1, <2>2, <2>3
<1> QED BY <1>1, <1>7, <1>8 DEF Whole, r

\* A program without a change of the table.
LEMMA WholePlain ==
  ASSUME NEW s \in Seq(Steps), \A i \in 1 .. Len(s) : Stage(s[i]) = 0
  PROVE  Whole(s)
<1>1. Stages(s)
  BY DEF Stages
<1>2. s # <<>> => 1 \in 1 .. Len(s)
  OBVIOUS
<1> QED BY <1>1, <1>2 DEF Whole

LEMMA WholeChange == ASSUME NEW t \in Tables PROVE Whole(Change(t))
<1> DEFINE a == [o |-> "vtbl", t |-> t]
           b == Un(Layout, 0)
           c == Wr(Layout, 0, 0, Table(t))
           e == Un(Layout, 1)
           f == Wr(Layout, 1, 0, Table(t))
           r == <<a, b, c, e, f>>
<1>0. 0 \in Lnums /\ 1 \in Lnums /\ Layout \in 0 .. Slots /\ Layout = 0
  BY UbiVolAssumption DEF Lnums, Layout
<1>1. Change(t) = r
  BY DEF Change, SetTable
<1>2. Stage(a) = 1 /\ Stage(b) = 2 /\ Stage(c) = 3 /\ Stage(e) = 4 /\ Stage(f) = 5
  BY DEF Stage, Un, Wr
<1>3. Table(t) \in [d : {"table"}, t : Tables]
  BY DEF Table
<1>4. a \in Steps /\ b \in Steps /\ c \in Steps /\ e \in Steps /\ f \in Steps
  BY <1>0, <1>3 DEF Steps, Un, Wr, Contents
<1>5. c.d = Table(t) /\ f.d = Table(t) /\ a.t = t
  BY DEF Wr
<1> HIDE DEF a, b, c, e, f
<1>6. r \in Seq(Steps)
  BY <1>4
<1>7. Len(r) = 5 /\ r[1] = a /\ r[2] = b /\ r[3] = c /\ r[4] = e /\ r[5] = f
  OBVIOUS
<1>8. \A i \in 1 .. 5 : i = 1 \/ i = 2 \/ i = 3 \/ i = 4 \/ i = 5
  OBVIOUS
<1> HIDE DEF r
<1>9. Stages(r)
  <2> SUFFICES ASSUME NEW i \in 1 .. 5
               PROVE  /\ Stage(r[i]) \in 1 .. 4 => i < 5 /\ Stage(r[i + 1]) = Stage(r[i]) + 1
                      /\ i > 1 /\ Stage(r[i]) \in 2 .. 5 => Stage(r[i - 1]) = Stage(r[i]) - 1
                      /\ Stage(r[i]) = 1 => r[i + 2].d = Table(r[i].t)
                      /\ Stage(r[i]) = 3 => r[i + 2].d = r[i].d
                      /\ Stage(r[i]) \in {3, 5} => r[i].d \in [d : {"table"}, t : Tables]
    BY <1>7 DEF Stages
  <2>1. CASE i = 1
    BY <1>2, <1>5, <1>7, <2>1
  <2>2. CASE i = 2
    BY <1>2, <1>7, <2>2
  <2>3. CASE i = 3
    BY <1>2, <1>3, <1>5, <1>7, <2>3
  <2>4. CASE i = 4
    BY <1>2, <1>7, <2>4
  <2>5. CASE i = 5
    BY <1>2, <1>3, <1>5, <1>7, <2>5
  <2> QED BY <1>8, <2>1, <2>2, <2>3, <2>4, <2>5
<1> QED BY <1>1, <1>2, <1>6, <1>7, <1>9 DEF Whole, r

LEMMA WholeParts ==
  /\ Whole(<<>>) /\ Whole(FlushAll)
  /\ \A s \in Vols, vol \in VolState : Whole(SetVol(s, vol))
  /\ \A n \in Sizes : Whole(GiveBack(n))
<1>1. Whole(<<>>)
  <2>1. <<>> \in Seq(Steps) /\ \A i \in 1 .. Len(<<>>) : FALSE
    OBVIOUS
  <2> QED BY <2>1, WholePlain
<1>2. ASSUME NEW h \in Steps, Stage(h) = 0 PROVE Whole(<<h>>)
  <2>1. <<h>> \in Seq(Steps) /\ Len(<<h>>) = 1 /\ <<h>>[1] = h
    OBVIOUS
  <2>2. \A i \in 1 .. 1 : i = 1
    OBVIOUS
  <2> QED BY <1>2, <2>1, <2>2, WholePlain
<1>3. Whole(FlushAll)
  <2>1. [o |-> "flush"] \in Steps /\ Stage([o |-> "flush"]) = 0
    BY DEF Steps, Stage
  <2> QED BY <1>2, <2>1 DEF FlushAll
<1>4. ASSUME NEW s \in Vols, NEW vol \in VolState PROVE Whole(SetVol(s, vol))
  <2> DEFINE h == [o |-> "vol", s |-> s, vol |-> vol]
  <2>1. h \in Steps /\ Stage(h) = 0
    BY DEF Steps, Stage
  <2> HIDE DEF h
  <2>2. Whole(<<h>>)
    BY <1>2, <2>1
  <2> QED BY <2>2 DEF SetVol, h
<1>5. ASSUME NEW n \in Sizes PROVE Whole(GiveBack(n))
  <2> DEFINE h == [o |-> "back", n |-> n]
  <2>1. h \in Steps /\ Stage(h) = 0
    BY DEF Steps, Stage
  <2> HIDE DEF h
  <2>2. Whole(<<h>>)
    BY <1>2, <2>1
  <2> QED BY <2>2 DEF GiveBack, h
<1> QED BY <1>1, <1>3, <1>4, <1>5

Vtbls == vtbl \in Tables /\ vols \in [Vols -> VolState] /\ ops \in Nat

LEMMA WholeLebs ==
  ASSUME Vtbls, NEW s \in Vols, NEW n \in Sizes
  PROVE  Whole(Wipe(s)) /\ Whole(Fill(s, n))
<1>0. s \in 0 .. Slots /\ s # Layout /\ vols[s].size \in Sizes /\ MaxLebs \in Nat
  BY UbiVolAssumption DEF Vols, Layout, Vtbls, VolState
<1>1. \A k \in Sizes : \A i \in 1 .. k : i - 1 \in Lnums
  BY <1>0 DEF Sizes, Lnums
<1>2. Whole(Wipe(s))
  <2> DEFINE k == vols[s].size
             w == Wipe(s)
  <2>1. w = [i \in 1 .. k |-> Un(s, i - 1)] /\ k \in Nat
    BY <1>0 DEF Wipe, Sizes
  <2>2. \A i \in 1 .. k : w[i] \in Steps /\ Stage(w[i]) = 0
    <3> TAKE i \in 1 .. k
    <3>1. w[i] = Un(s, i - 1) /\ i - 1 \in Lnums
      BY <1>0, <1>1, <2>1
    <3> QED BY <1>0, <3>1 DEF Un, Steps, Stage
  <2> HIDE DEF w, k
  <2>3. w \in Seq(Steps) /\ Len(w) = k
    BY <2>1, <2>2
  <2>4. Whole(w)
    BY <2>2, <2>3, WholePlain
  <2> QED BY <2>4 DEF w
<1>3. Whole(Fill(s, n))
  <2> DEFINE w == Fill(s, n)
             u == UsedEbs(s, n)
             e == Data(ops + 1)
  <2>1. w = [i \in 1 .. n |-> Wr(s, i - 1, u, e)] /\ n \in Nat
    BY <1>0 DEF Fill, Sizes
  <2>2. u \in Nat /\ e \in Contents
    <3>1. ops + 1 \in Nat
      BY DEF Vtbls
    <3> QED BY <2>1, <3>1 DEF UsedEbs, Data, Contents
  <2> HIDE DEF u, e
  <2>3. \A i \in 1 .. n : w[i] \in Steps /\ Stage(w[i]) = 0
    <3> TAKE i \in 1 .. n
    <3>1. w[i] = Wr(s, i - 1, u, e) /\ i - 1 \in Lnums
      BY <1>0, <1>1, <2>1
    <3> QED BY <1>0, <2>2, <3>1 DEF Wr, Steps, Stage
  <2> HIDE DEF w
  <2>4. w \in Seq(Steps) /\ Len(w) = n
    BY <2>1, <2>3
  <2>5. Whole(w)
    BY <2>3, <2>4, WholePlain
  <2> QED BY <2>5 DEF w
<1> QED BY <1>2, <1>3

LEMMA SizesNat == Sizes \subseteq Nat /\ 0 \in Sizes
BY UbiVolAssumption DEF Sizes

\* A change of the record or of the marker of a volume.
LEMMA WholeChanges ==
  ASSUME Vtbls, NEW s \in Vols
  PROVE  /\ \A r \in [size : Sizes, type : Types, upd : BOOLEAN, auto : BOOLEAN] :
              Whole(Change([vtbl EXCEPT ![s] = r]))
         /\ \A b \in BOOLEAN : Whole(Change(Marked(s, b)))
<1>1. ASSUME NEW r \in [size : Sizes, type : Types, upd : BOOLEAN, auto : BOOLEAN]
      PROVE  [vtbl EXCEPT ![s] = r] \in Tables
  BY DEF Vtbls, Tables
<1>2. ASSUME NEW b \in BOOLEAN PROVE Marked(s, b) \in Tables
  <2>1. [vtbl[s] EXCEPT !.upd = b] \in [size : Sizes, type : Types, upd : BOOLEAN, auto : BOOLEAN]
    BY DEF Vtbls, Tables
  <2>2. Marked(s, b) = [vtbl EXCEPT ![s] = [vtbl[s] EXCEPT !.upd = b]]
    BY DEF Marked, Vtbls, Tables
  <2> QED BY <2>1, <2>2 DEF Vtbls, Tables
<1> QED BY <1>1, <1>2, WholeChange

LEMMA WholeFinish == ASSUME Vtbls, NEW s \in Vols, NEW n \in Sizes PROVE Whole(Finish(s, n))
<1> DEFINE vol == [vols[s] EXCEPT !.upd = FALSE, !.updating = TRUE,
                                  !.corrupted = @ /\ vols[s].type = "dynamic",
                                  !.used = IF vols[s].type = "static" THEN n ELSE @]
<1>1. vol \in VolState
  BY SizesNat DEF Vtbls, VolState
<1> HIDE DEF vol
<1>2. Whole(Change(Marked(s, FALSE)))
  BY WholeChanges
<1>3. Whole(Change(Marked(s, FALSE)) \o SetVol(s, vol))
  BY <1>1, <1>2, WholeParts, WholeConcat
<1>4. Whole((Change(Marked(s, FALSE)) \o SetVol(s, vol)) \o FlushAll)
  BY <1>3, WholeParts, WholeConcat
<1> QED BY <1>4 DEF Finish, vol

LEMMA WholeUpdate == ASSUME Vtbls, NEW s \in Vols, NEW n \in Sizes PROVE Whole(Update(s, n))
<1> DEFINE vol == [vols[s] EXCEPT !.upd = FALSE, !.updating = FALSE,
                                  !.corrupted = @ /\ vols[s].type = "dynamic",
                                  !.used = IF vols[s].type = "static" THEN n ELSE @]
           mark == [vols[s] EXCEPT !.upd = TRUE, !.updating = TRUE]
           p1 == IF vols[s].upd THEN <<>> ELSE Change(Marked(s, TRUE)) \o SetVol(s, mark)
           p2 == IF n = 0 THEN Finish(s, 0) ELSE <<>>
<1>1. vol \in VolState /\ mark \in VolState
  BY SizesNat DEF Vtbls, VolState
<1>2. Update(s, n) = ((((p1 \o Wipe(s)) \o p2) \o Fill(s, n)) \o Finish(s, n)) \o SetVol(s, vol)
  BY DEF Update
<1> HIDE DEF vol, mark
<1>3. Whole(p1)
  <2>1. Whole(Change(Marked(s, TRUE)))
    BY WholeChanges
  <2>2. Whole(Change(Marked(s, TRUE)) \o SetVol(s, mark))
    BY <1>1, <2>1, WholeParts, WholeConcat
  <2> QED BY <2>2, WholeParts
<1>4. Whole(p2)
  <2>1. 0 \in Sizes
    BY UbiVolAssumption DEF Sizes
  <2> QED BY <2>1, WholeFinish, WholeParts
<1> HIDE DEF p1, p2
<1>5. Whole((p1 \o Wipe(s)) \o p2)
  <2>1. Whole(p1 \o Wipe(s))
    BY <1>3, WholeLebs, WholeConcat
  <2> QED BY <1>4, <2>1, WholeConcat
<1>6. Whole((((p1 \o Wipe(s)) \o p2) \o Fill(s, n)) \o Finish(s, n))
  <2>1. Whole(((p1 \o Wipe(s)) \o p2) \o Fill(s, n))
    BY <1>5, WholeLebs, WholeConcat
  <2> QED BY <2>1, WholeFinish, WholeConcat
<1> QED BY <1>1, <1>2, <1>6, WholeParts, WholeConcat

LEMMA WholeMake ==
  ASSUME Vtbls, NEW s \in Vols, NEW n \in Sizes, NEW type \in {"static", "dynamic"}
  PROVE  Whole(Make(s, n, type))
<1> DEFINE vol == [NoVol EXCEPT !.size = n, !.type = type, !.used = IF type = "dynamic" THEN n ELSE 0]
           t == [vtbl EXCEPT ![s] = Rec(n, type, FALSE)]
<1>1. vol \in VolState
  BY SizesNat DEF NoVol, VolState, Types
<1>2. Rec(n, type, FALSE) \in [size : Sizes, type : Types, upd : BOOLEAN, auto : BOOLEAN]
  BY DEF Rec, Types
<1> HIDE DEF vol
<1>3. Whole(Change(t))
  BY <1>2, WholeChanges
<1> HIDE DEF t
<1>4. Whole(FlushAll \o Change(t))
  BY <1>3, WholeParts, WholeConcat
<1>5. Whole((FlushAll \o Change(t)) \o SetVol(s, vol))
  BY <1>1, <1>4, WholeParts, WholeConcat
<1> QED BY <1>5 DEF Make, vol, t

LEMMA WholeUnmake == ASSUME Vtbls, NEW s \in Vols PROVE Whole(Unmake(s))
<1> DEFINE t == [vtbl EXCEPT ![s] = NoRec]
<1>0. vols[s].size \in Sizes /\ 0 \in Sizes
  BY UbiVolAssumption DEF Vtbls, VolState, Sizes
<1>1. NoVol \in VolState
  BY <1>0 DEF NoVol, VolState, Types
<1>2. NoRec \in [size : Sizes, type : Types, upd : BOOLEAN, auto : BOOLEAN]
  BY <1>0 DEF NoRec, Rec, Types
<1>3. Whole(Change(t))
  BY <1>0, <1>2, WholeChanges
<1> HIDE DEF t
<1>4. Whole(Change(t) \o Wipe(s))
  BY <1>0, <1>3, WholeLebs, WholeConcat
<1>5. Whole((Change(t) \o Wipe(s)) \o SetVol(s, NoVol))
  BY <1>1, <1>4, WholeParts, WholeConcat
<1>6. Whole(((Change(t) \o Wipe(s)) \o SetVol(s, NoVol)) \o GiveBack(vols[s].size))
  BY <1>0, <1>5, WholeParts, WholeConcat
<1> QED BY <1>6 DEF Unmake, t

LEMMA WholeGrow ==
  ASSUME NEW t \in Tables, NEW s \in Vols, NEW vol \in VolState, NEW n \in Sizes
  PROVE  Whole(Grow(t, s, vol, n))
<1> DEFINE more == [vol EXCEPT !.size = n, !.used = IF vol.type = "dynamic" THEN n ELSE @]
           u == [t EXCEPT ![s].size = n, ![s].auto = FALSE]
<1>1. more \in VolState
  BY SizesNat DEF VolState
<1>2. u \in Tables
  BY DEF Tables
<1>3. Grow(t, s, vol, n) = Change(u) \o SetVol(s, more)
  BY DEF Grow
<1> HIDE DEF more, u
<1> QED BY <1>1, <1>2, <1>3, WholeChange, WholeParts, WholeConcat

(***************************************************************************)
(* The step at the head of the program.                                    *)
(***************************************************************************)
LEMMA StageIs ==
  ASSUME NEW h \in Steps
  PROVE  /\ Stage(h) \in 0 .. 5
         /\ Stage(h) = 1 <=> h.o = "vtbl"
         /\ Stage(h) = 2 <=> h.o = "unmap" /\ h.v = Layout /\ h.l = 0
         /\ Stage(h) = 3 <=> h.o = "write" /\ h.v = Layout /\ h.l = 0
         /\ Stage(h) = 4 <=> h.o = "unmap" /\ h.v = Layout /\ h.l = 1
         /\ Stage(h) = 5 <=> h.o = "write" /\ h.v = Layout /\ h.l = 1
BY DEF Stage

LEMMA StagesTail ==
  ASSUME NEW s \in Seq(Steps), Stages(s), s # <<>>
  PROVE  /\ Tail(s) \in Seq(Steps) /\ Stages(Tail(s)) /\ Head(s) \in Steps /\ Head(s) = s[1]
         /\ Stage(s[1]) \in 1 .. 4 => Tail(s) # <<>> /\ Stage(Tail(s)[1]) = Stage(s[1]) + 1
         /\ Stage(s[1]) \notin 1 .. 4 /\ Tail(s) # <<>> => Stage(Tail(s)[1]) \in {0, 1}
         /\ Tail(s) # <<>> => Tail(s)[1] = s[2]
         /\ Stage(s[1]) = 1 => Tail(s)[2].d = Table(s[1].t)
         /\ Stage(s[1]) = 3 => Tail(s)[2].d = s[1].d
         /\ Stage(s[1]) \in {3, 5} => s[1].d \in [d : {"table"}, t : Tables]
<1> DEFINE t == Tail(s)
           m == Len(s) - 1
<1>1. /\ m \in Nat /\ Len(s) = m + 1 /\ t \in Seq(Steps) /\ Len(t) = m /\ Head(s) = s[1]
      /\ s[1] \in Steps /\ \A i \in 1 .. m : t[i] = s[i + 1] /\ s[i + 1] \in Steps
      /\ (t # <<>> <=> m > 0)
  <2>1. m \in Nat /\ Len(s) = m + 1 /\ s \in [1 .. m + 1 -> Steps]
    OBVIOUS
  <2>2. t \in Seq(Steps) /\ Len(t) = m /\ Head(s) = s[1] /\ \A i \in 1 .. m : t[i] = s[i + 1]
    OBVIOUS
  <2> HIDE DEF t, m
  <2>3. 1 \in 1 .. m + 1 /\ \A i \in 1 .. m : i + 1 \in 1 .. m + 1
    BY <2>1
  <2>4. t # <<>> <=> m > 0
    BY <2>1, <2>2
  <2> QED BY <2>1, <2>2, <2>3, <2>4
<1> HIDE DEF t, m
<1>2. ASSUME NEW i \in 1 .. m + 1
      PROVE  /\ Stage(s[i]) \in 1 .. 4 => i < m + 1 /\ Stage(s[i + 1]) = Stage(s[i]) + 1
             /\ i > 1 /\ Stage(s[i]) \in 2 .. 5 => Stage(s[i - 1]) = Stage(s[i]) - 1
             /\ Stage(s[i]) = 1 => s[i + 2].d = Table(s[i].t)
             /\ Stage(s[i]) = 3 => s[i + 2].d = s[i].d
             /\ Stage(s[i]) \in {3, 5} => s[i].d \in [d : {"table"}, t : Tables]
  BY <1>1 DEF Stages
<1>3. ASSUME NEW i \in 1 .. m + 1, Stage(s[i]) \in {1, 3} PROVE i < m
  <2>1. i < m + 1 /\ Stage(s[i + 1]) \in 1 .. 4 /\ i + 1 \in 1 .. m + 1
    BY <1>1, <1>2, <1>3
  <2>2. i + 1 < m + 1
    BY <1>2, <2>1
  <2> QED BY <1>1, <2>2
<1>4. ASSUME NEW i \in 1 .. m
      PROVE  /\ Stage(t[i]) \in 1 .. 4 => i < m /\ Stage(t[i + 1]) = Stage(t[i]) + 1
             /\ i > 1 /\ Stage(t[i]) \in 2 .. 5 => Stage(t[i - 1]) = Stage(t[i]) - 1
             /\ Stage(t[i]) = 1 => t[i + 2].d = Table(t[i].t)
             /\ Stage(t[i]) = 3 => t[i + 2].d = t[i].d
             /\ Stage(t[i]) \in {3, 5} => t[i].d \in [d : {"table"}, t : Tables]
  <2> DEFINE k == i + 1
  <2>1. k \in 1 .. m + 1 /\ k > 1 /\ k - 1 = i /\ t[i] = s[k]
    BY <1>1
  <2>2. (i > 1 => t[i - 1] = s[k - 1]) /\ (i < m => t[i + 1] = s[k + 1]) /\ (i + 1 < m => t[i + 2] = s[k + 2])
    <3>1. i > 1 => i - 1 \in 1 .. m /\ (i - 1) + 1 = k - 1
      BY <1>1
    <3>2. i < m => i + 1 \in 1 .. m
      BY <1>1
    <3>3. i + 1 < m => i + 2 \in 1 .. m /\ (i + 2) + 1 = k + 2
      BY <1>1
    <3> QED BY <1>1, <3>1, <3>2, <3>3
  <2>3. Stage(s[k]) \in {1, 3} => i + 1 < m
    BY <1>3, <2>1
  <2>4. k < m + 1 <=> i < m
    BY <1>1
  <2> HIDE DEF k
  <2> QED BY <1>1, <1>2, <2>1, <2>2, <2>3, <2>4
<1>5. Stages(t)
  BY <1>1, <1>4 DEF Stages
<1>6. 1 \in 1 .. m + 1
  BY <1>1
<1>7. Stage(s[1]) \in 1 .. 4 => t # <<>> /\ Stage(t[1]) = Stage(s[1]) + 1
  <2> SUFFICES ASSUME Stage(s[1]) \in 1 .. 4 PROVE t # <<>> /\ Stage(t[1]) = Stage(s[1]) + 1
    OBVIOUS
  <2>1. 1 < m + 1 /\ Stage(s[1 + 1]) = Stage(s[1]) + 1
    BY <1>2, <1>6
  <2>2. m > 0 /\ t[1] = s[1 + 1]
    BY <1>1, <2>1
  <2> QED BY <1>1, <2>1, <2>2
<1>8. ASSUME m > 0 PROVE t[1] = s[2] /\ (Stage(s[1]) \notin 1 .. 4 => Stage(t[1]) \in {0, 1})
  <2>1. 2 \in 1 .. m + 1 /\ 1 \in 1 .. m
    BY <1>1, <1>8
  <2>2. t[1] = s[1 + 1] /\ s[1 + 1] \in Steps
    BY <1>1, <2>1
  <2>3. Stage(s[2]) \in 2 .. 5 => Stage(s[2 - 1]) = Stage(s[2]) - 1
    BY <1>2, <2>1
  <2>4. Stage(s[2]) \in 0 .. 5
    BY <2>2, StageIs
  <2> QED BY <2>2, <2>3, <2>4
<1>9. ASSUME Stage(s[1]) \in {1, 3} PROVE t[2] = s[3]
  <2>1. 1 < m
    BY <1>3, <1>6, <1>9
  <2>2. 2 \in 1 .. m
    BY <1>1, <2>1
  <2>3. t[2] = s[2 + 1]
    BY <1>1, <2>2
  <2> QED BY <2>3
<1>10. /\ Stage(s[1]) = 1 => s[1 + 2].d = Table(s[1].t)
       /\ Stage(s[1]) = 3 => s[1 + 2].d = s[1].d
       /\ Stage(s[1]) \in {3, 5} => s[1].d \in [d : {"table"}, t : Tables]
  BY <1>2, <1>6
<1>11. /\ Stage(s[1]) = 1 => t[2].d = Table(s[1].t)
       /\ Stage(s[1]) = 3 => t[2].d = s[1].d
  BY <1>9, <1>10
<1>12. t # <<>> => t[1] = s[2] /\ (Stage(s[1]) \notin 1 .. 4 => Stage(t[1]) \in {0, 1})
  BY <1>1, <1>8
<1>13. t \in Seq(Steps) /\ Head(s) \in Steps /\ Head(s) = s[1]
  BY <1>1
<1> HIDE DEF Stage
<1> QED BY <1>5, <1>7, <1>10, <1>11, <1>12, <1>13 DEF t

(***************************************************************************)
(* The copies of a LEB.                                                    *)
(***************************************************************************)
LEMMA Contradistinct == /\ Hole # Torn /\ \A t : Table(t) # Hole /\ Table(t) # Torn /\ Table(t).t = t
                        /\ \A t, u : Table(t) = Table(u) => t = u
<1>1. Hole.d = "hole" /\ Torn.d = "torn" /\ \A t : Table(t).d = "table" /\ Table(t).t = t
  BY DEF Hole, Torn, Table
<1>2. \A t : Table(t) # Hole /\ Table(t) # Torn
  <2> TAKE t
  <2>1. Table(t).d # Hole.d /\ Table(t).d # Torn.d
    BY <1>1
  <2> QED BY <2>1
<1>3. \A t, u : Table(t) = Table(u) => t = u
  <2> TAKE t, u
  <2>1. Table(t).t = t /\ Table(u).t = u
    BY <1>1
  <2> QED BY <2>1
<1>4. Hole # Torn
  <2>1. Hole.d # Torn.d
    BY <1>1
  <2> QED BY <2>1
<1> QED BY <1>1, <1>2, <1>3, <1>4

LEMMA LebFacts ==
  ASSUME FlashOk, NEW p \in Pebs, IsLeb(p)
  PROVE  /\ peb[p].v \in 0 .. Slots /\ peb[p].l \in Lnums /\ peb[p].sq \in Nat
         /\ peb[p].used \in Nat /\ peb[p].d \in Contents
BY DEF FlashOk, PebState, IsLeb, Blank, Free, Corrupt

LEMMA Greatest ==
  ASSUME NEW T, T \subseteq Nat, T # {}, NEW N \in Nat, \A k \in T : k <= N
  PROVE  \E k \in T : \A j \in T : j <= k
<1> DEFINE U == {N - k : k \in T}
<1>1. U \subseteq Nat /\ U # {}
  <2>1. \A k \in T : N - k \in Nat
    OBVIOUS
  <2> QED BY <2>1
<1>2. PICK m \in U : \A y \in U : m <= y
  BY <1>1, Least
<1>3. PICK k \in T : m = N - k
  OBVIOUS
<1>4. \A j \in T : j <= k
  <2> TAKE j \in T
  <2>1. N - k <= N - j
    BY <1>2, <1>3
  <2>2. k \in Nat /\ j \in Nat
    OBVIOUS
  <2> QED BY <2>1, <2>2
<1> QED BY <1>4

\* There are finitely many sequence numbers on flash.
LEMMA Bounded == ASSUME FlashOk PROVE \E N \in Nat : \A p \in Pebs : IsLeb(p) => peb[p].sq <= N
<1> DEFINE S == {n \in 0 .. NumPebs : \E N \in Nat : \A p \in 1 .. n : IsLeb(p) => peb[p].sq <= N}
<1>0. NumPebs \in Nat /\ 0 \in 0 .. NumPebs
  BY UbiVolAssumption
<1>1. 0 \in S
  <2>1. \A p \in 1 .. 0 : FALSE
    OBVIOUS
  <2>2. \E N \in Nat : \A p \in 1 .. 0 : IsLeb(p) => peb[p].sq <= N
    BY <2>1
  <2> QED BY <1>0, <2>2
<1>2. ASSUME NEW n \in 1 .. NumPebs, n - 1 \in S PROVE n \in S
  <2>1. PICK N \in Nat : \A p \in 1 .. n - 1 : IsLeb(p) => peb[p].sq <= N
    BY <1>2
  <2>2. n \in Pebs /\ n \in 0 .. NumPebs /\ \A p \in 1 .. n : p \in 1 .. n - 1 \/ p = n
    BY <1>0 DEF Pebs
  <2>3. \A p \in 1 .. n : p \in Pebs
    BY <1>0 DEF Pebs
  <2>4. \E M \in Nat : \A p \in 1 .. n : IsLeb(p) => peb[p].sq <= M
    <3>1. CASE ~IsLeb(n) \/ peb[n].sq <= N
      BY <2>1, <2>2, <3>1
    <3>2. CASE IsLeb(n) /\ ~(peb[n].sq <= N)
      <4>1. peb[n].sq \in Nat /\ peb[n].sq > N
        BY <2>2, <3>2, LebFacts
      <4>2. \A p \in 1 .. n : IsLeb(p) => peb[p].sq \in Nat
        BY <2>3, LebFacts
      <4>3. \A p \in 1 .. n : IsLeb(p) => peb[p].sq <= peb[n].sq
        BY <2>1, <2>2, <4>1, <4>2
      <4> QED BY <4>1, <4>3
    <3> QED BY <3>1, <3>2
  <2> QED BY <2>2, <2>4
<1> HIDE DEF S
<1>3. NumPebs \in S
  <2>1. \A i \in 0 .. NumPebs : i \in S
    BY <1>0, <1>1, <1>2, UpTo
  <2> QED BY <1>0, <2>1
<1> QED BY <1>3 DEF S, Pebs

Newer(v, l, p) == IsCopy(p, v, l) /\ \A q \in Pebs : IsCopy(q, v, l) => peb[q].sq <= peb[p].sq

LEMMA FoundIs ==
  ASSUME FlashOk, NEW v, NEW l
  PROVE  /\ \A p \in Pebs : Newer(v, l, p) => Found(v, l) = peb[p].d
         /\ (\E p \in Pebs : IsCopy(p, v, l)) => \E p \in Pebs : Newer(v, l, p)
         /\ (\A p \in Pebs : ~IsCopy(p, v, l)) <=> Found(v, l) = Hole
<1>1. Copies(v, l) = {p \in Pebs : IsCopy(p, v, l)}
  BY DEF Copies, IsCopy, IsLeb
<1>2. ASSUME NEW p \in Pebs, Newer(v, l, p) PROVE Found(v, l) = peb[p].d
  <2>1. p \in Copies(v, l) /\ \A q \in Copies(v, l) : peb[q].sq <= peb[p].sq
    BY <1>1, <1>2 DEF Newer
  <2>2. Newest(v, l) \in Copies(v, l) /\ \A q \in Copies(v, l) : peb[q].sq <= peb[Newest(v, l)].sq
    BY <2>1 DEF Newest
  <2>3. Newest(v, l) = p
    <3> DEFINE q == Newest(v, l)
    <3>1. q \in Pebs /\ IsLeb(q) /\ IsLeb(p) /\ peb[q].sq <= peb[p].sq /\ peb[p].sq <= peb[q].sq
      BY <1>1, <1>2, <2>1, <2>2 DEF IsCopy, Newer
    <3> HIDE DEF q
    <3>2. peb[q].sq \in Nat /\ peb[p].sq \in Nat
      BY <3>1 DEF FlashOk, PebState, IsLeb, Blank, Free, Corrupt
    <3>3. peb[q].sq = peb[p].sq
      BY <3>1, <3>2
    <3>4. p = q
      BY <1>2, <3>1, <3>3 DEF FlashOk
    <3> QED BY <3>4 DEF q
  <2> QED BY <2>1, <2>3 DEF Found
<1>3. (\A p \in Pebs : ~IsCopy(p, v, l)) => Found(v, l) = Hole
  <2> SUFFICES ASSUME \A p \in Pebs : ~IsCopy(p, v, l) PROVE Found(v, l) = Hole
    OBVIOUS
  <2>1. Copies(v, l) = {}
    BY <1>1
  <2> QED BY <2>1 DEF Found
<1>4. ASSUME NEW p \in Pebs, IsCopy(p, v, l)
      PROVE  Found(v, l) # Hole /\ \E q \in Pebs : Newer(v, l, q)
  <2> DEFINE T == {peb[q].sq : q \in {x \in Pebs : IsCopy(x, v, l)}}
  <2>1. T \subseteq Nat /\ T # {} /\ \E N \in Nat : \A k \in T : k <= N
    BY <1>4, LebFacts, Bounded DEF IsCopy
  <2>2. PICK k \in T : \A j \in T : j <= k
    BY <2>1, Greatest
  <2>3. PICK q \in Pebs : IsCopy(q, v, l) /\ peb[q].sq = k
    OBVIOUS
  <2>4. Newer(v, l, q)
    BY <2>2, <2>3 DEF Newer
  <2>5. Found(v, l) = peb[q].d /\ peb[q].d \in Contents
    BY <1>2, <2>3, <2>4, LebFacts DEF IsCopy
  <2> QED BY <2>3, <2>4, <2>5 DEF Contents, Hole, Torn
<1> QED BY <1>2, <1>3, <1>4

(***************************************************************************)
(* What the scan builds.                                                   *)
(***************************************************************************)
ScanState == [leb : EbaState, used : [0 .. Slots -> Nat], seen : SUBSET (0 .. Slots),
              erase : Seq(Pebs), corr : Seq(Pebs), free : SUBSET Pebs, ok : BOOLEAN]

\* The lists and the table of the scan s, the first n eraseblocks being P.
ScanLists(s, P) ==
  /\ Once(s.erase) /\ Once(s.corr)
  /\ \A p \in s.free : p \in P /\ peb[p].st = "free"
  /\ \A p \in ToSet(s.corr) : p \in P /\ peb[p].st = "corrupt"
  /\ \A p \in ToSet(s.erase) : p \in P /\ (peb[p].st = "blank" \/ IsLeb(p))

ScanTable(s, P) ==
  /\ \A v \in 0 .. Slots, l \in Lnums : s.leb[v][l] # None =>
       /\ s.leb[v][l] \in P /\ IsCopy(s.leb[v][l], v, l)
       /\ \A q \in P : IsCopy(q, v, l) => peb[q].sq <= peb[s.leb[v][l]].sq
  /\ \A p \in P : IsLeb(p) => s.leb[peb[p].v][peb[p].l] = p \/ p \in ToSet(s.erase)
  /\ \A p \in ToSet(s.erase) : IsLeb(p) =>
       LET q == s.leb[peb[p].v][peb[p].l] IN q # None /\ peb[q].sq > peb[p].sq

ScanOk(s, n) == s \in ScanState /\ ScanLists(s, 1 .. n) /\ ScanTable(s, 1 .. n)

LEMMA ScanStart == ScanOk(ScanInit, 0)
<1>1. ScanInit \in ScanState
  <2>1. [v \in 0 .. Slots |-> [l \in Lnums |-> None]] \in EbaState
    BY DEF EbaState
  <2>2. [v \in 0 .. Slots |-> None] \in [0 .. Slots -> Nat]
    <3>1. None \in Nat
      BY DEF None
    <3> QED BY <3>1
  <2>3. <<>> \in Seq(Pebs)
    OBVIOUS
  <2> QED BY <2>1, <2>2, <2>3 DEF ScanInit, ScanState
<1>2. ToSet(<<>>) = {} /\ Once(<<>>) /\ \A p \in 1 .. 0 : FALSE
  BY DEF ToSet, Once
<1>3. /\ ScanInit.erase = <<>> /\ ScanInit.corr = <<>> /\ ScanInit.free = {}
      /\ \A v \in 0 .. Slots, l \in Lnums : ScanInit.leb[v][l] = None
  BY DEF ScanInit
<1> QED BY <1>1, <1>2, <1>3 DEF ScanOk, ScanLists, ScanTable

LEMMA AddUsedIs ==
  ASSUME FlashOk, NEW s \in ScanState, NEW p \in Pebs, IsLeb(p),
         NEW v, NEW l, NEW q, v = peb[p].v, l = peb[p].l, q = s.leb[v][l],
         NEW r, r = AddUsed(s, p)
  PROVE  /\ r \in ScanState /\ r.free = s.free /\ r.corr = s.corr
         /\ q # None /\ peb[q].sq > peb[p].sq => r.leb = s.leb /\ r.erase = Append(s.erase, p)
         /\ ~(q # None /\ peb[q].sq > peb[p].sq) =>
              /\ r.leb = [s.leb EXCEPT ![v][l] = p]
              /\ r.erase = IF q = None THEN s.erase ELSE Append(s.erase, q)
<1> DEFINE t == IF v \in s.seen THEN s
                ELSE [s EXCEPT !.seen = @ \cup {v}, !.used[v] = Used(p)]
           valid == v \notin s.seen \/ Used(p) = s.used[v]
           r1 == [t EXCEPT !.erase = Append(@, p)]
           r2 == [t EXCEPT !.leb[v][l] = p, !.ok = @ /\ valid,
                           !.erase = IF q = None THEN @ ELSE Append(@, q)]
<1>1. v \in 0 .. Slots /\ l \in Lnums /\ Used(p) \in Nat
  BY LebFacts DEF Used
<1>2. q \in Pebs \cup {None}
  <2>1. s.leb \in EbaState
    BY DEF ScanState
  <2>2. s.leb[v] \in [Lnums -> Pebs \cup {None}]
    BY <1>1, <2>1 DEF EbaState
  <2> QED BY <1>1, <2>2
<1>3. AddUsed(s, p) = IF q # None /\ peb[q].sq > peb[p].sq THEN r1 ELSE r2
  BY DEF AddUsed
<1>4. t \in ScanState /\ t.free = s.free /\ t.corr = s.corr /\ t.leb = s.leb /\ t.erase = s.erase
  <2>1. CASE v \in s.seen
    BY <2>1
  <2>2. CASE v \notin s.seen
    <3>1. s.seen \cup {v} \in SUBSET (0 .. Slots) /\ [s.used EXCEPT ![v] = Used(p)] \in [0 .. Slots -> Nat]
      BY <1>1 DEF ScanState
    <3>2. t = [s EXCEPT !.seen = s.seen \cup {v}, !.used = [s.used EXCEPT ![v] = Used(p)]]
      BY <2>2 DEF ScanState
    <3> HIDE DEF t
    <3> QED BY <3>1, <3>2 DEF ScanState
  <2> QED BY <2>1, <2>2
<1>5. valid \in BOOLEAN
  OBVIOUS
<1> HIDE DEF t, valid
<1>6. /\ Append(t.erase, p) \in Seq(Pebs) /\ (q # None => Append(t.erase, q) \in Seq(Pebs))
      /\ [t.leb EXCEPT ![v][l] = p] \in EbaState /\ (t.ok /\ valid) \in BOOLEAN
  <2>1. t.erase \in Seq(Pebs) /\ t.leb \in EbaState /\ t.ok \in BOOLEAN
    BY <1>4 DEF ScanState
  <2>2. [t.leb EXCEPT ![v][l] = p] \in EbaState
    BY <1>1, <2>1 DEF EbaState
  <2> QED BY <1>2, <1>5, <2>1, <2>2
<1>7. r1 \in ScanState /\ r1.free = s.free /\ r1.corr = s.corr /\ r1.leb = s.leb /\ r1.erase = Append(s.erase, p)
  BY <1>4, <1>6 DEF ScanState
<1>8. /\ r2 \in ScanState /\ r2.free = s.free /\ r2.corr = s.corr /\ r2.leb = [s.leb EXCEPT ![v][l] = p]
      /\ r2.erase = IF q = None THEN s.erase ELSE Append(s.erase, q)
  BY <1>4, <1>6 DEF ScanState
<1> HIDE DEF r1, r2
<1> QED BY <1>3, <1>7, <1>8

\* An eraseblock without a header changes nothing in the table.
LEMMA TableStays ==
  ASSUME NEW s, NEW r, NEW n, NEW P, ScanTable(s, P), ~IsLeb(n), r.leb = s.leb,
         ToSet(s.erase) \subseteq ToSet(r.erase), ToSet(r.erase) \subseteq ToSet(s.erase) \cup {n}
  PROVE  ScanTable(r, P \cup {n})
<1> DEFINE Q == P \cup {n}
<1>1. ASSUME NEW v \in 0 .. Slots, NEW l \in Lnums, r.leb[v][l] # None
      PROVE  /\ r.leb[v][l] \in Q /\ IsCopy(r.leb[v][l], v, l)
             /\ \A q \in Q : IsCopy(q, v, l) => peb[q].sq <= peb[r.leb[v][l]].sq
  <2>1. /\ s.leb[v][l] \in P /\ IsCopy(s.leb[v][l], v, l)
        /\ \A q \in P : IsCopy(q, v, l) => peb[q].sq <= peb[s.leb[v][l]].sq
    BY <1>1 DEF ScanTable
  <2>2. ~IsCopy(n, v, l)
    BY DEF IsCopy
  <2> QED BY <2>1, <2>2
<1>2. ASSUME NEW p \in Q, IsLeb(p) PROVE r.leb[peb[p].v][peb[p].l] = p \/ p \in ToSet(r.erase)
  <2>1. p \in P
    BY <1>2
  <2>2. s.leb[peb[p].v][peb[p].l] = p \/ p \in ToSet(s.erase)
    BY <1>2, <2>1 DEF ScanTable
  <2> QED BY <2>2
<1>3. ASSUME NEW p \in ToSet(r.erase), IsLeb(p)
      PROVE  LET q == r.leb[peb[p].v][peb[p].l] IN q # None /\ peb[q].sq > peb[p].sq
  <2>1. p \in ToSet(s.erase)
    BY <1>3
  <2>2. LET q == s.leb[peb[p].v][peb[p].l] IN q # None /\ peb[q].sq > peb[p].sq
    BY <1>3, <2>1 DEF ScanTable
  <2> QED BY <2>2
<1> QED BY <1>1, <1>2, <1>3 DEF ScanTable

LEMMA ScanProcess ==
  ASSUME FlashOk, NEW s, NEW n \in Pebs, ScanOk(s, n - 1)
  PROVE  ScanOk(ProcessEb(s, n), n)
<1> DEFINE r == ProcessEb(s, n)
           P == 1 .. n - 1
           Q == 1 .. n
<1>0. /\ n \in Nat /\ n > 0 /\ n \notin P /\ Q = P \cup {n} /\ P \subseteq Pebs /\ Q \subseteq Pebs
      /\ n # None /\ None \notin Pebs
  BY UbiVolAssumption DEF Pebs, None
<1>1. s \in ScanState /\ ScanLists(s, P) /\ ScanTable(s, P)
  BY DEF ScanOk
<1>2. s.erase \in Seq(Pebs) /\ s.corr \in Seq(Pebs) /\ s.leb \in EbaState /\ s.free \subseteq Pebs
  BY <1>1 DEF ScanState
<1>3. peb[n] \in PebState
  BY DEF FlashOk
<1>4. \/ peb[n].st = "blank" \/ peb[n].st = "free" \/ peb[n].st = "corrupt" \/ IsLeb(n)
  BY <1>3 DEF PebState, Blank, Free, Corrupt, IsLeb
<1> HIDE DEF P, Q
<1>5. n \notin ToSet(s.erase) /\ n \notin ToSet(s.corr)
  BY <1>0, <1>1 DEF ScanLists
<1>6. CASE peb[n].st = "blank"
  <2>1. r = [s EXCEPT !.erase = Append(@, n)]
    BY <1>6 DEF ProcessEb
  <2>2. /\ Append(s.erase, n) \in Seq(Pebs) /\ Once(Append(s.erase, n))
        /\ ToSet(Append(s.erase, n)) = ToSet(s.erase) \cup {n}
    BY <1>1, <1>2, <1>5, AppendFacts DEF ScanLists
  <2>3. r \in ScanState /\ r.leb = s.leb /\ r.erase = Append(s.erase, n) /\ r.corr = s.corr /\ r.free = s.free
    BY <1>1, <2>1, <2>2 DEF ScanState
  <2>4. ~IsLeb(n)
    BY <1>6 DEF IsLeb
  <2> HIDE DEF r
  <2>5. ScanLists(r, Q)
    BY <1>0, <1>1, <1>6, <2>2, <2>3 DEF ScanLists
  <2>6. ScanTable(r, Q)
    BY <1>0, <1>1, <2>2, <2>3, <2>4, TableStays
  <2> QED BY <2>3, <2>5, <2>6 DEF ScanOk, r, Q
<1>7. CASE peb[n].st = "free"
  <2>1. r = [s EXCEPT !.free = @ \cup {n}]
    BY <1>7 DEF ProcessEb
  <2>2. r \in ScanState /\ r.leb = s.leb /\ r.erase = s.erase /\ r.corr = s.corr /\ r.free = s.free \cup {n}
    BY <1>1, <2>1 DEF ScanState
  <2>4. ~IsLeb(n)
    BY <1>7 DEF IsLeb
  <2> HIDE DEF r
  <2>5. ScanLists(r, Q)
    BY <1>0, <1>1, <1>7, <2>2 DEF ScanLists
  <2>6. ScanTable(r, Q)
    BY <1>0, <1>1, <2>2, <2>4, TableStays
  <2> QED BY <2>2, <2>5, <2>6 DEF ScanOk, r, Q
<1>8. CASE peb[n].st = "corrupt"
  <2>1. r = [s EXCEPT !.corr = Append(@, n)]
    BY <1>8 DEF ProcessEb
  <2>2. /\ Append(s.corr, n) \in Seq(Pebs) /\ Once(Append(s.corr, n))
        /\ ToSet(Append(s.corr, n)) = ToSet(s.corr) \cup {n}
    BY <1>1, <1>2, <1>5, AppendFacts DEF ScanLists
  <2>3. r \in ScanState /\ r.leb = s.leb /\ r.erase = s.erase /\ r.corr = Append(s.corr, n) /\ r.free = s.free
    BY <1>1, <2>1, <2>2 DEF ScanState
  <2>4. ~IsLeb(n)
    BY <1>8 DEF IsLeb
  <2> HIDE DEF r
  <2>5. ScanLists(r, Q)
    BY <1>0, <1>1, <1>8, <2>2, <2>3 DEF ScanLists
  <2>6. ScanTable(r, Q)
    BY <1>0, <1>1, <2>3, <2>4, TableStays
  <2> QED BY <2>3, <2>5, <2>6 DEF ScanOk, r, Q
<1>9. CASE IsLeb(n)
  <2> DEFINE v == peb[n].v
             l == peb[n].l
             q == s.leb[v][l]
             Older == q # None /\ peb[q].sq > peb[n].sq
  <2>1. r = AddUsed(s, n)
    BY <1>9 DEF ProcessEb, IsLeb
  <2>2. v \in 0 .. Slots /\ l \in Lnums /\ q \in Pebs \cup {None} /\ IsCopy(n, v, l)
    BY <1>2, <1>9, LebFacts DEF EbaState, IsCopy
  <2>3. /\ r \in ScanState /\ r.free = s.free /\ r.corr = s.corr
        /\ Older => r.leb = s.leb /\ r.erase = Append(s.erase, n)
        /\ ~Older => /\ r.leb = [s.leb EXCEPT ![v][l] = n]
                     /\ r.erase = IF q = None THEN s.erase ELSE Append(s.erase, q)
    BY <1>1, <1>9, <2>1, AddUsedIs
  <2>4. q # None => /\ q \in P /\ q \in Pebs /\ IsCopy(q, v, l) /\ IsLeb(q) /\ q # n
                    /\ \A x \in P : IsCopy(x, v, l) => peb[x].sq <= peb[q].sq
    BY <1>0, <1>1, <2>2 DEF ScanTable, IsCopy
  <2>5. \A x \in Q : IsLeb(x) => peb[x].sq \in Nat /\ peb[x].v \in 0 .. Slots /\ peb[x].l \in Lnums
    BY <1>0, LebFacts
  <2> HIDE DEF r, v, l, q
  <2>6. CASE Older
    <3>1. /\ Once(Append(s.erase, n)) /\ ToSet(Append(s.erase, n)) = ToSet(s.erase) \cup {n}
      BY <1>1, <1>2, <1>5, AppendFacts DEF ScanLists
    <3>2. ScanLists(r, Q)
      BY <1>0, <1>1, <1>9, <2>3, <2>6, <3>1 DEF ScanLists
    <3>3. ASSUME NEW a \in 0 .. Slots, NEW b \in Lnums, r.leb[a][b] # None
          PROVE  /\ r.leb[a][b] \in Q /\ IsCopy(r.leb[a][b], a, b)
                 /\ \A x \in Q : IsCopy(x, a, b) => peb[x].sq <= peb[r.leb[a][b]].sq
      <4>1. /\ r.leb[a][b] = s.leb[a][b] /\ s.leb[a][b] \in P /\ IsCopy(s.leb[a][b], a, b)
            /\ \A x \in P : IsCopy(x, a, b) => peb[x].sq <= peb[s.leb[a][b]].sq
        BY <1>1, <2>3, <2>6, <3>3 DEF ScanTable
      <4>2. IsCopy(n, a, b) => a = v /\ b = l
        BY DEF IsCopy, v, l
      <4>3. IsCopy(n, a, b) => peb[n].sq <= peb[s.leb[a][b]].sq
        <5> SUFFICES ASSUME IsCopy(n, a, b) PROVE peb[n].sq <= peb[q].sq
          BY <4>2 DEF q
        <5>1. q \in Q /\ n \in Q /\ IsLeb(q) /\ peb[q].sq > peb[n].sq
          BY <1>0, <2>4, <2>6
        <5>2. peb[q].sq \in Nat /\ peb[n].sq \in Nat
          BY <1>9, <2>5, <5>1
        <5> QED BY <5>1, <5>2
      <4> QED BY <1>0, <4>1, <4>3
    <3>4. \A x \in Q : IsLeb(x) => r.leb[peb[x].v][peb[x].l] = x \/ x \in ToSet(r.erase)
      BY <1>0, <1>1, <2>3, <2>6, <3>1 DEF ScanTable
    <3>5. ASSUME NEW x \in ToSet(r.erase), IsLeb(x)
          PROVE  r.leb[peb[x].v][peb[x].l] # None /\ peb[r.leb[peb[x].v][peb[x].l]].sq > peb[x].sq
      <4>1. CASE x = n
        BY <2>3, <2>6, <4>1 DEF q, v, l
      <4>2. CASE x \in ToSet(s.erase)
        BY <1>1, <2>3, <2>6, <3>5, <4>2 DEF ScanTable
      <4> QED BY <2>3, <2>6, <3>1, <4>1, <4>2
    <3>6. ScanTable(r, Q)
      BY <3>3, <3>4, <3>5 DEF ScanTable
    <3> QED BY <2>3, <3>2, <3>6 DEF ScanOk, Q, r
  <2>7. CASE ~Older
    <3>0. q # None => peb[q].sq < peb[n].sq
      <4> SUFFICES ASSUME q # None PROVE peb[q].sq < peb[n].sq
        OBVIOUS
      <4>1. peb[q].sq \in Nat /\ peb[n].sq \in Nat /\ peb[q].sq # peb[n].sq
        BY <1>0, <1>9, <2>4, <2>5 DEF FlashOk
      <4> QED BY <2>7, <4>1
    <3>1. q # None => q \notin ToSet(s.erase)
      <4> SUFFICES ASSUME q # None, q \in ToSet(s.erase) PROVE FALSE
        OBVIOUS
      <4>1. peb[q].v = v /\ peb[q].l = l /\ IsLeb(q)
        BY <2>4 DEF IsCopy
      <4>2. peb[s.leb[v][l]].sq > peb[q].sq
        BY <1>1, <4>1 DEF ScanTable
      <4>3. peb[q].sq > peb[q].sq /\ peb[q].sq \in Nat
        BY <1>0, <2>4, <2>5, <4>2 DEF q
      <4> QED BY <4>3
    <3>2. /\ Once(r.erase) /\ ToSet(r.erase) = ToSet(s.erase) \cup (IF q = None THEN {} ELSE {q})
      <4>1. CASE q = None
        BY <1>1, <2>3, <2>7, <4>1 DEF ScanLists
      <4>2. CASE q # None
        <5>1. Once(Append(s.erase, q)) /\ ToSet(Append(s.erase, q)) = ToSet(s.erase) \cup {q}
          BY <1>1, <1>2, <2>4, <3>1, <4>2, AppendFacts DEF ScanLists
        <5> QED BY <2>3, <2>7, <4>2, <5>1
      <4> QED BY <4>1, <4>2
    <3>3. ScanLists(r, Q)
      <4>1. \A x \in ToSet(r.erase) : x \in Q /\ (peb[x].st = "blank" \/ IsLeb(x))
        BY <1>0, <1>1, <2>4, <3>2 DEF ScanLists
      <4> QED BY <1>0, <1>1, <2>3, <3>2, <4>1 DEF ScanLists
    <3>4. /\ r.leb[v][l] = n
          /\ \A a \in 0 .. Slots, b \in Lnums : a # v \/ b # l => r.leb[a][b] = s.leb[a][b]
      BY <1>2, <2>2, <2>3, <2>7 DEF EbaState
    <3>5. ASSUME NEW a \in 0 .. Slots, NEW b \in Lnums, r.leb[a][b] # None
          PROVE  /\ r.leb[a][b] \in Q /\ IsCopy(r.leb[a][b], a, b)
                 /\ \A x \in Q : IsCopy(x, a, b) => peb[x].sq <= peb[r.leb[a][b]].sq
      <4>1. CASE a = v /\ b = l
        <5>1. \A x \in P : IsCopy(x, v, l) => peb[x].sq <= peb[n].sq
          <6> SUFFICES ASSUME NEW x \in P, IsCopy(x, v, l) PROVE peb[x].sq <= peb[n].sq
            OBVIOUS
          <6>1. IsLeb(x) /\ peb[x].v = v /\ peb[x].l = l /\ x \in Q
            BY <1>0 DEF IsCopy
          <6>2. q # None
            <7>1. s.leb[v][l] = x \/ x \in ToSet(s.erase)
              BY <1>1, <6>1 DEF ScanTable
            <7>2. x \in ToSet(s.erase) => s.leb[v][l] # None
              BY <1>1, <6>1 DEF ScanTable
            <7>3. x # None
              BY <1>0
            <7> QED BY <7>1, <7>2, <7>3 DEF q
          <6>3. peb[x].sq <= peb[q].sq /\ peb[q].sq < peb[n].sq
            BY <2>4, <3>0, <6>2
          <6>4. peb[x].sq \in Nat /\ peb[q].sq \in Nat /\ peb[n].sq \in Nat
            BY <1>0, <1>9, <2>4, <2>5, <6>1, <6>2
          <6> QED BY <6>3, <6>4
        <5>2. peb[n].sq <= peb[n].sq
          BY <1>0, <1>9, <2>5
        <5> QED BY <1>0, <2>2, <3>4, <4>1, <5>1, <5>2
      <4>2. CASE a # v \/ b # l
        <5>1. ~IsCopy(n, a, b)
          BY <4>2 DEF IsCopy, v, l
        <5> QED BY <1>0, <1>1, <3>4, <3>5, <4>2, <5>1 DEF ScanTable
      <4> QED BY <4>1, <4>2
    <3>6. ASSUME NEW x \in Q, IsLeb(x) PROVE r.leb[peb[x].v][peb[x].l] = x \/ x \in ToSet(r.erase)
      <4>1. CASE x = n
        BY <3>4, <4>1 DEF v, l
      <4>2. CASE x # n /\ peb[x].v = v /\ peb[x].l = l
        <5>1. x \in P
          BY <1>0, <4>2
        <5>2. q = x \/ x \in ToSet(s.erase)
          BY <1>1, <3>6, <4>2, <5>1 DEF ScanTable, q
        <5>3. x # None
          BY <1>0
        <5> QED BY <3>2, <5>2, <5>3
      <4>3. CASE x # n /\ ~(peb[x].v = v /\ peb[x].l = l)
        <5>1. x \in P /\ peb[x].v \in 0 .. Slots /\ peb[x].l \in Lnums
          BY <1>0, <2>5, <3>6, <4>3
        <5>2. s.leb[peb[x].v][peb[x].l] = x \/ x \in ToSet(s.erase)
          BY <1>1, <3>6, <5>1 DEF ScanTable
        <5> QED BY <3>2, <3>4, <4>3, <5>1, <5>2
      <4> QED BY <4>1, <4>2, <4>3
    <3>7. ASSUME NEW x \in ToSet(r.erase), IsLeb(x)
          PROVE  r.leb[peb[x].v][peb[x].l] # None /\ peb[r.leb[peb[x].v][peb[x].l]].sq > peb[x].sq
      <4>1. CASE x \notin ToSet(s.erase)
        <5>1. q # None /\ x = q
          BY <3>2, <4>1
        <5>2. peb[x].v = v /\ peb[x].l = l
          BY <2>4, <5>1 DEF IsCopy
        <5> QED BY <1>0, <1>9, <2>4, <2>5, <3>0, <3>4, <5>1, <5>2
      <4>2. CASE x \in ToSet(s.erase) /\ ~(peb[x].v = v /\ peb[x].l = l)
        <5>1. x \in Q
          BY <1>0, <1>1, <4>2 DEF ScanLists
        <5>2. s.leb[peb[x].v][peb[x].l] # None /\ peb[s.leb[peb[x].v][peb[x].l]].sq > peb[x].sq
          BY <1>1, <3>7, <4>2 DEF ScanTable
        <5> QED BY <2>5, <3>4, <3>7, <4>2, <5>1, <5>2
      <4>3. CASE x \in ToSet(s.erase) /\ peb[x].v = v /\ peb[x].l = l
        <5>1. x \in Q
          BY <1>0, <1>1, <4>3 DEF ScanLists
        <5>2. q # None /\ peb[q].sq > peb[x].sq
          BY <1>1, <3>7, <4>3 DEF ScanTable, q
        <5>3. peb[q].sq < peb[n].sq /\ peb[q].sq \in Nat /\ peb[n].sq \in Nat /\ peb[x].sq \in Nat
          BY <1>0, <1>9, <2>4, <2>5, <3>0, <3>7, <5>1, <5>2
        <5>4. peb[n].sq > peb[x].sq
          BY <5>2, <5>3
        <5> QED BY <1>0, <3>4, <4>3, <5>4
      <4> QED BY <4>1, <4>2, <4>3
    <3>8. ScanTable(r, Q)
      BY <3>5, <3>6, <3>7 DEF ScanTable
    <3> QED BY <2>3, <3>3, <3>8 DEF ScanOk, Q, r
  <2> QED BY <2>6, <2>7
<1> QED BY <1>4, <1>6, <1>7, <1>8, <1>9

LEMMA ScanHolds == ASSUME FlashOk PROVE ScanOk(Scan, NumPebs)
<1> DEFINE S == {n \in 0 .. NumPebs : ScanOk(Scanned[n], n)}
<1>0. NumPebs \in Nat /\ 0 \in 0 .. NumPebs
  BY UbiVolAssumption
<1>1. 0 \in S
  BY <1>0, ScannedStep, ScanStart
<1>2. ASSUME NEW n \in 1 .. NumPebs, n - 1 \in S PROVE n \in S
  <2>1. n \in Pebs /\ n \in 0 .. NumPebs
    BY <1>0 DEF Pebs
  <2>2. ScanOk(ProcessEb(Scanned[n - 1], n), n)
    BY <1>2, <2>1, ScanProcess
  <2> QED BY <2>1, <2>2, ScannedStep
<1> HIDE DEF S
<1>3. \A i \in 0 .. NumPebs : i \in S
  BY <1>0, <1>1, <1>2, UpTo
<1>4. NumPebs \in S
  BY <1>0, <1>3
<1> QED BY <1>4 DEF S, Scan

\* What a scan finds is what the newest copy holds, after a step as before.
FoundFacts == \A v, l :
  /\ \A p \in Pebs : Newer(v, l, p) => Found(v, l) = peb[p].d
  /\ (\E p \in Pebs : IsCopy(p, v, l)) => \E p \in Pebs : Newer(v, l, p)
  /\ (\A p \in Pebs : ~IsCopy(p, v, l)) <=> Found(v, l) = Hole

LEMMA FoundHolds == FlashOk => FoundFacts
BY FoundIs DEF FoundFacts

LEMMA FoundNext == FlashOk' => FoundFacts'
BY FoundHolds, PTL

(***************************************************************************)
(* Writing and erasing one eraseblock.                                     *)
(***************************************************************************)
LEMMA PutFlash ==
  ASSUME FlashOk, NEW p \in Pebs, NEW x \in PebState, peb' = [peb EXCEPT ![p] = x],
         x.st = "leb" => \A q \in Pebs : IsLeb(q) => peb[q].sq < x.sq
  PROVE  /\ FlashOk'
         /\ x.st = "leb" => Found(x.v, x.l)' = x.d
         /\ \A v \in 0 .. Slots, l \in Lnums :
              ~(x.st = "leb" /\ x.v = v /\ x.l = l) /\ ~Newer(v, l, p) => Found(v, l)' = Found(v, l)
<1>1. peb'[p] = x /\ \A q \in Pebs \ {p} : peb'[q] = peb[q]
  BY DEF FlashOk
<1>2. FlashOk'
  <2>1. peb' \in [Pebs -> PebState]
    BY DEF FlashOk
  <2>2. ASSUME NEW a \in Pebs, NEW b \in Pebs, a # b, IsLeb(a)', IsLeb(b)' PROVE peb'[a].sq # peb'[b].sq
    <3>1. CASE a = p
      <4>1. IsLeb(b) /\ peb[b].sq < x.sq /\ peb[b].sq \in Nat
        BY <1>1, <2>2, <3>1, LebFacts DEF IsLeb
      <4> QED BY <1>1, <2>2, <3>1, <4>1
    <3>2. CASE b = p
      <4>1. IsLeb(a) /\ peb[a].sq < x.sq /\ peb[a].sq \in Nat
        BY <1>1, <2>2, <3>2, LebFacts DEF IsLeb
      <4> QED BY <1>1, <2>2, <3>2, <4>1
    <3>3. CASE a # p /\ b # p
      BY <1>1, <2>2, <3>3 DEF FlashOk, IsLeb
    <3> QED BY <3>1, <3>2, <3>3
  <2> QED BY <2>1, <2>2 DEF FlashOk
<1>3. \A v, l : /\ \A q \in Pebs : Newer(v, l, q)' => Found(v, l)' = peb'[q].d
                /\ (\A q \in Pebs : ~IsCopy(q, v, l)') <=> Found(v, l)' = Hole
  BY <1>2, FoundNext DEF FoundFacts
<1>4. ASSUME x.st = "leb" PROVE Found(x.v, x.l)' = x.d
  <2>1. IsCopy(p, x.v, x.l)'
    BY <1>1, <1>4 DEF IsCopy, IsLeb
  <2>2. ASSUME NEW q \in Pebs, IsCopy(q, x.v, x.l)' PROVE peb'[q].sq <= peb'[p].sq
    <3>1. x.sq \in Nat
      BY <1>4 DEF PebState, Blank, Free, Corrupt
    <3>2. CASE q = p
      BY <1>1, <3>1, <3>2
    <3>3. CASE q # p
      <4>1. IsLeb(q)
        BY <1>1, <2>2, <3>3 DEF IsCopy, IsLeb
      <4>2. peb[q].sq \in Nat /\ peb[q].sq < x.sq
        BY <1>4, <4>1, LebFacts
      <4> QED BY <1>1, <3>1, <3>3, <4>2
    <3> QED BY <3>2, <3>3
  <2>3. Newer(x.v, x.l, p)'
    BY <2>1, <2>2 DEF Newer
  <2> QED BY <1>1, <1>3, <2>3
<1>5. ASSUME NEW v \in 0 .. Slots, NEW l \in Lnums, ~(x.st = "leb" /\ x.v = v /\ x.l = l), ~Newer(v, l, p)
      PROVE  Found(v, l)' = Found(v, l)
  <2>1. ~IsCopy(p, v, l)'
    BY <1>1, <1>5 DEF IsCopy, IsLeb
  <2>2. \A q \in Pebs \ {p} : IsCopy(q, v, l)' <=> IsCopy(q, v, l)
    BY <1>1 DEF IsCopy, IsLeb
  <2>3. CASE \E q \in Pebs : IsCopy(q, v, l)
    <3>1. PICK q \in Pebs : Newer(v, l, q)
      BY <2>3, FoundIs
    <3>2. q # p
      BY <1>5, <3>1
    <3>3. ASSUME NEW y \in Pebs, IsCopy(y, v, l)' PROVE peb'[y].sq <= peb'[q].sq
      <4>1. y # p /\ IsCopy(y, v, l)
        BY <2>1, <2>2, <3>3
      <4> QED BY <1>1, <3>1, <3>2, <4>1 DEF Newer
    <3>4. Newer(v, l, q)'
      BY <2>2, <3>1, <3>2, <3>3 DEF Newer
    <3> QED BY <1>1, <1>3, <3>1, <3>2, <3>4, FoundIs
  <2>4. CASE \A q \in Pebs : ~IsCopy(q, v, l)
    <3>1. \A q \in Pebs : ~IsCopy(q, v, l)'
      BY <2>1, <2>2, <2>4
    <3> QED BY <1>3, <2>4, <3>1, FoundIs
  <2> QED BY <2>3, <2>4
<1> QED BY <1>2, <1>4, <1>5

(***************************************************************************)
(* What a boot finds while the system is up.                               *)
(***************************************************************************)
LEMMA Lebs == 0 \in Lnums /\ 1 \in Lnums /\ Layout \in 0 .. Slots /\ Layout = 0
BY UbiVolAssumption DEF Lnums, Layout

\* What is mapped is what a boot finds.
LEMMA MappedIsFound ==
  ASSUME FlashOk, RamOk, Trees, On, NEW v \in 0 .. Slots, NEW l \in Lnums, eba[v][l] # None
  PROVE  /\ eba[v][l] \in Pebs /\ Newer(v, l, eba[v][l]) /\ Found(v, l) = peb[eba[v][l]].d
<1>1. eba[v][l] \in Pebs
  BY DEF RamOk, EbaState
<1>2. Newer(v, l, eba[v][l])
  BY DEF Trees, Newer
<1> QED BY <1>1, <1>2, FoundIs

LEMMA OnKeepsTable == FlashOk /\ RamOk /\ Trees /\ Layouts /\ On => TableKept
<1> SUFFICES ASSUME FlashOk, RamOk, Trees, Layouts, On PROVE TableKept
  OBVIOUS
<1>1. CASE eba[Layout][0] # None
  <2>1. Found(Layout, 0) = Table(tab)
    BY <1>1, Lebs, MappedIsFound DEF Layouts
  <2> QED BY <2>1 DEF TableKept
<1>2. CASE eba[Layout][0] = None
  <2>1. Now = 3 /\ eba[Layout][1] # None
    BY <1>2 DEF Layouts
  <2>2. Found(Layout, 1) = Table(tab) /\ Found(Layout, 0) \in {Hole, Table(tab)}
    BY <2>1, Lebs, MappedIsFound DEF Layouts
  <2> QED BY <2>2 DEF TableKept
<1> QED BY <1>1, <1>2

LEMMA OnKeepsTableNext == FlashOk' /\ RamOk' /\ Trees' /\ Layouts' /\ On' => TableKept'
BY OnKeepsTable, PTL

\* A step that leaves the flash alone.
LEMMA FlashSame ==
  ASSUME peb' = peb
  PROVE  /\ FlashOk => FlashOk'
         /\ \A p, v, l : IsCopy(p, v, l)' <=> IsCopy(p, v, l)
         /\ \A p : IsLeb(p)' <=> IsLeb(p)
         /\ \A v, l : Found(v, l)' = Found(v, l)
<1>1. \A p : IsLeb(p)' <=> IsLeb(p)
  BY DEF IsLeb
<1>2. \A p, v, l : IsCopy(p, v, l)' <=> IsCopy(p, v, l)
  BY <1>1 DEF IsCopy
<1>3. FlashOk => FlashOk'
  BY <1>1 DEF FlashOk
<1>4. \A v, l : Found(v, l)' = Found(v, l)
  <2>1. \A v, l : Copies(v, l)' = Copies(v, l)
    BY DEF Copies
  <2>2. \A v, l : Newest(v, l)' = Newest(v, l)
    BY <2>1 DEF Newest
  <2> QED BY <2>1, <2>2 DEF Found
<1> QED BY <1>1, <1>2, <1>3, <1>4

LEMMA TreesSame ==
  ASSUME Trees, peb' = peb, up' = up, eba' = eba, free' = free, works' = works, sqnum' = sqnum
  PROVE  Trees'
BY DEF Trees, On, IsCopy, IsLeb

LEMMA OnUnformatted == ASSUME Layouts, On, formatted' = formatted PROVE Unformatted'
BY DEF Layouts, Unformatted

LEMMA AtHead ==
  ASSUME RamOk, Layouts, On, todo # <<>>
  PROVE  /\ Head(todo) = todo[1] /\ todo[1] \in Steps /\ Now = Stage(todo[1]) /\ Now \in 0 .. 5
         /\ Tail(todo) \in Seq(Steps) /\ Stages(Tail(todo)) /\ todo \in Seq(Steps)
         /\ Now \in 1 .. 4 => Tail(todo) # <<>> /\ Stage(Tail(todo)[1]) = Now + 1 /\ Tail(todo)[1] = todo[2]
         /\ Now \notin 1 .. 4 => Tail(todo) = <<>> \/ Stage(Tail(todo)[1]) \in {0, 1}
         /\ Now = 1 => Tail(todo)[2].d = Table(todo[1].t)
         /\ Now = 3 => Tail(todo)[2].d = todo[1].d
         /\ Now \in {3, 5} => todo[1].d \in [d : {"table"}, t : Tables]
<1>1. todo \in Seq(Steps) /\ Stages(todo)
  BY DEF RamOk, Layouts
<1>2. Now = Stage(todo[1])
  BY DEF Now
<1>3. todo[1] \in Steps /\ Head(todo) = todo[1]
  BY <1>1, StagesTail
<1> QED BY <1>1, <1>2, <1>3, StagesTail, StageIs

(***************************************************************************)
(* The steps of an operation.                                              *)
(***************************************************************************)
LEMMA RamStepKeeps == ASSUME IInv, RamStep PROVE IInv'
<1> USE DEF IInv
<1>0. /\ On /\ On' /\ todo # <<>> /\ Head(todo).o \in {"vtbl", "vol", "back"} /\ todo' = Tail(todo)
      /\ vtbl' = (IF Head(todo).o = "vtbl" THEN Head(todo).t ELSE vtbl)
      /\ vols' = (IF Head(todo).o = "vol" THEN [vols EXCEPT ![Head(todo).s] = Head(todo).vol] ELSE vols)
      /\ UNCHANGED <<peb, up, eba, free, works, sqnum, hist, ops, cuts>>
  BY DEF RamStep, At, Advance, On
<1>1. /\ Head(todo) = todo[1] /\ todo[1] \in Steps /\ Now = Stage(todo[1]) /\ Now \in 0 .. 5
      /\ Tail(todo) \in Seq(Steps) /\ Stages(Tail(todo))
      /\ Now \in 1 .. 4 => Tail(todo) # <<>> /\ Stage(Tail(todo)[1]) = Now + 1
      /\ Now \notin 1 .. 4 => Tail(todo) = <<>> \/ Stage(Tail(todo)[1]) \in {0, 1}
      /\ Now = 1 => Tail(todo)[2].d = Table(todo[1].t)
  BY <1>0, AtHead
<1>2. (Now = 1 /\ Head(todo).o = "vtbl") \/ (Now = 0 /\ Head(todo).o # "vtbl")
  <2> DEFINE h == todo[1]
  <2>1. /\ Stage(h) \in 0 .. 5 /\ (Stage(h) = 1 <=> h.o = "vtbl") /\ (Stage(h) \in {2, 4} => h.o = "unmap")
        /\ (Stage(h) \in {3, 5} => h.o = "write")
    BY <1>1, StageIs
  <2>2. Now = Stage(h) /\ h.o \in {"vtbl", "vol", "back"} /\ h.o = Head(todo).o
    BY <1>0, <1>1
  <2> HIDE DEF h, IInv
  <2> QED BY <2>1, <2>2
<1>3. FlashOk' /\ Trees' /\ \A v, l : Found(v, l)' = Found(v, l)
  BY <1>0, FlashSame, TreesSame
<1>4. RamOk'
  <2>1. Head(todo).o = "vtbl" => Head(todo).t \in Tables
    BY <1>1 DEF Steps
  <2>2. Head(todo).o = "vol" => Head(todo).s \in Vols /\ Head(todo).vol \in VolState
    BY <1>1 DEF Steps
  <2>3. vtbl' \in Tables /\ vols' \in [Vols -> VolState]
    BY <1>0, <2>1, <2>2 DEF RamOk
  <2> QED BY <1>0, <1>1, <2>3 DEF RamOk, hist, On
<1>5. Layouts'
  <2>1. tab' = tab /\ formatted' = formatted /\ eba' = eba /\ peb' = peb
    BY <1>0 DEF hist
  <2>2. /\ formatted
        /\ eba[Layout][0] # None /\ eba[Layout][1] # None
        /\ peb[eba[Layout][0]].d = Table(tab) /\ peb[eba[Layout][1]].d = Table(tab)
    BY <1>0, <1>2 DEF Layouts
  <2>3. CASE Now = 1
    <3>0. Head(todo).o = "vtbl" /\ vtbl' = todo[1].t
      BY <1>0, <1>1, <1>2, <2>3
    <3>1. Now' = 2 /\ todo'[2].d = Table(vtbl')
      <4>1. Tail(todo) # <<>> /\ Stage(Tail(todo)[1]) = 2
        BY <1>1, <2>3
      <4>2. Tail(todo)[2].d = Table(vtbl')
        BY <1>1, <2>3, <3>0
      <4>3. todo' = Tail(todo)
        BY <1>0
      <4> QED BY <4>1, <4>2, <4>3 DEF Now
    <3>2. Stages(todo')
      BY <1>0, <1>1
    <3> HIDE DEF IInv
    <3> QED BY <2>1, <2>2, <3>1, <3>2 DEF Layouts
  <2>4. CASE Now = 0
    <3>1. Now' \in {0, 1} /\ vtbl' = tab
      BY <1>0, <1>1, <1>2, <2>4 DEF Now, Layouts
    <3> QED BY <1>0, <1>1, <2>1, <2>2, <3>1 DEF Layouts
  <2> QED BY <1>2, <2>3, <2>4
<1>6. TableKept' /\ Unformatted'
  BY <1>0, <1>3, <1>4, <1>5, OnKeepsTableNext, OnUnformatted DEF hist
<1> QED BY <1>3, <1>4, <1>5, <1>6

LEMMA FlushDoneKeeps == ASSUME IInv, FlushDone PROVE IInv'
<1> USE DEF IInv
<1>0. /\ On /\ On' /\ todo # <<>> /\ Head(todo).o = "flush" /\ todo' = Tail(todo)
      /\ UNCHANGED <<peb, up, vtbl, vols, eba, free, works, sqnum, hist, ops, cuts>>
  BY DEF FlushDone, At, Advance, On
<1>1. /\ Head(todo) = todo[1] /\ todo[1] \in Steps /\ Now = Stage(todo[1]) /\ Now \in 0 .. 5
      /\ Tail(todo) \in Seq(Steps) /\ Stages(Tail(todo))
      /\ Now \notin 1 .. 4 => Tail(todo) = <<>> \/ Stage(Tail(todo)[1]) \in {0, 1}
  BY <1>0, AtHead
<1>2. Now = 0
  BY <1>0, <1>1, StageIs
<1>3. FlashOk' /\ Trees' /\ \A v, l : Found(v, l)' = Found(v, l)
  BY <1>0, FlashSame, TreesSame
<1>4. RamOk'
  BY <1>0, <1>1 DEF RamOk, hist, On
<1>5. Layouts'
  <2>1. Now' \in {0, 1}
    BY <1>0, <1>1, <1>2 DEF Now
  <2> QED BY <1>0, <1>1, <1>2, <2>1 DEF Layouts, hist
<1>6. TableKept' /\ Unformatted'
  BY <1>0, <1>3, <1>4, <1>5, OnKeepsTableNext, OnUnformatted DEF hist
<1> QED BY <1>3, <1>4, <1>5, <1>6

LEMMA UnmapStepKeeps == ASSUME IInv, UnmapStep PROVE IInv'
<1> DEFINE h == todo[1]
           o == eba[h.v][h.l]
<1>0. FlashOk /\ RamOk /\ Trees /\ Layouts /\ On
  BY DEF IInv, UnmapStep, At, On
<1>1. /\ On' /\ todo # <<>> /\ h.o = "unmap" /\ todo' = Tail(todo) /\ h = Head(todo) /\ h \in Steps
      /\ Now = Stage(h) /\ Now \in 0 .. 5
      /\ Tail(todo) \in Seq(Steps) /\ Stages(Tail(todo))
      /\ Now \in 1 .. 4 => Tail(todo) # <<>> /\ Stage(Tail(todo)[1]) = Now + 1 /\ Tail(todo)[1] = todo[2]
      /\ Now \notin 1 .. 4 => Tail(todo) = <<>> \/ Stage(Tail(todo)[1]) \in {0, 1}
  <2>1. On' /\ todo # <<>> /\ Head(todo).o = "unmap" /\ todo' = Tail(todo)
    BY DEF UnmapStep, At, Advance, On
  <2> QED BY <1>0, <2>1, AtHead
<1>2. /\ eba' = [eba EXCEPT ![h.v][h.l] = None]
      /\ works' = (IF o = None THEN works ELSE Append(works, o))
      /\ UNCHANGED <<peb, up, vtbl, vols, free, sqnum, tab, formatted, ops, cuts>>
  BY <1>1 DEF UnmapStep, hist
<1>3. /\ h.v \in 0 .. Slots /\ h.l \in Lnums
      /\ \/ Now = 2 /\ h.v = Layout /\ h.l = 0
         \/ Now = 4 /\ h.v = Layout /\ h.l = 1
         \/ Now = 0 /\ ~(h.v = Layout /\ h.l \in {0, 1})
  <2>1. h.v \in 0 .. Slots /\ h.l \in Lnums
    BY <1>1 DEF Steps
  <2> QED BY <1>1, <2>1 DEF Stage
<1>4. /\ eba \in EbaState /\ works \in Seq(Pebs) /\ o \in Pebs \cup {None}
      /\ None \notin Pebs
  BY <1>0, <1>3 DEF RamOk, EbaState, Pebs, None
<1>5. o # None => /\ IsCopy(o, h.v, h.l) /\ o \notin ToSet(works) /\ o \in Pebs
                  /\ \A q \in Pebs : IsCopy(q, h.v, h.l) => peb[q].sq <= peb[o].sq
  BY <1>0, <1>3, <1>4 DEF Trees
<1> HIDE DEF h, o
<1>6. /\ eba' \in EbaState /\ eba'[h.v][h.l] = None
      /\ \A v \in 0 .. Slots, l \in Lnums : v # h.v \/ l # h.l => eba'[v][l] = eba[v][l]
  BY <1>2, <1>3, <1>4 DEF EbaState
<1>7. /\ works' \in Seq(Pebs) /\ ToSet(works') = ToSet(works) \cup (IF o = None THEN {} ELSE {o})
      /\ Once(works')
  <2>1. Once(works)
    BY <1>0 DEF Trees
  <2> QED BY <1>2, <1>4, <1>5, <2>1, AppendFacts
<1>8. /\ FlashOk' /\ \A p, v, l : IsCopy(p, v, l)' <=> IsCopy(p, v, l)
      /\ \A p : IsLeb(p)' <=> IsLeb(p)
      /\ \A v, l : Found(v, l)' = Found(v, l)
  BY <1>0, <1>2, FlashSame
<1>9. RamOk'
  BY <1>0, <1>1, <1>2, <1>6, <1>7 DEF RamOk, On
<1>10. Trees'
  <2>1. \A i \in DOMAIN works' : peb'[works'[i]].st # "free"
    <3>1. \A x \in ToSet(works) : peb[x].st # "free"
      BY <1>0 DEF Trees, ToSet
    <3>2. o # None => peb[o].st # "free"
      BY <1>5 DEF IsCopy, IsLeb
    <3>3. \A x \in ToSet(works') : peb[x].st # "free"
      BY <1>7, <3>1, <3>2
    <3> QED BY <1>2, <3>3 DEF ToSet
  <2>2. ASSUME NEW v \in 0 .. Slots, NEW l \in Lnums, eba'[v][l] # None
        PROVE  /\ IsCopy(eba'[v][l], v, l) /\ eba'[v][l] \notin ToSet(works')
               /\ \A q \in Pebs : IsCopy(q, v, l) => peb[q].sq <= peb[eba'[v][l]].sq
    <3>1. v # h.v \/ l # h.l
      BY <1>6, <2>2
    <3>2. /\ eba'[v][l] = eba[v][l] /\ IsCopy(eba[v][l], v, l) /\ eba[v][l] \notin ToSet(works)
          /\ \A q \in Pebs : IsCopy(q, v, l) => peb[q].sq <= peb[eba[v][l]].sq
      BY <1>0, <1>6, <2>2, <3>1 DEF Trees
    <3>3. o # None => eba[v][l] # o
      BY <1>5, <3>1, <3>2 DEF IsCopy
    <3> QED BY <1>7, <3>2, <3>3
  <2>3. ASSUME NEW p \in Pebs, NEW l \in {0, 1}, IsCopy(p, Layout, l)
        PROVE  eba'[Layout][l] = p \/ p \in ToSet(works')
    <3>1. eba[Layout][l] = p \/ p \in ToSet(works)
      BY <1>0, <2>3 DEF Trees
    <3>2. CASE Layout = h.v /\ l = h.l
      BY <1>4, <1>7, <3>1, <3>2 DEF o
    <3>3. CASE Layout # h.v \/ l # h.l
      BY <1>6, <1>7, <3>1, <3>3, Lebs
    <3> QED BY <3>2, <3>3
  <2>4. ASSUME NEW i \in DOMAIN works', NEW j \in DOMAIN works', i < j,
               IsLeb(works'[i]), IsCopy(works'[j], peb[works'[i]].v, peb[works'[i]].l)
        PROVE  \E q \in Pebs : /\ IsCopy(q, peb[works'[i]].v, peb[works'[i]].l)
                               /\ peb[q].sq > peb[works'[i]].sq
    <3> DEFINE m == Len(works)
    <3>1. /\ m \in Nat /\ DOMAIN works = 1 .. m /\ i \in Nat /\ j \in Nat
          /\ \A k \in 1 .. m : works'[k] = works[k]
          /\ DOMAIN works' = IF o = None THEN 1 .. m ELSE 1 .. m + 1
          /\ o # None => works'[m + 1] = o
      BY <1>2, <1>4
    <3> HIDE DEF m
    <3>2. CASE j \in 1 .. m
      <4>1. i \in 1 .. m /\ works'[i] = works[i] /\ works'[j] = works[j]
        BY <2>4, <3>1, <3>2
      <4> QED BY <1>0, <2>4, <3>1, <3>2, <4>1 DEF Trees
    <3>3. CASE j \notin 1 .. m
      <4>1. o # None /\ j = m + 1 /\ works'[j] = o /\ works'[i] \in Pebs
        BY <1>7, <2>4, <3>1, <3>3
      <4>2. peb[works'[i]].v = h.v /\ peb[works'[i]].l = h.l
        BY <1>5, <2>4, <4>1 DEF IsCopy
      <4>3. peb[works'[i]].sq <= peb[o].sq
        BY <1>5, <2>4, <4>1, <4>2 DEF IsCopy
      <4>4. works'[i] # o
        BY <1>7, <2>4, <4>1 DEF Once
      <4>5. IsLeb(o) /\ peb[works'[i]].sq # peb[o].sq
        BY <1>0, <1>5, <2>4, <4>1, <4>4 DEF FlashOk, IsCopy
      <4>6. peb[works'[i]].sq \in Nat /\ peb[o].sq \in Nat
        BY <1>0, <1>5, <2>4, <4>1, <4>5, LebFacts
      <4>7. peb[o].sq > peb[works'[i]].sq
        BY <4>3, <4>5, <4>6
      <4> QED BY <1>5, <4>1, <4>2, <4>7
    <3> QED BY <3>2, <3>3
  <2>5. /\ \A p \in free : peb[p].st = "free"
        /\ \A p \in Pebs : IsLeb(p) => peb[p].sq < sqnum
    BY <1>0 DEF Trees
  <2>6. peb' = peb /\ free' = free /\ sqnum' = sqnum
    BY <1>2
  <2> QED BY <1>7, <1>8, <2>1, <2>2, <2>3, <2>4, <2>5, <2>6 DEF Trees
<1>11. Layouts'
  <2>0. /\ formatted' /\ Stages(todo') /\ tab' = tab /\ vtbl' = vtbl /\ peb' = peb
    BY <1>0, <1>1, <1>2 DEF Layouts
  <2>1. CASE Now = 2
    <3>1. /\ eba[Layout][0] # None /\ eba[Layout][1] # None /\ peb[eba[Layout][0]].d = Table(tab)
          /\ peb[eba[Layout][1]].d = Table(tab) /\ todo[2].d = Table(vtbl)
      BY <1>0, <2>1 DEF Layouts
    <3>2. Found(Layout, 0)' = Table(tab)
      BY <1>0, <1>8, <3>1, Lebs, MappedIsFound
    <3>3. eba'[Layout][0] = None /\ eba'[Layout][1] = eba[Layout][1]
      BY <1>3, <1>6, <2>1, Lebs
    <3>4. todo' = Tail(todo) /\ todo' # <<>> /\ Stage(todo'[1]) = 3 /\ todo'[1] = todo[2]
      BY <1>1, <2>1
    <3>5. Now' = 3
      BY <3>4 DEF Now
    <3> QED BY <2>0, <3>1, <3>2, <3>3, <3>4, <3>5 DEF Layouts
  <2>2. CASE Now = 4
    <3>1. /\ eba[Layout][0] # None /\ peb[eba[Layout][0]].d = Table(tab)
          /\ todo[2].d = Table(tab) /\ vtbl = tab
      BY <1>0, <2>2 DEF Layouts
    <3>3. eba'[Layout][1] = None /\ eba'[Layout][0] = eba[Layout][0]
      BY <1>3, <1>6, <2>2, Lebs
    <3>4. todo' = Tail(todo) /\ todo' # <<>> /\ Stage(todo'[1]) = 5 /\ todo'[1] = todo[2]
      BY <1>1, <2>2
    <3>5. Now' = 5
      BY <3>4 DEF Now
    <3> QED BY <2>0, <3>1, <3>3, <3>4, <3>5 DEF Layouts
  <2>3. CASE Now = 0
    <3>1. /\ eba[Layout][0] # None /\ eba[Layout][1] # None /\ peb[eba[Layout][0]].d = Table(tab)
          /\ peb[eba[Layout][1]].d = Table(tab) /\ vtbl = tab
      BY <1>0, <2>3 DEF Layouts
    <3>3. eba'[Layout][0] = eba[Layout][0] /\ eba'[Layout][1] = eba[Layout][1]
      BY <1>3, <1>6, <2>3, Lebs
    <3>4. todo' = Tail(todo) /\ (todo' = <<>> \/ Stage(todo'[1]) \in {0, 1})
      BY <1>1, <2>3
    <3>5. Now' \in {0, 1}
      BY <3>4 DEF Now
    <3> QED BY <2>0, <3>1, <3>3, <3>5 DEF Layouts
  <2> QED BY <1>3, <2>1, <2>2, <2>3
<1>12. TableKept' /\ Unformatted'
  BY <1>0, <1>1, <1>2, <1>8, <1>9, <1>10, <1>11, OnKeepsTableNext, OnUnformatted
<1> QED BY <1>8, <1>9, <1>10, <1>11, <1>12 DEF IInv

\* The eraseblock that is erased next holds nothing that is mapped; what it
\* holds of the table is an old copy, or the last one.
LEMMA HeadGone ==
  ASSUME FlashOk, RamOk, Trees, On, works # <<>>, NEW x \in {Free, Corrupt},
         peb' = [peb EXCEPT ![Head(works)] = x]
  PROVE  /\ Head(works) \in Pebs /\ FlashOk'
         /\ \A v \in 0 .. Slots, l \in Lnums : eba[v][l] # None => Found(v, l)' = Found(v, l)
         /\ \A l \in {0, 1} : Found(Layout, l)' \in {Hole, Found(Layout, l)}
<1> DEFINE h == Head(works)
<1>1. /\ h \in Pebs /\ h = works[1] /\ 1 \in DOMAIN works /\ works \in Seq(Pebs)
      /\ Once(works) /\ h \in ToSet(works)
  <2>1. works \in Seq(Pebs) /\ Once(works)
    BY DEF RamOk, Trees
  <2>2. h = works[1] /\ 1 \in DOMAIN works
    BY <2>1
  <2> QED BY <2>1, <2>2, TailFacts
<1>2. x \in PebState /\ x.st # "leb"
  BY DEF PebState, Free, Corrupt
<1>3. /\ FlashOk'
      /\ \A v \in 0 .. Slots, l \in Lnums : ~Newer(v, l, h) => Found(v, l)' = Found(v, l)
  BY <1>1, <1>2, PutFlash
<1> HIDE DEF h
<1>4. ASSUME NEW v \in 0 .. Slots, NEW l \in Lnums, eba[v][l] # None PROVE ~Newer(v, l, h)
  <2> SUFFICES ASSUME Newer(v, l, h) PROVE FALSE
    OBVIOUS
  <2> DEFINE e == eba[v][l]
  <2>1. e \in Pebs /\ Newer(v, l, e) /\ e \notin ToSet(works)
    BY <1>4, MappedIsFound DEF Trees
  <2> HIDE DEF e
  <2>2. IsLeb(e) /\ IsLeb(h) /\ peb[e].sq <= peb[h].sq /\ peb[h].sq <= peb[e].sq
    BY <1>1, <2>1 DEF Newer, IsCopy
  <2>3. peb[e].sq \in Nat /\ peb[h].sq \in Nat
    BY <1>1, <2>1, <2>2, LebFacts
  <2>4. peb[e].sq = peb[h].sq
    BY <2>2, <2>3
  <2>5. e = h
    BY <1>1, <2>1, <2>2, <2>4 DEF FlashOk
  <2> QED BY <1>1, <2>1, <2>5
<1>5. ASSUME NEW l \in {0, 1} PROVE Found(Layout, l)' \in {Hole, Found(Layout, l)}
  <2>0. Layout \in 0 .. Slots /\ l \in Lnums
    BY Lebs
  <2>1. CASE ~Newer(Layout, l, h)
    BY <1>3, <2>0, <2>1
  <2>2. CASE Newer(Layout, l, h)
    <3>1. eba[Layout][l] = None
      BY <1>4, <2>0, <2>2
    <3>2. ASSUME NEW q \in Pebs, IsCopy(q, Layout, l), q # h PROVE FALSE
      <4>1. q \in ToSet(works)
        BY <3>1, <3>2 DEF Trees, None, Pebs
      <4>2. PICK j \in DOMAIN works : works[j] = q
        BY <4>1 DEF ToSet
      <4>3. j \in Nat /\ 1 < j
        BY <1>1, <3>2, <4>2
      <4>4. IsLeb(works[1]) /\ peb[works[1]].v = Layout /\ peb[works[1]].l = l
        BY <1>1, <2>2 DEF Newer, IsCopy
      <4>5. PICK y \in Pebs : IsCopy(y, Layout, l) /\ peb[y].sq > peb[h].sq
        BY <1>1, <3>2, <4>2, <4>3, <4>4 DEF Trees
      <4>6. peb[y].sq <= peb[h].sq /\ IsLeb(y) /\ IsLeb(h)
        BY <2>2, <4>5 DEF Newer, IsCopy
      <4>7. peb[y].sq \in Nat /\ peb[h].sq \in Nat
        BY <1>1, <4>6, LebFacts
      <4> QED BY <4>5, <4>6, <4>7
    <3>3. peb'[h] = x /\ \A q \in Pebs \ {h} : peb'[q] = peb[q]
      BY <1>1 DEF FlashOk, h
    <3>4. \A q \in Pebs : ~IsCopy(q, Layout, l)'
      BY <1>2, <3>2, <3>3 DEF IsCopy, IsLeb
    <3>5. Found(Layout, l)' = Hole
      BY <1>3, <3>4, FoundNext DEF FoundFacts
    <3> QED BY <3>5
  <2> QED BY <2>1, <2>2
<1> QED BY <1>1, <1>3, <1>4, <1>5 DEF h

LEMMA EraseStepKeeps == ASSUME IInv, EraseStep PROVE IInv'
<1>h. PICK h, t, m : h = Head(works) /\ t = Tail(works) /\ m = Len(t)
  OBVIOUS
<1>0. FlashOk /\ RamOk /\ Trees /\ Layouts /\ On
  BY DEF IInv, EraseStep, At, On
<1>1. /\ On' /\ works # <<>> /\ peb' = [peb EXCEPT ![h] = Free]
      /\ free' = free \cup {h} /\ works' = t
      /\ UNCHANGED <<up, vtbl, vols, eba, sqnum, todo, tab, formatted, ops, cuts>>
  BY <1>0, <1>h DEF EraseStep, hist, On
<1>2. /\ h \in Pebs /\ FlashOk'
      /\ \A v \in 0 .. Slots, l \in Lnums : eba[v][l] # None => Found(v, l)' = Found(v, l)
      /\ \A l \in {0, 1} : Found(Layout, l)' \in {Hole, Found(Layout, l)}
  BY <1>0, <1>1, <1>h, HeadGone
<1>3. /\ t \in Seq(Pebs) /\ ToSet(works) = ToSet(t) \cup {h} /\ h \notin ToSet(t) /\ Once(t)
  <2>1. works \in Seq(Pebs) /\ Once(works)
    BY <1>0 DEF RamOk, Trees
  <2> QED BY <1>1, <1>h, <2>1, TailFacts
<1>4. peb'[h] = Free /\ Free.st = "free" /\ \A q \in Pebs \ {h} : peb'[q] = peb[q]
  BY <1>0, <1>1, <1>2 DEF FlashOk, Free
<1>5. RamOk'
  BY <1>0, <1>1, <1>2, <1>3 DEF RamOk
<1>6. /\ m \in Nat /\ DOMAIN t = 1 .. m /\ DOMAIN works = 1 .. m + 1
      /\ \A i \in 1 .. m : t[i] = works[i + 1] /\ i + 1 \in 1 .. m + 1 /\ t[i] \in Pebs
      /\ works[1] = h /\ 1 \in 1 .. m + 1
  <2>1. works \in Seq(Pebs)
    BY <1>0 DEF RamOk
  <2>2. m \in Nat /\ DOMAIN t = 1 .. m /\ DOMAIN works = 1 .. m + 1 /\ works[1] = h
        /\ \A i \in 1 .. m : t[i] = works[i + 1] /\ t[i] \in Pebs
    BY <1>1, <1>h, <2>1
  <2>3. 1 \in 1 .. m + 1 /\ \A i \in 1 .. m : i + 1 \in 1 .. m + 1
    BY <2>2
  <2> QED BY <2>2, <2>3
<1>7. /\ \A q \in Pebs : IsLeb(q)' <=> q # h /\ IsLeb(q)
      /\ \A q \in Pebs : \A v, l : IsCopy(q, v, l)' <=> q # h /\ IsCopy(q, v, l)
  BY <1>4 DEF IsCopy, IsLeb
<1>8. Trees'
  <2>1. \A p \in free' : peb'[p].st = "free"
    BY <1>0, <1>1, <1>2, <1>4 DEF Trees, RamOk
  <2>2. \A i \in DOMAIN t : peb'[t[i]].st # "free"
    <3> SUFFICES ASSUME NEW i \in DOMAIN t PROVE peb'[t[i]].st # "free"
      OBVIOUS
    <3>1. t[i] \in ToSet(t) /\ t[i] \in Pebs
      BY <1>6 DEF ToSet
    <3>2. t[i] # h
      BY <1>3, <3>1
    <3>3. peb[t[i]].st # "free"
      BY <1>0, <1>6 DEF Trees
    <3> QED BY <1>4, <3>1, <3>2, <3>3
  <2>3. ASSUME NEW v \in 0 .. Slots, NEW l \in Lnums, NEW e, e = eba[v][l], e # None
        PROVE  /\ IsCopy(e, v, l)' /\ e \notin ToSet(t)
               /\ \A q \in Pebs : IsCopy(q, v, l)' => peb'[q].sq <= peb'[e].sq
    <3>1. /\ e \in Pebs /\ IsCopy(e, v, l) /\ e \notin ToSet(works)
          /\ \A q \in Pebs : IsCopy(q, v, l) => peb[q].sq <= peb[e].sq
      BY <1>0, <2>3, MappedIsFound DEF Trees
    <3>2. e # h /\ e \notin ToSet(t)
      BY <1>3, <3>1
    <3> QED BY <1>4, <1>7, <3>1, <3>2
  <2>4. \A p \in Pebs : IsLeb(p)' => peb'[p].sq < sqnum
    BY <1>0, <1>4, <1>7 DEF Trees
  <2>5. \A p \in Pebs, l \in {0, 1} : IsCopy(p, Layout, l)' => eba[Layout][l] = p \/ p \in ToSet(t)
    BY <1>0, <1>3, <1>7 DEF Trees
  <2>6. ASSUME NEW i \in DOMAIN t, NEW j \in DOMAIN t, i < j, NEW a, a = t[i], IsLeb(a)',
               NEW v, NEW l, v = peb'[a].v, l = peb'[a].l, IsCopy(t[j], v, l)'
        PROVE  \E q \in Pebs : IsCopy(q, v, l)' /\ peb'[q].sq > peb'[a].sq
    <3>1. /\ a \in Pebs /\ t[j] \in Pebs /\ a = works[i + 1] /\ t[j] = works[j + 1]
          /\ i + 1 \in DOMAIN works /\ j + 1 \in DOMAIN works /\ i + 1 < j + 1 /\ 1 < i + 1
      BY <1>6, <2>6
    <3>2. /\ a # h /\ IsLeb(a) /\ peb'[a] = peb[a] /\ IsCopy(t[j], v, l) /\ IsCopy(a, v, l)
          /\ v = peb[a].v /\ l = peb[a].l
      BY <1>4, <1>7, <2>6, <3>1 DEF IsCopy
    <3>3. PICK q \in Pebs : IsCopy(q, v, l) /\ peb[q].sq > peb[a].sq
      BY <1>0, <3>1, <3>2 DEF Trees
    <3>4. CASE q # h
      BY <1>4, <1>7, <3>2, <3>3, <3>4
    <3>5. CASE q = h
      <4>1. IsLeb(works[1]) /\ peb[works[1]].v = v /\ peb[works[1]].l = l
        BY <1>6, <3>3, <3>5 DEF IsCopy
      <4>2. PICK y \in Pebs : IsCopy(y, v, l) /\ peb[y].sq > peb[h].sq
        BY <1>0, <1>6, <3>1, <3>2, <4>1 DEF Trees
      <4>3. IsLeb(y) /\ IsLeb(h) /\ IsLeb(a)
        BY <3>2, <3>3, <3>5, <4>2 DEF IsCopy
      <4>4. peb[y].sq \in Nat /\ peb[h].sq \in Nat /\ peb[a].sq \in Nat
        BY <1>0, <1>2, <3>1, <4>3, LebFacts
      <4>5. y # h /\ peb[y].sq > peb[a].sq
        BY <3>3, <3>5, <4>2, <4>4
      <4> QED BY <1>4, <1>7, <3>2, <4>2, <4>5
    <3> QED BY <3>4, <3>5
  <2>7. \A i \in DOMAIN t : IsLeb(t[i])' => peb'[t[i]] = peb[t[i]]
    BY <1>4, <1>6, <1>7
  <2> QED BY <1>1, <1>3, <2>1, <2>2, <2>3, <2>4, <2>5, <2>6, <2>7 DEF Trees
<1>9. Layouts'
  <2>1. /\ Now' = Now /\ formatted' /\ Stages(todo') /\ tab' = tab /\ vtbl' = vtbl /\ eba' = eba /\ todo' = todo
    BY <1>0, <1>1 DEF Layouts, Now
  <2>2. \A v \in 0 .. Slots, l \in Lnums : eba[v][l] # None => peb'[eba[v][l]] = peb[eba[v][l]]
    <3> SUFFICES ASSUME NEW v \in 0 .. Slots, NEW l \in Lnums, eba[v][l] # None
                 PROVE  peb'[eba[v][l]] = peb[eba[v][l]]
      OBVIOUS
    <3>1. eba[v][l] \in Pebs /\ eba[v][l] \notin ToSet(works)
      BY <1>0, MappedIsFound DEF Trees
    <3> QED BY <1>3, <1>4, <3>1
  <2>3. Now = 3 => Found(Layout, 0)' \in {Hole, Table(tab)}
    BY <1>0, <1>2 DEF Layouts
  <2>4. /\ eba[Layout][0] # None => peb'[eba[Layout][0]] = peb[eba[Layout][0]]
        /\ eba[Layout][1] # None => peb'[eba[Layout][1]] = peb[eba[Layout][1]]
    BY <2>2, Lebs
  <2> QED BY <1>0, <2>1, <2>3, <2>4 DEF Layouts
<1>10. TableKept' /\ Unformatted'
  BY <1>0, <1>1, <1>2, <1>5, <1>8, <1>9, OnKeepsTableNext, OnUnformatted
<1> QED BY <1>2, <1>5, <1>8, <1>9, <1>10 DEF IInv

\* What a write puts into a free eraseblock.
LEMMA WritePuts ==
  ASSUME FlashOk, RamOk, Trees, On, At("write"), free # {}, NEW p \in Picks,
         NEW d \in Contents, NEW x, x = Leb(Head(todo).v, Head(todo).l, sqnum, Head(todo).used, d)
  PROVE  /\ p \in free /\ p \in Pebs /\ x \in PebState /\ x.st = "leb"
         /\ x.v = Head(todo).v /\ x.l = Head(todo).l /\ x.d = d /\ x.sq = sqnum
         /\ Head(todo).v \in 0 .. Slots /\ Head(todo).l \in Lnums /\ Head(todo).d \in Contents
         /\ \A v, l : ~IsCopy(p, v, l)
         /\ \A q \in Pebs : IsLeb(q) => peb[q].sq < sqnum
<1>1. p \in free /\ p \in Pebs
  BY PicksFree DEF RamOk
<1>2. Head(todo) \in Steps /\ Head(todo).o = "write"
  <2>1. todo \in Seq(Steps) /\ todo # <<>> /\ Head(todo).o = "write"
    BY DEF RamOk, At
  <2> QED BY <2>1
<1>3. /\ Head(todo).v \in 0 .. Slots /\ Head(todo).l \in Lnums /\ Head(todo).used \in Nat
      /\ Head(todo).d \in Contents
  BY <1>2 DEF Steps
<1>4. /\ x \in PebState /\ x.st = "leb" /\ x.v = Head(todo).v /\ x.l = Head(todo).l
      /\ x.d = d /\ x.sq = sqnum
  BY <1>3 DEF PebState, Leb, RamOk
<1>5. peb[p].st = "free"
  BY <1>1 DEF Trees
<1>6. \A v, l : ~IsCopy(p, v, l)
  BY <1>5 DEF IsCopy, IsLeb
<1>7. \A q \in Pebs : IsLeb(q) => peb[q].sq < sqnum
  BY DEF Trees
<1> QED BY <1>1, <1>3, <1>4, <1>6, <1>7

LEMMA WriteStepKeeps == ASSUME IInv, WriteStep PROVE IInv'
<1>0. FlashOk /\ RamOk /\ Trees /\ Layouts /\ On
  BY DEF IInv, WriteStep, At, On
<1>h. PICK h, v, l : h = todo[1] /\ v = h.v /\ l = h.l
  OBVIOUS
<1>1. /\ On' /\ todo # <<>> /\ h.o = "write" /\ todo' = Tail(todo) /\ h = Head(todo) /\ h \in Steps
      /\ Now = Stage(h) /\ Now \in 0 .. 5 /\ free # {} /\ At("write")
      /\ Tail(todo) \in Seq(Steps) /\ Stages(Tail(todo))
      /\ Now \in 1 .. 4 => Tail(todo) # <<>> /\ Stage(Tail(todo)[1]) = Now + 1 /\ Tail(todo)[1] = todo[2]
      /\ Now \notin 1 .. 4 => Tail(todo) = <<>> \/ Stage(Tail(todo)[1]) \in {0, 1}
      /\ Now = 3 => Tail(todo)[2].d = h.d
      /\ Now \in {3, 5} => h.d \in [d : {"table"}, t : Tables]
  <2>1. On' /\ todo # <<>> /\ Head(todo).o = "write" /\ todo' = Tail(todo) /\ free # {} /\ At("write")
    BY DEF WriteStep, At, Advance, On
  <2> QED BY <1>0, <1>h, <2>1, AtHead
<1>2. PICK p, x : /\ p \in Picks /\ x = Leb(v, l, sqnum, h.used, h.d)
                  /\ peb' = [peb EXCEPT ![p] = x]
                  /\ eba' = [eba EXCEPT ![v][l] = p] /\ free' = free \ {p}
  BY <1>1, <1>h DEF WriteStep
<1>3. /\ Commits(h) /\ sqnum' = sqnum + 1
      /\ UNCHANGED <<up, vtbl, vols, works, ops, cuts>>
  BY <1>1 DEF WriteStep
<1>4. /\ v \in 0 .. Slots /\ l \in Lnums /\ h.d \in Contents
      /\ \/ Now = 3 /\ v = Layout /\ l = 0
         \/ Now = 5 /\ v = Layout /\ l = 1
         \/ Now = 0 /\ ~(v = Layout /\ l \in {0, 1})
  <2>1. v \in 0 .. Slots /\ l \in Lnums /\ h.d \in Contents
    BY <1>1, <1>h DEF Steps
  <2> QED BY <1>1, <1>h, <2>1 DEF Stage
<1>5. /\ p \in free /\ p \in Pebs /\ x \in PebState /\ x.st = "leb" /\ x.v = v /\ x.l = l
      /\ x.d = h.d /\ x.sq = sqnum
      /\ \A a, b : ~IsCopy(p, a, b)
      /\ \A q \in Pebs : IsLeb(q) => peb[q].sq < sqnum
  BY <1>0, <1>1, <1>2, <1>4, <1>h, WritePuts
<1>6. /\ FlashOk' /\ Found(v, l)' = h.d
      /\ \A a \in 0 .. Slots, b \in Lnums : a # v \/ b # l => Found(a, b)' = Found(a, b)
  <2>1. x.st = "leb" => \A q \in Pebs : IsLeb(q) => peb[q].sq < x.sq
    BY <1>5
  <2>2. \A a, b : ~Newer(a, b, p)
    BY <1>5 DEF Newer
  <2> QED BY <1>0, <1>2, <1>5, <2>1, <2>2, PutFlash
<1>7. /\ peb'[p] = x /\ \A q \in Pebs \ {p} : peb'[q] = peb[q]
      /\ eba \in EbaState /\ eba' \in EbaState /\ eba'[v][l] = p
      /\ \A a \in 0 .. Slots, b \in Lnums : a # v \/ b # l => eba'[a][b] = eba[a][b]
      /\ None \notin Pebs /\ works \in Seq(Pebs) /\ sqnum \in Nat
  <2>1. eba \in EbaState /\ works \in Seq(Pebs) /\ sqnum \in Nat
    BY <1>0 DEF RamOk
  <2>2. peb'[p] = x /\ \A q \in Pebs \ {p} : peb'[q] = peb[q]
    BY <1>0, <1>2, <1>5 DEF FlashOk
  <2>3. /\ eba' \in EbaState /\ eba'[v][l] = p
        /\ \A a \in 0 .. Slots, b \in Lnums : a # v \/ b # l => eba'[a][b] = eba[a][b]
    BY <1>2, <1>4, <1>5, <2>1 DEF EbaState
  <2> QED BY <2>1, <2>2, <2>3 DEF Pebs, None
<1>8. /\ \A q \in Pebs : IsLeb(q)' <=> q = p \/ IsLeb(q)
      /\ \A q \in Pebs : \A a, b : IsCopy(q, a, b)' <=> (q = p /\ a = v /\ b = l) \/ IsCopy(q, a, b)
  BY <1>5, <1>7 DEF IsCopy, IsLeb
<1>9. tab' \in Tables /\ formatted' = formatted /\ (Now # 3 => tab' = tab) /\ (Now = 3 => Table(tab') = h.d)
  <2>1. CASE Now = 3
    <3>1. tab' = h.d.t /\ formatted' = formatted
      BY <1>3, <1>4, <1>h, <2>1 DEF Commits
    <3>2. h.d \in [d : {"table"}, t : Tables]
      BY <1>1, <2>1
    <3>3. h.d.t \in Tables /\ Table(h.d.t) = h.d
      BY <3>2 DEF Table
    <3> QED BY <2>1, <3>1, <3>3
  <2>2. CASE Now # 3
    <3>1. tab' = tab /\ formatted' = formatted
      BY <1>3, <1>4, <1>h, <2>2 DEF Commits, hist
    <3> QED BY <1>0, <2>2, <3>1 DEF RamOk
  <2> QED BY <2>1, <2>2
<1>10. RamOk'
  <2>1. sqnum' \in Nat /\ free' \subseteq Pebs
    BY <1>0, <1>2, <1>3, <1>7 DEF RamOk
  <2> QED BY <1>0, <1>1, <1>3, <1>7, <1>9, <2>1 DEF RamOk, On
<1>11. p \notin ToSet(works)
  <2>1. \A i \in DOMAIN works : peb[works[i]].st # "free"
    BY <1>0 DEF Trees
  <2>2. peb[p].st = "free"
    BY <1>0, <1>5 DEF Trees
  <2> QED BY <2>1, <2>2 DEF ToSet
<1>12. \A i \in DOMAIN works : works[i] \in Pebs /\ works[i] # p /\ peb'[works[i]] = peb[works[i]]
  BY <1>7, <1>11 DEF ToSet
<1>13. Trees'
  <2>1. \A q \in free' : peb'[q].st = "free"
    BY <1>0, <1>2, <1>7 DEF Trees, RamOk
  <2>2. Once(works) /\ \A i \in DOMAIN works : peb'[works[i]].st # "free"
    BY <1>0, <1>12 DEF Trees
  <2>3. ASSUME NEW a \in 0 .. Slots, NEW b \in Lnums, NEW e, e = eba'[a][b], e # None
        PROVE  /\ IsCopy(e, a, b)' /\ e \notin ToSet(works)
               /\ \A q \in Pebs : IsCopy(q, a, b)' => peb'[q].sq <= peb'[e].sq
    <3>1. CASE a = v /\ b = l
      <4>1. e = p /\ e \in Pebs /\ IsCopy(e, a, b)' /\ e \notin ToSet(works)
        BY <1>5, <1>7, <1>8, <1>11, <2>3, <3>1
      <4>2. ASSUME NEW q \in Pebs, IsCopy(q, a, b)' PROVE peb'[q].sq <= peb'[e].sq
        <5>1. CASE q = p
          BY <1>5, <1>7, <4>1, <5>1
        <5>2. CASE q # p
          <6>1. IsLeb(q) /\ peb[q].sq < sqnum /\ peb'[q] = peb[q] /\ peb'[e].sq = sqnum
            BY <1>5, <1>7, <1>8, <4>1, <4>2, <5>2 DEF IsCopy
          <6>2. peb[q].sq \in Nat
            BY <1>0, <6>1, LebFacts
          <6> QED BY <1>7, <6>1, <6>2
        <5> QED BY <5>1, <5>2
      <4> QED BY <4>1, <4>2
    <3>2. CASE a # v \/ b # l
      <4>1. /\ e = eba[a][b] /\ e \in Pebs /\ IsCopy(e, a, b) /\ e \notin ToSet(works)
            /\ \A q \in Pebs : IsCopy(q, a, b) => peb[q].sq <= peb[e].sq
        BY <1>0, <1>7, <2>3, <3>2, MappedIsFound DEF Trees
      <4>2. e # p
        BY <1>5, <4>1
      <4>3. \A q \in Pebs : IsCopy(q, a, b)' => IsCopy(q, a, b) /\ q # p
        BY <1>5, <1>8, <3>2
      <4> QED BY <1>7, <1>8, <4>1, <4>2, <4>3
    <3> QED BY <3>1, <3>2
  <2>4. ASSUME NEW q \in Pebs, IsLeb(q)' PROVE peb'[q].sq < sqnum'
    <3>1. CASE q = p
      BY <1>3, <1>5, <1>7, <3>1
    <3>2. CASE q # p
      <4>1. IsLeb(q) /\ peb'[q] = peb[q] /\ peb[q].sq < sqnum
        BY <1>5, <1>7, <1>8, <2>4, <3>2
      <4>2. peb[q].sq \in Nat
        BY <1>0, <4>1, LebFacts
      <4> QED BY <1>3, <1>7, <4>1, <4>2
    <3> QED BY <3>1, <3>2
  <2>5. ASSUME NEW q \in Pebs, NEW b \in {0, 1}, IsCopy(q, Layout, b)'
        PROVE  eba'[Layout][b] = q \/ q \in ToSet(works)
    <3>1. CASE v = Layout /\ b = l
      <4>1. eba[v][l] = None
        BY <1>0, <1>4, <3>1 DEF Layouts
      <4>2. CASE q = p
        BY <1>7, <3>1, <4>2
      <4>3. CASE q # p
        <5>1. IsCopy(q, Layout, b)
          BY <1>8, <2>5, <4>3
        <5> QED BY <1>0, <1>7, <3>1, <4>1, <5>1 DEF Trees
      <4> QED BY <4>2, <4>3
    <3>2. CASE v # Layout \/ b # l
      <4>1. IsCopy(q, Layout, b) /\ eba'[Layout][b] = eba[Layout][b]
        BY <1>7, <1>8, <2>5, <3>2, Lebs
      <4> QED BY <1>0, <4>1 DEF Trees
    <3> QED BY <3>1, <3>2
  <2>6. ASSUME NEW i \in DOMAIN works, NEW j \in DOMAIN works, i < j, NEW a, a = works[i], IsLeb(a)',
               NEW c, NEW b, c = peb'[a].v, b = peb'[a].l, NEW y, y = works[j], IsCopy(y, c, b)'
        PROVE  \E q \in Pebs : IsCopy(q, c, b)' /\ peb'[q].sq > peb'[a].sq
    <3>1. /\ a \in Pebs /\ a # p /\ IsLeb(a) /\ peb'[a] = peb[a] /\ c = peb[a].v /\ b = peb[a].l
          /\ y \in Pebs /\ IsCopy(y, c, b)
      BY <1>8, <1>12, <2>6
    <3>2. PICK q \in Pebs : IsCopy(q, c, b) /\ peb[q].sq > peb[a].sq
      BY <1>0, <2>6, <3>1 DEF Trees
    <3>3. q # p
      BY <1>5, <3>2
    <3> QED BY <1>7, <1>8, <3>1, <3>2, <3>3
  <2>7. works' = works
    BY <1>3
  <2> QED BY <2>1, <2>2, <2>3, <2>4, <2>5, <2>6, <2>7 DEF Trees
<1>14. Layouts'
  <2>0. formatted' /\ Stages(todo') /\ vtbl' = vtbl /\ todo' = Tail(todo)
    BY <1>0, <1>1, <1>3, <1>9 DEF Layouts
  <2>1. ASSUME NEW b \in Lnums, b # l \/ v # Layout, NEW e, e = eba[Layout][b], e # None
        PROVE  eba'[Layout][b] = e /\ peb'[e] = peb[e]
    <3>1. e \in Pebs /\ IsCopy(e, Layout, b)
      BY <1>0, <2>1, Lebs, MappedIsFound DEF Newer
    <3>2. e # p
      BY <1>5, <3>1
    <3> QED BY <1>7, <2>1, <3>1, <3>2, Lebs
  <2>2. CASE Now = 3
    <3>1. eba[Layout][1] # None /\ h.d = Table(vtbl)
      BY <1>0, <1>h, <2>2 DEF Layouts
    <3>2. eba'[Layout][0] = p /\ eba'[Layout][0] # None /\ peb'[p].d = Table(tab')
      BY <1>4, <1>5, <1>7, <1>9, <2>2
    <3>3. eba'[Layout][1] # None
      BY <1>4, <2>1, <2>2, <3>1, Lebs
    <3>4. todo' # <<>> /\ Stage(todo'[1]) = 4 /\ todo'[2].d = Table(tab')
      <4>1. Tail(todo) # <<>> /\ Stage(Tail(todo)[1]) = 4
        BY <1>1, <2>2
      <4>2. Tail(todo)[2].d = h.d
        BY <1>1, <2>2
      <4>3. Table(tab') = h.d
        BY <1>9, <2>2
      <4> QED BY <2>0, <4>1, <4>2, <4>3
    <3>5. Now' = 4
      BY <3>4 DEF Now
    <3>6. vtbl' = tab'
      <4>1. Table(vtbl) = Table(tab')
        BY <1>9, <2>2, <3>1
      <4> QED BY <2>0, <4>1, Contradistinct
    <3>7. eba'[Layout][1] # None /\ eba'[Layout][0] # None /\ peb'[eba'[Layout][0]].d = Table(tab')
      BY <3>2, <3>3
    <3>8. todo'[2].d = Table(tab') /\ formatted' /\ Stages(todo')
      BY <2>0, <3>4
    <3> QED BY <3>5, <3>6, <3>7, <3>8 DEF Layouts
  <2>3. CASE Now = 5
    <3>1. eba[Layout][0] # None /\ peb[eba[Layout][0]].d = Table(tab) /\ h.d = Table(tab) /\ vtbl = tab
      BY <1>0, <1>h, <2>3 DEF Layouts
    <3>2. eba'[Layout][1] = p /\ eba'[Layout][1] # None /\ peb'[p].d = Table(tab')
      BY <1>4, <1>5, <1>7, <1>9, <2>3, <3>1
    <3>3. eba'[Layout][0] # None /\ peb'[eba'[Layout][0]].d = Table(tab')
      BY <1>4, <1>9, <2>1, <2>3, <3>1, Lebs
    <3>4. todo' = <<>> \/ Stage(todo'[1]) \in {0, 1}
      BY <1>1, <2>3
    <3>5. Now' \in {0, 1}
      BY <3>4 DEF Now
    <3>6. vtbl' = tab'
      BY <1>9, <2>0, <2>3, <3>1
    <3> QED BY <2>0, <3>2, <3>3, <3>5, <3>6 DEF Layouts
  <2>4. CASE Now = 0
    <3>1. /\ eba[Layout][0] # None /\ peb[eba[Layout][0]].d = Table(tab) /\ vtbl = tab
          /\ eba[Layout][1] # None /\ peb[eba[Layout][1]].d = Table(tab)
      BY <1>0, <2>4 DEF Layouts
    <3>2. ~(v = Layout /\ l \in {0, 1})
      BY <1>4, <2>4
    <3>3. /\ eba'[Layout][0] # None /\ peb'[eba'[Layout][0]].d = Table(tab')
          /\ eba'[Layout][1] # None /\ peb'[eba'[Layout][1]].d = Table(tab')
      BY <1>9, <2>1, <2>4, <3>1, <3>2, Lebs
    <3>4. todo' = <<>> \/ Stage(todo'[1]) \in {0, 1}
      BY <1>1, <2>4
    <3>5. Now' \in {0, 1}
      BY <3>4 DEF Now
    <3>6. vtbl' = tab'
      BY <1>9, <2>0, <2>4, <3>1
    <3> QED BY <2>0, <3>3, <3>5, <3>6 DEF Layouts
  <2> QED BY <1>4, <2>2, <2>3, <2>4
<1>15. TableKept' /\ Unformatted'
  BY <1>0, <1>1, <1>6, <1>9, <1>10, <1>13, <1>14, OnKeepsTableNext, OnUnformatted
<1> QED BY <1>6, <1>10, <1>13, <1>14, <1>15 DEF IInv

(***************************************************************************)
(* A power loss.                                                           *)
(***************************************************************************)
LEMMA OffFacts ==
  EmptyTable \in Tables /\ NoVol \in VolState /\ ScanInit.leb \in EbaState /\ <<>> \in Seq(Pebs) /\ <<>> \in Seq(Steps)
<1>1. NoRec \in [size : Sizes, type : Types, upd : BOOLEAN, auto : BOOLEAN]
  BY SizesNat DEF NoRec, Rec, Types
<1>2. EmptyTable \in Tables
  BY <1>1 DEF EmptyTable, Tables
<1>3. NoVol \in VolState
  BY SizesNat DEF NoVol, VolState, Types
<1>4. ScanInit.leb \in EbaState
  BY DEF ScanInit, EbaState
<1> QED BY <1>2, <1>3, <1>4

\* What the power loss leaves of the two copies of the table.
LEMMA CutTable == ASSUME IInv, On, peb' \in Halves, tab' = tab PROVE FlashOk' /\ TableKept'
<1>0. FlashOk /\ RamOk /\ Trees /\ Layouts /\ TableKept
  BY DEF IInv
<1>h. PICK h, v, l : h = Head(todo) /\ v = h.v /\ l = h.l
  OBVIOUS
<1>1. CASE peb' = peb
  <2>1. FlashOk' /\ \A a, b : Found(a, b)' = Found(a, b)
    BY <1>0, <1>1, FlashSame
  <2>2. formatted
    BY <1>0 DEF Layouts
  <2> QED BY <1>0, <2>1, <2>2 DEF TableKept
<1>2. /\ eba[Layout][0] # None => Found(Layout, 0) = Table(tab)
      /\ Now # 3 => eba[Layout][0] # None
      /\ Now = 3 => eba[Layout][1] # None /\ Found(Layout, 1) = Table(tab)
      /\ Now = 3 => Found(Layout, 0) \in {Hole, Table(tab)}
  BY <1>0, Lebs, MappedIsFound DEF Layouts
<1>3. CASE At("write") /\ free # {}
  <2>1. PICK p \in Picks :
          peb' \in {peb, [peb EXCEPT ![p] = Corrupt], [peb EXCEPT ![p] = Leb(v, l, sqnum, h.used, Torn)]}
    <3>1. Picks # {}
      BY DEF Picks
    <3>2. Halves = {peb} \cup {[peb EXCEPT ![p] = x] : p \in Picks,
                                 x \in {Corrupt, Leb(h.v, h.l, sqnum, h.used, Torn)}}
      BY <1>3, <1>h DEF Halves
    <3>3. CASE peb' = peb
      BY <3>1, <3>3
    <3>4. CASE peb' # peb
      <4>1. PICK p \in Picks, x \in {Corrupt, Leb(h.v, h.l, sqnum, h.used, Torn)} :
              peb' = [peb EXCEPT ![p] = x]
        BY <3>2, <3>4
      <4> QED BY <1>h, <4>1
    <3> QED BY <3>3, <3>4
  <2>2. PICK x : x = Leb(v, l, sqnum, h.used, Torn)
    OBVIOUS
  <2>3. /\ p \in free /\ p \in Pebs /\ x \in PebState /\ x.st = "leb" /\ x.v = v /\ x.l = l
        /\ x.d = Torn /\ x.sq = sqnum /\ v \in 0 .. Slots /\ l \in Lnums
        /\ \A a, b : ~IsCopy(p, a, b)
        /\ \A q \in Pebs : IsLeb(q) => peb[q].sq < sqnum
    <3>1. Torn \in Contents
      BY DEF Contents
    <3> QED BY <1>0, <1>3, <1>h, <2>2, <3>1, WritePuts
  <2>4. \A a, b : ~Newer(a, b, p)
    BY <2>3 DEF Newer
  <2>5. CASE peb' = [peb EXCEPT ![p] = Corrupt]
    <3>1. Corrupt \in PebState /\ Corrupt.st # "leb"
      BY DEF PebState, Corrupt
    <3>2. FlashOk' /\ \A a \in 0 .. Slots, b \in Lnums : Found(a, b)' = Found(a, b)
      BY <1>0, <2>3, <2>4, <2>5, <3>1, PutFlash
    <3>3. Found(Layout, 0)' = Found(Layout, 0) /\ Found(Layout, 1)' = Found(Layout, 1)
      BY <3>2, Lebs
    <3>4. formatted
      BY <1>0 DEF Layouts
    <3> QED BY <1>0, <3>2, <3>3, <3>4 DEF TableKept
  <2>6. CASE peb' = [peb EXCEPT ![p] = x]
    <3>1. /\ FlashOk' /\ Found(v, l)' = Torn
          /\ \A a \in 0 .. Slots, b \in Lnums : a # v \/ b # l => Found(a, b)' = Found(a, b)
      <4>1. x.st = "leb" => \A q \in Pebs : IsLeb(q) => peb[q].sq < x.sq
        BY <2>3
      <4> QED BY <1>0, <2>3, <2>4, <2>6, <4>1, PutFlash
    <3>2. todo # <<>> /\ h.o = "write" /\ h = todo[1] /\ Now = Stage(h)
      <4>1. todo # <<>> /\ h.o = "write"
        BY <1>3, <1>h DEF At
      <4> QED BY <1>0, <1>h, <4>1, AtHead
    <3>3. CASE v = Layout /\ l = 0
      <4>1. Now = 3
        BY <1>h, <3>2, <3>3 DEF Stage
      <4>2. Found(Layout, 0)' = Torn /\ Found(Layout, 1)' = Found(Layout, 1)
        BY <3>1, <3>3, Lebs
      <4>3. Found(Layout, 1)' = Table(tab) /\ Found(Layout, 0)' \in {Hole, Torn}
        BY <1>2, <4>1, <4>2
      <4> QED BY <3>1, <4>3 DEF TableKept
    <3>4. CASE ~(v = Layout /\ l = 0)
      <4>1. Now # 3
        BY <1>h, <3>2, <3>4 DEF Stage
      <4>2. Found(Layout, 0)' = Found(Layout, 0)
        BY <3>1, <3>4, Lebs
      <4>3. Found(Layout, 0)' = Table(tab)
        BY <1>2, <4>1, <4>2
      <4> QED BY <3>1, <4>3 DEF TableKept
    <3> QED BY <3>3, <3>4
  <2> QED BY <1>1, <2>1, <2>2, <2>5, <2>6
<1>4. CASE works # <<>> /\ peb' = [peb EXCEPT ![Head(works)] = Corrupt]
  <2>1. /\ FlashOk'
        /\ \A a \in 0 .. Slots, b \in Lnums : eba[a][b] # None => Found(a, b)' = Found(a, b)
        /\ \A b \in {0, 1} : Found(Layout, b)' \in {Hole, Found(Layout, b)}
    BY <1>0, <1>4, HeadGone
  <2>2. CASE Now = 3
    <3>1. Found(Layout, 1)' = Table(tab)
      BY <1>2, <2>1, <2>2, Lebs
    <3>2. Found(Layout, 0)' \in {Hole, Table(tab)}
      BY <1>2, <2>1, <2>2
    <3> QED BY <2>1, <3>1, <3>2 DEF TableKept
  <2>3. CASE Now # 3
    <3>1. Found(Layout, 0)' = Table(tab)
      BY <1>2, <2>1, <2>3, Lebs
    <3> QED BY <2>1, <3>1 DEF TableKept
  <2> QED BY <2>1, <2>2, <2>3
<1>5. peb' = peb \/ (At("write") /\ free # {}) \/ (works # <<>> /\ peb' = [peb EXCEPT ![Head(works)] = Corrupt])
  BY DEF Halves
<1> QED BY <1>1, <1>3, <1>4, <1>5

LEMMA CutKeeps == ASSUME IInv, Cut PROVE IInv'
<1>0. RamOk /\ Layouts
  BY DEF IInv
<1>1. /\ On /\ up' = "off" /\ RamOff /\ peb' \in Halves
      /\ UNCHANGED <<tab, formatted, ops>> /\ cuts' = cuts + 1
  BY DEF Cut, On
<1>2. FlashOk' /\ TableKept'
  BY <1>1, CutTable
<1>3. ~On'
  BY <1>1 DEF On
<1>4. Trees' /\ Layouts'
  BY <1>3 DEF Trees, Layouts
<1>5. Unformatted'
  BY <1>0, <1>1 DEF Unformatted, Layouts
<1>6. RamOk'
  <2>1. /\ vtbl' = EmptyTable /\ vols' = [s \in Vols |-> NoVol] /\ eba' = ScanInit.leb /\ free' = {}
        /\ works' = <<>> /\ sqnum' = 0 /\ todo' = <<>> /\ cuts' \in Nat
    BY <1>0, <1>1 DEF RamOff, RamOk
  <2> QED BY <1>0, <1>1, <2>1, OffFacts DEF RamOk
<1> QED BY <1>2, <1>4, <1>5, <1>6 DEF IInv

(***************************************************************************)
(* Commands: each starts a program that begins outside a change.           *)
(***************************************************************************)
LEMMA StartKeeps ==
  ASSUME IInv, On, todo = <<>>, Whole(todo'), vols' \in [Vols -> VolState], ops' \in Nat,
         UNCHANGED <<peb, up, vtbl, eba, free, works, sqnum, hist, cuts>>
  PROVE  IInv'
<1>0. FlashOk /\ RamOk /\ Trees /\ Layouts
  BY DEF IInv
<1>1. FlashOk' /\ Trees'
  BY <1>0, FlashSame, TreesSame
<1>2. todo' \in Seq(Steps) /\ Stages(todo') /\ (todo' # <<>> => Stage(todo'[1]) \in {0, 1})
  BY DEF Whole
<1>3. RamOk'
  BY <1>0, <1>2 DEF RamOk, hist, On
<1>4. Layouts'
  <2>1. Now = 0
    BY DEF Now
  <2>2. Now' \in {0, 1}
    BY <1>2 DEF Now
  <2>3. /\ formatted /\ eba[Layout][0] # None /\ eba[Layout][1] # None /\ peb[eba[Layout][0]].d = Table(tab)
        /\ peb[eba[Layout][1]].d = Table(tab) /\ vtbl = tab
    BY <1>0, <2>1 DEF Layouts
  <2>4. tab' = tab /\ formatted' = formatted /\ eba' = eba /\ peb' = peb /\ vtbl' = vtbl
    BY DEF hist
  <2> QED BY <1>2, <2>2, <2>3, <2>4 DEF Layouts
<1>5. On'
  BY DEF On
<1>6. TableKept' /\ Unformatted'
  BY <1>0, <1>1, <1>3, <1>4, <1>5, OnKeepsTableNext, OnUnformatted DEF hist
<1> QED BY <1>1, <1>3, <1>4, <1>6 DEF IInv

LEMMA CommandKeeps == ASSUME IInv, Command PROVE IInv'
<1>0. RamOk /\ vtbl \in Tables /\ vols \in [Vols -> VolState] /\ ops \in Nat /\ ops + 1 \in Nat
  BY DEF IInv, RamOk
<1>1. Vtbls
  BY <1>0 DEF Vtbls
<1>2. PICK s \in Vols, n \in 0 .. MaxLebs :
        \/ n > 0 /\ \E type \in {"static", "dynamic"} : CreateVol(n, type)
        \/ RemoveVol(s)
        \/ WriteVol(s, n)
  BY DEF Command
<1>3. n \in Sizes
  BY DEF Sizes
<1>4. ASSUME NEW type \in {"static", "dynamic"}, CreateVol(n, type) PROVE IInv'
  <2>1. PICK r \in Vols : todo' = Make(r, n, type)
    BY <1>4 DEF CreateVol, Start
  <2>2. Whole(todo')
    BY <1>1, <1>3, <2>1, WholeMake
  <2>3. /\ On /\ todo = <<>> /\ ops' = ops + 1
        /\ UNCHANGED <<peb, up, vtbl, vols, eba, free, works, sqnum, hist, cuts>>
    BY <1>4 DEF CreateVol, Ready, On
  <2> QED BY <1>0, <2>2, <2>3, StartKeeps
<1>5. CASE RemoveVol(s)
  <2>2. Whole(todo')
    BY <1>1, <1>5, WholeUnmake DEF RemoveVol, Start
  <2>3. /\ On /\ todo = <<>> /\ ops' = ops + 1
        /\ UNCHANGED <<peb, up, vtbl, vols, eba, free, works, sqnum, hist, cuts>>
    BY <1>5 DEF RemoveVol, Ready, On
  <2> QED BY <1>0, <2>2, <2>3, StartKeeps
<1>6. CASE WriteVol(s, n)
  <2>2. Whole(todo')
    BY <1>1, <1>3, <1>6, WholeUpdate DEF WriteVol, Start
  <2>3. /\ On /\ todo = <<>> /\ ops' = ops + 1 /\ vols' = [vols EXCEPT ![s].updating = TRUE]
        /\ UNCHANGED <<peb, up, vtbl, eba, free, works, sqnum, hist, cuts>>
    BY <1>6 DEF WriteVol, Ready, On
  <2>4. vols' \in [Vols -> VolState]
    <3>1. vols[s] \in VolState
      BY <1>0
    <3>2. [vols[s] EXCEPT !.updating = TRUE] \in VolState
      BY <3>1 DEF VolState
    <3>3. vols' = [vols EXCEPT ![s] = [vols[s] EXCEPT !.updating = TRUE]]
      BY <1>0, <2>3
    <3> QED BY <1>0, <3>2, <3>3
  <2> QED BY <1>0, <2>2, <2>3, <2>4, StartKeeps
<1> QED BY <1>2, <1>4, <1>5, <1>6

(***************************************************************************)
(* An attach: what the scan finds of the table, and what it restores.      *)
(***************************************************************************)
LEMMA ScanFinds ==
  ASSUME FlashOk, NEW v \in 0 .. Slots, NEW l \in Lnums, NEW q, q = Scan.leb[v][l]
  PROVE  /\ q = None => Found(v, l) = Hole
         /\ q # None => q \in Pebs /\ Newer(v, l, q) /\ Found(v, l) = peb[q].d /\ Found(v, l) # Hole
<1>1. ScanTable(Scan, Pebs)
  BY ScanHolds DEF ScanOk, Pebs
<1>2. CASE q # None
  <2>1. q \in Pebs /\ Newer(v, l, q)
    BY <1>1, <1>2 DEF ScanTable, Newer
  <2>2. Found(v, l) = peb[q].d /\ Found(v, l) # Hole
    BY <2>1, FoundIs DEF Newer
  <2> QED BY <1>2, <2>1, <2>2
<1>3. CASE q = None
  <2>1. ASSUME NEW p \in Pebs, IsCopy(p, v, l) PROVE FALSE
    <3>1. IsLeb(p) /\ peb[p].v = v /\ peb[p].l = l /\ p # None
      BY <2>1 DEF IsCopy, Pebs, None
    <3>2. p \in ToSet(Scan.erase)
      BY <1>1, <1>3, <3>1 DEF ScanTable
    <3>3. Scan.leb[v][l] # None
      BY <1>1, <3>1, <3>2 DEF ScanTable
    <3> QED BY <1>3, <3>3
  <2> QED BY <1>3, <2>1, FoundIs
<1> QED BY <1>2, <1>3

LEMMA CopyIs ==
  ASSUME FlashOk, NEW i \in {0, 1}
  PROVE  /\ Copy(Scan, i) = IF Found(Layout, i) = Hole THEN Torn ELSE Found(Layout, i)
         /\ Copy(Scan, i) # Torn => Scan.leb[Layout][i] # None
<1>1. Layout \in 0 .. Slots /\ i \in Lnums
  BY Lebs
<1> QED BY <1>1, ScanFinds DEF Copy

\* What there is to restore is a copy of the last table.
LEMMA RestoreIs ==
  ASSUME FlashOk, TableKept, Unformatted, NEW r, r = ToRestore(Scan), formatted \in BOOLEAN
  PROVE  /\ r # Nothing => /\ r.i \in {0, 1} /\ r.d = Table(tab)
                           /\ r.i = 1 => Found(Layout, 0) = Table(tab)
                           /\ r.i = 0 /\ formatted => Found(Layout, 1) = Table(tab)
         /\ r = Nothing /\ Copy(Scan, 0) # Torn =>
              /\ formatted /\ Copy(Scan, 0) = Table(tab) /\ Copy(Scan, 1) = Table(tab)
<1> DEFINE c0 == Copy(Scan, 0)
           c1 == Copy(Scan, 1)
           e == [i |-> 0, d |-> Table(EmptyTable)]
           a == [i |-> 1, d |-> c0]
           b == [i |-> 0, d |-> c1]
<1>1. /\ c0 = IF Found(Layout, 0) = Hole THEN Torn ELSE Found(Layout, 0)
      /\ c1 = IF Found(Layout, 1) = Hole THEN Torn ELSE Found(Layout, 1)
  BY CopyIs
<1>2. r = IF IsEmpty THEN e
          ELSE IF c0 # Torn /\ c1 # c0 THEN a ELSE IF c0 = Torn /\ c1 # Torn THEN b ELSE Nothing
  BY DEF ToRestore
<1>3. IsEmpty => Found(Layout, 0) = Hole /\ Found(Layout, 1) = Hole
  <2> SUFFICES ASSUME IsEmpty PROVE Found(Layout, 0) = Hole /\ Found(Layout, 1) = Hole
    OBVIOUS
  <2>1. \A p \in Pebs : \A l : ~IsCopy(p, Layout, l)
    BY DEF IsEmpty, IsCopy, IsLeb
  <2> QED BY <2>1, FoundIs
<1>4. e # Nothing /\ a # Nothing /\ (c1 # Torn => b # Nothing)
  <2>1. Nothing.i = 0 /\ Nothing.d = Torn
    BY DEF Nothing
  <2>2. e.d = Table(EmptyTable) /\ a.i = 1 /\ b.d = c1
    OBVIOUS
  <2>3. Table(EmptyTable) # Torn
    BY Contradistinct
  <2> QED BY <2>1, <2>2, <2>3
<1>5. e.i = 0 /\ e.d = Table(EmptyTable) /\ a.i = 1 /\ a.d = c0 /\ b.i = 0 /\ b.d = c1
  OBVIOUS
<1>6. Hole # Torn /\ \A t : Table(t) # Hole /\ Table(t) # Torn
  BY Contradistinct
<1> HIDE DEF c0, c1, e, a, b
<1>7. CASE formatted
  <2>1. ~IsEmpty
    BY <1>3, <1>6, <1>7 DEF TableKept
  <2>2. CASE Found(Layout, 0) = Table(tab)
    BY <1>1, <1>2, <1>4, <1>5, <1>6, <1>7, <2>1, <2>2 DEF c0, c1
  <2>3. CASE Found(Layout, 0) \in {Hole, Torn} /\ Found(Layout, 1) = Table(tab)
    BY <1>1, <1>2, <1>4, <1>5, <1>6, <1>7, <2>1, <2>3 DEF c0, c1
  <2> QED BY <1>7, <2>2, <2>3 DEF TableKept
<1>8. CASE ~formatted
  <2>1. /\ tab = EmptyTable /\ Found(Layout, 1) \in {Hole, Torn}
        /\ Found(Layout, 0) \in {Hole, Torn, Table(EmptyTable)}
    BY <1>8 DEF Unformatted
  <2>2. c1 = Torn /\ c0 \in {Torn, Table(tab)}
    BY <1>1, <2>1
  <2>3. CASE IsEmpty
    BY <1>2, <1>4, <1>5, <1>8, <2>1, <2>3
  <2>4. CASE ~IsEmpty /\ c0 = Torn
    BY <1>2, <2>2, <2>4 DEF c0
  <2>5. CASE ~IsEmpty /\ c0 # Torn
    <3>1. r = a /\ c0 = Table(tab) /\ Found(Layout, 0) = Table(tab)
      BY <1>1, <1>2, <2>2, <2>5
    <3> QED BY <1>4, <1>5, <3>1
  <2> QED BY <2>3, <2>4, <2>5
<1> QED BY <1>7, <1>8

\* No spare eraseblock is the newest copy of anything.
LEMMA SpareIs ==
  ASSUME FlashOk, NEW p \in Spare(Scan)
  PROVE  p \in Pebs /\ \A v, l : ~Newer(v, l, p)
<1>1. ScanLists(Scan, Pebs) /\ ScanTable(Scan, Pebs) /\ Scan \in ScanState
  BY ScanHolds DEF ScanOk, Pebs
<1>2. p \in Pebs
  BY <1>1 DEF Spare, ScanLists
<1>3. ASSUME NEW v, NEW l, Newer(v, l, p) PROVE FALSE
  <2>1. IsLeb(p) /\ peb[p].v = v /\ peb[p].l = l
    BY <1>3 DEF Newer, IsCopy
  <2>2. p \in ToSet(Scan.erase)
    BY <1>1, <2>1 DEF Spare, ScanLists, IsLeb
  <2>3. v \in 0 .. Slots /\ l \in Lnums /\ peb[p].sq \in Nat
    BY <1>2, <2>1, LebFacts
  <2>4. PICK q : q = Scan.leb[v][l]
    OBVIOUS
  <2>5. q # None /\ peb[q].sq > peb[p].sq
    BY <1>1, <2>1, <2>2, <2>4 DEF ScanTable
  <2>6. q \in Pebs /\ IsCopy(q, v, l)
    BY <2>3, <2>4, <2>5, ScanFinds DEF Newer
  <2>7. peb[q].sq <= peb[p].sq /\ peb[q].sq \in Nat
    BY <1>3, <2>6, LebFacts DEF Newer, IsCopy
  <2> QED BY <2>3, <2>5, <2>7
<1> QED BY <1>2, <1>3

LEMMA MaxSqIs == ASSUME FlashOk PROVE MaxSq \in Nat /\ \A p \in Pebs : IsLeb(p) => peb[p].sq <= MaxSq
<1> DEFINE T == {peb[p].sq : p \in {q \in Pebs : peb[q].st = "leb"}}
<1>1. T \subseteq Nat /\ \A p \in Pebs : IsLeb(p) => peb[p].sq \in T
  BY LebFacts DEF IsLeb
<1>2. MaxSq = IF T = {} THEN 0 ELSE CHOOSE n \in T : \A k \in T : k <= n
  BY DEF MaxSq
<1>3. PICK N \in Nat : \A k \in T : k <= N
  BY Bounded DEF IsLeb
<1> HIDE DEF T
<1>4. CASE T = {}
  BY <1>1, <1>2, <1>4
<1>5. CASE T # {}
  <2>1. \E n \in T : \A k \in T : k <= n
    BY <1>1, <1>3, <1>5, Greatest
  <2>2. MaxSq \in T /\ \A k \in T : k <= MaxSq
    BY <1>2, <1>5, <2>1
  <2> QED BY <1>1, <2>2
<1> QED BY <1>4, <1>5

LEMMA MinIn == ASSUME NEW T, T \subseteq Pebs, T # {} PROVE Min(T) \in T
<1>1. T \subseteq Nat
  BY UbiVolAssumption DEF Pebs
<1>2. \E m \in T : \A y \in T : m <= y
  BY <1>1, Least
<1> QED BY <1>2 DEF Min

\* The eraseblock that a repair of the table writes.
LEMMA SparePicked ==
  ASSUME FlashOk, Spare(Scan) # {}, NEW p,
         p = IF Scan.free # {} THEN Min(Scan.free)
             ELSE IF Scan.erase # <<>> THEN Head(Scan.erase) ELSE Head(Scan.corr)
  PROVE  p \in Spare(Scan)
<1>1. Scan.free \subseteq Pebs /\ Scan.erase \in Seq(Pebs) /\ Scan.corr \in Seq(Pebs)
  BY ScanHolds DEF ScanOk, ScanState
<1>2. CASE Scan.free # {}
  BY <1>1, <1>2, MinIn DEF Spare
<1>3. CASE Scan.free = {} /\ Scan.erase # <<>>
  <2>1. Head(Scan.erase) \in ToSet(Scan.erase)
    BY <1>1, <1>3, TailFacts
  <2> QED BY <1>3, <2>1 DEF Spare
<1>4. CASE Scan.free = {} /\ Scan.erase = <<>>
  <2>1. ToSet(<<>>) = {}
    BY DEF ToSet
  <2>2. Scan.corr # <<>>
    BY <1>4, <2>1 DEF Spare
  <2>3. Head(Scan.corr) \in ToSet(Scan.corr)
    BY <1>1, <2>2, TailFacts
  <2> QED BY <1>4, <2>3 DEF Spare
<1> QED BY <1>2, <1>3, <1>4

LEMMA RestoreKeeps == ASSUME IInv, Restore PROVE IInv'
<1>0. FlashOk /\ RamOk /\ TableKept /\ Unformatted /\ formatted \in BOOLEAN /\ cuts \in Nat
  BY DEF IInv, RamOk
<1>1. PICK s, r, p, w :
        /\ s = Scan /\ r = ToRestore(s) /\ w = Leb(Layout, r.i, MaxSq + 1, 0, r.d)
        /\ p = IF s.free # {} THEN Min(s.free)
               ELSE IF s.erase # <<>> THEN Head(s.erase) ELSE Head(s.corr)
  OBVIOUS
<1>2. /\ up = "off" /\ r # Nothing /\ Spare(s) # {}
      /\ \/ peb' = [peb EXCEPT ![p] = w] /\ cuts' = cuts
         \/ /\ cuts' = cuts + 1
            /\ \E x \in {Free, Corrupt, [w EXCEPT !.d = Torn]} : peb' = [peb EXCEPT ![p] = x]
      /\ formatted' = (formatted \/ (cuts' = cuts /\ r.i = 1))
      /\ UNCHANGED <<up, vtbl, vols, eba, free, works, sqnum, todo, tab, ops>>
  BY <1>1 DEF Restore, ram
<1>3. s \in ScanState /\ ScanLists(s, Pebs)
  BY <1>0, <1>1, ScanHolds DEF ScanOk, Pebs
<1>4. p \in Spare(s)
  BY <1>0, <1>1, <1>2, SparePicked
<1>5. p \in Pebs /\ \A v, l : ~Newer(v, l, p)
  BY <1>0, <1>1, <1>4, SpareIs
<1>6. /\ r.i \in {0, 1} /\ r.d = Table(tab)
      /\ r.i = 1 => Found(Layout, 0) = Table(tab)
      /\ r.i = 0 /\ formatted => Found(Layout, 1) = Table(tab)
  BY <1>0, <1>1, <1>2, RestoreIs
<1>7. /\ r.i \in Lnums /\ Layout \in 0 .. Slots /\ r.d \in Contents /\ Torn \in Contents
  BY <1>0, <1>6, Lebs DEF Contents, Table, RamOk
<1>8. MaxSq \in Nat /\ \A q \in Pebs : IsLeb(q) => peb[q].sq < MaxSq + 1
  <2>1. MaxSq \in Nat /\ \A q \in Pebs : IsLeb(q) => peb[q].sq <= MaxSq /\ peb[q].sq \in Nat
    BY <1>0, MaxSqIs, LebFacts
  <2> QED BY <2>1
<1>9. ASSUME NEW x, NEW d \in Contents, x = [w EXCEPT !.d = d], peb' = [peb EXCEPT ![p] = x]
      PROVE  /\ FlashOk' /\ Found(Layout, r.i)' = d
             /\ \A l \in Lnums : l # r.i => Found(Layout, l)' = Found(Layout, l)
  <2>1. /\ x \in PebState /\ x.st = "leb" /\ x.v = Layout /\ x.l = r.i /\ x.d = d /\ x.sq = MaxSq + 1
    BY <1>1, <1>7, <1>8, <1>9 DEF PebState, Leb
  <2>2. x.st = "leb" => \A q \in Pebs : IsLeb(q) => peb[q].sq < x.sq
    BY <1>8, <2>1
  <2>3. /\ FlashOk' /\ Found(x.v, x.l)' = x.d
        /\ \A v \in 0 .. Slots, l \in Lnums :
             ~(x.v = v /\ x.l = l) => Found(v, l)' = Found(v, l)
    BY <1>0, <1>5, <1>9, <2>1, <2>2, PutFlash
  <2> QED BY <1>7, <2>1, <2>3
<1>10. ASSUME NEW x \in {Free, Corrupt}, peb' = [peb EXCEPT ![p] = x]
       PROVE  FlashOk' /\ \A l \in Lnums : Found(Layout, l)' = Found(Layout, l)
  <2>1. x \in PebState /\ x.st # "leb"
    BY DEF PebState, Free, Corrupt
  <2> QED BY <1>0, <1>5, <1>7, <1>10, <2>1, PutFlash
<1>11. FlashOk' /\ TableKept' /\ Unformatted'
  <2>0. 0 \in Lnums /\ 1 \in Lnums /\ tab' = tab /\ tab \in Tables /\ cuts + 1 # cuts /\ ~On'
    BY <1>0, <1>2, Lebs DEF RamOk, On
  <2>t. ~formatted => tab = EmptyTable /\ Found(Layout, 1) \in {Hole, Torn}
                      /\ Found(Layout, 0) \in {Hole, Torn, Table(EmptyTable)}
    BY <1>0 DEF Unformatted
  <2>1. CASE peb' = [peb EXCEPT ![p] = w] /\ cuts' = cuts
    <3>1. w = [w EXCEPT !.d = r.d]
      BY <1>1 DEF Leb
    <3>2. /\ FlashOk' /\ Found(Layout, r.i)' = Table(tab)
          /\ \A l \in Lnums : l # r.i => Found(Layout, l)' = Found(Layout, l)
      BY <1>6, <1>7, <1>9, <2>1, <3>1
    <3>3. CASE r.i = 1
      <4>1. Found(Layout, 0)' = Table(tab) /\ formatted'
        BY <1>2, <1>6, <2>0, <2>1, <3>2, <3>3
      <4> QED BY <2>0, <3>2, <4>1 DEF TableKept, Unformatted
    <3>4. CASE r.i = 0
      <4>1. Found(Layout, 0)' = Table(tab) /\ formatted' = formatted /\ Found(Layout, 1)' = Found(Layout, 1)
        BY <1>0, <1>2, <2>0, <3>2, <3>4
      <4> QED BY <2>0, <2>t, <3>2, <4>1 DEF TableKept, Unformatted
    <3> QED BY <1>6, <3>3, <3>4
  <2>2. CASE cuts' = cuts + 1
    <3>0. formatted' = formatted
      BY <1>0, <1>2, <2>0, <2>2
    <3>1. PICK x \in {Free, Corrupt, [w EXCEPT !.d = Torn]} : peb' = [peb EXCEPT ![p] = x]
      BY <1>2, <2>0, <2>2
    <3>2. CASE x \in {Free, Corrupt}
      <4>1. FlashOk' /\ Found(Layout, 0)' = Found(Layout, 0) /\ Found(Layout, 1)' = Found(Layout, 1)
        BY <1>10, <2>0, <3>1, <3>2
      <4> QED BY <1>0, <2>0, <2>t, <3>0, <4>1 DEF TableKept, Unformatted
    <3>3. CASE x = [w EXCEPT !.d = Torn]
      <4>1. /\ FlashOk' /\ Found(Layout, r.i)' = Torn
            /\ \A l \in Lnums : l # r.i => Found(Layout, l)' = Found(Layout, l)
        BY <1>7, <1>9, <3>1, <3>3
      <4>2. CASE r.i = 1
        <5>1. Found(Layout, 1)' = Torn /\ Found(Layout, 0)' = Table(tab)
          BY <1>6, <2>0, <4>1, <4>2
        <5> QED BY <2>0, <2>t, <3>0, <4>1, <5>1 DEF TableKept, Unformatted
      <4>3. CASE r.i = 0
        <5>1. Found(Layout, 0)' = Torn /\ Found(Layout, 1)' = Found(Layout, 1)
          BY <2>0, <4>1, <4>3
        <5>2. formatted => Found(Layout, 1)' = Table(tab)
          BY <1>6, <4>3, <5>1
        <5> QED BY <2>0, <2>t, <3>0, <4>1, <5>1, <5>2 DEF TableKept, Unformatted
      <4> QED BY <1>6, <4>2, <4>3
    <3> QED BY <3>1, <3>2, <3>3
  <2> QED BY <1>2, <2>1, <2>2
<1>12. ~On' /\ RamOk'
  <2>1. formatted' \in BOOLEAN /\ cuts' \in Nat
    BY <1>0, <1>2
  <2> QED BY <1>0, <1>2, <2>1 DEF RamOk, On
<1>13. Trees' /\ Layouts'
  BY <1>12 DEF Trees, Layouts
<1> QED BY <1>11, <1>12, <1>13 DEF IInv

\* The eraseblocks of removed volumes are scheduled one by one.
LEMMA SetToSeqIs ==
  ASSUME NEW T, T \subseteq Pebs
  PROVE  SetToSeq(T) \in Seq(Pebs) /\ ToSet(SetToSeq(T)) = T /\ Once(SetToSeq(T))
<1> DEFINE n == Cardinality(T)
           f == SetToSeq(T)
<1>1. IsFiniteSet(T)
  <2>1. IsFiniteSet(Pebs)
    BY UbiVolAssumption, FS_Interval DEF Pebs
  <2> QED BY <2>1, FS_Subset
<1>2. n \in Nat /\ ExistsBijection(1 .. n, T)
  BY <1>1, FS_CardinalityType
<1> HIDE DEF n
<1>3. \E g \in [1 .. n -> T] : IsInjective(g)
  BY <1>2 DEF ExistsBijection, Bijection, Injection
<1>4. f \in [1 .. n -> T] /\ IsInjective(f)
  BY <1>3 DEF SetToSeq, n
<1> HIDE DEF f
<1>5. f \in Seq(Pebs) /\ DOMAIN f = 1 .. n
  <2>1. f \in [1 .. n -> Pebs]
    BY <1>4
  <2> QED BY <1>2, <2>1
<1>6. Once(f)
  BY <1>4, <1>5 DEF Once, IsInjective
<1>7. ToSet(f) = T
  <2> DEFINE U == ToSet(f)
  <2>1. U \subseteq T /\ U = {f[i] : i \in 1 .. n}
    BY <1>4, <1>5 DEF ToSet
  <2>2. f \in Bijection(1 .. n, U)
    BY <1>4, <2>1 DEF Bijection, Injection, Surjection
  <2>3. ExistsBijection(1 .. n, U)
    BY <2>2 DEF ExistsBijection
  <2> HIDE DEF U
  <2>4. Cardinality(U) = n
    BY <1>2, <2>3, FS_CountingElements
  <2>5. U = T
    BY <1>1, <2>1, <2>4, FS_Subset DEF n
  <2> QED BY <2>5 DEF U
<1> QED BY <1>5, <1>6, <1>7 DEF f

\* What the volumes of a table take together, volume by volume.
LEMMA ReservedSum ==
  ASSUME NEW t \in Tables
  PROVE  \E g : /\ Reserved(t) = g[Slots] /\ g[0] = 0
                /\ \A s \in Vols : g[s] = g[s - 1] + t[s].size
                /\ \A s \in 0 .. Slots : g[s] \in Nat /\ \A r \in 1 .. s : t[r].size <= g[s]
<1> DEFINE Is(g, m) == g = [s \in 0 .. m |-> IF s = 0 THEN 0 ELSE g[s - 1] + t[s].size]
           Good(g, m) == \A s \in 0 .. m : g[s] \in Nat /\ \A r \in 1 .. s : t[r].size <= g[s]
           S == {m \in Nat : \E g : Is(g, m) /\ Good(g, m)}
<1>0. Slots \in Nat /\ \A s \in Vols : t[s].size \in Nat
  BY UbiVolAssumption, SizesNat DEF Tables
<1>1. 0 \in S
  <2> DEFINE g == [s \in 0 .. 0 |-> 0]
  <2>1. Is(g, 0) /\ Good(g, 0)
    OBVIOUS
  <2>2. \E h : Is(h, 0) /\ Good(h, 0)
    BY <2>1
  <2> QED BY <2>2
<1>2. ASSUME NEW k \in 1 .. Slots, k - 1 \in S PROVE k \in S
  <2>0. k \in Nat /\ k - 1 \in Nat /\ k # 0 /\ k - 1 \in 0 .. k - 1 /\ k \in Vols
    BY <1>0 DEF Vols
  <2>1. PICK g : Is(g, k - 1) /\ Good(g, k - 1)
    BY <1>2
  <2> DEFINE h == [s \in 0 .. k |-> IF s = k THEN g[k - 1] + t[k].size ELSE g[s]]
  <2>2. \A s \in 0 .. k : s \in 0 .. k - 1 \/ s = k
    BY <2>0
  <2>3. ASSUME NEW s \in 0 .. k
        PROVE  /\ h[s] = IF s = 0 THEN 0 ELSE h[s - 1] + t[s].size
               /\ h[s] \in Nat /\ \A r \in 1 .. s : t[r].size <= h[s]
    <3>1. CASE s = k
      <4>1. k - 1 \in 0 .. k /\ k - 1 # k
        BY <2>0
      <4>2. h[k - 1] = g[k - 1] /\ h[k] = g[k - 1] + t[k].size
        BY <3>1, <4>1
      <4>3. g[k - 1] \in Nat /\ \A r \in 1 .. k - 1 : t[r].size <= g[k - 1]
        BY <2>0, <2>1
      <4>4. t[k].size \in Nat /\ \A r \in 1 .. k - 1 : t[r].size \in Nat
        <5>1. \A r \in 1 .. k - 1 : r \in Vols
          BY <1>0, <2>0 DEF Vols
        <5> QED BY <1>0, <2>0, <5>1
      <4> HIDE DEF h
      <4>5. \A r \in 1 .. k : t[r].size <= h[k]
        <5> TAKE r \in 1 .. k
        <5>1. CASE r = k
          BY <4>2, <4>3, <4>4, <5>1
        <5>2. CASE r # k
          <6>1. r \in 1 .. k - 1
            BY <2>0, <5>2
          <6>2. t[r].size <= g[k - 1] /\ t[r].size \in Nat
            BY <4>3, <4>4, <6>1
          <6> QED BY <4>2, <4>3, <4>4, <6>2
        <5> QED BY <5>1, <5>2
      <4> QED BY <2>0, <3>1, <4>2, <4>3, <4>4, <4>5
    <3>2. CASE s \in 0 .. k - 1 /\ s # 0
      <4>1. s - 1 \in 0 .. k /\ s - 1 # k /\ s # k
        BY <2>0, <3>2
      <4>2. h[s] = g[s] /\ h[s - 1] = g[s - 1]
        BY <4>1
      <4>3. g[s] = g[s - 1] + t[s].size
        BY <2>1, <3>2
      <4> QED BY <2>1, <3>2, <4>2, <4>3
    <3>3. CASE s = 0
      <4>1. h[s] = g[s] /\ 0 \in 0 .. k - 1
        BY <2>0, <3>3
      <4>2. g[0] = 0
        BY <2>1, <4>1
      <4> QED BY <3>3, <4>1, <4>2
    <3> QED BY <2>2, <3>1, <3>2, <3>3
  <2>4. h = [s \in 0 .. k |-> h[s]]
    OBVIOUS
  <2> HIDE DEF h
  <2>5. Is(h, k)
    BY <2>3, <2>4
  <2>6. Good(h, k)
    BY <2>3
  <2>7. \E e : Is(e, k) /\ Good(e, k)
    BY <2>5, <2>6
  <2> QED BY <2>0, <2>7
<1> HIDE DEF S
<1>3. Slots \in S
  <2>1. \A i \in 0 .. Slots : i \in S
    BY <1>0, <1>1, <1>2, UpTo
  <2> QED BY <1>0, <2>1
<1> DEFINE U == CHOOSE g : Is(g, Slots)
<1>4. PICK g : Is(g, Slots) /\ Good(g, Slots)
  BY <1>3 DEF S
<1>5. Reserved(t) = U[Slots]
  BY DEF Reserved
<1>6. Is(U, Slots)
  BY <1>4
<1> HIDE DEF U
<1> DEFINE T == {m \in Nat : m \in 0 .. Slots => U[m] = g[m]}
<1>7. 0 \in T
  BY <1>4, <1>6
<1>8. ASSUME NEW k \in 1 .. Slots, k - 1 \in T PROVE k \in T
  <2>1. k - 1 \in 0 .. Slots /\ k \in 0 .. Slots /\ k # 0 /\ k \in Nat
    BY <1>0
  <2>2. U[k] = U[k - 1] + t[k].size /\ g[k] = g[k - 1] + t[k].size
    BY <1>4, <1>6, <2>1
  <2> QED BY <1>8, <2>1, <2>2
<1> HIDE DEF T
<1>9. \A i \in 0 .. Slots : i \in T
  BY <1>0, <1>7, <1>8, UpTo
<1>10. U[Slots] = g[Slots]
  BY <1>0, <1>9 DEF T
<1>11. g[0] = 0 /\ \A s \in Vols : g[s] = g[s - 1] + t[s].size
  <2>1. 0 \in 0 .. Slots /\ \A s \in Vols : s \in 0 .. Slots /\ s # 0
    BY <1>0 DEF Vols
  <2> QED BY <1>4, <2>1
<1> QED BY <1>4, <1>5, <1>10, <1>11

\* A volume takes no more than all of them together.
LEMMA ReservedIs ==
  ASSUME NEW t \in Tables, NEW v \in Vols
  PROVE  Reserved(t) \in Nat /\ t[v].size <= Reserved(t)
<1>1. Slots \in 0 .. Slots /\ v \in 1 .. Slots
  BY UbiVolAssumption DEF Vols
<1> QED BY <1>1, ReservedSum

LEMMA RemovedIs ==
  ASSUME FlashOk, NEW t \in Tables, NEW x \in Removed(Scan, t)
  PROVE  /\ x \in Pebs /\ IsLeb(x) /\ peb[x].v # Layout /\ t[peb[x].v].size = 0
         /\ x = Scan.leb[peb[x].v][peb[x].l]
<1>1. PICK v \in {y \in Vols : t[y].size = 0}, l \in Lnums : x = Scan.leb[v][l] /\ x # None
  BY DEF Removed
<1>2. v \in 0 .. Slots /\ v # Layout
  BY UbiVolAssumption DEF Vols, Layout
<1>3. x \in Pebs /\ Newer(v, l, x)
  BY <1>1, <1>2, ScanFinds
<1>4. IsLeb(x) /\ peb[x].v = v /\ peb[x].l = l
  BY <1>3 DEF Newer, IsCopy
<1> QED BY <1>1, <1>2, <1>3, <1>4

\* The list of the eraseblocks to erase, as an attach with the table t makes it.
LEMMA AttachList ==
  ASSUME FlashOk, NEW t \in Tables,
         NEW w, w = Scan.erase \o SetToSeq(Removed(Scan, t)) \o Scan.corr
  PROVE  /\ w \in Seq(Pebs) /\ Once(w)
         /\ ToSet(w) = ToSet(Scan.erase) \cup Removed(Scan, t) \cup ToSet(Scan.corr)
         /\ \A x \in ToSet(w) : x \in Pebs /\ peb[x].st # "free"
         /\ \A i, j \in DOMAIN w :
              i < j /\ IsLeb(w[i]) /\ IsCopy(w[j], peb[w[i]].v, peb[w[i]].l) =>
                \E q \in Pebs : /\ IsCopy(q, peb[w[i]].v, peb[w[i]].l)
                                /\ peb[q].sq > peb[w[i]].sq
<1>1. PICK e, m, c, R : e = Scan.erase /\ R = Removed(Scan, t) /\ m = SetToSeq(R) /\ c = Scan.corr
  OBVIOUS
<1>2. ScanLists(Scan, Pebs) /\ ScanTable(Scan, Pebs) /\ Scan \in ScanState
  BY ScanHolds DEF ScanOk, Pebs
<1>3. /\ \A x \in R : /\ x \in Pebs /\ IsLeb(x) /\ peb[x].v # Layout
                      /\ x = Scan.leb[peb[x].v][peb[x].l]
      /\ R \subseteq Pebs
  BY <1>1, RemovedIs
<1>4. m \in Seq(Pebs) /\ ToSet(m) = R /\ Once(m)
  BY <1>1, <1>3, SetToSeqIs
<1>5. /\ e \in Seq(Pebs) /\ c \in Seq(Pebs) /\ Once(e) /\ Once(c)
      /\ \A x \in ToSet(e) : x \in Pebs /\ (peb[x].st = "blank" \/ IsLeb(x))
      /\ \A x \in ToSet(c) : x \in Pebs /\ peb[x].st = "corrupt"
  BY <1>1, <1>2 DEF ScanLists, ScanState
<1>6. ASSUME NEW x \in ToSet(e), IsLeb(x)
      PROVE  \E q \in Pebs : IsCopy(q, peb[x].v, peb[x].l) /\ peb[q].sq > peb[x].sq
  <2>1. PICK q : q = Scan.leb[peb[x].v][peb[x].l]
    OBVIOUS
  <2>2. q # None /\ peb[q].sq > peb[x].sq
    BY <1>1, <1>2, <1>6, <2>1 DEF ScanTable
  <2>3. peb[x].v \in 0 .. Slots /\ peb[x].l \in Lnums
    BY <1>5, <1>6, LebFacts
  <2>4. q \in Pebs /\ IsCopy(q, peb[x].v, peb[x].l)
    BY <2>1, <2>2, <2>3, ScanFinds DEF Newer
  <2> QED BY <2>2, <2>4
<1>7. ToSet(e) \cap R = {}
  <2> SUFFICES ASSUME NEW x \in ToSet(e), x \in R PROVE FALSE
    OBVIOUS
  <2>1. IsLeb(x) /\ x = Scan.leb[peb[x].v][peb[x].l] /\ x \in Pebs
    BY <1>3
  <2>2. peb[Scan.leb[peb[x].v][peb[x].l]].sq > peb[x].sq
    BY <1>1, <1>2, <2>1 DEF ScanTable
  <2>3. peb[x].sq \in Nat /\ peb[x].sq > peb[x].sq
    BY <2>1, <2>2, LebFacts
  <2> QED BY <2>3
<1>8. e \o m \in Seq(Pebs) /\ ToSet(e \o m) = ToSet(e) \cup R /\ Once(e \o m)
  BY <1>4, <1>5, <1>7, ConcatFacts
<1>9. (ToSet(e) \cup R) \cap ToSet(c) = {}
  BY <1>3, <1>5 DEF IsLeb
<1>10. w = (e \o m) \o c
  BY <1>1
<1>11. w \in Seq(Pebs) /\ Once(w) /\ ToSet(w) = ToSet(e) \cup R \cup ToSet(c)
  <2>1. PICK u : u = e \o m
    OBVIOUS
  <2>2. u \in Seq(Pebs) /\ ToSet(u) = ToSet(e) \cup R /\ Once(u)
    BY <1>8, <2>1
  <2>3. ToSet(u) \cap ToSet(c) = {}
    BY <1>9, <2>2
  <2>4. u \o c \in Seq(Pebs) /\ ToSet(u \o c) = ToSet(u) \cup ToSet(c) /\ Once(u \o c)
    BY <1>5, <2>2, <2>3, ConcatFacts
  <2> QED BY <1>10, <2>1, <2>2, <2>4
<1>12. \A x \in ToSet(w) : x \in Pebs /\ peb[x].st # "free"
  BY <1>3, <1>5, <1>11 DEF IsLeb
<1>d. PICK ne, nw : ne = Len(e) /\ nw = Len(w)
  OBVIOUS
<1>n. DOMAIN e = 1 .. ne /\ DOMAIN w = 1 .. nw /\ ne \in Nat /\ nw \in Nat
  <2>0. \A z \in Seq(Pebs) : DOMAIN z = 1 .. Len(z) /\ Len(z) \in Nat
    OBVIOUS
  <2>1. e \in Seq(Pebs) /\ w \in Seq(Pebs)
    BY <1>5, <1>11
  <2>2. DOMAIN e = 1 .. Len(e) /\ Len(e) \in Nat /\ DOMAIN w = 1 .. Len(w) /\ Len(w) \in Nat
    BY <2>0, <2>1
  <2> QED BY <1>d, <2>2
<1>13. \A k \in 1 .. ne : k \in 1 .. nw /\ w[k] = e[k]
  <2>1. \A k \in 1 .. Len(e) : k \in 1 .. Len(e \o m) /\ (e \o m)[k] = e[k]
    BY <1>4, <1>5
  <2>2. \A k \in 1 .. Len(e \o m) : k \in 1 .. Len(w) /\ w[k] = (e \o m)[k]
    BY <1>5, <1>8, <1>10
  <2> QED BY <1>d, <2>1, <2>2
<1>14. ASSUME NEW i \in DOMAIN w, NEW j \in DOMAIN w, i < j, NEW x, NEW y, x = w[i], y = w[j],
              IsLeb(x), IsCopy(y, peb[x].v, peb[x].l)
       PROVE  \E q \in Pebs : IsCopy(q, peb[x].v, peb[x].l) /\ peb[q].sq > peb[x].sq
  <2>1. x \in ToSet(w) /\ y \in ToSet(w)
    BY <1>14 DEF ToSet
  <2>2. CASE x \in ToSet(e)
    BY <1>6, <1>14, <2>2
  <2>3. CASE x \notin ToSet(e)
    <3>1. x \in R
      BY <1>5, <1>11, <1>14, <2>1, <2>3 DEF IsLeb
    <3>2. CASE y \in R
      <4>1. x = Scan.leb[peb[x].v][peb[x].l] /\ y = Scan.leb[peb[y].v][peb[y].l]
        BY <1>3, <3>1, <3>2
      <4>2. x = y
        BY <1>14, <4>1 DEF IsCopy
      <4>3. i = j
        BY <1>11, <1>14, <4>2 DEF Once
      <4>4. i \in 1 .. nw
        BY <1>n
      <4>5. i < i
        BY <1>14, <4>3
      <4>6. ~(i < i)
        <5>1. \A k \in 1 .. nw : ~(k < k)
          BY <1>n
        <5> QED BY <4>4, <5>1
      <4> QED BY <4>5, <4>6
    <3>3. CASE y \in ToSet(e)
      <4>1. PICK k \in 1 .. ne : y = e[k]
        BY <1>n, <3>3 DEF ToSet
      <4>2. k \in DOMAIN w /\ w[k] = y
        BY <1>13, <1>n, <4>1
      <4>3. k = j
        BY <1>11, <1>14, <4>2 DEF Once
      <4>5. i \in 1 .. ne
        <5>1. i \in 1 .. nw /\ j \in 1 .. ne /\ i < j
          BY <1>14, <1>n, <4>1, <4>3
        <5> QED BY <1>n, <5>1
      <4>6. x = e[i]
        BY <1>13, <1>14, <4>5
      <4> QED BY <1>n, <2>3, <4>5, <4>6 DEF ToSet
    <3>4. y \notin ToSet(c)
      BY <1>5, <1>14 DEF IsCopy, IsLeb
    <3> QED BY <1>11, <2>1, <3>2, <3>3, <3>4
  <2> QED BY <2>2, <2>3
<1> QED BY <1>1, <1>11, <1>12, <1>14

LEMMA InitVolIs ==
  ASSUME NEW s \in ScanState, NEW t \in Tables, NEW v \in Vols
  PROVE  InitVol(s, t[v], v) \in VolState
<1>1. PICK r, u : r = t[v] /\ u = s.used[v]
  OBVIOUS
<1>2. r \in [size : Sizes, type : Types, upd : BOOLEAN, auto : BOOLEAN] /\ u \in Nat
  BY <1>1, UbiVolAssumption DEF Tables, ScanState, Vols
<1>3. PICK found, short : /\ found = {l \in Lnums : s.leb[v][l] # None}
                          /\ short = (r.type = "static" /\ v \in s.seen /\ Cardinality(found) # u)
  OBVIOUS
<1>4. InitVol(s, r, v) =
        IF r.size = 0 THEN NoVol
        ELSE [size |-> r.size, type |-> r.type, updating |-> FALSE, upd |-> FALSE, corrupted |-> short,
              used |-> IF r.type = "dynamic" THEN r.size ELSE IF v \in s.seen /\ ~short THEN u ELSE 0]
  BY <1>1, <1>3 DEF InitVol
<1>5. short \in BOOLEAN
  BY <1>3
<1>6. (IF r.type = "dynamic" THEN r.size ELSE IF v \in s.seen /\ ~short THEN u ELSE 0) \in Nat
  BY <1>2, SizesNat
<1> QED BY <1>1, <1>2, <1>4, <1>5, <1>6, OffFacts DEF VolState

\* Growing a volume begins with a change of the table.
LEMMA GrowStarts ==
  ASSUME NEW t, NEW s, NEW vol, NEW n
  PROVE  Grow(t, s, vol, n) # <<>> /\ Stage(Grow(t, s, vol, n)[1]) = 1
<1> DEFINE u == [t EXCEPT ![s].size = n, ![s].auto = FALSE]
           z == [vol EXCEPT !.size = n, !.used = IF vol.type = "dynamic" THEN n ELSE @]
           a == SetTable(u)
           b == Un(Layout, 0)
           c == Wr(Layout, 0, 0, Table(u))
           d == Un(Layout, 1)
           e == Wr(Layout, 1, 0, Table(u))
           f == [o |-> "vol", s |-> s, vol |-> z]
<1>1. Grow(t, s, vol, n) = <<a, b, c, d, e>> \o <<f>>
  BY DEF Grow, Change, SetVol
<1>2. Stage(a) = 1
  BY DEF SetTable, Stage
<1> HIDE DEF a, b, c, d, e, f, u, z
<1>3. <<a, b, c, d, e>> \o <<f>> # <<>> /\ (<<a, b, c, d, e>> \o <<f>>)[1] = a
  OBVIOUS
<1> QED BY <1>1, <1>2, <1>3

LEMMA AttachKeeps == ASSUME IInv, Attach PROVE IInv'
<1>0. FlashOk /\ RamOk /\ TableKept /\ Unformatted /\ formatted \in BOOLEAN /\ tab \in Tables
  BY DEF IInv, RamOk
<1>1. PICK s, t, left, level, resize, v0, n :
        /\ s = Scan /\ t = Copy(s, 0).t /\ left = NumPebs - 2 - Reserved(t)
        /\ level = IF left - 2 < Level THEN left - 2 ELSE Level
        /\ resize = {v \in Vols : t[v].auto} /\ v0 = CHOOSE v \in resize : TRUE
        /\ n = t[v0].size + left - 2 - level
  OBVIOUS
<1>2. up = "off" /\ todo = <<>> /\ UNCHANGED <<peb, tab, formatted, ops, cuts>>
  BY <1>0 DEF Attach, RamOk, hist
<1>3. FlashOk' /\ \A a, b : Found(a, b)' = Found(a, b)
  BY <1>0, <1>2, FlashSame
<1>4. TableKept' /\ (~On' => Unformatted')
  BY <1>0, <1>2, <1>3 DEF TableKept, Unformatted
<1>5. CASE up' = "failed" /\ UNCHANGED ram
  <2>1. ~On'
    BY <1>5 DEF On
  <2>2. RamOk'
    BY <1>0, <1>2, <1>5 DEF RamOk, ram
  <2> QED BY <1>3, <1>4, <2>1, <2>2 DEF IInv, Trees, Layouts
<1>6. CASE up' # "failed"
  <2>1. /\ ToRestore(s) = Nothing /\ Copy(s, 0) # Torn /\ up' = "on"
        /\ vtbl' = (IF resize = {} THEN t ELSE [t EXCEPT ![v0].auto = FALSE])
        /\ vols' = [v \in Vols |-> InitVol(s, t[v], v)]
        /\ eba' = [v \in 0 .. Slots |-> IF v # Layout /\ t[v].size = 0 THEN ScanInit.leb[v] ELSE s.leb[v]]
        /\ free' = s.free /\ works' = s.erase \o SetToSeq(Removed(s, t)) \o s.corr
        /\ sqnum' = MaxSq + 1
        /\ resize = {} => UNCHANGED todo
        /\ resize # {} => todo' = Grow(t, v0, vols'[v0], n)
    BY <1>1, <1>6 DEF Attach, Start
  <2>2. /\ formatted /\ t = tab /\ Copy(s, 0) = Table(tab) /\ Copy(s, 1) = Table(tab)
        /\ s.leb[Layout][0] # None /\ s.leb[Layout][1] # None
    <3>1. formatted /\ Copy(s, 0) = Table(tab) /\ Copy(s, 1) = Table(tab)
      BY <1>0, <1>1, <2>1, RestoreIs
    <3>2. Table(tab).t = tab /\ Table(tab) # Torn
      BY Contradistinct
    <3> QED BY <1>0, <1>1, <3>1, <3>2, CopyIs
  <2>3. /\ s \in ScanState /\ ScanLists(s, Pebs) /\ ScanTable(s, Pebs)
        /\ s.leb \in EbaState /\ s.free \subseteq Pebs /\ t \in Tables
    <3>1. s \in ScanState /\ ScanLists(s, Pebs) /\ ScanTable(s, Pebs)
      BY <1>0, <1>1, ScanHolds DEF ScanOk, Pebs
    <3> QED BY <1>0, <2>2, <3>1 DEF ScanState
  <2>4. /\ works' \in Seq(Pebs) /\ Once(works')
        /\ ToSet(works') = ToSet(s.erase) \cup Removed(s, t) \cup ToSet(s.corr)
        /\ \A x \in ToSet(works') : x \in Pebs /\ peb[x].st # "free"
        /\ \A i, j \in DOMAIN works' :
             i < j /\ IsLeb(works'[i]) /\ IsCopy(works'[j], peb[works'[i]].v, peb[works'[i]].l) =>
               \E q \in Pebs : /\ IsCopy(q, peb[works'[i]].v, peb[works'[i]].l)
                               /\ peb[q].sq > peb[works'[i]].sq
    BY <1>0, <1>1, <2>1, <2>3, AttachList
  <2>5. /\ eba' \in EbaState
        /\ \A v \in 0 .. Slots, l \in Lnums : eba'[v][l] # None =>
             eba'[v][l] = s.leb[v][l] /\ (v = Layout \/ t[v].size # 0)
        /\ eba'[Layout] = s.leb[Layout]
    <3>1. /\ ScanInit.leb \in EbaState
          /\ \A v \in 0 .. Slots, l \in Lnums : ScanInit.leb[v][l] = None
      BY OffFacts DEF ScanInit
    <3>2. eba' \in EbaState
      BY <2>1, <2>3, <3>1 DEF EbaState
    <3> QED BY <2>1, <3>1, <3>2, Lebs
  <2>6. MaxSq \in Nat /\ MaxSq + 1 \in Nat /\ \A q \in Pebs : IsLeb(q) => peb[q].sq < MaxSq + 1
    <3>1. MaxSq \in Nat /\ \A q \in Pebs : IsLeb(q) => peb[q].sq <= MaxSq /\ peb[q].sq \in Nat
      BY <1>0, MaxSqIs, LebFacts
    <3> QED BY <3>1
  <2>7. vols' \in [Vols -> VolState]
    BY <2>1, <2>3, InitVolIs
  <2>8. vtbl' \in Tables /\ (resize # {} => v0 \in Vols /\ n \in Sizes)
    <3>1. CASE resize = {}
      BY <2>1, <2>3, <3>1
    <3>2. CASE resize # {}
      <4>1. v0 \in Vols
        BY <1>1, <3>2
      <4>2. vtbl' \in Tables
        <5>1. [t[v0] EXCEPT !.auto = FALSE] \in [size : Sizes, type : Types, upd : BOOLEAN, auto : BOOLEAN]
          BY <2>3, <4>1 DEF Tables
        <5>2. vtbl' = [t EXCEPT ![v0] = [t[v0] EXCEPT !.auto = FALSE]]
          BY <2>1, <2>3, <3>2 DEF Tables
        <5> QED BY <2>3, <4>1, <5>1, <5>2 DEF Tables
      <4>3. n \in Sizes
        <5>1. Reserved(t) \in Nat /\ t[v0].size <= Reserved(t) /\ t[v0].size \in Sizes
          BY <2>3, <4>1, ReservedIs DEF Tables
        <5>2. t[v0].size \in Nat /\ t[v0].size <= MaxLebs
          BY <5>1, UbiVolAssumption DEF Sizes
        <5>3. CASE left - 2 < Level
          <6>1. left \in Int /\ level = left - 2
            BY <1>1, <5>1, <5>3, UbiVolAssumption
          <6>2. n = t[v0].size
            BY <1>1, <5>2, <6>1
          <6> QED BY <5>1, <6>2
        <5>4. CASE ~(left - 2 < Level)
          <6>1. n = t[v0].size + (NumPebs - 2 - Reserved(t)) - 2 - Level
            BY <1>1, <5>4
          <6>2. n <= NumPebs - 4 - Level /\ n \in Nat
            BY <1>1, <5>1, <5>2, <5>4, <6>1, UbiVolAssumption
          <6> QED BY <6>2, UbiVolAssumption DEF Sizes
        <5> QED BY <5>3, <5>4
      <4> QED BY <4>1, <4>2, <4>3
    <3> QED BY <3>1, <3>2
  <2>9. /\ todo' \in Seq(Steps) /\ Stages(todo')
        /\ resize = {} => Now' = 0
        /\ resize # {} => Now' = 1
    <3>1. CASE resize = {}
      <4>1. todo' = <<>> /\ Whole(<<>>)
        BY <1>2, <2>1, <3>1, WholeParts
      <4> QED BY <3>1, <4>1 DEF Whole, Now
    <3>2. CASE resize # {}
      <4>1. vols'[v0] \in VolState
        BY <2>7, <2>8, <3>2
      <4>2. Whole(todo') /\ todo' # <<>> /\ Stage(todo'[1]) = 1
        BY <2>1, <2>3, <2>8, <3>2, <4>1, WholeGrow, GrowStarts
      <4> QED BY <3>2, <4>2 DEF Whole, Now
    <3> QED BY <3>1, <3>2
  <2>10. RamOk'
    BY <1>0, <1>2, <2>1, <2>3, <2>4, <2>5, <2>6, <2>7, <2>8, <2>9 DEF RamOk
  <2>11. ASSUME NEW v \in 0 .. Slots, NEW l \in Lnums, NEW e, e = eba'[v][l], e # None
         PROVE  /\ e \in Pebs /\ IsCopy(e, v, l) /\ e \notin ToSet(works')
                /\ \A q \in Pebs : IsCopy(q, v, l) => peb[q].sq <= peb[e].sq
    <3>1. e = s.leb[v][l] /\ (v = Layout \/ t[v].size # 0)
      BY <2>5, <2>11
    <3>2. e \in Pebs /\ Newer(v, l, e) /\ IsLeb(e) /\ peb[e].v = v /\ peb[e].l = l
      BY <1>0, <1>1, <2>11, <3>1, ScanFinds DEF Newer, IsCopy
    <3>3. e \notin ToSet(s.erase) /\ e \notin ToSet(s.corr)
      <4>1. e \notin ToSet(s.corr)
        BY <2>3, <3>2 DEF ScanLists, IsLeb
      <4>2. e \in Spare(s) => FALSE
        BY <1>0, <1>1, <3>2, SpareIs
      <4> QED BY <4>1, <4>2 DEF Spare
    <3>4. e \notin Removed(s, t)
      BY <1>0, <1>1, <2>3, <3>1, <3>2, RemovedIs
    <3> QED BY <2>4, <3>2, <3>3, <3>4 DEF Newer
  <2>12. Trees'
    <3>1. \A p \in free' : peb[p].st = "free"
      BY <2>1, <2>3 DEF ScanLists
    <3>2. \A i \in DOMAIN works' : peb[works'[i]].st # "free"
      BY <2>4 DEF ToSet
    <3>3. ASSUME NEW p \in Pebs, NEW l \in {0, 1}, IsCopy(p, Layout, l)
          PROVE  eba'[Layout][l] = p \/ p \in ToSet(works')
      <4>1. IsLeb(p) /\ peb[p].v = Layout /\ peb[p].l = l
        BY <3>3 DEF IsCopy
      <4>2. s.leb[Layout][l] = p \/ p \in ToSet(s.erase)
        BY <2>3, <4>1 DEF ScanTable
      <4> QED BY <2>4, <2>5, <4>2
    <3>4. /\ peb' = peb /\ \A p, v, l : IsCopy(p, v, l)' <=> IsCopy(p, v, l)
          /\ \A p : IsLeb(p)' <=> IsLeb(p)
      BY <1>2, FlashSame
    <3>5. \A p \in Pebs : IsLeb(p) => peb[p].sq < sqnum'
      BY <2>1, <2>6
    <3> QED BY <2>4, <2>11, <3>1, <3>2, <3>3, <3>4, <3>5 DEF Trees
  <2>13. Layouts'
    <3>1. /\ peb[s.leb[Layout][0]].d = Table(tab) /\ peb[s.leb[Layout][1]].d = Table(tab)
      BY <2>2 DEF Copy
    <3>2. formatted' /\ tab' = tab /\ peb' = peb /\ eba'[Layout] = s.leb[Layout]
      BY <1>2, <2>2, <2>5
    <3>3. resize = {} => vtbl' = tab
      BY <2>1, <2>2
    <3> QED BY <2>2, <2>9, <3>1, <3>2, <3>3 DEF Layouts
  <2>14. On' /\ Unformatted'
    BY <1>2, <2>1, <2>2 DEF On, Unformatted
  <2> QED BY <1>3, <1>4, <2>10, <2>12, <2>13, <2>14 DEF IInv
<1>7. up' = "failed" => UNCHANGED ram
  BY DEF Attach
<1> QED BY <1>5, <1>6, <1>7

(***************************************************************************)
(* The initial states, and the theorem.                                    *)
(***************************************************************************)
LEMMA InitHolds == ASSUME Init PROVE IInv
<1>1. /\ up = "off" /\ vtbl = EmptyTable /\ vols = [s \in Vols |-> NoVol] /\ eba = ScanInit.leb
      /\ free = {} /\ works = <<>> /\ sqnum = 0 /\ todo = <<>> /\ ops = 0 /\ cuts = 0
  BY DEF Init
<1>2. ~On
  BY <1>1 DEF On
<1>3. Trees /\ Layouts
  BY <1>2 DEF Trees, Layouts
<1>4. tab \in Tables /\ formatted \in BOOLEAN => RamOk
  BY <1>1, OffFacts DEF RamOk
<1>5. CASE peb = [p \in Pebs |-> Blank] /\ formatted = FALSE /\ tab = EmptyTable
  <2>1. FlashOk /\ \A p \in Pebs : ~IsLeb(p)
    BY <1>5 DEF FlashOk, IsLeb, PebState, Blank
  <2>2. \A l : Found(Layout, l) = Hole
    BY <2>1, FoundIs DEF IsCopy
  <2>3. TableKept /\ Unformatted
    BY <1>2, <1>5, <2>2 DEF TableKept, Unformatted
  <2> QED BY <1>3, <1>4, <1>5, <2>1, <2>3, OffFacts DEF IInv
<1>6. ASSUME NEW n \in 1 .. MaxLebs, NEW type \in {"static", "dynamic"}, NEW auto \in BOOLEAN,
             n + 4 <= NumPebs, OneVolume(n, type, auto), formatted = TRUE
      PROVE  IInv
  <2>1. PICK t, k : /\ t = [EmptyTable EXCEPT ![1] = Rec(n, type, auto)]
                    /\ k = IF auto THEN 0 ELSE n
    OBVIOUS
  <2>2. /\ tab = t
        /\ peb = [p \in Pebs |->
             IF p <= 2 THEN Leb(Layout, p - 1, p, 0, Table(t))
             ELSE IF p - 3 < k
             THEN Leb(1, p - 3, p, IF type = "static" THEN k ELSE 0, Data(0))
             ELSE Free]
    BY <1>6, <2>1 DEF OneVolume
  <2>3. /\ n \in Nat /\ k \in Nat /\ k <= MaxLebs /\ MaxLebs \in Nat /\ 1 \in Vols /\ NumPebs \in Nat
        /\ NumPebs >= 4 /\ Slots \in Nat /\ Slots >= 1
    BY <2>1, UbiVolAssumption DEF Vols
  <2>4. t \in Tables
    <3>1. Rec(n, type, auto) \in [size : Sizes, type : Types, upd : BOOLEAN, auto : BOOLEAN]
      BY <2>3 DEF Rec, Types, Sizes
    <3> QED BY <2>1, <2>3, <3>1, OffFacts DEF Tables
  <2>5. \A p \in Pebs : p \in Nat /\ p >= 1
    BY <2>3 DEF Pebs
  <2>6. ASSUME NEW p \in Pebs PROVE peb[p] \in PebState /\ (IsLeb(p) => peb[p].sq = p)
    <3>1. CASE p <= 2
      <4>1. peb[p] = Leb(Layout, p - 1, p, 0, Table(t))
        BY <2>2, <3>1
      <4>2. Layout \in 0 .. Slots /\ p - 1 \in Lnums /\ Table(t) \in Contents
        BY <2>4, <2>5, <3>1, Lebs, UbiVolAssumption DEF Lnums, Contents, Table
      <4> QED BY <2>5, <4>1, <4>2 DEF PebState, Leb
    <3>2. CASE ~(p <= 2) /\ p - 3 < k
      <4>1. peb[p] = Leb(1, p - 3, p, IF type = "static" THEN k ELSE 0, Data(0))
        BY <2>2, <3>2
      <4>2. 1 \in 0 .. Slots /\ p - 3 \in Lnums /\ Data(0) \in Contents
        BY <2>3, <2>5, <3>2 DEF Lnums, Contents, Data
      <4>3. (IF type = "static" THEN k ELSE 0) \in Nat
        BY <2>3
      <4> QED BY <2>5, <4>1, <4>2, <4>3 DEF PebState, Leb
    <3>3. CASE ~(p <= 2) /\ ~(p - 3 < k)
      <4>1. peb[p] = Free
        BY <2>2, <3>3
      <4> QED BY <4>1 DEF PebState, IsLeb, Free
    <3> QED BY <3>1, <3>2, <3>3
  <2>7. FlashOk
    BY <2>2, <2>6 DEF FlashOk
  <2>8. 1 \in Pebs /\ peb[1] = Leb(Layout, 0, 1, 0, Table(t))
    BY <2>2, <2>3 DEF Pebs
  <2>9. Newer(Layout, 0, 1)
    <3>1. IsCopy(1, Layout, 0) /\ peb[1].sq = 1
      BY <2>8 DEF IsCopy, IsLeb, Leb
    <3>2. ASSUME NEW q \in Pebs, IsCopy(q, Layout, 0) PROVE peb[q].sq <= 1
      <4>1. CASE q <= 2
        <5>1. peb[q] = Leb(Layout, q - 1, q, 0, Table(t))
          BY <2>2, <4>1
        <5>2. q - 1 = 0 /\ peb[q].sq = q
          BY <3>2, <5>1 DEF IsCopy, Leb
        <5> QED BY <2>5, <5>2
      <4>2. CASE ~(q <= 2)
        <5>1. peb[q] = Leb(1, q - 3, q, IF type = "static" THEN k ELSE 0, Data(0)) \/ peb[q] = Free
          BY <2>2, <4>2
        <5> QED BY <3>2, <5>1 DEF IsCopy, IsLeb, Leb, Free, Layout
      <4> QED BY <4>1, <4>2
    <3> QED BY <3>1, <3>2 DEF Newer
  <2>10. Found(Layout, 0) = Table(tab)
    BY <2>2, <2>7, <2>8, <2>9, FoundIs DEF Leb
  <2> QED BY <1>3, <1>4, <1>6, <2>2, <2>4, <2>7, <2>10 DEF IInv, TableKept, Unformatted
<1>7. \/ peb = [p \in Pebs |-> Blank] /\ formatted = FALSE /\ tab = EmptyTable
      \/ \E n \in 1 .. MaxLebs, type \in {"static", "dynamic"}, auto \in BOOLEAN :
           n + 4 <= NumPebs /\ OneVolume(n, type, auto) /\ formatted = TRUE
  BY DEF Init
<1> QED BY <1>5, <1>6, <1>7

LEMMA StutterKeeps == ASSUME IInv, UNCHANGED vars PROVE IInv'
<1>1. FlashOk /\ RamOk /\ Trees /\ Layouts /\ TableKept /\ Unformatted
  BY DEF IInv
<1>2. UNCHANGED <<peb, up, vtbl, vols, eba, free, works, sqnum, todo, tab, formatted, ops, cuts>>
  BY DEF vars, ram, hist
<1>3. FlashOk' /\ Trees' /\ \A v, l : Found(v, l)' = Found(v, l)
  BY <1>1, <1>2, FlashSame, TreesSame
<1>4. RamOk' /\ TableKept' /\ Unformatted'
  BY <1>1, <1>2, <1>3 DEF RamOk, TableKept, Unformatted, On
<1>5. Layouts'
  BY <1>1, <1>2, <1>3 DEF Layouts, Now, On
<1> QED BY <1>3, <1>4, <1>5 DEF IInv

LEMMA NextKeeps == ASSUME IInv, [Next]_vars PROVE IInv'
<1>1. CASE Restore
  BY <1>1, RestoreKeeps
<1>2. CASE Attach
  BY <1>2, AttachKeeps
<1>3. CASE Command
  BY <1>3, CommandKeeps
<1>4. CASE RamStep
  BY <1>4, RamStepKeeps
<1>5. CASE UnmapStep
  BY <1>5, UnmapStepKeeps
<1>6. CASE WriteStep
  BY <1>6, WriteStepKeeps
<1>7. CASE EraseStep
  BY <1>7, EraseStepKeeps
<1>8. CASE FlushDone
  BY <1>8, FlushDoneKeeps
<1>9. CASE Cut
  BY <1>9, CutKeeps
<1>10. CASE UNCHANGED vars
  BY <1>10, StutterKeeps
<1> QED BY <1>1, <1>2, <1>3, <1>4, <1>5, <1>6, <1>7, <1>8, <1>9, <1>10 DEF Next, Step

LEMMA Inductive == Spec => []IInv
<1>1. Init => IInv
  BY InitHolds
<1>2. IInv /\ [Next]_vars => IInv'
  BY NextKeeps
<1> QED BY <1>1, <1>2, PTL DEF Spec

\* Whatever was going on when the power was lost, a boot finds the volume table
\* of the last change that reached LEB 0: in LEB 0, or in LEB 1 while LEB 0 is
\* being written, as vtbl.c:36 says.
THEOREM TableIsKept == Spec => []TableKept
<1>1. IInv => TableKept
  BY DEF IInv
<1> QED BY <1>1, Inductive, PTL

(***************************************************************************)
(* The accounts of physical eraseblocks.  An operation has a goal: the     *)
(* table it makes for, and a number of eraseblocks it gives back as its    *)
(* last step.                                                              *)
(***************************************************************************)
Same(t, u) == \A s \in Vols : t[s].size = u[s].size

\* A program sets the table in RAM; it sets the volume v.
HasTable(s)  == \E h \in ToSet(s) : h.o = "vtbl"
HasVol(s, v) == \E h \in ToSet(s) : h.o = "vol" /\ h.s = v

\* The steps of an operation that makes for the table G.
Pieces(G) == {h \in Steps : /\ h.o = "vtbl" => Same(h.t, G)
                            /\ h.o = "vol" => h.vol.size = G[h.s].size
                            /\ h.o # "back"}

Program(G, B, s) ==
  \/ B = 0 /\ s \in Seq(Pieces(G))
  \/ \E u \in Seq(Pieces(G)) : s = u \o GiveBack(B)

Books(G, B) ==
  /\ G \in Tables /\ B \in Sizes /\ Program(G, B, todo)
  /\ Same(vtbl, G) \/ HasTable(todo)
  /\ \A s \in Vols : vols[s].size = G[s].size \/ HasVol(todo, s)
  /\ avail + rsvd + 4 + Reserved(G) + B = NumPebs

Accounts ==
  /\ avail \in Nat /\ rsvd \in 0 .. Level /\ hurt \subseteq Vols
  /\ op.k \in {"create", "update"} => op.s \in Vols
  /\ Reserved(tab) + 4 <= NumPebs
  /\ On => Reserved(vtbl) + 4 <= NumPebs /\ \E G, B : Books(G, B)
  /\ ~On => avail = 0

\* Setting the size of one volume.
LEMMA ReservedSet ==
  ASSUME NEW t \in Tables, NEW u \in Tables, NEW v \in Vols,
         \A s \in Vols : s # v => u[s].size = t[s].size
  PROVE  /\ Reserved(t) \in Nat /\ Reserved(u) \in Nat
         /\ Reserved(u) = Reserved(t) - t[v].size + u[v].size
<1>1. PICK g : /\ Reserved(t) = g[Slots] /\ g[0] = 0
               /\ \A s \in Vols : g[s] = g[s - 1] + t[s].size
               /\ \A s \in 0 .. Slots : g[s] \in Nat
  BY ReservedSum
<1>2. PICK h : /\ Reserved(u) = h[Slots] /\ h[0] = 0
               /\ \A s \in Vols : h[s] = h[s - 1] + u[s].size
               /\ \A s \in 0 .. Slots : h[s] \in Nat
  BY ReservedSum
<1>3. PICK d : d = u[v].size - t[v].size
  OBVIOUS
<1>4. \A s \in Vols : t[s].size \in Nat /\ u[s].size \in Nat
  BY SizesNat DEF Tables
<1>5. Slots \in Nat /\ v \in 1 .. Slots /\ Vols = 1 .. Slots /\ d \in Int
  BY <1>3, <1>4, UbiVolAssumption DEF Vols
<1> DEFINE Off(m) == IF m < v THEN 0 ELSE d
           T == {m \in Nat : m \in 0 .. Slots => h[m] = g[m] + Off(m)}
<1>6. 0 \in T
  BY <1>1, <1>2, <1>5
<1>7. ASSUME NEW k \in 1 .. Slots, k - 1 \in T PROVE k \in T
  <2>1. k - 1 \in 0 .. Slots /\ k \in 0 .. Slots /\ k \in Nat /\ k \in Vols
    BY <1>5
  <2>2. /\ h[k] = h[k - 1] + u[k].size /\ g[k] = g[k - 1] + t[k].size
        /\ h[k - 1] = g[k - 1] + Off(k - 1)
    BY <1>1, <1>2, <1>7, <2>1
  <2>3. g[k - 1] \in Nat /\ t[k].size \in Nat /\ u[k].size \in Nat
    BY <1>1, <1>4, <2>1
  <2>4. u[k].size = t[k].size + (IF k = v THEN d ELSE 0)
    BY <1>3, <1>4, <2>1
  <2>5. Off(k) = Off(k - 1) + (IF k = v THEN d ELSE 0)
    BY <1>5, <2>1
  <2>6. Off(k - 1) \in Int
    BY <1>5
  <2> HIDE DEF Off
  <2>7. h[k] = g[k] + Off(k)
    BY <1>5, <2>2, <2>3, <2>4, <2>5, <2>6
  <2> QED BY <2>1, <2>7
<1> HIDE DEF T
<1>8. \A i \in 0 .. Slots : i \in T
  BY <1>5, <1>6, <1>7, UpTo
<1>9. h[Slots] = g[Slots] + Off(Slots) /\ Off(Slots) = d
  BY <1>5, <1>8 DEF T
<1>10. g[Slots] \in Nat /\ h[Slots] \in Nat
  BY <1>1, <1>2, <1>5
<1>11. t[v].size \in Nat /\ u[v].size \in Nat
  BY <1>4
<1> HIDE DEF Off
<1> QED BY <1>1, <1>2, <1>3, <1>9, <1>10, <1>11

LEMMA ReservedSame ==
  ASSUME NEW t \in Tables, NEW u \in Tables, Same(t, u)
  PROVE  Reserved(t) \in Nat /\ Reserved(u) = Reserved(t)
<1>1. 1 \in Vols
  BY UbiVolAssumption DEF Vols
<1>2. Reserved(t) \in Nat /\ Reserved(u) = Reserved(t) - t[1].size + u[1].size
  BY <1>1, ReservedSet DEF Same
<1>3. t[1].size \in Nat /\ u[1].size = t[1].size
  BY <1>1, SizesNat DEF Same, Tables
<1> QED BY <1>2, <1>3

LEMMA ReservedNone == Reserved(EmptyTable) = 0
<1>0. EmptyTable \in Tables /\ \A s \in Vols : EmptyTable[s].size = 0
  BY OffFacts DEF EmptyTable, NoRec, Rec
<1>1. PICK g : /\ Reserved(EmptyTable) = g[Slots] /\ g[0] = 0
               /\ \A s \in Vols : g[s] = g[s - 1] + EmptyTable[s].size
  BY <1>0, ReservedSum
<1>2. Slots \in Nat /\ Vols = 1 .. Slots
  BY UbiVolAssumption DEF Vols
<1> DEFINE T == {m \in Nat : m \in 0 .. Slots => g[m] = 0}
<1>3. 0 \in T
  BY <1>1
<1>4. ASSUME NEW k \in 1 .. Slots, k - 1 \in T PROVE k \in T
  <2>1. k - 1 \in 0 .. Slots /\ k \in Nat /\ k \in Vols
    BY <1>2
  <2>2. g[k] = g[k - 1] + 0 /\ g[k - 1] = 0
    BY <1>0, <1>1, <1>4, <2>1
  <2> QED BY <2>1, <2>2
<1> HIDE DEF T
<1>5. \A i \in 0 .. Slots : i \in T
  BY <1>2, <1>3, <1>4, UpTo
<1>6. Slots \in 0 .. Slots
  BY <1>2
<1> QED BY <1>1, <1>5, <1>6 DEF T

(***************************************************************************)
(* What a program makes for.                                               *)
(***************************************************************************)
\* The elements of two sequences one after the other, and of the rest of one.
LEMMA JoinFacts ==
  ASSUME NEW S, NEW s \in Seq(S), NEW t \in Seq(S)
  PROVE  s \o t \in Seq(S) /\ ToSet(s \o t) = ToSet(s) \cup ToSet(t)
<1> DEFINE r == s \o t
           m == Len(s)
           n == Len(t)
<1>1. /\ m \in Nat /\ n \in Nat /\ r \in Seq(S) /\ DOMAIN s = 1 .. m /\ DOMAIN t = 1 .. n /\ DOMAIN r = 1 .. m + n
      /\ \A i \in 1 .. m : r[i] = s[i]
      /\ \A i \in m + 1 .. m + n : r[i] = t[i - m]
  OBVIOUS
<1> HIDE DEF r, m, n
<1>2. \A j \in 1 .. n : m + j \in m + 1 .. m + n /\ (m + j) - m = j /\ m + j \in 1 .. m + n
  BY <1>1
<1>3. \A i \in 1 .. m + n : i \in 1 .. m \/ (i \in m + 1 .. m + n /\ i - m \in 1 .. n)
  BY <1>1
<1>4. \A i \in 1 .. m : i \in 1 .. m + n
  BY <1>1
<1>5. ToSet(s) \subseteq ToSet(r)
  BY <1>1, <1>4 DEF ToSet
<1>6. ToSet(t) \subseteq ToSet(r)
  <2> SUFFICES ASSUME NEW j \in 1 .. n PROVE t[j] \in ToSet(r)
    BY <1>1 DEF ToSet
  <2>1. m + j \in 1 .. m + n /\ r[m + j] = t[j]
    BY <1>1, <1>2
  <2> QED BY <1>1, <2>1 DEF ToSet
<1>7. ToSet(r) \subseteq ToSet(s) \cup ToSet(t)
  <2> SUFFICES ASSUME NEW i \in 1 .. m + n PROVE r[i] \in ToSet(s) \cup ToSet(t)
    BY <1>1 DEF ToSet
  <2> QED BY <1>1, <1>3 DEF ToSet
<1>8. r \in Seq(S) /\ ToSet(r) = ToSet(s) \cup ToSet(t)
  BY <1>1, <1>5, <1>6, <1>7
<1> QED BY <1>8 DEF r

LEMMA RestFacts ==
  ASSUME NEW S, NEW s \in Seq(S), s # <<>>
  PROVE  Tail(s) \in Seq(S) /\ Head(s) \in S /\ ToSet(s) = {Head(s)} \cup ToSet(Tail(s))
<1> DEFINE m == Len(s) - 1
           t == Tail(s)
<1>1. /\ m \in Nat /\ t \in Seq(S) /\ DOMAIN s = 1 .. m + 1 /\ DOMAIN t = 1 .. m /\ Head(s) = s[1] /\ Head(s) \in S
      /\ \A i \in 1 .. m : t[i] = s[i + 1]
  OBVIOUS
<1> HIDE DEF m, t
<1>2. \A i \in 1 .. m + 1 : i = 1 \/ (i - 1 \in 1 .. m /\ (i - 1) + 1 = i)
  BY <1>1
<1>3. ToSet(s) \subseteq {Head(s)} \cup ToSet(t)
  <2> SUFFICES ASSUME NEW i \in 1 .. m + 1 PROVE s[i] \in {Head(s)} \cup ToSet(t)
    BY <1>1 DEF ToSet
  <2>1. CASE i = 1
    BY <1>1, <2>1
  <2>2. CASE i # 1
    <3>1. i - 1 \in 1 .. m /\ t[i - 1] = s[i]
      BY <1>1, <1>2, <2>2
    <3> QED BY <1>1, <3>1 DEF ToSet
  <2> QED BY <2>1, <2>2
<1>4. \A i \in 1 .. m : i + 1 \in 1 .. m + 1
  BY <1>1
<1>5. 1 \in 1 .. m + 1
  BY <1>1
<1>6. {Head(s)} \cup ToSet(t) \subseteq ToSet(s)
  BY <1>1, <1>4, <1>5 DEF ToSet
<1>7. t \in Seq(S) /\ Head(s) \in S /\ ToSet(s) = {Head(s)} \cup ToSet(t)
  BY <1>1, <1>3, <1>6
<1> QED BY <1>7 DEF t

LEMMA OneFacts ==
  ASSUME NEW S, NEW h \in S PROVE <<h>> \in Seq(S) /\ ToSet(<<h>>) = {h}
<1>1. <<h>> \in Seq(S) /\ DOMAIN <<h>> = 1 .. 1 /\ <<h>>[1] = h
  OBVIOUS
<1>2. \A i \in 1 .. 1 : i = 1
  OBVIOUS
<1>3. ToSet(<<h>>) = {<<h>>[i] : i \in 1 .. 1}
  BY <1>1 DEF ToSet
<1> QED BY <1>1, <1>2, <1>3

\* A change to a table of the same sizes.
LEMMA ChangePieces ==
  ASSUME NEW G \in Tables, NEW t \in Tables, Same(t, G)
  PROVE  Change(t) \in Seq(Pieces(G)) /\ HasTable(Change(t))
<1> DEFINE a == [o |-> "vtbl", t |-> t]
           b == Un(Layout, 0)
           c == Wr(Layout, 0, 0, Table(t))
           e == Un(Layout, 1)
           f == Wr(Layout, 1, 0, Table(t))
           r == <<b, c, e, f>>
<1>1. Change(t) = <<a>> \o r
  BY DEF Change, SetTable
<1>2. Table(t) \in [d : {"table"}, t : Tables]
  BY DEF Table
<1>3. a \in Steps /\ b \in Steps /\ c \in Steps /\ e \in Steps /\ f \in Steps
  BY <1>2, Lebs DEF Steps, Un, Wr, Contents
<1>4. a \in Pieces(G) /\ b \in Pieces(G) /\ c \in Pieces(G) /\ e \in Pieces(G) /\ f \in Pieces(G)
  BY <1>3 DEF Pieces, Un, Wr
<1>5. a.o = "vtbl"
  OBVIOUS
<1> HIDE DEF a, b, c, e, f
<1>6. r \in Seq(Pieces(G)) /\ <<a>> \in Seq(Pieces(G)) /\ a \in ToSet(<<a>>)
  BY <1>4, OneFacts
<1> HIDE DEF r
<1>7. PICK z : z = <<a>>
  OBVIOUS
<1>8. z \o r \in Seq(Pieces(G)) /\ ToSet(z \o r) = ToSet(z) \cup ToSet(r)
  <2>1. z \in Seq(Pieces(G))
    BY <1>6, <1>7
  <2> QED BY <1>6, <2>1, JoinFacts
<1>9. a \in ToSet(z \o r)
  BY <1>6, <1>7, <1>8
<1> QED BY <1>1, <1>5, <1>7, <1>8, <1>9 DEF HasTable

\* The other parts of a program.
LEMMA OtherPieces ==
  ASSUME NEW G \in Tables, Vtbls, NEW s \in Vols
  PROVE  /\ <<>> \in Seq(Pieces(G)) /\ FlushAll \in Seq(Pieces(G))
         /\ Wipe(s) \in Seq(Pieces(G)) /\ \A n \in Sizes : Fill(s, n) \in Seq(Pieces(G))
         /\ \A vol \in VolState : vol.size = G[s].size =>
              /\ SetVol(s, vol) \in Seq(Pieces(G))
              /\ HasVol(SetVol(s, vol), s)
<1>1. <<>> \in Seq(Pieces(G))
  OBVIOUS
<1>2. FlushAll \in Seq(Pieces(G))
  <2>1. [o |-> "flush"] \in Pieces(G)
    BY DEF Pieces, Steps
  <2> QED BY <2>1, OneFacts DEF FlushAll
<1>3. ASSUME NEW w \in Seq(Steps), \A i \in 1 .. Len(w) : w[i].o \in {"unmap", "write"}
      PROVE  w \in Seq(Pieces(G))
  <2>1. PICK n \in Nat : n = Len(w)
    OBVIOUS
  <2>2. w \in [1 .. n -> Steps]
    BY <2>1
  <2>3. \A i \in 1 .. n : w[i] \in Pieces(G)
    BY <1>3, <2>1, <2>2 DEF Pieces
  <2>4. w \in [1 .. n -> Pieces(G)]
    BY <2>2, <2>3
  <2> QED BY <2>4
<1>4. Wipe(s) \in Seq(Pieces(G))
  <2>0. Wipe(s) \in Seq(Steps)
    BY SizesNat, WholeLebs DEF Whole
  <2> DEFINE w == Wipe(s)
  <2>1. w = [i \in 1 .. vols[s].size |-> Un(s, i - 1)] /\ vols[s].size \in Nat
    BY SizesNat DEF Wipe, Vtbls, VolState
  <2> HIDE DEF w
  <2>2. Len(w) = vols[s].size /\ \A i \in 1 .. vols[s].size : w[i].o = "unmap"
    BY <2>1 DEF Un
  <2>3. w \in Seq(Pieces(G))
    BY <1>3, <2>0, <2>2 DEF w
  <2> QED BY <2>3 DEF w
<1>5. ASSUME NEW n \in Sizes PROVE Fill(s, n) \in Seq(Pieces(G))
  <2>0. Fill(s, n) \in Seq(Steps)
    BY WholeLebs DEF Whole
  <2> DEFINE w == Fill(s, n)
  <2>1. w = [i \in 1 .. n |-> Wr(s, i - 1, UsedEbs(s, n), Data(ops + 1))] /\ n \in Nat
    BY SizesNat DEF Fill
  <2> HIDE DEF w
  <2>2. Len(w) = n /\ \A i \in 1 .. n : w[i].o = "write"
    BY <2>1 DEF Wr
  <2>3. w \in Seq(Pieces(G))
    BY <1>3, <2>0, <2>2 DEF w
  <2> QED BY <2>3 DEF w
<1>6. ASSUME NEW vol \in VolState, vol.size = G[s].size
      PROVE  SetVol(s, vol) \in Seq(Pieces(G)) /\ HasVol(SetVol(s, vol), s)
  <2> DEFINE h == [o |-> "vol", s |-> s, vol |-> vol]
  <2>1. h \in Pieces(G) /\ h.o = "vol" /\ h.s = s
    BY <1>6 DEF Pieces, Steps
  <2> HIDE DEF h
  <2>2. <<h>> \in Seq(Pieces(G)) /\ h \in ToSet(<<h>>)
    BY <2>1, OneFacts
  <2>3. SetVol(s, vol) = <<h>>
    BY DEF SetVol, h
  <2> QED BY <2>1, <2>2, <2>3 DEF HasTable, HasVol
<1> QED BY <1>1, <1>2, <1>4, <1>5, <1>6

\* The marker changes no size.
LEMMA MarkedSame ==
  ASSUME Vtbls, NEW s \in Vols, NEW b \in BOOLEAN
  PROVE  Marked(s, b) \in Tables /\ Same(Marked(s, b), vtbl)
<1>1. [vtbl[s] EXCEPT !.upd = b] \in [size : Sizes, type : Types, upd : BOOLEAN, auto : BOOLEAN]
  BY DEF Vtbls, Tables
<1>2. Marked(s, b) = [vtbl EXCEPT ![s] = [vtbl[s] EXCEPT !.upd = b]]
  BY DEF Marked, Vtbls, Tables
<1>3. [vtbl[s] EXCEPT !.upd = b].size = vtbl[s].size
  BY DEF Vtbls, Tables
<1> QED BY <1>1, <1>2, <1>3 DEF Vtbls, Tables, Same

LEMMA FinishPieces ==
  ASSUME Vtbls, NEW s \in Vols, NEW n \in Sizes, vols[s].size = vtbl[s].size
  PROVE  Finish(s, n) \in Seq(Pieces(vtbl))
<1> DEFINE vol == [vols[s] EXCEPT !.upd = FALSE, !.updating = TRUE,
                                  !.corrupted = @ /\ vols[s].type = "dynamic",
                                  !.used = IF vols[s].type = "static" THEN n ELSE @]
           c == Change(Marked(s, FALSE))
<1>0. vtbl \in Tables
  BY DEF Vtbls
<1>1. vol \in VolState /\ vol.size = vtbl[s].size
  BY SizesNat DEF Vtbls, VolState
<1>2. c \in Seq(Pieces(vtbl))
  BY <1>0, MarkedSame, ChangePieces
<1>3. Finish(s, n) = (c \o SetVol(s, vol)) \o FlushAll
  BY DEF Finish
<1> HIDE DEF vol, c
<1>4. SetVol(s, vol) \in Seq(Pieces(vtbl)) /\ FlushAll \in Seq(Pieces(vtbl))
  BY <1>0, <1>1, OtherPieces
<1>5. c \o SetVol(s, vol) \in Seq(Pieces(vtbl))
  BY <1>2, <1>4, JoinFacts
<1> QED BY <1>3, <1>4, <1>5, JoinFacts

LEMMA UpdatePieces ==
  ASSUME Vtbls, NEW s \in Vols, NEW n \in Sizes, vols[s].size = vtbl[s].size
  PROVE  Update(s, n) \in Seq(Pieces(vtbl))
<1> DEFINE S == Seq(Pieces(vtbl))
           vol == [vols[s] EXCEPT !.upd = FALSE, !.updating = FALSE,
                                  !.corrupted = @ /\ vols[s].type = "dynamic",
                                  !.used = IF vols[s].type = "static" THEN n ELSE @]
           mark == [vols[s] EXCEPT !.upd = TRUE, !.updating = TRUE]
           p0 == Change(Marked(s, TRUE))
           p1 == IF vols[s].upd THEN <<>> ELSE p0 \o SetVol(s, mark)
           p2 == IF n = 0 THEN Finish(s, 0) ELSE <<>>
<1>0. vtbl \in Tables
  BY DEF Vtbls
<1>1. vol \in VolState /\ mark \in VolState /\ vol.size = vtbl[s].size /\ mark.size = vtbl[s].size
  BY SizesNat DEF Vtbls, VolState
<1>2. Update(s, n) = ((((p1 \o Wipe(s)) \o p2) \o Fill(s, n)) \o Finish(s, n)) \o SetVol(s, vol)
  BY DEF Update
<1>3. p0 \in S
  BY <1>0, MarkedSame, ChangePieces
<1> HIDE DEF vol, mark, p0
<1>4. SetVol(s, vol) \in S /\ SetVol(s, mark) \in S /\ <<>> \in S /\ Wipe(s) \in S /\ Fill(s, n) \in S
  BY <1>0, <1>1, OtherPieces
<1>5. Finish(s, n) \in S /\ p2 \in S
  BY <1>4, SizesNat, FinishPieces
<1>6. p0 \o SetVol(s, mark) \in S
  BY <1>3, <1>4, JoinFacts
<1>7. p1 \in S
  BY <1>4, <1>6
<1> HIDE DEF p1, p2
<1>8. p1 \o Wipe(s) \in S
  BY <1>4, <1>7, JoinFacts
<1>9. (p1 \o Wipe(s)) \o p2 \in S
  BY <1>5, <1>8, JoinFacts
<1>10. ((p1 \o Wipe(s)) \o p2) \o Fill(s, n) \in S
  BY <1>4, <1>9, JoinFacts
<1>11. (((p1 \o Wipe(s)) \o p2) \o Fill(s, n)) \o Finish(s, n) \in S
  BY <1>5, <1>10, JoinFacts
<1> QED BY <1>2, <1>4, <1>11, JoinFacts

LEMMA MakePieces ==
  ASSUME Vtbls, NEW s \in Vols, NEW n \in Sizes, NEW type \in {"static", "dynamic"},
         NEW G, G = [vtbl EXCEPT ![s] = Rec(n, type, FALSE)]
  PROVE  /\ G \in Tables /\ Make(s, n, type) \in Seq(Pieces(G))
         /\ HasTable(Make(s, n, type))
         /\ HasVol(Make(s, n, type), s)
<1> DEFINE vol == [NoVol EXCEPT !.size = n, !.type = type, !.used = IF type = "dynamic" THEN n ELSE 0]
           c == Change(G)
           v == SetVol(s, vol)
<1>1. vol \in VolState /\ vol.size = n
  BY SizesNat DEF NoVol, VolState, Types
<1>2. Rec(n, type, FALSE) \in [size : Sizes, type : Types, upd : BOOLEAN, auto : BOOLEAN] /\ Rec(n, type, FALSE).size = n
  BY DEF Rec, Types
<1>3. G \in Tables /\ G[s].size = n /\ Same(G, G)
  BY <1>2 DEF Vtbls, Tables, Same
<1>4. Make(s, n, type) = (FlushAll \o c) \o v
  BY DEF Make
<1> HIDE DEF vol
<1>5. c \in Seq(Pieces(G)) /\ HasTable(c)
  BY <1>3, ChangePieces
<1>6. v \in Seq(Pieces(G)) /\ HasVol(v, s) /\ FlushAll \in Seq(Pieces(G))
  BY <1>1, <1>3, OtherPieces
<1> HIDE DEF c, v
<1>7. FlushAll \o c \in Seq(Pieces(G)) /\ ToSet(FlushAll \o c) = ToSet(FlushAll) \cup ToSet(c)
  BY <1>5, <1>6, JoinFacts
<1> DEFINE fc == FlushAll \o c
<1> HIDE DEF fc
<1>8. fc \in Seq(Pieces(G)) /\ ToSet(c) \subseteq ToSet(fc)
  BY <1>7 DEF fc
<1>9. fc \o v \in Seq(Pieces(G)) /\ ToSet(fc \o v) = ToSet(fc) \cup ToSet(v)
  BY <1>6, <1>8, JoinFacts
<1>10. Make(s, n, type) = fc \o v
  BY <1>4 DEF fc
<1> QED BY <1>3, <1>5, <1>6, <1>8, <1>9, <1>10 DEF HasTable, HasVol

LEMMA UnmakePieces ==
  ASSUME Vtbls, NEW s \in Vols, NEW G, G = [vtbl EXCEPT ![s] = NoRec]
  PROVE  /\ G \in Tables /\ G[s].size = 0
         /\ \E u \in Seq(Pieces(G)) : Unmake(s) = u \o GiveBack(vols[s].size)
         /\ HasTable(Unmake(s))
         /\ HasVol(Unmake(s), s)
<1> DEFINE c == Change(G)
           w == Wipe(s)
           v == SetVol(s, NoVol)
           b == GiveBack(vols[s].size)
           cw == c \o w
           u == cw \o v
<1>0. NoVol \in VolState /\ NoVol.size = 0 /\ vols[s].size \in Sizes
  BY OffFacts DEF NoVol, Vtbls, VolState
<1>1. NoRec \in [size : Sizes, type : Types, upd : BOOLEAN, auto : BOOLEAN] /\ NoRec.size = 0
  BY SizesNat DEF NoRec, Rec, Types
<1>2. G \in Tables /\ G[s].size = 0 /\ Same(G, G)
  BY <1>1 DEF Vtbls, Tables, Same
<1>3. Unmake(s) = u \o b
  BY DEF Unmake
<1>4. c \in Seq(Pieces(G)) /\ HasTable(c)
  BY <1>2, ChangePieces
<1>5. v \in Seq(Pieces(G)) /\ HasVol(v, s) /\ w \in Seq(Pieces(G))
  BY <1>0, <1>2, OtherPieces
<1>6. b \in Seq(Steps)
  BY <1>0, WholeParts DEF Whole
<1> HIDE DEF c, w, v, b, cw, u
<1>7. cw \in Seq(Pieces(G)) /\ ToSet(cw) = ToSet(c) \cup ToSet(w)
  BY <1>4, <1>5, JoinFacts DEF cw
<1>8. u \in Seq(Pieces(G)) /\ ToSet(u) = ToSet(cw) \cup ToSet(v)
  BY <1>5, <1>7, JoinFacts DEF u
<1>9. u \in Seq(Steps)
  <2>1. Pieces(G) \subseteq Steps
    BY DEF Pieces
  <2>2. PICK n \in Nat : u \in [1 .. n -> Pieces(G)]
    BY <1>8
  <2>3. u \in [1 .. n -> Steps]
    BY <2>1, <2>2
  <2> QED BY <2>3
<1>10. ToSet(u \o b) = ToSet(u) \cup ToSet(b)
  BY <1>6, <1>9, JoinFacts
<1>11. Unmake(s) = u \o GiveBack(vols[s].size)
  BY <1>3 DEF b
<1>12. ToSet(Unmake(s)) = ToSet(u) \cup ToSet(b)
  BY <1>3, <1>10
<1> QED BY <1>2, <1>4, <1>5, <1>7, <1>8, <1>11, <1>12 DEF HasTable, HasVol

Grown(t, s, n) == [t EXCEPT ![s].size = n, ![s].auto = FALSE]

LEMMA GrowPieces ==
  ASSUME NEW t \in Tables, NEW s \in Vols, NEW vol \in VolState, NEW n \in Sizes,
         NEW G, G = Grown(t, s, n)
  PROVE  /\ G \in Tables /\ G[s].size = n /\ Grow(t, s, vol, n) \in Seq(Pieces(G))
         /\ HasTable(Grow(t, s, vol, n))
         /\ HasVol(Grow(t, s, vol, n), s)
<1> DEFINE more == [vol EXCEPT !.size = n, !.used = IF vol.type = "dynamic" THEN n ELSE @]
           c == Change(G)
           v == SetVol(s, more)
<1>1. more \in VolState /\ more.size = n
  BY SizesNat DEF VolState
<1>2. G \in Tables /\ G[s].size = n /\ Same(G, G)
  BY DEF Tables, Same, Grown
<1>3. Grow(t, s, vol, n) = c \o v
  BY DEF Grow, Grown
<1> HIDE DEF more
<1>4. c \in Seq(Pieces(G)) /\ HasTable(c)
  BY <1>2, ChangePieces
<1>5. v \in Seq(Pieces(G)) /\ HasVol(v, s)
  <2>1. SetVol(s, more) \in Seq(Pieces(G)) /\ HasVol(SetVol(s, more), s)
    <3> DEFINE x == SetVol(s, more)
               y == [o |-> "vol", s |-> s, vol |-> more]
    <3>1. y \in Pieces(G) /\ y.o = "vol" /\ y.s = s
      BY <1>1, <1>2 DEF Pieces, Steps
    <3> HIDE DEF y
    <3>2. <<y>> \in Seq(Pieces(G)) /\ y \in ToSet(<<y>>)
      BY <3>1, OneFacts
    <3>3. x = <<y>>
      BY DEF SetVol, y
    <3> QED BY <3>1, <3>2, <3>3 DEF HasTable, HasVol
  <2> QED BY <2>1
<1> HIDE DEF c, v
<1>6. c \o v \in Seq(Pieces(G)) /\ ToSet(c \o v) = ToSet(c) \cup ToSet(v)
  BY <1>4, <1>5, JoinFacts
<1> QED BY <1>2, <1>3, <1>4, <1>5, <1>6 DEF HasTable, HasVol

(***************************************************************************)
(* The accounts through each action.                                       *)
(***************************************************************************)
\* The rest of two sequences one after the other.
LEMMA RestOfJoin ==
  ASSUME NEW S, NEW u \in Seq(S), NEW v \in Seq(S), u # <<>>
  PROVE  u \o v # <<>> /\ Head(u \o v) = Head(u) /\ Tail(u \o v) = Tail(u) \o v
<1> DEFINE m == Len(u) - 1
           n == Len(v)
           a == Tail(u \o v)
           b == Tail(u) \o v
<1>1. /\ m \in Nat /\ n \in Nat /\ Len(u) = m + 1
      /\ a \in Seq(S) /\ b \in Seq(S) /\ Len(a) = m + n /\ Len(b) = m + n
      /\ u \o v # <<>> /\ Head(u \o v) = Head(u)
  OBVIOUS
<1>2. ASSUME NEW i \in 1 .. m + n PROVE a[i] = b[i]
  <2>1. CASE i \in 1 .. m
    <3>1. a[i] = (u \o v)[i + 1] /\ i + 1 \in 1 .. Len(u)
      BY <1>1, <2>1
    <3>2. (u \o v)[i + 1] = u[i + 1]
      BY <3>1
    <3>3. b[i] = Tail(u)[i] /\ Tail(u)[i] = u[i + 1]
      BY <1>1, <2>1
    <3> QED BY <3>1, <3>2, <3>3
  <2>2. CASE i \notin 1 .. m
    <3>1. a[i] = (u \o v)[i + 1] /\ i + 1 \in Len(u) + 1 .. Len(u) + n
      BY <1>1, <2>2
    <3>2. (u \o v)[i + 1] = v[i + 1 - Len(u)] /\ i + 1 - Len(u) = i - m
      BY <1>1, <3>1
    <3>3. b[i] = v[i - Len(Tail(u))] /\ Len(Tail(u)) = m
      BY <1>1, <2>2
    <3> QED BY <3>1, <3>2, <3>3
  <2> QED BY <2>1, <2>2
<1> HIDE DEF a, b, m, n
<1>3. a = b
  BY <1>1, <1>2
<1> QED BY <1>1, <1>3 DEF a, b

\* A step leaves the goal, and of what is given back what is not yet.
LEMMA ProgramRest ==
  ASSUME NEW G \in Tables, NEW B \in Sizes, NEW s, Program(G, B, s), s # <<>>
  PROVE  \/ Head(s) \in Pieces(G) /\ Program(G, B, Tail(s))
         \/ Head(s) = [o |-> "back", n |-> B] /\ Program(G, 0, Tail(s))
<1>1. CASE B = 0 /\ s \in Seq(Pieces(G))
  BY <1>1, RestFacts DEF Program
<1>2. ASSUME NEW u \in Seq(Pieces(G)), s = u \o GiveBack(B)
      PROVE  \/ Head(s) \in Pieces(G) /\ Program(G, B, Tail(s))
             \/ Head(s) = [o |-> "back", n |-> B] /\ Program(G, 0, Tail(s))
  <2> DEFINE h == [o |-> "back", n |-> B]
             v == GiveBack(B)
  <2>1. v = <<h>> /\ h.o = "back"
    BY DEF GiveBack
  <2>2. CASE u = <<>>
    <3> HIDE DEF h
    <3>1. s = <<h>>
      BY <1>2, <2>1, <2>2
    <3>2. Head(s) = h /\ Tail(s) = <<>> /\ <<>> \in Seq(Pieces(G))
      BY <3>1
    <3> QED BY <3>2 DEF Program, h
  <2>3. CASE u # <<>>
    <3> DEFINE S == Pieces(G) \cup {h}
    <3> HIDE DEF h
    <3>1. v \in Seq(S)
      BY <2>1
    <3>2. u \in Seq(S)
      <4>1. PICK n \in Nat : u \in [1 .. n -> Pieces(G)]
        OBVIOUS
      <4>2. u \in [1 .. n -> S]
        BY <4>1
      <4> QED BY <4>2
    <3> HIDE DEF S, v
    <3>3. Head(u \o v) = Head(u) /\ Tail(u \o v) = Tail(u) \o v
      BY <2>3, <3>1, <3>2, RestOfJoin
    <3>4. Head(u) \in Pieces(G) /\ Tail(u) \in Seq(Pieces(G))
      BY <2>3, RestFacts
    <3> QED BY <1>2, <3>3, <3>4 DEF Program, v
  <2> QED BY <2>2, <2>3
<1> QED BY <1>1, <1>2 DEF Program

LEMMA Advanced ==
  ASSUME RamOk, NEW G, NEW B, Books(G, B), todo # <<>>, todo' = Tail(todo), NEW h, h = Head(todo),
         vtbl' = IF h.o = "vtbl" THEN h.t ELSE vtbl,
         vols' = IF h.o = "vol" THEN [vols EXCEPT ![h.s] = h.vol] ELSE vols,
         avail \in Nat, rsvd \in Nat, avail' \in Nat, rsvd' \in Nat,
         avail' + rsvd' = avail + rsvd + (IF h.o = "back" THEN h.n ELSE 0)
  PROVE  \E C : Books(G, C)'
<1>0. G \in Tables /\ B \in Sizes /\ B \in Nat /\ 0 \in Sizes /\ Reserved(G) \in Nat
  <2>1. 1 \in Vols
    BY UbiVolAssumption DEF Vols
  <2> QED BY <2>1, SizesNat, ReservedIs DEF Books
<1>1. todo \in Seq(Steps) /\ vols \in [Vols -> VolState]
  BY DEF RamOk
<1>2. h \in Steps /\ ToSet(todo) = {h} \cup ToSet(todo')
  BY <1>1, RestFacts
<1>3. PICK C : /\ C = IF h.o = "back" THEN 0 ELSE B
               /\ Program(G, C, todo')
               /\ h.o = "back" => h.n = B
               /\ h.o # "back" => h \in Pieces(G)
  <2>1. \/ h \in Pieces(G) /\ Program(G, B, todo')
        \/ h = [o |-> "back", n |-> B] /\ Program(G, 0, todo')
    BY <1>0, ProgramRest DEF Books
  <2> QED BY <2>1 DEF Pieces
<1>4. Same(vtbl', G) \/ HasTable(todo')
  <2>1. CASE h.o = "vtbl"
    BY <1>3, <2>1 DEF Pieces
  <2>2. CASE h.o # "vtbl"
    BY <1>2, <2>2 DEF Books, HasTable, HasVol
  <2> QED BY <2>1, <2>2
<1>5. ASSUME NEW s \in Vols
      PROVE  vols'[s].size = G[s].size \/ HasVol(todo', s)
  <2>1. CASE h.o = "vol" /\ h.s = s
    <3>1. vols'[s] = h.vol
      BY <1>1, <2>1
    <3>2. h.vol.size = G[h.s].size
      BY <1>3, <2>1 DEF Pieces
    <3> QED BY <2>1, <3>1, <3>2
  <2>2. CASE ~(h.o = "vol" /\ h.s = s)
    <3>1. vols'[s] = vols[s]
      BY <1>1, <2>2
    <3> QED BY <1>2, <2>2, <3>1 DEF Books, HasTable, HasVol
  <2> QED BY <2>1, <2>2
<1>6. avail' + rsvd' + 4 + Reserved(G) + C = NumPebs
  <2>1. avail + rsvd + 4 + Reserved(G) + B = NumPebs
    BY DEF Books
  <2>2. PICK a, r, x, y, z : a = avail /\ r = rsvd /\ x = avail' /\ y = rsvd' /\ z = Reserved(G)
    OBVIOUS
  <2>3. a \in Nat /\ r \in Nat /\ x \in Nat /\ y \in Nat /\ z \in Nat /\ a + r + 4 + z + B = NumPebs
    BY <1>0, <2>1, <2>2
  <2>4. x + y + C = a + r + B
    <3>1. CASE h.o = "back"
      <4>1. C = 0 /\ x + y = a + r + B
        BY <1>3, <2>2, <3>1
      <4> QED BY <2>3, <4>1
    <3>2. CASE h.o # "back"
      <4>1. C = B /\ x + y = a + r + 0
        BY <1>3, <2>2, <3>2
      <4> QED BY <1>0, <2>3, <4>1
    <3> QED BY <3>1, <3>2
  <2>5. C \in Nat
    BY <1>0, <1>3
  <2>6. x + y + 4 + z + C = NumPebs
    <3>1. B \in Nat
      BY <1>0
    <3>2. x + y + C + 4 + z = NumPebs
      <4>1. a + r + B + 4 + z = NumPebs
        BY <2>3, <3>1
      <4>2. (a + r + B) + 4 + z = (x + y + C) + 4 + z
        BY <2>4
      <4> QED BY <4>1, <4>2
    <3> QED BY <2>3, <2>5, <3>2
  <2> QED BY <2>2, <2>6
<1>7. C \in Sizes
  BY <1>0, <1>3
<1>8. Books(G, C)'
  BY <1>0, <1>3, <1>4, <1>5, <1>6, <1>7 DEF Books, Same
<1> QED BY <1>8

\* Between operations RAM is as the table says, and no block is missing.
LEMMA IdleBooks ==
  ASSUME IInv, Accounts, On, todo = <<>>
  PROVE  /\ \A s \in Vols : vols[s].size = vtbl[s].size
         /\ avail + rsvd + 4 + Reserved(vtbl) = NumPebs /\ Reserved(vtbl) \in Nat
<1>1. PICK G, B : Books(G, B)
  BY DEF Accounts
<1>2. ToSet(todo) = {}
  <2>1. \A i \in DOMAIN <<>> : FALSE
    OBVIOUS
  <2> QED BY <2>1 DEF ToSet
<1>3. G \in Tables /\ B \in Nat /\ vtbl \in Tables /\ avail \in Nat /\ rsvd \in Nat
  BY <1>1, SizesNat, UbiVolAssumption DEF Books, IInv, RamOk, Accounts
<1>4. Same(vtbl, G) /\ \A s \in Vols : vols[s].size = G[s].size
  BY <1>1, <1>2 DEF Books, HasTable, HasVol
<1>5. Reserved(vtbl) \in Nat /\ Reserved(G) = Reserved(vtbl)
  BY <1>3, <1>4, ReservedSame
<1>6. B = 0
  <2>1. ASSUME NEW u \in Seq(Pieces(G)) PROVE u \o GiveBack(B) # <<>>
    <3> DEFINE x == [o |-> "back", n |-> B]
    <3> HIDE DEF x
    <3>1. u \o <<x>> # <<>>
      OBVIOUS
    <3> QED BY <3>1 DEF GiveBack, x
  <2> QED BY <1>1, <2>1 DEF Books, Program
<1>7. avail + rsvd + 4 + Reserved(G) + B = NumPebs
  BY <1>1 DEF Books
<1> QED BY <1>3, <1>4, <1>5, <1>6, <1>7 DEF Same

\* Nothing of the accounts has changed.
LEMMA AccountsStay ==
  ASSUME Accounts, On' <=> On,
         UNCHANGED <<avail, rsvd, hurt, op, tab, vtbl, vols, todo>>
  PROVE  Accounts'
<1>1. ASSUME On' PROVE \E G, B : Books(G, B)'
  <2>1. PICK G, B : Books(G, B)
    BY <1>1 DEF Accounts
  <2>2. Books(G, B)'
    BY <2>1 DEF Books, Same
  <2> QED BY <2>2
<1> QED BY <1>1 DEF Accounts

\* A step of an operation.
LEMMA AccountsAdvance ==
  ASSUME IInv, Accounts, On, todo # <<>>, todo' = Tail(todo), NEW h, h = Head(todo),
         vtbl' = IF h.o = "vtbl" THEN h.t ELSE vtbl,
         vols' = IF h.o = "vol" THEN [vols EXCEPT ![h.s] = h.vol] ELSE vols,
         avail' \in Nat, rsvd' \in 0 .. Level,
         avail' + rsvd' = avail + rsvd + (IF h.o = "back" THEN h.n ELSE 0),
         up' = up, op' = op, hurt' \subseteq Vols, tab' = tab \/ tab' = vtbl
  PROVE  Accounts'
<1>0. RamOk /\ avail \in Nat /\ rsvd \in 0 .. Level /\ rsvd \in Nat /\ rsvd' \in Nat /\ Level \in Nat
  BY UbiVolAssumption DEF IInv, Accounts
<1>1. PICK G, B : Books(G, B)
  BY DEF Accounts
<1>2. PICK C : Books(G, C)'
  BY <1>0, <1>1, Advanced
<1>3. Reserved(vtbl) + 4 <= NumPebs /\ Reserved(tab) + 4 <= NumPebs
  BY DEF Accounts
<1>4. Reserved(G) \in Nat /\ Reserved(G) + 4 <= NumPebs
  <2>1. 1 \in Vols
    BY UbiVolAssumption DEF Vols
  <2>2. Reserved(G) \in Nat /\ B \in Nat /\ avail + rsvd + 4 + Reserved(G) + B = NumPebs
    BY <1>1, <2>1, ReservedIs, SizesNat DEF Books
  <2> QED BY <1>0, <2>2
<1>5. Reserved(vtbl') + 4 <= NumPebs
  <2>1. CASE h.o = "vtbl"
    <3>1. h \in Steps /\ h \in Pieces(G) /\ vtbl' = h.t
      <4>1. todo \in Seq(Steps) /\ G \in Tables /\ B \in Sizes /\ Program(G, B, todo)
        BY <1>0, <1>1 DEF RamOk, Books
      <4>2. h \in Pieces(G)
        BY <2>1, <4>1, ProgramRest
      <4> QED BY <2>1, <4>2 DEF Pieces
    <3>2. h.t \in Tables
      BY <2>1, <3>1 DEF Steps
    <3>3. G \in Tables /\ Same(h.t, G)
      BY <1>1, <2>1, <3>1 DEF Books, Pieces
    <3>4. Reserved(G) = Reserved(h.t)
      BY <3>2, <3>3, ReservedSame
    <3> QED BY <1>4, <3>1, <3>4
  <2>2. CASE h.o # "vtbl"
    BY <1>3, <2>2
  <2> QED BY <2>1, <2>2
<1>6. Reserved(tab') + 4 <= NumPebs
  BY <1>3
<1>7. op'.k \in {"create", "update"} => op'.s \in Vols
  BY DEF Accounts
<1>8. Reserved(vtbl)' = Reserved(vtbl') /\ Reserved(tab)' = Reserved(tab')
  BY DEF Reserved
<1>9. On'
  BY DEF On
<1> QED BY <1>2, <1>5, <1>6, <1>7, <1>8, <1>9 DEF Accounts

\* What ubi_remove_volume gives back goes to the reserve first.
LEMMA AccountsRam == ASSUME IInv, Accounts, RamStep PROVE Accounts'
<1>1. PICK h : h = Head(todo)
  OBVIOUS
<1>2. /\ On /\ todo # <<>> /\ todo' = Tail(todo) /\ up' = up /\ op' = op /\ hurt' = hurt /\ tab' = tab
      /\ vtbl' = (IF h.o = "vtbl" THEN h.t ELSE vtbl)
      /\ vols' = (IF h.o = "vol" THEN [vols EXCEPT ![h.s] = h.vol] ELSE vols)
  BY <1>1 DEF RamStep, At, Advance, On, hist
<1>3. avail \in Nat /\ rsvd \in 0 .. Level /\ rsvd \in Nat /\ Level \in Nat /\ rsvd <= Level /\ hurt \subseteq Vols
  BY UbiVolAssumption DEF Accounts
<1>4. /\ avail' \in Nat /\ rsvd' \in 0 .. Level
      /\ avail' + rsvd' = avail + rsvd + (IF h.o = "back" THEN h.n ELSE 0)
  <2>1. CASE h.o # "back"
    <3>1. avail' = avail /\ rsvd' = rsvd
      BY <1>1, <2>1 DEF RamStep
    <3> QED BY <1>3, <2>1, <3>1
  <2>2. CASE h.o = "back"
    <3>1. h \in Steps
      BY <1>1, <1>2, RestFacts DEF IInv, RamOk
    <3>2. h.n \in Nat
      BY <2>2, <3>1, SizesNat DEF Steps
    <3>3. PICK n, more : /\ n = h.n
                         /\ more = IF Level <= rsvd THEN 0
                                   ELSE IF avail + n < Level - rsvd THEN avail + n ELSE Level - rsvd
      OBVIOUS
    <3>4. avail' = avail + n - more /\ rsvd' = rsvd + more
      BY <1>1, <2>2, <3>3 DEF RamStep
    <3>5. n \in Nat /\ more \in Nat /\ more <= avail + n /\ rsvd + more <= Level
      BY <1>3, <3>2, <3>3
    <3> QED BY <1>3, <2>2, <3>3, <3>4, <3>5
  <2> QED BY <2>1, <2>2
<1> QED BY <1>1, <1>2, <1>3, <1>4, AccountsAdvance

\* The other steps of an operation.
LEMMA AccountsFlash ==
  ASSUME IInv, Accounts, UnmapStep \/ WriteStep \/ FlushDone \/ EraseStep
  PROVE  Accounts'
<1>0. /\ On /\ todo # <<>> /\ up' = up /\ avail' = avail /\ rsvd' = rsvd /\ op' = op /\ vtbl' = vtbl /\ vols' = vols
      /\ hurt \subseteq Vols /\ avail \in Nat /\ rsvd \in 0 .. Level /\ rsvd \in Nat
  BY UbiVolAssumption DEF UnmapStep, WriteStep, FlushDone, EraseStep, At, Advance, On, Accounts
<1>1. PICK h : h = Head(todo)
  OBVIOUS
<1>2. CASE EraseStep
  BY <1>0, <1>2, AccountsStay DEF EraseStep, hist, On
<1>3. ASSUME todo' = Tail(todo), h.o \notin {"vtbl", "vol", "back"}, hurt' \subseteq Vols,
             tab' = tab \/ tab' = vtbl
      PROVE  Accounts'
  <2>1. avail' + rsvd' = avail + rsvd + (IF h.o = "back" THEN h.n ELSE 0)
    BY <1>0, <1>3
  <2>2. /\ vtbl' = (IF h.o = "vtbl" THEN h.t ELSE vtbl)
        /\ vols' = (IF h.o = "vol" THEN [vols EXCEPT ![h.s] = h.vol] ELSE vols)
    BY <1>0, <1>3
  <2> QED BY <1>0, <1>1, <1>3, <2>1, <2>2, AccountsAdvance
<1>4. CASE UnmapStep
  BY <1>0, <1>1, <1>3, <1>4 DEF UnmapStep, At, Advance, hist
<1>5. CASE FlushDone
  BY <1>0, <1>1, <1>3, <1>5 DEF FlushDone, At, Advance, hist
<1>6. CASE WriteStep
  <2>1. h.o = "write" /\ todo' = Tail(todo) /\ Commits(h)
    BY <1>1, <1>6 DEF WriteStep, At, Advance
  <2>2. hurt' \subseteq Vols
    BY <1>0, <2>1 DEF Commits, hist
  <2>3. CASE h.v = Layout /\ h.l = 0
    <3>1. h \in Steps /\ todo[1] = h
      BY <1>0, <1>1, RestFacts DEF IInv, RamOk
    <3>2. Now = 3
      BY <1>0, <2>1, <2>3, <3>1, StageIs DEF Now
    <3>3. h.d = Table(vtbl)
      BY <1>0, <3>1, <3>2 DEF IInv, Layouts
    <3>4. tab' = vtbl
      BY <2>1, <2>3, <3>3, Contradistinct DEF Commits
    <3> QED BY <1>3, <2>1, <2>2, <3>4
  <2>4. CASE ~(h.v = Layout /\ h.l = 0)
    BY <1>3, <2>1, <2>2, <2>4 DEF Commits, hist
  <2> QED BY <2>3, <2>4
<1> QED BY <1>2, <1>4, <1>5, <1>6

LEMMA AccountsCommand == ASSUME IInv, Accounts, Command PROVE Accounts'
<1>1. PICK s \in Vols, n \in 0 .. MaxLebs :
        \/ n > 0 /\ \E type \in {"static", "dynamic"} : CreateVol(n, type)
        \/ RemoveVol(s)
        \/ WriteVol(s, n)
  BY DEF Command
<1>2. /\ On /\ todo = <<>> /\ On' /\ hurt' = hurt /\ tab' = tab /\ vtbl' = vtbl /\ rsvd' = rsvd
  BY <1>1 DEF CreateVol, RemoveVol, WriteVol, Ready, On, hist
<1>3. /\ \A v \in Vols : vols[v].size = vtbl[v].size
      /\ avail + rsvd + 4 + Reserved(vtbl) = NumPebs /\ Reserved(vtbl) \in Nat
  BY <1>2, IdleBooks
<1>4. /\ Vtbls /\ vtbl \in Tables /\ vols \in [Vols -> VolState] /\ n \in Sizes /\ n \in Nat
      /\ avail \in Nat /\ rsvd \in 0 .. Level /\ rsvd \in Nat
      /\ hurt \subseteq Vols /\ Reserved(tab) + 4 <= NumPebs /\ Reserved(vtbl) + 4 <= NumPebs
  BY <1>2, UbiVolAssumption DEF IInv, RamOk, Vtbls, Accounts, Sizes
<1>5. ASSUME NEW G, NEW B, Books(G, B)', avail' \in Nat, op'.s \in Vols PROVE Accounts'
  <2>1. \E g, b : Books(g, b)'
    BY <1>5
  <2>2. Reserved(tab)' + 4 <= NumPebs /\ Reserved(vtbl)' + 4 <= NumPebs
    BY <1>2, <1>4
  <2> QED BY <1>2, <1>4, <1>5, <2>1, <2>2 DEF Accounts
<1>6. ASSUME NEW type \in {"static", "dynamic"}, CreateVol(n, type) PROVE Accounts'
  <2>1. PICK r \in Vols : vols[r] = NoVol /\ todo' = Make(r, n, type) /\ op'.s = r
    BY <1>6 DEF CreateVol, Start
  <2>2. n <= avail /\ avail' = avail - n /\ vols' = vols
    BY <1>6 DEF CreateVol
  <2>3. PICK G : G = [vtbl EXCEPT ![r] = Rec(n, type, FALSE)]
    OBVIOUS
  <2>4. /\ G \in Tables /\ todo' \in Seq(Pieces(G))
        /\ HasTable(todo')
        /\ HasVol(todo', r)
    <3>1. /\ G \in Tables /\ Make(r, n, type) \in Seq(Pieces(G))
          /\ HasTable(Make(r, n, type))
          /\ HasVol(Make(r, n, type), r)
      <4>1. Vtbls /\ n \in Sizes /\ type \in {"static", "dynamic"}
        BY <1>4
      <4> QED BY <2>3, <4>1, MakePieces
    <3> QED BY <2>1, <3>1
  <2>5. G[r].size = n /\ vtbl[r].size = 0 /\ \A v \in Vols : v # r => G[v].size = vtbl[v].size
    BY <1>3, <1>4, <2>1, <2>3 DEF Rec, NoVol, Tables
  <2>6. Reserved(G) \in Nat /\ Reserved(G) = Reserved(vtbl) - 0 + n
    BY <1>4, <2>4, <2>5, ReservedSet
  <2>7. avail' \in Nat /\ avail' + rsvd' + 4 + Reserved(G) + 0 = NumPebs
    BY <1>2, <1>3, <1>4, <2>2, <2>6
  <2>8. \A v \in Vols : vols'[v].size = G[v].size \/ HasVol(todo', v)
    BY <1>3, <2>2, <2>4, <2>5
  <2>9. Books(G, 0)'
    BY <2>4, <2>7, <2>8, SizesNat DEF Books, Program
  <2> QED BY <1>5, <2>1, <2>7, <2>9
<1>7. CASE RemoveVol(s)
  <2>1. todo' = Unmake(s) /\ op'.s = s /\ vols' = vols /\ avail' = avail
    BY <1>7 DEF RemoveVol, Start
  <2>3. PICK G, B : G = [vtbl EXCEPT ![s] = NoRec] /\ B = vols[s].size
    OBVIOUS
  <2>4. /\ G \in Tables /\ G[s].size = 0
        /\ \E u \in Seq(Pieces(G)) : todo' = u \o GiveBack(B)
        /\ HasTable(todo')
        /\ HasVol(todo', s)
    <3>1. /\ G \in Tables /\ G[s].size = 0
          /\ \E u \in Seq(Pieces(G)) : Unmake(s) = u \o GiveBack(vols[s].size)
          /\ HasTable(Unmake(s))
          /\ HasVol(Unmake(s), s)
      BY <1>4, <2>3, UnmakePieces
    <3> QED BY <2>1, <2>3, <3>1
  <2>5. B = vtbl[s].size /\ B \in Sizes /\ B \in Nat /\ \A v \in Vols : v # s => G[v].size = vtbl[v].size
    <3>1. \A v \in Vols : v # s => G[v] = vtbl[v]
      BY <1>4, <2>3 DEF Tables
    <3>2. B = vtbl[s].size /\ B \in Sizes
      BY <1>3, <1>4, <2>3 DEF Tables
    <3> QED BY <3>1, <3>2, SizesNat
  <2>6. Reserved(G) \in Nat /\ Reserved(G) = Reserved(vtbl) - B + 0
    BY <1>4, <2>4, <2>5, ReservedSet
  <2>7. avail' + rsvd' + 4 + Reserved(G) + B = NumPebs
    BY <1>2, <1>3, <1>4, <2>1, <2>5, <2>6
  <2>8. \A v \in Vols : vols'[v].size = G[v].size \/ HasVol(todo', v)
    BY <1>3, <2>1, <2>4, <2>5
  <2>9. Books(G, B)'
    BY <2>4, <2>5, <2>7, <2>8 DEF Books, Program
  <2> QED BY <1>4, <1>5, <2>1, <2>9
<1>8. CASE WriteVol(s, n)
  <2>1. todo' = Update(s, n) /\ op'.s = s /\ vols' = [vols EXCEPT ![s].updating = TRUE] /\ avail' = avail
    BY <1>8 DEF WriteVol, Start
  <2>2. todo' \in Seq(Pieces(vtbl))
    BY <1>3, <1>4, <2>1, UpdatePieces
  <2>3. PICK G : G = vtbl
    OBVIOUS
  <2>4. \A v \in Vols : vols'[v].size = G[v].size
    <3> TAKE v \in Vols
    <3>1. vols'[v].size = vols[v].size
      BY <1>4, <2>1 DEF VolState
    <3> QED BY <1>3, <2>3, <3>1
  <2>5. avail' + rsvd' + 4 + Reserved(G) + 0 = NumPebs
    BY <1>2, <1>3, <1>4, <2>1, <2>3
  <2>6. G \in Tables /\ Same(vtbl', G)
    BY <1>2, <1>4, <2>3 DEF Same
  <2>9. Books(G, 0)'
    BY <2>2, <2>3, <2>4, <2>5, <2>6, SizesNat DEF Books, Program
  <2> QED BY <1>4, <1>5, <2>1, <2>9
<1> QED BY <1>1, <1>6, <1>7, <1>8

\* A power loss, and a repair of the table.
LEMMA AccountsOff == ASSUME IInv, Accounts, Cut \/ Restore PROVE Accounts'
<1>1. CASE Restore
  BY <1>1, AccountsStay DEF Restore, ram, On
<1>2. CASE Cut
  <2>1. ~On' /\ avail' = 0 /\ rsvd' = 0 /\ op' = NoOp /\ tab' = tab
    BY <1>2 DEF Cut, RamOff, On
  <2>2. hurt' \subseteq Vols
    BY <1>2 DEF Cut, Unflushed, Accounts
  <2>3. op'.k \notin {"create", "update"}
    BY <2>1 DEF NoOp
  <2>4. Reserved(tab)' + 4 <= NumPebs
    BY <2>1 DEF Accounts
  <2> QED BY <2>1, <2>2, <2>3, <2>4, UbiVolAssumption DEF Accounts
<1> QED BY <1>1, <1>2

LEMMA AccountsInit == ASSUME Init PROVE Accounts
<1>1. /\ up = "off" /\ avail = 0 /\ rsvd = 0 /\ op = NoOp /\ hurt = {}
      /\ \/ tab = EmptyTable
         \/ \E n \in 1 .. MaxLebs, type \in {"static", "dynamic"}, auto \in BOOLEAN :
              n + 4 <= NumPebs /\ OneVolume(n, type, auto)
  BY DEF Init
<1>2. Reserved(tab) + 4 <= NumPebs
  <2>1. CASE tab = EmptyTable
    BY <2>1, ReservedNone, UbiVolAssumption
  <2>2. ASSUME NEW n \in 1 .. MaxLebs, NEW type \in {"static", "dynamic"}, NEW auto \in BOOLEAN,
               n + 4 <= NumPebs, OneVolume(n, type, auto)
        PROVE  Reserved(tab) + 4 <= NumPebs
    <3>0. 1 \in Vols /\ n \in Sizes /\ n \in Nat /\ EmptyTable \in Tables
      BY UbiVolAssumption, OffFacts DEF Vols, Sizes
    <3>1. tab = [EmptyTable EXCEPT ![1] = Rec(n, type, auto)]
      BY <2>2 DEF OneVolume
    <3>2. Rec(n, type, auto) \in [size : Sizes, type : Types, upd : BOOLEAN, auto : BOOLEAN]
      BY <3>0 DEF Rec, Types
    <3>3. tab \in Tables /\ tab[1].size = n /\ EmptyTable[1].size = 0 /\ \A s \in Vols : s # 1 => tab[s] = EmptyTable[s]
      BY <3>0, <3>1, <3>2 DEF Tables, Rec, EmptyTable, NoRec
    <3>4. Reserved(tab) = Reserved(EmptyTable) - 0 + n
      <4>1. Reserved(tab) = Reserved(EmptyTable) - EmptyTable[1].size + tab[1].size
        BY <3>0, <3>3, ReservedSet
      <4> QED BY <3>3, <4>1
    <3> QED BY <2>2, <3>0, <3>4, ReservedNone
  <2> QED BY <1>1, <2>1, <2>2
<1>3. ~On /\ op.k = "none"
  BY <1>1 DEF On, NoOp
<1> QED BY <1>1, <1>2, <1>3, UbiVolAssumption DEF Accounts

\* An attach shares out what the volumes leave; an auto-resized one takes it all.
LEMMA AccountsAttach == ASSUME IInv, Accounts, Attach, IInv' PROVE Accounts'
<1>0. /\ FlashOk /\ RamOk /\ TableKept /\ Unformatted /\ tab \in Tables /\ up = "off" /\ todo = <<>>
      /\ RamOk' /\ hurt \subseteq Vols /\ Reserved(tab) + 4 <= NumPebs /\ formatted \in BOOLEAN
      /\ hurt' = hurt /\ tab' = tab
  BY DEF IInv, RamOk, Attach, hist, Accounts
<1>1. PICK s, t, left, level, resize, v0, n :
        /\ s = Scan /\ t = Copy(s, 0).t /\ left = NumPebs - 2 - Reserved(t)
        /\ level = IF left - 2 < Level THEN left - 2 ELSE Level
        /\ resize = {v \in Vols : t[v].auto} /\ v0 = CHOOSE v \in resize : TRUE
        /\ n = t[v0].size + left - 2 - level
  OBVIOUS
<1>2. CASE up' = "failed" /\ UNCHANGED ram
  <2>1. On' <=> On
    BY <1>0, <1>2 DEF On
  <2>2. UNCHANGED <<avail, rsvd, hurt, op, tab, vtbl, vols, todo>>
    BY <1>0, <1>2 DEF ram
  <2> QED BY <2>1, <2>2, AccountsStay
<1>3. CASE up' # "failed"
  <2>1. /\ ToRestore(s) = Nothing /\ Copy(s, 0) # Torn /\ On'
        /\ vtbl' = (IF resize = {} THEN t ELSE [t EXCEPT ![v0].auto = FALSE])
        /\ vols' = [v \in Vols |-> InitVol(s, t[v], v)]
        /\ rsvd' = level
        /\ resize = {} => avail' = left - 2 - level /\ todo' = todo /\ op' = op
        /\ resize # {} => avail' = 0 /\ todo' = Grow(t, v0, vols'[v0], n) /\ op' = [k |-> "resize", s |-> v0]
    BY <1>1, <1>3 DEF Attach, Start, On
  <2>2. t = tab /\ t \in Tables
    <3>1. Copy(s, 0) = Table(tab)
      <4>1. ToRestore(s) = Nothing /\ Copy(s, 0) # Torn /\ s = Scan
        BY <1>1, <2>1
      <4> QED BY <1>0, <4>1, RestoreIs
    <3> QED BY <1>0, <1>1, <3>1, Contradistinct
  <2>3. /\ Reserved(t) \in Nat /\ Reserved(t) + 4 <= NumPebs /\ level \in 0 .. Level /\ left - 2 - level \in Nat
        /\ level \in Nat /\ left \in Nat /\ left = NumPebs - 2 - Reserved(t)
    <3>1. 1 \in Vols
      BY UbiVolAssumption DEF Vols
    <3>2. Reserved(t) \in Nat
      BY <2>2, <3>1, ReservedIs
    <3>3. PICK z : z = Reserved(t)
      OBVIOUS
    <3>4. z \in Nat /\ z + 4 <= NumPebs /\ left = NumPebs - 2 - z
      BY <1>0, <1>1, <2>2, <3>2, <3>3
    <3>5. NumPebs \in Nat /\ Level \in Nat
      BY UbiVolAssumption
    <3>6. left \in Nat /\ left - 2 \in Nat
      BY <3>4, <3>5
    <3>7. level \in 0 .. Level /\ level \in Nat /\ left - 2 - level \in Nat
      BY <1>1, <3>5, <3>6
    <3> QED BY <3>3, <3>4, <3>6, <3>7
  <2>4. \A v \in Vols : vols'[v].size = t[v].size
    <3> TAKE v \in Vols
    <3>1. vols'[v] = InitVol(s, t[v], v)
      BY <2>1
    <3>2. InitVol(s, t[v], v).size = t[v].size
      BY DEF InitVol, NoVol
    <3> QED BY <3>1, <3>2
  <2>5. vtbl' \in Tables /\ Same(vtbl', t)
    <3>1. vtbl' \in Tables
      BY <1>0 DEF RamOk
    <3>2. ASSUME resize # {} PROVE Same(vtbl', t)
      <4>1. v0 \in Vols /\ vtbl' = [t EXCEPT ![v0].auto = FALSE]
        BY <1>1, <2>1, <3>2
      <4> QED BY <2>2, <4>1 DEF Same, Tables
    <3>3. ASSUME resize = {} PROVE Same(vtbl', t)
      BY <2>1, <3>3 DEF Same
    <3> QED BY <3>1, <3>2, <3>3
  <2>6. Reserved(vtbl') = Reserved(t)
    <3>1. Same(t, vtbl')
      BY <2>5 DEF Same
    <3> QED BY <2>2, <2>5, <3>1, ReservedSame
  <2>7. avail' \in Nat
    BY <2>1, <2>3
  <2>8. ASSUME NEW G, NEW B, Books(G, B)', op'.k \in {"create", "update"} => op'.s \in Vols PROVE Accounts'
    <3>1. Reserved(tab)' + 4 <= NumPebs /\ Reserved(vtbl)' + 4 <= NumPebs
      BY <1>0, <2>3, <2>6
    <3>2. rsvd' \in 0 .. Level /\ hurt' \subseteq Vols
      BY <1>0, <2>1, <2>3
    <3> QED BY <2>1, <2>7, <2>8, <3>1, <3>2 DEF Accounts
  <2>9. CASE resize = {}
    <3>1. todo' = <<>> /\ avail' = left - 2 - level /\ op' = op
      BY <1>0, <2>1, <2>9
    <3>2. avail' + rsvd' + 4 + Reserved(t) + 0 = NumPebs
      <4>1. PICK x, y, z : x = avail' /\ y = rsvd' /\ z = Reserved(t)
        OBVIOUS
      <4>2. x = left - 2 - level /\ y = level
        BY <2>1, <3>1, <4>1
      <4>3. x + y + 4 + z + 0 = NumPebs
        BY <2>3, <4>1, <4>2, UbiVolAssumption
      <4> QED BY <4>1, <4>3
    <3>3. <<>> \in Seq(Pieces(t))
      OBVIOUS
    <3>4. Books(t, 0)'
      BY <2>2, <2>4, <2>5, <3>1, <3>2, <3>3, SizesNat DEF Books, Program
    <3> QED BY <2>8, <3>1, <3>4 DEF Accounts
  <2>10. CASE resize # {}
    <3>1. /\ v0 \in Vols /\ avail' = 0 /\ todo' = Grow(t, v0, vols'[v0], n) /\ op' = [k |-> "resize", s |-> v0]
      BY <1>1, <2>1, <2>10
    <3>2. n = t[v0].size + (left - 2 - level) /\ t[v0].size \in Nat
      BY <1>1, <2>2, <2>3, <3>1, SizesNat DEF Tables
    <3>3. n \in Sizes /\ n \in Nat
      <4>1. t[v0].size <= Reserved(t) /\ t[v0].size <= MaxLebs
        BY <2>2, <3>1, ReservedIs DEF Tables, Sizes
      <4>2. level = Level \/ left - 2 - level = 0
        BY <1>1, <2>3
      <4> QED BY <2>3, <3>2, <4>1, <4>2, UbiVolAssumption DEF Sizes
    <3>4. PICK G : G = Grown(t, v0, n)
      OBVIOUS
    <3>5. vols'[v0] \in VolState
      BY <1>0, <3>1 DEF RamOk
    <3>6. /\ G \in Tables /\ G[v0].size = n /\ todo' \in Seq(Pieces(G))
          /\ HasTable(todo')
          /\ HasVol(todo', v0)
      <4>1. PICK z : z = vols'[v0]
        OBVIOUS
      <4>2. z \in VolState /\ todo' = Grow(t, v0, z, n)
        BY <3>1, <3>5, <4>1
      <4>3. /\ G \in Tables /\ G[v0].size = n /\ Grow(t, v0, z, n) \in Seq(Pieces(G))
            /\ HasTable(Grow(t, v0, z, n))
            /\ HasVol(Grow(t, v0, z, n), v0)
        <5>1. t \in Tables /\ v0 \in Vols /\ n \in Sizes /\ z \in VolState
          BY <2>2, <3>1, <3>3, <4>2
        <5> QED BY <3>4, <5>1, GrowPieces
      <4> QED BY <4>2, <4>3
    <3>7. \A v \in Vols : v # v0 => G[v].size = t[v].size
      BY <2>2, <3>4 DEF Tables, Grown
    <3>8. Reserved(G) \in Nat /\ Reserved(G) = Reserved(t) - t[v0].size + n
      BY <2>2, <3>1, <3>6, <3>7, ReservedSet
    <3>9. avail' + rsvd' + 4 + Reserved(G) + 0 = NumPebs
      <4>1. PICK x, y, z, w, k : x = avail' /\ y = rsvd' /\ z = Reserved(G) /\ w = Reserved(t) /\ k = t[v0].size
        OBVIOUS
      <4>2. x = 0 /\ y = level /\ z = w - k + n /\ n = k + (left - 2 - level) /\ k \in Nat /\ w \in Nat
        BY <2>1, <2>3, <3>1, <3>2, <3>8, <4>1
      <4>3. left = NumPebs - 2 - w /\ left \in Nat /\ level \in Nat /\ NumPebs \in Nat
        BY <2>3, <4>1, UbiVolAssumption
      <4>4. z = w + (left - 2 - level)
        BY <3>3, <4>2, <4>3
      <4>5. x + y + 4 + z + 0 = NumPebs
        BY <4>2, <4>3, <4>4
      <4> QED BY <4>1, <4>5
    <3>10. \A v \in Vols : vols'[v].size = G[v].size \/ HasVol(todo', v)
      BY <2>4, <3>6, <3>7
    <3>11. Books(G, 0)'
      BY <3>6, <3>9, <3>10, SizesNat DEF Books, Program
    <3> QED BY <2>8, <3>1, <3>11
  <2> QED BY <2>9, <2>10
<1>4. up' = "failed" => UNCHANGED ram
  BY DEF Attach
<1> QED BY <1>2, <1>3, <1>4

LEMMA AccountsKept == Spec => []Accounts
<1>1. Init => Accounts
  BY AccountsInit
<1>2. IInv /\ IInv' /\ Accounts /\ [Next]_vars => Accounts'
  <2> SUFFICES ASSUME IInv, IInv', Accounts, [Next]_vars PROVE Accounts'
    OBVIOUS
  <2>1. CASE Restore \/ Cut
    BY <2>1, AccountsOff
  <2>2. CASE Attach
    BY <2>2, AccountsAttach
  <2>3. CASE Command
    BY <2>3, AccountsCommand
  <2>4. CASE RamStep
    BY <2>4, AccountsRam
  <2>5. CASE UnmapStep \/ WriteStep \/ EraseStep \/ FlushDone
    BY <2>5, AccountsFlash
  <2>6. CASE UNCHANGED vars
    BY <2>6, AccountsStay DEF vars, ram, hist, On
  <2> QED BY <2>1, <2>2, <2>3, <2>4, <2>5, <2>6 DEF Next, Step
<1> QED BY <1>1, <1>2, Inductive, PTL DEF Spec

\* Between operations the volumes in RAM are those of the table on flash, and
\* every physical eraseblock is accounted for, whichever volumes were created,
\* grown, updated and removed (vmt.c:253 and 465, build.c:492, vtbl.c:580).
THEOREM RamAgrees == Spec => []RamMatchesFlash
<1>1. ASSUME IInv, Accounts PROVE RamMatchesFlash
  <2>0. RamOk /\ Layouts /\ avail \in Nat /\ rsvd \in 0 .. Level /\ hurt \subseteq Vols
    BY <1>1 DEF IInv, Accounts
  <2>1. avail <= NumPebs
    <3>1. CASE On
      <4>1. PICK G, B : Books(G, B)
        BY <1>1, <3>1 DEF Accounts
      <4>2. 1 \in Vols
        BY UbiVolAssumption DEF Vols
      <4>3. Reserved(G) \in Nat /\ B \in Nat /\ avail + rsvd + 4 + Reserved(G) + B = NumPebs
        BY <4>1, <4>2, ReservedIs, SizesNat DEF Books
      <4> QED BY <2>0, <4>3, UbiVolAssumption
    <3>2. CASE ~On
      BY <1>1, <3>2, UbiVolAssumption DEF Accounts
    <3> QED BY <3>1, <3>2
  <2>2. avail \in 0 .. NumPebs
    BY <2>0, <2>1, UbiVolAssumption
  <2>3. TypeOK
    <3>1. ToSet(works) \subseteq Pebs
      BY <2>0 DEF RamOk, ToSet
    <3>2. DOMAIN vtbl = Vols /\ DOMAIN vols = Vols
      BY <2>0 DEF RamOk, Tables
    <3> QED BY <2>0, <2>2, <3>1, <3>2 DEF TypeOK, RamOk, EbaState
  <2>4. ASSUME Idle
        PROVE  /\ vtbl = tab /\ \A s \in Vols : vols[s].size = tab[s].size
               /\ avail + rsvd + 4 + Reserved(tab) = NumPebs
    <3>1. On /\ todo = <<>>
      BY <2>4 DEF Idle, On
    <3>2. Now = 0
      BY <3>1 DEF Now
    <3>3. vtbl = tab
      BY <2>0, <3>1, <3>2 DEF Layouts
    <3> QED BY <1>1, <3>1, <3>3, IdleBooks
  <2> QED BY <2>3, <2>4 DEF RamMatchesFlash
<1> QED BY <1>1, Inductive, AccountsKept, PTL

(***************************************************************************)
(* The contents of the volumes.  The program of an operation does things   *)
(* in an order that keeps them (Ordered): it unmaps and writes a volume    *)
(* only while the table on flash has its marker set or does not have it at *)
(* all, and clears the marker after the last write.                        *)
(***************************************************************************)
\* The steps that end a change of the table, and those that touch a volume.
Commit(h) == h.o = "write" /\ h.v = Layout /\ h.l = 0
Touch(h)  == h.o \in {"unmap", "write"} /\ h.v # Layout
Bad(t, s) == t[s].upd \/ t[s].size = 0
HasAuto(t) == \A v \in Vols : t[v].auto => t[v].size # 0

\* What the rest s of a program still has to do.
HasFlush(s)    == \E h \in ToSet(s) : h.o = "flush"
HasTouch(s)    == \E h \in ToSet(s) : Touch(h)
HasUnmap(s, v, l) == \E h \in ToSet(s) : h.o = "unmap" /\ h.v = v /\ h.l = l
HasClear(s, v) == \E h \in ToSet(s) : h.o = "vol" /\ h.s = v /\ ~h.vol.upd
HasBad(s, v)   == \E h \in ToSet(s) : Commit(h) /\ Bad(h.d.t, v)

\* In the operation k on the volume s the step g can come before h.
Order(k, s, g, h) ==
  /\ Commit(g) /\ Touch(h) => Bad(g.d.t, s)
  /\ Touch(g) /\ Commit(h) => ~Bad(h.d.t, s)
  /\ Touch(g) /\ g.o = "write" /\ Touch(h) => h.o = "write" /\ h.l # g.l
  /\ g.o = "flush" => ~Touch(h)
  /\ h.o = "flush" => k # "create"
  /\ g.o = "vol" /\ h.o = "vol" => ~h.vol.upd /\ (k # "remove" => h.vol.size >= g.vol.size)
  /\ g.o = "vol" /\ k = "remove" => ~Touch(h)

Ordered(k, s, prog) == \A i, j \in DOMAIN prog : i < j => Order(k, s, prog[i], prog[j])

\* What a step of the operation under way does, as things are now.
Fits(h) ==
  /\ Touch(h) => h.v = op.s /\ op.k \in {"update", "remove"}
  /\ Touch(h) /\ h.o = "write" =>
       /\ op.k = "update" /\ h.l < vols[op.s].size
       /\ eba[op.s][h.l] = None \/ HasUnmap(todo, op.s, h.l)
  /\ h.o = "write" /\ h.v = Layout => h.l \in {0, 1}
  /\ h.o = "vol" => /\ h.s = op.s
                    /\ op.k # "remove" => h.vol.size >= vols[op.s].size
                    /\ h.vol.upd => HasClear(todo, op.s)
  /\ Commit(h) => /\ HasAuto(h.d.t) /\ \A v \in Vols : v # op.s => h.d.t[v] = tab[v]
                  /\ op.k = "remove" => h.d.t[op.s].size = 0
                  /\ op.k = "resize" => h.d.t[op.s].size # 0 /\ h.d.t[op.s].upd = tab[op.s].upd

NoCopy(v, l) == \A p \in Pebs : ~IsCopy(p, v, l)

\* The operation under way and what is left of it: it touches a volume only
\* while that is marked or gone, and what it has unmapped is erased before it ends.
Plan ==
  /\ op.k \in {"none", "create", "remove", "update", "resize"} /\ (op.k # "none" => op.s \in Vols)
  /\ ~On => op.k = "none"
  /\ op.k = "none" => todo = <<>>
  /\ HasAuto(tab) /\ (op.k = "resize" => tab[op.s].size # 0)
  /\ Ordered(op.k, op.s, todo) /\ \A h \in ToSet(todo) : Fits(h)
  /\ HasTouch(todo) => Bad(tab, op.s) \/ HasBad(todo, op.s)
  /\ \A v \in Vols : vols[v].upd => HasClear(todo, v)
  /\ op.k = "update" => \/ HasFlush(todo)
                        \/ ~HasTouch(todo) /\ \A l \in Lnums : eba[op.s][l] = None => NoCopy(op.s, l)
  /\ op.k = "remove" => \A l \in Lnums : eba[op.s][l] = None \/ HasUnmap(todo, op.s, l)
  /\ op.k = "create" => /\ \A l \in Lnums : eba[op.s][l] = None
                        /\ HasFlush(todo) \/ \A l \in Lnums : NoCopy(op.s, l)

\* Every header is mapped or waits for its erasure; no LEB is beyond its volume.
Owned == On =>
  /\ \A p \in Pebs : IsLeb(p) => eba[peb[p].v][peb[p].l] = p \/ p \in ToSet(works)
  /\ \A v \in Vols, l \in Lnums : eba[v][l] # None => l < vols[v].size

Sound(s) == tab[s].size # 0 /\ ~tab[s].upd /\ s \notin hurt

\* What the volumes hold, while the system is up and while it is down.
Held ==
  /\ On => \A s \in Vols : Sound(s) => \A l \in Lnums :
       /\ told[s][l] = IF eba[s][l] = None THEN Hole ELSE peb[eba[s][l]].d
       /\ eba[s][l] = None => NoCopy(s, l) \/ (op.k = "update" /\ op.s = s)
  /\ ~On => \A s \in Vols : Sound(s) => \A l \in Lnums : Found(s, l) = told[s][l]

\* The second invariant, relative to IInv and Accounts.
KInv == Plan /\ Owned /\ Held

\* The rest of an ordered program, and two of them one after the other.
LEMMA OrderedRest ==
  ASSUME NEW k, NEW s, NEW S, NEW prog \in Seq(S), prog # <<>>, Ordered(k, s, prog)
  PROVE  Ordered(k, s, Tail(prog)) /\ \A h \in ToSet(Tail(prog)) : Order(k, s, Head(prog), h)
<1> DEFINE m == Len(prog) - 1
           t == Tail(prog)
<1>1. /\ m \in Nat /\ DOMAIN prog = 1 .. m + 1 /\ DOMAIN t = 1 .. m /\ Head(prog) = prog[1]
      /\ \A i \in 1 .. m : t[i] = prog[i + 1]
  OBVIOUS
<1> HIDE DEF m, t
<1>2. 1 \in 1 .. m + 1 /\ \A i \in 1 .. m : i + 1 \in 1 .. m + 1 /\ 1 < i + 1
  BY <1>1
<1>3. Ordered(k, s, t)
  <2> SUFFICES ASSUME NEW i \in 1 .. m, NEW j \in 1 .. m, i < j PROVE Order(k, s, t[i], t[j])
    BY <1>1 DEF Ordered
  <2>1. i + 1 < j + 1
    BY <1>1
  <2>2. Order(k, s, prog[i + 1], prog[j + 1])
    BY <1>1, <1>2, <2>1 DEF Ordered
  <2> QED BY <1>1, <2>2
<1>4. ASSUME NEW h \in ToSet(t) PROVE Order(k, s, Head(prog), h)
  <2>1. PICK i \in 1 .. m : h = prog[i + 1]
    BY <1>1 DEF ToSet
  <2>2. Order(k, s, prog[1], prog[i + 1])
    BY <1>1, <1>2, <2>1 DEF Ordered
  <2> QED BY <1>1, <2>1, <2>2
<1> QED BY <1>3, <1>4 DEF t

LEMMA OrderedJoin ==
  ASSUME NEW k, NEW s, NEW S, NEW a \in Seq(S), NEW b \in Seq(S), Ordered(k, s, a), Ordered(k, s, b),
         \A g \in ToSet(a), h \in ToSet(b) : Order(k, s, g, h)
  PROVE  Ordered(k, s, a \o b)
<1> DEFINE r == a \o b
           m == Len(a)
           n == Len(b)
<1>1. /\ m \in Nat /\ n \in Nat /\ DOMAIN a = 1 .. m /\ DOMAIN b = 1 .. n /\ DOMAIN r = 1 .. m + n
      /\ \A i \in 1 .. m : r[i] = a[i]
      /\ \A i \in m + 1 .. m + n : r[i] = b[i - m]
  OBVIOUS
<1> HIDE DEF r, m, n
<1> SUFFICES ASSUME NEW i \in 1 .. m + n, NEW j \in 1 .. m + n, i < j PROVE Order(k, s, r[i], r[j])
  BY <1>1 DEF Ordered, r
<1>2. CASE j \in 1 .. m
  <2>1. i \in 1 .. m
    BY <1>1, <1>2
  <2> QED BY <1>1, <1>2, <2>1 DEF Ordered
<1>3. CASE i \notin 1 .. m
  <2>1. /\ i \in m + 1 .. m + n /\ j \in m + 1 .. m + n /\ i - m \in 1 .. n /\ j - m \in 1 .. n
        /\ i - m < j - m
    BY <1>1, <1>3
  <2>2. Order(k, s, b[i - m], b[j - m])
    BY <1>1, <2>1 DEF Ordered
  <2> QED BY <1>1, <2>1, <2>2
<1>4. CASE i \in 1 .. m /\ j \notin 1 .. m
  <2>1. j \in m + 1 .. m + n /\ j - m \in 1 .. n
    BY <1>1, <1>4
  <2>2. a[i] \in ToSet(a) /\ b[j - m] \in ToSet(b)
    BY <1>1, <1>4, <2>1 DEF ToSet
  <2> QED BY <1>1, <1>4, <2>1, <2>2
<1> QED BY <1>2, <1>3, <1>4

LEMMA OrderedAll ==
  ASSUME NEW k, NEW s, NEW prog, \A g, h \in ToSet(prog) : Order(k, s, g, h)
  PROVE  Ordered(k, s, prog)
BY DEF Ordered, ToSet

LEMMA OrderedOne == ASSUME NEW k, NEW s, NEW h PROVE Ordered(k, s, <<h>>)
<1>1. DOMAIN <<h>> = 1 .. 1
  OBVIOUS
<1>2. \A i, j \in 1 .. 1 : ~(i < j)
  OBVIOUS
<1> QED BY <1>1, <1>2 DEF Ordered

(***************************************************************************)
(* The programs of the operations, step by step.                           *)
(***************************************************************************)
\* A step of a change to the table t.
Calm(t, h) == h.o = "vtbl" \/ (h.o \in {"unmap", "write"} /\ h.v = Layout
                               /\ (h.o = "write" => h.l \in {0, 1} /\ h.d = Table(t)))
\* A step that sets the volume s to n LEBs.
Resets(s, n, h) == h.o = "vol" /\ h.s = s /\ h.vol.size = n

LEMMA ChangeIs ==
  ASSUME NEW t \in Tables
  PROVE  /\ Change(t) \in Seq(Steps) /\ \A h \in ToSet(Change(t)) : Calm(t, h)
         /\ \E h \in ToSet(Change(t)) : Commit(h) /\ h.d = Table(t)
         /\ \A k, s : Ordered(k, s, Change(t))
<1> DEFINE a == [o |-> "vtbl", t |-> t]
           b == Un(Layout, 0)
           c == Wr(Layout, 0, 0, Table(t))
           e == Un(Layout, 1)
           f == Wr(Layout, 1, 0, Table(t))
           r == Change(t)
<1>1. r = <<a, b, c, e, f>>
  BY DEF Change, SetTable
<1>2. Calm(t, a) /\ Calm(t, b) /\ Calm(t, c) /\ Calm(t, e) /\ Calm(t, f)
  BY DEF Calm, Un, Wr
<1>3. Commit(c) /\ c.d = Table(t)
  BY DEF Commit, Wr
<1> HIDE DEF a, b, c, e, f, r
<1>4. DOMAIN r = 1 .. 5 /\ r[1] = a /\ r[2] = b /\ r[3] = c /\ r[4] = e /\ r[5] = f
  BY <1>1
<1>5. \A i \in 1 .. 5 : i = 1 \/ i = 2 \/ i = 3 \/ i = 4 \/ i = 5
  OBVIOUS
<1>6. ASSUME NEW h \in ToSet(r) PROVE Calm(t, h)
  <2>1. PICK i \in 1 .. 5 : h = r[i]
    BY <1>4 DEF ToSet
  <2> QED BY <1>2, <1>4, <1>5, <2>1
<1>7. c \in ToSet(r)
  <2>1. 3 \in DOMAIN r
    BY <1>4
  <2> QED BY <1>4, <2>1 DEF ToSet
<1>8. ASSUME NEW k, NEW s PROVE Ordered(k, s, r)
  <2>1. \A g, h \in ToSet(r) : Calm(t, g) /\ Calm(t, h)
    BY <1>6
  <2>2. \A g, h : Calm(t, g) /\ Calm(t, h) => Order(k, s, g, h)
    BY DEF Calm, Order, Touch
  <2> QED BY <2>1, <2>2, OrderedAll
<1>9. r \in Seq(Steps)
  BY WholeChange DEF Whole, r
<1> QED BY <1>3, <1>6, <1>7, <1>8, <1>9 DEF r

LEMMA VolIs ==
  ASSUME NEW s \in Vols, NEW vol \in VolState
  PROVE  /\ SetVol(s, vol) \in Seq(Steps) /\ \A h \in ToSet(SetVol(s, vol)) : h = [o |-> "vol", s |-> s, vol |-> vol]
         /\ HasClear(SetVol(s, vol), s) <=> ~vol.upd
         /\ \A k, v : Ordered(k, v, SetVol(s, vol))
<1> DEFINE h == [o |-> "vol", s |-> s, vol |-> vol]
<1>1. h \in Steps /\ h.o = "vol" /\ h.s = s /\ h.vol = vol
  BY DEF Steps
<1>2. SetVol(s, vol) = <<h>>
  BY DEF SetVol
<1> HIDE DEF h
<1>3. <<h>> \in Seq(Steps) /\ ToSet(<<h>>) = {h}
  BY <1>1, OneFacts
<1>4. \A k, v : Ordered(k, v, <<h>>)
  BY OrderedOne
<1> QED BY <1>1, <1>2, <1>3, <1>4 DEF h, HasClear

LEMMA FlushIs == /\ FlushAll \in Seq(Steps) /\ \A h \in ToSet(FlushAll) : h.o = "flush"
                 /\ HasFlush(FlushAll) /\ \A k, v : Ordered(k, v, FlushAll)
<1> DEFINE h == [o |-> "flush"]
<1>1. h \in Steps /\ h.o = "flush"
  BY DEF Steps
<1>2. FlushAll = <<h>>
  BY DEF FlushAll
<1> HIDE DEF h
<1>3. <<h>> \in Seq(Steps) /\ ToSet(<<h>>) = {h}
  BY <1>1, OneFacts
<1>4. \A k, v : Ordered(k, v, <<h>>)
  BY OrderedOne
<1> QED BY <1>1, <1>2, <1>3, <1>4 DEF HasFlush

LEMMA WipeIs ==
  ASSUME Vtbls, NEW s \in Vols
  PROVE  /\ Wipe(s) \in Seq(Steps)
         /\ \A h \in ToSet(Wipe(s)) : h.o = "unmap" /\ h.v = s /\ h.l \in 0 .. vols[s].size - 1
         /\ \A l \in Lnums : l < vols[s].size => HasUnmap(Wipe(s), s, l)
         /\ \A k, v : Ordered(k, v, Wipe(s))
<1> DEFINE w == Wipe(s)
<1>1. w = [i \in 1 .. vols[s].size |-> Un(s, i - 1)] /\ vols[s].size \in Nat
  BY SizesNat DEF Wipe, Vtbls, VolState
<1> HIDE DEF w
<1>2. DOMAIN w = 1 .. vols[s].size /\ \A i \in 1 .. vols[s].size : w[i] = Un(s, i - 1)
  BY <1>1
<1>3. \A l : Un(s, l).o = "unmap" /\ Un(s, l).v = s /\ Un(s, l).l = l
  BY DEF Un
<1>4. ASSUME NEW h \in ToSet(w) PROVE h.o = "unmap" /\ h.v = s /\ h.l \in 0 .. vols[s].size - 1
  <2>1. PICK i \in 1 .. vols[s].size : h = Un(s, i - 1)
    BY <1>2 DEF ToSet
  <2>2. i - 1 \in 0 .. vols[s].size - 1
    BY <1>1
  <2> QED BY <1>3, <2>1, <2>2
<1>5. ASSUME NEW l \in Lnums, l < vols[s].size PROVE HasUnmap(w, s, l)
  <2>1. l + 1 \in 1 .. vols[s].size /\ (l + 1) - 1 = l
    BY <1>1, <1>5 DEF Lnums
  <2>2. w[l + 1] = Un(s, l) /\ w[l + 1] \in ToSet(w)
    BY <1>2, <2>1 DEF ToSet
  <2> QED BY <1>3, <2>2 DEF HasUnmap
<1>6. ASSUME NEW k, NEW v PROVE Ordered(k, v, w)
  <2>1. \A g, h : g.o = "unmap" /\ h.o = "unmap" => Order(k, v, g, h)
    BY DEF Order, Commit
  <2> QED BY <1>4, <2>1, OrderedAll
<1>7. w \in Seq(Steps)
  BY SizesNat, WholeLebs DEF Whole, w
<1> QED BY <1>4, <1>5, <1>6, <1>7 DEF w

LEMMA FillIs ==
  ASSUME Vtbls, NEW s \in Vols, NEW n \in Sizes
  PROVE  /\ Fill(s, n) \in Seq(Steps)
         /\ \A h \in ToSet(Fill(s, n)) : h.o = "write" /\ h.v = s /\ h.l \in 0 .. n - 1 /\ h.used \in {0, n}
         /\ \A k, v : Ordered(k, v, Fill(s, n))
<1> DEFINE w == Fill(s, n)
           x(i) == Wr(s, i - 1, UsedEbs(s, n), Data(ops + 1))
<1>1. w = [i \in 1 .. n |-> x(i)] /\ n \in Nat
  BY SizesNat DEF Fill
<1>2. \A i : x(i).o = "write" /\ x(i).v = s /\ x(i).l = i - 1 /\ x(i).used \in {0, n}
  BY <1>1 DEF Wr, UsedEbs
<1> HIDE DEF w, x
<1>3. DOMAIN w = 1 .. n /\ \A i \in 1 .. n : w[i] = x(i)
  BY <1>1
<1>4. ASSUME NEW h \in ToSet(w) PROVE h.o = "write" /\ h.v = s /\ h.l \in 0 .. n - 1 /\ h.used \in {0, n}
  <2>1. PICK i \in 1 .. n : h = x(i)
    BY <1>3 DEF ToSet
  <2>2. i - 1 \in 0 .. n - 1
    BY <1>1
  <2> QED BY <1>2, <2>1, <2>2
<1>5. ASSUME NEW k, NEW v PROVE Ordered(k, v, w)
  <2> SUFFICES ASSUME NEW i \in 1 .. n, NEW j \in 1 .. n, i < j PROVE Order(k, v, x(i), x(j))
    BY <1>3 DEF Ordered
  <2>1. x(j).o = "write" /\ x(i).o = "write" /\ x(i).v # Layout /\ x(j).v # Layout /\ x(j).l # x(i).l
    <3>1. s # Layout /\ j - 1 # i - 1
      BY <1>1 DEF Vols, Layout
    <3> QED BY <1>2, <3>1
  <2> QED BY <2>1 DEF Order, Commit, Touch
<1>6. w \in Seq(Steps)
  BY WholeLebs DEF Whole, w
<1> QED BY <1>4, <1>5, <1>6 DEF w

LEMMA Join ==
  ASSUME NEW k, NEW s, NEW a \in Seq(Steps), NEW b \in Seq(Steps), Ordered(k, s, a), Ordered(k, s, b),
         \A g \in ToSet(a), h \in ToSet(b) : Order(k, s, g, h)
  PROVE  a \o b \in Seq(Steps) /\ ToSet(a \o b) = ToSet(a) \cup ToSet(b) /\ Ordered(k, s, a \o b)
<1>1. a \o b \in Seq(Steps) /\ ToSet(a \o b) = ToSet(a) \cup ToSet(b)
  BY JoinFacts
<1>2. Ordered(k, s, a \o b)
  BY OrderedJoin
<1> QED BY <1>1, <1>2

\* The steps of an update: it begins with the marker and ends without it.
Begins(s, h) == Calm(Marked(s, TRUE), h) \/ Resets(s, vols[s].size, h)
Frees(s, h)  == h.o = "unmap" /\ h.v = s /\ h.l \in 0 .. vols[s].size - 1
Fills(s, h)  == h.o = "write" /\ h.v = s /\ h.l \in 0 .. vols[s].size - 1 /\ h.used <= vols[s].size
Ends(s, h)   == Calm(Marked(s, FALSE), h) \/ h.o = "flush" \/ (Resets(s, vols[s].size, h) /\ ~h.vol.upd)

LEMMA MarkedIs ==
  ASSUME Vtbls, NEW s \in Vols, NEW b \in BOOLEAN
  PROVE  /\ Marked(s, b) \in Tables /\ Marked(s, b)[s].upd = b /\ Marked(s, b)[s].size = vtbl[s].size
         /\ Marked(s, b)[s].auto = vtbl[s].auto
         /\ \A v \in Vols : v # s => Marked(s, b)[v] = vtbl[v]
<1>1. Marked(s, b) = [vtbl EXCEPT ![s] = [vtbl[s] EXCEPT !.upd = b]]
  BY DEF Marked, Vtbls, Tables
<1>2. vtbl[s] \in [size : Sizes, type : Types, upd : BOOLEAN, auto : BOOLEAN]
  BY DEF Vtbls, Tables
<1>3. /\ [vtbl[s] EXCEPT !.upd = b].upd = b /\ [vtbl[s] EXCEPT !.upd = b].size = vtbl[s].size
      /\ [vtbl[s] EXCEPT !.upd = b].auto = vtbl[s].auto
  BY <1>2
<1>4. Marked(s, b)[s] = [vtbl[s] EXCEPT !.upd = b] /\ \A v \in Vols : v # s => Marked(s, b)[v] = vtbl[v]
  BY <1>1 DEF Vtbls, Tables
<1> QED BY <1>3, <1>4, MarkedSame

LEMMA UpdateOrder ==
  ASSUME Vtbls, NEW s \in Vols, vols[s].size = vtbl[s].size, NEW g, NEW h
  PROVE  /\ Begins(s, g) /\ (Frees(s, h) \/ Fills(s, h)) => Order("update", s, g, h)
         /\ Frees(s, g) /\ Fills(s, h) => Order("update", s, g, h)
         /\ (Begins(s, g) \/ Frees(s, g) \/ Fills(s, g) \/ Ends(s, g)) /\ Ends(s, h) => Order("update", s, g, h)
<1>0. s # Layout /\ vols[s].size \in Nat
  <2>1. s # Layout
    BY UbiVolAssumption DEF Vols, Layout
  <2>2. vols[s].size \in Sizes
    BY DEF Vtbls, VolState
  <2> QED BY <2>1, <2>2, SizesNat
<1>1. \A b \in BOOLEAN : \A x : Calm(Marked(s, b), x) /\ Commit(x) => (Bad(x.d.t, s) <=> b \/ vols[s].size = 0)
  <2> TAKE b \in BOOLEAN
  <2> TAKE x
  <2> HAVE Calm(Marked(s, b), x) /\ Commit(x)
  <2>1. x.d = Table(Marked(s, b)) /\ Table(Marked(s, b)).t = Marked(s, b)
    BY Contradistinct DEF Calm, Commit
  <2> QED BY <2>1, MarkedIs DEF Bad
<1>2. \A t, x : Calm(t, x) => ~Touch(x) /\ x.o # "flush" /\ x.o # "vol"
  BY DEF Calm, Touch
<1>3. \A x, n : Resets(s, n, x) => ~Touch(x) /\ ~Commit(x) /\ x.o = "vol" /\ x.vol.size = n
  BY DEF Resets, Touch, Commit
<1>4. \A x : Frees(s, x) \/ Fills(s, x) => /\ Touch(x) /\ ~Commit(x) /\ x.o # "flush" /\ x.o # "vol"
                                           /\ vols[s].size # 0
  BY <1>0 DEF Frees, Fills, Touch, Commit
<1>5. \A x : x.o = "flush" => ~Touch(x) /\ ~Commit(x)
  BY DEF Touch, Commit
<1>6. \A x : /\ Begins(s, x) => ~Touch(x) /\ x.o # "flush" /\ (Commit(x) => Bad(x.d.t, s))
             /\ Begins(s, x) /\ x.o = "vol" => x.vol.size = vols[s].size
  BY <1>1, <1>2, <1>3 DEF Begins
<1>7. \A x : /\ Ends(s, x) => ~Touch(x) /\ (Commit(x) => (Bad(x.d.t, s) <=> vols[s].size = 0))
             /\ Ends(s, x) /\ x.o = "vol" => x.vol.size = vols[s].size /\ ~x.vol.upd
  BY <1>1, <1>2, <1>3, <1>5 DEF Ends
<1>8. "update" # "create" /\ "update" # "remove"
  OBVIOUS
<1>9. Begins(s, g) /\ (Frees(s, h) \/ Fills(s, h)) => Order("update", s, g, h)
  BY <1>4, <1>6, <1>8 DEF Order
<1>10. Frees(s, g) /\ Fills(s, h) => Order("update", s, g, h)
  <2> HAVE Frees(s, g) /\ Fills(s, h)
  <2>1. g.o = "unmap" /\ h.o = "write" /\ ~Commit(g) /\ ~Commit(h)
    BY <1>4 DEF Frees, Fills
  <2> QED BY <2>1 DEF Order
<1>11. (Begins(s, g) \/ Frees(s, g) \/ Fills(s, g) \/ Ends(s, g)) /\ Ends(s, h) => Order("update", s, g, h)
  <2> HAVE (Begins(s, g) \/ Frees(s, g) \/ Fills(s, g) \/ Ends(s, g)) /\ Ends(s, h)
  <2>1. ~Touch(h) /\ (Touch(g) /\ Commit(h) => ~Bad(h.d.t, s))
    BY <1>4, <1>6, <1>7
  <2>2. g.o = "vol" /\ h.o = "vol" => ~h.vol.upd /\ h.vol.size >= g.vol.size
    BY <1>0, <1>4, <1>6, <1>7
  <2> QED BY <1>8, <2>1, <2>2 DEF Order
<1> QED BY <1>9, <1>10, <1>11

LEMMA FinishIs ==
  ASSUME Vtbls, NEW s \in Vols, NEW n \in Sizes, vols[s].size = vtbl[s].size
  PROVE  /\ Finish(s, n) \in Seq(Steps) /\ \A h \in ToSet(Finish(s, n)) : Ends(s, h)
         /\ HasFlush(Finish(s, n)) /\ Ordered("update", s, Finish(s, n))
<1> DEFINE vol == [vols[s] EXCEPT !.upd = FALSE, !.updating = TRUE,
                                  !.corrupted = @ /\ vols[s].type = "dynamic",
                                  !.used = IF vols[s].type = "static" THEN n ELSE @]
           c == Change(Marked(s, FALSE))
           v == SetVol(s, vol)
<1>1. vol \in VolState /\ vol.size = vols[s].size /\ ~vol.upd
  BY SizesNat DEF Vtbls, VolState
<1> DEFINE cv == c \o v
<1>2. Finish(s, n) = cv \o FlushAll
  BY DEF Finish
<1> HIDE DEF cv
<1>3. c \in Seq(Steps) /\ \A h \in ToSet(c) : Ends(s, h)
  BY MarkedIs, ChangeIs DEF Ends
<1> HIDE DEF vol, c
<1>4. v \in Seq(Steps) /\ \A h \in ToSet(v) : Ends(s, h)
  <2>1. v \in Seq(Steps) /\ \A h \in ToSet(v) : h = [o |-> "vol", s |-> s, vol |-> vol]
    BY <1>1, VolIs
  <2>2. \A h : h = [o |-> "vol", s |-> s, vol |-> vol] => h.o = "vol" /\ h.s = s /\ h.vol = vol
    OBVIOUS
  <2> QED BY <1>1, <2>1, <2>2 DEF Ends, Resets
<1> HIDE DEF v
<1>5. FlushAll \in Seq(Steps) /\ HasFlush(FlushAll) /\ \A h \in ToSet(FlushAll) : Ends(s, h)
  BY FlushIs DEF Ends
<1>6. cv \in Seq(Steps) /\ ToSet(cv) = ToSet(c) \cup ToSet(v)
  BY <1>3, <1>4, JoinFacts DEF cv
<1>7. cv \o FlushAll \in Seq(Steps) /\ ToSet(cv \o FlushAll) = ToSet(cv) \cup ToSet(FlushAll)
  BY <1>5, <1>6, JoinFacts
<1>8. \A h \in ToSet(Finish(s, n)) : Ends(s, h)
  BY <1>2, <1>3, <1>4, <1>5, <1>6, <1>7
<1>9. Ordered("update", s, Finish(s, n))
  BY <1>8, UpdateOrder, OrderedAll
<1>10. HasFlush(Finish(s, n))
  BY <1>2, <1>5, <1>7 DEF HasFlush
<1> QED BY <1>2, <1>7, <1>8, <1>9, <1>10

\* A step of an update.
Updates(s, h) == Begins(s, h) \/ Frees(s, h) \/ Fills(s, h) \/ Ends(s, h)

LEMMA UpdateIs ==
  ASSUME Vtbls, NEW s \in Vols, NEW n \in Sizes, n <= vols[s].size, vols[s].size = vtbl[s].size, ~vols[s].upd,
         NEW u, u = Update(s, n)
  PROVE  /\ u \in Seq(Steps) /\ Ordered("update", s, u) /\ \A h \in ToSet(u) : Updates(s, h)
         /\ HasFlush(u) /\ HasBad(u, s) /\ HasClear(u, s)
         /\ \A l \in Lnums : l < vols[s].size => HasUnmap(u, s, l)
<1> DEFINE last == [vols[s] EXCEPT !.upd = FALSE, !.updating = FALSE,
                                   !.corrupted = @ /\ vols[s].type = "dynamic",
                                   !.used = IF vols[s].type = "static" THEN n ELSE @]
           mark == [vols[s] EXCEPT !.upd = TRUE, !.updating = TRUE]
           c  == Change(Marked(s, TRUE))
           m  == SetVol(s, mark)
           p1 == c \o m
           w  == Wipe(s)
           x1 == p1 \o w
           p2 == IF n = 0 THEN Finish(s, 0) ELSE <<>>
           x2 == x1 \o p2
           f  == Fill(s, n)
           x3 == x2 \o f
           e  == Finish(s, n)
           x4 == x3 \o e
           z  == SetVol(s, last)
           k  == "update"
<1>1. u = x4 \o z
  BY DEF Update
<1>2. /\ mark \in VolState /\ mark.size = vols[s].size /\ last \in VolState /\ last.size = vols[s].size
      /\ ~last.upd
  BY SizesNat DEF Vtbls, VolState
<1>3. /\ c \in Seq(Steps) /\ Ordered(k, s, c) /\ \A h \in ToSet(c) : Calm(Marked(s, TRUE), h)
      /\ \E h \in ToSet(c) : Commit(h) /\ h.d = Table(Marked(s, TRUE))
  BY MarkedIs, ChangeIs
<1> HIDE DEF c, mark, last
<1>4. \A vol : \A h : h = [o |-> "vol", s |-> s, vol |-> vol] => h.o = "vol" /\ h.s = s /\ h.vol = vol
  OBVIOUS
<1>5. m \in Seq(Steps) /\ Ordered(k, s, m) /\ \A h \in ToSet(m) : Resets(s, vols[s].size, h)
  <2>1. m \in Seq(Steps) /\ Ordered(k, s, m) /\ \A h \in ToSet(m) : h = [o |-> "vol", s |-> s, vol |-> mark]
    BY <1>2, VolIs
  <2> QED BY <1>2, <1>4, <2>1 DEF Resets
<1>6. z \in Seq(Steps) /\ Ordered(k, s, z) /\ HasClear(z, s) /\ \A h \in ToSet(z) : Ends(s, h)
  <2>1. z \in Seq(Steps) /\ Ordered(k, s, z) /\ HasClear(z, s) /\ \A h \in ToSet(z) : h = [o |-> "vol", s |-> s, vol |-> last]
    BY <1>2, VolIs
  <2>2. ASSUME NEW h \in ToSet(z) PROVE Ends(s, h)
    <3>1. h.o = "vol" /\ h.s = s /\ h.vol = last
      BY <1>4, <2>1
    <3> QED BY <1>2, <3>1 DEF Ends, Resets
  <2> QED BY <2>1, <2>2
<1>7. /\ w \in Seq(Steps) /\ Ordered(k, s, w) /\ \A h \in ToSet(w) : Frees(s, h)
      /\ \A l \in Lnums : l < vols[s].size => HasUnmap(w, s, l)
  BY WipeIs DEF Frees
<1>8. f \in Seq(Steps) /\ Ordered(k, s, f) /\ \A h \in ToSet(f) : n # 0 /\ Fills(s, h)
  <2>1. /\ f \in Seq(Steps) /\ Ordered(k, s, f)
        /\ \A h \in ToSet(f) : h.o = "write" /\ h.v = s /\ h.l \in 0 .. n - 1 /\ h.used \in {0, n}
    BY FillIs
  <2>2. n \in Nat /\ vols[s].size \in Nat
    BY SizesNat DEF Vtbls, VolState
  <2>3. /\ \A l \in 0 .. n - 1 : n # 0 /\ l \in 0 .. vols[s].size - 1
        /\ \A used \in {0, n} : used <= vols[s].size
    BY <2>2
  <2> QED BY <2>1, <2>3 DEF Fills
<1>9. e \in Seq(Steps) /\ Ordered(k, s, e) /\ HasFlush(e) /\ \A h \in ToSet(e) : Ends(s, h)
  BY FinishIs
<1>10. p2 \in Seq(Steps) /\ Ordered(k, s, p2) /\ \A h \in ToSet(p2) : n = 0 /\ Ends(s, h)
  <2>1. CASE n = 0
    <3>1. p2 = Finish(s, 0) /\ 0 \in Sizes
      BY <2>1, SizesNat
    <3> QED BY <2>1, <3>1, FinishIs
  <2>2. CASE n # 0
    <3>1. <<>> \in Seq(Steps) /\ DOMAIN <<>> = {}
      OBVIOUS
    <3>2. p2 = <<>> /\ ToSet(<<>>) = {} /\ Ordered(k, s, <<>>)
      BY <2>2, <3>1 DEF ToSet, Ordered
    <3> QED BY <3>1, <3>2
  <2> QED BY <2>1, <2>2
<1> HIDE DEF m, z, w, f, e, p2, p1, x1, x2, x3, x4
<1>11. p1 \in Seq(Steps) /\ Ordered(k, s, p1) /\ ToSet(p1) = ToSet(c) \cup ToSet(m)
  <2>1. \A g \in ToSet(c), h \in ToSet(m) : Order(k, s, g, h)
    <3>1. \A t, g, v, i, h : Calm(t, g) /\ Resets(v, i, h) => Order(k, s, g, h)
      BY DEF Calm, Resets, Order, Touch, Commit
    <3> QED BY <1>3, <1>5, <3>1
  <2> QED BY <1>3, <1>5, <2>1, Join DEF p1
<1>12. x1 \in Seq(Steps) /\ Ordered(k, s, x1) /\ ToSet(x1) = ToSet(p1) \cup ToSet(w)
  <2>1. \A g \in ToSet(p1) : Begins(s, g)
    BY <1>3, <1>5, <1>11 DEF Begins
  <2>2. \A g \in ToSet(p1), h \in ToSet(w) : Order(k, s, g, h)
    BY <1>7, <2>1, UpdateOrder
  <2> QED BY <1>7, <1>11, <2>2, Join DEF x1
<1>13. \A g \in ToSet(x1) : Begins(s, g) \/ Frees(s, g)
  BY <1>3, <1>5, <1>7, <1>11, <1>12 DEF Begins
<1>14. x2 \in Seq(Steps) /\ Ordered(k, s, x2) /\ ToSet(x2) = ToSet(x1) \cup ToSet(p2)
  <2>1. \A g \in ToSet(x1), h \in ToSet(p2) : Order(k, s, g, h)
    BY <1>10, <1>13, UpdateOrder
  <2> QED BY <1>10, <1>12, <2>1, Join DEF x2
<1>15. x3 \in Seq(Steps) /\ Ordered(k, s, x3) /\ ToSet(x3) = ToSet(x2) \cup ToSet(f)
  <2>1. ASSUME NEW g \in ToSet(x2), NEW h \in ToSet(f) PROVE Order(k, s, g, h)
    <3>1. n # 0 /\ Fills(s, h)
      BY <1>8
    <3>2. Begins(s, g) \/ Frees(s, g)
      BY <1>10, <1>13, <1>14, <3>1
    <3> QED BY <3>1, <3>2, UpdateOrder
  <2> QED BY <1>8, <1>14, <2>1, Join DEF x3
<1>16. \A g \in ToSet(x3) : Updates(s, g)
  BY <1>8, <1>10, <1>13, <1>14, <1>15 DEF Updates
<1>17. x4 \in Seq(Steps) /\ Ordered(k, s, x4) /\ ToSet(x4) = ToSet(x3) \cup ToSet(e)
  <2>1. \A g \in ToSet(x3), h \in ToSet(e) : Order(k, s, g, h)
    BY <1>9, <1>16, UpdateOrder DEF Updates
  <2> QED BY <1>9, <1>15, <2>1, Join DEF x4
<1>18. u \in Seq(Steps) /\ Ordered(k, s, u) /\ ToSet(u) = ToSet(x4) \cup ToSet(z)
  <2>1. \A g \in ToSet(x4), h \in ToSet(z) : Order(k, s, g, h)
    BY <1>6, <1>9, <1>16, <1>17, UpdateOrder DEF Updates
  <2> QED BY <1>1, <1>6, <1>17, <2>1, Join
<1>19. \A h \in ToSet(u) : Updates(s, h)
  BY <1>6, <1>9, <1>16, <1>17, <1>18 DEF Updates
<1>20. ToSet(c) \subseteq ToSet(u) /\ ToSet(w) \subseteq ToSet(u) /\ ToSet(e) \subseteq ToSet(u) /\ ToSet(z) \subseteq ToSet(u)
  BY <1>11, <1>12, <1>14, <1>15, <1>17, <1>18
<1>21. HasFlush(u) /\ HasClear(u, s)
  BY <1>6, <1>9, <1>20 DEF HasFlush, HasClear
<1>22. HasBad(u, s)
  <2>1. PICK h \in ToSet(c) : Commit(h) /\ h.d = Table(Marked(s, TRUE))
    BY <1>3
  <2>2. h.d.t = Marked(s, TRUE)
    BY <2>1, Contradistinct
  <2>3. Bad(h.d.t, s)
    BY <2>2, MarkedIs DEF Bad
  <2> QED BY <1>20, <2>1, <2>3 DEF HasBad
<1>23. \A l \in Lnums : l < vols[s].size => HasUnmap(u, s, l)
  BY <1>7, <1>20 DEF HasUnmap
<1> QED BY <1>18, <1>19, <1>21, <1>22, <1>23

\* The steps of a creation, of a removal and of a growth.
Makes(t, s, n, h) == h.o = "flush" \/ Calm(t, h) \/ (Resets(s, n, h) /\ ~h.vol.upd)

LEMMA MakeIs ==
  ASSUME Vtbls, NEW s \in Vols, NEW n \in Sizes, n # 0, NEW type \in Types,
         NEW u, u = Make(s, n, type), NEW t, t = [vtbl EXCEPT ![s] = Rec(n, type, FALSE)]
  PROVE  /\ u \in Seq(Steps) /\ Ordered("create", s, u) /\ HasFlush(u)
         /\ \A h \in ToSet(u) : Makes(t, s, n, h)
         /\ t \in Tables /\ ~t[s].auto /\ \A v \in Vols : v # s => t[v] = vtbl[v]
<1> DEFINE vol == [NoVol EXCEPT !.size = n, !.type = type, !.used = IF type = "dynamic" THEN n ELSE 0]
           c  == Change(t)
           fc == FlushAll \o c
           v  == SetVol(s, vol)
           k  == "create"
<1>1. vol \in VolState /\ vol.size = n /\ ~vol.upd
  BY SizesNat DEF NoVol, VolState, Types
<1>2. Rec(n, type, FALSE) \in [size : Sizes, type : Types, upd : BOOLEAN, auto : BOOLEAN] /\ ~Rec(n, type, FALSE).auto
  BY DEF Rec, Types
<1>3. t \in Tables /\ ~t[s].auto /\ \A x \in Vols : x # s => t[x] = vtbl[x]
  BY <1>2 DEF Vtbls, Tables
<1>4. u = fc \o v
  BY DEF Make
<1>5. c \in Seq(Steps) /\ Ordered(k, s, c) /\ \A h \in ToSet(c) : Calm(t, h)
  BY <1>3, ChangeIs
<1> HIDE DEF vol, c, fc
<1>6. v \in Seq(Steps) /\ Ordered(k, s, v) /\ \A h \in ToSet(v) : Resets(s, n, h) /\ ~h.vol.upd
  <2>1. v \in Seq(Steps) /\ Ordered(k, s, v) /\ \A h \in ToSet(v) : h = [o |-> "vol", s |-> s, vol |-> vol]
    BY <1>1, VolIs
  <2>2. \A h : h = [o |-> "vol", s |-> s, vol |-> vol] => h.o = "vol" /\ h.s = s /\ h.vol = vol
    OBVIOUS
  <2>3. ASSUME NEW h \in ToSet(v) PROVE Resets(s, n, h) /\ ~h.vol.upd
    <3>1. h.o = "vol" /\ h.s = s /\ h.vol = vol
      BY <2>1, <2>2
    <3> QED BY <1>1, <3>1 DEF Resets
  <2> QED BY <2>1, <2>3
<1> HIDE DEF v
<1>7. FlushAll \in Seq(Steps) /\ HasFlush(FlushAll) /\ Ordered(k, s, FlushAll) /\ \A h \in ToSet(FlushAll) : h.o = "flush"
  BY FlushIs
<1>8. fc \in Seq(Steps) /\ Ordered(k, s, fc) /\ ToSet(fc) = ToSet(FlushAll) \cup ToSet(c)
  <2>1. \A g, h : g.o = "flush" /\ Calm(t, h) => Order(k, s, g, h)
    BY DEF Calm, Order, Commit, Touch
  <2>2. \A g \in ToSet(FlushAll), h \in ToSet(c) : Order(k, s, g, h)
    BY <1>5, <1>7, <2>1
  <2> QED BY <1>5, <1>7, <2>2, Join DEF fc
<1>9. u \in Seq(Steps) /\ Ordered(k, s, u) /\ ToSet(u) = ToSet(fc) \cup ToSet(v)
  <2>1. \A g, h : (g.o = "flush" \/ Calm(t, g)) /\ Resets(s, n, h) => Order(k, s, g, h)
    BY DEF Calm, Order, Commit, Touch, Resets
  <2>2. \A g \in ToSet(fc), h \in ToSet(v) : Order(k, s, g, h)
    BY <1>5, <1>6, <1>7, <1>8, <2>1
  <2>3. fc \in Seq(Steps) /\ v \in Seq(Steps) /\ Ordered(k, s, fc) /\ Ordered(k, s, v)
    BY <1>6, <1>8
  <2> HIDE DEF k
  <2>4. fc \o v \in Seq(Steps) /\ ToSet(fc \o v) = ToSet(fc) \cup ToSet(v) /\ Ordered(k, s, fc \o v)
    BY <2>2, <2>3, Join
  <2> QED BY <1>4, <2>4
<1>10. HasFlush(u)
  BY <1>7, <1>8, <1>9 DEF HasFlush
<1> QED BY <1>3, <1>5, <1>6, <1>7, <1>8, <1>9, <1>10 DEF Makes

LEMMA GrowIs ==
  ASSUME NEW t \in Tables, NEW s \in Vols, NEW vol \in VolState, NEW n \in Sizes, ~vol.upd,
         NEW u, u = Grow(t, s, vol, n), NEW G, G = Grown(t, s, n)
  PROVE  /\ u \in Seq(Steps) /\ Ordered("resize", s, u)
         /\ \A h \in ToSet(u) : Calm(G, h) \/ (Resets(s, n, h) /\ ~h.vol.upd)
         /\ G \in Tables /\ ~G[s].auto /\ G[s].size = n /\ G[s].upd = t[s].upd
         /\ \A v \in Vols : v # s => G[v] = t[v]
<1> DEFINE more == [vol EXCEPT !.size = n, !.used = IF vol.type = "dynamic" THEN n ELSE @]
           c == Change(G)
           v == SetVol(s, more)
           k == "resize"
<1>1. more \in VolState /\ more.size = n /\ ~more.upd
  BY SizesNat DEF VolState
<1>2. /\ G \in Tables /\ ~G[s].auto /\ G[s].size = n /\ G[s].upd = t[s].upd
      /\ \A x \in Vols : x # s => G[x] = t[x]
  BY DEF Tables, Grown
<1>3. u = c \o v
  BY DEF Grow, Grown
<1>4. c \in Seq(Steps) /\ Ordered(k, s, c) /\ \A h \in ToSet(c) : Calm(G, h)
  BY <1>2, ChangeIs
<1> HIDE DEF more, c
<1>5. v \in Seq(Steps) /\ Ordered(k, s, v) /\ \A h \in ToSet(v) : Resets(s, n, h) /\ ~h.vol.upd
  <2>1. v \in Seq(Steps) /\ Ordered(k, s, v) /\ \A h \in ToSet(v) : h = [o |-> "vol", s |-> s, vol |-> more]
    BY <1>1, VolIs
  <2>2. \A h : h = [o |-> "vol", s |-> s, vol |-> more] => h.o = "vol" /\ h.s = s /\ h.vol = more
    OBVIOUS
  <2>3. ASSUME NEW h \in ToSet(v) PROVE Resets(s, n, h) /\ ~h.vol.upd
    <3>1. h.o = "vol" /\ h.s = s /\ h.vol = more
      BY <2>1, <2>2
    <3> QED BY <1>1, <3>1 DEF Resets
  <2> QED BY <2>1, <2>3
<1> HIDE DEF v
<1>6. u \in Seq(Steps) /\ Ordered(k, s, u) /\ ToSet(u) = ToSet(c) \cup ToSet(v)
  <2>1. \A g, h : Calm(G, g) /\ Resets(s, n, h) => Order(k, s, g, h)
    BY DEF Calm, Order, Commit, Touch, Resets
  <2>2. \A g \in ToSet(c), h \in ToSet(v) : Order(k, s, g, h)
    BY <1>4, <1>5, <2>1
  <2> QED BY <1>3, <1>4, <1>5, <2>2, Join
<1> QED BY <1>2, <1>4, <1>5, <1>6

Unmakes(t, s, h) == Calm(t, h) \/ Frees(s, h) \/ (Resets(s, 0, h) /\ ~h.vol.upd) \/ h.o = "back"

LEMMA UnmakeIs ==
  ASSUME Vtbls, NEW s \in Vols, NEW u, u = Unmake(s), NEW t, t = [vtbl EXCEPT ![s] = NoRec]
  PROVE  /\ u \in Seq(Steps) /\ Ordered("remove", s, u) /\ HasBad(u, s)
         /\ \A h \in ToSet(u) : Unmakes(t, s, h)
         /\ \A l \in Lnums : l < vols[s].size => HasUnmap(u, s, l)
         /\ t \in Tables /\ ~t[s].auto /\ t[s].size = 0 /\ \A v \in Vols : v # s => t[v] = vtbl[v]
<1> DEFINE c  == Change(t)
           w  == Wipe(s)
           cw == c \o w
           v  == SetVol(s, NoVol)
           x  == cw \o v
           b  == GiveBack(vols[s].size)
           k  == "remove"
<1>1. NoVol \in VolState /\ ~NoVol.upd /\ NoVol.size = 0 /\ vols[s].size \in Sizes
  BY OffFacts DEF NoVol, Vtbls, VolState
<1>2. NoRec \in [size : Sizes, type : Types, upd : BOOLEAN, auto : BOOLEAN] /\ ~NoRec.auto /\ NoRec.size = 0
  BY SizesNat DEF NoRec, Rec, Types
<1>3. t \in Tables /\ ~t[s].auto /\ t[s].size = 0 /\ \A y \in Vols : y # s => t[y] = vtbl[y]
  BY <1>2 DEF Vtbls, Tables
<1>4. u = x \o b
  BY DEF Unmake
<1>5. /\ c \in Seq(Steps) /\ Ordered(k, s, c) /\ \A h \in ToSet(c) : Calm(t, h)
      /\ \E h \in ToSet(c) : Commit(h) /\ h.d = Table(t)
  BY <1>3, ChangeIs
<1>6. /\ w \in Seq(Steps) /\ Ordered(k, s, w) /\ \A h \in ToSet(w) : Frees(s, h)
      /\ \A l \in Lnums : l < vols[s].size => HasUnmap(w, s, l)
  BY WipeIs DEF Frees
<1>7. v \in Seq(Steps) /\ Ordered(k, s, v) /\ \A h \in ToSet(v) : Resets(s, 0, h) /\ ~h.vol.upd
  <2>1. v \in Seq(Steps) /\ Ordered(k, s, v) /\ \A h \in ToSet(v) : h = [o |-> "vol", s |-> s, vol |-> NoVol]
    BY <1>1, VolIs
  <2>2. \A h : h = [o |-> "vol", s |-> s, vol |-> NoVol] => h.o = "vol" /\ h.s = s /\ h.vol = NoVol
    OBVIOUS
  <2>3. ASSUME NEW h \in ToSet(v) PROVE Resets(s, 0, h) /\ ~h.vol.upd
    <3>1. h.o = "vol" /\ h.s = s /\ h.vol = NoVol
      BY <2>1, <2>2
    <3> QED BY <1>1, <3>1 DEF Resets
  <2> QED BY <2>1, <2>3
<1>8. b \in Seq(Steps) /\ Ordered(k, s, b) /\ \A h \in ToSet(b) : h.o = "back"
  <2> DEFINE y == [o |-> "back", n |-> vols[s].size]
  <2>1. y \in Steps /\ y.o = "back"
    BY <1>1 DEF Steps
  <2>2. b = <<y>>
    BY DEF GiveBack
  <2> HIDE DEF y, b
  <2> QED BY <2>1, <2>2, OneFacts, OrderedOne
<1> HIDE DEF c, w, v, b, cw, x, k
<1>9. k = "remove" /\ s # Layout /\ \A g : Calm(t, g) /\ Commit(g) => Bad(g.d.t, s)
  <2>1. s # Layout
    BY UbiVolAssumption DEF Vols, Layout
  <2>2. ASSUME NEW g, Calm(t, g), Commit(g) PROVE Bad(g.d.t, s)
    <3>1. g.d = Table(t) /\ Table(t).t = t
      BY <2>2, Contradistinct DEF Calm, Commit
    <3> QED BY <1>3, <3>1 DEF Bad
  <2> QED BY <2>1, <2>2 DEF k
<1>10. cw \in Seq(Steps) /\ Ordered(k, s, cw) /\ ToSet(cw) = ToSet(c) \cup ToSet(w)
  <2>1. \A g, h : Calm(t, g) /\ Frees(s, h) => Order(k, s, g, h)
    BY <1>9 DEF Calm, Frees, Order, Touch, Commit
  <2>2. \A g \in ToSet(c), h \in ToSet(w) : Order(k, s, g, h)
    BY <1>5, <1>6, <2>1
  <2> QED BY <1>5, <1>6, <2>2, Join DEF cw
<1>11. x \in Seq(Steps) /\ Ordered(k, s, x) /\ ToSet(x) = ToSet(cw) \cup ToSet(v)
  <2>1. \A g, h : (Calm(t, g) \/ Frees(s, g)) /\ Resets(s, 0, h) => Order(k, s, g, h)
    BY <1>9 DEF Calm, Frees, Order, Touch, Commit, Resets
  <2>2. \A g \in ToSet(cw), h \in ToSet(v) : Order(k, s, g, h)
    BY <1>5, <1>6, <1>7, <1>10, <2>1
  <2> QED BY <1>7, <1>10, <2>2, Join DEF x
<1>12. u \in Seq(Steps) /\ Ordered(k, s, u) /\ ToSet(u) = ToSet(x) \cup ToSet(b)
  <2>1. \A g, h : h.o = "back" => Order(k, s, g, h)
    BY <1>9 DEF Order, Touch, Commit
  <2>2. \A g \in ToSet(x), h \in ToSet(b) : Order(k, s, g, h)
    BY <1>8, <2>1
  <2>3. x \o b \in Seq(Steps) /\ ToSet(x \o b) = ToSet(x) \cup ToSet(b) /\ Ordered(k, s, x \o b)
    BY <1>8, <1>11, <2>2, Join
  <2> QED BY <1>4, <2>3
<1>13. ToSet(c) \subseteq ToSet(u) /\ ToSet(w) \subseteq ToSet(u)
  BY <1>10, <1>11, <1>12
<1>14. HasBad(u, s)
  <2>1. PICK h \in ToSet(c) : Commit(h) /\ Calm(t, h)
    BY <1>5
  <2>2. Bad(h.d.t, s)
    BY <1>9, <2>1
  <2> QED BY <1>13, <2>1, <2>2 DEF HasBad
<1>15. \A l \in Lnums : l < vols[s].size => HasUnmap(u, s, l)
  BY <1>6, <1>13 DEF HasUnmap
<1>16. Ordered("remove", s, u)
  BY <1>9, <1>12
<1>17. \A h \in ToSet(u) : Unmakes(t, s, h)
  BY <1>5, <1>6, <1>7, <1>8, <1>10, <1>11, <1>12 DEF Unmakes
<1> QED BY <1>3, <1>12, <1>14, <1>15, <1>16, <1>17

(***************************************************************************)
(* The rest of an operation.                                               *)
(***************************************************************************)
\* A step of an operation is among the rest of it or is the one just done.
LEMMA Rest ==
  ASSUME NEW t \in Seq(Steps), t # <<>>, NEW h, h = Head(t), NEW r, r = Tail(t)
  PROVE  /\ ToSet(t) = {h} \cup ToSet(r)
         /\ HasFlush(t) <=> h.o = "flush" \/ HasFlush(r)
         /\ HasTouch(t) <=> Touch(h) \/ HasTouch(r)
         /\ \A v : HasClear(t, v) <=> (h.o = "vol" /\ h.s = v /\ ~h.vol.upd) \/ HasClear(r, v)
         /\ \A v : HasBad(t, v) <=> (Commit(h) /\ Bad(h.d.t, v)) \/ HasBad(r, v)
         /\ \A v, l : HasUnmap(t, v, l) <=> (h.o = "unmap" /\ h.v = v /\ h.l = l) \/ HasUnmap(r, v, l)
<1>1. ToSet(t) = {h} \cup ToSet(r)
  BY RestFacts
<1>2. HasFlush(t) <=> h.o = "flush" \/ HasFlush(r)
  BY <1>1 DEF HasFlush
<1>3. HasTouch(t) <=> Touch(h) \/ HasTouch(r)
  BY <1>1 DEF HasTouch
<1>4. \A v : HasClear(t, v) <=> (h.o = "vol" /\ h.s = v /\ ~h.vol.upd) \/ HasClear(r, v)
  BY <1>1 DEF HasClear
<1>5. \A v : HasBad(t, v) <=> (Commit(h) /\ Bad(h.d.t, v)) \/ HasBad(r, v)
  BY <1>1 DEF HasBad
<1>6. \A v, l : HasUnmap(t, v, l) <=> (h.o = "unmap" /\ h.v = v /\ h.l = l) \/ HasUnmap(r, v, l)
  BY <1>1 DEF HasUnmap
<1> QED BY <1>1, <1>2, <1>3, <1>4, <1>5, <1>6

\* What one step of an operation does to the volumes in RAM, to the maps and to
\* the table on flash.
Goes(h) ==
  /\ On /\ On' /\ todo # <<>> /\ h = Head(todo) /\ todo' = Tail(todo) /\ op' = op
  /\ vols' = IF h.o = "vol" THEN [vols EXCEPT ![h.s] = h.vol] ELSE vols
  /\ h.o \notin {"unmap", "write"} => eba' = eba
  /\ h.o = "unmap" => eba' = [eba EXCEPT ![h.v][h.l] = None]
  /\ h.o = "write" => \E p \in Pebs : eba' = [eba EXCEPT ![h.v][h.l] = p]
  /\ tab' = IF Commit(h) THEN h.d.t ELSE tab

LEMMA HeadIs ==
  ASSUME RamOk, Plan, NEW h, Goes(h)
  PROVE  /\ h \in Steps /\ Fits(h) /\ Ordered(op.k, op.s, todo') /\ h \in ToSet(todo)
         /\ \A x \in ToSet(todo') : Order(op.k, op.s, h, x) /\ Fits(x) /\ x \in ToSet(todo)
         /\ ToSet(todo) = {h} \cup ToSet(todo')
<1>1. todo \in Seq(Steps) /\ todo # <<>> /\ h = Head(todo) /\ todo' = Tail(todo)
  BY DEF RamOk, Goes
<1>2. ToSet(todo) = {h} \cup ToSet(todo') /\ h \in Steps
  BY <1>1, RestFacts
<1>3. Ordered(op.k, op.s, todo)
  BY DEF Plan
<1>4. Ordered(op.k, op.s, todo') /\ \A x \in ToSet(todo') : Order(op.k, op.s, h, x)
  BY <1>1, <1>3, OrderedRest
<1>5. \A x \in ToSet(todo) : Fits(x)
  BY DEF Plan
<1> QED BY <1>2, <1>4, <1>5

\* How a step leaves the map of a volume.
LEMMA MapIs ==
  ASSUME RamOk, Plan, NEW h, Goes(h), NEW v \in 0 .. Slots, NEW l \in Lnums
  PROVE  /\ ~(h.o \in {"unmap", "write"} /\ h.v = v /\ h.l = l) => eba'[v][l] = eba[v][l]
         /\ h.o = "unmap" /\ h.v = v /\ h.l = l => eba'[v][l] = None
         /\ h.o = "write" /\ h.v = v /\ h.l = l => eba'[v][l] # None
<1>1. h \in Steps /\ eba \in EbaState
  BY HeadIs DEF RamOk
<1>2. None \notin Pebs
  BY UbiVolAssumption DEF Pebs, None
<1>3. CASE h.o = "unmap"
  <2>1. h.v \in 0 .. Slots /\ h.l \in Lnums
    BY <1>1, <1>3 DEF Steps
  <2>2. eba' = [eba EXCEPT ![h.v][h.l] = None]
    BY <1>3 DEF Goes
  <2> QED BY <1>1, <1>3, <2>1, <2>2 DEF EbaState
<1>4. CASE h.o = "write"
  <2>1. h.v \in 0 .. Slots /\ h.l \in Lnums
    BY <1>1, <1>4 DEF Steps
  <2>2. PICK p \in Pebs : eba' = [eba EXCEPT ![h.v][h.l] = p]
    BY <1>4 DEF Goes
  <2> QED BY <1>1, <1>2, <1>4, <2>1, <2>2 DEF EbaState
<1>5. CASE h.o \notin {"unmap", "write"}
  BY <1>5 DEF Goes
<1> QED BY <1>3, <1>4, <1>5

\* A volume that loses its data is marked or gone.
LEMMA TouchIsBad ==
  ASSUME RamOk, Plan, On, todo # <<>>, NEW h, h = Head(todo), Touch(h)
  PROVE  op.s \in Vols /\ h.v = op.s /\ h \in Steps /\ Bad(tab, op.s)
<1>1. todo \in Seq(Steps) /\ Ordered(op.k, op.s, todo)
  BY DEF RamOk, Plan
<1>2. h \in Steps /\ h \in ToSet(todo) /\ ToSet(todo) = {h} \cup ToSet(Tail(todo))
  BY <1>1, RestFacts
<1>3. Fits(h)
  BY <1>2 DEF Plan
<1>4. h.v = op.s /\ op.k \in {"update", "remove"}
  BY <1>3 DEF Fits
<1>5. op.s \in Vols
  BY <1>4 DEF Plan
<1>6. Bad(tab, op.s) \/ HasBad(todo, op.s)
  BY <1>2 DEF Plan, HasTouch
<1>7. ASSUME HasBad(todo, op.s) PROVE FALSE
  <2>1. PICK g \in ToSet(todo) : Commit(g) /\ Bad(g.d.t, op.s)
    BY <1>7 DEF HasBad
  <2>2. g # h
    BY <2>1, UbiVolAssumption DEF Commit, Touch
  <2>3. Order(op.k, op.s, h, g)
    BY <1>1, <1>2, <2>2, OrderedRest
  <2> QED BY <2>1, <2>3 DEF Order
<1> QED BY <1>2, <1>4, <1>5, <1>6, <1>7

\* What is left of an operation fits what the step has done.
LEMMA FitsRest ==
  ASSUME RamOk, RamOk', Plan, NEW h, Goes(h), NEW x \in ToSet(todo')
  PROVE  Fits(x)'
<1>0. /\ h \in Steps /\ Fits(h) /\ Order(op.k, op.s, h, x) /\ Fits(x) /\ x \in ToSet(todo) /\ op' = op
      /\ todo \in Seq(Steps) /\ todo # <<>> /\ h = Head(todo) /\ todo' = Tail(todo)
  BY HeadIs DEF Goes, RamOk
<1>1. x \in Steps
  <2>1. Tail(todo) \in Seq(Steps)
    BY <1>0
  <2> QED BY <1>0, <2>1 DEF ToSet
<1>2. op.k # "none" => op.s \in Vols
  BY DEF Plan
<1>3. /\ \A v : HasClear(todo, v) <=> (h.o = "vol" /\ h.s = v /\ ~h.vol.upd) \/ HasClear(todo', v)
      /\ \A v, l : HasUnmap(todo, v, l) <=> (h.o = "unmap" /\ h.v = v /\ h.l = l) \/ HasUnmap(todo', v, l)
  BY <1>0, Rest
<1>4. ASSUME h.o = "vol" PROVE h.s = op.s /\ h.s \in Vols /\ h.vol \in VolState /\ vols'[op.s] = h.vol
  <2>1. h.s = op.s /\ h.s \in Vols /\ h.vol \in VolState
    BY <1>0, <1>4 DEF Fits, Steps
  <2>2. vols' = [vols EXCEPT ![h.s] = h.vol]
    BY <1>4 DEF Goes
  <2> QED BY <2>1, <2>2 DEF RamOk
<1>5. h.o # "vol" => vols' = vols
  BY DEF Goes
<1>6. ASSUME Touch(x)
      PROVE  /\ x.v = op.s /\ op.k \in {"update", "remove"}
             /\ x.o = "write" =>
                  /\ op.k = "update" /\ x.l < vols'[op.s].size
                  /\ eba'[op.s][x.l] = None \/ HasUnmap(todo', op.s, x.l)
  <2>1. x.v = op.s /\ op.k \in {"update", "remove"} /\ op.s \in Vols
    BY <1>0, <1>2, <1>6 DEF Fits
  <2> SUFFICES ASSUME x.o = "write"
               PROVE  /\ op.k = "update" /\ x.l < vols'[op.s].size
                      /\ eba'[op.s][x.l] = None \/ HasUnmap(todo', op.s, x.l)
    BY <2>1
  <2>2. /\ op.k = "update" /\ x.l < vols[op.s].size
        /\ eba[op.s][x.l] = None \/ HasUnmap(todo, op.s, x.l)
    BY <1>0, <1>6 DEF Fits
  <2>3. x.l \in Lnums /\ x.l \in Nat
    BY <1>1, UbiVolAssumption DEF Steps, Lnums
  <2>4. x.l < vols'[op.s].size
    <3>1. CASE h.o = "vol"
      <4>1. h.vol.size >= vols[op.s].size
        BY <1>0, <2>2, <3>1 DEF Fits
      <4>2. vols[op.s].size \in Nat /\ h.vol.size \in Nat
        BY <1>4, <2>1, <3>1, SizesNat DEF RamOk, VolState
      <4> QED BY <1>4, <2>2, <2>3, <3>1, <4>1, <4>2
    <3>2. CASE h.o # "vol"
      BY <1>5, <2>2, <3>2
    <3> QED BY <3>1, <3>2
  <2>5. op.s \in 0 .. Slots /\ op.s # Layout
    BY <2>1, UbiVolAssumption DEF Vols, Layout
  <2>6. ~(h.o = "write" /\ h.v = op.s /\ h.l = x.l)
    <3>1. ASSUME h.o = "write", h.v = op.s, h.l = x.l PROVE FALSE
      <4>1. Touch(h)
        BY <2>5, <3>1 DEF Touch
      <4> QED BY <1>0, <1>6, <3>1, <4>1 DEF Order
    <3> QED BY <3>1
  <2>7. CASE h.o = "unmap" /\ h.v = op.s /\ h.l = x.l
    BY <2>2, <2>3, <2>4, <2>5, <2>7, MapIs
  <2>8. CASE ~(h.o = "unmap" /\ h.v = op.s /\ h.l = x.l)
    <3>1. eba'[op.s][x.l] = eba[op.s][x.l]
      BY <2>3, <2>5, <2>6, <2>8, MapIs
    <3> QED BY <1>3, <2>2, <2>4, <2>8, <3>1
  <2> QED BY <2>2, <2>4, <2>7, <2>8
<1>7. x.o = "write" /\ x.v = Layout => x.l \in {0, 1}
  BY <1>0 DEF Fits
<1>8. ASSUME x.o = "vol"
      PROVE  /\ x.s = op.s /\ (op.k # "remove" => x.vol.size >= vols'[op.s].size)
             /\ x.vol.upd => HasClear(todo', op.s)
  <2>1. /\ x.s = op.s /\ (op.k # "remove" => x.vol.size >= vols[op.s].size)
        /\ x.vol.upd => HasClear(todo, op.s)
    BY <1>0, <1>8 DEF Fits
  <2>2. CASE h.o = "vol"
    <3>1. ~x.vol.upd /\ (op.k # "remove" => x.vol.size >= h.vol.size)
      BY <1>0, <1>8, <2>2 DEF Order
    <3> QED BY <1>4, <2>1, <2>2, <3>1
  <2>3. CASE h.o # "vol"
    BY <1>3, <1>5, <2>1, <2>3
  <2> QED BY <2>2, <2>3
<1>9. ASSUME Commit(x)
      PROVE  /\ HasAuto(x.d.t) /\ \A v \in Vols : v # op.s => x.d.t[v] = tab'[v]
             /\ op.k = "remove" => x.d.t[op.s].size = 0
             /\ op.k = "resize" => x.d.t[op.s].size # 0 /\ x.d.t[op.s].upd = tab'[op.s].upd
  <2>1. /\ HasAuto(x.d.t) /\ \A v \in Vols : v # op.s => x.d.t[v] = tab[v]
        /\ op.k = "remove" => x.d.t[op.s].size = 0
        /\ op.k = "resize" => x.d.t[op.s].size # 0 /\ x.d.t[op.s].upd = tab[op.s].upd
    BY <1>0, <1>9 DEF Fits
  <2>2. CASE Commit(h)
    <3>1. /\ \A v \in Vols : v # op.s => h.d.t[v] = tab[v]
          /\ op.k = "resize" => h.d.t[op.s].upd = tab[op.s].upd
      BY <1>0, <2>2 DEF Fits
    <3>2. tab' = h.d.t
      BY <2>2 DEF Goes
    <3> QED BY <2>1, <3>1, <3>2
  <2>3. CASE ~Commit(h)
    <3>1. tab' = tab
      BY <2>3 DEF Goes
    <3> QED BY <2>1, <3>1
  <2> QED BY <2>2, <2>3
<1>10. HasAuto(x.d.t)' <=> HasAuto(x.d.t)
  BY DEF HasAuto
<1>11. Touch(x)' <=> Touch(x)
  BY DEF Touch
<1> QED BY <1>0, <1>6, <1>7, <1>8, <1>9 DEF Fits, Touch, Commit, HasAuto, HasUnmap, HasClear

LEMMA PlanRest ==
  ASSUME RamOk, RamOk', Plan, NEW h, Goes(h),
         ~Touch(h) => \A v \in Vols, l \in Lnums : NoCopy(v, l) => NoCopy(v, l)',
         h.o = "flush" => \A v \in Vols, l \in Lnums : eba[v][l] = None => NoCopy(v, l)'
  PROVE  Plan'
<1>0. /\ h \in Steps /\ Fits(h) /\ Ordered(op.k, op.s, todo') /\ h \in ToSet(todo)
      /\ \A x \in ToSet(todo') : Order(op.k, op.s, h, x)
      /\ todo \in Seq(Steps) /\ todo # <<>> /\ h = Head(todo) /\ todo' = Tail(todo) /\ op' = op /\ On /\ On'
  BY HeadIs DEF Goes, RamOk
<1>1. /\ op.k \in {"none", "create", "remove", "update", "resize"} /\ (op.k # "none" => op.s \in Vols)
      /\ op.k # "none" /\ op.s \in Vols /\ op.s \in 0 .. Slots /\ op.s # Layout
  <2>1. op.k # "none" /\ op.k \in {"none", "create", "remove", "update", "resize"} /\ (op.k # "none" => op.s \in Vols)
    BY <1>0 DEF Plan
  <2>2. op.s \in 0 .. Slots /\ op.s # Layout
    BY <2>1, UbiVolAssumption DEF Vols, Layout
  <2> QED BY <2>1, <2>2
<1>2. /\ HasFlush(todo) <=> h.o = "flush" \/ HasFlush(todo')
      /\ HasTouch(todo) <=> Touch(h) \/ HasTouch(todo')
      /\ \A v : HasClear(todo, v) <=> (h.o = "vol" /\ h.s = v /\ ~h.vol.upd) \/ HasClear(todo', v)
      /\ \A v : HasBad(todo, v) <=> (Commit(h) /\ Bad(h.d.t, v)) \/ HasBad(todo', v)
      /\ \A v, l : HasUnmap(todo, v, l) <=> (h.o = "unmap" /\ h.v = v /\ h.l = l) \/ HasUnmap(todo', v, l)
  BY <1>0, Rest
<1>3. HasAuto(tab') /\ (op.k = "resize" => tab'[op.s].size # 0)
  <2>1. CASE Commit(h)
    <3>1. tab' = h.d.t
      BY <2>1 DEF Goes
    <3> QED BY <1>0, <2>1, <3>1 DEF Fits
  <2>2. CASE ~Commit(h)
    BY <2>2 DEF Goes, Plan
  <2> QED BY <2>1, <2>2
<1>4. HasTouch(todo') => Bad(tab', op.s) \/ HasBad(todo', op.s)
  <2> SUFFICES ASSUME NEW y \in ToSet(todo'), Touch(y) PROVE Bad(tab', op.s) \/ HasBad(todo', op.s)
    BY DEF HasTouch
  <2>1. CASE Commit(h)
    <3>1. tab' = h.d.t
      BY <2>1 DEF Goes
    <3>2. Bad(h.d.t, op.s)
      BY <1>0, <2>1 DEF Order
    <3> QED BY <3>1, <3>2
  <2>2. CASE ~Commit(h)
    <3>1. HasTouch(todo)
      BY <1>2 DEF HasTouch
    <3>2. tab' = tab
      BY <2>2 DEF Goes
    <3> QED BY <1>2, <2>2, <3>1, <3>2 DEF Plan
  <2> QED BY <2>1, <2>2
<1>5. ASSUME NEW v \in Vols, vols'[v].upd PROVE HasClear(todo', v)
  <2>1. CASE h.o = "vol" /\ h.s = v
    <3>1. vols'[v] = h.vol
      BY <2>1 DEF Goes, RamOk
    <3>2. HasClear(todo, v)
      BY <1>0, <1>5, <2>1, <3>1 DEF Fits
    <3> QED BY <1>2, <1>5, <3>1, <3>2
  <2>2. CASE ~(h.o = "vol" /\ h.s = v)
    <3>1. vols'[v] = vols[v]
      BY <1>0, <2>2 DEF Goes, RamOk, Steps
    <3>2. HasClear(todo, v)
      BY <1>5, <3>1 DEF Plan
    <3> QED BY <1>2, <2>2, <3>2
  <2> QED BY <2>1, <2>2
<1> PICK s : s = op.s
  OBVIOUS
<1>6. ASSUME ~Touch(h), NEW l \in Lnums PROVE eba'[op.s][l] = eba[op.s][l]
  <2>1. ~(h.o \in {"unmap", "write"} /\ h.v = op.s /\ h.l = l)
    BY <1>1, <1>6 DEF Touch
  <2> QED BY <1>1, <2>1, MapIs
<1>7. ASSUME h.o = "flush" PROVE ~Touch(h) /\ ~HasTouch(todo') /\ \A l \in Lnums : eba'[op.s][l] = None => NoCopy(s, l)'
  <2>1. ~Touch(h)
    BY <1>7 DEF Touch
  <2>2. ~HasTouch(todo')
    BY <1>0, <1>7 DEF HasTouch, Order
  <2>3. \A l \in Lnums : eba'[op.s][l] = eba[op.s][l]
    BY <1>6, <2>1
  <2> QED BY <1>1, <1>7, <2>1, <2>2, <2>3
<1>8. op.k = "update" => \/ HasFlush(todo')
                         \/ ~HasTouch(todo') /\ \A l \in Lnums : eba'[op.s][l] = None => NoCopy(s, l)'
  <2> SUFFICES ASSUME op.k = "update", ~HasFlush(todo')
               PROVE  ~HasTouch(todo') /\ \A l \in Lnums : eba'[op.s][l] = None => NoCopy(s, l)'
    OBVIOUS
  <2>1. CASE h.o = "flush"
    BY <1>7, <2>1
  <2>2. CASE h.o # "flush"
    <3>1. ~HasTouch(todo) /\ \A l \in Lnums : eba[op.s][l] = None => NoCopy(op.s, l)
      BY <1>2, <2>2 DEF Plan
    <3>2. ~Touch(h) /\ ~HasTouch(todo')
      BY <1>2, <3>1
    <3>3. \A l \in Lnums : eba'[op.s][l] = eba[op.s][l]
      BY <1>6, <3>2
    <3>4. \A l \in Lnums : eba'[op.s][l] = None => NoCopy(s, l)
      BY <3>1, <3>3
    <3> QED BY <1>1, <3>2, <3>4
  <2> QED BY <2>1, <2>2
<1>9. op.k = "remove" => \A l \in Lnums : eba'[op.s][l] = None \/ HasUnmap(todo', op.s, l)
  <2> SUFFICES ASSUME op.k = "remove", NEW l \in Lnums PROVE eba'[op.s][l] = None \/ HasUnmap(todo', op.s, l)
    OBVIOUS
  <2>1. eba[op.s][l] = None \/ HasUnmap(todo, op.s, l)
    BY DEF Plan
  <2>2. ~(h.o = "write" /\ h.v = op.s)
    BY <1>0, <1>1 DEF Fits, Touch
  <2>3. CASE h.o = "unmap" /\ h.v = op.s /\ h.l = l
    BY <1>1, <2>3, MapIs
  <2>4. CASE ~(h.o = "unmap" /\ h.v = op.s /\ h.l = l)
    <3>1. eba'[op.s][l] = eba[op.s][l]
      BY <1>1, <2>2, <2>4, MapIs
    <3> QED BY <1>2, <2>1, <2>4, <3>1
  <2> QED BY <2>3, <2>4
<1>10. op.k = "create" => /\ \A l \in Lnums : eba'[op.s][l] = None
                          /\ HasFlush(todo') \/ \A l \in Lnums : NoCopy(s, l)'
  <2> SUFFICES ASSUME op.k = "create"
               PROVE  /\ \A l \in Lnums : eba'[op.s][l] = None
                      /\ HasFlush(todo') \/ \A l \in Lnums : NoCopy(s, l)'
    OBVIOUS
  <2>1. ~Touch(h)
    BY <1>0 DEF Fits
  <2>2. \A l \in Lnums : eba'[op.s][l] = None
    BY <1>6, <2>1 DEF Plan
  <2>3. CASE h.o = "flush"
    BY <1>7, <2>2, <2>3
  <2>4. CASE h.o # "flush"
    <3>1. HasFlush(todo') \/ \A l \in Lnums : NoCopy(op.s, l)
      BY <1>2, <2>4 DEF Plan
    <3>2. HasFlush(todo') \/ \A l \in Lnums : NoCopy(s, l)
      BY <3>1
    <3> QED BY <1>1, <2>1, <2>2, <3>2
  <2> QED BY <2>3, <2>4
<1>11. \A x \in ToSet(todo') : Fits(x)'
  BY FitsRest
<1>12. HasAuto(tab)' <=> HasAuto(tab')
  BY DEF HasAuto
<1> HIDE DEF Goes
<1> QED BY <1>0, <1>1, <1>3, <1>4, <1>5, <1>8, <1>9, <1>10, <1>11, <1>12
        DEF Plan, Ordered, Order, HasTouch, HasBad, HasClear, HasFlush, HasUnmap, Bad, HasAuto, Touch, Commit,
            NoCopy, IsCopy, IsLeb

(***************************************************************************)
(* What the volumes hold through the steps of an operation.                *)
(***************************************************************************)
\* A step that changes neither the map nor the copies of a sound volume.
LEMMA HeldRest ==
  ASSUME On, On', Held, op' = op, tab' = tab, told' = told, hurt' = hurt,
         \A s \in Vols : Sound(s) => \A l \in Lnums :
           /\ eba'[s][l] = eba[s][l] /\ (eba[s][l] # None => peb'[eba[s][l]] = peb[eba[s][l]])
           /\ NoCopy(s, l) => NoCopy(s, l)'
  PROVE  Held'
<1>1. ASSUME NEW s \in Vols, Sound(s), NEW l \in Lnums
      PROVE  /\ told'[s][l] = IF eba'[s][l] = None THEN Hole ELSE peb'[eba'[s][l]].d
             /\ eba'[s][l] = None => NoCopy(s, l)' \/ (op'.k = "update" /\ op'.s = s)
  <2>1. /\ eba'[s][l] = eba[s][l] /\ (eba[s][l] # None => peb'[eba[s][l]] = peb[eba[s][l]])
        /\ NoCopy(s, l) => NoCopy(s, l)'
    BY <1>1
  <2>2. /\ told[s][l] = IF eba[s][l] = None THEN Hole ELSE peb[eba[s][l]].d
        /\ eba[s][l] = None => NoCopy(s, l) \/ (op.k = "update" /\ op.s = s)
    BY <1>1 DEF Held
  <2> QED BY <2>1, <2>2
<1>2. \A s : Sound(s)' <=> Sound(s)
  BY DEF Sound
<1> QED BY <1>1, <1>2 DEF Held

LEMMA RamKeeps == ASSUME IInv, IInv', KInv, RamStep PROVE KInv'
<1>0. RamOk /\ RamOk' /\ Plan /\ Owned /\ Held
  BY DEF IInv, KInv
<1>h. PICK h : h = Head(todo)
  OBVIOUS
<1>1. /\ On /\ todo # <<>> /\ h.o \in {"vtbl", "vol", "back"}
      /\ vols' = IF h.o = "vol" THEN [vols EXCEPT ![h.s] = h.vol] ELSE vols
      /\ todo' = Tail(todo)
      /\ UNCHANGED <<op, peb, up, eba, works, tab, told, hurt>>
  BY <1>h DEF RamStep, At, Advance, hist, On
<1>2. Goes(h)
  BY <1>h, <1>1 DEF Goes, On, Commit
<1>3. \A v, l : NoCopy(v, l) => NoCopy(v, l)'
  BY <1>1 DEF NoCopy, IsCopy, IsLeb
<1>4. Plan'
  <2>1. h.o # "flush"
    BY <1>1
  <2> QED BY <1>0, <1>2, <1>3, <2>1, PlanRest
<1>5. Held'
  BY <1>0, <1>1, <1>3, HeldRest DEF On
<1>6. Owned'
  <2>1. ASSUME NEW v \in Vols, NEW l \in Lnums, eba[v][l] # None PROVE l < vols'[v].size
    <3>1. l < vols[v].size
      BY <1>0, <1>1, <2>1 DEF Owned
    <3>2. CASE h.o = "vol" /\ h.s = v
      <4>1. Fits(h) /\ h \in Steps
        BY <1>0, <1>2, HeadIs
      <4>2. v = op.s /\ vols'[v] = h.vol /\ (op.k # "remove" => h.vol.size >= vols[v].size)
        BY <1>0, <1>1, <3>2, <4>1 DEF Fits, RamOk
      <4>3. op.k # "remove"
        <5>1. ASSUME op.k = "remove" PROVE FALSE
          <6>1. HasUnmap(todo, v, l)
            BY <1>0, <2>1, <4>2, <5>1 DEF Plan
          <6>2. PICK x \in ToSet(todo) : x.o = "unmap" /\ x.v = v /\ x.l = l
            BY <6>1 DEF HasUnmap
          <6>3. Touch(x) /\ x # h
            BY <1>1, <6>2, UbiVolAssumption DEF Touch, Vols, Layout
          <6>4. Order(op.k, op.s, h, x)
            BY <1>0, <1>2, <6>2, <6>3, HeadIs
          <6> QED BY <3>2, <5>1, <6>3, <6>4 DEF Order
        <5> QED BY <5>1
      <4>4. h.vol.size \in Nat /\ vols[v].size \in Nat /\ l \in Nat
        <5>1. h.vol \in VolState
          BY <3>2, <4>1 DEF Steps
        <5>2. vols[v] \in VolState
          BY <1>0, <2>1 DEF RamOk
        <5>3. l \in Nat
          BY <2>1, UbiVolAssumption DEF Lnums
        <5> QED BY <5>1, <5>2, <5>3, SizesNat DEF VolState
      <4> QED BY <3>1, <4>2, <4>3, <4>4
    <3>3. CASE ~(h.o = "vol" /\ h.s = v)
      <4>1. vols'[v] = vols[v]
        BY <1>0, <1>1, <3>3 DEF RamOk
      <4> QED BY <3>1, <4>1
    <3> QED BY <3>2, <3>3
  <2>2. \A p \in Pebs : IsLeb(p)' => eba[peb[p].v][peb[p].l] = p \/ p \in ToSet(works)
    BY <1>0, <1>1 DEF Owned, IsLeb
  <2> QED BY <1>1, <2>1, <2>2 DEF Owned, On
<1> QED BY <1>4, <1>5, <1>6 DEF KInv

LEMMA FlushKeeps == ASSUME IInv, IInv', KInv, FlushDone PROVE KInv'
<1>0. RamOk /\ RamOk' /\ Plan /\ Owned /\ Held
  BY DEF IInv, KInv
<1>h. PICK h : h = Head(todo)
  OBVIOUS
<1>1. /\ On /\ todo # <<>> /\ h.o = "flush" /\ works = <<>> /\ todo' = Tail(todo)
      /\ UNCHANGED <<op, peb, up, vols, eba, works, tab, told, hurt>>
  BY <1>h DEF FlushDone, At, Advance, hist, On
<1>2. Goes(h)
  BY <1>h, <1>1 DEF Goes, On, Commit
<1>3. \A v, l : NoCopy(v, l) => NoCopy(v, l)'
  BY <1>1 DEF NoCopy, IsCopy, IsLeb
<1>4. \A v \in Vols, l \in Lnums : eba[v][l] = None => NoCopy(v, l)
  <2>1. \A p \in Pebs : IsLeb(p) => eba[peb[p].v][peb[p].l] = p
    BY <1>0, <1>1 DEF Owned, ToSet
  <2> QED BY <2>1 DEF NoCopy, IsCopy, None, Pebs
<1>5. Plan'
  BY <1>0, <1>2, <1>3, <1>4, PlanRest
<1>6. Held'
  BY <1>0, <1>1, <1>3, HeldRest DEF On
<1>7. Owned'
  BY <1>0, <1>1 DEF Owned, IsLeb, On
<1> QED BY <1>5, <1>6, <1>7 DEF KInv

LEMMA UnmapKeeps == ASSUME IInv, IInv', KInv, UnmapStep PROVE KInv'
<1>0. RamOk /\ RamOk' /\ Plan /\ Owned /\ Held
  BY DEF IInv, KInv
<1>h. PICK h, o : h = Head(todo) /\ o = eba[h.v][h.l]
  OBVIOUS
<1>1. /\ On /\ todo # <<>> /\ h.o = "unmap" /\ todo' = Tail(todo)
      /\ eba' = [eba EXCEPT ![h.v][h.l] = None]
      /\ works' = (IF o = None THEN works ELSE Append(works, o))
      /\ UNCHANGED <<op, peb, up, vols, tab, told, hurt>>
  BY <1>h DEF UnmapStep, At, Advance, hist, On
<1>2. Goes(h)
  BY <1>h, <1>1 DEF Goes, On, Commit
<1>3. \A v, l : NoCopy(v, l) => NoCopy(v, l)'
  BY <1>1 DEF NoCopy, IsCopy, IsLeb
<1>4. Plan'
  <2>1. h.o # "flush"
    BY <1>1
  <2> QED BY <1>0, <1>2, <1>3, <2>1, PlanRest
<1>5. /\ h \in Steps /\ h.v \in 0 .. Slots /\ h.l \in Lnums /\ o \in Pebs \cup {None} /\ works \in Seq(Pebs)
  <2>1. h \in Steps
    BY <1>0, <1>2, HeadIs
  <2>2. h.v \in 0 .. Slots /\ h.l \in Lnums
    BY <1>1, <2>1 DEF Steps
  <2> QED BY <1>0, <1>h, <2>1, <2>2 DEF RamOk, EbaState
<1>6. \A v \in 0 .. Slots, l \in Lnums : eba'[v][l] = IF v = h.v /\ l = h.l THEN None ELSE eba[v][l]
  <2>1. eba \in EbaState
    BY <1>0 DEF RamOk
  <2> QED BY <1>1, <1>5, <2>1 DEF EbaState
<1>7. Vols \subseteq 0 .. Slots
  BY UbiVolAssumption DEF Vols
<1>8. Held'
  <2>1. ASSUME NEW s \in Vols, Sound(s), NEW l \in Lnums PROVE eba'[s][l] = eba[s][l]
    <3>1. h.v # s
      <4>1. ASSUME h.v = s PROVE FALSE
        <5>1. Touch(h)
          BY <1>1, <2>1, <4>1, UbiVolAssumption DEF Touch, Vols, Layout
        <5>2. s = op.s /\ Bad(tab, s)
          BY <1>0, <1>1, <1>h, <4>1, <5>1, TouchIsBad
        <5> QED BY <2>1, <5>2 DEF Sound, Bad
      <4> QED BY <4>1
    <3> QED BY <1>6, <1>7, <2>1, <3>1
  <2>2. \A s \in Vols : Sound(s) => \A l \in Lnums :
           /\ eba'[s][l] = eba[s][l] /\ (eba[s][l] # None => peb'[eba[s][l]] = peb[eba[s][l]])
           /\ NoCopy(s, l) => NoCopy(s, l)'
    BY <1>1, <1>3, <2>1
  <2>3. On' /\ op' = op /\ tab' = tab /\ told' = told /\ hurt' = hurt
    BY <1>1 DEF On
  <2> QED BY <1>0, <1>1, <2>2, <2>3, HeldRest
<1>9. Owned'
  <2>1. ToSet(works') = ToSet(works) \cup (IF o = None THEN {} ELSE {o})
    BY <1>1, <1>5, AppendFacts
  <2>2. ASSUME NEW p \in Pebs, IsLeb(p) PROVE eba'[peb[p].v][peb[p].l] = p \/ p \in ToSet(works')
    <3>1. eba[peb[p].v][peb[p].l] = p \/ p \in ToSet(works)
      BY <1>0, <1>1, <2>2 DEF Owned
    <3>2. peb[p].v \in 0 .. Slots /\ peb[p].l \in Lnums
      BY <2>2, LebFacts DEF IInv
    <3>3. p # None
      BY DEF Pebs, None
    <3> QED BY <1>6, <1>h, <2>1, <3>1, <3>2, <3>3
  <2>3. \A v \in Vols, l \in Lnums : eba'[v][l] # None => l < vols'[v].size
    <3>1. \A v \in Vols, l \in Lnums : eba'[v][l] # None => eba[v][l] # None
      BY <1>6, <1>7
    <3> QED BY <1>0, <1>1, <3>1 DEF Owned
  <2>4. peb' = peb
    BY <1>1
  <2>5. \A p : IsLeb(p)' <=> IsLeb(p)
    BY <2>4 DEF IsLeb
  <2> QED BY <2>2, <2>3, <2>4, <2>5 DEF Owned
<1> QED BY <1>4, <1>8, <1>9 DEF KInv

LEMMA EraseKeeps == ASSUME IInv, IInv', KInv, EraseStep PROVE KInv'
<1>0. FlashOk /\ RamOk /\ RamOk' /\ Trees /\ Plan /\ Owned /\ Held
  BY DEF IInv, KInv
<1>h. PICK h : h = Head(works)
  OBVIOUS
<1>1. /\ On /\ works # <<>> /\ works' = Tail(works) /\ peb' = [peb EXCEPT ![h] = Free]
      /\ UNCHANGED <<op, todo, up, eba, vols, tab, told, hurt>>
  BY <1>h DEF EraseStep, At, hist, On
<1>2. h \in Pebs /\ h \in ToSet(works) /\ ToSet(works) = ToSet(Tail(works)) \cup {h}
  <2>1. works \in Seq(Pebs)
    BY <1>0 DEF RamOk
  <2> QED BY <1>1, <1>h, <2>1, TailFacts
<1>3. peb'[h] = Free /\ \A p \in Pebs : p # h => peb'[p] = peb[p]
  BY <1>0, <1>1, <1>2 DEF FlashOk
<1>4. \A p \in Pebs : IsLeb(p)' <=> IsLeb(p) /\ p # h
  BY <1>3 DEF IsLeb, Free
<1>5. \A v, l : NoCopy(v, l) => NoCopy(v, l)'
  BY <1>3, <1>4 DEF NoCopy, IsCopy
<1>6. Plan'
  <2>1. On'
    BY <1>1 DEF On
  <2>2. /\ \A v, l : NoCopy(v, l) => NoCopy(v, l)'
        /\ \A x : Fits(x) => Fits(x)'
    BY <1>1, <1>5 DEF Fits, Touch, Commit, HasAuto, HasUnmap, HasClear
  <2> QED BY <1>0, <1>1, <2>1, <2>2
          DEF Plan, Ordered, Order, HasTouch, HasBad, HasClear, HasFlush, HasUnmap, Bad, HasAuto, Touch, Commit
<1>7. Held'
  <2>1. \A s \in Vols, l \in Lnums : eba[s][l] # None => peb'[eba[s][l]] = peb[eba[s][l]]
    <3> SUFFICES ASSUME NEW s \in Vols, NEW l \in Lnums, eba[s][l] # None
                 PROVE  peb'[eba[s][l]] = peb[eba[s][l]]
      OBVIOUS
    <3>1. s \in 0 .. Slots
      BY UbiVolAssumption DEF Vols
    <3>2. eba[s][l] \in Pebs /\ eba[s][l] \notin ToSet(works)
      BY <1>0, <1>1, <3>1, MappedIsFound DEF Trees
    <3> QED BY <1>2, <1>3, <3>2
  <2>2. On'
    BY <1>1 DEF On
  <2> QED BY <1>0, <1>1, <1>5, <2>1, <2>2, HeldRest
<1>8. Owned'
  <2>1. ASSUME NEW p \in Pebs, IsLeb(p)' PROVE eba[peb'[p].v][peb'[p].l] = p \/ p \in ToSet(works')
    <3>1. p # h /\ IsLeb(p) /\ peb'[p] = peb[p]
      BY <1>3, <1>4, <2>1
    <3>2. eba[peb[p].v][peb[p].l] = p \/ p \in ToSet(works)
      BY <1>0, <1>1, <3>1 DEF Owned
    <3> QED BY <1>1, <1>2, <3>1, <3>2
  <2>2. \A v \in Vols, l \in Lnums : eba[v][l] # None => l < vols[v].size
    BY <1>0, <1>1 DEF Owned
  <2> QED BY <1>1, <2>1, <2>2 DEF Owned
<1> QED BY <1>6, <1>7, <1>8 DEF KInv

\* What a change of the table that reaches LEB 0 leaves of the contents of the
\* volumes is what the operation says.
LEMMA HeldCommit ==
  ASSUME IInv, Plan, Held, On, On', NEW h \in Steps, Fits(h), Commit(h), op.k # "none",
         op' = op, tab' = h.d.t, told' = [s \in Vols |-> Says(s)],
         hurt' = (IF op.k \in {"create", "update"} THEN hurt \ {op.s} ELSE hurt),
         op.k = "create" => ~HasFlush(todo),
         \A s \in Vols, l \in Lnums :
           /\ eba'[s][l] = eba[s][l] /\ (eba[s][l] # None => peb'[eba[s][l]] = peb[eba[s][l]])
           /\ NoCopy(s, l) => NoCopy(s, l)'
  PROVE  Held'
<1>0. op.s \in Vols /\ op.k \in {"create", "remove", "update", "resize"}
  BY DEF Plan
<1>1. ASSUME NEW s \in Vols, Sound(s)', NEW l \in Lnums
      PROVE  /\ told'[s][l] = IF eba'[s][l] = None THEN Hole ELSE peb'[eba'[s][l]].d
             /\ eba'[s][l] = None => NoCopy(s, l)' \/ (op'.k = "update" /\ op'.s = s)
  <2>1. /\ eba'[s][l] = eba[s][l] /\ (eba[s][l] # None => peb'[eba[s][l]] = peb[eba[s][l]])
        /\ NoCopy(s, l) => NoCopy(s, l)'
    BY <1>1
  <2>2. told'[s] = Says(s) /\ h.d.t[s].size # 0 /\ ~h.d.t[s].upd /\ s \notin hurt'
    BY <1>1 DEF Sound
  <2>3. ASSUME Sound(s)
        PROVE  /\ told[s][l] = IF eba[s][l] = None THEN Hole ELSE peb[eba[s][l]].d
               /\ eba[s][l] = None => NoCopy(s, l) \/ (op.k = "update" /\ op.s = s)
    BY <1>1, <2>3 DEF Held
  <2>4. CASE s # op.s
    <3>1. Says(s) = told[s]
      BY <2>4 DEF Says
    <3>2. h.d.t[s] = tab[s]
      BY <2>4, <1>1 DEF Fits
    <3>3. Sound(s)
      BY <2>2, <2>4, <3>2 DEF Sound
    <3> QED BY <2>1, <2>2, <2>3, <2>4, <3>1, <3>3
  <2>5. CASE s = op.s /\ op.k = "update"
    <3>1. Says(s)[l] = IF eba[s][l] = None THEN Hole ELSE peb[eba[s][l]].d
      BY <1>1, <2>5 DEF Says
    <3> QED BY <2>1, <2>2, <2>5, <3>1
  <2>6. CASE s = op.s /\ op.k = "create"
    <3>1. Says(s)[l] = Hole
      BY <1>1, <2>6 DEF Says, NoContents
    <3>2. eba[s][l] = None /\ NoCopy(s, l)
      BY <1>1, <2>6 DEF Plan
    <3> QED BY <2>1, <2>2, <3>1, <3>2
  <2>7. CASE s = op.s /\ op.k = "remove"
    <3>1. h.d.t[op.s].size = 0
      BY <2>7 DEF Fits
    <3> QED BY <2>2, <2>7, <3>1
  <2>8. CASE s = op.s /\ op.k = "resize"
    <3>1. h.d.t[s].upd = tab[s].upd /\ tab[s].size # 0
      BY <2>8 DEF Fits, Plan
    <3>2. Sound(s) /\ Says(s) = told[s]
      BY <2>2, <2>8, <3>1 DEF Sound, Says
    <3> QED BY <2>1, <2>2, <2>3, <2>8, <3>2
  <2> QED BY <1>0, <2>4, <2>5, <2>6, <2>7, <2>8
<1> QED BY <1>1 DEF Held

\* What is written was unmapped before, and lies within its volume.
LEMMA WriteFits ==
  ASSUME IInv, Plan, On, todo # <<>>, NEW h, h = Head(todo), h.o = "write"
  PROVE  /\ h \in Steps /\ h.v \in 0 .. Slots /\ h.l \in Lnums /\ Fits(h) /\ op.k # "none"
         /\ eba[h.v][h.l] = None /\ (h.v \in Vols => h.v = op.s /\ h.l < vols[h.v].size)
         /\ Commit(h) /\ op.k = "create" => ~HasFlush(todo)
<1>1. todo \in Seq(Steps) /\ Ordered(op.k, op.s, todo) /\ RamOk /\ Layouts /\ op.k # "none"
  BY DEF RamOk, Plan, IInv
<1>2. h \in Steps /\ h \in ToSet(todo) /\ ToSet(todo) = {h} \cup ToSet(Tail(todo))
  BY <1>1, RestFacts
<1>3. Fits(h) /\ \A x \in ToSet(Tail(todo)) : Order(op.k, op.s, h, x)
  BY <1>1, <1>2, OrderedRest DEF Plan
<1>4. h.v \in 0 .. Slots /\ h.l \in Lnums
  BY <1>2 DEF Steps
<1>5. h.v \in Vols => Touch(h)
  BY UbiVolAssumption DEF Touch, Vols, Layout
<1>6. ASSUME Touch(h) PROVE eba[h.v][h.l] = None /\ h.v = op.s /\ h.l < vols[h.v].size
  <2>1. h.v = op.s /\ h.l < vols[op.s].size /\ (eba[op.s][h.l] = None \/ HasUnmap(todo, op.s, h.l))
    BY <1>3, <1>6 DEF Fits
  <2>2. ASSUME HasUnmap(todo, op.s, h.l) PROVE FALSE
    <3>1. PICK x \in ToSet(todo) : x.o = "unmap" /\ x.v = op.s
      BY <2>2 DEF HasUnmap
    <3>2. x # h /\ Touch(x)
      BY <1>6, <2>1, <3>1 DEF Touch
    <3>3. Order(op.k, op.s, h, x)
      BY <1>2, <1>3, <3>1, <3>2
    <3> QED BY <1>6, <3>1, <3>2, <3>3 DEF Order
  <2> QED BY <2>1, <2>2
<1>7. ASSUME ~Touch(h) PROVE eba[h.v][h.l] = None
  <2>1. h.v = Layout /\ h.l \in {0, 1}
    BY <1>3, <1>7 DEF Touch, Fits
  <2>2. Now = Stage(h)
    BY <1>1, AtHead
  <2>3. (h.l = 0 => Stage(h) = 3) /\ (h.l = 1 => Stage(h) = 5)
    BY <1>2, <2>1, StageIs
  <2> QED BY <1>1, <2>1, <2>2, <2>3 DEF Layouts
<1>8. Commit(h) /\ op.k = "create" => ~HasFlush(todo)
  <2> SUFFICES ASSUME Commit(h), op.k = "create", NEW x \in ToSet(todo), x.o = "flush" PROVE FALSE
    BY DEF HasFlush
  <2>1. x # h
    BY DEF Commit
  <2>2. Order(op.k, op.s, h, x)
    BY <1>2, <1>3, <2>1
  <2> QED BY <2>2 DEF Order
<1> QED BY <1>1, <1>2, <1>3, <1>4, <1>5, <1>6, <1>7, <1>8

LEMMA WriteKeeps == ASSUME IInv, IInv', KInv, WriteStep PROVE KInv'
<1>0. FlashOk /\ RamOk /\ RamOk' /\ Trees /\ Layouts /\ Plan /\ Owned /\ Held
  BY DEF IInv, KInv
<1>h. PICK h, v, l : h = Head(todo) /\ v = h.v /\ l = h.l
  OBVIOUS
<1>1. /\ On /\ On' /\ todo # <<>> /\ h.o = "write" /\ todo' = Tail(todo) /\ At("write") /\ free # {}
      /\ Commits(h) /\ UNCHANGED <<op, up, vols, works>>
  BY <1>h DEF WriteStep, At, Advance, On
<1>2. PICK p, x : /\ p \in Picks /\ x = Leb(v, l, sqnum, h.used, h.d)
                  /\ peb' = [peb EXCEPT ![p] = x] /\ eba' = [eba EXCEPT ![v][l] = p]
  BY <1>1, <1>h DEF WriteStep
<1>3. /\ h \in Steps /\ v \in 0 .. Slots /\ l \in Lnums /\ Fits(h) /\ op.k # "none"
      /\ eba[v][l] = None /\ (v \in Vols => v = op.s /\ l < vols[v].size)
      /\ Commit(h) /\ op.k = "create" => ~HasFlush(todo)
  BY <1>0, <1>1, <1>h, WriteFits
<1>4. /\ p \in Pebs /\ x.st = "leb" /\ x.v = v /\ x.l = l /\ \A a, b : ~IsCopy(p, a, b)
  <2>1. h.d \in Contents
    BY <1>1, <1>3 DEF Steps
  <2> QED BY <1>0, <1>1, <1>2, <1>h, <2>1, WritePuts
<1>5. /\ peb'[p] = x /\ \A q \in Pebs \ {p} : peb'[q] = peb[q]
      /\ \A a \in 0 .. Slots, b \in Lnums : eba'[a][b] = IF a = v /\ b = l THEN p ELSE eba[a][b]
  <2>1. peb'[p] = x /\ \A q \in Pebs \ {p} : peb'[q] = peb[q]
    BY <1>0, <1>2, <1>4 DEF FlashOk
  <2>2. eba \in EbaState
    BY <1>0 DEF RamOk
  <2> QED BY <1>2, <1>3, <2>1, <2>2 DEF EbaState
<1>6. /\ \A q \in Pebs : IsLeb(q)' <=> q = p \/ IsLeb(q)
      /\ \A q \in Pebs : \A a, b : IsCopy(q, a, b)' <=> (q = p /\ a = v /\ b = l) \/ IsCopy(q, a, b)
  BY <1>4, <1>5 DEF IsCopy, IsLeb
<1>7. ASSUME NEW a \in 0 .. Slots, NEW b \in Lnums, a # v \/ b # l
      PROVE  /\ eba'[a][b] = eba[a][b] /\ (eba[a][b] # None => peb'[eba[a][b]] = peb[eba[a][b]])
             /\ NoCopy(a, b) => NoCopy(a, b)'
  <2>1. eba[a][b] # None => IsCopy(eba[a][b], a, b) /\ eba[a][b] \in Pebs
    BY <1>0, <1>1, MappedIsFound DEF Newer
  <2>2. eba[a][b] # None => eba[a][b] # p
    BY <1>4, <2>1
  <2>3. NoCopy(a, b) => NoCopy(a, b)'
    BY <1>6, <1>7 DEF NoCopy
  <2> QED BY <1>5, <1>7, <2>1, <2>2, <2>3
<1>8. Vols \subseteq 0 .. Slots /\ Layout \notin Vols
  BY UbiVolAssumption DEF Vols, Layout
<1>9. IF Commit(h)
      THEN /\ tab' = h.d.t /\ told' = [s \in Vols |-> Says(s)]
           /\ hurt' = IF op.k \in {"create", "update"} THEN hurt \ {op.s} ELSE hurt
      ELSE tab' = tab /\ told' = told /\ hurt' = hurt
  BY <1>1 DEF Commits, Commit, hist
<1>10. Goes(h)
  <2>1. tab' = IF Commit(h) THEN h.d.t ELSE tab
    BY <1>9
  <2>2. vols' = IF h.o = "vol" THEN [vols EXCEPT ![h.s] = h.vol] ELSE vols
    BY <1>1
  <2>3. \E y \in Pebs : eba' = [eba EXCEPT ![h.v][h.l] = y]
    BY <1>2, <1>4, <1>h
  <2> QED BY <1>1, <1>h, <2>1, <2>2, <2>3 DEF Goes
<1>11. Plan'
  <2>1. ~Touch(h) => \A a \in Vols, b \in Lnums : NoCopy(a, b) => NoCopy(a, b)'
    <3>1. ~Touch(h) => v \notin Vols
      BY <1>1, <1>8, <1>h DEF Touch
    <3> QED BY <1>7, <1>8, <3>1
  <2>2. h.o # "flush"
    BY <1>1
  <2> QED BY <1>0, <1>10, <2>1, <2>2, PlanRest
<1>12. Owned'
  <2>1. ASSUME NEW q \in Pebs, IsLeb(q)' PROVE eba'[peb'[q].v][peb'[q].l] = q \/ q \in ToSet(works')
    <3>1. CASE q = p
      BY <1>3, <1>4, <1>5, <3>1
    <3>2. CASE q # p
      <4>1. IsLeb(q) /\ peb'[q] = peb[q]
        BY <1>5, <1>6, <2>1, <3>2
      <4>2. eba[peb[q].v][peb[q].l] = q \/ q \in ToSet(works)
        BY <1>0, <1>1, <4>1 DEF Owned
      <4>3. peb[q].v \in 0 .. Slots /\ peb[q].l \in Lnums /\ q # None
        BY <1>0, <4>1, LebFacts DEF Pebs, None
      <4> QED BY <1>1, <1>3, <1>5, <4>1, <4>2, <4>3
    <3> QED BY <3>1, <3>2
  <2>2. ASSUME NEW a \in Vols, NEW b \in Lnums, eba'[a][b] # None PROVE b < vols'[a].size
    <3>1. CASE a = v /\ b = l
      BY <1>1, <1>3, <3>1
    <3>2. CASE a # v \/ b # l
      <4>1. eba[a][b] # None
        BY <1>7, <1>8, <2>2, <3>2
      <4> QED BY <1>0, <1>1, <4>1 DEF Owned
    <3> QED BY <3>1, <3>2
  <2> QED BY <2>1, <2>2 DEF Owned
<1>13. Held'
  <2>1. CASE Commit(h)
    <3>1. v \notin Vols
      BY <1>8, <1>h, <2>1 DEF Commit
    <3>2. \A s \in Vols, b \in Lnums :
            /\ eba'[s][b] = eba[s][b] /\ (eba[s][b] # None => peb'[eba[s][b]] = peb[eba[s][b]])
            /\ NoCopy(s, b) => NoCopy(s, b)'
      BY <1>7, <1>8, <3>1
    <3>3. /\ op' = op /\ tab' = h.d.t /\ told' = [s \in Vols |-> Says(s)]
          /\ hurt' = (IF op.k \in {"create", "update"} THEN hurt \ {op.s} ELSE hurt)
          /\ op.k = "create" => ~HasFlush(todo)
      BY <1>1, <1>3, <1>9, <2>1
    <3> QED BY <1>0, <1>1, <1>3, <2>1, <3>2, <3>3, HeldCommit
  <2>2. CASE ~Commit(h)
    <3>1. ASSUME NEW s \in Vols, Sound(s), NEW b \in Lnums PROVE s # v \/ b # l
      <4>1. ASSUME s = v PROVE FALSE
        <5>1. Touch(h)
          BY <1>1, <1>8, <1>h, <3>1, <4>1 DEF Touch
        <5>2. s = op.s /\ Bad(tab, s)
          BY <1>0, <1>1, <1>h, <4>1, <5>1, TouchIsBad
        <5> QED BY <3>1, <5>2 DEF Sound, Bad
      <4> QED BY <4>1
    <3>2. \A s \in Vols : Sound(s) => \A b \in Lnums :
            /\ eba'[s][b] = eba[s][b] /\ (eba[s][b] # None => peb'[eba[s][b]] = peb[eba[s][b]])
            /\ NoCopy(s, b) => NoCopy(s, b)'
      BY <1>7, <1>8, <3>1
    <3>3. op' = op /\ tab' = tab /\ told' = told /\ hurt' = hurt
      BY <1>1, <1>9, <2>2
    <3> QED BY <1>0, <1>1, <3>2, <3>3, HeldRest
  <2> QED BY <2>1, <2>2
<1> QED BY <1>11, <1>12, <1>13 DEF KInv

(***************************************************************************)
(* What the volumes hold when a command starts.                            *)
(***************************************************************************)
\* A step of a change to the table t fits an operation that t is for.
LEMMA CalmFits ==
  ASSUME NEW t, NEW h, Calm(t, h), HasAuto(t), \A v \in Vols : v # op'.s => t[v] = tab'[v],
         op'.k = "remove" => t[op'.s].size = 0,
         op'.k = "resize" => t[op'.s].size # 0 /\ t[op'.s].upd = tab'[op'.s].upd
  PROVE  Fits(h)'
<1>1. ~Touch(h) /\ h.o # "vol" /\ (h.o = "write" /\ h.v = Layout => h.l \in {0, 1})
  BY DEF Calm, Touch
<1>2. Commit(h) => h.d.t = t
  BY Contradistinct DEF Calm, Commit
<1>3. HasAuto(h.d.t)' <=> HasAuto(h.d.t)
  BY DEF HasAuto
<1> QED BY <1>1, <1>2, <1>3 DEF Fits, Touch, Commit

LEMMA StartPlan ==
  ASSUME On', NEW s \in Vols, NEW k \in {"create", "remove", "update"}, NEW u, todo' = u,
         op'.k = k, op'.s = s, tab' = tab, HasAuto(tab), Ordered(k, s, u), \A h \in ToSet(u) : Fits(h)',
         HasTouch(u) => HasBad(u, s), \A v \in Vols : ~vols'[v].upd,
         k = "update" => HasFlush(u),
         k = "remove" => \A l \in Lnums : eba'[s][l] = None \/ HasUnmap(u, s, l),
         k = "create" => HasFlush(u) /\ \A l \in Lnums : eba'[s][l] = None
  PROVE  Plan'
BY DEF Plan, HasAuto, Ordered, Order, HasTouch, HasBad, HasFlush, HasUnmap, Bad, Touch, Commit

\* A command changes nothing of what the volumes hold.
LEMMA StartHeld ==
  ASSUME IInv, KInv, On, On', todo = <<>>, Plan', UNCHANGED <<peb, eba, works, tab, told, hurt>>,
         \A v \in Vols : vols'[v].size = vols[v].size
  PROVE  KInv'
<1>1. Plan /\ Owned /\ Held
  BY DEF KInv
<1>2. \A v, l : NoCopy(v, l)' <=> NoCopy(v, l)
  BY DEF NoCopy, IsCopy, IsLeb
<1>3. Owned'
  BY <1>1 DEF Owned, IsLeb
<1>4. ASSUME NEW s \in Vols, Sound(s), NEW l \in Lnums
      PROVE  /\ told[s][l] = IF eba[s][l] = None THEN Hole ELSE peb[eba[s][l]].d
             /\ eba[s][l] = None => NoCopy(s, l)
  <2>1. /\ told[s][l] = IF eba[s][l] = None THEN Hole ELSE peb[eba[s][l]].d
        /\ eba[s][l] = None => NoCopy(s, l) \/ (op.k = "update" /\ op.s = s)
    BY <1>1, <1>4 DEF Held
  <2>2. ~HasFlush(todo)
    BY DEF HasFlush, ToSet
  <2>3. op.k = "update" /\ op.s = s => (eba[s][l] = None => NoCopy(s, l))
    BY <1>1, <2>2 DEF Plan
  <2> QED BY <2>1, <2>3
<1>5. \A s : Sound(s)' <=> Sound(s)
  BY DEF Sound
<1>6. Held'
  BY <1>2, <1>4, <1>5 DEF Held
<1> QED BY <1>3, <1>6 DEF KInv

\* Between operations.
LEMMA IdleIs ==
  ASSUME IInv, Accounts, KInv, On, todo = <<>>
  PROVE  /\ Vtbls /\ vtbl = tab /\ tab \in Tables /\ HasAuto(tab) /\ vols \in [Vols -> VolState]
         /\ \A v \in Vols : vols[v].size = vtbl[v].size /\ ~vols[v].upd
         /\ \A v \in Vols, l \in Lnums : eba[v][l] # None => l < vols[v].size
<1>1. Vtbls /\ tab \in Tables /\ vols \in [Vols -> VolState]
  BY DEF IInv, RamOk, Vtbls
<1>2. vtbl = tab
  <2>1. Now = 0
    BY DEF Now
  <2> QED BY <2>1 DEF IInv, Layouts
<1>3. HasAuto(tab) /\ \A v \in Vols : ~vols[v].upd
  <2>1. \A v : ~HasClear(todo, v)
    BY DEF HasClear, ToSet
  <2> QED BY <1>1, <2>1 DEF KInv, Plan, VolState
<1>4. \A v \in Vols : vols[v].size = vtbl[v].size
  BY IdleBooks
<1>5. \A v \in Vols, l \in Lnums : eba[v][l] # None => l < vols[v].size
  BY DEF KInv, Owned
<1> QED BY <1>1, <1>2, <1>3, <1>4, <1>5

LEMMA CreateKeeps ==
  ASSUME IInv, Accounts, KInv, NEW n \in Sizes, n # 0, NEW type \in {"static", "dynamic"}, CreateVol(n, type)
  PROVE  KInv'
<1>1. PICK s \in Vols : vols[s] = NoVol /\ todo' = Make(s, n, type) /\ op' = [k |-> "create", s |-> s]
  BY DEF CreateVol, Start
<1>2. On /\ On' /\ todo = <<>> /\ UNCHANGED <<peb, vols, eba, works, tab, told, hurt>>
  BY DEF CreateVol, Ready, On, hist
<1>3. /\ Vtbls /\ vtbl = tab /\ tab \in Tables /\ HasAuto(tab)
      /\ \A v \in Vols : vols[v].size = vtbl[v].size /\ ~vols[v].upd
      /\ \A v \in Vols, l \in Lnums : eba[v][l] # None => l < vols[v].size
  BY <1>2, IdleIs
<1>4. PICK u, t : u = todo' /\ u = Make(s, n, type) /\ t = [vtbl EXCEPT ![s] = Rec(n, type, FALSE)]
  BY <1>1
<1>5. /\ u \in Seq(Steps) /\ Ordered("create", s, u) /\ HasFlush(u)
      /\ \A h \in ToSet(u) : Makes(t, s, n, h)
      /\ t \in Tables /\ ~t[s].auto /\ \A v \in Vols : v # s => t[v] = vtbl[v]
  <2>1. Vtbls /\ n \in Sizes /\ n # 0 /\ type \in Types
    BY <1>3 DEF Types
  <2>2. u = Make(s, n, type) /\ t = [vtbl EXCEPT ![s] = Rec(n, type, FALSE)]
    BY <1>4
  <2>3. u \in Seq(Steps) /\ Ordered("create", s, u) /\ HasFlush(u)
    BY <2>1, <2>2, MakeIs, Zenon
  <2>4. \A h \in ToSet(u) : Makes(t, s, n, h)
    BY <2>1, <2>2, MakeIs, Zenon
  <2>5. t \in Tables /\ ~t[s].auto /\ \A v \in Vols : v # s => t[v] = vtbl[v]
    <3>1. Rec(n, type, FALSE) \in [size : Sizes, type : Types, upd : BOOLEAN, auto : BOOLEAN] /\ ~Rec(n, type, FALSE).auto
      BY <2>1 DEF Rec
    <3> QED BY <2>1, <2>2, <3>1 DEF Vtbls, Tables
  <2> QED BY <2>3, <2>4, <2>5
<1>6. op'.k = "create" /\ op'.s = s /\ tab' = tab /\ vols' = vols /\ eba' = eba
  BY <1>1, <1>2
<1>7. vols[s].size = 0 /\ n >= 0
  BY <1>1, SizesNat DEF NoVol
<1>8. \A h \in ToSet(u) : ~Touch(h)
  BY <1>5 DEF Makes, Touch, Calm, Resets
<1>9. ASSUME NEW h \in ToSet(u) PROVE Fits(h)'
  <2>1. CASE h.o = "flush"
    BY <2>1 DEF Fits, Touch, Commit
  <2>2. CASE Calm(t, h)
    <3>1. HasAuto(t) /\ \A v \in Vols : v # op'.s => t[v] = tab'[v]
      BY <1>3, <1>5, <1>6 DEF HasAuto
    <3> QED BY <1>6, <2>2, <3>1, CalmFits
  <2>3. CASE Resets(s, n, h) /\ ~h.vol.upd
    BY <1>6, <1>7, <2>3 DEF Fits, Touch, Commit, Resets
  <2> QED BY <1>5, <2>1, <2>2, <2>3 DEF Makes
<1>10. \A l \in Lnums : eba'[s][l] = None
  <2> SUFFICES ASSUME NEW l \in Lnums, eba[s][l] # None PROVE FALSE
    BY <1>6
  <2>1. l < 0 /\ l \in Nat
    BY <1>3, <1>7, UbiVolAssumption DEF Lnums
  <2> QED BY <2>1
<1>11. Plan'
  <2>1. ~HasTouch(u) /\ todo' = u /\ \A v \in Vols : ~vols'[v].upd
    BY <1>3, <1>4, <1>6, <1>8 DEF HasTouch
  <2> QED BY <1>2, <1>3, <1>5, <1>6, <1>9, <1>10, <2>1, StartPlan
<1>12. \A v \in Vols : vols'[v].size = vols[v].size
  BY <1>6
<1> QED BY <1>2, <1>11, <1>12, StartHeld

LEMMA RemoveKeeps ==
  ASSUME IInv, Accounts, KInv, NEW s \in Vols, RemoveVol(s)
  PROVE  KInv'
<1>1. todo' = Unmake(s) /\ op' = [k |-> "remove", s |-> s]
  BY DEF RemoveVol, Start
<1>2. On /\ On' /\ todo = <<>> /\ UNCHANGED <<peb, vols, eba, works, tab, told, hurt>>
  BY DEF RemoveVol, Ready, On, hist
<1>3. /\ Vtbls /\ vtbl = tab /\ tab \in Tables /\ HasAuto(tab)
      /\ \A v \in Vols : vols[v].size = vtbl[v].size /\ ~vols[v].upd
      /\ \A v \in Vols, l \in Lnums : eba[v][l] # None => l < vols[v].size
  BY <1>2, IdleIs
<1>4. PICK u, t : u = todo' /\ u = Unmake(s) /\ t = [vtbl EXCEPT ![s] = NoRec]
  BY <1>1
<1>5. /\ u \in Seq(Steps) /\ Ordered("remove", s, u) /\ HasBad(u, s)
      /\ \A h \in ToSet(u) : Unmakes(t, s, h)
      /\ \A l \in Lnums : l < vols[s].size => HasUnmap(u, s, l)
      /\ t \in Tables /\ ~t[s].auto /\ t[s].size = 0 /\ \A v \in Vols : v # s => t[v] = vtbl[v]
  <2>1. Vtbls /\ u = Unmake(s) /\ t = [vtbl EXCEPT ![s] = NoRec]
    BY <1>3, <1>4
  <2>2. u \in Seq(Steps) /\ Ordered("remove", s, u) /\ HasBad(u, s)
    BY <2>1, UnmakeIs, Zenon
  <2>3. /\ \A h \in ToSet(u) : Unmakes(t, s, h)
        /\ \A l \in Lnums : l < vols[s].size => HasUnmap(u, s, l)
    BY <2>1, UnmakeIs, Zenon
  <2>4. t \in Tables /\ ~t[s].auto /\ t[s].size = 0 /\ \A v \in Vols : v # s => t[v] = vtbl[v]
    BY <2>1, UnmakeIs, Zenon
  <2> QED BY <2>2, <2>3, <2>4
<1>6. op'.k = "remove" /\ op'.s = s /\ tab' = tab /\ vols' = vols /\ eba' = eba
  BY <1>1, <1>2
<1>7. ASSUME NEW h \in ToSet(u) PROVE Fits(h)'
  <2>1. CASE Calm(t, h)
    <3>1. HasAuto(t) /\ \A v \in Vols : v # op'.s => t[v] = tab'[v]
      BY <1>3, <1>5, <1>6 DEF HasAuto
    <3> QED BY <1>5, <1>6, <2>1, <3>1, CalmFits
  <2>2. CASE Frees(s, h) \/ h.o = "back"
    BY <1>6, <2>2 DEF Fits, Touch, Commit, Frees
  <2>3. CASE Resets(s, 0, h) /\ ~h.vol.upd
    BY <1>6, <2>3 DEF Fits, Touch, Commit, Resets
  <2> QED BY <1>5, <2>1, <2>2, <2>3 DEF Unmakes
<1>8. \A l \in Lnums : eba'[s][l] = None \/ HasUnmap(u, s, l)
  BY <1>3, <1>5, <1>6
<1>9. Plan'
  <2>1. todo' = u /\ \A v \in Vols : ~vols'[v].upd
    BY <1>3, <1>4, <1>6
  <2> QED BY <1>2, <1>3, <1>5, <1>6, <1>7, <1>8, <2>1, StartPlan
<1>10. \A v \in Vols : vols'[v].size = vols[v].size
  BY <1>6
<1> QED BY <1>2, <1>9, <1>10, StartHeld

LEMMA UpdateKeeps ==
  ASSUME IInv, Accounts, KInv, NEW s \in Vols, NEW n \in Sizes, WriteVol(s, n)
  PROVE  KInv'
<1>1. /\ todo' = Update(s, n) /\ op' = [k |-> "update", s |-> s] /\ n <= vols[s].size
      /\ vols' = [vols EXCEPT ![s].updating = TRUE]
  BY DEF WriteVol, Start
<1>2. On /\ On' /\ todo = <<>> /\ UNCHANGED <<peb, eba, works, tab, told, hurt>>
  BY DEF WriteVol, Ready, On, hist
<1>3. /\ Vtbls /\ vtbl = tab /\ tab \in Tables /\ HasAuto(tab) /\ vols \in [Vols -> VolState]
      /\ \A v \in Vols : vols[v].size = vtbl[v].size /\ ~vols[v].upd
  BY <1>2, IdleIs
<1>4. \A v \in Vols : vols'[v].size = vols[v].size /\ ~vols'[v].upd
  BY <1>1, <1>3 DEF VolState
<1>5. PICK u : u = todo' /\ u = Update(s, n)
  BY <1>1
<1>6. /\ u \in Seq(Steps) /\ Ordered("update", s, u) /\ \A h \in ToSet(u) : Updates(s, h)
      /\ HasFlush(u) /\ HasBad(u, s) /\ HasClear(u, s)
      /\ \A l \in Lnums : l < vols[s].size => HasUnmap(u, s, l)
  BY <1>1, <1>3, <1>5, UpdateIs
<1>7. op'.k = "update" /\ op'.s = s /\ tab' = tab /\ eba' = eba /\ todo' = u /\ vols'[s].size = vols[s].size
  BY <1>1, <1>2, <1>4, <1>5
<1>8. ASSUME NEW b \in BOOLEAN, NEW h, Calm(Marked(s, b), h) PROVE Fits(h)'
  <2>1. PICK t : t = Marked(s, b)
    OBVIOUS
  <2>2. t[s].auto = vtbl[s].auto /\ t[s].size = vtbl[s].size /\ \A v \in Vols : v # s => t[v] = vtbl[v]
    BY <1>3, <2>1, MarkedIs
  <2>3. HasAuto(t) /\ \A v \in Vols : v # op'.s => t[v] = tab'[v]
    BY <1>3, <1>7, <2>2 DEF HasAuto
  <2>4. Calm(t, h)
    BY <1>8, <2>1
  <2> QED BY <1>7, <2>3, <2>4, CalmFits
<1>9. vols[s].size \in Nat /\ s # Layout
  <2>1. vols[s] \in VolState
    BY <1>3
  <2>2. s # Layout
    BY UbiVolAssumption DEF Vols, Layout
  <2> QED BY <2>1, <2>2, SizesNat DEF VolState
<1>10. ASSUME NEW h \in ToSet(u) PROVE Fits(h)'
  <2>1. CASE Calm(Marked(s, TRUE), h) \/ Calm(Marked(s, FALSE), h)
    BY <1>8, <2>1
  <2>2. CASE Resets(s, vols[s].size, h)
    <3>1. h.o = "vol" /\ h.s = s /\ h.vol.size >= vols'[s].size
      BY <1>7, <1>9, <2>2 DEF Resets
    <3>2. HasClear(todo', op'.s)
      BY <1>6, <1>7
    <3>3. HasClear(todo, op.s)'
      BY <3>2 DEF HasClear
    <3> QED BY <1>7, <3>1, <3>3 DEF Fits, Touch, Commit
  <2>3. CASE Frees(s, h) \/ h.o = "flush"
    BY <1>7, <2>3 DEF Fits, Touch, Commit, Frees
  <2>4. CASE Fills(s, h)
    <3>1. h.o = "write" /\ h.v = s /\ h.l \in 0 .. vols[s].size - 1
      BY <2>4 DEF Fills
    <3>2. h.l < vols[s].size /\ h.l \in Lnums
      <4>1. h.l < vols[s].size
        BY <1>9, <3>1
      <4>2. vols[s].size \in 0 .. MaxLebs
        BY <1>3 DEF VolState, Sizes
      <4> QED BY <3>1, <4>1, <4>2, UbiVolAssumption DEF Lnums
    <3>3. HasUnmap(todo', s, h.l)
      BY <1>6, <1>7, <3>2
    <3>4. HasUnmap(todo, op.s, h.l)'
      BY <1>7, <3>3 DEF HasUnmap
    <3> QED BY <1>7, <1>9, <3>1, <3>2, <3>4 DEF Fits, Touch, Commit
  <2> QED BY <1>6, <2>1, <2>2, <2>3, <2>4 DEF Updates, Begins, Ends
<1>11. Plan'
  <2>1. \A v \in Vols : ~vols'[v].upd
    BY <1>4
  <2> QED BY <1>2, <1>3, <1>6, <1>7, <1>10, <2>1, StartPlan
<1>12. \A v \in Vols : vols'[v].size = vols[v].size
  BY <1>4
<1> QED BY <1>2, <1>11, <1>12, StartHeld

LEMMA CommandHolds == ASSUME IInv, Accounts, KInv, Command PROVE KInv'
<1>1. PICK s \in Vols, n \in 0 .. MaxLebs :
        \/ n > 0 /\ \E type \in {"static", "dynamic"} : CreateVol(n, type)
        \/ RemoveVol(s)
        \/ WriteVol(s, n)
  BY DEF Command
<1>2. n \in Sizes
  BY DEF Sizes
<1>3. CASE n > 0 /\ \E type \in {"static", "dynamic"} : CreateVol(n, type)
  <2>1. n # 0
    BY <1>3
  <2> QED BY <1>2, <1>3, <2>1, CreateKeeps
<1> QED BY <1>1, <1>2, <1>3, RemoveKeeps, UpdateKeeps

(***************************************************************************)
(* What the volumes hold after an attach.                                  *)
(***************************************************************************)
\* Without an operation there is nothing to plan.
LEMMA QuietPlan ==
  ASSUME op'.k = "none", todo' = <<>>, HasAuto(tab'), \A v \in Vols : ~vols'[v].upd
  PROVE  Plan'
<1>1. ToSet(<<>>) = {} /\ DOMAIN <<>> = {}
  BY DEF ToSet
<1>2. HasAuto(tab)' <=> HasAuto(tab')
  BY DEF HasAuto
<1>3. ~HasTouch(todo)' /\ Ordered(op.k, op.s, todo)' /\ \A h \in ToSet(todo') : Fits(h)'
  <2>1. ~HasTouch(todo)'
    BY <1>1 DEF HasTouch, Touch
  <2>2. Ordered(op.k, op.s, todo)'
    BY <1>1 DEF Ordered
  <2> QED BY <1>1, <2>1, <2>2
<1> QED BY <1>2, <1>3 DEF Plan

\* What a scan has found of a volume it has seen.
Seen(s) == \A v \in 0 .. Slots, l \in Lnums : s.leb[v][l] # None => v \in s.seen

LEMMA SeenNext ==
  ASSUME FlashOk, NEW s \in ScanState, Seen(s), NEW p \in Pebs
  PROVE  Seen(ProcessEb(s, p))
<1>1. CASE peb[p].st \in {"blank", "free", "corrupt"}
  <2>1. ProcessEb(s, p).leb = s.leb /\ ProcessEb(s, p).seen = s.seen
    BY <1>1 DEF ProcessEb, ScanState
  <2> QED BY <2>1 DEF Seen
<1>2. CASE IsLeb(p)
  <2>1. PICK v, l, q, r : v = peb[p].v /\ l = peb[p].l /\ q = s.leb[v][l] /\ r = AddUsed(s, p)
    OBVIOUS
  <2>2. ProcessEb(s, p) = r
    BY <1>2, <2>1 DEF ProcessEb, IsLeb
  <2>3. v \in 0 .. Slots /\ l \in Lnums
    BY <1>2, <2>1, LebFacts
  <2>4. r.leb = s.leb \/ r.leb = [s.leb EXCEPT ![v][l] = p]
    BY <1>2, <2>1, AddUsedIs
  <2>5. r.seen = s.seen \cup {v}
    BY <2>1, <2>3 DEF AddUsed, ScanState
  <2>6. s.leb \in EbaState
    BY DEF ScanState
  <2>7. \A a \in 0 .. Slots, b \in Lnums : r.leb[a][b] = s.leb[a][b] \/ a = v
    BY <2>3, <2>4, <2>6 DEF EbaState
  <2> QED BY <2>2, <2>5, <2>7 DEF Seen
<1>3. peb[p].st \in {"blank", "free", "corrupt"} \/ IsLeb(p)
  <2>1. peb[p] \in PebState
    BY DEF FlashOk
  <2> QED BY <2>1 DEF PebState, Blank, Free, Corrupt, IsLeb
<1> QED BY <1>1, <1>2, <1>3

LEMMA ScanSees == ASSUME FlashOk PROVE Seen(Scan)
<1> DEFINE S == {n \in 0 .. NumPebs : ScanOk(Scanned[n], n) /\ Seen(Scanned[n])}
<1>0. NumPebs \in Nat /\ 0 \in 0 .. NumPebs
  BY UbiVolAssumption
<1>1. 0 \in S
  <2>1. Seen(ScanInit)
    BY DEF Seen, ScanInit
  <2> QED BY <1>0, <2>1, ScannedStep, ScanStart
<1>2. ASSUME NEW n \in 1 .. NumPebs, n - 1 \in S PROVE n \in S
  <2>1. n \in Pebs /\ n \in 0 .. NumPebs
    BY <1>0 DEF Pebs
  <2>2. ScanOk(ProcessEb(Scanned[n - 1], n), n)
    BY <1>2, <2>1, ScanProcess
  <2>3. Seen(ProcessEb(Scanned[n - 1], n))
    BY <1>2, <2>1, SeenNext DEF ScanOk
  <2> QED BY <2>1, <2>2, <2>3, ScannedStep
<1> HIDE DEF S
<1>3. \A i \in 0 .. NumPebs : i \in S
  BY <1>0, <1>1, <1>2, UpTo
<1>4. NumPebs \in S
  BY <1>0, <1>3
<1> QED BY <1>4 DEF S, Scan

\* What an attach leaves to an auto-resized volume.
LEMMA LeftIs ==
  ASSUME Accounts, tab \in Tables, NEW v \in Vols, NEW left, left = NumPebs - 2 - Reserved(tab),
         NEW level, level = IF left - 2 < Level THEN left - 2 ELSE Level,
         NEW n, n = tab[v].size + left - 2 - level
  PROVE  n \in Sizes /\ n \in Nat /\ tab[v].size \in Nat /\ n >= tab[v].size
<1>1. PICK z, k : z = Reserved(tab) /\ k = tab[v].size
  OBVIOUS
<1>2. z \in Nat /\ k <= z /\ z + 4 <= NumPebs
  BY <1>1, ReservedIs DEF Accounts
<1>3. k \in Nat /\ k <= MaxLebs
  BY <1>1, UbiVolAssumption DEF Tables, Sizes
<1>4. left = NumPebs - 2 - z /\ n = k + left - 2 - level
  BY <1>1
<1>5. NumPebs \in Nat /\ Level \in Nat /\ MaxLebs \in Nat /\ MaxLebs >= NumPebs - 4 - Level
  BY UbiVolAssumption
<1>6. CASE left - 2 < Level
  <2>1. left \in Int /\ level = left - 2
    BY <1>2, <1>4, <1>5, <1>6
  <2>2. n = k
    BY <1>3, <1>4, <2>1
  <2> QED BY <1>1, <1>3, <1>5, <2>2 DEF Sizes
<1>7. CASE ~(left - 2 < Level)
  <2>1. n = k + (NumPebs - 2 - z) - 2 - Level
    BY <1>4, <1>7
  <2>2. n <= NumPebs - 4 - Level /\ n \in Nat /\ n >= k
    BY <1>2, <1>3, <1>4, <1>5, <1>7, <2>1
  <2> QED BY <1>1, <1>3, <1>5, <2>2 DEF Sizes
<1> QED BY <1>6, <1>7

\* While the system is down only the table changes.
LEMMA OffHolds ==
  ASSUME KInv, ~On, ~On', UNCHANGED <<vols, op, todo, tab, told, hurt>>,
         \A v \in Vols, l \in Lnums : Found(v, l)' = Found(v, l)
  PROVE  KInv'
<1>1. op.k = "none" /\ todo = <<>> /\ Plan /\ Held
  BY DEF KInv, Plan
<1>2. \A v \in Vols : ~vols[v].upd
  <2>1. \A v : ~HasClear(todo, v)
    BY <1>1 DEF HasClear, ToSet
  <2> QED BY <1>1, <2>1 DEF Plan
<1>3. Plan'
  BY <1>1, <1>2, QuietPlan DEF Plan
<1>4. Held'
  BY <1>1 DEF Held, Sound
<1> QED BY <1>3, <1>4 DEF KInv, Owned

\* An attach that goes wrong leaves everything as it was.
LEMMA FailHolds ==
  ASSUME KInv, up = "off", up' = "failed", UNCHANGED <<peb, ram, tab, told, hurt>>
  PROVE  KInv'
<1>1. ~On /\ ~On' /\ UNCHANGED <<vols, op, todo, tab, told, hurt>>
  BY DEF On, ram
<1>2. \A v \in Vols, l \in Lnums : Found(v, l)' = Found(v, l)
  BY FlashSame
<1> QED BY <1>1, <1>2, OffHolds

LEMMA AttachHolds == ASSUME IInv, IInv', Accounts, KInv, Attach PROVE KInv'
<1>0. /\ FlashOk /\ RamOk /\ TableKept /\ Unformatted /\ formatted \in BOOLEAN /\ tab \in Tables
      /\ RamOk' /\ FlashOk' /\ Plan /\ Held
  BY DEF IInv, RamOk, KInv
<1>1. PICK s, t, left, level, resize, v0, n :
        /\ s = Scan /\ t = Copy(s, 0).t /\ left = NumPebs - 2 - Reserved(t)
        /\ level = IF left - 2 < Level THEN left - 2 ELSE Level
        /\ resize = {v \in Vols : t[v].auto} /\ v0 = CHOOSE v \in resize : TRUE
        /\ n = t[v0].size + left - 2 - level
  OBVIOUS
<1>2. /\ up = "off" /\ ~On /\ todo = <<>> /\ op.k = "none"
      /\ UNCHANGED <<peb, tab, told, hurt>>
  BY <1>0 DEF Attach, RamOk, On, Plan, hist
<1>3. up' = "failed" => KInv'
  <2>1. up' = "failed" => UNCHANGED ram
    BY DEF Attach
  <2> QED BY <1>2, <2>1, FailHolds
<1>4. CASE up' # "failed"
  <2>1. /\ ToRestore(s) = Nothing /\ Copy(s, 0) # Torn /\ On'
        /\ \A v \in Vols : Consistent(s, t[v], v)
        /\ vols' = [v \in Vols |-> InitVol(s, t[v], v)]
        /\ eba' = [v \in 0 .. Slots |-> IF v # Layout /\ t[v].size = 0 THEN ScanInit.leb[v] ELSE s.leb[v]]
        /\ works' = s.erase \o SetToSeq(Removed(s, t)) \o s.corr
        /\ resize = {} => todo' = todo /\ op' = op
        /\ resize # {} => todo' = Grow(t, v0, vols'[v0], n) /\ op' = [k |-> "resize", s |-> v0]
    BY <1>1, <1>4 DEF Attach, Start, On
  <2>2. t = tab /\ t \in Tables /\ HasAuto(tab)
    <3>1. Copy(s, 0) = Table(tab)
      <4>1. ToRestore(s) = Nothing /\ Copy(s, 0) # Torn /\ s = Scan
        BY <1>1, <2>1
      <4> QED BY <1>0, <4>1, RestoreIs
    <3> QED BY <1>0, <1>1, <3>1, Contradistinct DEF Plan
  <2>3. \A v \in Vols : vols'[v].size = t[v].size /\ ~vols'[v].upd
    <3> TAKE v \in Vols
    <3>1. vols'[v] = InitVol(s, t[v], v)
      BY <2>1
    <3>2. InitVol(s, t[v], v).size = t[v].size /\ ~InitVol(s, t[v], v).upd
      BY DEF InitVol, NoVol
    <3> QED BY <3>1, <3>2
  <2>4. /\ ScanTable(s, Pebs) /\ Seen(s) /\ s.leb \in EbaState
        /\ ToSet(works') = ToSet(s.erase) \cup Removed(s, t) \cup ToSet(s.corr)
    <3>1. s \in ScanState /\ ScanTable(s, Pebs) /\ Seen(s)
      BY <1>0, <1>1, ScanHolds, ScanSees DEF ScanOk, Pebs
    <3>2. ToSet(works') = ToSet(s.erase) \cup Removed(s, t) \cup ToSet(s.corr)
      BY <1>0, <1>1, <2>1, <2>2, AttachList
    <3> QED BY <3>1, <3>2 DEF ScanState
  <2>5. Vols \subseteq 0 .. Slots /\ Layout \notin Vols
    BY UbiVolAssumption DEF Vols, Layout
  <2>6. \A v \in 0 .. Slots, l \in Lnums :
          eba'[v][l] = IF v # Layout /\ t[v].size = 0 THEN None ELSE s.leb[v][l]
    <3>1. \A v \in 0 .. Slots, l \in Lnums : ScanInit.leb[v][l] = None
      BY DEF ScanInit
    <3> QED BY <2>1, <3>1
  <2>7. Owned'
    <3>1. ASSUME NEW p \in Pebs, IsLeb(p) PROVE eba'[peb[p].v][peb[p].l] = p \/ p \in ToSet(works')
      <4>1. PICK v, l : v = peb[p].v /\ l = peb[p].l
        OBVIOUS
      <4>2. v \in 0 .. Slots /\ l \in Lnums /\ p # None
        BY <1>0, <3>1, <4>1, LebFacts DEF Pebs, None
      <4>3. s.leb[v][l] = p \/ p \in ToSet(s.erase)
        BY <2>4, <3>1, <4>1 DEF ScanTable
      <4>4. ASSUME s.leb[v][l] = p, v # Layout, t[v].size = 0 PROVE p \in Removed(s, t)
        <5>1. v \in {x \in Vols : t[x].size = 0}
          BY <4>2, <4>4, UbiVolAssumption DEF Vols, Layout
        <5> QED BY <4>2, <4>4, <5>1 DEF Removed
      <4> QED BY <2>4, <2>6, <4>1, <4>2, <4>3, <4>4
    <3>2. ASSUME NEW v \in Vols, NEW l \in Lnums, eba'[v][l] # None PROVE l < vols'[v].size
      <4>1. v \in 0 .. Slots /\ s.leb[v][l] # None /\ t[v].size # 0
        BY <2>5, <2>6, <3>2
      <4>2. v \in s.seen
        BY <2>4, <4>1 DEF Seen
      <4>3. l < t[v].size
        BY <2>1, <3>2, <4>1, <4>2 DEF Consistent
      <4> QED BY <2>3, <4>3
    <3> QED BY <1>2, <3>1, <3>2 DEF Owned, IsLeb
  <2>8. Held'
    <3>1. ASSUME NEW v \in Vols, Sound(v), NEW l \in Lnums
          PROVE  /\ told[v][l] = IF eba'[v][l] = None THEN Hole ELSE peb[eba'[v][l]].d
                 /\ eba'[v][l] = None => NoCopy(v, l)
      <4>1. eba'[v][l] = s.leb[v][l] /\ v \in 0 .. Slots
        BY <2>2, <2>5, <2>6, <3>1 DEF Sound
      <4>2. Found(v, l) = told[v][l]
        BY <1>0, <1>2, <3>1 DEF Held
      <4>3. PICK q : q = s.leb[v][l] /\ q = Scan.leb[v][l]
        BY <1>1
      <4>4. /\ q = None => Found(v, l) = Hole
            /\ q # None => Found(v, l) = peb[q].d
        BY <1>0, <4>1, <4>3, ScanFinds
      <4>5. Found(v, l) = Hole => NoCopy(v, l)
        BY <1>0, FoundIs DEF NoCopy
      <4> QED BY <4>1, <4>2, <4>3, <4>4, <4>5
    <3>2. \A v, l : NoCopy(v, l)' <=> NoCopy(v, l)
      BY <1>2 DEF NoCopy, IsCopy, IsLeb
    <3>3. \A v : Sound(v)' <=> Sound(v)
      BY <1>2 DEF Sound
    <3> QED BY <1>2, <2>1, <3>1, <3>2, <3>3 DEF Held
  <2>9. CASE resize = {}
    <3>1. op'.k = "none" /\ todo' = <<>> /\ HasAuto(tab')
      BY <1>2, <2>1, <2>2, <2>9
    <3>2. Plan'
      BY <2>3, <3>1, QuietPlan
    <3> QED BY <2>7, <2>8, <3>2 DEF KInv
  <2>10. CASE resize # {}
    <3>1. PICK vol, u, G : vol = vols'[v0] /\ u = Grow(t, v0, vol, n) /\ G = Grown(t, v0, n)
      OBVIOUS
    <3>2. v0 \in Vols /\ t[v0].auto /\ t[v0].size # 0
      <4>1. v0 \in resize
        BY <1>1, <2>10
      <4>2. v0 \in Vols /\ t[v0].auto
        BY <1>1, <4>1
      <4>3. \A v \in Vols : t[v].auto => t[v].size # 0
        BY <2>2 DEF HasAuto
      <4> QED BY <4>2, <4>3
    <3>3. n \in Sizes /\ n \in Nat /\ t[v0].size \in Nat /\ n >= t[v0].size
      <4>1. left = NumPebs - 2 - Reserved(tab) /\ n = tab[v0].size + left - 2 - level
        BY <1>1, <2>2
      <4> QED BY <1>0, <1>1, <2>2, <3>2, <4>1, LeftIs
    <3>4. vol \in VolState /\ ~vol.upd
      BY <1>0, <2>3, <3>1, <3>2 DEF RamOk
    <3>5. /\ u \in Seq(Steps) /\ Ordered("resize", v0, u)
          /\ \A h \in ToSet(u) : Calm(G, h) \/ (Resets(v0, n, h) /\ ~h.vol.upd)
          /\ G \in Tables /\ ~G[v0].auto /\ G[v0].size = n /\ G[v0].upd = t[v0].upd
          /\ \A v \in Vols : v # v0 => G[v] = t[v]
      BY <2>2, <3>1, <3>2, <3>3, <3>4, GrowIs
    <3>6. op'.k = "resize" /\ op'.s = v0 /\ todo' = u /\ tab' = t /\ vols'[v0].size = t[v0].size
      BY <1>2, <2>1, <2>2, <2>3, <2>10, <3>1, <3>2
    <3>7. ASSUME NEW h \in ToSet(u) PROVE Fits(h)'
      <4>1. CASE Calm(G, h)
        <5>1. HasAuto(G)
          BY <2>2, <3>5 DEF HasAuto
        <5>2. /\ \A v \in Vols : v # op'.s => G[v] = tab'[v]
              /\ G[op'.s].size # 0 /\ G[op'.s].upd = tab'[op'.s].upd
          BY <3>2, <3>3, <3>5, <3>6
        <5> QED BY <3>6, <4>1, <5>1, <5>2, CalmFits
      <4>2. CASE Resets(v0, n, h) /\ ~h.vol.upd
        BY <3>3, <3>6, <4>2 DEF Fits, Touch, Commit, Resets
      <4> QED BY <3>5, <4>1, <4>2
    <3>8. \A h \in ToSet(u) : ~Touch(h)
      BY <3>5 DEF Touch, Calm, Resets
    <3>9. Plan'
      <4>1. /\ HasAuto(tab') /\ tab'[op'.s].size # 0 /\ On'
        BY <2>1, <2>2, <3>2, <3>6
      <4>2. ~HasTouch(todo)'
        BY <3>6, <3>8 DEF HasTouch, Touch
      <4>3. Ordered(op.k, op.s, todo)'
        BY <3>5, <3>6 DEF Ordered, Order, Commit, Touch, Bad
      <4>4. HasAuto(tab)'
        BY <4>1 DEF HasAuto
      <4> QED BY <2>3, <3>2, <3>6, <3>7, <4>1, <4>2, <4>3, <4>4 DEF Plan
    <3> QED BY <2>7, <2>8, <3>9 DEF KInv
  <2> QED BY <2>9, <2>10
<1> QED BY <1>3, <1>4

(***************************************************************************)
(* What the volumes hold through a repair of the table and a power loss.   *)
(***************************************************************************)
\* A repair of the table changes nothing of what is found of the volumes.
LEMMA RestoreFinds ==
  ASSUME IInv, Restore
  PROVE  \A v \in Vols, l \in Lnums : Found(v, l)' = Found(v, l)
<1>0. FlashOk /\ RamOk /\ TableKept /\ Unformatted /\ formatted \in BOOLEAN
  BY DEF IInv, RamOk
<1>1. PICK r, p, w :
        /\ r = ToRestore(Scan) /\ w = Leb(Layout, r.i, MaxSq + 1, 0, r.d)
        /\ p = IF Scan.free # {} THEN Min(Scan.free)
               ELSE IF Scan.erase # <<>> THEN Head(Scan.erase) ELSE Head(Scan.corr)
  OBVIOUS
<1>2. /\ r # Nothing /\ Spare(Scan) # {}
      /\ \/ peb' = [peb EXCEPT ![p] = w]
         \/ \E x \in {Free, Corrupt, [w EXCEPT !.d = Torn]} : peb' = [peb EXCEPT ![p] = x]
  BY <1>1 DEF Restore
<1>3. p \in Pebs /\ \A v, l : ~Newer(v, l, p)
  <2>1. p \in Spare(Scan)
    BY <1>0, <1>1, <1>2, SparePicked
  <2> QED BY <1>0, <2>1, SpareIs
<1>4. r.i \in Lnums /\ Layout \in 0 .. Slots /\ r.d \in Contents /\ Torn \in Contents
  <2>1. r.i \in {0, 1} /\ r.d = Table(tab)
    BY <1>0, <1>1, <1>2, RestoreIs
  <2> QED BY <1>0, <2>1, Lebs DEF Contents, Table, RamOk
<1>5. MaxSq \in Nat /\ \A q \in Pebs : IsLeb(q) => peb[q].sq < MaxSq + 1
  <2>1. MaxSq \in Nat /\ \A q \in Pebs : IsLeb(q) => peb[q].sq <= MaxSq /\ peb[q].sq \in Nat
    BY <1>0, MaxSqIs, LebFacts
  <2> QED BY <2>1
<1>6. PICK x : peb' = [peb EXCEPT ![p] = x] /\ x \in {Free, Corrupt, w, [w EXCEPT !.d = Torn]}
  BY <1>2
<1>7. x \in PebState /\ (x.st = "leb" => x.v = Layout /\ x.sq = MaxSq + 1)
  <2>1. CASE x \in {Free, Corrupt}
    BY <2>1 DEF PebState, Free, Corrupt
  <2>2. CASE x = w
    BY <1>1, <1>4, <1>5, <2>2 DEF PebState, Leb
  <2>3. CASE x = [w EXCEPT !.d = Torn]
    BY <1>1, <1>4, <1>5, <2>3 DEF PebState, Leb
  <2> QED BY <1>6, <2>1, <2>2, <2>3
<1>8. \A v \in 0 .. Slots, l \in Lnums :
        ~(x.st = "leb" /\ x.v = v /\ x.l = l) => Found(v, l)' = Found(v, l)
  <2>1. x.st = "leb" => \A q \in Pebs : IsLeb(q) => peb[q].sq < x.sq
    BY <1>5, <1>7
  <2> QED BY <1>0, <1>3, <1>6, <1>7, <2>1, PutFlash
<1>9. Vols \subseteq 0 .. Slots /\ Layout \notin Vols
  BY UbiVolAssumption DEF Vols, Layout
<1> QED BY <1>7, <1>8, <1>9

LEMMA RestoreHolds == ASSUME IInv, KInv, Restore PROVE KInv'
<1>1. ~On /\ ~On' /\ UNCHANGED <<vols, op, todo, tab, told, hurt>>
  BY DEF Restore, On, ram
<1> QED BY <1>1, RestoreFinds, OffHolds

\* What a boot would find of a volume while the system is up.
LEMMA OnKept ==
  ASSUME IInv, KInv, On, NEW s \in Vols, Sound(s), ~(Unflushed /\ op.s = s), NEW l \in Lnums
  PROVE  Found(s, l) = told[s][l] /\ (eba[s][l] = None => NoCopy(s, l))
<1>0. FlashOk /\ RamOk /\ Trees /\ Owned /\ Held /\ s \in 0 .. Slots
  BY UbiVolAssumption DEF IInv, KInv, Vols
<1>1. /\ told[s][l] = IF eba[s][l] = None THEN Hole ELSE peb[eba[s][l]].d
      /\ eba[s][l] = None => NoCopy(s, l) \/ (op.k = "update" /\ op.s = s)
  BY <1>0 DEF Held
<1>2. CASE eba[s][l] # None
  BY <1>0, <1>1, <1>2, MappedIsFound
<1>3. CASE eba[s][l] = None
  <2>1. NoCopy(s, l)
    <3> SUFFICES ASSUME op.k = "update", op.s = s, NEW p \in Pebs, IsCopy(p, s, l) PROVE FALSE
      BY <1>1, <1>3 DEF NoCopy
    <3>1. p \in ToSet(works) /\ IsLeb(p) /\ peb[p].v = s /\ peb[p].l = l
      BY <1>0, <1>3 DEF Owned, IsCopy, None, Pebs
    <3>2. PICK i \in 1 .. Len(works) : works[i] = p
      BY <1>0, <3>1 DEF ToSet, RamOk
    <3>3. Unflushed
      BY <1>3, <3>1, <3>2 DEF Unflushed, IsLeb, Sound
    <3> QED BY <3>3
  <2>2. Found(s, l) = Hole
    BY <1>0, <2>1, FoundIs DEF NoCopy
  <2> QED BY <1>1, <1>3, <2>1, <2>2
<1> QED BY <1>2, <1>3

\* What a power loss leaves of it.
LEMMA CutFinds ==
  ASSUME IInv, KInv, On, peb' \in Halves, NEW s \in Vols, Sound(s), ~(Unflushed /\ op.s = s), NEW l \in Lnums
  PROVE  Found(s, l)' = Found(s, l)
<1>0. FlashOk /\ RamOk /\ Trees /\ Plan /\ s \in 0 .. Slots /\ s # Layout
  BY UbiVolAssumption DEF IInv, KInv, Vols, Layout
<1>h. PICK h : h = Head(todo)
  OBVIOUS
<1>1. CASE peb' = peb
  BY <1>1, FlashSame
<1>2. CASE At("write") /\ free # {} /\ peb' # peb
  <2>1. PICK p \in Picks, x \in {Corrupt, Leb(h.v, h.l, sqnum, h.used, Torn)} : peb' = [peb EXCEPT ![p] = x]
    BY <1>2, <1>h DEF Halves
  <2>2. PICK w : w = Leb(h.v, h.l, sqnum, h.used, Torn)
    OBVIOUS
  <2>3. /\ p \in Pebs /\ w \in PebState /\ w.st = "leb" /\ w.v = h.v /\ w.sq = sqnum
        /\ \A a, b : ~IsCopy(p, a, b)
        /\ \A q \in Pebs : IsLeb(q) => peb[q].sq < sqnum
    <3>1. Torn \in Contents
      BY DEF Contents
    <3> QED BY <1>0, <1>2, <1>h, <2>2, <3>1, WritePuts
  <2>4. x \in PebState /\ (x.st = "leb" => x.v = h.v /\ x.sq = sqnum)
    BY <2>1, <2>2, <2>3 DEF Corrupt, PebState
  <2>5. h.v # s
    <3> SUFFICES ASSUME h.v = s PROVE FALSE
      OBVIOUS
    <3>1. todo # <<>> /\ Touch(h)
      BY <1>0, <1>2, <1>h DEF At, Touch
    <3>2. s = op.s /\ Bad(tab, s)
      BY <1>0, <1>h, <3>1, TouchIsBad
    <3> QED BY <3>2 DEF Sound, Bad
  <2>6. ~Newer(s, l, p)
    BY <2>3 DEF Newer
  <2>7. x.st = "leb" => \A q \in Pebs : IsLeb(q) => peb[q].sq < x.sq
    BY <2>3, <2>4
  <2> QED BY <1>0, <2>1, <2>3, <2>4, <2>5, <2>6, <2>7, PutFlash
<1>3. CASE works # <<>> /\ peb' = [peb EXCEPT ![Head(works)] = Corrupt]
  <2>1. Head(works) \in Pebs /\ (eba[s][l] # None => Found(s, l)' = Found(s, l))
    BY <1>0, <1>3, HeadGone
  <2>2. CASE eba[s][l] = None
    <3>1. ~Newer(s, l, Head(works))
      BY <2>1, <2>2, OnKept DEF NoCopy, Newer
    <3>2. Corrupt \in PebState /\ Corrupt.st # "leb"
      BY DEF Corrupt, PebState
    <3> QED BY <1>0, <1>3, <2>1, <3>1, <3>2, PutFlash
  <2> QED BY <2>1, <2>2
<1> QED BY <1>1, <1>2, <1>3 DEF Halves

LEMMA CutHolds == ASSUME IInv, KInv, Cut PROVE KInv'
<1>1. /\ On /\ ~On' /\ peb' \in Halves /\ tab' = tab /\ told' = told
      /\ hurt' = (IF Unflushed THEN hurt \cup {op.s} ELSE hurt)
      /\ todo' = <<>> /\ op' = NoOp /\ vols' = [v \in Vols |-> NoVol]
  BY DEF Cut, On, RamOff
<1>2. Plan'
  <2>1. op'.k = "none" /\ \A v \in Vols : ~vols'[v].upd
    BY <1>1 DEF NoOp, NoVol
  <2>2. HasAuto(tab')
    BY <1>1 DEF KInv, Plan
  <2> QED BY <1>1, <2>1, <2>2, QuietPlan
<1>3. ASSUME NEW s \in Vols, Sound(s)', NEW l \in Lnums PROVE Found(s, l)' = told'[s][l]
  <2>1. Sound(s) /\ ~(Unflushed /\ op.s = s)
    BY <1>1, <1>3 DEF Sound
  <2> QED BY <1>1, <1>3, <2>1, OnKept, CutFinds
<1>4. Held'
  BY <1>1, <1>3 DEF Held
<1> QED BY <1>1, <1>2, <1>4 DEF KInv, Owned

(***************************************************************************)
(* The flashes the system may start from, and the steps together.          *)
(***************************************************************************)
LEMMA InitKept == ASSUME Init PROVE KInv
<1>1. /\ ~On /\ todo = <<>> /\ op.k = "none" /\ hurt = {} /\ FlashOk
      /\ \A v \in Vols : ~vols[v].upd
  BY InitHolds DEF Init, On, NoOp, NoVol, IInv
<1>2. HasAuto(tab) => Plan
  <2>1. ToSet(<<>>) = {} /\ DOMAIN <<>> = {}
    BY DEF ToSet
  <2>2. ~HasTouch(todo) /\ Ordered(op.k, op.s, todo) /\ \A h \in ToSet(todo) : Fits(h)
    BY <1>1, <2>1 DEF HasTouch, Ordered
  <2> QED BY <1>1, <2>2 DEF Plan
<1>3. CASE tab = EmptyTable
  <2>1. \A v \in Vols : tab[v].size = 0 /\ ~tab[v].auto
    BY <1>3 DEF EmptyTable, NoRec, Rec
  <2>2. HasAuto(tab) /\ Held
    BY <1>1, <2>1 DEF HasAuto, Held, Sound
  <2> QED BY <1>1, <1>2, <2>2 DEF KInv, Owned
<1>4. ASSUME NEW n \in 1 .. MaxLebs, NEW type \in {"static", "dynamic"}, NEW auto \in BOOLEAN,
             n + 4 <= NumPebs, OneVolume(n, type, auto)
      PROVE  KInv
  <2>1. PICK k, used : k = (IF auto THEN 0 ELSE n) /\ used = IF type = "static" THEN k ELSE 0
    OBVIOUS
  <2>2. /\ tab = [EmptyTable EXCEPT ![1] = Rec(n, type, auto)]
        /\ told = [s \in Vols |-> [l \in Lnums |-> IF s = 1 /\ l < k THEN Data(0) ELSE Hole]]
        /\ \A p \in Pebs : peb[p] = IF p <= 2 THEN Leb(Layout, p - 1, p, 0, Table(tab))
                                    ELSE IF p - 3 < k THEN Leb(1, p - 3, p, used, Data(0)) ELSE Free
    BY <1>4, <2>1 DEF OneVolume
  <2>3. /\ n \in Nat /\ n # 0 /\ k \in Nat /\ k <= n /\ 1 \in Vols /\ NumPebs \in Nat
        /\ Slots \in Nat /\ MaxLebs \in Nat
    BY <2>1, UbiVolAssumption DEF Vols
  <2>4. \A p \in Pebs : p \in Nat /\ p >= 1
    BY <2>3 DEF Pebs
  <2>5. tab[1].size = n /\ \A v \in Vols : v # 1 => tab[v] = NoRec
    BY <2>2, <2>3 DEF EmptyTable, Rec
  <2>6. HasAuto(tab)
    BY <2>3, <2>5 DEF HasAuto, NoRec, Rec
  <2>7. ASSUME NEW l \in Lnums PROVE Found(1, l) = IF l < k THEN Data(0) ELSE Hole
    <3>0. l \in Nat
      BY <2>3 DEF Lnums
    <3>1. \A p \in Pebs : IsCopy(p, 1, l) => l < k /\ p = l + 3
      <4> SUFFICES ASSUME NEW p \in Pebs, IsCopy(p, 1, l) PROVE l < k /\ p = l + 3
        OBVIOUS
      <4>1. IsLeb(p) /\ peb[p].v = 1 /\ peb[p].l = l
        BY DEF IsCopy
      <4>2. ~(p <= 2)
        <5> SUFFICES ASSUME p <= 2 PROVE FALSE
          OBVIOUS
        <5>1. peb[p] = Leb(Layout, p - 1, p, 0, Table(tab))
          BY <2>2
        <5> QED BY <4>1, <5>1 DEF Leb, Layout
      <4>3. p - 3 < k
        <5> SUFFICES ASSUME ~(p - 3 < k) PROVE FALSE
          OBVIOUS
        <5>1. peb[p] = Free
          BY <2>2, <4>2
        <5> QED BY <4>1, <5>1 DEF Free, IsLeb
      <4>4. peb[p] = Leb(1, p - 3, p, used, Data(0))
        BY <2>2, <4>2, <4>3
      <4>5. l = p - 3
        BY <4>1, <4>4 DEF Leb
      <4> QED BY <2>4, <3>0, <4>3, <4>5
    <3>2. CASE l < k
      <4>1. PICK p : p = l + 3
        OBVIOUS
      <4>2. p \in Pebs /\ ~(p <= 2) /\ p - 3 < k /\ p - 3 = l
        BY <1>4, <2>3, <3>0, <3>2, <4>1 DEF Pebs
      <4>3. peb[p] = Leb(1, l, p, used, Data(0))
        BY <2>2, <4>2
      <4>4. IsCopy(p, 1, l) /\ peb[p].d = Data(0)
        BY <4>3 DEF IsCopy, IsLeb, Leb
      <4>5. \A q \in Pebs : IsCopy(q, 1, l) => q = p
        BY <3>1, <4>1
      <4>6. \E q \in Pebs : Newer(1, l, q)
        BY <1>1, <4>2, <4>4, FoundIs
      <4>7. Newer(1, l, p)
        BY <4>5, <4>6 DEF Newer
      <4>8. Found(1, l) = peb[p].d
        BY <1>1, <4>2, <4>7, FoundIs
      <4> QED BY <3>2, <4>4, <4>8
    <3>3. CASE ~(l < k)
      <4>1. \A p \in Pebs : ~IsCopy(p, 1, l)
        BY <3>1, <3>3
      <4> QED BY <1>1, <3>3, <4>1, FoundIs
    <3> QED BY <3>2, <3>3
  <2>8. ASSUME NEW s \in Vols, Sound(s), NEW l \in Lnums PROVE Found(s, l) = told[s][l]
    <3>1. s = 1
      BY <2>5, <2>8 DEF Sound, NoRec, Rec
    <3> QED BY <2>2, <2>3, <2>7, <3>1
  <2> QED BY <1>1, <1>2, <2>6, <2>8 DEF KInv, Owned, Held
<1> QED BY <1>3, <1>4 DEF Init

LEMMA StutterKept == ASSUME KInv, UNCHANGED vars PROVE KInv'
<1>1. UNCHANGED <<peb, up, vols, eba, works, todo, op, tab, told, hurt>>
  BY DEF vars, ram, hist
<1>2. Plan /\ Owned /\ Held
  BY DEF KInv
<1>3. /\ \A p, v, l : IsCopy(p, v, l)' <=> IsCopy(p, v, l)
      /\ \A p : IsLeb(p)' <=> IsLeb(p)
      /\ \A v, l : Found(v, l)' = Found(v, l)
  BY <1>1, FlashSame
<1>4. \A v, l : NoCopy(v, l)' <=> NoCopy(v, l)
  BY <1>3 DEF NoCopy
<1>5. /\ HasTouch(todo)' <=> HasTouch(todo)
      /\ HasFlush(todo)' <=> HasFlush(todo)
      /\ \A v : HasClear(todo, v)' <=> HasClear(todo, v)
      /\ \A v, l : HasUnmap(todo, v, l)' <=> HasUnmap(todo, v, l)
      /\ \A v : HasBad(todo, v)' <=> HasBad(todo, v)
  BY <1>1 DEF HasTouch, HasFlush, HasClear, HasUnmap, HasBad, Touch, Commit, Bad
<1>6. Ordered(op.k, op.s, todo)' <=> Ordered(op.k, op.s, todo)
  BY <1>1 DEF Ordered, Order, Commit, Touch, Bad
<1>7. \A h : Fits(h)' <=> Fits(h)
  BY <1>1, <1>5 DEF Fits, Commit, Touch, HasAuto
<1>8. HasAuto(tab)' /\ (On' <=> On) /\ (HasBad(todo, op.s)' <=> HasBad(todo, op.s))
      /\ (Bad(tab, op.s)' <=> Bad(tab, op.s))
  BY <1>1, <1>2 DEF Plan, HasAuto, On, HasBad, Commit, Bad
<1>9. Plan'
  BY <1>1, <1>2, <1>4, <1>5, <1>6, <1>7, <1>8 DEF Plan
<1>10. Owned'
  BY <1>1, <1>2, <1>3, <1>8 DEF Owned
<1>11. Held'
  BY <1>1, <1>2, <1>3, <1>4, <1>8 DEF Held, Sound
<1> QED BY <1>9, <1>10, <1>11 DEF KInv

LEMMA KeptNext == ASSUME IInv, IInv', Accounts, KInv, [Next]_vars PROVE KInv'
<1>1. CASE Restore
  BY <1>1, RestoreHolds
<1>2. CASE Attach
  BY <1>2, AttachHolds
<1>3. CASE Command
  BY <1>3, CommandHolds
<1>4. CASE RamStep
  BY <1>4, RamKeeps
<1>5. CASE UnmapStep
  BY <1>5, UnmapKeeps
<1>6. CASE WriteStep
  BY <1>6, WriteKeeps
<1>7. CASE EraseStep
  BY <1>7, EraseKeeps
<1>8. CASE FlushDone
  BY <1>8, FlushKeeps
<1>9. CASE Cut
  BY <1>9, CutHolds
<1>10. CASE UNCHANGED vars
  BY <1>10, StutterKept
<1> QED BY <1>1, <1>2, <1>3, <1>4, <1>5, <1>6, <1>7, <1>8, <1>9, <1>10 DEF Next, Step

LEMMA KInvKept == Spec => []KInv
<1>1. Init => KInv
  BY InitKept
<1>2. IInv /\ IInv' /\ Accounts /\ KInv /\ [Next]_vars => KInv'
  BY KeptNext
<1> QED BY <1>1, <1>2, Inductive, AccountsKept, PTL DEF Spec

\* Whenever the power is lost, a boot finds of a volume without the update
\* marker what the last finished change of it wrote, and nothing of a volume
\* that had its number before: the marker is set before the first LEB is
\* unmapped and cleared after the last is written (upd.c:144 and 375), and a
\* volume is created only after the old LEBs have been erased (vmt.c:292).
THEOREM ContentsAreKept == Spec => []ContentsKept
<1>1. ASSUME IInv, KInv PROVE ContentsKept
  <2> SUFFICES ASSUME NEW s \in Vols \ hurt, tab[s].size # 0, ~tab[s].upd, ~(Unflushed /\ op.s = s),
                      NEW l \in Lnums
               PROVE  Found(s, l) = told[s][l]
    BY DEF ContentsKept
  <2>1. Sound(s)
    BY DEF Sound
  <2>2. CASE On
    BY <1>1, <2>1, <2>2, OnKept
  <2>3. CASE ~On
    BY <1>1, <2>1, <2>3 DEF KInv, Held
  <2> QED BY <2>2, <2>3
<1> QED BY <1>1, Inductive, KInvKept, PTL

(***************************************************************************)
(* The room for a repair.  Until a flush, eraseblocks of a removed volume  *)
(* are still found by a scan; together with those of the volumes there are *)
(* they never take them all.                                               *)
(***************************************************************************)
\* The sizes in t, and the LEBs with a header on flash, are at most those of W.
Within(t, W) == \A v \in Vols : t[v].size <= W[v].size
Inside(W) == \A p \in Pebs : IsLeb(p) /\ peb[p].v # Layout => peb[p].l < W[peb[p].v].size

Keeps(W, h) == /\ Commit(h) => Within(h.d.t, W)
               /\ h.o = "vol" => h.vol.size <= W[h.s].size

\* A table W that has room for all that is on flash, and one, G, for what the
\* operation makes for: another one only until a creation has flushed.
Room == \E W, G \in Tables :
  /\ Reserved(W) + 4 <= NumPebs /\ Reserved(G) + 4 <= NumPebs
  /\ Inside(W) /\ Within(tab, W) /\ Within(vols, W)
  /\ Within(tab, G) /\ Within(vols, G) /\ \A h \in ToSet(todo) : Keeps(G, h)
  /\ W = G \/ (op.k = "create" /\ HasFlush(todo))

\* Headers are those of the copies of the table and of LEBs that their volume has.
Lists(t) == \A p \in Pebs : IsLeb(p) =>
  /\ peb[p].v = Layout => peb[p].l \in {0, 1}
  /\ peb[p].v # Layout /\ t[peb[p].v].size # 0 =>
       peb[p].l < t[peb[p].v].size /\ peb[p].used <= t[peb[p].v].size
Listed == Lists(tab)

\* All changes of one operation give its volume the same size.
Sized == op.k \in {"update", "resize"} =>
  \E N \in Sizes :
    /\ tab[op.s].size <= N /\ (op.k = "update" => tab[op.s].size = N)
    /\ \A h \in ToSet(todo) :
         /\ Commit(h) => h.d.t[op.s].size = N
         /\ Touch(h) /\ h.o = "write" => h.l < tab[op.s].size /\ h.used <= tab[op.s].size

\* A volume to be resized is alone on the flash, and it is resized first.
Autos ==
  /\ \A u, v \in Vols : tab[u].auto /\ tab[v].auto => u = v
  /\ \A v \in Vols : tab[v].auto =>
       /\ Inside(tab)
       /\ On => op.k = "resize" /\ op.s = v /\ \E h \in ToSet(todo) : Commit(h)
  /\ \A h \in ToSet(todo) : Commit(h) => ~h.d.t[op.s].auto

SInv == Room /\ Listed /\ Sized /\ Autos

\* A set of eraseblocks of one volume with LEBs below n, each once.
LEMMA LebsCounted ==
  ASSUME FlashOk, NEW n \in Nat, NEW S, S \subseteq Pebs,
         \A p \in S : IsLeb(p) /\ peb[p].l < n,
         \A p, q \in S : peb[p].l = peb[q].l => p = q
  PROVE  IsFiniteSet(S) /\ Cardinality(S) <= n /\ Cardinality(S) \in Nat
<1> DEFINE f == [p \in S |-> peb[p].l + 1]
<1>1. \A p \in S : peb[p].l \in Nat /\ peb[p].l + 1 \in 1 .. n
  <2> TAKE p \in S
  <2>1. peb[p].l \in Lnums /\ peb[p].l < n
    BY LebFacts
  <2> QED BY <2>1, UbiVolAssumption DEF Lnums
<1>2. f \in Injection(S, 1 .. n)
  <2>1. f \in [S -> 1 .. n]
    BY <1>1
  <2>2. \A p, q \in S : f[p] = f[q] => p = q
    BY <1>1
  <2> QED BY <2>1, <2>2 DEF Injection, IsInjective
<1>3. IsFiniteSet(1 .. n) /\ Cardinality(1 .. n) = n
  <2>1. 1 \in Int /\ n \in Int
    OBVIOUS
  <2>2. IsFiniteSet(1 .. n) /\ Cardinality(1 .. n) = IF 1 > n THEN 0 ELSE n - 1 + 1
    BY <2>1, FS_Interval
  <2> QED BY <2>2
<1>4. IsFiniteSet(S) /\ Cardinality(S) <= Cardinality(1 .. n)
  BY <1>2, <1>3, FS_Injection
<1> QED BY <1>3, <1>4, FS_CardinalityType

\* The eraseblocks of the table and of the volumes, each LEB once.
LEMMA VolsCounted ==
  ASSUME FlashOk, NEW W \in Tables, Inside(W), NEW M, M \subseteq Pebs,
         \A p \in M : IsLeb(p) /\ (peb[p].v = Layout => peb[p].l \in {0, 1}),
         \A p, q \in M : peb[p].v = peb[q].v /\ peb[p].l = peb[q].l => p = q
  PROVE  IsFiniteSet(M) /\ Cardinality(M) <= 2 + Reserved(W) /\ Reserved(W) \in Nat
<1>1. PICK g : /\ Reserved(W) = g[Slots] /\ g[0] = 0
               /\ \A s \in Vols : g[s] = g[s - 1] + W[s].size
               /\ \A s \in 0 .. Slots : g[s] \in Nat
  BY ReservedSum
<1> DEFINE U(s) == {p \in M : peb[p].v \in 0 .. s}
           S == {s \in Nat : s <= Slots => IsFiniteSet(U(s)) /\ Cardinality(U(s)) <= 2 + g[s]}
<1>2. Slots \in Nat
  BY UbiVolAssumption
<1>3. 0 \in S
  <2>1. U(0) \subseteq Pebs /\ \A p \in U(0) : IsLeb(p) /\ peb[p].v = 0
    OBVIOUS
  <2>2. \A p \in U(0) : peb[p].l < 2
    BY <2>1 DEF Layout
  <2>3. \A p, q \in U(0) : peb[p].l = peb[q].l => p = q
    BY <2>1
  <2>4. 2 \in Nat
    OBVIOUS
  <2> HIDE DEF U
  <2>5. IsFiniteSet(U(0)) /\ Cardinality(U(0)) <= 2
    BY <2>1, <2>2, <2>3, <2>4, LebsCounted
  <2> QED BY <1>1, <2>5
<1>4. ASSUME NEW s \in 1 .. Slots, s - 1 \in S PROVE s \in S
  <2> DEFINE A == U(s - 1)
             B == {p \in M : peb[p].v = s}
  <2>1. s \in Vols /\ s - 1 \in 0 .. Slots /\ s \in Nat /\ s # Layout
    BY <1>2 DEF Vols, Layout
  <2>2. IsFiniteSet(A) /\ Cardinality(A) <= 2 + g[s - 1] /\ Cardinality(A) \in Nat
    <3>1. s - 1 <= Slots
      BY <1>2
    <3>2. IsFiniteSet(A) /\ Cardinality(A) <= 2 + g[s - 1]
      BY <1>4, <3>1
    <3> HIDE DEF A
    <3> QED BY <3>2, FS_CardinalityType
  <2>3. W[s].size \in Nat
    BY <2>1, SizesNat DEF Tables
  <2>4. IsFiniteSet(B) /\ Cardinality(B) <= W[s].size /\ Cardinality(B) \in Nat
    <3>1. B \subseteq Pebs /\ \A p \in B : IsLeb(p) /\ peb[p].v = s
      OBVIOUS
    <3>2. \A p \in B : peb[p].l < W[s].size
      BY <2>1, <3>1 DEF Inside
    <3>3. \A p, q \in B : peb[p].l = peb[q].l => p = q
      BY <3>1
    <3> HIDE DEF B
    <3> QED BY <2>3, <3>1, <3>2, <3>3, LebsCounted
  <2>5. U(s) = A \cup B
    <3>1. \A x : x \in 0 .. s <=> x \in 0 .. s - 1 \/ x = s
      BY <2>1
    <3> QED BY <3>1
  <2>6. A \cap B = {}
    <3>1. s \notin 0 .. s - 1
      BY <2>1
    <3> QED BY <3>1
  <2>7. U(s) \subseteq M
    OBVIOUS
  <2> HIDE DEF U, A, B
  <2>8. IsFiniteSet(U(s)) /\ Cardinality(U(s)) = Cardinality(A) + Cardinality(B)
    <3>1. IsFiniteSet(A \cup B) /\ Cardinality(A \cup B) = Cardinality(A) + Cardinality(B) - Cardinality(A \cap B)
      BY <2>2, <2>4, FS_Union
    <3>2. Cardinality(A \cap B) = 0
      BY <2>6, FS_EmptySet
    <3> QED BY <2>2, <2>4, <2>5, <3>1, <3>2
  <2>9. g[s] = g[s - 1] + W[s].size /\ g[s - 1] \in Nat
    BY <1>1, <2>1
  <2> QED BY <2>1, <2>2, <2>3, <2>4, <2>8, <2>9
<1> HIDE DEF S
<1>5. Slots \in S
  <2>1. \A i \in 0 .. Slots : i \in S
    BY <1>2, <1>3, <1>4, UpTo
  <2> QED BY <1>2, <2>1
<1>6. U(Slots) = M
  <2>1. \A p \in M : peb[p].v \in 0 .. Slots
    BY LebFacts
  <2> QED BY <2>1
<1> HIDE DEF U
<1>7. IsFiniteSet(U(Slots)) /\ Cardinality(U(Slots)) <= 2 + g[Slots] /\ g[Slots] \in Nat
  BY <1>1, <1>2, <1>5 DEF S
<1> QED BY <1>1, <1>6, <1>7

\* What the scan has read: of an eraseblock without a header, of the headers.
Reads(s, P) ==
  /\ \A p \in P : IsLeb(p) \/ p \in Spare(s)
  /\ \A v \in s.seen : \E q \in Pebs : IsLeb(q) /\ peb[q].v = v /\ peb[q].used = s.used[v]
  /\ s.ok \/ Mixed

LEMMA ReadNext ==
  ASSUME FlashOk, NEW s \in ScanState, NEW n \in Pebs, Reads(s, 1 .. n - 1)
  PROVE  Reads(ProcessEb(s, n), 1 .. n)
<1>0. n \in Nat /\ NumPebs \in Nat /\ \A i \in 1 .. n : i = n \/ i \in 1 .. n - 1
  BY UbiVolAssumption DEF Pebs
<1>1. PICK r : r = ProcessEb(s, n)
  OBVIOUS
<1>2. s.erase \in Seq(Pebs) /\ s.corr \in Seq(Pebs) /\ s.free \subseteq Pebs /\ s.seen \subseteq 0 .. Slots
  BY DEF ScanState
<1>3. ASSUME Spare(s) \subseteq Spare(r), IsLeb(n) \/ n \in Spare(r)
      PROVE  \A p \in 1 .. n : IsLeb(p) \/ p \in Spare(r)
  BY <1>0, <1>3 DEF Reads
<1>4. ToSet(Append(s.erase, n)) = ToSet(s.erase) \cup {n} /\ ToSet(Append(s.corr, n)) = ToSet(s.corr) \cup {n}
  BY <1>2, AppendFacts
<1>5. CASE peb[n].st \in {"blank", "free", "corrupt"}
  <2>1. r.seen = s.seen /\ r.used = s.used /\ r.ok = s.ok
    BY <1>1, <1>5 DEF ProcessEb, ScanState
  <2>2. Spare(r) = Spare(s) \cup {n}
    <3>1. CASE peb[n].st = "blank"
      <4>1. r.erase = Append(s.erase, n) /\ r.free = s.free /\ r.corr = s.corr
        BY <1>1, <3>1 DEF ProcessEb, ScanState
      <4> QED BY <1>4, <4>1 DEF Spare
    <3>2. CASE peb[n].st = "free"
      <4>1. r.erase = s.erase /\ r.free = s.free \cup {n} /\ r.corr = s.corr
        BY <1>1, <3>2 DEF ProcessEb, ScanState
      <4> QED BY <4>1 DEF Spare
    <3>3. CASE peb[n].st = "corrupt"
      <4>1. r.erase = s.erase /\ r.free = s.free /\ r.corr = Append(s.corr, n)
        BY <1>1, <3>3 DEF ProcessEb, ScanState
      <4> QED BY <1>4, <4>1 DEF Spare
    <3> QED BY <1>5, <3>1, <3>2, <3>3
  <2> QED BY <1>1, <1>3, <2>1, <2>2 DEF Reads
<1>6. CASE IsLeb(n)
  <2>1. PICK v, l, q : v = peb[n].v /\ l = peb[n].l /\ q = s.leb[v][l]
    OBVIOUS
  <2>2. r = AddUsed(s, n)
    BY <1>1, <1>6 DEF ProcessEb, IsLeb
  <2>3. v \in 0 .. Slots /\ l \in Lnums /\ q \in Pebs \cup {None}
    <3>1. v \in 0 .. Slots /\ l \in Lnums
      BY <1>6, <2>1, LebFacts
    <3>2. s.leb \in EbaState
      BY DEF ScanState
    <3> QED BY <2>1, <3>1, <3>2 DEF EbaState
  <2>4. Spare(s) \subseteq Spare(r)
    <3>1. r.free = s.free /\ r.corr = s.corr
      BY <2>1, <2>2 DEF AddUsed, ScanState, Used
    <3>2. r.erase = s.erase \/ \E x \in Pebs : r.erase = Append(s.erase, x)
      <4>1. r.erase = s.erase \/ r.erase = Append(s.erase, n) \/ (q # None /\ r.erase = Append(s.erase, q))
        BY <2>1, <2>2 DEF AddUsed, ScanState, Used
      <4> QED BY <2>3, <4>1
    <3>3. \A x \in Pebs : ToSet(Append(s.erase, x)) = ToSet(s.erase) \cup {x}
      BY <1>2, AppendFacts
    <3>4. ToSet(s.erase) \subseteq ToSet(r.erase)
      BY <3>2, <3>3
    <3> QED BY <3>1, <3>4 DEF Spare
  <2>5. /\ r.seen = s.seen \cup {v}
        /\ r.used = IF v \in s.seen THEN s.used ELSE [s.used EXCEPT ![v] = peb[n].used]
    BY <2>1, <2>2, <2>3 DEF AddUsed, ScanState, Used
  <2>6. r.ok \in BOOLEAN /\ (v \notin s.seen \/ peb[n].used = s.used[v] => r.ok = s.ok)
    BY <2>1, <2>2 DEF AddUsed, ScanState, Used
  <2>7. \A x \in r.seen : \E p \in Pebs : IsLeb(p) /\ peb[p].v = x /\ peb[p].used = r.used[x]
    <3> TAKE x \in r.seen
    <3>1. CASE x \in s.seen
      <4>1. r.used[x] = s.used[x]
        BY <1>2, <2>3, <2>5, <3>1 DEF ScanState
      <4> QED BY <3>1, <4>1 DEF Reads
    <3>2. CASE x \notin s.seen
      <4>1. x = v /\ r.used[x] = peb[n].used
        BY <2>3, <2>5, <3>2 DEF ScanState
      <4> QED BY <1>6, <2>1, <4>1
    <3> QED BY <3>1, <3>2
  <2>8. r.ok \/ Mixed
    <3>1. CASE v \in s.seen /\ peb[n].used # s.used[v]
      <4>1. PICK p \in Pebs : IsLeb(p) /\ peb[p].v = v /\ peb[p].used = s.used[v]
        BY <3>1 DEF Reads
      <4> QED BY <1>6, <2>1, <3>1, <4>1 DEF Mixed, IsLeb
    <3>2. CASE ~(v \in s.seen /\ peb[n].used # s.used[v])
      BY <2>6, <3>2 DEF Reads
    <3> QED BY <3>1, <3>2
  <2> QED BY <1>1, <1>3, <1>6, <2>4, <2>7, <2>8 DEF Reads
<1>7. peb[n].st \in {"blank", "free", "corrupt"} \/ IsLeb(n)
  <2>1. peb[n] \in PebState
    BY DEF FlashOk
  <2> QED BY <2>1 DEF PebState, Blank, Free, Corrupt, IsLeb
<1> QED BY <1>5, <1>6, <1>7

LEMMA ScanReads == ASSUME FlashOk PROVE Reads(Scan, Pebs)
<1> DEFINE S == {n \in 0 .. NumPebs : ScanOk(Scanned[n], n) /\ Reads(Scanned[n], 1 .. n)}
<1>0. NumPebs \in Nat /\ 0 \in 0 .. NumPebs
  BY UbiVolAssumption
<1>1. 0 \in S
  <2>1. Reads(ScanInit, 1 .. 0)
    BY DEF Reads, ScanInit
  <2> QED BY <1>0, <2>1, ScannedStep, ScanStart
<1>2. ASSUME NEW n \in 1 .. NumPebs, n - 1 \in S PROVE n \in S
  <2>1. n \in Pebs /\ n \in 0 .. NumPebs
    BY <1>0 DEF Pebs
  <2>2. ScanOk(ProcessEb(Scanned[n - 1], n), n)
    BY <1>2, <2>1, ScanProcess
  <2>3. Reads(ProcessEb(Scanned[n - 1], n), 1 .. n)
    BY <1>2, <2>1, ReadNext DEF ScanOk
  <2> QED BY <2>1, <2>2, <2>3, ScannedStep
<1> HIDE DEF S
<1>3. \A i \in 0 .. NumPebs : i \in S
  BY <1>0, <1>1, <1>2, UpTo
<1>4. NumPebs \in S
  BY <1>0, <1>3
<1> QED BY <1>4 DEF S, Scan, Pebs

\* A repair always finds an eraseblock for the copy it writes.
LEMMA SpareLeft == ASSUME FlashOk, Listed, Room PROVE Spare(Scan) # {}
<1>1. PICK W \in Tables : Reserved(W) + 4 <= NumPebs /\ Inside(W)
  BY DEF Room
<1> DEFINE M == {p \in Pebs : IsLeb(p) /\ Scan.leb[peb[p].v][peb[p].l] = p}
<1>2. M \subseteq Pebs /\ \A p \in M : IsLeb(p) /\ (peb[p].v = Layout => peb[p].l \in {0, 1})
  BY DEF Listed, Lists
<1>3. \A p, q \in M : peb[p].v = peb[q].v /\ peb[p].l = peb[q].l => p = q
  OBVIOUS
<1>4. ~(Pebs \subseteq M)
  <2>1. ASSUME M = Pebs PROVE FALSE
    <3>1. Cardinality(Pebs) <= 2 + Reserved(W) /\ Reserved(W) \in Nat
      <4> HIDE DEF M
      <4> QED BY <1>1, <1>2, <1>3, <2>1, VolsCounted
    <3>2. NumPebs \in Nat /\ 1 \in Int
      BY UbiVolAssumption
    <3>3. Cardinality(Pebs) = IF 1 > NumPebs THEN 0 ELSE NumPebs - 1 + 1
      BY <3>2, FS_Interval DEF Pebs
    <3> QED BY <1>1, <3>1, <3>2, <3>3, UbiVolAssumption
  <2> QED BY <1>2, <2>1
<1>5. PICK p \in Pebs : p \notin M
  BY <1>4
<1>6. CASE IsLeb(p)
  <2>1. ScanTable(Scan, Pebs)
    BY ScanHolds DEF ScanOk, Pebs
  <2>2. p \in ToSet(Scan.erase)
    BY <1>5, <1>6, <2>1 DEF ScanTable
  <2> QED BY <2>2 DEF Spare
<1>7. CASE ~IsLeb(p)
  BY <1>7, ScanReads DEF Reads
<1> QED BY <1>6, <1>7

\* An attach that fails: but for mixed headers everything is there.
LEMMA AttachesWell ==
  ASSUME IInv, SInv, formatted, ~Mixed
  PROVE  /\ Scan.ok /\ Spare(Scan) # {}
         /\ ToRestore(Scan) = Nothing => Copy(Scan, 0) = Table(tab)
         /\ \A v \in Vols : Consistent(Scan, tab[v], v)
<1>0. FlashOk /\ TableKept /\ Unformatted /\ Room /\ Listed
  BY DEF IInv, SInv
<1>1. Scan.ok /\ Spare(Scan) # {}
  BY <1>0, ScanReads, SpareLeft DEF Reads
<1>2. ASSUME ToRestore(Scan) = Nothing PROVE Copy(Scan, 0) = Table(tab)
  <2>1. Copy(Scan, 0) # Torn
    <3> SUFFICES ASSUME Copy(Scan, 0) = Torn PROVE FALSE
      OBVIOUS
    <3>1. Copy(Scan, 1) = Torn
      <4> SUFFICES ASSUME Copy(Scan, 1) # Torn PROVE FALSE
        OBVIOUS
      <4>1. ToRestore(Scan) \in {[i |-> 0, d |-> Table(EmptyTable)], [i |-> 0, d |-> Copy(Scan, 1)]}
        BY DEF ToRestore
      <4>2. Nothing.d = Torn /\ Table(EmptyTable) # Torn
        BY Contradistinct DEF Nothing
      <4> QED BY <1>2, <4>1, <4>2
    <3>2. Found(Layout, 0) \in {Hole, Torn} /\ Found(Layout, 1) \in {Hole, Torn}
      <4>1. \A i \in {0, 1} : Copy(Scan, i) = IF Found(Layout, i) = Hole THEN Torn ELSE Found(Layout, i)
        BY <1>0, CopyIs
      <4> QED BY <3>1, <4>1
    <3> QED BY <1>0, <3>2, Contradistinct DEF TableKept
  <2> QED BY <1>0, <1>2, <2>1, RestoreIs
<1>3. ASSUME NEW v \in Vols PROVE Consistent(Scan, tab[v], v)
  <2>1. v # Layout /\ v \in 0 .. Slots
    BY UbiVolAssumption DEF Vols, Layout
  <2> SUFFICES ASSUME v \in Scan.seen, tab[v].size # 0
               PROVE  /\ \A l \in Lnums : Scan.leb[v][l] # None => l < tab[v].size
                      /\ Scan.used[v] <= tab[v].size
    BY DEF Consistent
  <2>2. ASSUME NEW l \in Lnums, Scan.leb[v][l] # None PROVE l < tab[v].size
    <3>1. PICK q : q = Scan.leb[v][l]
      OBVIOUS
    <3>2. q \in Pebs /\ IsCopy(q, v, l)
      BY <1>0, <2>1, <2>2, <3>1, ScanFinds DEF Newer
    <3> QED BY <1>0, <2>1, <3>2 DEF Listed, Lists, IsCopy
  <2>3. Scan.used[v] <= tab[v].size
    <3>1. PICK q \in Pebs : IsLeb(q) /\ peb[q].v = v /\ peb[q].used = Scan.used[v]
      BY <1>0, ScanReads DEF Reads
    <3> QED BY <1>0, <2>1, <3>1 DEF Listed, Lists
  <2> QED BY <2>2, <2>3
<1> QED BY <1>1, <1>2, <1>3

(***************************************************************************)
(* Room through the steps of an operation.                                 *)
(***************************************************************************)
\* The headers a step adds are in X.
Adds(X) == \A p \in Pebs : IsLeb(p)' => (IsLeb(p) /\ peb'[p] = peb[p]) \/ peb'[p] \in X

\* A header of a copy of the table, or of a LEB that the operation may write.
Proper(x) ==
  /\ x.l \in Nat /\ x.used \in Nat
  /\ x.v = Layout => x.l \in {0, 1}
  /\ x.v # Layout => /\ op.k = "update" /\ x.v = op.s /\ op.s \in Vols
                     /\ x.l < vols[op.s].size /\ x.l < tab[op.s].size /\ x.used <= tab[op.s].size

LEMMA NothingAdded == ASSUME peb' = peb PROVE Adds({})
BY DEF Adds, IsLeb

LEMMA PutAdds ==
  ASSUME FlashOk, NEW p \in Pebs, NEW x, peb' = [peb EXCEPT ![p] = x]
  PROVE  Adds({x}) /\ (x.st # "leb" => Adds({}))
<1>1. peb'[p] = x /\ \A q \in Pebs : q # p => peb'[q] = peb[q]
  BY DEF FlashOk
<1> QED BY <1>1 DEF Adds, IsLeb

LEMMA InsideRest ==
  ASSUME NEW CONSTANT t, Inside(t), NEW CONSTANT X, Adds(X), \A x \in X : x.v # Layout => x.l < t[x.v].size
  PROVE  Inside(t)'
BY DEF Inside, Adds, IsLeb

LEMMA ListsRest ==
  ASSUME NEW CONSTANT t, Lists(t), NEW CONSTANT X, Adds(X),
         \A x \in X : /\ x.v = Layout => x.l \in {0, 1}
                      /\ x.v # Layout => x.l < t[x.v].size /\ x.used <= t[x.v].size
  PROVE  Lists(t)'
BY DEF Lists, Adds, IsLeb

\* What is written by the operation under way.
LEMMA WritesProper ==
  ASSUME IInv, Plan, Sized, On, todo # <<>>, NEW h, h = Head(todo), h.o = "write",
         NEW x, x.v = h.v, x.l = h.l, x.used = h.used
  PROVE  Proper(x)
<1>1. Fits(h) /\ h \in ToSet(todo) /\ op.k # "none" /\ h.v \in 0 .. Slots /\ h.l \in Nat /\ h.used \in Nat
  <2>1. todo \in Seq(Steps)
    BY DEF IInv, RamOk
  <2>2. h \in ToSet(todo)
    BY <2>1, RestFacts
  <2>3. h \in Steps /\ Fits(h) /\ op.k # "none" /\ h.v \in 0 .. Slots /\ h.l \in Lnums
    BY WriteFits
  <2>4. h.l \in Nat
    BY <2>3, UbiVolAssumption DEF Lnums
  <2>5. h.used \in Nat
    BY <2>3 DEF Steps
  <2> QED BY <2>2, <2>3, <2>4, <2>5
<1>2. CASE h.v = Layout
  BY <1>1, <1>2 DEF Proper, Fits
<1>3. CASE h.v # Layout
  <2>1. Touch(h)
    BY <1>3 DEF Touch
  <2>2. op.k = "update" /\ h.v = op.s /\ h.l < vols[op.s].size
    BY <1>1, <2>1 DEF Fits
  <2>3. op.s \in Vols
    BY <2>2 DEF Plan
  <2>4. h.l < tab[op.s].size /\ h.used <= tab[op.s].size
    BY <1>1, <2>1, <2>2 DEF Sized
  <2> QED BY <1>1, <1>3, <2>2, <2>3, <2>4 DEF Proper
<1> QED BY <1>2, <1>3

\* The sizes that a table and the volumes in RAM give.
LEMMA SizeFacts ==
  ASSUME RamOk
  PROVE  /\ \A t \in Tables, v \in Vols : t[v].size \in Nat
         /\ \A v \in Vols : vols[v].size \in Nat /\ tab[v].size \in Nat
         /\ Layout \notin Vols /\ Vols \subseteq 0 .. Slots /\ 0 .. Slots = Vols \cup {Layout}
<1>1. \A t \in Tables, v \in Vols : t[v].size \in Nat
  BY SizesNat DEF Tables
<1>2. \A v \in Vols : vols[v].size \in Nat /\ tab[v].size \in Nat
  BY <1>1, SizesNat DEF RamOk, VolState
<1> QED BY <1>1, <1>2, UbiVolAssumption DEF Vols, Layout

\* Until it has flushed, an operation that creates a volume does nothing else.
LEMMA FlushFirst ==
  ASSUME RamOk, Plan, NEW h, Goes(h), op.k = "create", HasFlush(todo)
  PROVE  h.o = "flush"
<1>1. PICK g \in ToSet(todo) : g.o = "flush"
  BY DEF HasFlush
<1>2. g # h => Order(op.k, op.s, h, g)
  BY HeadIs
<1> QED BY <1>1, <1>2 DEF Order

LEMMA RoomRest ==
  ASSUME FlashOk, RamOk, RamOk', Plan, Room, NEW h, Goes(h), NEW X, Adds(X), \A x \in X : Proper(x),
         h.o = "flush" => X = {} /\ (op.k = "create" => Inside(vols))
  PROVE  Room'
<1>1. PICK W, G \in Tables :
        /\ Reserved(W) + 4 <= NumPebs /\ Reserved(G) + 4 <= NumPebs
        /\ Inside(W) /\ Within(tab, W) /\ Within(vols, W)
        /\ Within(tab, G) /\ Within(vols, G) /\ \A g \in ToSet(todo) : Keeps(G, g)
        /\ W = G \/ (op.k = "create" /\ HasFlush(todo))
  BY DEF Room
<1>2. /\ \A v \in Vols : vols[v].size \in Nat /\ G[v].size \in Nat /\ W[v].size \in Nat
      /\ Layout \notin Vols
  BY SizeFacts
<1>3. h \in ToSet(todo) /\ \A g \in ToSet(todo') : g \in ToSet(todo)
  BY HeadIs
<1>4. Within(tab', G)
  BY <1>1, <1>3 DEF Goes, Keeps, Within
<1>5. Within(vols', G)
  <2>1. ASSUME NEW v \in Vols PROVE vols'[v].size <= G[v].size
    <3>1. CASE h.o = "vol" /\ h.s = v
      <4>1. vols'[v] = h.vol
        BY <3>1 DEF Goes, RamOk
      <4> QED BY <1>1, <1>3, <3>1, <4>1 DEF Keeps
    <3>2. CASE ~(h.o = "vol" /\ h.s = v)
      <4>1. vols'[v] = vols[v]
        BY <3>2 DEF Goes, RamOk
      <4> QED BY <1>1, <4>1 DEF Within
    <3> QED BY <3>1, <3>2
  <2> QED BY <2>1 DEF Within
<1>6. Inside(G)'
  <2>1. ASSUME NEW x \in X, x.v # Layout PROVE x.l < G[x.v].size
    <3>1. x.v = op.s /\ op.s \in Vols /\ x.l < tab[op.s].size
      BY <2>1 DEF Proper
    <3>2. tab[op.s].size <= G[op.s].size
      BY <1>1, <3>1 DEF Within
    <3>3. x.l \in Nat /\ tab[op.s].size \in Nat /\ G[op.s].size \in Nat
      BY <1>2, <2>1, <3>1, SizeFacts DEF Proper
    <3> QED BY <3>1, <3>2, <3>3
  <2>2. CASE W = G
    BY <1>1, <2>1, <2>2, InsideRest
  <2>3. CASE W # G
    <3>1. h.o = "flush" /\ X = {} /\ Inside(vols)
      BY <1>1, <2>3, FlushFirst
    <3>2. Inside(G)
      <4>1. ASSUME NEW p \in Pebs, IsLeb(p), peb[p].v # Layout PROVE peb[p].l < G[peb[p].v].size
        <5>1. peb[p].v \in Vols /\ peb[p].l \in Nat
          <6>1. peb[p].v \in 0 .. Slots /\ peb[p].l \in Lnums
            BY <4>1, LebFacts
          <6> QED BY <4>1, <6>1, SizeFacts, UbiVolAssumption DEF Lnums
        <5>2. peb[p].l < vols[peb[p].v].size
          BY <3>1, <4>1 DEF Inside
        <5>3. vols[peb[p].v].size <= G[peb[p].v].size
          BY <1>1, <5>1 DEF Within
        <5> QED BY <1>2, <5>1, <5>2, <5>3
      <4> QED BY <4>1 DEF Inside
    <3> QED BY <3>1, <3>2, InsideRest
  <2> QED BY <2>2, <2>3
<1>7. \A g \in ToSet(todo') : Keeps(G, g)
  BY <1>1, <1>3
<1> QED BY <1>1, <1>4, <1>5, <1>6, <1>7 DEF Room, Within, Keeps, Commit, Tables

LEMMA SizedRest ==
  ASSUME RamOk, RamOk', Plan, Sized, NEW h, Goes(h)
  PROVE  Sized'
<1> SUFFICES ASSUME op.k \in {"update", "resize"} PROVE Sized'
  BY DEF Sized, Goes
<1>1. PICK N \in Sizes :
        /\ tab[op.s].size <= N /\ (op.k = "update" => tab[op.s].size = N)
        /\ \A g \in ToSet(todo) :
             /\ Commit(g) => g.d.t[op.s].size = N
             /\ Touch(g) /\ g.o = "write" => g.l < tab[op.s].size /\ g.used <= tab[op.s].size
  BY DEF Sized
<1>2. h \in ToSet(todo) /\ \A g \in ToSet(todo') : g \in ToSet(todo) /\ Fits(g)
  BY HeadIs
<1>3. N <= N
  BY SizesNat
<1>4. op' = op /\ tab' = IF Commit(h) THEN h.d.t ELSE tab
  BY DEF Goes
<1>5. tab'[op.s].size <= N /\ (op.k = "update" => tab'[op.s].size = N)
  BY <1>1, <1>2, <1>3, <1>4
<1>6. ASSUME NEW g \in ToSet(todo'), Touch(g), g.o = "write"
      PROVE  g.l < tab'[op.s].size /\ g.used <= tab'[op.s].size
  <2>1. op.k = "update"
    BY <1>2, <1>6 DEF Fits
  <2>2. tab'[op.s].size = tab[op.s].size
    BY <1>1, <1>5, <2>1
  <2> QED BY <1>1, <1>2, <1>6, <2>2
<1> QED BY <1>1, <1>2, <1>4, <1>5, <1>6 DEF Sized, Commit, Touch

LEMMA ListedRest ==
  ASSUME FlashOk, RamOk, RamOk', Plan, Listed, Sized, NEW h, Goes(h), NEW X, Adds(X), \A x \in X : Proper(x),
         Commit(h) => /\ \A x \in X : x.v = Layout
                      /\ op.k = "create" => ~HasFlush(todo)
  PROVE  Listed'
<1>1. Fits(h) /\ h \in ToSet(todo) /\ op.k # "none"
  BY HeadIs DEF Plan, Goes
<1>2. PICK t : t = tab'
  OBVIOUS
<1>3. CASE ~Commit(h)
  <2>1. t = tab /\ Lists(t)
    BY <1>2, <1>3 DEF Goes, Listed
  <2>2. \A x \in X : /\ x.v = Layout => x.l \in {0, 1}
                     /\ x.v # Layout => x.l < t[x.v].size /\ x.used <= t[x.v].size
    BY <2>1 DEF Proper
  <2>3. Lists(t)'
    BY <2>1, <2>2, ListsRest
  <2> QED BY <1>2, <2>3 DEF Listed, Lists
<1>4. CASE Commit(h)
  <2>1. t = h.d.t /\ \A v \in Vols : v # op.s => t[v] = tab[v]
    BY <1>1, <1>2, <1>4 DEF Goes, Fits
  <2>2. \/ t[op.s].size = 0
        \/ op.k = "create" /\ \A l \in Lnums : NoCopy(op.s, l)
        \/ tab[op.s].size # 0 /\ tab[op.s].size <= t[op.s].size
    <3>1. CASE op.k = "create"
      BY <1>4, <3>1 DEF Plan
    <3>2. CASE op.k = "remove"
      BY <1>1, <1>4, <2>1, <3>2 DEF Fits
    <3>3. CASE op.k \in {"update", "resize"}
      <4>1. PICK N \in Sizes :
              /\ tab[op.s].size <= N /\ (op.k = "update" => tab[op.s].size = N)
              /\ Commit(h) => h.d.t[op.s].size = N
        BY <1>1, <3>3 DEF Sized
      <4> QED BY <1>4, <2>1, <3>3, <4>1 DEF Plan
    <3> QED BY <1>1, <3>1, <3>2, <3>3 DEF Plan
  <2>3. Lists(t)
    <3>1. ASSUME NEW p \in Pebs, IsLeb(p), peb[p].v # Layout, t[peb[p].v].size # 0
          PROVE  peb[p].l < t[peb[p].v].size /\ peb[p].used <= t[peb[p].v].size
      <4>1. peb[p].v \in Vols /\ peb[p].l \in Lnums /\ peb[p].l \in Nat /\ peb[p].used \in Nat
        <5>1. peb[p].v \in 0 .. Slots /\ peb[p].l \in Lnums /\ peb[p].used \in Nat
          BY <3>1, LebFacts
        <5> QED BY <3>1, <5>1, SizeFacts, UbiVolAssumption DEF Lnums
      <4>2. tab[peb[p].v].size # 0 => peb[p].l < tab[peb[p].v].size /\ peb[p].used <= tab[peb[p].v].size
        BY <3>1 DEF Listed, Lists
      <4>3. CASE peb[p].v # op.s
        BY <2>1, <3>1, <4>1, <4>2, <4>3
      <4>4. CASE peb[p].v = op.s
        <5>1. ~NoCopy(op.s, peb[p].l)
          BY <3>1, <4>4 DEF NoCopy, IsCopy
        <5>2. tab[op.s].size # 0 /\ tab[op.s].size <= t[op.s].size
          BY <2>2, <3>1, <4>1, <4>4, <5>1
        <5>3. tab[op.s].size \in Nat /\ t[op.s].size \in Nat
          BY <1>2, <4>1, <4>4, SizeFacts DEF RamOk
        <5> QED BY <4>1, <4>2, <4>4, <5>2, <5>3
      <4> QED BY <4>3, <4>4
    <3> QED BY <3>1 DEF Listed, Lists
  <2>4. Lists(t)'
    <3>1. \A x \in X : x.v = Layout /\ x.l \in {0, 1}
      BY <1>4 DEF Proper
    <3> QED BY <2>3, <3>1, ListsRest
  <2> QED BY <1>2, <2>4 DEF Listed, Lists
<1> QED BY <1>3, <1>4

LEMMA AutosRest ==
  ASSUME RamOk, RamOk', Plan, Autos, NEW h, Goes(h), NEW X, Adds(X), \A x \in X : Proper(x)
  PROVE  Autos'
<1>1. Fits(h) /\ h \in ToSet(todo) /\ ToSet(todo) = {h} \cup ToSet(todo') /\ op.k # "none" /\ op' = op /\ On /\ On'
  BY HeadIs DEF Plan, Goes
<1>2. \A g \in ToSet(todo') : Commit(g) => ~g.d.t[op.s].auto
  BY <1>1 DEF Autos
<1>3. CASE Commit(h)
  <2>1. /\ tab' = h.d.t /\ \A v \in Vols : v # op.s => tab'[v] = tab[v]
        /\ ~tab'[op.s].auto
    BY <1>1, <1>3 DEF Goes, Fits, Autos
  <2>2. \A v \in Vols : ~tab'[v].auto
    BY <1>1, <2>1 DEF Autos
  <2> QED BY <1>1, <1>2, <2>2 DEF Autos, Commit
<1>4. CASE ~Commit(h)
  <2>1. PICK t : t = tab /\ t = tab'
    BY <1>4 DEF Goes
  <2>2. \A u, v \in Vols : t[u].auto /\ t[v].auto => u = v
    BY <2>1 DEF Autos
  <2>3. ASSUME NEW v \in Vols, t[v].auto
        PROVE  Inside(t)' /\ op.k = "resize" /\ op.s = v /\ \E g \in ToSet(todo') : Commit(g)
    <3>1. Inside(t) /\ op.k = "resize" /\ op.s = v /\ \E g \in ToSet(todo) : Commit(g)
      BY <1>1, <2>1, <2>3 DEF Autos
    <3>2. \A x \in X : x.v = Layout
      BY <3>1 DEF Proper
    <3>3. Inside(t)'
      BY <3>1, <3>2, InsideRest
    <3> QED BY <1>1, <1>4, <3>1, <3>3
  <2> QED BY <1>1, <1>2, <2>1, <2>2, <2>3 DEF Autos, Commit, Inside, IsLeb
<1> QED BY <1>3, <1>4

\* A step of an operation.
LEMMA RoomyRest ==
  ASSUME IInv, IInv', KInv, SInv, NEW h, Goes(h), NEW X, Adds(X), \A x \in X : Proper(x),
         h.o = "flush" => X = {} /\ (op.k = "create" => Inside(vols)),
         Commit(h) => /\ \A x \in X : x.v = Layout
                      /\ op.k = "create" => ~HasFlush(todo)
  PROVE  SInv'
<1>1. FlashOk /\ RamOk /\ RamOk' /\ Plan /\ Room /\ Listed /\ Sized /\ Autos
  BY DEF IInv, KInv, SInv
<1>2. Room'
  BY <1>1, RoomRest
<1>3. Listed'
  BY <1>1, ListedRest
<1>4. Sized'
  BY <1>1, SizedRest
<1>5. Autos'
  BY <1>1, AutosRest
<1> QED BY <1>2, <1>3, <1>4, <1>5 DEF SInv

\* A step that leaves the operation where it is.
LEMMA RoomyStay ==
  ASSUME SInv, NEW X, Adds(X), \A x \in X : x.v = Layout /\ x.l \in {0, 1},
         On' <=> On, UNCHANGED <<vols, todo, op, tab>>
  PROVE  SInv'
<1>1. Room /\ Lists(tab) /\ Sized /\ Autos
  BY DEF SInv, Listed
<1>2. PICK t : t = tab /\ t = tab'
  OBVIOUS
<1>3. \A W : Inside(W) => Inside(W)'
  <2> TAKE W
  <2> QED BY InsideRest
<1>4. Listed'
  <2>1. Lists(t)'
    BY <1>1, <1>2, ListsRest
  <2> QED BY <1>2, <2>1 DEF Listed, Lists
<1>5. Autos'
  <2>1. \A u, v \in Vols : t[u].auto /\ t[v].auto => u = v
    BY <1>1, <1>2 DEF Autos
  <2>2. ASSUME NEW v \in Vols, t[v].auto
        PROVE  Inside(t)' /\ (On => op.k = "resize" /\ op.s = v /\ \E g \in ToSet(todo) : Commit(g))
    <3>1. Inside(t)
      BY <1>1, <1>2, <2>2 DEF Autos
    <3> QED BY <1>1, <1>2, <1>3, <2>2, <3>1 DEF Autos
  <2>3. \A g \in ToSet(todo) : Commit(g) => ~g.d.t[op.s].auto
    BY <1>1 DEF Autos
  <2> QED BY <1>2, <2>1, <2>2, <2>3 DEF Autos, Commit, Inside, IsLeb
<1>6. Sized'
  BY <1>1 DEF Sized, Commit, Touch
<1>7. Room'
  <2>1. PICK W, G \in Tables :
          /\ Reserved(W) + 4 <= NumPebs /\ Reserved(G) + 4 <= NumPebs
          /\ Inside(W) /\ Within(tab, W) /\ Within(vols, W)
          /\ Within(tab, G) /\ Within(vols, G) /\ \A g \in ToSet(todo) : Keeps(G, g)
          /\ W = G \/ (op.k = "create" /\ HasFlush(todo))
    BY <1>1 DEF Room
  <2>2. Inside(W)'
    BY <1>3, <2>1
  <2>3. HasFlush(todo)' <=> HasFlush(todo)
    BY DEF HasFlush
  <2> QED BY <2>1, <2>2, <2>3 DEF Room, Within, Keeps, Commit, Tables
<1> QED BY <1>4, <1>5, <1>6, <1>7 DEF SInv

LEMMA RamRooms == ASSUME IInv, IInv', KInv, SInv, RamStep PROVE SInv'
<1>h. PICK h : h = Head(todo)
  OBVIOUS
<1>1. /\ On /\ todo # <<>> /\ h.o \in {"vtbl", "vol", "back"}
      /\ vols' = IF h.o = "vol" THEN [vols EXCEPT ![h.s] = h.vol] ELSE vols
      /\ todo' = Tail(todo)
      /\ UNCHANGED <<op, peb, up, eba, tab>>
  BY <1>h DEF RamStep, At, Advance, hist, On
<1>2. Goes(h) /\ h.o # "flush" /\ ~Commit(h)
  BY <1>h, <1>1 DEF Goes, On, Commit
<1> QED BY <1>1, <1>2, NothingAdded, RoomyRest

LEMMA FlushRooms == ASSUME IInv, IInv', KInv, SInv, FlushDone PROVE SInv'
<1>h. PICK h : h = Head(todo)
  OBVIOUS
<1>1. /\ On /\ todo # <<>> /\ h.o = "flush" /\ works = <<>> /\ todo' = Tail(todo)
      /\ UNCHANGED <<op, peb, up, vols, eba, tab>>
  BY <1>h DEF FlushDone, At, Advance, hist, On
<1>2. Goes(h) /\ ~Commit(h)
  BY <1>h, <1>1 DEF Goes, On, Commit
<1>3. Inside(vols)
  <2>1. ASSUME NEW p \in Pebs, IsLeb(p), peb[p].v # Layout PROVE peb[p].l < vols[peb[p].v].size
    <3>1. eba[peb[p].v][peb[p].l] = p
      BY <1>1, <2>1 DEF KInv, Owned, ToSet
    <3>2. peb[p].v \in Vols /\ peb[p].l \in Lnums /\ p # None
      <4>1. RamOk /\ peb[p].v \in 0 .. Slots /\ peb[p].l \in Lnums /\ p # None
        BY <2>1, LebFacts DEF IInv, Pebs, None
      <4> QED BY <2>1, <4>1, SizeFacts
    <3> QED BY <1>1, <3>1, <3>2 DEF KInv, Owned
  <2> QED BY <2>1 DEF Inside
<1> QED BY <1>1, <1>2, <1>3, NothingAdded, RoomyRest

LEMMA UnmapRooms == ASSUME IInv, IInv', KInv, SInv, UnmapStep PROVE SInv'
<1>h. PICK h : h = Head(todo)
  OBVIOUS
<1>1. /\ On /\ todo # <<>> /\ h.o = "unmap" /\ todo' = Tail(todo)
      /\ eba' = [eba EXCEPT ![h.v][h.l] = None]
      /\ UNCHANGED <<op, peb, up, vols, tab>>
  BY <1>h DEF UnmapStep, At, Advance, hist, On
<1>2. Goes(h) /\ h.o # "flush" /\ ~Commit(h)
  BY <1>h, <1>1 DEF Goes, On, Commit
<1> QED BY <1>1, <1>2, NothingAdded, RoomyRest

LEMMA WriteRooms == ASSUME IInv, IInv', KInv, SInv, WriteStep PROVE SInv'
<1>0. FlashOk /\ RamOk /\ Plan /\ Sized
  BY DEF IInv, KInv, SInv
<1>h. PICK h : h = Head(todo)
  OBVIOUS
<1>1. /\ On /\ On' /\ todo # <<>> /\ h.o = "write" /\ todo' = Tail(todo) /\ free # {}
      /\ Commits(h) /\ UNCHANGED <<op, up, vols>>
  BY <1>h DEF WriteStep, At, Advance, On
<1>2. PICK p, x : /\ p \in Picks /\ x = Leb(h.v, h.l, sqnum, h.used, h.d)
                  /\ peb' = [peb EXCEPT ![p] = x] /\ eba' = [eba EXCEPT ![h.v][h.l] = p]
  BY <1>1, <1>h DEF WriteStep
<1>3. p \in Pebs
  <2>1. free \subseteq Pebs
    BY <1>0 DEF RamOk
  <2> QED BY <1>1, <1>2, <2>1, PicksFree
<1>4. Goes(h)
  <2>1. tab' = IF Commit(h) THEN h.d.t ELSE tab
    BY <1>1 DEF Commits, Commit, hist
  <2>2. vols' = IF h.o = "vol" THEN [vols EXCEPT ![h.s] = h.vol] ELSE vols
    BY <1>1
  <2>3. \E y \in Pebs : eba' = [eba EXCEPT ![h.v][h.l] = y]
    BY <1>2, <1>3
  <2> QED BY <1>1, <1>h, <2>1, <2>2, <2>3 DEF Goes
<1>5. x.v = h.v /\ x.l = h.l /\ x.used = h.used
  BY <1>2 DEF Leb
<1>6. Adds({x}) /\ Proper(x)
  BY <1>0, <1>1, <1>2, <1>3, <1>5, <1>h, PutAdds, WritesProper
<1>7. Commit(h) => x.v = Layout /\ (op.k = "create" => ~HasFlush(todo))
  BY <1>0, <1>1, <1>5, <1>h, WriteFits DEF Commit
<1> QED BY <1>1, <1>4, <1>6, <1>7, RoomyRest

LEMMA EraseRooms == ASSUME IInv, SInv, EraseStep PROVE SInv'
<1>1. /\ works # <<>> /\ peb' = [peb EXCEPT ![Head(works)] = Free]
      /\ UNCHANGED <<up, vols, todo, op, tab>>
  BY DEF EraseStep, hist
<1>2. Head(works) \in Pebs /\ FlashOk /\ Free.st # "leb"
  BY <1>1, TailFacts DEF IInv, RamOk, Free
<1>3. Adds({}) /\ (On' <=> On)
  BY <1>1, <1>2, PutAdds DEF On
<1> QED BY <1>1, <1>3, RoomyStay

(***************************************************************************)
(* Room while the system goes down and comes up again.                     *)
(***************************************************************************)
LEMMA CutRooms == ASSUME IInv, KInv, SInv, Cut PROVE SInv'
<1>0. FlashOk /\ RamOk /\ Plan /\ Room /\ Lists(tab) /\ Sized /\ Autos
  BY DEF IInv, KInv, SInv, Listed
<1>1. /\ On /\ ~On' /\ peb' \in Halves /\ tab' = tab
      /\ todo' = <<>> /\ op' = NoOp /\ vols' = [v \in Vols |-> NoVol]
  BY DEF Cut, On, RamOff
<1>h. PICK h, t : h = Head(todo) /\ t = tab /\ t = tab'
  BY <1>1
<1>2. PICK X : Adds(X) /\ \A x \in X : Proper(x)
  <2>1. CASE peb' = peb
    <3>1. Adds({})
      BY <2>1, NothingAdded
    <3> QED BY <3>1
  <2>2. CASE At("write") /\ free # {} /\ peb' # peb
    <3>1. PICK p \in Picks, x \in {Corrupt, Leb(h.v, h.l, sqnum, h.used, Torn)} : peb' = [peb EXCEPT ![p] = x]
      BY <1>1, <1>h, <2>2 DEF Halves
    <3>2. p \in Pebs
      <4>1. free \subseteq Pebs
        BY <1>0 DEF RamOk
      <4> QED BY <2>2, <3>1, <4>1, PicksFree
    <3>3. Adds({x}) /\ (x.st # "leb" => Adds({}))
      BY <1>0, <3>1, <3>2, PutAdds
    <3>4. CASE x = Corrupt
      BY <3>3, <3>4 DEF Corrupt
    <3>5. CASE x = Leb(h.v, h.l, sqnum, h.used, Torn)
      <4>1. x.v = h.v /\ x.l = h.l /\ x.used = h.used /\ todo # <<>> /\ h.o = "write"
        BY <1>h, <2>2, <3>5 DEF Leb, At
      <4>2. Proper(x)
        BY <1>0, <1>1, <1>h, <4>1, WritesProper
      <4> QED BY <3>3, <4>2
    <3> QED BY <3>1, <3>4, <3>5
  <2>3. CASE works # <<>> /\ peb' = [peb EXCEPT ![Head(works)] = Corrupt]
    <3>1. Head(works) \in Pebs /\ Corrupt.st # "leb"
      BY <1>0, <2>3, TailFacts DEF RamOk, Corrupt
    <3>2. Adds({})
      BY <1>0, <2>3, <3>1, PutAdds
    <3> QED BY <3>2
  <2> QED BY <1>1, <2>1, <2>2, <2>3 DEF Halves
<1>3. ToSet(todo') = {} /\ op'.k = "none" /\ \A v \in Vols : vols'[v].size = 0
  BY <1>1 DEF ToSet, NoOp, NoVol
<1>4. \A x \in X : x.v = Layout \/ (x.v \in Vols /\ x.l \in Nat /\ x.l < t[x.v].size)
  BY <1>2, <1>h DEF Proper
<1>5. Room'
  <2>1. PICK W \in Tables : Reserved(W) + 4 <= NumPebs /\ Inside(W) /\ Within(tab, W)
    BY <1>0 DEF Room
  <2>2. \A v \in Vols : W[v].size \in Nat /\ t[v].size \in Nat /\ t[v].size <= W[v].size
    BY <1>0, <1>h, <2>1, SizeFacts DEF Within
  <2>3. \A x \in X : x.v # Layout => x.l < W[x.v].size
    BY <1>4, <2>2
  <2>4. Inside(W)'
    BY <1>2, <2>1, <2>3, InsideRest
  <2>5. Within(tab', W) /\ Within(vols', W)
    BY <1>3, <1>h, <2>2 DEF Within
  <2> QED BY <1>3, <2>1, <2>4, <2>5 DEF Room, Within, Keeps
<1>6. Listed'
  <2>1. \A x \in X : /\ x.v = Layout => x.l \in {0, 1}
                     /\ x.v # Layout => x.l < t[x.v].size /\ x.used <= t[x.v].size
    BY <1>2, <1>h DEF Proper
  <2>2. Lists(t)'
    BY <1>0, <1>2, <1>h, <2>1, ListsRest
  <2> QED BY <1>h, <2>2 DEF Listed, Lists
<1>7. Autos'
  <2>1. \A u, v \in Vols : t[u].auto /\ t[v].auto => u = v
    BY <1>0, <1>h DEF Autos
  <2>2. ASSUME NEW v \in Vols, t[v].auto PROVE Inside(t)'
    <3>1. Inside(t)
      BY <1>0, <1>h, <2>2 DEF Autos
    <3>2. \A x \in X : x.v # Layout => x.l < t[x.v].size
      BY <1>4
    <3> QED BY <1>2, <3>1, <3>2, InsideRest
  <2> QED BY <1>1, <1>3, <1>h, <2>1, <2>2 DEF Autos, Inside, IsLeb
<1> QED BY <1>3, <1>5, <1>6, <1>7 DEF SInv, Sized

LEMMA RestoreRooms == ASSUME IInv, SInv, Restore PROVE SInv'
<1>0. FlashOk /\ RamOk /\ TableKept /\ Unformatted /\ formatted \in BOOLEAN
  BY DEF IInv, RamOk
<1>1. PICK r, p, w :
        /\ r = ToRestore(Scan) /\ w = Leb(Layout, r.i, MaxSq + 1, 0, r.d)
        /\ p = IF Scan.free # {} THEN Min(Scan.free)
               ELSE IF Scan.erase # <<>> THEN Head(Scan.erase) ELSE Head(Scan.corr)
  OBVIOUS
<1>2. /\ r # Nothing /\ Spare(Scan) # {}
      /\ \/ peb' = [peb EXCEPT ![p] = w]
         \/ \E x \in {Free, Corrupt, [w EXCEPT !.d = Torn]} : peb' = [peb EXCEPT ![p] = x]
      /\ UNCHANGED <<up, vols, todo, op, tab>>
  BY <1>1 DEF Restore, ram
<1>3. p \in Pebs
  <2>1. p \in Spare(Scan)
    BY <1>0, <1>1, <1>2, SparePicked
  <2> QED BY <1>0, <2>1, SpareIs
<1>4. r.i \in {0, 1}
  BY <1>0, <1>1, <1>2, RestoreIs
<1>5. PICK x : peb' = [peb EXCEPT ![p] = x] /\ x \in {Free, Corrupt, w, [w EXCEPT !.d = Torn]}
  BY <1>2
<1>6. x.st = "leb" => x.v = Layout /\ x.l \in {0, 1}
  BY <1>1, <1>4, <1>5 DEF Free, Corrupt, Leb
<1>7. Adds({x}) /\ (x.st # "leb" => Adds({}))
  BY <1>0, <1>3, <1>5, PutAdds
<1>8. On' <=> On
  BY <1>2 DEF On
<1> QED BY <1>2, <1>6, <1>7, <1>8, RoomyStay

(***************************************************************************)
(* Room when an operation starts.                                          *)
(***************************************************************************)
LEMMA StartRooms ==
  ASSUME IInv, Accounts, KInv, SInv, On, On', todo = <<>>, peb' = peb, tab' = tab,
         \A v \in Vols : vols'[v].size = vols[v].size,
         \/ \A W \in Tables : Within(tab, W) => \A h \in ToSet(todo') : Keeps(W, h)
         \/ /\ op'.k = "create" /\ HasFlush(todo')
            /\ \E G \in Tables : /\ Reserved(G) + 4 <= NumPebs /\ Within(tab, G)
                                 /\ \A h \in ToSet(todo') : Keeps(G, h),
         Sized', \A h \in ToSet(todo') : Commit(h) => ~h.d.t[op'.s].auto
  PROVE  SInv'
<1>1. Room /\ Listed /\ Autos
  BY DEF SInv
<1>2. \A v \in Vols : vols'[v].size = tab[v].size /\ vols[v].size = tab[v].size
  BY IdleIs
<1>3. ToSet(todo) = {}
  BY DEF ToSet
<1>4. PICK W \in Tables : Reserved(W) + 4 <= NumPebs /\ Inside(W) /\ Within(tab, W)
  BY <1>1 DEF Room
<1>5. PICK G \in Tables :
        /\ Reserved(G) + 4 <= NumPebs /\ Within(tab, G) /\ \A h \in ToSet(todo') : Keeps(G, h)
        /\ W = G \/ (op'.k = "create" /\ HasFlush(todo'))
  BY <1>4
<1>6. Room'
  <2>1. Inside(W)'
    BY <1>4, NothingAdded, InsideRest
  <2>2. /\ Within(tab', W) /\ Within(vols', W) /\ Within(tab', G) /\ Within(vols', G)
    BY <1>2, <1>4, <1>5 DEF Within
  <2> QED BY <1>4, <1>5, <2>1, <2>2 DEF Room, Within, Keeps, Commit, HasFlush
<1>7. Listed'
  BY <1>1 DEF Listed, Lists, IsLeb
<1>8. Autos'
  <2>1. \A v \in Vols : ~tab[v].auto
    BY <1>1, <1>3 DEF Autos
  <2> QED BY <2>1 DEF Autos, Commit
<1> QED BY <1>6, <1>7, <1>8 DEF SInv

\* A step of a change to the table t.
LEMMA CalmIs ==
  ASSUME NEW t, NEW h, Calm(t, h)
  PROVE  (Commit(h) => h.d.t = t) /\ h.o # "vol" /\ ~Touch(h)
BY Contradistinct DEF Calm, Commit, Touch

LEMMA CreateRooms ==
  ASSUME IInv, Accounts, KInv, SInv, NEW n \in Sizes, n # 0, NEW type \in {"static", "dynamic"},
         CreateVol(n, type)
  PROVE  SInv'
<1>1. PICK s \in Vols : vols[s] = NoVol /\ todo' = Make(s, n, type) /\ op' = [k |-> "create", s |-> s]
  BY DEF CreateVol, Start
<1>2. On /\ On' /\ todo = <<>> /\ n <= avail /\ UNCHANGED <<peb, vols, tab>>
  BY DEF CreateVol, Ready, On, hist
<1>3. /\ Vtbls /\ vtbl = tab /\ tab \in Tables /\ RamOk
      /\ \A v \in Vols : vols[v].size = vtbl[v].size
  BY <1>2, IdleIs DEF IInv
<1>4. PICK u, t : u = todo' /\ u = Make(s, n, type) /\ t = [vtbl EXCEPT ![s] = Rec(n, type, FALSE)]
  BY <1>1
<1>5. /\ HasFlush(u) /\ \A h \in ToSet(u) : Makes(t, s, n, h)
      /\ t \in Tables /\ ~t[s].auto /\ t[s].size = n /\ \A v \in Vols : v # s => t[v] = vtbl[v]
  <2>1. Vtbls /\ n \in Sizes /\ n # 0 /\ type \in Types
    BY <1>3 DEF Types
  <2>2. u = Make(s, n, type) /\ t = [vtbl EXCEPT ![s] = Rec(n, type, FALSE)]
    BY <1>4
  <2>3. HasFlush(u)
    BY <2>1, <2>2, MakeIs, Zenon
  <2>4. \A h \in ToSet(u) : Makes(t, s, n, h)
    BY <2>1, <2>2, MakeIs, Zenon
  <2>5. t \in Tables /\ ~t[s].auto /\ t[s].size = n /\ \A v \in Vols : v # s => t[v] = vtbl[v]
    <3>1. /\ Rec(n, type, FALSE) \in [size : Sizes, type : Types, upd : BOOLEAN, auto : BOOLEAN]
          /\ ~Rec(n, type, FALSE).auto /\ Rec(n, type, FALSE).size = n
      BY <2>1 DEF Rec
    <3> QED BY <2>1, <2>2, <3>1 DEF Vtbls, Tables
  <2> QED BY <2>3, <2>4, <2>5
<1>6. op'.k = "create" /\ op'.s = s /\ todo' = u
  BY <1>1, <1>4
<1>7. tab[s].size = 0 /\ n \in Nat /\ \A v \in Vols : tab[v].size \in Nat
  BY <1>1, <1>3, SizesNat, SizeFacts DEF NoVol
<1>8. Within(tab, t)
  BY <1>3, <1>5, <1>7 DEF Within
<1>9. Reserved(t) + 4 <= NumPebs
  <2>1. PICK a, b, c, k : a = avail /\ b = rsvd /\ c = Reserved(vtbl) /\ k = Reserved(t)
    OBVIOUS
  <2>2. a + b + 4 + c = NumPebs /\ c \in Nat
    BY <1>2, <2>1, IdleBooks
  <2>3. k \in Nat /\ k = c + n
    <3>1. \A v \in Vols : v # s => t[v].size = vtbl[v].size
      BY <1>5
    <3>2. k \in Nat /\ k = c - vtbl[s].size + t[s].size
      BY <1>3, <1>5, <2>1, <3>1, ReservedSet
    <3> QED BY <1>3, <1>5, <1>7, <2>2, <3>2
  <2>4. a \in Nat /\ b \in Nat
    BY <2>1, UbiVolAssumption DEF Accounts
  <2> QED BY <1>2, <1>7, <2>1, <2>2, <2>3, <2>4, UbiVolAssumption
<1>10. ASSUME NEW h \in ToSet(u) PROVE Keeps(t, h) /\ (Commit(h) => ~h.d.t[s].auto)
  <2>1. \A v \in Vols : t[v].size <= t[v].size
    <3>1. \A v \in Vols : t[v].size \in Nat
      BY <1>3, <1>5, SizeFacts
    <3> QED BY <3>1
  <2>2. CASE h.o = "flush"
    BY <2>2 DEF Keeps, Commit
  <2>3. CASE Calm(t, h)
    BY <1>5, <2>1, <2>3, CalmIs DEF Keeps, Within
  <2>4. CASE Resets(s, n, h)
    BY <1>5, <2>1, <2>4 DEF Keeps, Commit, Resets
  <2> QED BY <1>5, <2>2, <2>3, <2>4 DEF Makes
<1>11. Sized'
  BY <1>6 DEF Sized
<1>12. \A v \in Vols : vols'[v].size = vols[v].size
  BY <1>2
<1>13. \E G \in Tables : /\ Reserved(G) + 4 <= NumPebs /\ Within(tab, G)
                         /\ \A h \in ToSet(todo') : Keeps(G, h)
  BY <1>5, <1>6, <1>8, <1>9, <1>10
<1>14. HasFlush(todo') /\ \A h \in ToSet(todo') : Commit(h) => ~h.d.t[op'.s].auto
  BY <1>5, <1>6, <1>10
<1> QED BY <1>2, <1>6, <1>11, <1>12, <1>13, <1>14, StartRooms

LEMMA RemoveRooms ==
  ASSUME IInv, Accounts, KInv, SInv, NEW s \in Vols, RemoveVol(s)
  PROVE  SInv'
<1>1. todo' = Unmake(s) /\ op' = [k |-> "remove", s |-> s]
  BY DEF RemoveVol, Start
<1>2. On /\ On' /\ todo = <<>> /\ UNCHANGED <<peb, vols, tab>>
  BY DEF RemoveVol, Ready, On, hist
<1>3. Vtbls /\ vtbl = tab /\ tab \in Tables /\ RamOk
  BY <1>2, IdleIs DEF IInv
<1>4. PICK u, t : u = todo' /\ u = Unmake(s) /\ t = [vtbl EXCEPT ![s] = NoRec]
  BY <1>1
<1>5. /\ \A h \in ToSet(u) : Unmakes(t, s, h)
      /\ t \in Tables /\ ~t[s].auto /\ t[s].size = 0 /\ \A v \in Vols : v # s => t[v] = vtbl[v]
  <2>1. Vtbls /\ u = Unmake(s) /\ t = [vtbl EXCEPT ![s] = NoRec]
    BY <1>3, <1>4
  <2>2. \A h \in ToSet(u) : Unmakes(t, s, h)
    BY <2>1, UnmakeIs, Zenon
  <2>3. t \in Tables /\ ~t[s].auto /\ t[s].size = 0 /\ \A v \in Vols : v # s => t[v] = vtbl[v]
    BY <2>1, UnmakeIs, Zenon
  <2> QED BY <2>2, <2>3
<1>6. op'.k = "remove" /\ op'.s = s /\ todo' = u
  BY <1>1, <1>4
<1>7. ASSUME NEW h \in ToSet(u)
      PROVE  /\ \A W \in Tables : Within(tab, W) => Keeps(W, h)
             /\ Commit(h) => ~h.d.t[s].auto
  <2>1. \A W \in Tables : W[s].size \in Nat
    BY <1>3, SizeFacts
  <2>2. CASE Calm(t, h)
    <3>1. \A W \in Tables : Within(tab, W) => Within(t, W)
      BY <1>3, <1>5, <2>1 DEF Within
    <3> QED BY <1>5, <2>2, <3>1, CalmIs DEF Keeps
  <2>3. CASE Frees(s, h) \/ h.o = "back"
    BY <2>3 DEF Keeps, Commit, Frees
  <2>4. CASE Resets(s, 0, h)
    BY <2>1, <2>4 DEF Keeps, Commit, Resets
  <2> QED BY <1>5, <2>2, <2>3, <2>4 DEF Unmakes
<1>8. Sized'
  BY <1>6 DEF Sized
<1>9. \A v \in Vols : vols'[v].size = vols[v].size
  BY <1>2
<1> QED BY <1>2, <1>6, <1>7, <1>8, <1>9, StartRooms

LEMMA UpdateRooms ==
  ASSUME IInv, Accounts, KInv, SInv, NEW s \in Vols, NEW n \in Sizes, WriteVol(s, n)
  PROVE  SInv'
<1>1. /\ todo' = Update(s, n) /\ op' = [k |-> "update", s |-> s] /\ n <= vols[s].size
      /\ vols' = [vols EXCEPT ![s].updating = TRUE]
  BY DEF WriteVol, Start
<1>2. On /\ On' /\ todo = <<>> /\ UNCHANGED <<peb, tab>>
  BY DEF WriteVol, Ready, On, hist
<1>3. /\ Vtbls /\ vtbl = tab /\ tab \in Tables /\ vols \in [Vols -> VolState] /\ RamOk
      /\ \A v \in Vols : vols[v].size = vtbl[v].size /\ ~vols[v].upd
  BY <1>2, IdleIs DEF IInv
<1>4. \A v \in Vols : vols'[v].size = vols[v].size
  BY <1>1, <1>3 DEF VolState
<1>5. PICK u : u = todo' /\ u = Update(s, n)
  BY <1>1
<1>6. \A h \in ToSet(u) : Updates(s, h)
  BY <1>1, <1>3, <1>5, UpdateIs
<1>7. op'.k = "update" /\ op'.s = s /\ todo' = u
  BY <1>1, <1>5
<1>8. PICK N : N = tab[s].size /\ N = vols[s].size /\ N \in Sizes
  BY <1>3 DEF Tables
<1>9. /\ N \in Nat /\ s # Layout /\ \A v \in Vols : ~tab[v].auto
  <2>1. ToSet(todo) = {}
    BY <1>2 DEF ToSet
  <2> QED BY <1>2, <1>3, <1>8, <2>1, SizeFacts DEF SInv, Autos
<1>10. ASSUME NEW b \in BOOLEAN, NEW h, Calm(Marked(s, b), h)
       PROVE  /\ \A W \in Tables : Within(tab, W) => Keeps(W, h)
              /\ Commit(h) => ~h.d.t[s].auto /\ h.d.t[s].size = N
              /\ ~Touch(h)
  <2>1. PICK t : t = Marked(s, b)
    OBVIOUS
  <2>2. t[s].auto = vtbl[s].auto /\ t[s].size = vtbl[s].size /\ \A v \in Vols : v # s => t[v] = vtbl[v]
    BY <1>3, <2>1, MarkedIs
  <2>3. \A W \in Tables : Within(tab, W) => Within(t, W)
    BY <1>3, <2>2 DEF Within
  <2>4. Calm(t, h)
    BY <1>10, <2>1
  <2> QED BY <1>3, <1>8, <1>9, <2>2, <2>3, <2>4, CalmIs DEF Keeps
<1>11. ASSUME NEW h \in ToSet(u)
       PROVE  /\ \A W \in Tables : Within(tab, W) => Keeps(W, h)
              /\ Commit(h) => ~h.d.t[s].auto /\ h.d.t[s].size = N
              /\ Touch(h) /\ h.o = "write" => h.l < N /\ h.used <= N
  <2>1. CASE Calm(Marked(s, TRUE), h) \/ Calm(Marked(s, FALSE), h)
    BY <1>10, <2>1
  <2>2. CASE Resets(s, vols[s].size, h)
    <3>1. \A W \in Tables : Within(tab, W) => N <= W[s].size
      BY <1>8 DEF Within
    <3> QED BY <1>8, <2>2, <3>1 DEF Keeps, Commit, Touch, Resets
  <2>3. CASE Frees(s, h) \/ h.o = "flush"
    BY <2>3 DEF Keeps, Touch, Commit, Frees
  <2>4. CASE Fills(s, h)
    <3>1. h.o = "write" /\ h.v # Layout /\ h.l \in 0 .. N - 1 /\ h.used <= N
      BY <1>8, <1>9, <2>4 DEF Fills
    <3>2. h.l < N
      BY <1>9, <3>1
    <3> QED BY <3>1, <3>2 DEF Keeps, Commit
  <2> QED BY <1>6, <2>1, <2>2, <2>3, <2>4 DEF Updates, Begins, Ends
<1>12. Sized'
  <2>1. N <= N
    BY <1>9
  <2> QED BY <1>2, <1>7, <1>8, <1>11, <2>1 DEF Sized, Commit, Touch
<1> QED BY <1>2, <1>4, <1>7, <1>11, <1>12, StartRooms

LEMMA CommandRooms == ASSUME IInv, Accounts, KInv, SInv, Command PROVE SInv'
<1>1. PICK s \in Vols, n \in 0 .. MaxLebs :
        \/ n > 0 /\ \E type \in {"static", "dynamic"} : CreateVol(n, type)
        \/ RemoveVol(s)
        \/ WriteVol(s, n)
  BY DEF Command
<1>2. n \in Sizes
  BY DEF Sizes
<1>3. CASE n > 0 /\ \E type \in {"static", "dynamic"} : CreateVol(n, type)
  <2>1. n # 0
    BY <1>3
  <2> QED BY <1>2, <1>3, <2>1, CreateRooms
<1> QED BY <1>1, <1>2, <1>3, RemoveRooms, UpdateRooms

(***************************************************************************)
(* Room after an attach.                                                   *)
(***************************************************************************)
\* An attach that there is no volume to resize for.
LEMMA QuietRooms ==
  ASSUME IInv, SInv, up = "off", todo = <<>>, op.k = "none", todo' = <<>>, op' = op,
         peb' = peb, tab' = tab, \A v \in Vols : vols'[v].size = tab[v].size /\ ~tab[v].auto
  PROVE  SInv'
<1>1. Room /\ Listed
  BY DEF SInv
<1>2. ToSet(todo') = {}
  BY DEF ToSet
<1>3. PICK W \in Tables : Reserved(W) + 4 <= NumPebs /\ Inside(W) /\ Within(tab, W)
  BY <1>1 DEF Room
<1>4. Inside(W)'
  BY <1>3, NothingAdded, InsideRest
<1>5. Within(tab', W) /\ Within(vols', W)
  BY <1>3 DEF Within
<1>6. Room'
  BY <1>2, <1>3, <1>4, <1>5 DEF Room, Within, Keeps
<1>7. Listed'
  BY <1>1 DEF Listed, Lists, IsLeb
<1>8. Autos'
  BY <1>2 DEF Autos
<1> QED BY <1>6, <1>7, <1>8 DEF SInv, Sized

LEMMA AttachRooms == ASSUME IInv, IInv', Accounts, KInv, SInv, Attach PROVE SInv'
<1>0. /\ FlashOk /\ RamOk /\ TableKept /\ Unformatted /\ formatted \in BOOLEAN /\ tab \in Tables
      /\ RamOk' /\ Plan /\ Room /\ Listed /\ Autos
  BY DEF IInv, RamOk, KInv, SInv
<1>1. PICK s, t, left, level, resize, v0, n :
        /\ s = Scan /\ t = Copy(s, 0).t /\ left = NumPebs - 2 - Reserved(t)
        /\ level = IF left - 2 < Level THEN left - 2 ELSE Level
        /\ resize = {v \in Vols : t[v].auto} /\ v0 = CHOOSE v \in resize : TRUE
        /\ n = t[v0].size + left - 2 - level
  OBVIOUS
<1>2. /\ up = "off" /\ ~On /\ todo = <<>> /\ op.k = "none"
      /\ UNCHANGED <<peb, tab>>
  BY <1>0 DEF Attach, RamOk, On, Plan, hist
<1>3. up' = "failed" => SInv'
  <2>1. up' = "failed" => UNCHANGED ram
    BY DEF Attach
  <2>2. up' = "failed" => UNCHANGED <<vols, todo, op, tab>> /\ (On' <=> On)
    BY <1>2, <2>1 DEF ram, On
  <2> QED BY <1>2, <2>2, NothingAdded, RoomyStay
<1>4. CASE up' # "failed"
  <2>1. /\ ToRestore(s) = Nothing /\ Copy(s, 0) # Torn /\ On'
        /\ vols' = [v \in Vols |-> InitVol(s, t[v], v)]
        /\ resize = {} => todo' = todo /\ op' = op
        /\ resize # {} => todo' = Grow(t, v0, vols'[v0], n) /\ op' = [k |-> "resize", s |-> v0]
    BY <1>1, <1>4 DEF Attach, Start, On
  <2>2. t = tab /\ t \in Tables
    <3>1. Copy(s, 0) = Table(tab)
      <4>1. ToRestore(s) = Nothing /\ Copy(s, 0) # Torn /\ s = Scan
        BY <1>1, <2>1
      <4> QED BY <1>0, <4>1, RestoreIs
    <3> QED BY <1>0, <1>1, <3>1, Contradistinct
  <2>3. \A v \in Vols : vols'[v].size = t[v].size /\ ~vols'[v].upd
    <3> TAKE v \in Vols
    <3>1. vols'[v] = InitVol(s, t[v], v)
      BY <2>1
    <3>2. InitVol(s, t[v], v).size = t[v].size /\ ~InitVol(s, t[v], v).upd
      BY DEF InitVol, NoVol
    <3> QED BY <3>1, <3>2
  <2>4. CASE resize = {}
    <3>1. todo' = <<>> /\ op' = op /\ \A v \in Vols : vols'[v].size = tab[v].size /\ ~tab[v].auto
      BY <1>1, <1>2, <2>1, <2>2, <2>3, <2>4
    <3> QED BY <1>2, <3>1, QuietRooms
  <2>5. CASE resize # {}
    <3>1. PICK vol, u, G : vol = vols'[v0] /\ u = Grow(t, v0, vol, n) /\ G = Grown(t, v0, n)
      OBVIOUS
    <3>2. v0 \in Vols /\ t[v0].auto
      <4>1. v0 \in resize
        BY <1>1, <2>5
      <4> QED BY <1>1, <4>1
    <3>3. n \in Sizes /\ n \in Nat /\ t[v0].size \in Nat /\ n >= t[v0].size
      <4>1. left = NumPebs - 2 - Reserved(tab) /\ n = tab[v0].size + left - 2 - level
        BY <1>1, <2>2
      <4> QED BY <1>0, <1>1, <2>2, <3>2, <4>1, LeftIs
    <3>4. vol \in VolState /\ ~vol.upd
      BY <1>0, <2>3, <3>1, <3>2 DEF RamOk
    <3>5. /\ u \in Seq(Steps) /\ Ordered("resize", v0, u)
          /\ \A h \in ToSet(u) : Calm(G, h) \/ (Resets(v0, n, h) /\ ~h.vol.upd)
          /\ G \in Tables /\ ~G[v0].auto /\ G[v0].size = n /\ G[v0].upd = t[v0].upd
          /\ \A v \in Vols : v # v0 => G[v] = t[v]
      BY <2>2, <3>1, <3>2, <3>3, <3>4, GrowIs
    <3>6. op'.k = "resize" /\ op'.s = v0 /\ todo' = u /\ tab' = t /\ t = tab
      BY <1>2, <2>1, <2>2, <2>5, <3>1
    <3>7. \E h \in ToSet(u) : Commit(h)
      <4>1. \E h \in ToSet(Change(G)) : Commit(h)
        BY <3>5, ChangeIs
      <4>2. Change(G) \in Seq(Steps) /\ \A w \in VolState : SetVol(v0, w) \in Seq(Steps)
        BY <3>2, <3>5, ChangeIs, VolIs
      <4>3. PICK w \in VolState : u = Change(G) \o SetVol(v0, w)
        <5>1. [vol EXCEPT !.size = n, !.used = IF vol.type = "dynamic" THEN n ELSE @] \in VolState
          BY <3>3, <3>4 DEF VolState
        <5> QED BY <3>1, <5>1 DEF Grow, Grown
      <4>4. ToSet(u) = ToSet(Change(G)) \cup ToSet(SetVol(v0, w))
        BY <4>2, <4>3, JoinFacts
      <4> QED BY <4>1, <4>4
    <3>8. \A v \in Vols : t[v].size \in Nat /\ G[v].size \in Nat /\ t[v].size <= G[v].size
      <4>1. \A v \in Vols : t[v].size \in Nat /\ G[v].size \in Nat
        BY <1>0, <2>2, <3>5, SizeFacts
      <4> QED BY <3>3, <3>5, <4>1
    <3>9. \A v \in Vols : G[v].size <= G[v].size
      BY <3>8
    <3>10. ASSUME NEW h \in ToSet(u)
           PROVE  /\ Keeps(G, h) /\ ~Touch(h)
                  /\ Commit(h) => h.d.t[v0].size = n /\ ~h.d.t[v0].auto
      <4>1. CASE Calm(G, h)
        BY <3>5, <3>9, <4>1, CalmIs DEF Keeps, Within
      <4>2. CASE Resets(v0, n, h)
        BY <3>2, <3>5, <3>9, <4>2 DEF Keeps, Commit, Resets, Touch
      <4> QED BY <3>5, <4>1, <4>2
    <3>11. Inside(t)
      BY <1>0, <3>2, <3>6 DEF Autos
    <3>12. Room'
      <4>1. Inside(G)
        <5>1. ASSUME NEW p \in Pebs, IsLeb(p), peb[p].v # Layout PROVE peb[p].l < G[peb[p].v].size
          <6>1. peb[p].v \in Vols /\ peb[p].l \in Nat
            <7>1. peb[p].v \in 0 .. Slots /\ peb[p].l \in Lnums
              BY <1>0, <5>1, LebFacts
            <7> QED BY <1>0, <5>1, <7>1, SizeFacts, UbiVolAssumption DEF Lnums
          <6>2. peb[p].l < t[peb[p].v].size
            BY <3>11, <5>1 DEF Inside
          <6> QED BY <3>8, <6>1, <6>2
        <5> QED BY <5>1 DEF Inside
      <4>2. Inside(G)'
        BY <1>2, <4>1, NothingAdded, InsideRest
      <4>3. Within(tab', G) /\ Within(vols', G)
        BY <2>3, <3>6, <3>8 DEF Within
      <4>4. Reserved(G) + 4 <= NumPebs
        <5>1. PICK z, k : z = Reserved(tab) /\ k = Reserved(G)
          OBVIOUS
        <5>2. \A v \in Vols : v # v0 => G[v].size = tab[v].size
          BY <3>5, <3>6
        <5>3. z \in Nat /\ k = z - tab[v0].size + G[v0].size
          BY <1>0, <3>2, <3>5, <5>1, <5>2, ReservedSet
        <5>4. k = z - tab[v0].size + n /\ z + 4 <= NumPebs
          BY <3>5, <5>1, <5>3 DEF Accounts
        <5>5. n = tab[v0].size + left - 2 - level /\ left = NumPebs - 2 - z
          BY <1>1, <3>6, <5>1
        <5>6. PICK a : a = tab[v0].size /\ a \in Nat
          BY <3>3, <3>6
        <5>7. level \in Nat /\ left \in Int /\ NumPebs \in Nat
          <6>1. NumPebs \in Nat /\ Level \in Nat /\ z \in Nat
            BY <5>3, UbiVolAssumption
          <6>2. left \in Int /\ left - 2 \in Nat
            BY <5>4, <5>5, <6>1
          <6>3. level = left - 2 \/ level = Level
            BY <1>1
          <6> QED BY <6>1, <6>2, <6>3
        <5>8. k + 4 <= NumPebs
          BY <3>3, <5>3, <5>4, <5>5, <5>6, <5>7
        <5> QED BY <5>1, <5>8
      <4> QED BY <3>5, <3>6, <3>10, <4>2, <4>3, <4>4 DEF Room, Within, Keeps, Commit
    <3>13. Listed'
      BY <1>0, <1>2 DEF Listed, Lists, IsLeb
    <3>14. Sized'
      <4>1. tab'[op'.s].size <= n
        BY <3>3, <3>6
      <4> QED BY <3>3, <3>6, <3>10, <4>1 DEF Sized, Commit, Touch
    <3>15. Autos'
      <4>1. \A v, w \in Vols : t[v].auto /\ t[w].auto => v = w
        BY <1>0, <3>6 DEF Autos
      <4>2. Inside(t)'
        BY <1>2, <3>11, NothingAdded, InsideRest
      <4> QED BY <3>2, <3>6, <3>7, <3>10, <4>1, <4>2 DEF Autos, Commit, Inside, IsLeb
    <3> QED BY <3>12, <3>13, <3>14, <3>15 DEF SInv
  <2> QED BY <2>4, <2>5
<1> QED BY <1>3, <1>4

(***************************************************************************)
(* Room on the flashes the system may start from, and the theorem.         *)
(***************************************************************************)
LEMMA InitRooms == ASSUME Init PROVE SInv
<1>1. /\ ~On /\ todo = <<>> /\ op.k = "none" /\ RamOk /\ FlashOk /\ Reserved(tab) + 4 <= NumPebs /\ tab \in Tables
      /\ \A v \in Vols : vols[v].size = 0
  BY InitHolds, AccountsInit DEF Init, On, NoOp, NoVol, IInv, RamOk, Accounts
<1>2. ToSet(todo) = {}
  BY <1>1 DEF ToSet
<1>3. ASSUME Inside(tab), Listed, \A u, v \in Vols : tab[u].auto /\ tab[v].auto => u = v PROVE SInv
  <2>1. \A v \in Vols : tab[v].size \in Nat /\ tab[v].size <= tab[v].size /\ 0 <= tab[v].size
    BY <1>1, SizeFacts
  <2>2. Within(tab, tab) /\ Within(vols, tab)
    BY <1>1, <2>1 DEF Within
  <2>3. Room
    BY <1>1, <1>2, <1>3, <2>2 DEF Room
  <2>4. Sized /\ Autos
    BY <1>1, <1>2, <1>3 DEF Sized, Autos
  <2> QED BY <1>3, <2>3, <2>4 DEF SInv
<1>4. CASE (\A p \in Pebs : peb[p] = Blank) /\ tab = EmptyTable
  <2>1. \A p \in Pebs : ~IsLeb(p)
    BY <1>4 DEF IsLeb, Blank
  <2>2. \A v \in Vols : ~tab[v].auto
    BY <1>4 DEF EmptyTable, NoRec, Rec
  <2> QED BY <1>3, <2>1, <2>2 DEF Inside, Listed, Lists
<1>5. ASSUME NEW n \in 1 .. MaxLebs, NEW type \in {"static", "dynamic"}, NEW auto \in BOOLEAN,
             n + 4 <= NumPebs, OneVolume(n, type, auto)
      PROVE  SInv
  <2>1. PICK k, used : k = (IF auto THEN 0 ELSE n) /\ used = IF type = "static" THEN k ELSE 0
    OBVIOUS
  <2>2. /\ tab = [EmptyTable EXCEPT ![1] = Rec(n, type, auto)]
        /\ \A p \in Pebs : peb[p] = IF p <= 2 THEN Leb(Layout, p - 1, p, 0, Table(tab))
                                    ELSE IF p - 3 < k THEN Leb(1, p - 3, p, used, Data(0)) ELSE Free
    BY <1>5, <2>1 DEF OneVolume
  <2>3. n \in Nat /\ k \in Nat /\ k <= n /\ used <= n /\ used \in Nat /\ 1 \in Vols /\ NumPebs \in Nat
    BY <2>1, UbiVolAssumption DEF Vols
  <2>4. tab[1].size = n /\ \A v \in Vols : v # 1 => ~tab[v].auto
    BY <2>2, <2>3 DEF EmptyTable, Rec, NoRec
  <2>5. ASSUME NEW p \in Pebs, IsLeb(p)
        PROVE  /\ peb[p].v = Layout => peb[p].l \in {0, 1}
               /\ peb[p].v # Layout => peb[p].v = 1 /\ peb[p].l < n /\ peb[p].used <= n
    <3>1. p \in Nat /\ p >= 1
      BY <2>3 DEF Pebs
    <3>2. CASE p <= 2
      <4>1. peb[p].v = Layout /\ peb[p].l = p - 1
        <5>1. peb[p] = Leb(Layout, p - 1, p, 0, Table(tab))
          BY <2>2, <3>2
        <5> QED BY <5>1 DEF Leb
      <4> QED BY <3>1, <3>2, <4>1
    <3>3. CASE ~(p <= 2)
      <4>1. p - 3 < k
        <5> SUFFICES ASSUME ~(p - 3 < k) PROVE FALSE
          OBVIOUS
        <5>1. peb[p] = Free
          BY <2>2, <3>3
        <5> QED BY <2>5, <5>1 DEF Free, IsLeb
      <4>2. peb[p] = Leb(1, p - 3, p, used, Data(0))
        BY <2>2, <3>3, <4>1
      <4>3. peb[p].v = 1 /\ peb[p].l = p - 3 /\ peb[p].used = used
        BY <4>2 DEF Leb
      <4> QED BY <2>3, <3>1, <4>1, <4>3 DEF Layout
    <3> QED BY <3>2, <3>3
  <2>6. Inside(tab) /\ Listed
    BY <2>4, <2>5 DEF Inside, Listed, Lists
  <2> QED BY <1>3, <2>4, <2>6
<1> QED BY <1>4, <1>5 DEF Init

LEMMA RoomNext == ASSUME IInv, IInv', Accounts, KInv, SInv, [Next]_vars PROVE SInv'
<1>1. CASE Restore
  BY <1>1, RestoreRooms
<1>2. CASE Attach
  BY <1>2, AttachRooms
<1>3. CASE Command
  BY <1>3, CommandRooms
<1>4. CASE RamStep
  BY <1>4, RamRooms
<1>5. CASE UnmapStep
  BY <1>5, UnmapRooms
<1>6. CASE WriteStep
  BY <1>6, WriteRooms
<1>7. CASE EraseStep
  BY <1>7, EraseRooms
<1>8. CASE FlushDone
  BY <1>8, FlushRooms
<1>9. CASE Cut
  BY <1>9, CutRooms
<1>10. CASE UNCHANGED vars
  <2>1. peb' = peb /\ (On' <=> On) /\ UNCHANGED <<vols, todo, op, tab>>
    BY <1>10 DEF vars, ram, hist, On
  <2> QED BY <2>1, NothingAdded, RoomyStay
<1> QED BY <1>1, <1>2, <1>3, <1>4, <1>5, <1>6, <1>7, <1>8, <1>9, <1>10 DEF Next, Step

LEMMA SInvKept == Spec => []SInv
<1>1. Init => SInv
  BY InitRooms
<1>2. IInv /\ IInv' /\ Accounts /\ KInv /\ SInv /\ [Next]_vars => SInv'
  BY RoomNext
<1> QED BY <1>1, <1>2, Inductive, AccountsKept, KInvKept, PTL DEF Spec

\* Once both copies of the volume table have been there, an attach fails only
\* over the headers of a static volume that an update to another size left
\* (scan.c:146).  Whenever the power is lost, it finds an eraseblock for the
\* copy of the table it has to write (vtbl.c:282), a table to read (vtbl.c:438)
\* and no LEB beyond the volume it is of (vtbl.c:639).
THEOREM AttachSucceeds == Spec => []AttachWorks
<1>1. Init => AttachWorks
  BY DEF Init, AttachWorks
<1>2. ASSUME IInv, SInv, AttachWorks, [Next]_vars PROVE AttachWorks'
  <2>1. CASE up' # "failed"
    BY <2>1 DEF AttachWorks
  <2>2. CASE up' = "failed" /\ up = "failed"
    <3>1. UNCHANGED vars
      BY <1>2, <2>2 DEF Next, Restore, Attach, Command, Step, CreateVol, RemoveVol, WriteVol, Ready,
                        RamStep, UnmapStep, WriteStep, EraseStep, FlushDone, At, Cut
    <3> QED BY <1>2, <3>1 DEF AttachWorks, Mixed, vars, hist
  <2>3. CASE up' = "failed" /\ up # "failed"
    <3>1. Attach
      BY <1>2, <2>3 DEF Next, Restore, Command, Step, CreateVol, RemoveVol, WriteVol,
                        RamStep, UnmapStep, WriteStep, EraseStep, FlushDone, Cut, vars
    <3>2. peb' = peb /\ formatted' = formatted
      BY <3>1 DEF Attach, hist
    <3> SUFFICES ASSUME formatted, ~Mixed PROVE FALSE
      BY <3>2 DEF AttachWorks, Mixed
    <3>3. /\ Scan.ok /\ Spare(Scan) # {}
          /\ ToRestore(Scan) = Nothing => Copy(Scan, 0) = Table(tab)
          /\ \A v \in Vols : Consistent(Scan, tab[v], v)
      BY <1>2, AttachesWell
    <3>4. ToRestore(Scan) = Nothing
      BY <2>3, <3>1, <3>3 DEF Attach
    <3>5. Copy(Scan, 0) # Torn /\ Copy(Scan, 0).t = tab
      BY <3>3, <3>4, Contradistinct
    <3>6. \A v \in Vols : Consistent(Scan, Copy(Scan, 0).t[v], v)
      BY <3>3, <3>5
    <3> QED BY <2>3, <3>1, <3>3, <3>4, <3>5, <3>6 DEF Attach
  <2> QED BY <2>1, <2>2, <2>3
<1> QED BY <1>1, <1>2, Inductive, SInvKept, PTL DEF Spec

==============================================================================
