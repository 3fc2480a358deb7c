---------------------------- MODULE MCNand_proofs ----------------------------
(***************************************************************************)
(* Proofs about the operations of one NAND device and the transfers around *)
(* its bad blocks, for devices and histories of any size.                  *)
(*                                                                         *)
(* IInv, inductive, says what the cached page has in common with the page  *)
(* on flash; TInv has the types.  SInv, inductive, says what               *)
(* get_len_incl_bad has counted, so that the single transfer meets no bad  *)
(* block and the loop stays on the device unless the count stopped early.  *)
(***************************************************************************)
EXTENDS MCNand, FiniteSetTheorems, TLAPS

-----------------------------------------------------------------------------
(* The page cache.                                                         *)

\* Where the call under way and the cache are.
Places ==
  /\ flash = [p \in Pages |-> flash[p]]
  /\ pagebuf \in Pages \cup {None} /\ page \in Nat /\ last \in Pages
  /\ pc = "write" => page <= last

\* A cache that was not loaded with another page has the rest of its page, and
\* its head up to a status byte; a page with a bad mark never gets there.
CacheRight ==
  pagebuf # None /\ ~foreign /\ flash[pagebuf] # Garbage =>
    /\ rest = flash[pagebuf] /\ head \in {flash[pagebuf], Status}
    /\ flash[pagebuf] # Mark

\* The pages a write has still to program are not cached.
WriteClear == pc = "write" => pagebuf \notin page .. last

\* Only a read has given something.
GivenByRead == pc # "read" => given = Nothing

IInv == Places /\ CacheRight /\ WriteClear /\ GivenByRead /\ ReadsRight

\* Pages are numbers from 0 on.
LEMMA PagesAreNat ==
  /\ Pages \subseteq Nat /\ None \notin Pages /\ 0 \in Pages
  /\ \A q \in Pages : \A p \in Nat : p <= q => p \in Pages
<1>1. NumBlocks * PerBlock \in Nat \ {0}
  <2>1. NumBlocks \in Nat \ {0} /\ PerBlock \in Nat \ {0}
    BY NandIoAssumption
  <2>2. \A m, n \in Nat \ {0} : m * n \in Nat \ {0}
    BY SMT
  <2>. QED  BY <2>1, <2>2
<1>2. \A k \in Nat \ {0} :
        /\ 0 .. k - 1 \subseteq Nat /\ -1 \notin 0 .. k - 1 /\ 0 \in 0 .. k - 1
        /\ \A q \in 0 .. k - 1 : \A p \in Nat : p <= q => p \in 0 .. k - 1
  BY SMT
<1>. QED  BY <1>1, <1>2 DEF Pages, None

\* The pages of a block are numbers, the first one of any block among them.
LEMMA FirstPages == \A b \in 0 .. NumBlocks - 1 : b * PerBlock \in Pages /\ (b + 1) * PerBlock - 1 \in Pages
<1>1. \A n, k \in Nat \ {0} : \A b \in 0 .. n - 1 :
        b * k \in 0 .. n * k - 1 /\ (b + 1) * k - 1 \in 0 .. n * k - 1
  <2>. SUFFICES ASSUME NEW n \in Nat \ {0}, NEW k \in Nat \ {0}, NEW b \in 0 .. n - 1
                PROVE  b * k \in 0 .. n * k - 1 /\ (b + 1) * k - 1 \in 0 .. n * k - 1
    OBVIOUS
  <2>1. PICK d \in Nat : n = b + 1 + d
    <3>1. n - b - 1 \in Nat /\ n = b + 1 + (n - b - 1)
      OBVIOUS
    <3>. QED  BY <3>1
  <2>2. n * k = b * k + k + d * k /\ (b + 1) * k = b * k + k
    BY <2>1
  <2>3. b * k \in Nat /\ d * k \in Nat
    BY <2>1
  <2>. QED  BY <2>2, <2>3
<1>. QED  BY <1>1, NandIoAssumption DEF Pages

LEMMA InitRight == Init => IInv
BY PagesAreNat
   DEF Init, IInv, Places, CacheRight, WriteClear, GivenByRead, ReadsRight, Nothing

\* A change of flash away from the cached page, or one that invalidates it, and
\* a status byte at the head of databuf leave the cache right.
LEMMA StatusKeeps ==
  ASSUME Places, CacheRight, head' = Status, UNCHANGED rest,
         \/ pagebuf' = None
         \/ /\ UNCHANGED pagebuf /\ (foreign => foreign')
            /\ pagebuf # None => flash'[pagebuf] = flash[pagebuf]
  PROVE  CacheRight' /\ pagebuf' \in Pages \cup {None}
BY DEF Places, CacheRight

\* Loading databuf leaves the cache right: what it is loaded with is a page
\* without bad mark, or garbage.
LEMMA LoadKeeps ==
  ASSUME NEW c, NEW p \in Pages \cup {None}, Load(c, p), UNCHANGED flash, c # Mark
  PROVE  CacheRight'
<1>1. CASE p = None
  BY <1>1 DEF Load, CacheRight
<1>2. CASE p # None
  BY <1>2 DEF Load, CacheRight
<1>. QED  BY <1>1, <1>2

\* Every step preserves IInv.
LEMMA StepKeeps == IInv /\ [Next]_vars => IInv'
<1>. SUFFICES ASSUME IInv, [Next]_vars  PROVE IInv'
  OBVIOUS
<1>. USE PagesAreNat DEF IInv
<1>g. Garbage # Mark
  BY DEF Garbage, Mark
<1>1. CASE BeginRead
  <2>1. PICK r \in Ranges : Begin("read", r[1], r[2])
    BY <1>1 DEF BeginRead
  <2>2. r[1] \in Pages /\ r[2] \in Pages
    BY DEF Ranges
  <2>3. UNCHANGED <<flash, cache, given>> /\ pc = "idle" /\ pc' = "read" /\ page' = r[1] /\ last' = r[2]
    BY <1>1, <2>1 DEF BeginRead, Begin
  <2>. QED  BY <2>2, <2>3 DEF cache, Places, CacheRight, WriteClear, GivenByRead, ReadsRight
<1>2. CASE ReadCached
  <2>1. /\ pc = "read" /\ page = pagebuf /\ page <= last /\ Give(head, rest, foreign)
        /\ UNCHANGED <<flash, cache>>
    BY <1>2 DEF ReadCached
  <2>2. page \in Pages /\ pagebuf # None
    BY <2>1 DEF Places
  <2>3. Places' /\ CacheRight' /\ WriteClear' /\ GivenByRead'
    BY <2>1 DEF Give, cache, Places, CacheRight, WriteClear, GivenByRead
  <2>4. ReadsRight'
    BY <2>1, <2>2 DEF Give, cache, CacheRight, ReadsRight
  <2>. QED  BY <2>3, <2>4
<1>3. CASE ReadPage
  <2>1. pc = "read" /\ page # pagebuf /\ page <= last /\ UNCHANGED flash
    BY <1>3 DEF ReadPage, AtPage
  <2>2. page \in Pages
    BY <2>1 DEF Places
  <2>3. CASE Return(-1) /\ given' = Nothing /\ (UNCHANGED cache \/ Load(Garbage, pagebuf))
    <3>1. CacheRight'
      BY <2>1, <2>3, <1>g, LoadKeeps DEF cache, CacheRight, Places
    <3>. QED
      BY <2>3, <3>1, <2>1 DEF Return, cache, Load, Places, WriteClear, GivenByRead, ReadsRight
  <2>4. CASE /\ flash[page] # Mark /\ Give(flash[page], flash[page], FALSE)
             /\ (UNCHANGED cache \/ Load(flash[page], page))
    <3>1. CacheRight'
      BY <2>1, <2>2, <2>4, LoadKeeps DEF cache, CacheRight
    <3>2. Places' /\ WriteClear' /\ GivenByRead'
      BY <2>1, <2>2, <2>4 DEF Give, cache, Load, Places, WriteClear, GivenByRead
    <3>3. ReadsRight'
      BY <2>1, <2>4 DEF Give, ReadsRight
    <3>. QED  BY <3>1, <3>2, <3>3
  <2>. QED  BY <1>3, <2>3, <2>4 DEF ReadPage
<1>17. CASE ReadTimeout
  <2>1. pc = "read" /\ page # pagebuf /\ page <= last /\ UNCHANGED flash
    BY <1>17 DEF ReadTimeout, AtPage
  <2>2. page \in Pages
    BY <2>1 DEF Places
  <2>3. PICK taken \in BOOLEAN, c \in {<<head, rest>>, <<Garbage, Garbage>>} :
          /\ IF taken THEN Give(Garbage, Garbage, TRUE) ELSE Return(-1) /\ given' = Nothing
          /\ \/ UNCHANGED cache
             \/ /\ head' = c[1] /\ rest' = c[2] /\ pagebuf' = IF taken THEN page ELSE pagebuf
                /\ foreign' = (pagebuf' # None /\ (foreign \/ taken \/ c # <<head, rest>>))
    BY <1>17 DEF ReadTimeout
  <2>4. pagebuf' \in Pages \cup {None}
    BY <2>2, <2>3 DEF cache, Places
  <2>5. CacheRight'
    <3>1. CASE UNCHANGED cache
      BY <2>1, <3>1 DEF cache, CacheRight
    <3>2. CASE foreign' = (pagebuf' # None /\ (foreign \/ taken \/ c # <<head, rest>>))
               /\ head' = c[1] /\ rest' = c[2] /\ pagebuf' = IF taken THEN page ELSE pagebuf
      <4>1. CASE pagebuf' = None \/ foreign'
        BY <4>1 DEF CacheRight
      <4>2. CASE pagebuf' # None /\ ~foreign'
        <5>1. ~foreign /\ ~taken /\ c = <<head, rest>>
          BY <3>2, <4>2
        <5>2. head' = head /\ rest' = rest /\ pagebuf' = pagebuf
          BY <3>2, <5>1
        <5>. QED  BY <2>1, <5>1, <5>2 DEF CacheRight
      <4>. QED  BY <4>1, <4>2
    <3>. QED  BY <2>3, <3>1, <3>2
  <2>6. page' \in Nat /\ last' \in Pages /\ (pc' = "read" \/ (pc' = "idle" /\ given' = Nothing))
    BY <2>1, <2>2, <2>3 DEF Give, Return, Places
  <2>7. ReadsRight'
    BY <2>1, <2>3 DEF Give, ReadsRight, Nothing
  <2>. QED  BY <2>1, <2>4, <2>5, <2>6, <2>7 DEF Places, WriteClear, GivenByRead
<1>4. CASE ReadDone
  BY <1>4 DEF ReadDone, Return, cache, Places, CacheRight, WriteClear, GivenByRead, ReadsRight
<1>5. CASE ReadOob
  <2>1. Begin("idle", 0, 0) /\ UNCHANGED <<flash, given>>
    BY <1>5 DEF ReadOob, Begin
  <2>2. \/ UNCHANGED cache
        \/ \E c : c # Mark /\ Load(c, pagebuf)
    BY <1>5, <1>g DEF ReadOob
  <2>3. CacheRight' /\ pagebuf' = pagebuf
    BY <2>1, <2>2, LoadKeeps DEF Load, Places, cache, CacheRight
  <2>. QED
    BY <2>1, <2>3 DEF Begin, Places, WriteClear, GivenByRead, ReadsRight
<1>6. CASE BeginWrite
  <2>1. PICK r \in Ranges :
          Begin("write", r[1], r[2]) /\ StatusAndInvalidate(pagebuf \in r[1] .. r[2])
    BY <1>6 DEF BeginWrite
  <2>2. r[1] \in Pages /\ r[2] \in Pages /\ r[1] <= r[2]
    BY DEF Ranges
  <2>3. CacheRight' /\ pagebuf' \in Pages \cup {None}
    BY <2>1, StatusKeeps DEF StatusAndInvalidate, Begin
  <2>4. WriteClear'
    <3>1. r[1] \in Nat /\ r[2] \in Nat
      BY <2>2
    <3>2. None \notin r[1] .. r[2]
      BY <3>1 DEF None
    <3>3. page' = r[1] /\ last' = r[2]
      BY <2>1 DEF Begin
    <3>4. pagebuf' \notin r[1] .. r[2]
      BY <2>1, <3>2 DEF StatusAndInvalidate
    <3>. QED  BY <3>3, <3>4 DEF WriteClear
  <2>. QED
    BY <2>1, <2>2, <2>3, <2>4 DEF Begin, Places, GivenByRead, ReadsRight
<1>7. CASE BeginErase
  <2>1. PICK b \in 0 .. NumBlocks - 1 : \E e \in b .. NumBlocks - 1 :
          Begin("erase", b * PerBlock, e * PerBlock)
    BY <1>7 DEF BeginErase
  <2>2. PICK e \in b .. NumBlocks - 1 : Begin("erase", b * PerBlock, e * PerBlock)
    BY <2>1
  <2>3. e \in 0 .. NumBlocks - 1
    BY NandIoAssumption
  <2>4. page' \in Pages /\ last' \in Pages
    BY <2>2, <2>3, FirstPages DEF Begin
  <2>5. CacheRight' /\ pagebuf' \in Pages \cup {None}
    BY <1>7, <2>2, StatusKeeps DEF BeginErase, StatusAndInvalidate, Begin
  <2>. QED
    BY <2>2, <2>4, <2>5 DEF Begin, Places, WriteClear, GivenByRead, ReadsRight
<1>8. CASE BeginMark
  <2>1. PICK b \in 0 .. NumBlocks - 1 :
          pc = "idle" /\ pc' = "mark" /\ page' = b * PerBlock /\ last' = (b + 1) * PerBlock - 1
    BY <1>8 DEF BeginMark
  <2>2. UNCHANGED <<flash, given>> /\ StatusAndInvalidate(FALSE)
    BY <1>8 DEF BeginMark
  <2>3. CacheRight' /\ pagebuf' \in Pages \cup {None}
    BY <2>2, StatusKeeps DEF StatusAndInvalidate
  <2>. QED
    BY <2>1, <2>2, <2>3, FirstPages DEF Places, WriteClear, GivenByRead, ReadsRight
<1>9. CASE Decay
  <2>1. PICK p \in Pages : flash' = [flash EXCEPT ![p] = Garbage]
    BY <1>9 DEF Decay
  <2>2. pc = "idle" /\ UNCHANGED <<cache, pc, call, given>>
    BY <1>9 DEF Decay
  <2>. QED
    BY <2>1, <2>2 DEF cache, call, Places, CacheRight, WriteClear, GivenByRead, ReadsRight
<1>10. CASE WritePage
  <2>1. pc = "write" /\ UNCHANGED <<cache, given>> /\ page <= last
    BY <1>10 DEF WritePage, Places
  <2>2. PICK c : flash' = [flash EXCEPT ![page] = c]
    BY <1>10 DEF WritePage, Programs
  <2>3. page # pagebuf
    BY <2>1 DEF WriteClear, Places
  <2>4. CASE page = last
    BY <1>10, <2>1, <2>2, <2>3, <2>4
       DEF WritePage, Return, cache, Places, CacheRight, WriteClear, GivenByRead, ReadsRight
  <2>5. CASE page # last
    <3>1. page' = page + 1 /\ UNCHANGED <<pc, last>>
      BY <1>10, <2>5 DEF WritePage
    <3>2. Places' /\ WriteClear'
      BY <2>1, <2>2, <2>5, <3>1 DEF cache, Places, WriteClear
    <3>. QED
      BY <2>1, <2>2, <2>3, <3>1, <3>2 DEF cache, Places, CacheRight, GivenByRead, ReadsRight
  <2>. QED  BY <2>4, <2>5
<1>11. CASE WriteTimeout
  <2>1. /\ pc \in {"write", "mark"} /\ StatusAndInvalidate(page = pagebuf) /\ Return(-1)
        /\ UNCHANGED given
    BY <1>11 DEF WriteTimeout
  <2>2. PICK c : flash' = [flash EXCEPT ![page] = c]
    BY <1>11 DEF WriteTimeout
  <2>3. page # pagebuf /\ pagebuf # None => flash'[pagebuf] = flash[pagebuf]
    BY <2>2 DEF Places
  <2>4. CacheRight' /\ pagebuf' \in Pages \cup {None}
    BY <2>1, <2>3, StatusKeeps DEF StatusAndInvalidate
  <2>. QED
    BY <2>1, <2>2, <2>4 DEF Return, Places, WriteClear, GivenByRead, ReadsRight
<1>12. CASE EraseBad
  BY <1>12 DEF EraseBad, Return, cache, Places, CacheRight, WriteClear, GivenByRead, ReadsRight
<1>13. CASE EraseBlock
  <2>. DEFINE E == PagesOf(BlockOf(page))
  <2>1. /\ pc = "erase" /\ StatusAndInvalidate(pagebuf \in E) /\ UNCHANGED given
        /\ flash' = [p \in Pages |-> IF p \in E THEN Blank ELSE flash[p]]
    BY <1>13 DEF EraseBlock
  <2>e. Return(0) \/ (page # last /\ page' = page + PerBlock /\ UNCHANGED <<pc, last>>)
    BY <1>13 DEF EraseBlock
  <2>. HIDE DEF E
  <2>2. pagebuf \notin E /\ pagebuf # None => flash'[pagebuf] = flash[pagebuf]
    BY <2>1 DEF Places
  <2>3. CacheRight' /\ pagebuf' \in Pages \cup {None}
    BY <2>1, <2>2, StatusKeeps DEF StatusAndInvalidate
  <2>4. page' \in Nat /\ last' \in Pages /\ pc' \in {"idle", "erase"}
    BY <2>1, <2>e, NandIoAssumption DEF Return, Places
  <2>. QED
    BY <2>1, <2>3, <2>4 DEF Places, WriteClear, GivenByRead, ReadsRight
<1>14. CASE EraseFail
  <2>. DEFINE E == PagesOf(BlockOf(page))
  <2>1. /\ pc = "erase" /\ StatusAndInvalidate(pagebuf \in E) /\ Return(-1) /\ UNCHANGED given
    BY <1>14 DEF EraseFail
  <2>2. PICK c : flash' = [p \in Pages |-> IF c = "garbage" /\ p \in E THEN Garbage ELSE flash[p]]
    BY <1>14 DEF EraseFail
  <2>. HIDE DEF E
  <2>3. pagebuf \notin E /\ pagebuf # None => flash'[pagebuf] = flash[pagebuf]
    BY <2>2 DEF Places
  <2>4. CacheRight' /\ pagebuf' \in Pages \cup {None}
    BY <2>1, <2>3, StatusKeeps DEF StatusAndInvalidate
  <2>. QED
    BY <2>1, <2>2, <2>4 DEF Return, Places, WriteClear, GivenByRead, ReadsRight
<1>15. CASE MarkPage
  <2>1. /\ pc = "mark" /\ StatusAndInvalidate(page = pagebuf) /\ UNCHANGED given
    BY <1>15 DEF MarkPage
  <2>2. PICK c : flash' = [flash EXCEPT ![page] = c]
    BY <1>15 DEF MarkPage, Programs
  <2>3. page # pagebuf /\ pagebuf # None => flash'[pagebuf] = flash[pagebuf]
    BY <2>2 DEF Places
  <2>4. CacheRight' /\ pagebuf' \in Pages \cup {None}
    BY <2>1, <2>3, StatusKeeps DEF StatusAndInvalidate
  <2>5. page' \in Nat /\ last' \in Pages /\ pc' \in {"idle", "mark"}
    BY <1>15, <2>1 DEF MarkPage, Return, Places
  <2>. QED
    BY <2>1, <2>2, <2>4, <2>5 DEF Places, WriteClear, GivenByRead, ReadsRight
<1>16. CASE UNCHANGED vars
  BY <1>16 DEF vars, cache, call, Places, CacheRight, WriteClear, GivenByRead, ReadsRight
<1>. QED
  BY <1>1, <1>2, <1>3, <1>4, <1>5, <1>6, <1>7, <1>8, <1>9, <1>10, <1>11, <1>12, <1>13,
     <1>14, <1>15, <1>16, <1>17 DEF Next, Step

-----------------------------------------------------------------------------
(* Types of the device and its cache.                                      *)

\* An erasure goes from block to block, and a call under way was counted.
Erasing ==
  /\ pc = "erase" => \E b, e \in 0 .. NumBlocks - 1 : b <= e /\ page = b * PerBlock /\ last = e * PerBlock
  /\ pc # "idle" => ops > 0

TInv == TypeOK /\ Erasing

LEMMA PagesMore ==
  /\ NumBlocks * PerBlock \in Nat /\ Pages \subseteq 0 .. NumBlocks * PerBlock
  /\ \A p \in Pages : p + 1 \in 0 .. NumBlocks * PerBlock
<1>1. NumBlocks * PerBlock \in Nat
  <2>1. \A m, n \in Nat : m * n \in Nat
    OBVIOUS
  <2> QED BY <2>1, NandIoAssumption
<1>2. \A k \in Nat : 0 .. k - 1 \subseteq 0 .. k /\ \A p \in 0 .. k - 1 : p + 1 \in 0 .. k
  OBVIOUS
<1> QED BY <1>1, <1>2 DEF Pages

LEMMA ContentFacts ==
  /\ Blank \in Contents \ {Status} /\ Mark \in Contents \ {Status} /\ Garbage \in Contents \ {Status}
  /\ \A p \in Pages : ops \in 1 .. MaxOps => <<p, ops>> \in Contents \ {Status}
  /\ Status \in Contents
BY DEF Blank, Mark, Garbage, Status, Contents, Data

LEMMA BlocksMore ==
  ASSUME NEW b \in 0 .. NumBlocks - 1, NEW e \in 0 .. NumBlocks - 1, b <= e, b * PerBlock # e * PerBlock
  PROVE  b + 1 \in 0 .. NumBlocks - 1 /\ b + 1 <= e /\ b * PerBlock + PerBlock = (b + 1) * PerBlock
<1>1. PerBlock \in Nat /\ NumBlocks \in Nat
  BY NandIoAssumption
<1>2. b # e
  OBVIOUS
<1>3. \A i, j \in Nat : i * j + j = (i + 1) * j
  OBVIOUS
<1> QED BY <1>1, <1>2, <1>3

LEMMA ReturnTypes == ASSUME NEW r \in {0, -1}, Return(r)
  PROVE /\ pc' = "idle" /\ ret' \in {0, -1} /\ page' \in 0 .. NumBlocks * PerBlock /\ last' \in Pages
        /\ from' \in BOOLEAN /\ upto' \in BOOLEAN
BY PagesAreNat, PagesMore DEF Return

LEMMA StatusTypes ==
  ASSUME TInv, head' = Status, UNCHANGED rest, pagebuf' \in {None, pagebuf}, foreign' \in BOOLEAN
  PROVE  head' \in Contents /\ rest' \in Contents /\ pagebuf' \in Pages \cup {None} /\ foreign' \in BOOLEAN
BY ContentFacts DEF TInv, TypeOK

LEMMA LoadTypes == ASSUME NEW c \in Contents, NEW p \in Pages \cup {None}, Load(c, p)
  PROVE head' \in Contents /\ rest' \in Contents /\ pagebuf' \in Pages \cup {None} /\ foreign' \in BOOLEAN
BY DEF Load

LEMMA ProgramTypes == ASSUME TInv, NEW p \in Pages, NEW c \in Contents \ {Status}, Programs(p, c)
  PROVE flash' \in [Pages -> Contents \ {Status}] /\ errs' \in 0 .. MaxErr
<1>1. /\ flash \in [Pages -> Contents \ {Status}] /\ errs \in 0 .. MaxErr /\ MaxErr \in Nat
      /\ Garbage \in Contents \ {Status}
  BY ContentFacts, NandIoAssumption DEF TInv, TypeOK
<1> QED BY <1>1 DEF Programs

\* Every step keeps the types.
LEMMA IoTypesKept == ASSUME TInv, IInv, [Next]_vars PROVE TInv'
<1>0. /\ flash \in [Pages -> Contents \ {Status}] /\ bad \subseteq 0 .. NumBlocks - 1
      /\ pagebuf \in Pages \cup {None} /\ head \in Contents /\ rest \in Contents
      /\ pc \in {"idle", "read", "write", "erase", "mark"}
      /\ page \in 0 .. NumBlocks * PerBlock /\ last \in Pages /\ from \in BOOLEAN /\ upto \in BOOLEAN
      /\ ret \in {0, -1} /\ foreign \in BOOLEAN /\ ops \in 0 .. MaxOps /\ errs \in 0 .. MaxErr
      /\ pc # "idle" => ops > 0
  BY DEF TInv, TypeOK, Erasing
<1>n. NumBlocks \in Nat \ {0} /\ PerBlock \in Nat \ {0, 1} /\ MaxOps \in Nat /\ MaxErr \in Nat
  BY NandIoAssumption
<1>w. pc = "write" => page <= last
  BY DEF IInv, Places
<1>p. Pages \subseteq 0 .. NumBlocks * PerBlock /\ \A p \in Pages : p + 1 \in 0 .. NumBlocks * PerBlock
  BY PagesMore
<1>c. pc \in {"read", "write"} /\ page <= last => page \in Pages
  BY <1>0, PagesAreNat DEF IInv, Places
<1>1. CASE BeginRead
  <2>1. PICK r \in Ranges, f, u \in BOOLEAN : Begin("read", r[1], r[2]) /\ from' = f /\ upto' = u
    BY <1>1 DEF BeginRead
  <2>2. r[1] \in Pages /\ r[2] \in Pages
    BY DEF Ranges
  <2>3. ops' \in 0 .. MaxOps /\ ops' > 0
    BY <1>0, <1>n, <2>1 DEF Begin
  <2> QED BY <1>0, <1>1, <1>p, <2>1, <2>2, <2>3 DEF BeginRead, Begin, cache, TInv, TypeOK, Erasing
<1>2. CASE ReadCached
  <2>1. page \in Pages /\ pc = "read" /\ page' = page + 1 /\ from' = FALSE /\ UNCHANGED <<pc, ret, last, upto>>
    BY <1>2, <1>c DEF ReadCached, Give
  <2> QED BY <1>0, <1>2, <1>p, <2>1 DEF ReadCached, cache, TInv, TypeOK, Erasing
<1>3. CASE ReadPage
  <2>1. page \in Pages /\ pc = "read" /\ UNCHANGED <<flash, bad, ops, errs>>
    BY <1>3, <1>c DEF ReadPage, AtPage
  <2>2. flash[page] \in Contents /\ Garbage \in Contents
    BY <1>0, <2>1, ContentFacts
  <2>3. head' \in Contents /\ rest' \in Contents /\ pagebuf' \in Pages \cup {None} /\ foreign' \in BOOLEAN
    <3>1. UNCHANGED cache \/ Load(Garbage, pagebuf) \/ Load(flash[page], page)
      BY <1>3 DEF ReadPage
    <3> QED BY <1>0, <2>1, <2>2, <3>1, LoadTypes DEF cache
  <2>4. CASE Return(-1)
    BY <1>0, <2>1, <2>3, <2>4, ReturnTypes DEF TInv, TypeOK, Erasing
  <2>5. CASE Give(flash[page], flash[page], FALSE)
    <3>1. page' = page + 1 /\ from' = FALSE /\ UNCHANGED <<pc, ret, last, upto>>
      BY <2>5 DEF Give
    <3> QED BY <1>0, <1>p, <2>1, <2>3, <3>1 DEF TInv, TypeOK, Erasing
  <2> QED BY <1>3, <2>4, <2>5 DEF ReadPage
<1>17. CASE ReadTimeout
  <2>1. page \in Pages /\ pc = "read" /\ UNCHANGED <<flash, bad, ops>> /\ errs' \in 0 .. MaxErr
    BY <1>0, <1>n, <1>17, <1>c DEF ReadTimeout, AtPage
  <2>2. PICK taken \in BOOLEAN, c \in {<<head, rest>>, <<Garbage, Garbage>>} :
          /\ IF taken THEN Give(Garbage, Garbage, TRUE) ELSE Return(-1) /\ given' = Nothing
          /\ \/ UNCHANGED cache
             \/ /\ head' = c[1] /\ rest' = c[2] /\ pagebuf' = IF taken THEN page ELSE pagebuf
                /\ foreign' = (pagebuf' # None /\ (foreign \/ taken \/ c # <<head, rest>>))
    BY <1>17 DEF ReadTimeout
  <2>3. c[1] \in Contents /\ c[2] \in Contents
    BY <1>0, ContentFacts
  <2>4. head' \in Contents /\ rest' \in Contents /\ pagebuf' \in Pages \cup {None} /\ foreign' \in BOOLEAN
    BY <1>0, <2>1, <2>2, <2>3 DEF cache
  <2>5. CASE taken
    <3>1. page' = page + 1 /\ from' = FALSE /\ UNCHANGED <<pc, ret, last, upto>>
      BY <2>2, <2>5 DEF Give
    <3> QED BY <1>0, <1>p, <2>1, <2>4, <3>1 DEF TInv, TypeOK, Erasing
  <2>6. CASE ~taken
    BY <1>0, <2>1, <2>2, <2>4, <2>6, ReturnTypes DEF TInv, TypeOK, Erasing
  <2> QED BY <2>5, <2>6
<1>4. CASE ReadDone
  BY <1>0, <1>4, ReturnTypes DEF ReadDone, cache, TInv, TypeOK, Erasing
<1>5. CASE ReadOob
  <2>1. Begin("idle", 0, 0) /\ UNCHANGED <<from, upto>>
    BY <1>5 DEF ReadOob
  <2>2. /\ UNCHANGED cache \/ \E c \in Contents : Load(c, pagebuf)
    BY <1>0, <1>5, ContentFacts DEF ReadOob
  <2>3. head' \in Contents /\ rest' \in Contents /\ pagebuf' \in Pages \cup {None} /\ foreign' \in BOOLEAN
    BY <1>0, <2>2, LoadTypes DEF cache
  <2>4. ops' \in 0 .. MaxOps /\ 0 \in Pages
    BY <1>0, <1>n, <2>1, PagesAreNat DEF Begin
  <2> QED BY <1>0, <1>p, <2>1, <2>3, <2>4 DEF Begin, TInv, TypeOK, Erasing
<1>6. CASE BeginWrite
  <2>1. PICK r \in Ranges : Begin("write", r[1], r[2]) /\ StatusAndInvalidate(pagebuf \in r[1] .. r[2])
    BY <1>6 DEF BeginWrite
  <2>2. r[1] \in Pages /\ r[2] \in Pages
    BY DEF Ranges
  <2>3. ops' \in 0 .. MaxOps /\ ops' > 0
    BY <1>0, <1>n, <2>1 DEF Begin
  <2>4. head' \in Contents /\ rest' \in Contents /\ pagebuf' \in Pages \cup {None} /\ foreign' \in BOOLEAN
    BY <1>0, <2>1, StatusTypes DEF StatusAndInvalidate
  <2> QED BY <1>0, <1>6, <1>p, <2>1, <2>2, <2>3, <2>4 DEF BeginWrite, Begin, TInv, TypeOK, Erasing
<1>7. CASE WritePage
  <2>1. page \in Pages /\ pc = "write" /\ <<page, ops>> \in Contents \ {Status}
    <3>1. page \in Pages /\ ops \in 1 .. MaxOps
      BY <1>0, <1>7, <1>c, <1>n, <1>w DEF WritePage
    <3> QED BY <1>7, <3>1, ContentFacts DEF WritePage
  <2>2. flash' \in [Pages -> Contents \ {Status}] /\ errs' \in 0 .. MaxErr
    BY <1>7, <2>1, ProgramTypes DEF WritePage
  <2>3. CASE page = last
    BY <1>0, <1>7, <2>1, <2>2, <2>3, ReturnTypes DEF WritePage, cache, TInv, TypeOK, Erasing
  <2>4. CASE page # last
    BY <1>0, <1>7, <1>p, <2>1, <2>2, <2>4 DEF WritePage, cache, TInv, TypeOK, Erasing
  <2> QED BY <2>3, <2>4
<1>8. CASE WriteTimeout
  <2>1. flash' \in [Pages -> Contents \ {Status}] /\ errs' \in 0 .. MaxErr
    <3>1. PICK c \in {flash[page], Garbage} : flash' = [flash EXCEPT ![page] = c]
      BY <1>8 DEF WriteTimeout
    <3>2. page \in Pages => c \in Contents \ {Status}
      BY <1>0, <3>1, ContentFacts
    <3>3. flash' \in [Pages -> Contents \ {Status}]
      BY <1>0, <3>1, <3>2
    <3> QED BY <1>0, <1>8, <1>n, <3>3 DEF WriteTimeout
  <2>2. head' \in Contents /\ rest' \in Contents /\ pagebuf' \in Pages \cup {None} /\ foreign' \in BOOLEAN
    BY <1>0, <1>8, StatusTypes DEF WriteTimeout, StatusAndInvalidate
  <2> QED BY <1>0, <1>8, <2>1, <2>2, ReturnTypes DEF WriteTimeout, TInv, TypeOK, Erasing
<1>9. CASE BeginErase
  <2>1. PICK b \in 0 .. NumBlocks - 1 : \E e \in b .. NumBlocks - 1 : Begin("erase", b * PerBlock, e * PerBlock)
    BY <1>9 DEF BeginErase
  <2>2. PICK e \in b .. NumBlocks - 1 : Begin("erase", b * PerBlock, e * PerBlock)
    BY <2>1
  <2>3. e \in 0 .. NumBlocks - 1 /\ b <= e
    BY <1>n, <2>1, <2>2
  <2>4. b * PerBlock \in Pages /\ e * PerBlock \in Pages
    BY <2>3, FirstPages
  <2>5. ops' \in 0 .. MaxOps /\ ops' > 0
    BY <1>0, <1>n, <2>2 DEF Begin
  <2>6. head' \in Contents /\ rest' \in Contents /\ pagebuf' \in Pages \cup {None} /\ foreign' \in BOOLEAN
    BY <1>0, <1>9, StatusTypes DEF BeginErase, StatusAndInvalidate
  <2>7. pc' = "erase" /\ page' = b * PerBlock /\ last' = e * PerBlock /\ UNCHANGED <<flash, bad, ret, errs, from, upto>>
    BY <1>9, <2>2 DEF BeginErase, Begin
  <2>8. Erasing'
    BY <2>3, <2>5, <2>7 DEF Erasing
  <2>9. TypeOK'
    BY <1>0, <1>p, <2>4, <2>5, <2>6, <2>7 DEF TypeOK
  <2> QED BY <2>8, <2>9 DEF TInv
<1>10. CASE EraseBad
  BY <1>0, <1>10, ReturnTypes DEF EraseBad, cache, TInv, TypeOK, Erasing
<1>11. CASE EraseBlock
  <2>1. head' \in Contents /\ rest' \in Contents /\ pagebuf' \in Pages \cup {None} /\ foreign' \in BOOLEAN
    BY <1>0, <1>11, StatusTypes DEF EraseBlock, StatusAndInvalidate
  <2>2. flash' \in [Pages -> Contents \ {Status}] /\ pc = "erase" /\ UNCHANGED <<bad, ops, errs>>
    BY <1>0, <1>11, ContentFacts DEF EraseBlock
  <2>3. CASE page = last
    BY <1>0, <1>11, <2>1, <2>2, <2>3, ReturnTypes DEF EraseBlock, TInv, TypeOK, Erasing
  <2>4. CASE page # last
    <3>1. page' = page + PerBlock /\ UNCHANGED <<pc, ret, last, from, upto>>
      BY <1>11, <2>4 DEF EraseBlock
    <3>2. PICK b, e \in 0 .. NumBlocks - 1 : b <= e /\ page = b * PerBlock /\ last = e * PerBlock
      BY <2>2 DEF TInv, Erasing
    <3>3. b + 1 \in 0 .. NumBlocks - 1 /\ b + 1 <= e /\ page' = (b + 1) * PerBlock
      BY <2>4, <3>1, <3>2, BlocksMore
    <3>4. page' \in Pages
      BY <3>3, FirstPages
    <3>5. Erasing'
      BY <1>0, <2>2, <3>1, <3>2, <3>3 DEF Erasing
    <3>6. TypeOK'
      BY <1>0, <1>p, <2>1, <2>2, <3>1, <3>4 DEF TypeOK
    <3> QED BY <3>5, <3>6 DEF TInv
  <2> QED BY <2>3, <2>4
<1>12. CASE EraseFail
  <2>1. head' \in Contents /\ rest' \in Contents /\ pagebuf' \in Pages \cup {None} /\ foreign' \in BOOLEAN
    BY <1>0, <1>12, StatusTypes DEF EraseFail, StatusAndInvalidate
  <2>2. flash' \in [Pages -> Contents \ {Status}]
    BY <1>0, <1>12, ContentFacts DEF EraseFail
  <2>3. errs' \in 0 .. MaxErr
    <3>1. errs < MaxErr /\ errs' = errs + 1
      BY <1>12 DEF EraseFail
    <3> QED BY <1>0, <1>n, <3>1
  <2> QED BY <1>0, <1>12, <2>1, <2>2, <2>3, ReturnTypes DEF EraseFail, TInv, TypeOK, Erasing
<1>13. CASE BeginMark
  <2>1. PICK b \in (0 .. NumBlocks - 1) \ bad :
          /\ pc = "idle" /\ ops < MaxOps /\ ops' = ops + 1
          /\ bad' = bad \cup {b} /\ pc' = "mark"
          /\ page' = b * PerBlock /\ last' = (b + 1) * PerBlock - 1
    BY <1>13 DEF BeginMark
  <2>2. page' \in Pages /\ last' \in Pages
    BY <2>1, FirstPages
  <2>3. ops' \in 0 .. MaxOps /\ ops' > 0
    BY <1>0, <1>n, <2>1
  <2>4. head' \in Contents /\ rest' \in Contents /\ pagebuf' \in Pages \cup {None} /\ foreign' \in BOOLEAN
    BY <1>0, <1>13, StatusTypes DEF BeginMark, StatusAndInvalidate
  <2> QED BY <1>0, <1>13, <1>p, <2>1, <2>2, <2>3, <2>4 DEF BeginMark, TInv, TypeOK, Erasing
<1>14. CASE MarkPage
  <2>1. pc = "mark" /\ Programs(page, Mark) /\ UNCHANGED <<bad, ops>>
    BY <1>14 DEF MarkPage
  <2>2. flash' \in [Pages -> Contents \ {Status}] /\ errs' \in 0 .. MaxErr
    <3>1. CASE page \in Pages
      BY <2>1, <3>1, ProgramTypes, ContentFacts
    <3>2. CASE page \notin Pages
      BY <1>0, <1>n, <2>1, <3>2 DEF Programs
    <3> QED BY <3>1, <3>2
  <2>3. head' \in Contents /\ rest' \in Contents /\ pagebuf' \in Pages \cup {None} /\ foreign' \in BOOLEAN
    BY <1>0, <1>14, StatusTypes DEF MarkPage, StatusAndInvalidate
  <2>4. CASE page = last
    BY <1>0, <1>14, <2>1, <2>2, <2>3, <2>4, ReturnTypes DEF MarkPage, TInv, TypeOK, Erasing
  <2>5. CASE page # last
    <3>1. /\ page' = IF page + 1 < last /\ page % PerBlock = 0 THEN page + 1 ELSE last
          /\ UNCHANGED <<pc, ret, last, from, upto>>
      BY <1>14, <2>5 DEF MarkPage
    <3>2. page' \in 0 .. NumBlocks * PerBlock
      <4>1. NumBlocks * PerBlock \in Nat /\ last \in 0 .. NumBlocks * PerBlock
        BY <1>0, <1>p, PagesMore
      <4> QED BY <1>0, <3>1, <4>1
    <3> QED BY <1>0, <2>1, <2>2, <2>3, <3>1, <3>2 DEF TInv, TypeOK, Erasing
  <2> QED BY <2>4, <2>5
<1>15. CASE Decay
  <2>1. PICK p \in Pages : flash' = [flash EXCEPT ![p] = Garbage]
    BY <1>15 DEF Decay
  <2>2. flash' \in [Pages -> Contents \ {Status}] /\ errs' \in 0 .. MaxErr
    BY <1>0, <1>15, <1>n, <2>1, ContentFacts DEF Decay
  <2> QED BY <1>0, <1>15, <2>2 DEF Decay, cache, call, TInv, TypeOK, Erasing
<1>16. CASE UNCHANGED vars
  BY <1>16 DEF vars, cache, call, TInv, TypeOK, Erasing
<1> QED
  BY <1>1, <1>2, <1>3, <1>4, <1>5, <1>6, <1>7, <1>8, <1>9, <1>10, <1>11, <1>12, <1>13,
     <1>14, <1>15, <1>16, <1>17 DEF Next, Step

-----------------------------------------------------------------------------
(* Transfers around bad blocks.                                            *)

PageSeq == Seq(0 .. Size - 1)

\* The good pages counted so far could be listed.
Counted(o) == \E s \in PageSeq : Len(s) = excl /\ Lists(s, start, o)

\* get_len_incl_bad is at a block within the device.
Counting == step \in {"count", "decide"} =>
  /\ offset = start + incl /\ offset <= Size /\ excl <= incl
  /\ length = asked /\ left = asked /\ asked > 0 /\ moved = <<>> /\ result = 0
  /\ Counted(offset)
  /\ step = "count" => offset < Size /\ excl < length
  /\ step = "decide" => (excl >= length \/ fewer) /\ (offset = Size => NoRoom)

\* The count found as many good pages as the transfer is to take, and the
\* transfer has taken the first ones.
Going == step \in {"fast", "loop"} =>
  /\ start + incl < Size /\ length = asked /\ asked > 0 /\ result = 0
  /\ Counted(start + incl)
  /\ excl >= length \/ fewer
  /\ step = "fast" => incl = length /\ offset = start /\ moved = <<>>
  /\ step = "loop" => /\ incl # length /\ Len(moved) + left = length /\ offset >= start
                      /\ offset <= Size => Lists(moved, start, offset)
                      /\ offset > Size  => Lists(moved, start, Size)

SInv == SkipTypeOK /\ Counting /\ Going /\ Skipped

(***************************************************************************)
(* Blocks and pages.                                                       *)
(***************************************************************************)
LEMMA DivInt == ASSUME NEW k \in Nat \ {0}, NEW o \in Nat PROVE o \div k \in Int
OBVIOUS

LEMMA ModRange == ASSUME NEW k \in Nat \ {0}, NEW o \in Nat PROVE o % k \in 0 .. k - 1
OBVIOUS

LEMMA DivMod ==
  ASSUME NEW k \in Nat \ {0}, NEW o \in Nat
  PROVE  o % k = o - k * (o \div k)
BY DivInt

LEMMA DivUnique ==
  ASSUME NEW k \in Nat \ {0}, NEW q \in Nat, NEW r \in 0 .. k - 1
  PROVE  (k * q + r) \div k = q
OBVIOUS

LEMMA DivNat == ASSUME NEW k \in Nat \ {0}, NEW o \in Nat PROVE o \div k \in Nat
<1> DEFINE q == o \div k
           m == o % k
<1>1. q \in Int /\ m \in 0 .. k - 1 /\ m = o - k * q
  BY DivInt, ModRange, DivMod
<1> HIDE DEF q, m
<1>2. ASSUME q < 0 PROVE FALSE
  <2>1. k * q <= 0 - k
    BY <1>1, <1>2
  <2> QED BY <1>1, <2>1
<1>3. q \in Nat
  BY <1>1, <1>2
<1> QED BY <1>3 DEF q

\* A device has whole blocks, and the pages up to the end of a block are in it.
LEMMA BlockFacts ==
  /\ Size \in Nat \ {0} /\ SkipPer \in Nat \ {0}
  /\ \A o \in Nat : ToBlockEnd(o) \in 1 .. SkipPer
  /\ \A o \in 0 .. Size - 1 :
       /\ o + ToBlockEnd(o) <= Size
       /\ \A p \in o .. o + ToBlockEnd(o) - 1 : p \div SkipPer = o \div SkipPer
<1> DEFINE k == SkipPer
           n == SkipBlocks
<1>a. k \in Nat \ {0} /\ n \in Nat \ {0}
  BY NandSkipAssumption
<1>b. Size = n * k
  BY DEF Size
<1> HIDE DEF k, n
<1>1. n * k \in Nat \ {0}
  BY <1>a
<1>2. ASSUME NEW o \in Nat PROVE ToBlockEnd(o) = k - (o % k) /\ ToBlockEnd(o) \in 1 .. k
  <2>1. o % k \in 0 .. k - 1
    BY <1>a, ModRange
  <2>2. ToBlockEnd(o) = k - (o % k)
    BY DEF ToBlockEnd, k
  <2> QED BY <1>a, <2>1, <2>2
<1>3. ASSUME NEW o \in 0 .. n * k - 1
      PROVE  /\ o + (k - (o % k)) <= n * k
             /\ \A p \in o .. o + (k - (o % k)) - 1 : p \div k = o \div k
  <2> DEFINE q == o \div k
             m == o % k
  <2>0. o \in Nat
    BY <1>1
  <2>1. q \in Nat /\ m \in 0 .. k - 1 /\ m = o - k * q
    BY <1>a, <2>0, DivNat, ModRange, DivMod
  <2> HIDE DEF q, m
  <2>2. o = k * q + m /\ k * q \in Nat
    BY <1>a, <2>1
  <2>3. q < n
    <3> SUFFICES ASSUME n <= q PROVE FALSE
      BY <1>a, <2>1
    <3>1. k * n <= k * q
      BY <1>a, <2>1
    <3>2. k * n = n * k
      BY <1>a
    <3> QED BY <1>1, <2>1, <2>2, <3>1, <3>2
  <2>4. k * q + k <= n * k
    <3>1. PICK d \in Nat : n = q + 1 + d
      <4>1. n - q - 1 \in Nat /\ n = q + 1 + (n - q - 1)
        BY <1>a, <2>1, <2>3
      <4> QED BY <4>1
    <3>2. n * k = k * q + k + d * k /\ d * k \in Nat
      BY <1>a, <2>1, <3>1
    <3> QED BY <1>1, <1>a, <2>2, <3>2
  <2>5. o + (k - m) <= n * k
    BY <1>a, <1>1, <2>1, <2>2, <2>4
  <2>6. ASSUME NEW p \in o .. o + (k - m) - 1 PROVE p \div k = q
    <3> DEFINE r == p - k * q
    <3>1. r \in 0 .. k - 1 /\ p = k * q + r
      BY <1>a, <2>1, <2>2
    <3> HIDE DEF r
    <3>2. (k * q + r) \div k = q
      BY <1>a, <2>1, <3>1, DivUnique
    <3> QED BY <3>1, <3>2
  <2> QED BY <2>5, <2>6 DEF q, m
<1>4. \A o \in 0 .. n * k - 1 : o \in Nat
  BY <1>1
<1> QED BY <1>a, <1>b, <1>1, <1>2, <1>3, <1>4 DEF k

\* The rest of the block of a page of the device.
LEMMA BlockRest ==
  ASSUME NEW o \in Nat, o < Size
  PROVE  /\ ToBlockEnd(o) \in Nat /\ ToBlockEnd(o) > 0
         /\ o + ToBlockEnd(o) <= Size /\ o + ToBlockEnd(o) \in Nat
         /\ \A p \in o .. (o + ToBlockEnd(o)) - 1 : p \div SkipPer = o \div SkipPer
<1> DEFINE n == ToBlockEnd(o)
<1>1. o \in 0 .. Size - 1
  BY BlockFacts
<1>2. n \in 1 .. SkipPer /\ SkipPer \in Nat /\ o + n <= Size
  BY <1>1, BlockFacts
<1>3. n \in Nat /\ n > 0 /\ o + n \in Nat
  <2> HIDE DEF n
  <2> QED BY <1>2
<1>4. \A p \in o .. o + n - 1 : p \div SkipPer = o \div SkipPer
  BY <1>1, BlockFacts
<1>5. \A p \in o .. (o + n) - 1 : p \div SkipPer = o \div SkipPer
  <2> HIDE DEF n
  <2>1. (o + n) - 1 = o + n - 1
    BY <1>3
  <2> QED BY <1>4, <2>1
<1> QED BY <1>2, <1>3, <1>5

(***************************************************************************)
(* Lists of good pages.                                                    *)
(***************************************************************************)
\* The pages a transfer of n pages from o on goes to.
Run(o, n) == [i \in 1 .. n |-> (o + i) - 1]

LEMMA RunFacts ==
  ASSUME NEW s \in PageSeq, NEW o \in Nat, NEW n \in Nat, o + n <= Size
  PROVE  /\ s \o Run(o, n) \in PageSeq /\ Len(s \o Run(o, n)) = Len(s) + n
         /\ Len(s) \in Nat /\ DOMAIN s = 1 .. Len(s)
         /\ \A i \in 1 .. Len(s) : (s \o Run(o, n))[i] = s[i]
         /\ \A i \in Len(s) + 1 .. Len(s) + n : (s \o Run(o, n))[i] = (o + (i - Len(s))) - 1
<1> DEFINE r == Run(o, n)
<1>1. Size \in Nat
  BY BlockFacts
<1>2. r \in PageSeq /\ Len(r) = n
  <2>1. \A i \in 1 .. n : (o + i) - 1 \in 0 .. Size - 1
    BY <1>1
  <2> QED BY <2>1 DEF Run, PageSeq
<1>3. \A i \in 1 .. n : r[i] = (o + i) - 1
  BY DEF Run
<1> HIDE DEF r
<1>4. Len(s) \in Nat /\ DOMAIN s = 1 .. Len(s)
  BY DEF PageSeq
<1>5. s \o r \in PageSeq /\ Len(s \o r) = Len(s) + n
  BY <1>2 DEF PageSeq
<1>6. \A i \in 1 .. Len(s) : (s \o r)[i] = s[i]
  BY <1>2, <1>4 DEF PageSeq
<1>7. ASSUME NEW i \in Len(s) + 1 .. Len(s) + n
      PROVE  (s \o r)[i] = (o + (i - Len(s))) - 1
  <2>1. i - Len(s) \in 1 .. n
    BY <1>4
  <2>2. (s \o r)[i] = r[i - Len(s)]
    BY <1>2, <1>4, <2>1 DEF PageSeq
  <2> QED BY <1>3, <2>1, <2>2
<1> QED BY <1>4, <1>5, <1>6, <1>7 DEF r

LEMMA RunLength ==
  ASSUME NEW s \in PageSeq, NEW o \in Nat, NEW n \in Nat, o + n <= Size
  PROVE  s \o Run(o, n) \in PageSeq /\ Len(s \o Run(o, n)) = Len(s) + n
BY RunFacts

\* What it means to be listed.
LEMMA ListFacts ==
  ASSUME NEW s \in PageSeq, NEW a \in Nat, NEW o \in Nat
  PROVE  Lists(s, a, o) <=>
           /\ \A i, j \in 1 .. Len(s) : i < j => s[i] < s[j]
           /\ \A i \in 1 .. Len(s) : s[i] \in a .. o - 1 /\ Good(s[i])
           /\ \A p \in a .. o - 1 : Good(p) => \E i \in 1 .. Len(s) : s[i] = p
<1>1. DOMAIN s = 1 .. Len(s)
  BY DEF PageSeq
<1>2. {s[i] : i \in 1 .. Len(s)} = {p \in a .. o - 1 : Good(p)} <=>
        /\ \A i \in 1 .. Len(s) : s[i] \in a .. o - 1 /\ Good(s[i])
        /\ \A p \in a .. o - 1 : Good(p) => \E i \in 1 .. Len(s) : s[i] = p
  OBVIOUS
<1> QED BY <1>1, <1>2 DEF Lists

\* Good pages that follow lengthen the list, bad ones do not.
LEMMA ListMore ==
  ASSUME NEW s \in PageSeq, NEW a \in Nat, NEW o \in Nat, NEW n \in Nat, a <= o, o + n <= Size,
         Lists(s, a, o), \A p \in o .. o + n - 1 : Good(p)
  PROVE  Lists(s \o Run(o, n), a, o + n)
<1> DEFINE t == s \o Run(o, n)
           m == Len(s)
<1>1. /\ t \in PageSeq /\ Len(t) = m + n /\ m \in Nat
      /\ \A i \in 1 .. m : t[i] = s[i]
      /\ \A i \in m + 1 .. m + n : t[i] = (o + (i - m)) - 1
  BY RunFacts
<1>2. /\ \A i, j \in 1 .. m : i < j => s[i] < s[j]
      /\ \A i \in 1 .. m : s[i] \in a .. o - 1 /\ Good(s[i])
      /\ \A p \in a .. o - 1 : Good(p) => \E i \in 1 .. m : s[i] = p
  BY ListFacts
<1> HIDE DEF t, m
<1>3. \A i \in 1 .. m + n : i \in 1 .. m \/ i \in m + 1 .. m + n
  BY <1>1
<1>4. ASSUME NEW i \in m + 1 .. m + n PROVE t[i] \in o .. o + n - 1
  BY <1>1
<1>5. ASSUME NEW i \in 1 .. m + n, NEW j \in 1 .. m + n, i < j PROVE t[i] < t[j]
  <2>1. CASE i \in 1 .. m /\ j \in 1 .. m
    BY <1>1, <1>2, <1>5, <2>1
  <2>2. CASE i \in 1 .. m /\ j \in m + 1 .. m + n
    <3>1. t[i] \in a .. o - 1
      BY <1>1, <1>2, <2>2
    <3>2. t[j] \in o .. o + n - 1
      BY <1>4, <2>2
    <3> QED BY <3>1, <3>2
  <2>3. CASE i \in m + 1 .. m + n /\ j \in m + 1 .. m + n
    BY <1>1, <1>5, <2>3
  <2>4. CASE i \in m + 1 .. m + n /\ j \in 1 .. m
    BY <1>1, <1>5, <2>4
  <2> QED BY <1>3, <2>1, <2>2, <2>3, <2>4
<1>6. ASSUME NEW i \in 1 .. m + n PROVE t[i] \in a .. o + n - 1 /\ Good(t[i])
  <2>1. CASE i \in 1 .. m
    <3>1. t[i] = s[i] /\ s[i] \in a .. o - 1 /\ Good(s[i])
      BY <1>1, <1>2, <2>1
    <3> QED BY <3>1
  <2>2. CASE i \in m + 1 .. m + n
    BY <1>4, <2>2
  <2> QED BY <1>3, <2>1, <2>2
<1>7. ASSUME NEW p \in a .. o + n - 1, Good(p) PROVE \E i \in 1 .. m + n : t[i] = p
  <2>1. CASE p < o
    <3>1. PICK i \in 1 .. m : s[i] = p
      BY <1>2, <1>7, <2>1
    <3>2. i \in 1 .. m + n /\ t[i] = p
      BY <1>1, <3>1
    <3> QED BY <3>2
  <2>2. CASE p >= o
    <3> DEFINE i == m + (p - o) + 1
    <3>1. i \in m + 1 .. m + n /\ i \in 1 .. m + n
      BY <1>1, <2>2
    <3>2. t[i] = (o + (i - m)) - 1
      BY <1>1, <3>1
    <3>3. t[i] = p
      BY <1>1, <3>2
    <3> QED BY <3>1, <3>3
  <2> QED BY <2>1, <2>2
<1>8. o + n \in Nat
  OBVIOUS
<1> DEFINE e == o + n
<1>9. /\ \A i, j \in 1 .. Len(t) : i < j => t[i] < t[j]
      /\ \A i \in 1 .. Len(t) : t[i] \in a .. e - 1 /\ Good(t[i])
      /\ \A p \in a .. e - 1 : Good(p) => \E i \in 1 .. Len(t) : t[i] = p
  BY <1>1, <1>5, <1>6, <1>7
<1> HIDE DEF e
<1>10. Lists(t, a, e)
  BY <1>1, <1>8, <1>9, ListFacts DEF e
<1> QED BY <1>10 DEF t, e

LEMMA ListSame ==
  ASSUME NEW s, NEW a \in Nat, NEW o \in Nat, NEW n \in Nat, a <= o,
         Lists(s, a, o), \A p \in o .. o + n - 1 : ~Good(p)
  PROVE  Lists(s, a, o + n)
<1>1. {p \in a .. o + n - 1 : Good(p)} = {p \in a .. o - 1 : Good(p)}
  OBVIOUS
<1> QED BY <1>1 DEF Lists

LEMMA ListEmpty == ASSUME NEW a \in Nat PROVE <<>> \in PageSeq /\ Lists(<<>>, a, a)
<1>1. a .. a - 1 = {}
  OBVIOUS
<1>2. DOMAIN <<>> = {}
  OBVIOUS
<1> QED BY <1>1, <1>2 DEF Lists, PageSeq

LEMMA IntervalSize ==
  ASSUME NEW n \in Nat, NEW a \in Nat
  PROVE  /\ IsFiniteSet(1 .. n) /\ Cardinality(1 .. n) = n
         /\ IsFiniteSet(a .. a + n - 1) /\ Cardinality(a .. a + n - 1) = n
<1>1. \A x, y \in Int : /\ IsFiniteSet(x .. y)
                        /\ Cardinality(x .. y) = IF x > y THEN 0 ELSE y - x + 1
  BY FS_Interval
<1>2. 1 \in Int /\ n \in Int /\ a \in Int /\ a + n - 1 \in Int
  OBVIOUS
<1>3. IsFiniteSet(1 .. n) /\ Cardinality(1 .. n) = IF 1 > n THEN 0 ELSE n - 1 + 1
  BY <1>1, <1>2
<1>4. /\ IsFiniteSet(a .. a + n - 1)
      /\ Cardinality(a .. a + n - 1) = IF a > a + n - 1 THEN 0 ELSE a + n - 1 - a + 1
  BY <1>1, <1>2
<1>5. (IF 1 > n THEN 0 ELSE n - 1 + 1) = n /\ (IF a > a + n - 1 THEN 0 ELSE a + n - 1 - a + 1) = n
  OBVIOUS
<1> QED BY <1>3, <1>4, <1>5

\* A list is as long as there are pages to list.
LEMMA ListLength ==
  ASSUME NEW s \in PageSeq, NEW a \in Nat, NEW o \in Nat, Lists(s, a, o)
  PROVE  /\ IsFiniteSet({p \in a .. o - 1 : Good(p)})
         /\ Cardinality({p \in a .. o - 1 : Good(p)}) = Len(s)
<1> DEFINE S == {p \in a .. o - 1 : Good(p)}
           D == 1 .. Len(s)
<1>0. Len(s) \in Nat /\ DOMAIN s = 1 .. Len(s)
  BY DEF PageSeq
<1>1. IsFiniteSet(D) /\ Cardinality(D) = Len(s)
  BY <1>0, IntervalSize
<1>2. /\ \A i, j \in D : i < j => s[i] < s[j]
      /\ \A i \in D : s[i] \in S
      /\ \A p \in S : \E i \in D : s[i] = p
  BY ListFacts
<1>3. s \in [D -> S]
  BY <1>0, <1>2 DEF PageSeq
<1>4. ASSUME NEW i \in D, NEW j \in D, s[i] = s[j] PROVE i = j
  <2>1. i \in Int /\ j \in Int /\ s[i] \in Int
    BY <1>0, <1>2
  <2>2. ~(i < j) /\ ~(j < i)
    BY <1>2, <1>4, <2>1
  <2> QED BY <2>1, <2>2
<1>5. s \in Bijection(D, S)
  BY <1>2, <1>3, <1>4 DEF Bijection, Injection, Surjection, IsInjective
<1>6. ExistsBijection(D, S)
  BY <1>5 DEF ExistsBijection
<1> QED BY <1>1, <1>6, FS_Bijection

\* Up to a later page there are no fewer good pages.
LEMMA ListGrows ==
  ASSUME NEW s \in PageSeq, NEW t \in PageSeq, NEW a \in Nat, NEW o \in Nat, NEW b \in Nat,
         o <= b, Lists(s, a, o), Lists(t, a, b)
  PROVE  Len(s) <= Len(t)
<1>1. {p \in a .. o - 1 : Good(p)} \in SUBSET {p \in a .. b - 1 : Good(p)}
  OBVIOUS
<1>2. /\ IsFiniteSet({p \in a .. b - 1 : Good(p)})
      /\ Cardinality({p \in a .. b - 1 : Good(p)}) = Len(t)
      /\ Cardinality({p \in a .. o - 1 : Good(p)}) = Len(s)
  BY ListLength
<1>3. Cardinality({p \in a .. o - 1 : Good(p)}) <= Cardinality({p \in a .. b - 1 : Good(p)})
  BY <1>1, <1>2, FS_Subset
<1> QED BY <1>2, <1>3

\* As many good pages as pages: all are good.
LEMMA ListAll ==
  ASSUME NEW s \in PageSeq, NEW a \in Nat, NEW n \in Nat, Lists(s, a, a + n), Len(s) >= n
  PROVE  \A p \in a .. a + n - 1 : Good(p)
<1> DEFINE S == {p \in a .. a + n - 1 : Good(p)}
           T == a .. a + n - 1
<1>0. a + n \in Nat /\ a + n - 1 \in Int /\ Len(s) \in Nat
  BY DEF PageSeq
<1>1. IsFiniteSet(T) /\ Cardinality(T) = n
  BY IntervalSize
<1>2. Cardinality(S) = Len(s)
  <2>1. Cardinality({p \in a .. (a + n) - 1 : Good(p)}) = Len(s)
    BY <1>0, ListLength
  <2> QED BY <2>1
<1>3. S \in SUBSET T
  OBVIOUS
<1>4. Cardinality(S) <= Cardinality(T) /\ (Cardinality(T) = Cardinality(S) => T = S)
  BY <1>1, <1>3, FS_Subset
<1>5. Cardinality(S) = Cardinality(T)
  BY <1>0, <1>1, <1>2, <1>4
<1> QED BY <1>4, <1>5

\* A list that reaches the last block and is shorter than the image: no room.
LEMMA ListTooShort ==
  ASSUME NEW s \in PageSeq, NEW o \in Nat, start \in Nat, asked \in Nat,
         Size - SkipPer <= o, Lists(s, start, o), Len(s) < asked
  PROVE  NoRoom
<1> DEFINE S == {p \in start .. (Size - SkipPer) - 1 : Good(p)}
           T == {p \in start .. o - 1 : Good(p)}
<1>0. Size \in Nat /\ SkipPer \in Nat
  BY BlockFacts
<1>1. \A p \in start .. (Size - SkipPer) - 1 : p \in start .. o - 1
  BY <1>0
<1>2. S \in SUBSET T
  BY <1>1
<1>3. IsFiniteSet(T) /\ Cardinality(T) = Len(s)
  BY ListLength
<1>4. IsFiniteSet(S) /\ Cardinality(S) <= Cardinality(T)
  BY <1>2, <1>3, FS_Subset
<1>5. Cardinality(S) \in Nat /\ Len(s) \in Nat
  BY <1>4, FS_CardinalityType DEF PageSeq
<1>6. Cardinality(S) < asked
  BY <1>3, <1>4, <1>5
<1> QED BY <1>6 DEF NoRoom

(***************************************************************************)
(* The steps.                                                              *)
(***************************************************************************)
\* What the type invariant says, for the provers.
LEMMA SkipTypes ==
  ASSUME SkipTypeOK
  PROVE  /\ Size \in Nat \ {0} /\ SkipPer \in Nat \ {0}
         /\ start \in Nat /\ start < Size /\ asked \in Nat /\ length \in Nat /\ offset \in Nat
         /\ incl \in Nat /\ excl \in Nat /\ left \in Nat /\ moved \in PageSeq
         /\ asked <= Size /\ length <= Size /\ incl <= Size /\ excl <= Size /\ left <= Size
         /\ offset <= Size + SkipPer
<1>1. Size \in Nat \ {0} /\ SkipPer \in Nat \ {0}
  BY BlockFacts
<1> QED BY <1>1 DEF SkipTypeOK, PageSeq

Numbers ==
  /\ start \in 0 .. Size - 1 /\ asked \in 0 .. Size /\ length \in 0 .. Size
  /\ offset \in 0 .. Size + SkipPer /\ incl \in 0 .. Size /\ excl \in 0 .. Size
  /\ left \in 0 .. Size

Others ==
  /\ badBlocks \subseteq 0 .. SkipBlocks - 1 /\ fewer \in BOOLEAN /\ ended \in BOOLEAN
  /\ step \in {"idle", "count", "decide", "fast", "loop"} /\ result \in {0, -5, -22}
  /\ moved \in PageSeq

LEMMA TypesSplit == SkipTypeOK <=> Numbers /\ Others
BY Zenon DEF SkipTypeOK, Numbers, Others, PageSeq

\* A list stays one as long as the bad blocks do not change.
LEMMA SameLists ==
  ASSUME badBlocks' = badBlocks, NEW s, NEW a, NEW o
  PROVE  (Lists(s, a, o))' <=> Lists(s, a, o)
BY DEF Lists, Good

LEMMA SplitInv ==
  /\ SInv <=> Numbers /\ Others /\ Counting /\ Going /\ Skipped
  /\ SInv' <=> Numbers' /\ Others' /\ Counting' /\ Going' /\ Skipped'
<1>1. SInv <=> Numbers /\ Others /\ Counting /\ Going /\ Skipped
  BY TypesSplit DEF SInv
<1> QED BY <1>1, PTL

LEMMA InitStep == SkipInit => SInv
<1> SUFFICES ASSUME SkipInit PROVE SInv
  OBVIOUS
<1>1. SkipTypeOK
  <2>1. <<>> \in PageSeq
    BY ListEmpty
  <2>3. Others
    BY <2>1 DEF SkipInit, Others
  <2>4. /\ start = 0 /\ asked = 0 /\ length = 0 /\ offset = 0
        /\ incl = 0 /\ excl = 0 /\ left = 0
    BY DEF SkipInit
  <2>5. Numbers
    BY <2>4, BlockFacts DEF Numbers
  <2> QED BY <2>3, <2>5, TypesSplit
<1>2. Skipped
  <2>1. Lists(moved, start, 0) /\ 0 \in start .. Size
    BY BlockFacts, ListEmpty DEF SkipInit
  <2> QED BY <2>1 DEF Skipped, SkipInit
<1>3. Counting /\ Going
  BY DEF SkipInit, Counting, Going
<1> QED BY <1>1, <1>2, <1>3 DEF SInv

LEMMA CallStep == ASSUME SInv, Call PROVE SInv'
<1>1. SkipTypeOK
  BY DEF SInv
<1>2. /\ Size \in Nat \ {0} /\ start' \in 0 .. Size - 1 /\ start' \in Nat /\ asked' \in 1 .. Size
      /\ offset' = start' /\ length' = asked' /\ left' = asked' /\ badBlocks' = badBlocks
      /\ step' = "count" /\ incl' = 0 /\ excl' = 0 /\ moved' = <<>> /\ result' = 0
      /\ fewer' = FALSE /\ ended' = FALSE
  BY BlockFacts DEF Call
<1>3. <<>> \in PageSeq /\ Lists(<<>>, start', start')
  BY <1>2, ListEmpty
<1>4. Numbers'
  BY <1>2, BlockFacts DEF Numbers
<1>5. Others'
  BY <1>1, <1>2, <1>3, TypesSplit DEF Others
<1>6. Counting'
  <2>1. Counted(offset)'
    <3>1. Len(<<>>) = excl'
      BY <1>2
    <3> QED BY <1>2, <1>3, <3>1 DEF Counted, Lists, Good
  <2>2. offset' = start' + incl' /\ offset' <= Size /\ excl' <= incl'
    <3>1. \A x \in 0 .. Size - 1 : x = x + 0 /\ x <= Size /\ 0 <= 0
      BY <1>2
    <3> QED BY <1>2, <3>1, Zenon
  <2>3. asked' > 0 /\ offset' < Size /\ excl' < length'
    BY <1>2
  <2>4. step' # "decide"
    BY <1>2
  <2> QED BY <1>2, <2>1, <2>2, <2>3, <2>4, Zenon DEF Counting
<1>7. Going'
  BY <1>2 DEF Going
<1>8. Skipped'
  <2>1. start' \in start' .. Size /\ Lists(moved, start, start)'
    BY <1>2, <1>3 DEF Lists, Good
  <2> QED BY <1>2, <2>1 DEF Skipped
<1> QED BY <1>4, <1>5, <1>6, <1>7, <1>8, SplitInv

LEMMA CountStep == ASSUME SInv, Count PROVE SInv'
<1> DEFINE n == ToBlockEnd(offset)
           e == offset + n
<1>1. Numbers /\ Others /\ Counting /\ Going /\ Skipped /\ SkipTypeOK
  BY SplitInv DEF SInv
<1>2. /\ Size \in Nat \ {0} /\ start \in Nat /\ start < Size /\ offset \in Nat /\ incl \in Nat
      /\ excl \in Nat /\ length \in Nat /\ length <= Size
  BY <1>1, SkipTypes
<1>3. /\ offset' = e /\ incl' = incl + n
      /\ excl' = IF MayBeGood(offset) THEN excl + n ELSE excl
      /\ fewer' = (offset' + incl' >= Size /\ excl' < length)
      /\ step' = IF excl' < length /\ offset' + incl' < Size THEN "count" ELSE "decide"
      /\ UNCHANGED <<badBlocks, start, asked, length, left, moved, result, ended>>
  BY DEF Count
<1>4. /\ offset = start + incl /\ excl <= incl
      /\ length = asked /\ left = asked /\ asked > 0 /\ moved = <<>> /\ result = 0
      /\ Counted(offset) /\ offset < Size /\ excl < length
  BY <1>1 DEF Counting, Count
<1>5. /\ n \in Nat /\ n > 0 /\ e <= Size /\ e \in Nat
      /\ \A p \in offset .. e - 1 : p \div SkipPer = offset \div SkipPer
  BY <1>2, <1>4, BlockRest
<1>6. MayBeGood(offset) <=> Good(offset)
  BY <1>2, <1>4 DEF MayBeGood, Good
<1>7. \A p \in offset .. e - 1 : Good(p) <=> Good(offset)
  BY <1>5 DEF Good
<1>8. PICK s \in PageSeq : Len(s) = excl /\ Lists(s, start, offset)
  BY <1>4 DEF Counted
<1>a. start <= offset
  BY <1>2, <1>4
<1> DEFINE t == IF MayBeGood(offset) THEN s \o Run(offset, n) ELSE s
<1>9. t \in PageSeq /\ Len(t) = excl' /\ Lists(t, start, e)
  <2>1. CASE MayBeGood(offset)
    <3>1. s \o Run(offset, n) \in PageSeq /\ Len(s \o Run(offset, n)) = Len(s) + n
      BY <1>2, <1>5, RunLength
    <3>2. \A p \in offset .. offset + n - 1 : Good(p)
      BY <1>2, <1>5, <1>6, <1>7, <2>1
    <3>3. Lists(s \o Run(offset, n), start, offset + n)
      BY <1>2, <1>5, <1>8, <1>a, <3>2, ListMore
    <3> QED BY <1>3, <1>8, <2>1, <3>1, <3>3
  <2>2. CASE ~MayBeGood(offset)
    <3>1. \A p \in offset .. offset + n - 1 : ~Good(p)
      BY <1>2, <1>5, <1>6, <1>7, <2>2
    <3>2. Lists(s, start, offset + n)
      BY <1>2, <1>5, <1>8, <1>a, <3>1, ListSame
    <3> QED BY <1>3, <1>8, <2>2, <3>2
  <2> QED BY <2>1, <2>2
<1> HIDE DEF t
<1>b. Counted(offset)'
  BY <1>3, <1>9 DEF Counted, Lists, Good
<1>c. incl' \in Nat /\ excl' \in Nat /\ excl' <= incl' /\ offset' = start' + incl' /\ incl' <= Size
  <2> DEFINE x == excl'
  <2>1. x = excl \/ x = excl + n
    BY <1>3
  <2> HIDE DEF x, n
  <2>2. x \in Nat /\ x <= incl + n /\ e = start + (incl + n) /\ incl + n <= Size /\ incl + n \in Nat
    BY <1>2, <1>4, <1>5, <2>1
  <2> QED BY <1>3, <2>2 DEF x
<1>d. Numbers'
  <2>1. start' \in 0 .. Size - 1 /\ asked' \in 0 .. Size /\ length' \in 0 .. Size /\ left' \in 0 .. Size
    BY <1>1, <1>3 DEF Numbers
  <2>2. offset' \in 0 .. Size + SkipPer
    <3>1. e \in 0 .. Size + SkipPer
      <4> HIDE DEF e
      <4> QED BY <1>2, <1>5, BlockFacts
    <3> QED BY <1>3, <3>1
  <2>3. incl' \in 0 .. Size /\ excl' \in 0 .. Size
    BY <1>2, <1>c
  <2> QED BY <2>1, <2>2, <2>3 DEF Numbers
<1>e. Others'
  BY <1>1, <1>3 DEF Others
<1>f. Counting'
  <2>1. offset' <= Size
    BY <1>3, <1>5
  <2>2. step' = "count" => offset' < Size /\ excl' < length'
    <3>1. ASSUME excl' < length, offset' + incl' < Size PROVE offset' < Size
      <4>1. incl' \in Nat /\ e + incl' < Size
        BY <1>3, <1>c, <3>1
      <4>2. e < Size
        BY <1>2, <1>5, <4>1
      <4> QED BY <1>3, <4>2
    <3> QED BY <1>3, <3>1
  <2>5. offset' = Size => NoRoom'
    <3> SUFFICES ASSUME e = Size PROVE NoRoom'
      BY <1>3
    <3>1. Size - SkipPer <= offset
      <4>1. n \in 1 .. SkipPer /\ SkipPer \in Nat
        BY <1>2, BlockFacts
      <4> HIDE DEF n
      <4>2. offset + n = Size
        OBVIOUS
      <4> QED BY <1>2, <4>1, <4>2
    <3>2. Len(s) < asked /\ asked \in Nat
      BY <1>2, <1>4, <1>8 DEF Counting, Count
    <3>3. NoRoom
      BY <1>2, <1>8, <3>1, <3>2, ListTooShort
    <3> QED BY <1>3, <3>3 DEF NoRoom, Good
  <2>3. step' = "decide" => excl' >= length' \/ fewer'
    <3>1. excl' \in Nat /\ length' = length
      BY <1>3, <1>c
    <3>2. offset' + incl' \in Nat
      BY <1>3, <1>5, <1>c
    <3>3. ~(excl' < length) => excl' >= length
      BY <1>2, <3>1
    <3>4. ~(offset' + incl' < Size) => offset' + incl' >= Size
      BY <1>2, <3>2
    <3> QED BY <1>3, <3>1, <3>3, <3>4
  <2>4. /\ length' = asked' /\ left' = asked' /\ asked' > 0 /\ moved' = <<>> /\ result' = 0
    BY <1>3, <1>4
  <2> QED BY <1>b, <1>c, <2>1, <2>2, <2>3, <2>4, <2>5, Zenon DEF Counting
<1>g. step' \in {"count", "decide"}
  BY <1>3
<1>h. Going'
  BY <1>g DEF Going
<1>i. Skipped'
  <2>1. start' \in start' .. Size /\ Lists(moved, start, start)'
    <3>1. Lists(<<>>, start, start) /\ start \in start .. Size
      BY <1>2, ListEmpty
    <3> QED BY <1>3, <1>4, <3>1 DEF Lists, Good
  <2> QED BY <1>g, <2>1 DEF Skipped
<1> QED BY <1>d, <1>e, <1>f, <1>h, <1>i, SplitInv

LEMMA DecideStep == ASSUME SInv, Decide PROVE SInv'
<1>1. Numbers /\ Others /\ Counting /\ Going /\ Skipped /\ SkipTypeOK
  BY SplitInv DEF SInv
<1>2. Size \in Nat \ {0} /\ start \in Nat /\ start < Size /\ length \in Nat /\ left \in Nat
  BY <1>1, SkipTypes
<1>3. /\ offset' = start
      /\ UNCHANGED <<badBlocks, start, asked, length, incl, excl, left, moved, fewer, ended>>
  BY DEF Decide
<1>4. \/ start + incl >= Size /\ step' = "idle" /\ result' = -22
      \/ start + incl < Size /\ step' = "fast" /\ incl = length /\ result' = result
      \/ start + incl < Size /\ step' = "loop" /\ incl # length /\ result' = result
  BY DEF Decide
<1>5. /\ offset = start + incl /\ length = asked /\ left = asked /\ asked > 0 /\ moved = <<>>
      /\ result = 0 /\ Counted(offset) /\ (excl >= length \/ fewer)
      /\ offset <= Size /\ (offset = Size => NoRoom)
  BY <1>1 DEF Counting, Decide
<1>6. <<>> \in PageSeq /\ Lists(<<>>, start, start) /\ start \in start .. Size
  BY <1>2, ListEmpty
<1>7. Numbers'
  <2>1. start \in 0 .. Size + SkipPer
    BY <1>2, BlockFacts
  <2> QED BY <1>1, <1>3, <2>1 DEF Numbers
<1>8. Others'
  BY <1>1, <1>3, <1>4 DEF Others
<1>9. Counting'
  BY <1>4 DEF Counting
<1>a. Lists(moved, start, start)'
  BY <1>3, <1>5, <1>6 DEF Lists, Good
<1>b. Skipped'
  <2>1. step' # "idle" \/ result' = -22
    BY <1>4
  <2>2. moved' = <<>> /\ start' \in start' .. Size
    BY <1>3, <1>5, <1>6
  <2>3. step' = "idle" => NoRoom'
    <3> SUFFICES ASSUME step' = "idle" PROVE NoRoom'
      OBVIOUS
    <3>1. start + incl >= Size
      BY <1>4
    <3>2. offset = Size
      BY <1>1, <1>2, <1>5, <3>1, SkipTypes
    <3> QED BY <1>3, <1>5, <3>2 DEF NoRoom, Good
  <2> QED BY <1>a, <2>1, <2>2, <2>3 DEF Skipped
<1>c. Going'
  <2>1. Counted(start + incl)'
    BY <1>3, <1>5 DEF Counted, Lists, Good
  <2>2. Len(moved') + left' = length'
    BY <1>2, <1>3, <1>5
  <2>3. offset' >= start' /\ ~(offset' > Size)
    BY <1>2, <1>3
  <2>8. step' = "loop" => incl' # length'
    BY <1>3, <1>4
  <2>4. (Lists(moved, start, offset))'
    BY <1>3, <1>5, <1>6 DEF Lists, Good
  <2>5. ASSUME step' \in {"fast", "loop"} PROVE start' + incl' < Size /\ result' = 0
    BY <1>3, <1>4, <1>5, <2>5
  <2>6. length' = asked' /\ asked' > 0 /\ (excl' >= length' \/ fewer') /\ moved' = <<>>
    BY <1>3, <1>5
  <2>7. step' = "fast" => incl' = length' /\ offset' = start'
    BY <1>3, <1>4
  <2> QED BY <2>1, <2>2, <2>3, <2>4, <2>5, <2>6, <2>7, <2>8, Zenon DEF Going
<1> QED BY <1>7, <1>8, <1>9, <1>b, <1>c, SplitInv

LEMMA FastStep == ASSUME SInv, Fast PROVE SInv'
<1>1. Numbers /\ Others /\ Counting /\ Going /\ Skipped /\ SkipTypeOK
  BY SplitInv DEF SInv
<1>2. /\ Size \in Nat \ {0} /\ start \in Nat /\ start < Size /\ length \in Nat /\ incl \in Nat
      /\ length <= Size
  BY <1>1, SkipTypes
<1>3. PICK n \in 0 .. length : /\ moved' = moved \o Run(offset, n) /\ length' = n
                               /\ result' = IF n = length THEN 0 ELSE -5
  BY DEF Fast, Move, Run
<1>4. /\ step' = "idle"
      /\ UNCHANGED <<badBlocks, start, asked, offset, incl, excl, left, fewer, ended>>
  BY DEF Fast
<1>5. /\ start + incl < Size /\ length = asked /\ Counted(start + incl)
      /\ (excl >= length \/ fewer) /\ incl = length /\ offset = start /\ moved = <<>>
  BY <1>1 DEF Going, Fast
<1>6. n \in Nat /\ n <= length /\ start + n <= Size /\ start + n \in start .. Size
  BY <1>2, <1>5
<1>7. moved \in PageSeq /\ Lists(moved, start, start) /\ Len(moved) = 0 /\ start <= start
  BY <1>2, <1>5, ListEmpty
<1>8. moved' \in PageSeq /\ Len(moved') = n
  <2>1. moved \o Run(start, n) \in PageSeq /\ Len(moved \o Run(start, n)) = Len(moved) + n
    BY <1>2, <1>6, <1>7, RunLength
  <2> QED BY <1>3, <1>5, <1>6, <1>7, <2>1
<1>9. ASSUME ~fewer PROVE Lists(moved', start, start + n)
  <2>1. PICK s \in PageSeq : Len(s) = excl /\ Lists(s, start, start + length)
    BY <1>5 DEF Counted
  <2>2. Len(s) >= length
    BY <1>5, <1>9, <2>1
  <2>3. \A p \in start .. start + length - 1 : Good(p)
    BY <1>2, <2>1, <2>2, ListAll
  <2>4. \A p \in start .. start + n - 1 : p \in start .. start + length - 1
    BY <1>2, <1>6
  <2>5. \A p \in start .. start + n - 1 : Good(p)
    BY <2>3, <2>4
  <2>6. Lists(moved \o Run(start, n), start, start + n)
    BY <1>2, <1>6, <1>7, <2>5, ListMore
  <2> QED BY <1>3, <1>5, <2>6
<1>a. Numbers'
  <2>1. n \in 0 .. Size
    BY <1>2, <1>6
  <2> QED BY <1>1, <1>3, <1>4, <2>1 DEF Numbers
<1>b. Others'
  <2>1. result' \in {0, -5, -22}
    BY <1>3
  <2> QED BY <1>1, <1>4, <1>8, <2>1 DEF Others
<1>c. Counting' /\ Going'
  BY <1>4 DEF Counting, Going
<1>d. Skipped'
  <2>1. ASSUME ~fewer PROVE \E o \in start' .. Size : Lists(moved, start, o)'
    BY <1>4, <1>6, <1>9, <2>1 DEF Lists, Good
  <2>2. n = length => length' = asked' /\ Len(moved') = asked'
    BY <1>3, <1>4, <1>5, <1>8
  <2>3. n # length => length' \in 0 .. Len(moved') /\ length' < asked'
    <3>1. n # length => n \in 0 .. n /\ n < length
      BY <1>2, <1>6
    <3> QED BY <1>3, <1>4, <1>5, <1>8, <3>1
  <2>4. (result' = 0 => n = length) /\ (result' = -5 => n # length) /\ result' # -22
    BY <1>3
  <2>5. incl' = asked'
    BY <1>4, <1>5
  <2> QED BY <1>4, <2>1, <2>2, <2>3, <2>4, <2>5 DEF Skipped
<1> QED BY <1>a, <1>b, <1>c, <1>d, SplitInv

\* As long as something is left to move the loop is on the device, unless the
\* count stopped early: before start + incl there are enough good pages.
LEMMA LoopInside ==
  ASSUME SInv, step = "loop", left > 0, ~fewer
  PROVE  offset < start + incl /\ start + incl < Size
<1>1. Going /\ SkipTypeOK
  BY DEF SInv
<1>2. /\ Size \in Nat \ {0} /\ start \in Nat /\ length \in Nat /\ incl \in Nat /\ offset \in Nat
      /\ excl \in Nat /\ left \in Nat /\ moved \in PageSeq /\ start + incl \in Nat
  BY <1>1, SkipTypes
<1>3. /\ start + incl < Size /\ Counted(start + incl) /\ excl >= length
      /\ Len(moved) + left = length
      /\ (offset <= Size => Lists(moved, start, offset)) /\ (offset > Size => Lists(moved, start, Size))
  BY <1>1 DEF Going
<1>4. PICK s \in PageSeq : Len(s) = excl /\ Lists(s, start, start + incl)
  BY <1>3 DEF Counted
<1>5. ASSUME start + incl <= offset PROVE FALSE
  <2>1. Len(s) <= Len(moved)
    <3>1. CASE offset <= Size
      BY <1>2, <1>3, <1>4, <1>5, <3>1, ListGrows
    <3>2. CASE ~(offset <= Size)
      <4>1. start + incl <= Size /\ Lists(moved, start, Size)
        BY <1>2, <1>3, <3>2
      <4> QED BY <1>2, <1>4, <4>1, ListGrows
    <3> QED BY <3>1, <3>2
  <2>2. Len(moved) \in Nat
    BY <1>2 DEF PageSeq
  <2> DEFINE m == Len(moved)
  <2>3. excl <= m /\ m \in Nat /\ m + left = length
    BY <1>3, <1>4, <2>1, <2>2
  <2> HIDE DEF m
  <2> QED BY <1>2, <1>3, <2>3
<1> QED BY <1>2, <1>3, <1>5

LEMMA SkipStepKeeps == ASSUME SInv, Skip PROVE SInv'
<1>1. Numbers /\ Others /\ Counting /\ Going /\ Skipped /\ SkipTypeOK
  BY SplitInv DEF SInv
<1>2. /\ Size \in Nat \ {0} /\ start \in Nat /\ start < Size /\ offset \in Nat
      /\ offset <= Size + SkipPer /\ SkipPer \in Nat \ {0}
  BY <1>1, SkipTypes
<1> DEFINE n == ToBlockEnd(offset)
<1>3. /\ step = "loop" /\ left > 0 /\ MayBeBad(offset)
      /\ offset' = IF offset > Size THEN offset ELSE offset + n
      /\ ended' = (ended \/ offset >= Size)
      /\ UNCHANGED <<badBlocks, step, start, asked, length, incl, excl, left, moved, result, fewer>>
  BY DEF Skip
<1>4. /\ start + incl < Size /\ length = asked /\ asked > 0 /\ result = 0
      /\ Counted(start + incl) /\ (excl >= length \/ fewer)
      /\ Len(moved) + left = length /\ offset >= start
      /\ incl # length
      /\ offset <= Size => Lists(moved, start, offset)
      /\ offset > Size  => Lists(moved, start, Size)
  BY <1>1, <1>3 DEF Going
<1>5. n \in 1 .. SkipPer
  BY <1>2, BlockFacts
<1>6. offset' \in 0 .. Size + SkipPer /\ offset' >= start
  <2> HIDE DEF n
  <2>1. offset + n \in Nat /\ (~(offset > Size) => offset + n <= Size + SkipPer)
    BY <1>2, <1>5
  <2>2. offset + n >= start
    BY <1>2, <1>4, <1>5
  <2>3. CASE offset > Size
    BY <1>2, <1>3, <1>4, <2>3
  <2>4. CASE ~(offset > Size)
    <3>1. offset + n \in 0 .. Size + SkipPer
      BY <1>2, <2>1, <2>4
    <3> QED BY <1>3, <2>2, <2>4, <3>1
  <2> QED BY <2>3, <2>4
<1>7. /\ offset' <= Size => Lists(moved, start, offset')
      /\ offset' > Size  => Lists(moved, start, Size)
  <2>1. CASE offset < Size
    <3>1. /\ n \in Nat /\ offset + n <= Size /\ offset + n \in Nat
          /\ \A p \in offset .. (offset + n) - 1 : p \div SkipPer = offset \div SkipPer
      BY <1>2, <2>1, BlockRest
    <3>2. offset \div SkipPer \in badBlocks
      BY <1>2, <1>3, <2>1 DEF MayBeBad
    <3>3. \A p \in offset .. offset + n - 1 : ~Good(p)
      BY <1>2, <3>1, <3>2 DEF Good
    <3>4. start <= offset /\ Lists(moved, start, offset)
      BY <1>2, <1>4, <2>1
    <3>5. Lists(moved, start, offset + n)
      BY <1>2, <3>1, <3>3, <3>4, ListSame
    <3>6. offset' = offset + n
      BY <1>2, <1>3, <2>1
    <3>7. ~(offset' > Size)
      <4> HIDE DEF n
      <4> QED BY <1>2, <3>1, <3>6
    <3> QED BY <3>5, <3>6, <3>7
  <2>2. CASE offset = Size
    <3>1. Lists(moved, start, Size) /\ offset' = offset + n
      BY <1>2, <1>3, <1>4, <2>2
    <3>2. ~(offset' <= Size)
      <4> HIDE DEF n
      <4> QED BY <1>2, <1>5, <2>2, <3>1
    <3> QED BY <3>1, <3>2
  <2>3. CASE offset > Size
    BY <1>2, <1>3, <1>4, <2>3
  <2> QED BY <1>2, <2>1, <2>2, <2>3
<1> HIDE DEF n
<1>8. Numbers'
  BY <1>1, <1>3, <1>6 DEF Numbers
<1>9. Others'
  <2>1. ended' \in BOOLEAN
    BY <1>3
  <2> QED BY <1>1, <1>3, <2>1 DEF Others
<1>a. step' = "loop"
  BY <1>3
<1>b. Counting'
  BY <1>a DEF Counting
<1>c. Going'
  <2>1. Counted(start + incl)'
    BY <1>3, <1>4 DEF Counted, Lists, Good
  <2>2. (offset' <= Size => Lists(moved, start, offset)') /\ (offset' > Size => Lists(moved, start, Size)')
    BY <1>3, <1>7 DEF Lists, Good
  <2>3. /\ start' + incl' < Size /\ length' = asked' /\ asked' > 0 /\ result' = 0
        /\ (excl' >= length' \/ fewer') /\ Len(moved') + left' = length' /\ incl' # length'
    BY <1>3, <1>4
  <2>4. offset' >= start'
    BY <1>3, <1>6
  <2> QED BY <1>a, <2>1, <2>2, <2>3, <2>4, Zenon DEF Going
<1>d. Skipped'
  <2>1. \E o \in start' .. Size : Lists(moved, start, o)'
    BY <1>1, <1>3, <1>4 DEF Skipped, Lists, Good
  <2> QED BY <1>3, <1>a, <2>1 DEF Skipped
<1> QED BY <1>8, <1>9, <1>b, <1>c, <1>d, SplitInv

LEMMA TransferKeeps == ASSUME SInv, Transfer PROVE SInv'
<1> DEFINE n == Chunk
           b == ToBlockEnd(offset)
<1>1. Numbers /\ Others /\ Counting /\ Going /\ Skipped /\ SkipTypeOK
  BY SplitInv DEF SInv
<1>2. /\ Size \in Nat \ {0} /\ start \in Nat /\ start < Size /\ offset \in Nat /\ left \in Nat
      /\ length \in Nat /\ left <= Size /\ moved \in PageSeq
  BY <1>1, SkipTypes
<1>3. /\ step = "loop" /\ left > 0 /\ MayBeGood(offset) /\ offset < Size
      /\ moved' = moved \o Run(offset, n) /\ left' = left - n /\ offset' = offset + n
      /\ UNCHANGED <<badBlocks, step, start, asked, length, incl, excl, result, fewer, ended>>
  BY DEF Transfer, Move, Run
<1>4. /\ start + incl < Size /\ length = asked /\ asked > 0 /\ result = 0
      /\ Counted(start + incl) /\ (excl >= length \/ fewer)
      /\ Len(moved) + left = length /\ offset >= start
      /\ incl # length /\ Lists(moved, start, offset)
  <2>1. offset <= Size
    BY <1>2, <1>3
  <2> QED BY <1>1, <1>3, <2>1 DEF Going
<1>5. /\ b \in Nat /\ b > 0 /\ offset + b <= Size
      /\ \A p \in offset .. (offset + b) - 1 : p \div SkipPer = offset \div SkipPer
  BY <1>2, <1>3, BlockRest
<1>6. n = IF left < b THEN left ELSE b
  BY DEF Chunk
<1> HIDE DEF n, b
<1>7. n \in Nat /\ n <= b /\ n <= left
  BY <1>2, <1>5, <1>6
<1>8. offset + n <= Size /\ offset + n \in 0 .. Size /\ offset + n >= start /\ left - n \in 0 .. Size
  BY <1>2, <1>4, <1>5, <1>7
<1>9. moved' \in PageSeq /\ Len(moved') = Len(moved) + n /\ Len(moved) \in Nat
  <2>1. moved \o Run(offset, n) \in PageSeq /\ Len(moved \o Run(offset, n)) = Len(moved) + n
    BY <1>2, <1>7, <1>8, RunLength
  <2> QED BY <1>2, <1>3, <2>1 DEF PageSeq
<1>a. \A p \in offset .. offset + n - 1 : Good(p)
  <2>1. offset \div SkipPer \notin badBlocks
    BY <1>3 DEF MayBeGood
  <2>2. \A p \in offset .. offset + n - 1 : p \in offset .. (offset + b) - 1
    BY <1>2, <1>5, <1>7
  <2> QED BY <1>5, <2>1, <2>2 DEF Good
<1>b. Lists(moved, start, offset)' /\ offset' <= Size /\ ~(offset' > Size)
  <2>1. start <= offset
    BY <1>2, <1>4
  <2>2. Lists(moved \o Run(offset, n), start, offset + n)
    BY <1>2, <1>4, <1>7, <1>8, <1>a, <2>1, ListMore
  <2>3. Lists(moved, start, offset)'
    BY <1>3, <2>2 DEF Lists, Good
  <2>4. offset' <= Size /\ ~(offset' > Size)
    BY <1>2, <1>3, <1>8
  <2> QED BY <2>3, <2>4
<1>c. Numbers'
  <2>1. offset + n \in 0 .. Size + SkipPer
    BY <1>2, <1>8, BlockFacts
  <2> QED BY <1>1, <1>3, <1>8, <2>1 DEF Numbers
<1>d. Others'
  BY <1>1, <1>3, <1>9 DEF Others
<1>e. step' = "loop" /\ fewer' = fewer
  BY <1>3
<1>f. Counting'
  BY <1>e DEF Counting
<1>g. Going'
  <2>1. Counted(start + incl)'
    BY <1>3, <1>4 DEF Counted, Lists, Good
  <2>2. (Len(moved) + n) + (left - n) = Len(moved) + left
    BY <1>2, <1>7, <1>9
  <2>3. /\ start' + incl' < Size /\ length' = asked' /\ asked' > 0 /\ result' = 0
        /\ (excl' >= length' \/ fewer') /\ incl' # length'
    BY <1>3, <1>4
  <2>4. Len(moved') + left' = length' /\ offset' >= start'
    BY <1>3, <1>4, <1>8, <1>9, <2>2
  <2> QED BY <1>b, <1>e, <2>1, <2>3, <2>4, Zenon DEF Going
<1>h. Skipped'
  <2>1. offset' \in start' .. Size
    <3>1. offset + n \in start .. Size
      BY <1>2, <1>8
    <3> QED BY <1>3, <3>1
  <2> QED BY <1>b, <1>e, <2>1 DEF Skipped
<1> QED BY <1>c, <1>d, <1>f, <1>g, <1>h, SplitInv

LEMMA RunNone == ASSUME NEW s \in PageSeq, NEW o \in Nat PROVE s \o Run(o, 0) = s
<1> DEFINE e == Run(o, 0)
<1>1. e \in Seq(Nat) /\ Len(e) = 0
  BY DEF Run
<1> HIDE DEF e
<1>2. s \in Seq(0 .. Size - 1)
  BY DEF PageSeq
<1>3. s \o e = s
  BY <1>1, <1>2
<1> QED BY <1>3 DEF e

LEMMA TransferFailKeeps == ASSUME SInv, TransferFail PROVE SInv'
<1> DEFINE b == ToBlockEnd(offset)
<1>1. Numbers /\ Others /\ Counting /\ Going /\ Skipped /\ SkipTypeOK
  BY SplitInv DEF SInv
<1>2. /\ Size \in Nat \ {0} /\ start \in Nat /\ start < Size /\ offset \in Nat /\ left \in Nat
      /\ length \in Nat /\ left <= Size /\ length <= Size /\ moved \in PageSeq
  BY <1>1, SkipTypes
<1>3. PICK n \in 0 .. (IF offset < Size THEN Chunk - 1 ELSE 0) : moved' = moved \o Run(offset, n)
  BY DEF TransferFail, Move, Run
<1>4. /\ step = "loop" /\ left > 0 /\ MayBeGood(offset) /\ step' = "idle"
      /\ length' = length - left /\ result' = IF offset < Size THEN -5 ELSE -22
      /\ ended' = (ended \/ offset >= Size)
      /\ UNCHANGED <<badBlocks, start, asked, offset, incl, excl, left, fewer>>
  BY DEF TransferFail
<1>5. /\ length = asked /\ Len(moved) + left = length /\ offset >= start
      /\ incl # length
      /\ offset <= Size => Lists(moved, start, offset)
  BY <1>1, <1>4 DEF Going
<1>6. Len(moved) \in Nat
  BY <1>2 DEF PageSeq
<1>7. ASSUME offset < Size
      PROVE  /\ n \in Nat /\ offset + n <= Size /\ offset + n \in start .. Size
             /\ \A p \in offset .. offset + n - 1 : Good(p)
  <2>1. /\ b \in Nat /\ b > 0 /\ offset + b <= Size
        /\ \A p \in offset .. (offset + b) - 1 : p \div SkipPer = offset \div SkipPer
    BY <1>2, <1>7, BlockRest
  <2>2. Chunk = IF left < b THEN left ELSE b
    BY DEF Chunk
  <2> HIDE DEF b
  <2>3. Chunk \in Nat /\ Chunk <= b
    BY <1>2, <2>1, <2>2
  <2>4. n \in 0 .. Chunk - 1
    BY <1>3, <1>7
  <2>5. n \in Nat /\ n <= b
    BY <2>1, <2>3, <2>4
  <2>6. offset + n <= Size /\ offset + n \in start .. Size
    BY <1>2, <1>5, <2>1, <2>5
  <2>7. offset \div SkipPer \notin badBlocks
    BY <1>4 DEF MayBeGood
  <2>8. \A p \in offset .. offset + n - 1 : p \in offset .. (offset + b) - 1
    BY <1>2, <2>1, <2>5
  <2>9. \A p \in offset .. offset + n - 1 : Good(p)
    BY <2>1, <2>7, <2>8 DEF Good
  <2> QED BY <2>5, <2>6, <2>9
<1>8. moved' \in PageSeq /\ Len(moved') \in Nat /\ Len(moved') >= Len(moved)
  <2>1. CASE offset < Size
    <3>1. moved \o Run(offset, n) \in PageSeq /\ Len(moved \o Run(offset, n)) = Len(moved) + n
      BY <1>2, <1>7, <2>1, RunLength
    <3>2. Len(moved) + n \in Nat /\ Len(moved) + n >= Len(moved)
      BY <1>6, <1>7, <2>1
    <3> QED BY <1>3, <3>1, <3>2
  <2>2. CASE ~(offset < Size)
    <3>1. n = 0
      BY <1>3, <2>2
    <3>2. moved' = moved
      BY <1>2, <1>3, <3>1, RunNone
    <3>3. Len(moved) >= Len(moved)
      BY <1>6
    <3> QED BY <1>2, <1>6, <3>2, <3>3
  <2> QED BY <2>1, <2>2
<1>9. ASSUME offset < Size PROVE Lists(moved', start, offset + n)
  <2>1. start <= offset /\ offset <= Size
    BY <1>2, <1>5, <1>9
  <2>2. Lists(moved \o Run(offset, n), start, offset + n)
    BY <1>2, <1>5, <1>7, <1>9, <2>1, ListMore
  <2> QED BY <1>3, <2>2
<1>f. ASSUME ~(offset < Size)
      PROVE  offset = Size /\ moved' = moved /\ Lists(moved, start, Size) /\ fewer /\ result' = -22
  <2>1. offset = Size
    BY <1>2, <1>4, <1>f DEF MayBeGood
  <2>2. n = 0
    BY <1>3, <1>f
  <2>3. moved' = moved
    BY <1>2, <1>3, <2>2, RunNone
  <2>4. Lists(moved, start, Size)
    BY <1>2, <1>5, <2>1
  <2>5. fewer
    <3> SUFFICES ASSUME ~fewer PROVE FALSE
      OBVIOUS
    <3>1. offset < start + incl /\ start + incl < Size /\ incl \in Nat
      BY <1>1, <1>4, LoopInside, SkipTypes
    <3> QED BY <1>2, <2>1, <3>1
  <2> QED BY <1>4, <1>f, <2>1, <2>3, <2>4, <2>5
<1>a. length' = Len(moved) /\ length' \in 0 .. Size /\ length' < asked
  <2> DEFINE m == Len(moved)
  <2>1. m \in Nat /\ m + left = length
    BY <1>5, <1>6
  <2> HIDE DEF m
  <2>2. length - left = m /\ m \in 0 .. Size /\ m < length
    BY <1>2, <1>4, <2>1
  <2> QED BY <1>4, <1>5, <2>2 DEF m
<1>b. Numbers'
  BY <1>1, <1>4, <1>a DEF Numbers
<1>c. Others'
  <2>1. result' \in {0, -5, -22} /\ ended' \in BOOLEAN
    BY <1>4
  <2> QED BY <1>1, <1>4, <1>8, <2>1 DEF Others
<1>d. Counting' /\ Going'
  BY <1>4 DEF Counting, Going
<1>e. Skipped'
  <2>1. CASE offset < Size
    <3>1. result' = -5 /\ offset + n \in start' .. Size
      BY <1>4, <1>7, <2>1
    <3>2. \E o \in start' .. Size : Lists(moved, start, o)'
      BY <1>4, <1>9, <2>1, <3>1 DEF Lists, Good
    <3>3. length' \in 0 .. Len(moved') /\ length' < asked'
      <4>1. Len(moved) \in 0 .. Len(moved')
        BY <1>6, <1>8
      <4> QED BY <1>4, <1>a, <4>1
    <3>4. result' # 0 /\ result' # -22
      BY <3>1
    <3> QED BY <3>1, <3>2, <3>3, <3>4, Zenon DEF Skipped
  <2>2. CASE ~(offset < Size)
    <3>1. Size \in start' .. Size
      BY <1>2, <1>4
    <3>2. \E o \in start' .. Size : Lists(moved, start, o)'
      BY <1>4, <1>f, <2>2, <3>1 DEF Lists, Good
    <3>3. NoRoom'
      <4>1. Size - SkipPer <= Size /\ Len(moved) < asked /\ asked \in Nat
        BY <1>2, <1>5, <1>a, <1>4, BlockFacts
      <4>2. NoRoom
        BY <1>2, <1>f, <2>2, <4>1, ListTooShort
      <4> QED BY <1>4, <4>2 DEF NoRoom, Good
    <3>4. result' = -22 /\ fewer'
      BY <1>4, <1>f, <2>2
    <3>5. result' # 0 /\ result' # -5
      BY <3>4
    <3> QED BY <3>2, <3>3, <3>4, <3>5, Zenon DEF Skipped
  <2> QED BY <2>1, <2>2
<1> QED BY <1>b, <1>c, <1>d, <1>e, SplitInv

LEMMA MovedKeeps == ASSUME SInv, Moved PROVE SInv'
<1>1. Numbers /\ Others /\ Counting /\ Going /\ Skipped /\ SkipTypeOK
  BY SplitInv DEF SInv
<1>2. /\ step = "loop" /\ left = 0 /\ step' = "idle" /\ result' = 0
      /\ UNCHANGED <<badBlocks, start, asked, length, offset, incl, excl, left, moved, fewer, ended>>
  BY DEF Moved
<1>3. length = asked /\ Len(moved) + left = length /\ incl # length
  BY <1>1, <1>2 DEF Going
<1>4. Len(moved) \in Nat
  BY <1>1, SkipTypes DEF PageSeq
<1>5. Len(moved) = length
  BY <1>2, <1>3, <1>4
<1>6. Numbers' /\ Others'
  BY <1>1, <1>2 DEF Numbers, Others
<1>7. Counting' /\ Going'
  BY <1>2 DEF Counting, Going
<1>8. Skipped'
  <2>1. \E o \in start' .. Size : Lists(moved, start, o)'
    BY <1>1, <1>2, <1>3 DEF Skipped, Lists, Good
  <2>2. length' = asked' /\ Len(moved') = asked'
    BY <1>2, <1>3, <1>5
  <2> QED BY <1>2, <2>1, <2>2 DEF Skipped
<1> QED BY <1>6, <1>7, <1>8, SplitInv

LEMMA SkipInvStep == SInv /\ [SkipNext]_skip => SInv'
<1> SUFFICES ASSUME SInv, [SkipNext]_skip PROVE SInv'
  OBVIOUS
<1>1. CASE SkipNext
  BY <1>1, CallStep, CountStep, DecideStep, FastStep, SkipStepKeeps, TransferKeeps,
     TransferFailKeeps, MovedKeeps DEF SkipNext, SkipStep
<1>2. CASE UNCHANGED skip
  <2>1. Numbers /\ Others /\ Counting /\ Going /\ Skipped
    BY SplitInv
  <2>2. Numbers' /\ Others'
    BY <1>2, <2>1 DEF skip, Numbers, Others
  <2>3. Counting'
    BY <1>2, <2>1 DEF skip, Counting, Counted, Lists, Good, NoRoom
  <2>4. Going'
    BY <1>2, <2>1 DEF skip, Going, Counted, Lists, Good
  <2>5. Skipped'
    BY <1>2, <2>1 DEF skip, Skipped, Lists, Good, NoRoom
  <2> QED BY <2>2, <2>3, <2>4, <2>5, SplitInv
<1> QED BY <1>1, <1>2


-----------------------------------------------------------------------------
(* A behaviour of either kind.                                             *)

LEMMA KindInit == ASSUME MCInit PROVE TInv /\ IInv /\ SInv
<1>1. Init
  BY DEF MCInit
<1>2. SkipInit
  <2>1. CASE kind = "io"
    <3>1. Cardinality({}) = 0
      BY FS_EmptySet
    <3>2. {} \in {b \in SUBSET (0 .. SkipBlocks - 1) : Cardinality(b) <= MaxSkipBad}
      BY <3>1, NandSkipAssumption
    <3> QED BY <2>1, <3>2 DEF MCInit, SkipInit
  <2>2. CASE kind # "io"
    BY <2>2 DEF MCInit
  <2> QED BY <2>1, <2>2
<1>3. TInv
  <2>1. /\ 0 \in Pages /\ 0 \in 0 .. NumBlocks * PerBlock /\ 0 \in 0 .. MaxOps /\ 0 \in 0 .. MaxErr
        /\ Blank \in Contents \ {Status}
    BY PagesAreNat, PagesMore, ContentFacts, NandIoAssumption
  <2>2. flash \in [Pages -> Contents \ {Status}]
    BY <1>1, <2>1 DEF Init
  <2> QED BY <1>1, <2>1, <2>2 DEF Init, TInv, TypeOK, Erasing
<1> QED BY <1>1, <1>2, <1>3, InitRight, InitStep

LEMMA KindInv == MCSpec => [](TInv /\ IInv /\ SInv)
<1> DEFINE Inv == TInv /\ IInv /\ SInv
<1>1. MCInit => Inv
  BY KindInit
<1>2. ASSUME Inv, [MCNext]_<<vars, skip, kind>> PROVE Inv'
  <2>1. [Next]_vars /\ [SkipNext]_skip
    BY <1>2 DEF MCNext
  <2>2. TInv' /\ IInv'
    BY <1>2, <2>1, IoTypesKept, StepKeeps
  <2>3. SInv'
    BY <1>2, <2>1, SkipInvStep
  <2> QED BY <2>2, <2>3
<1> HIDE DEF Inv
<1>3. MCSpec => []Inv
  BY <1>1, <1>2, PTL DEF MCSpec
<1> QED BY <1>3 DEF Inv

\* The state of the device, of its cache and of a transfer keeps its types: no
\* page runs out of the device, no offset leaves it by more than a block.
THEOREM Typing == MCSpec => []Types
<1>1. TInv /\ IInv /\ SInv => Types
  BY DEF TInv, SInv, Types
<1> QED BY <1>1, KindInv, PTL

\* What nand_read gives its caller, through the page cache or not, is what the
\* page holds, whatever was read, written, erased, marked bad and failed before.
\* The exceptions are the ones of ReadsRight: the status byte, pages that cannot
\* be corrected, a cache that a failing or an out-of-band read loaded, and pages
\* on which the controller gave up.
THEOREM ReadsAreRight == MCSpec => []ReadsRight
<1>1. TInv /\ IInv /\ SInv => ReadsRight
  BY DEF IInv
<1> QED BY <1>1, KindInv, PTL

\* A transfer around bad blocks uses the first good pages from its offset on, in
\* order, tells no more than it moved, and is refused only if there is no room
\* before the last block (nand_write_skip_bad, nand_read_skip_bad), unless
\* get_len_incl_bad stopped early with a count equal to the length.
THEOREM UsesFirstGood == MCSpec => []Skipped
<1>1. TInv /\ IInv /\ SInv => Skipped
  BY DEF SInv
<1> QED BY <1>1, KindInv, PTL

=============================================================================
