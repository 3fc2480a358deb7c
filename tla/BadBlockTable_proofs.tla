------------------------ MODULE BadBlockTable_proofs ------------------------
(***************************************************************************)
(* Proofs about BadBlockTable, for any chip, any number of table blocks    *)
(* and any number of flash errors and power losses: the type invariant,    *)
(* WholeRemembered, PagesDisjoint, NewerKnowsMore, TablesInStep, and the   *)
(* refinement of BadBlockStore.  IInv, inductive, says where tables are    *)
(* while write_bbt replaces them one after the other, and that no table    *)
(* lacks a block of whole.  Clear, inductive with it: the bad blocks of    *)
(* Area are the factory's.  Quiet, inductive with both, says what the      *)
(* tables hold as long as no flash operation has failed and Area has a     *)
(* good block for each (Enough): the refinement and TablesInStep rest on   *)
(* it.  Comparable, inductive with IInv, Clear and Paired (a mirror has    *)
(* always a block beside it for main), says how far versions can be apart. *)
(***************************************************************************)
EXTENDS BadBlockTable, FiniteSetTheorems, WellFoundedInduction, TLAPS

TableBlocks == {b \in Area : area[b].kind \in Kinds}

\* There is at most one table of each kind on flash.
OneTable ==
  \A a, b \in TableBlocks : area[a].kind = area[b].kind => a = b

\* Every table is where write_bbt will look for a block for it: where its
\* descriptor says, or where a program left it that reported an error.
Located ==
  Running => \A b \in TableBlocks : Spot(area[b].kind) = {b}

\* The descriptors never name one block twice.  When one table is left to write
\* the other one is placed.
Placed ==
  /\ desc["main"].page # None => desc["main"].page # desc["mirror"].page
  /\ Running /\ job \in {<<"main">>, <<"mirror">>} => desc[Other(Head(job))].page # None

\* Between erase and program the chosen block is blank and belongs to no other
\* table.
Working ==
  /\ pc \in {"erase", "program"} => job # <<>>
  /\ pc \in {"mark", "ready"} => job = <<>>
  /\ pc = "mark" => ~booting
  /\ pc = "program" =>
       /\ page \in Area /\ area[page] = Blank
       /\ page # desc[Other(Head(job))].page
       /\ Spot(Head(job)) = {page}

\* When one table is left to write, the other one holds the RAM table.
HalfDone ==
  pc \in {"erase", "program"} /\ job \in {<<"main">>, <<"mirror">>} =>
    \A b \in Area : area[b].kind = Other(Head(job)) => bbt \subseteq area[b].tab

\* While a block is being marked it is in the RAM table, and when the update
\* succeeded in every table on flash.
Marking ==
  /\ pc \in {"erase", "program"} /\ ~booting => target \in bbt
  /\ pc = "mark" =>
       /\ target \in bbt
       /\ upd => \A b \in TableBlocks : bbt \subseteq area[b].tab

\* A block of whole is in all the places a boot may take the table from.
WholeKept ==
  /\ whole \subseteq marks
  /\ \A b \in TableBlocks : whole \subseteq area[b].tab
  /\ Running => whole \subseteq bbt

IInv == TypeOK /\ OneTable /\ Located /\ Placed /\ Working /\ HalfDone /\ Marking /\ WholeKept

(***************************************************************************)
(* Facts about the constants, the jobs and the search at boot.             *)
(***************************************************************************)
Jobs == {<<>>, <<"main">>, <<"mirror">>, <<"main", "mirror">>}

LEMMA NoneNotInArea == None \notin Area /\ Area \subseteq Blocks /\ Area \subseteq Int
BY BlockAssumption DEF None, Area, Blocks

LEMMA JobFacts ==
  /\ Head(<<"main">>) = "main" /\ Tail(<<"main">>) = <<>>
  /\ Head(<<"mirror">>) = "mirror" /\ Tail(<<"mirror">>) = <<>>
  /\ Head(<<"main", "mirror">>) = "main" /\ Tail(<<"main", "mirror">>) = <<"mirror">>
  /\ <<"main">> # <<>> /\ <<"mirror">> # <<>> /\ <<"main", "mirror">> # <<>>
  /\ <<"main">> # <<"mirror">> /\ <<"main">> # <<"main", "mirror">>
  /\ <<"mirror">> # <<"main", "mirror">>
<1>1. Head(<<"main">>) = "main" /\ Head(<<"mirror">>) = "mirror"
  OBVIOUS
<1>2. Tail(<<"main">>) = <<>> /\ Tail(<<"mirror">>) = <<>>
  OBVIOUS
<1>3. Head(<<"main", "mirror">>) = "main"
  OBVIOUS
<1>4. Tail(<<"main", "mirror">>) = <<"mirror">>
  OBVIOUS
<1>5. <<"main">> # <<>> /\ <<"mirror">> # <<>> /\ <<"main", "mirror">> # <<>>
  OBVIOUS
<1>6. Len(<<"main">>) = 1 /\ Len(<<"mirror">>) = 1 /\ Len(<<"main", "mirror">>) = 2
  OBVIOUS
<1>7. <<"main">> # <<"mirror">>
  OBVIOUS
<1> QED BY <1>1, <1>2, <1>3, <1>4, <1>5, <1>6, <1>7

\* A table search_bbt finds is one of the kind it looks for, and it finds none
\* only when there is none.
LEMMA FoundFacts ==
  ASSUME area \in [Area -> Tables \cup {Blank}], OneTable, NEW d \in Kinds
  PROVE  /\ Found(d) \in [page : Area \cup {None}, ver : 0 .. 255]
         /\ Found(d).page # None =>
              /\ Found(d).page \in TableBlocks
              /\ area[Found(d).page].kind = d
              /\ Found(d).ver = area[Found(d).page].ver
         /\ \A b \in Area : area[b].kind = d => Found(d).page = b
<1> DEFINE hits == {b \in Area : area[b].kind = d}
<1>1. CASE hits = {}
  BY <1>1, NoneNotInArea DEF Found
<1>2. CASE hits # {}
  <2>1. PICK h \in hits : TRUE
    BY <1>2
  <2>2. \A y \in hits : y = h
    BY <2>1 DEF OneTable, TableBlocks
  <2>3. \A y \in hits : y <= h
    BY <2>1, <2>2, NoneNotInArea
  <2>4. (CHOOSE x \in hits : \A y \in hits : y <= x) = h
    BY <2>1, <2>2, <2>3
  <2>5. Found(d) = [page |-> h, ver |-> area[h].ver]
    BY <1>2, <2>4 DEF Found
  <2>6. h \in Area /\ area[h].kind = d /\ area[h] \in Tables
    BY <2>1 DEF Blank, Kinds, Tables
  <2> QED BY <2>2, <2>5, <2>6, NoneNotInArea DEF TableBlocks, Tables
<1> QED BY <1>1, <1>2

\* What check_create makes of the two searches.
LEMMA BootFacts ==
  ASSUME TypeOK, OneTable
  PROVE  LET td == Found("main")
             md == Found("mirror")
             p  == Chosen(td, md)
         IN /\ p = None => td.page = None /\ md.page = None /\ Recovered = marks
            /\ p # None => p \in TableBlocks /\ area[p] \in Tables /\ Recovered = area[p].tab
            /\ Missing(td, md) \in Jobs
            /\ Missing(td, md) = <<>> => td.page # None /\ md.page # None
            /\ Missing(td, md) = <<"main">> => md.page # None /\ p = md.page
            /\ Missing(td, md) = <<"mirror">> => td.page # None /\ p = td.page
<1> DEFINE td == Found("main")
           md == Found("mirror")
           p  == Chosen(td, md)
<1>1. "main" \in Kinds /\ "mirror" \in Kinds
  BY DEF Kinds
<1>2. area \in [Area -> Tables \cup {Blank}]
  BY DEF TypeOK
<1>3. /\ td.page # None => td.page \in TableBlocks
      /\ md.page # None => md.page \in TableBlocks
  BY <1>1, <1>2, FoundFacts
<1>4. p = td.page \/ p = md.page \/ p = None
  BY DEF Chosen
<1>5. p # None => p \in TableBlocks /\ area[p] \in Tables
  BY <1>2, <1>3, <1>4 DEF TableBlocks, Blank, Kinds
<1>6. p = None => td.page = None /\ md.page = None
  BY DEF Chosen
<1>7. Recovered = IF p = None THEN marks ELSE area[p].tab
  BY DEF Recovered
<1>8. /\ Missing(td, md) \in Jobs
      /\ Missing(td, md) = <<>> => td.page # None /\ md.page # None
  BY JobFacts DEF Missing, Jobs
<1>9. Missing(td, md) = <<"main">> => md.page # None /\ p = md.page
  BY JobFacts DEF Missing, Chosen
<1>10. Missing(td, md) = <<"mirror">> => td.page # None /\ p = td.page
  BY JobFacts DEF Missing, Chosen
<1> QED BY <1>5, <1>6, <1>7, <1>8, <1>9, <1>10

(***************************************************************************)
(* Where write_bbt puts a table.                                           *)
(***************************************************************************)
LEMMA SpotFacts ==
  ASSUME TypeOK, NEW d \in Kinds, NEW b \in Spot(d)
  PROVE  /\ Spot(d) = {b} /\ b \in Area /\ desc[d].page \in {None, b}
         /\ desc[d].page = None => b # desc[Other(d)].page
<1>1. CASE desc[d].page = None
  <2>1. Spot(d) = {x \in Places(d) : \A y \in Places(d) : y <= x}
    BY <1>1 DEF Spot
  <2>2. Places(d) \subseteq Area /\ Places(d) \subseteq Int
    BY NoneNotInArea DEF Places
  <2>3. b \in Places(d) /\ \A y \in Places(d) : y <= b
    BY <2>1
  <2>4. \A x \in Spot(d) : x = b
    BY <2>1, <2>2, <2>3
  <2> QED BY <1>1, <2>2, <2>3, <2>4 DEF Places
<1>2. CASE desc[d].page # None
  <2>1. desc[d] \in [page : Area \cup {None}, ver : 0 .. 255]
    BY DEF TypeOK
  <2> QED BY <1>2, <2>1 DEF Spot
<1> QED BY <1>1, <1>2

LEMMA SameSpot ==
  ASSUME desc' = desc, bbt' = bbt, NEW d
  PROVE  Spot(d)' = Spot(d)
BY Zenon DEF Spot, Places

LEMMA PlaceFacts ==
  ASSUME IInv, pc = "erase"
  PROVE  /\ Head(job) \in Kinds
         /\ \A b \in Place(Head(job)) :
              /\ b \in Area /\ b \notin bbt
              /\ b # desc[Other(Head(job))].page
              /\ Spot(Head(job)) = {b}
              /\ desc[Head(job)].page \in {None, b}
<1>1. job \in Jobs \ {<<>>}
  BY DEF IInv, TypeOK, Working, Jobs
<1>2. Head(job) \in Kinds
  BY <1>1, JobFacts DEF Jobs, Kinds
<1>3. TypeOK /\ (desc["main"].page # None => desc["main"].page # desc["mirror"].page)
  BY DEF IInv, Placed
<1>4. ASSUME NEW b \in Place(Head(job))
      PROVE  /\ b \in Area /\ b \notin bbt
             /\ b # desc[Other(Head(job))].page
             /\ Spot(Head(job)) = {b}
             /\ desc[Head(job)].page \in {None, b}
  <2>1. b \in Spot(Head(job)) /\ b \notin bbt
    BY DEF Place
  <2>2. /\ Spot(Head(job)) = {b} /\ b \in Area /\ desc[Head(job)].page \in {None, b}
        /\ desc[Head(job)].page = None => b # desc[Other(Head(job))].page
    BY <1>2, <1>3, <2>1, SpotFacts
  <2>3. b # None
    BY <2>2, NoneNotInArea
  <2> QED BY <1>2, <1>3, <2>1, <2>2, <2>3 DEF Other, Kinds
<1> QED BY <1>2, <1>4

(***************************************************************************)
(* Type correctness of every step.                                         *)
(***************************************************************************)
LEMMA TypeInit == Init => TypeOK
<1> SUFFICES ASSUME Init PROVE TypeOK
  OBVIOUS
<1>1. marks \subseteq Blocks
  BY BlockAssumption DEF Init, Blocks
<1>2. area \in [Area -> Tables \cup {Blank}]
  <2>1. CASE area = [b \in Area |-> Blank]
    BY <2>1
  <2>2. CASE \E v \in FirstVersion, p, q \in Area \ marks :
               /\ p # q
               /\ area = [b \in Area |->
                    IF b = p THEN [kind |-> "main", ver |-> v, tab |-> marks]
                    ELSE IF b = q THEN [kind |-> "mirror", ver |-> v, tab |-> marks]
                    ELSE Blank]
    BY <2>2, <1>1, BlockAssumption DEF Tables, Kinds
  <2> QED BY <2>1, <2>2 DEF Init
<1>3. desc \in [Kinds -> [page : Area \cup {None}, ver : 0 .. 255]]
  BY DEF Init, NoDesc
<1>4. fails \in 0 .. MaxFail
  BY BlockAssumption DEF Init
<1>5. /\ pc = "off" /\ job = <<>> /\ bbt \subseteq Blocks
      /\ booting \in BOOLEAN /\ upd \in BOOLEAN
  BY DEF Init
<1>6. page \in Area \cup {None} /\ target \in Blocks \cup {None}
  BY DEF Init
<1>7. acked \subseteq Blocks /\ whole \subseteq Blocks
  BY <1>1 DEF Init
<1> QED BY <1>1, <1>2, <1>3, <1>4, <1>5, <1>6, <1>7 DEF TypeOK

LEMMA TypeStep == IInv /\ [Next]_vars => TypeOK'
<1> SUFFICES ASSUME IInv, [Next]_vars PROVE TypeOK'
  OBVIOUS
<1> USE DEF IInv
<1>a. TypeOK /\ OneTable
  OBVIOUS
<1>1. CASE Boot
  <2>1. bbt' \subseteq Blocks /\ job' \in Jobs
    BY <1>1, <1>a, BootFacts DEF Boot, TypeOK, Tables
  <2>2. \A d \in Kinds : Found(d).page \in Area \cup {None}
    BY <1>a, FoundFacts DEF TypeOK
  <2>3. LET p == Chosen(Found("main"), Found("mirror"))
        IN (IF p = None THEN 1 ELSE area[p].ver) \in 0 .. 255
    BY <1>a, BootFacts DEF Tables
  <2>4. desc' \in [Kinds -> [page : Area \cup {None}, ver : 0 .. 255]]
    BY <1>1, <2>2, <2>3 DEF Boot
  <2>5. pc' \in {"ready", "erase"}
    BY <1>1 DEF Boot, NextPc
  <2> QED BY <1>1, <2>1, <2>4, <2>5 DEF Boot, TypeOK, Jobs, flashVars, histVars
<1>2. CASE Erase
  <2>1. PICK b \in Place(Head(job)) : page' = b /\ area' = [area EXCEPT ![b] = Blank]
    BY <1>2 DEF Erase
  <2>2. b \in Area
    BY <1>2, PlaceFacts DEF Erase
  <2>3. area' \in [Area -> Tables \cup {Blank}]
    BY <2>1, <2>2 DEF TypeOK
  <2> QED BY <1>2, <2>1, <2>2, <2>3 DEF Erase, TypeOK, histVars
<1>3. CASE NoSpace
  BY <1>3 DEF NoSpace, GiveUp, TypeOK, flashVars, histVars
<1>4. CASE EraseFail
  <2>1. PICK b \in Place(Head(job)) :
           page' = b /\ area' \in {area, [area EXCEPT ![b] = Blank]}
    BY <1>4 DEF EraseFail
  <2>2. b \in Area
    BY <1>4, PlaceFacts DEF EraseFail
  <2>3. area' \in [Area -> Tables \cup {Blank}]
    BY <2>1, <2>2 DEF TypeOK
  <2>4. fails' \in 0 .. MaxFail
    BY <1>4, BlockAssumption DEF EraseFail, TypeOK
  <2> QED BY <1>4, <2>1, <2>2, <2>3, <2>4 DEF EraseFail, GiveUp, TypeOK, histVars
<1>5. ASSUME pc = "program"
      PROVE  /\ Head(job) \in Kinds /\ Tail(job) \in Jobs
             /\ page \in Area /\ Table(Head(job)) \in Tables
  <2>1. job \in Jobs \ {<<>>}
    BY <1>5 DEF TypeOK, Working, Jobs
  <2>2. Head(job) \in Kinds /\ Tail(job) \in Jobs
    BY <2>1, JobFacts DEF Jobs, Kinds
  <2> QED BY <1>5, <2>2 DEF TypeOK, Working, Table, Tables
<1>6. CASE Program
  <2>0. pc = "program"
    BY <1>6 DEF Program
  <2>1. area' \in [Area -> Tables \cup {Blank}]
    BY <1>5, <1>6, <2>0 DEF Program, TypeOK
  <2>2. desc' \in [Kinds -> [page : Area \cup {None}, ver : 0 .. 255]]
    <3>1. desc[Head(job)] \in [page : Area \cup {None}, ver : 0 .. 255]
      BY <1>5, <2>0 DEF TypeOK
    <3>2. [desc[Head(job)] EXCEPT !.page = page] \in [page : Area \cup {None}, ver : 0 .. 255]
      BY <1>5, <2>0, <3>1
    <3>3. desc' = [desc EXCEPT ![Head(job)] = [desc[Head(job)] EXCEPT !.page = page]]
      BY <1>6 DEF Program
    <3> QED BY <3>2, <3>3 DEF TypeOK
  <2>3. /\ pc' \in {"erase", "ready", "mark"}
        /\ upd' \in BOOLEAN /\ job' \in Jobs
    BY <1>5, <1>6, <2>0 DEF Program, TypeOK
  <2> QED BY <1>6, <2>1, <2>2, <2>3 DEF Program, TypeOK, Jobs
<1>7. CASE ProgramFail
  <2>0. pc = "program"
    BY <1>7 DEF ProgramFail
  <2>1. area' \in [Area -> Tables \cup {Blank}]
    BY <1>5, <1>7, <2>0 DEF ProgramFail, TypeOK
  <2>2. fails' \in 0 .. MaxFail
    BY <1>7, BlockAssumption DEF ProgramFail, TypeOK
  <2> QED BY <1>7, <2>1, <2>2 DEF ProgramFail, GiveUp, TypeOK, histVars
<1>8. ASSUME NEW b \in Blocks, MarkBad(b) PROVE TypeOK'
  <2>1. ASSUME NEW n \in 0 .. 255 PROVE (n + 1) % 256 \in 0 .. 255
    OBVIOUS
  <2>2. ASSUME NEW d \in Kinds
        PROVE  [desc[d] EXCEPT !.ver = (@ + 1) % 256] \in [page : Area \cup {None}, ver : 0 .. 255]
    <3>1. desc[d] \in [page : Area \cup {None}, ver : 0 .. 255]
      BY DEF TypeOK
    <3>2. (desc[d].ver + 1) % 256 \in 0 .. 255
      BY <2>1, <3>1
    <3> QED BY <3>1, <3>2
  <2>3. desc' \in [Kinds -> [page : Area \cup {None}, ver : 0 .. 255]]
    BY <1>8, <2>2 DEF MarkBad
  <2> QED BY <1>8, <2>3 DEF MarkBad, TypeOK, flashVars, histVars
<1>9. ASSUME pc = "mark" PROVE target \in Blocks
  BY <1>9 DEF Working, Marking, TypeOK
<1>10. CASE WriteMark
  BY <1>9, <1>10 DEF WriteMark, TypeOK
<1>11. CASE WriteMarkFail
  <2>1. fails' \in 0 .. MaxFail
    BY <1>11, BlockAssumption DEF WriteMarkFail, TypeOK
  <2> QED BY <1>9, <1>11, <2>1 DEF WriteMarkFail, TypeOK, histVars
<1>12. CASE PowerLoss
  <2>1. NoDesc \in [Kinds -> [page : Area \cup {None}, ver : 0 .. 255]]
    BY DEF NoDesc
  <2> QED BY <1>12, <2>1 DEF PowerLoss, TypeOK, flashVars, histVars
<1>13. CASE UNCHANGED vars
  BY <1>13 DEF vars, TypeOK
<1> QED BY <1>1, <1>2, <1>3, <1>4, <1>6, <1>7, <1>8, <1>10, <1>11, <1>12, <1>13 DEF Next, Step
(***************************************************************************)
(* The inductive invariant.                                                *)
(***************************************************************************)
LEMMA IInvInit == Init => IInv
<1> SUFFICES ASSUME Init PROVE IInv
  OBVIOUS
<1>1. TypeOK
  BY TypeInit
<1>2. \A b \in TableBlocks : area[b].tab = marks
  BY DEF Init, TableBlocks, Blank, Kinds
<1>3. OneTable
  BY DEF Init, OneTable, TableBlocks, Blank, Kinds
<1>4. ~Running
  BY DEF Init, Running
<1>5. Located /\ Placed /\ Working /\ HalfDone /\ Marking
  BY <1>4 DEF Init, Located, Placed, Working, HalfDone, Marking, Running, NoDesc, Kinds
<1>6. WholeKept
  BY <1>2, <1>4 DEF Init, WholeKept
<1> QED BY <1>1, <1>3, <1>5, <1>6 DEF IInv

LEMMA BootStep == IInv /\ Boot => OneTable' /\ Located' /\ Placed' /\ Working'
                                   /\ HalfDone' /\ Marking' /\ WholeKept'
<1> SUFFICES ASSUME IInv, Boot
             PROVE  OneTable' /\ Located' /\ Placed' /\ Working'
                      /\ HalfDone' /\ Marking' /\ WholeKept'
  OBVIOUS
<1> DEFINE td == Found("main")
           md == Found("mirror")
           p  == Chosen(td, md)
<1>a. TypeOK /\ OneTable /\ WholeKept /\ area \in [Area -> Tables \cup {Blank}]
  BY DEF IInv, TypeOK
<1>b. /\ p = None => td.page = None /\ md.page = None /\ Recovered = marks
      /\ p # None => p \in TableBlocks /\ Recovered = area[p].tab
      /\ Missing(td, md) \in Jobs
      /\ Missing(td, md) = <<>> => td.page # None /\ md.page # None
      /\ Missing(td, md) = <<"main">> => md.page # None /\ p = md.page
      /\ Missing(td, md) = <<"mirror">> => td.page # None /\ p = td.page
  BY <1>a, BootFacts
<1>c. /\ area' = area /\ marks' = marks /\ whole' = whole
      /\ bbt' = Recovered /\ booting' = TRUE /\ job' = Missing(td, md)
      /\ pc' = NextPc(Missing(td, md))
      /\ \A d \in Kinds : desc'[d].page = Found(d).page
  BY DEF Boot, flashVars, histVars
<1>d. /\ pc' \in {"ready", "erase"}
      /\ pc' = "ready" <=> job' = <<>>
  BY <1>c DEF NextPc
<1>e. ASSUME NEW d \in Kinds
      PROVE  /\ Found(d).page # None => /\ Found(d).page \in TableBlocks
                                        /\ area[Found(d).page].kind = d
             /\ \A b \in Area : area[b].kind = d => Found(d).page = b
  BY <1>a, FoundFacts
<1>f. "main" \in Kinds /\ "mirror" \in Kinds
  BY DEF Kinds
<1>1. OneTable'
  BY <1>a, <1>c DEF OneTable, TableBlocks
<1>2. Located'
  <2>1. ASSUME NEW b \in TableBlocks PROVE desc'[area[b].kind].page = b /\ b # None
    BY <1>c, <1>e, NoneNotInArea DEF TableBlocks
  <2>2. ASSUME NEW b \in TableBlocks PROVE Spot(area[b].kind)' = {b}
    BY <1>c, <2>1 DEF Spot
  <2> QED BY <1>c, <2>2 DEF Located, TableBlocks
<1>3. Placed'
  <2>2. job' \in {<<"main">>, <<"mirror">>} => desc'[Other(Head(job'))].page # None
    BY <1>b, <1>c, <1>f, JobFacts DEF Other
  <2>3. desc'["main"].page # None => desc'["main"].page # desc'["mirror"].page
    BY <1>c, <1>e, <1>f
  <2> QED BY <1>c, <2>2, <2>3 DEF Placed
<1>4. Working'
  BY <1>d DEF Working
<1>5. HalfDone'
  <2>1. ASSUME NEW b \in Area, job' = <<"main">>, area[b].kind = "mirror"
        PROVE  Recovered = area[b].tab
    BY <1>b, <1>c, <1>e, <1>f, <2>1
  <2>2. ASSUME NEW b \in Area, job' = <<"mirror">>, area[b].kind = "main"
        PROVE  Recovered = area[b].tab
    BY <1>b, <1>c, <1>e, <1>f, <2>2
  <2> QED BY <1>c, <2>1, <2>2, JobFacts DEF HalfDone, Other
<1>6. Marking'
  BY <1>c, <1>d DEF Marking
<1>7. WholeKept'
  BY <1>a, <1>b, <1>c DEF WholeKept, TableBlocks
<1> QED BY <1>1, <1>2, <1>3, <1>4, <1>5, <1>6, <1>7

\* Erasing the chosen block only takes a table away.
LEMMA EraseStep == IInv /\ Erase => OneTable' /\ Located' /\ Placed' /\ Working'
                                     /\ HalfDone' /\ Marking' /\ WholeKept'
<1> SUFFICES ASSUME IInv, Erase
             PROVE  OneTable' /\ Located' /\ Placed' /\ Working'
                      /\ HalfDone' /\ Marking' /\ WholeKept'
  OBVIOUS
<1>a. pc = "erase" /\ pc' = "program"
  BY DEF Erase
<1>b. PICK b \in Place(Head(job)) : page' = b /\ area' = [area EXCEPT ![b] = Blank]
  BY DEF Erase
<1>c. b \in Area /\ b # desc[Other(Head(job))].page /\ Spot(Head(job)) = {b}
  BY <1>a, PlaceFacts
<1>d. area \in [Area -> Tables \cup {Blank}]
  BY DEF IInv, TypeOK
<1>e. /\ area'[b] = Blank
      /\ \A x \in Area : area'[x] = area[x] \/ area'[x] = Blank
      /\ TableBlocks' \subseteq TableBlocks
      /\ \A x \in TableBlocks' : area'[x] = area[x]
  BY <1>b, <1>c, <1>d DEF TableBlocks, Blank, Kinds
<1>f. /\ marks' = marks /\ bbt' = bbt /\ desc' = desc /\ job' = job
      /\ booting' = booting /\ target' = target /\ whole' = whole
  BY DEF Erase, histVars
<1>g. \A d : Spot(d)' = Spot(d)
  BY <1>f, SameSpot
<1>1. OneTable'
  BY <1>e DEF IInv, OneTable
<1>2. Located'
  BY <1>a, <1>e, <1>f, <1>g DEF IInv, Located, Running
<1>3. Placed'
  BY <1>a, <1>f DEF IInv, Placed, Running
<1>4. Working'
  BY <1>a, <1>b, <1>c, <1>e, <1>f, <1>g DEF IInv, Working
<1>5. HalfDone'
  BY <1>a, <1>e, <1>f, JobFacts DEF IInv, HalfDone, Other, Blank
<1>6. Marking'
  BY <1>a, <1>f DEF IInv, Marking
<1>7. WholeKept'
  BY <1>a, <1>e, <1>f DEF IInv, WholeKept, Running
<1> QED BY <1>1, <1>2, <1>3, <1>4, <1>5, <1>6, <1>7

\* A failed update leaves some tables as they were, and nothing to do but the
\* bad mark.
LEMMA GiveUpStep ==
  ASSUME IInv, GiveUp, pc \in {"erase", "program"},
         marks' = marks, bbt' = bbt, booting' = booting, target' = target,
         OneTable', Located',
         \A x \in TableBlocks' : whole \subseteq area'[x].tab
  PROVE  OneTable' /\ Located' /\ Placed' /\ Working'
           /\ HalfDone' /\ Marking' /\ WholeKept'
<1>a. /\ job' = <<>> /\ desc' = desc /\ whole' = whole /\ upd' = FALSE
      /\ pc' = IF booting THEN "ready" ELSE "mark"
  BY DEF GiveUp, histVars
<1>b. Running
  BY DEF Running
<1>1. Placed'
  BY <1>a, <1>b, JobFacts DEF IInv, Placed, Running
<1>2. Working' /\ HalfDone' /\ Marking'
  BY <1>a, JobFacts DEF IInv, Working, HalfDone, Marking
<1>3. WholeKept'
  BY <1>a, <1>b DEF IInv, WholeKept, Running
<1> QED BY <1>1, <1>2, <1>3

LEMMA NoSpaceStep == IInv /\ NoSpace => OneTable' /\ Located' /\ Placed' /\ Working'
                                         /\ HalfDone' /\ Marking' /\ WholeKept'
<1> SUFFICES ASSUME IInv, NoSpace
             PROVE  OneTable' /\ Located' /\ Placed' /\ Working'
                      /\ HalfDone' /\ Marking' /\ WholeKept'
  OBVIOUS
<1>1. /\ GiveUp /\ pc = "erase" /\ area' = area /\ desc' = desc
      /\ marks' = marks /\ bbt' = bbt /\ booting' = booting /\ target' = target
  BY DEF NoSpace, GiveUp, flashVars
<1>2. OneTable' /\ Located'
  BY <1>1, SameSpot DEF IInv, OneTable, Located, TableBlocks, Running
<1>3. \A x \in TableBlocks' : whole \subseteq area'[x].tab
  BY <1>1 DEF IInv, WholeKept, TableBlocks
<1> QED BY <1>1, <1>2, <1>3, GiveUpStep

LEMMA EraseFailStep == IInv /\ EraseFail => OneTable' /\ Located' /\ Placed' /\ Working'
                                             /\ HalfDone' /\ Marking' /\ WholeKept'
<1> SUFFICES ASSUME IInv, EraseFail
             PROVE  OneTable' /\ Located' /\ Placed' /\ Working'
                      /\ HalfDone' /\ Marking' /\ WholeKept'
  OBVIOUS
<1>1. /\ GiveUp /\ pc = "erase" /\ desc' = desc
      /\ marks' = marks /\ bbt' = bbt /\ booting' = booting /\ target' = target
  BY DEF EraseFail, GiveUp
<1>2. PICK b \in Place(Head(job)) : area' \in {area, [area EXCEPT ![b] = Blank]}
  BY DEF EraseFail
<1>3. b \in Area /\ area \in [Area -> Tables \cup {Blank}]
  BY <1>1, PlaceFacts DEF IInv, TypeOK
<1>4. /\ TableBlocks' \subseteq TableBlocks
      /\ \A x \in TableBlocks' : area'[x] = area[x]
  BY <1>2, <1>3 DEF TableBlocks, Blank, Kinds
<1>5. OneTable' /\ Located'
  BY <1>1, <1>4, SameSpot DEF IInv, OneTable, Located, Running
<1>6. \A x \in TableBlocks' : whole \subseteq area'[x].tab
  BY <1>4 DEF IInv, WholeKept
<1> QED BY <1>1, <1>5, <1>6, GiveUpStep

\* What programming the chosen block does to the tables on flash.
LEMMA ProgramFacts ==
  ASSUME IInv, pc = "program", area' = [area EXCEPT ![page] = Table(Head(job))]
  PROVE  /\ Head(job) \in Kinds /\ Other(Head(job)) \in Kinds /\ Other(Head(job)) # Head(job)
         /\ page \in Area /\ desc[Head(job)].page \in {None, page}
         /\ page # desc[Other(Head(job))].page /\ Spot(Head(job)) = {page}
         /\ TableBlocks' = TableBlocks \cup {page} /\ page \notin TableBlocks
         /\ area'[page] = Table(Head(job))
         /\ \A x \in TableBlocks : area'[x] = area[x] /\ area[x].kind = Other(Head(job))
<1>1. job \in Jobs \ {<<>>}
  BY DEF IInv, TypeOK, Working, Jobs
<1>2. Head(job) \in Kinds /\ Other(Head(job)) \in Kinds /\ Other(Head(job)) # Head(job)
  BY <1>1, JobFacts DEF Jobs, Kinds, Other
<1>3. /\ page \in Area /\ area[page] = Blank /\ Spot(Head(job)) = {page}
      /\ page # desc[Other(Head(job))].page /\ TypeOK
  BY DEF IInv, Working
<1>10. desc[Head(job)].page \in {None, page}
  BY <1>2, <1>3, SpotFacts
<1>4. area \in [Area -> Tables \cup {Blank}]
  BY DEF IInv, TypeOK
<1>5. page \notin TableBlocks
  BY <1>3 DEF TableBlocks, Blank, Kinds
<1>6. /\ area'[page] = Table(Head(job)) /\ Table(Head(job)).kind = Head(job)
      /\ \A x \in Area : x # page => area'[x] = area[x]
  BY <1>3, <1>4 DEF Table
<1>7. TableBlocks' = TableBlocks \cup {page}
  BY <1>2, <1>3, <1>5, <1>6 DEF TableBlocks
<1>8. ASSUME NEW x \in TableBlocks PROVE area[x].kind = Other(Head(job))
  <2>1. Spot(area[x].kind) = {x} /\ area[x].kind \in Kinds
    BY DEF IInv, Located, Running, TableBlocks
  <2>2. x # page
    BY <1>5
  <2>3. area[x].kind # Head(job)
    BY <1>3, <2>1, <2>2
  <2> QED BY <1>2, <2>1, <2>3 DEF Kinds, Other
<1>9. \A x \in TableBlocks : area'[x] = area[x]
  BY <1>5, <1>6 DEF TableBlocks
<1> QED BY <1>2, <1>3, <1>5, <1>6, <1>7, <1>8, <1>9, <1>10

\* Placing one table leaves the other one where it is.
LEMMA OtherSpot ==
  ASSUME TypeOK, bbt' = bbt, NEW d \in Kinds, NEW x \in Area, x # page,
         Spot(Other(d)) = {x}, desc[d].page \in {None, page},
         desc'[d].page = page, desc'[Other(d)] = desc[Other(d)]
  PROVE  Spot(Other(d))' = {x}
<1>1. Other(Other(d)) = d /\ Other(d) \in Kinds
  BY DEF Other, Kinds
<1>2. CASE desc[Other(d)].page # None
  BY <1>2 DEF Spot
<1>3. CASE desc[Other(d)].page = None
  <2> DEFINE P == Places(Other(d))
             Q == Places(Other(d))'
  <2>1. P = {b \in Area : b \notin bbt /\ b # desc[d].page}
    BY <1>1 DEF Places
  <2>2. Q = {b \in Area : b \notin bbt /\ b # page}
    BY <1>1 DEF Places
  <2>3. {y \in P : \A z \in P : z <= y} = {x}
    BY <1>3 DEF Spot
  <2>4. Spot(Other(d))' = {y \in Q : \A z \in Q : z <= y}
    BY <1>3 DEF Spot
  <2>5. x \in P /\ \A z \in P : z <= x
    BY <2>3
  <2>6. x \in Q /\ Q \subseteq P
    BY <2>1, <2>2, <2>5, NoneNotInArea
  <2> HIDE DEF P, Q
  <2>7. Q \subseteq Int
    BY <2>2, NoneNotInArea
  <2>8. {y \in Q : \A z \in Q : z <= y} = {x}
    BY <2>5, <2>6, <2>7
  <2> QED BY <2>4, <2>8
<1> QED BY <1>2, <1>3

LEMMA ProgramStep == IInv /\ Program => OneTable' /\ Located' /\ Placed' /\ Working'
                                         /\ HalfDone' /\ Marking' /\ WholeKept'
<1> SUFFICES ASSUME IInv, Program
             PROVE  OneTable' /\ Located' /\ Placed' /\ Working'
                      /\ HalfDone' /\ Marking' /\ WholeKept'
  OBVIOUS
<1> DEFINE d == Head(job)
<1>a. /\ pc = "program" /\ area' = [area EXCEPT ![page] = Table(d)]
      /\ marks' = marks /\ bbt' = bbt /\ whole' = whole /\ page' = page
      /\ booting' = booting /\ target' = target
      /\ job' = Tail(job) /\ upd' = (job' = <<>>)
  BY DEF Program
<1>b. /\ d \in Kinds /\ Other(d) \in Kinds /\ Other(d) # d
      /\ page \in Area /\ desc[d].page \in {None, page}
      /\ page # desc[Other(d)].page
      /\ TableBlocks' = TableBlocks \cup {page} /\ page \notin TableBlocks
      /\ area'[page] = Table(d)
      /\ \A x \in TableBlocks : area'[x] = area[x] /\ area[x].kind = Other(d)
  BY <1>a, ProgramFacts
<1>c. /\ desc \in [Kinds -> [page : Area \cup {None}, ver : 0 .. 255]]
      /\ job \in Jobs \ {<<>>} /\ TypeOK
  BY <1>a DEF IInv, TypeOK, Working, Jobs
<1>d. desc'[d].page = page /\ desc'[Other(d)] = desc[Other(d)]
  BY <1>b, <1>c DEF Program
<1>e. \/ job = <<"main", "mirror">> /\ job' = <<"mirror">> /\ d = "main" /\ pc' = "erase"
      \/ job = <<"main">> /\ job' = <<>> /\ d = "main" /\ pc' \in {"ready", "mark"}
      \/ job = <<"mirror">> /\ job' = <<>> /\ d = "mirror" /\ pc' \in {"ready", "mark"}
  BY <1>c, JobFacts DEF Program, Jobs
<1>f. job' = <<>> => pc' = IF booting THEN "ready" ELSE "mark"
  BY DEF Program
<1>g. Table(d).kind = d /\ Table(d).tab = bbt
  BY DEF Table
<1>1. OneTable'
  BY <1>b, <1>g DEF IInv, OneTable
<1>2. Located'
  <2>1. ASSUME NEW x \in TableBlocks, NEW k \in Kinds, k = d
        PROVE  Spot(Other(k))' = {x}
    <3>1. Spot(Other(k)) = {x} /\ x \in Area /\ x # page
      BY <1>a, <1>b, <2>1 DEF IInv, Located, Running, TableBlocks
    <3> QED BY <1>a, <1>b, <1>c, <1>d, <2>1, <3>1, OtherSpot
  <2>2. ASSUME NEW k \in Kinds, k = d PROVE Spot(k)' = {page}
    <3>1. page # None /\ desc'[k].page = page
      BY <1>b, <1>d, <2>2, NoneNotInArea
    <3> QED BY <3>1 DEF Spot
  <2>3. ASSUME NEW k \in Kinds, k = d, NEW x \in TableBlocks' PROVE Spot(area[x].kind)' = {x}
    <3>1. CASE x = page
      <4>1. area'[x].kind = k
        BY <1>b, <1>g, <2>3, <3>1
      <4> QED BY <2>2, <2>3, <3>1, <4>1
    <3>2. CASE x \in TableBlocks
      <4>1. area'[x].kind = Other(k)
        BY <1>b, <2>3, <3>2
      <4> QED BY <2>1, <2>3, <3>2, <4>1
    <3> QED BY <1>b, <2>3, <3>1, <3>2
  <2> QED BY <1>b, <2>3 DEF Located
<1>3. Placed'
  <2>1. page # None
    BY <1>b, NoneNotInArea
  <2>2. job \in {<<"main">>, <<"mirror">>} => desc[Other(d)].page # None
    BY <1>a DEF IInv, Placed, Running
  <2>5. job' \in {<<"main">>, <<"mirror">>} => desc'[Other(Head(job'))].page # None
    BY <1>d, <1>e, <2>1, JobFacts DEF Other
  <2>6. desc'["main"].page # desc'["mirror"].page
    BY <1>b, <1>d DEF Kinds, Other
  <2> QED BY <2>5, <2>6 DEF Placed
<1>4. Working'
  BY <1>a, <1>e, <1>f, JobFacts DEF Working
<1>5. HalfDone'
  <2>1. CASE job' = <<>>
    BY <2>1, JobFacts DEF HalfDone
  <2>2. CASE job = <<"main", "mirror">> /\ job' = <<"mirror">> /\ d = "main"
    <3>1. Other(Head(job')) = "main" /\ Other(d) = "mirror"
      BY <2>2, JobFacts DEF Other
    <3>2. ASSUME NEW b \in Area, area'[b].kind = "main" PROVE area'[b].tab = bbt
      <4>1. b \in TableBlocks'
        BY <3>2 DEF TableBlocks, Kinds
      <4>2. b = page
        BY <1>b, <2>2, <3>1, <3>2, <4>1
      <4> QED BY <1>b, <1>g, <4>2
    <3> QED BY <1>a, <3>1, <3>2 DEF HalfDone
  <2> QED BY <1>e, <2>1, <2>2
<1>6. Marking'
  <2>1. ~booting => target \in bbt
    BY <1>a DEF IInv, Marking
  <2>2. ASSUME job' = <<>>, NEW b \in TableBlocks' PROVE bbt \subseteq area'[b].tab
    <3>1. CASE b = page
      BY <1>b, <1>g, <3>1
    <3>2. CASE b \in TableBlocks
      <4>1. job \in {<<"main">>, <<"mirror">>}
        BY <1>e, <2>2, JobFacts
      <4>2. b \in Area /\ area[b].kind = Other(d) /\ area'[b] = area[b]
        BY <1>b, <3>2 DEF TableBlocks
      <4> QED BY <1>a, <4>1, <4>2 DEF IInv, HalfDone
    <3> QED BY <1>b, <3>1, <3>2
  <2>3. pc' = "mark" => ~booting /\ job' = <<>>
    BY <1>a, <1>e, <1>f
  <2> QED BY <1>a, <2>1, <2>2, <2>3 DEF Marking
<1>7. WholeKept'
  <2>1. whole \subseteq marks /\ whole \subseteq bbt
        /\ \A b \in TableBlocks : whole \subseteq area[b].tab
    BY <1>a DEF IInv, WholeKept, Running
  <2> QED BY <1>a, <1>b, <1>g, <2>1 DEF WholeKept
<1> QED BY <1>1, <1>2, <1>3, <1>4, <1>5, <1>6, <1>7

LEMMA ProgramFailStep == IInv /\ ProgramFail => OneTable' /\ Located' /\ Placed' /\ Working'
                                                 /\ HalfDone' /\ Marking' /\ WholeKept'
<1> SUFFICES ASSUME IInv, ProgramFail
             PROVE  OneTable' /\ Located' /\ Placed' /\ Working'
                      /\ HalfDone' /\ Marking' /\ WholeKept'
  OBVIOUS
<1> DEFINE d == Head(job)
<1>1. /\ GiveUp /\ pc = "program" /\ desc' = desc
      /\ marks' = marks /\ bbt' = bbt /\ booting' = booting /\ target' = target
      /\ TypeOK
  BY DEF ProgramFail, GiveUp, IInv
<1>2. CASE area' = area
  <2>1. OneTable' /\ Located' /\ \A x \in TableBlocks' : whole \subseteq area'[x].tab
    BY <1>1, <1>2, SameSpot DEF IInv, OneTable, Located, Running, TableBlocks, WholeKept
  <2> QED BY <1>1, <2>1, GiveUpStep
<1>3. CASE area' = [area EXCEPT ![page] = Table(d)]
  <2>1. /\ d \in Kinds /\ Other(d) \in Kinds /\ Other(d) # d
        /\ page \in Area /\ desc[d].page \in {None, page}
        /\ TableBlocks' = TableBlocks \cup {page} /\ page \notin TableBlocks
        /\ area'[page] = Table(d)
        /\ \A x \in TableBlocks : area'[x] = area[x] /\ area[x].kind = Other(d)
    BY <1>1, <1>3, ProgramFacts
  <2>2. Table(d).kind = d /\ Table(d).tab = bbt
    BY DEF Table
  <2>3. OneTable'
    BY <2>1, <2>2 DEF IInv, OneTable
  <2>4. Located'
    <3>1. \A x \in TableBlocks' : Spot(area'[x].kind) = {x}
      BY <1>1, <2>1, <2>2 DEF IInv, Located, Working, Running
    <3>2. \A k : Spot(k)' = Spot(k)
      BY <1>1, SameSpot
    <3> QED BY <3>1, <3>2 DEF Located
  <2>5. \A x \in TableBlocks' : whole \subseteq area'[x].tab
    BY <1>1, <2>1, <2>2 DEF IInv, WholeKept, Running
  <2> QED BY <1>1, <2>3, <2>4, <2>5, GiveUpStep
<1> QED BY <1>2, <1>3 DEF ProgramFail

LEMMA MarkStep ==
  ASSUME IInv, NEW b \in Blocks, MarkBad(b) \/ WriteMark \/ WriteMarkFail \/ PowerLoss
  PROVE  OneTable' /\ Located' /\ Placed' /\ Working'
           /\ HalfDone' /\ Marking' /\ WholeKept'
<1>a. area' = area /\ TableBlocks' = TableBlocks
  BY DEF MarkBad, WriteMark, WriteMarkFail, PowerLoss, flashVars, TableBlocks
<1>b. OneTable'
  BY <1>a DEF IInv, OneTable
<1>1. CASE MarkBad(b)
  <2>1. /\ pc = "ready" /\ pc' = "erase" /\ job' = <<"main", "mirror">> /\ booting' = FALSE
        /\ target' = b /\ bbt' = bbt \cup {b} /\ marks' = marks /\ whole' = whole
        /\ \A d \in Kinds : desc'[d].page = desc[d].page
        /\ b \notin Area
    <3>1. ASSUME NEW d \in Kinds PROVE desc'[d].page = desc[d].page
      <4>1. desc'[d] = [desc[d] EXCEPT !.ver = (@ + 1) % 256]
        BY <1>1 DEF MarkBad
      <4>2. desc[d] \in [page : Area \cup {None}, ver : 0 .. 255]
        BY DEF IInv, TypeOK
      <4> QED BY <4>1, <4>2
    <3> QED BY <1>1, <3>1 DEF MarkBad, flashVars, histVars
  <2>2. Located'
    <3>1. ASSUME NEW d \in Kinds PROVE Spot(d)' = Spot(d)
      <4>1. Other(d) \in Kinds
        BY DEF Other, Kinds
      <4>2. Places(d)' = Places(d)
        BY <2>1, <4>1 DEF Places
      <4> QED BY <2>1, <4>2, Zenon DEF Spot
    <3> QED BY <1>a, <2>1, <3>1 DEF IInv, Located, Running, TableBlocks
  <2>3. Placed'
    BY <2>1, JobFacts DEF IInv, Placed, Running, Kinds
  <2>4. Working' /\ HalfDone' /\ Marking'
    BY <2>1, JobFacts DEF Working, HalfDone, Marking
  <2>5. WholeKept'
    BY <1>a, <2>1 DEF IInv, WholeKept, Running
  <2> QED BY <1>b, <2>2, <2>3, <2>4, <2>5
<1>2. CASE WriteMark
  <2>1. /\ pc = "mark" /\ pc' = "ready" /\ bbt' = bbt /\ desc' = desc /\ job' = job
        /\ booting' = booting /\ marks' = marks \cup {target}
        /\ whole' = IF upd THEN whole \cup {target} ELSE whole
    BY <1>2 DEF WriteMark
  <2>2. job = <<>> /\ ~booting
    BY <2>1 DEF IInv, Working
  <2>3. Located' /\ Placed'
    BY <1>a, <2>1, <2>2, JobFacts, SameSpot DEF IInv, Located, Placed, Running
  <2>4. Working' /\ HalfDone' /\ Marking'
    BY <2>1, <2>2, JobFacts DEF Working, HalfDone, Marking
  <2>5. WholeKept'
    <3>1. target \in bbt /\ (upd => \A x \in TableBlocks : bbt \subseteq area[x].tab)
      BY <2>1 DEF IInv, Marking
    <3> QED BY <1>a, <2>1, <3>1 DEF IInv, WholeKept, Running
  <2> QED BY <1>b, <2>3, <2>4, <2>5
<1>3. CASE WriteMarkFail
  <2>1. /\ pc = "mark" /\ pc' = "ready" /\ bbt' = bbt /\ desc' = desc /\ job' = job
        /\ booting' = booting /\ marks' \in {marks, marks \cup {target}} /\ whole' = whole
    BY <1>3 DEF WriteMarkFail, histVars
  <2>2. job = <<>> /\ ~booting
    BY <2>1 DEF IInv, Working
  <2>3. Located' /\ Placed'
    BY <1>a, <2>1, <2>2, JobFacts, SameSpot DEF IInv, Located, Placed, Running
  <2>4. Working' /\ HalfDone' /\ Marking'
    BY <2>1, <2>2, JobFacts DEF Working, HalfDone, Marking
  <2>5. WholeKept'
    BY <1>a, <2>1 DEF IInv, WholeKept, Running
  <2> QED BY <1>b, <2>3, <2>4, <2>5
<1>4. CASE PowerLoss
  <2>1. /\ pc' = "off" /\ job' = <<>> /\ booting' = FALSE /\ marks' = marks
        /\ whole' = whole /\ desc' = NoDesc
    BY <1>4 DEF PowerLoss, flashVars, histVars
  <2>2. Located' /\ Placed' /\ Working' /\ HalfDone' /\ Marking'
    BY <2>1 DEF Located, Placed, Working, HalfDone, Marking, Running, NoDesc, Kinds
  <2>3. WholeKept'
    BY <1>a, <2>1 DEF IInv, WholeKept, Running
  <2> QED BY <1>b, <2>2, <2>3
<1> QED BY <1>1, <1>2, <1>3, <1>4

LEMMA IInvStep == IInv /\ [Next]_vars => IInv'
<1> SUFFICES ASSUME IInv, [Next]_vars PROVE IInv'
  OBVIOUS
<1>1. TypeOK'
  BY TypeStep
<1>2. OneTable' /\ Located' /\ Placed' /\ Working' /\ HalfDone' /\ Marking' /\ WholeKept'
  <2>1. CASE Boot
    BY <2>1, BootStep
  <2>2. CASE Erase
    BY <2>2, EraseStep
  <2>3. CASE NoSpace
    BY <2>3, NoSpaceStep
  <2>4. CASE EraseFail
    BY <2>4, EraseFailStep
  <2>5. CASE Program
    BY <2>5, ProgramStep
  <2>6. CASE ProgramFail
    BY <2>6, ProgramFailStep
  <2>7. ASSUME NEW b \in Blocks, MarkBad(b)
        PROVE  OneTable' /\ Located' /\ Placed' /\ Working' /\ HalfDone' /\ Marking' /\ WholeKept'
    BY <2>7, MarkStep
  <2>8. CASE WriteMark \/ WriteMarkFail \/ PowerLoss
    <3>1. 0 \in Blocks
      BY BlockAssumption DEF Blocks
    <3> QED BY <2>8, <3>1, MarkStep
  <2>9. CASE UNCHANGED vars
    BY <2>9, SameSpot DEF vars, IInv, OneTable, TableBlocks, Located, Placed, Working, HalfDone,
                Marking, WholeKept, Running
  <2> QED BY <2>1, <2>2, <2>3, <2>4, <2>5, <2>6, <2>7, <2>8, <2>9 DEF Next, Step
<1> QED BY <1>1, <1>2 DEF IInv

(***************************************************************************)
(* The theorems.                                                           *)
(***************************************************************************)
\* The tables on flash and the RAM state keep their types (nand_bbt.c).
THEOREM Typing == Spec => []TypeOK
<1>1. IInv => TypeOK
  BY DEF IInv
<1> QED BY <1>1, IInvInit, IInvStep, PTL DEF Spec

\* A block whose table update and bad mark both succeeded is known to the
\* running system and to every later boot, whatever fails afterwards
\* (nand_default_block_markbad, write_bbt, check_create).
THEOREM WholeIsRemembered == Spec => []WholeRemembered
<1>1. IInv => WholeRemembered
  <2> SUFFICES ASSUME IInv PROVE WholeRemembered
    OBVIOUS
  <2>1. TypeOK /\ OneTable /\ WholeKept
    BY DEF IInv
  <2>2. whole \subseteq Recovered
    BY <2>1, BootFacts DEF WholeKept
  <2> QED BY <2>1, <2>2 DEF WholeKept, WholeRemembered
<1> QED BY <1>1, IInvInit, IInvStep, PTL DEF Spec

\* The main table and its mirror never claim the same block, in RAM or on
\* flash, and there is never a second copy of either (write_bbt's search for
\* a block), whatever operations fail and wherever power is lost.
THEOREM PagesAreDisjoint == Spec => []PagesDisjoint
<1>1. IInv => PagesDisjoint
  <2> SUFFICES ASSUME IInv PROVE PagesDisjoint
    OBVIOUS
  <2>1. desc["main"].page # desc["mirror"].page \/ desc["main"].page = None
    BY DEF IInv, Placed
  <2>2. ASSUME NEW d \in Kinds
        PROVE  Cardinality({b \in Area : area[b].kind = d}) <= 1
    <3> DEFINE S == {b \in Area : area[b].kind = d}
    <3>1. \A a, b \in S : a = b
      BY DEF IInv, OneTable, TableBlocks
    <3>2. S = {} \/ \E x : S = {x}
      BY <3>1
    <3>3. CASE S = {}
      BY <3>3, FS_EmptySet
    <3>4. ASSUME NEW x, S = {x} PROVE Cardinality(S) <= 1
      BY <3>4, FS_Singleton
    <3> QED BY <3>2, <3>3, <3>4
  <2> QED BY <2>1, <2>2 DEF PagesDisjoint
<1> QED BY <1>1, IInvInit, IInvStep, PTL DEF Spec

(***************************************************************************)
(* The refinement of BadBlockStore.  What the tables hold and how their    *)
(* versions compare, until a flash operation fails.                        *)
(***************************************************************************)
\* A table of kind d holds what the RAM table does, at its version.
Fresh(d) == \E b \in Area :
  area[b].kind = d /\ area[b].tab = bbt /\ area[b].ver = desc[d].ver

\* The blocks of Area that are bad are so from the factory on, for everyone,
\* and hold no table: there is always a block to rewrite a table in.
Clear ==
  /\ \A b \in TableBlocks : b \notin marks /\ area[b].tab \cap Area = marks \cap Area
  /\ Running => /\ bbt \cap Area = marks \cap Area
                /\ \A d \in Kinds : desc[d].page \notin bbt
  /\ pc = "program" => page \notin bbt
  /\ Running /\ ~booting => target \notin Area

\* The main table is as new as the mirror or one version newer.
Ordered == \A p, q \in Area :
  area[p].kind = "main" /\ area[q].kind = "mirror" =>
    /\ area[p].ver \in {area[q].ver, (area[q].ver + 1) % 256}
    /\ area[p].ver = area[q].ver => area[p].tab = area[q].tab

\* Before the first table of an update is written the mirror holds all but the
\* block being marked, at the version before, and so does a main table.
Before == \E b \in Area :
  /\ area[b].kind = "mirror" /\ bbt = area[b].tab \cup {target}
  /\ desc["main"].ver = (area[b].ver + 1) % 256
  /\ \A c \in Area : area[c].kind = "main" =>
       area[c].ver = area[b].ver /\ area[c].tab = area[b].tab

Writing == pc \in {"erase", "program"}

\* Which tables are up to date, by what is still to write.
Agreed ==
  /\ Running => desc["main"].ver = desc["mirror"].ver
  /\ Running /\ (pc = "ready" \/ ~booting) => \A d \in Kinds : desc[d].page # None
  /\ pc \in {"ready", "mark"} => Fresh("main") /\ Fresh("mirror")
  /\ Writing /\ job = <<"mirror">> => Fresh("main")
  /\ Writing /\ job = <<"main">> => Fresh("mirror") /\ \A b \in Area : area[b].kind # "main"
  /\ Writing /\ job = <<"main", "mirror">> /\ booting => TableBlocks = {} /\ bbt = marks
  /\ Writing /\ job = <<"main", "mirror">> /\ ~booting => Before

Quiet == fails = 0 /\ Enough => Ordered /\ Agreed

\* The factory's bad blocks of Area stay the only ones.
LEMMA ClearStep ==
  ASSUME IInv, Clear, [Next]_vars
  PROVE  Clear'
<1>a. /\ TypeOK /\ OneTable /\ area \in [Area -> Tables \cup {Blank}]
      /\ desc \in [Kinds -> [page : Area \cup {None}, ver : 0 .. 255]]
      /\ TableBlocks \subseteq Area
  BY DEF IInv, TypeOK, TableBlocks
<1>b. ASSUME NEW b \in Area, area' \in {area, [area EXCEPT ![b] = Blank]}
      PROVE  /\ TableBlocks' \subseteq TableBlocks
             /\ \A x \in TableBlocks' : area'[x] = area[x]
  BY <1>a, <1>b DEF TableBlocks, Blank, Kinds
<1>c. ASSUME pc = "program", area' = [area EXCEPT ![page] = Table(Head(job))]
      PROVE  /\ TableBlocks' = TableBlocks \cup {page} /\ Head(job) \in Kinds
             /\ area'[page].tab = bbt
             /\ \A x \in TableBlocks : area'[x] = area[x]
  BY <1>c, ProgramFacts DEF Table
<1>1. CASE Boot
  <2>1. /\ area' = area /\ marks' = marks /\ TableBlocks' = TableBlocks
        /\ bbt' = Recovered /\ booting' = TRUE /\ pc' \in {"ready", "erase"}
        /\ \A d \in Kinds : desc'[d].page = Found(d).page
    BY <1>1 DEF Boot, flashVars, NextPc, TableBlocks
  <2>2. /\ Recovered = marks \/ \E p \in TableBlocks : area[p] \in Tables /\ Recovered = area[p].tab
        /\ \A d \in Kinds : Found(d).page # None => Found(d).page \in TableBlocks
    BY <1>a, BootFacts, FoundFacts
  <2>3. Recovered \cap Area = marks \cap Area
    BY <2>2 DEF Clear
  <2>4. Recovered \subseteq Blocks
    BY <1>a, <2>2 DEF TypeOK, Tables
  <2>5. ASSUME NEW d \in Kinds PROVE Found(d).page \notin Recovered
    <3>1. CASE Found(d).page = None
      BY <2>4, <3>1 DEF Blocks, None
    <3>2. CASE Found(d).page # None
      BY <1>a, <2>2, <2>3, <3>2 DEF Clear
    <3> QED BY <3>1, <3>2
  <2> QED BY <2>1, <2>3, <2>5 DEF Clear
<1>2. CASE Erase
  <2>1. PICK b \in Place(Head(job)) : page' = b /\ area' = [area EXCEPT ![b] = Blank]
    BY <1>2 DEF Erase
  <2>2. b \in Area /\ b \notin bbt
    BY <1>2, PlaceFacts DEF Erase, Place
  <2>3. TableBlocks' \subseteq TableBlocks /\ \A x \in TableBlocks' : area'[x] = area[x]
    BY <1>b, <2>1, <2>2
  <2>4. /\ pc = "erase" /\ pc' = "program" /\ marks' = marks /\ bbt' = bbt /\ desc' = desc
        /\ booting' = booting /\ target' = target
    BY <1>2 DEF Erase
  <2> QED BY <2>1, <2>2, <2>3, <2>4 DEF Clear, Running
<1>3. ASSUME GiveUp, pc \in {"erase", "program"}, bbt' = bbt, marks' = marks,
             booting' = booting, target' = target,
             \A x \in TableBlocks' : x \notin marks /\ area'[x].tab \cap Area = marks \cap Area
      PROVE  Clear'
  BY <1>3 DEF GiveUp, Clear, Running
<1>4. CASE NoSpace
  <2>1. TableBlocks' = TableBlocks /\ area' = area
    BY <1>4 DEF NoSpace, flashVars, TableBlocks
  <2>2. /\ GiveUp /\ pc \in {"erase", "program"} /\ bbt' = bbt /\ marks' = marks
        /\ booting' = booting /\ target' = target
    BY <1>4 DEF NoSpace, flashVars
  <2> QED BY <1>3, <2>1, <2>2 DEF Clear
<1>5. CASE EraseFail
  <2>1. PICK b \in Place(Head(job)) : area' \in {area, [area EXCEPT ![b] = Blank]}
    BY <1>5 DEF EraseFail
  <2>2. b \in Area
    BY <1>5, PlaceFacts DEF EraseFail
  <2>3. TableBlocks' \subseteq TableBlocks /\ \A x \in TableBlocks' : area'[x] = area[x]
    BY <1>b, <2>1, <2>2
  <2>4. /\ GiveUp /\ pc \in {"erase", "program"} /\ bbt' = bbt /\ marks' = marks
        /\ booting' = booting /\ target' = target
    BY <1>5 DEF EraseFail
  <2> QED BY <1>3, <2>3, <2>4 DEF Clear
<1>6. ASSUME pc = "program", area' = [area EXCEPT ![page] = Table(Head(job))]
      PROVE  \A x \in TableBlocks' : x \notin marks /\ area'[x].tab \cap Area = marks \cap Area
  <2>1. page \in Area /\ page \notin bbt /\ bbt \cap Area = marks \cap Area
    BY <1>6 DEF IInv, Working, Clear, Running
  <2> QED BY <1>c, <1>6, <2>1 DEF Clear
<1>7. CASE Program
  <2>1. /\ pc = "program" /\ area' = [area EXCEPT ![page] = Table(Head(job))]
        /\ pc' \in {"erase", "ready", "mark"} /\ marks' = marks /\ bbt' = bbt
        /\ booting' = booting /\ target' = target
        /\ desc' = [desc EXCEPT ![Head(job)].page = page]
    BY <1>7 DEF Program
  <2>2. \A k \in Kinds : desc'[k].page \in {desc[k].page, page}
    BY <1>a, <1>c, <2>1
  <2>3. /\ page \notin bbt /\ bbt \cap Area = marks \cap Area
        /\ \A k \in Kinds : desc[k].page \notin bbt
        /\ ~booting => target \notin Area
    BY <2>1 DEF Clear, Running
  <2>4. \A x \in TableBlocks' : x \notin marks /\ area'[x].tab \cap Area = marks \cap Area
    BY <1>6, <2>1
  <2> QED BY <2>1, <2>2, <2>3, <2>4 DEF Clear
<1>8. CASE ProgramFail
  <2>1. /\ GiveUp /\ pc = "program" /\ bbt' = bbt /\ marks' = marks
        /\ booting' = booting /\ target' = target
        /\ area' \in {area, [area EXCEPT ![page] = Table(Head(job))]}
    BY <1>8 DEF ProgramFail
  <2>2. CASE area' = area
    <3>1. TableBlocks' = TableBlocks
      BY <2>2 DEF TableBlocks
    <3> QED BY <1>3, <2>1, <2>2, <3>1 DEF Clear
  <2>3. CASE area' = [area EXCEPT ![page] = Table(Head(job))]
    BY <1>3, <1>6, <2>1, <2>3
  <2> QED BY <2>1, <2>2, <2>3
<1>9. ASSUME NEW b \in Blocks, MarkBad(b) PROVE Clear'
  <2>1. /\ pc = "ready" /\ pc' = "erase" /\ booting' = FALSE /\ b \notin Area
        /\ target' = b /\ bbt' = bbt \cup {b} /\ marks' = marks
        /\ area' = area /\ TableBlocks' = TableBlocks
    BY <1>9 DEF MarkBad, flashVars, TableBlocks
  <2>2. ASSUME NEW k \in Kinds PROVE desc'[k].page \notin bbt'
    <3>1. desc'[k] = [desc[k] EXCEPT !.ver = (@ + 1) % 256]
      BY <1>9 DEF MarkBad
    <3>2. desc[k].page \in Area \cup {None} /\ desc'[k].page = desc[k].page
      BY <1>a, <3>1
    <3>3. desc[k].page \notin bbt
      BY <2>1 DEF Clear, Running
    <3>4. desc[k].page # b
      BY <2>1, <3>2 DEF Blocks, None
    <3> QED BY <2>1, <3>2, <3>3, <3>4
  <2>3. bbt \cap Area = marks \cap Area
    BY <2>1 DEF Clear, Running
  <2> QED BY <2>1, <2>2, <2>3 DEF Clear
<1>10. CASE WriteMark \/ WriteMarkFail
  <2>1. /\ pc = "mark" /\ pc' = "ready" /\ marks' \in {marks, marks \cup {target}}
        /\ bbt' = bbt /\ desc' = desc /\ booting' = booting /\ target' = target
        /\ area' = area /\ TableBlocks' = TableBlocks
    BY <1>10 DEF WriteMark, WriteMarkFail, TableBlocks
  <2>2. target \notin Area
    BY <2>1 DEF IInv, Working, Clear, Running
  <2>3. marks' \cap Area = marks \cap Area
    BY <2>1, <2>2
  <2>4. \A x \in TableBlocks : x \notin marks'
    BY <1>a, <2>3 DEF Clear
  <2> QED BY <2>1, <2>2, <2>3, <2>4 DEF Clear, Running
<1>11. CASE PowerLoss
  <2>1. area' = area /\ marks' = marks /\ TableBlocks' = TableBlocks /\ pc' = "off"
    BY <1>11 DEF PowerLoss, flashVars, TableBlocks
  <2> QED BY <2>1 DEF Clear, Running
<1>12. CASE UNCHANGED vars
  BY <1>12 DEF vars, Clear, TableBlocks, Running
<1> QED BY <1>1, <1>2, <1>4, <1>5, <1>7, <1>8, <1>9, <1>10, <1>11, <1>12 DEF Next, Step

LEMMA ClearInit == Init => Clear
<1> SUFFICES ASSUME Init PROVE Clear
  OBVIOUS
<1>1. ~Running /\ pc = "off"
  BY DEF Init, Running
<1>2. \A b \in TableBlocks : b \notin marks /\ area[b].tab = marks
  BY DEF Init, TableBlocks, Blank, Kinds
<1> QED BY <1>1, <1>2 DEF Clear

\* Blocks of Area are numbers, and some of them are the last.
LEMMA HasTop ==
  ASSUME NEW S, S \subseteq Area, S # {}
  PROVE  \E x \in S : \A y \in S : y <= x
<1> DEFINE T == {NumBlocks - x : x \in S}
<1>1. \A x \in S : x \in Int /\ NumBlocks - x \in Nat
  BY BlockAssumption DEF Area
<1>2. T \subseteq Nat /\ T # {}
  BY <1>1
<1>3. \E t \in T : \A u \in T : ~(<<u, t>> \in OpToRel(<, Nat))
  BY <1>2, NatLessThanWellFounded, WFMin
<1>4. PICK t \in T : \A u \in T : ~(u < t)
  BY <1>2, <1>3 DEF OpToRel
<1>5. PICK x \in S : t = NumBlocks - x
  BY <1>4
<1>6. ASSUME NEW y \in S PROVE y <= x
  <2>1. ~(NumBlocks - y < NumBlocks - x)
    BY <1>4, <1>5
  <2>2. x \in Int /\ y \in Int /\ NumBlocks \in Int
    BY <1>1, BlockAssumption
  <2> QED BY <2>1, <2>2
<1> QED BY <1>6

\* With two good blocks there is one beside any block.
LEMMA EnoughOther ==
  ASSUME Enough, NEW x
  PROVE  \E b \in Area \ marks : b # x
<1> SUFFICES ASSUME Area \ marks \subseteq {x} PROVE FALSE
  OBVIOUS
<1>1. CASE Area \ marks = {}
  BY <1>1, FS_EmptySet DEF Enough
<1>2. CASE Area \ marks = {x}
  BY <1>2, FS_Singleton DEF Enough
<1> QED BY <1>1, <1>2

\* Then write_bbt always finds a block.
LEMMA EnoughPlace ==
  ASSUME IInv, Clear, pc = "erase", Enough
  PROVE  Place(Head(job)) # {}
<1> DEFINE d == Head(job)
<1>1. d \in Kinds /\ Running /\ TypeOK
  BY PlaceFacts DEF Running, IInv
<1>2. bbt \cap Area = marks \cap Area /\ desc[d].page \notin bbt
  BY <1>1 DEF Clear
<1>3. CASE desc[d].page # None
  BY <1>2, <1>3 DEF Place, Spot
<1>4. CASE desc[d].page = None
  <2>1. PICK b \in Area \ marks : b # desc[Other(d)].page
    BY EnoughOther
  <2>2. b \in Places(d)
    BY <1>2, <2>1 DEF Places
  <2>3. PICK x \in Places(d) : \A y \in Places(d) : y <= x
    BY <2>2, HasTop DEF Places
  <2>4. x \in Spot(d) /\ x \notin bbt
    BY <1>4, <2>3 DEF Spot, Places
  <2> QED BY <2>4 DEF Place
<1> QED BY <1>3, <1>4

\* Area loses no good block.
LEMMA SameEnough ==
  ASSUME IInv, Clear, [Next]_vars
  PROVE  Enough' = Enough
<1>1. marks' = marks \/ (pc = "mark" /\ marks' = marks \cup {target})
  BY DEF Next, Step, Boot, Erase, NoSpace, EraseFail, Program, ProgramFail, WriteMark,
         WriteMarkFail, PowerLoss, MarkBad, vars, flashVars
<1>2. pc = "mark" => target \notin Area
  BY DEF IInv, Working, Clear, Running
<1>3. Area \ marks' = Area \ marks
  BY <1>1, <1>2
<1> QED BY <1>3 DEF Enough

LEMMA NextVersion ==
  ASSUME NEW v \in 0 .. 255
  PROVE  /\ (v + 1) % 256 \in 0 .. 255 /\ (v + 1) % 256 # v
         /\ Newer((v + 1) % 256, v) /\ ~Newer(v, v)
<1>1. CASE v = 255
  <2>1. (v + 1) % 256 = 0
    BY <1>1
  <2>a. \A a \in Int : a \in -255 .. -1 => a % 256 = a + 256
    OBVIOUS
  <2>2. (0 - v) % 256 = 1
    <3> DEFINE a == 0 - v
    <3>1. a \in Int /\ a \in -255 .. -1 /\ a + 256 = 1
      BY <1>1
    <3> HIDE DEF a
    <3>2. a % 256 = 1
      BY <2>a, <3>1
    <3> QED BY <3>2 DEF a
  <2>3. (v - v) % 256 = 0
    BY <1>1
  <2> QED BY <1>1, <2>1, <2>2, <2>3 DEF Newer
<1>2. CASE v < 255
  <2>1. (v + 1) % 256 = v + 1
    BY <1>2
  <2> QED BY <2>1 DEF Newer
<1> QED BY <1>1, <1>2

\* What a boot recovers from tables that are in order.
RecoveredRight ==
  /\ TableBlocks = {} => Recovered = marks
  /\ \A p \in Area : area[p].kind = "main" => Recovered = area[p].tab
  /\ \A q \in Area : area[q].kind = "mirror" /\ (\A p \in Area : area[p].kind # "main")
       => Recovered = area[q].tab

LEMMA RecoveredFacts == TypeOK /\ OneTable /\ Ordered => RecoveredRight
<1> SUFFICES ASSUME TypeOK, OneTable, Ordered PROVE RecoveredRight
  OBVIOUS
<1> DEFINE td == Found("main")
           md == Found("mirror")
<1>a. "main" \in Kinds /\ "mirror" \in Kinds /\ area \in [Area -> Tables \cup {Blank}]
  BY DEF Kinds, TypeOK
<1>b. /\ td.page # None => /\ td.page \in TableBlocks /\ area[td.page].kind = "main"
                           /\ td.ver = area[td.page].ver
      /\ \A b \in Area : area[b].kind = "main" => td.page = b
  BY <1>a, FoundFacts
<1>c. /\ md.page # None => /\ md.page \in TableBlocks /\ area[md.page].kind = "mirror"
                           /\ md.ver = area[md.page].ver
      /\ \A b \in Area : area[b].kind = "mirror" => md.page = b
  BY <1>a, FoundFacts
<1>1. TableBlocks = {} => Recovered = marks
  BY <1>b, <1>c DEF Recovered, Chosen
<1>2. ASSUME NEW p \in Area, area[p].kind = "main" PROVE Recovered = area[p].tab
  <2>1. td.page = p /\ p # None
    BY <1>b, <1>2, NoneNotInArea
  <2>2. CASE md.page = None
    BY <2>1, <2>2 DEF Recovered, Chosen
  <2>3. CASE md.page # None
    <3>1. md.page \in Area /\ area[md.page].kind = "mirror" /\ md.ver = area[md.page].ver
      BY <1>c, <2>3 DEF TableBlocks
    <3>2. area[md.page].ver \in 0 .. 255
      BY <1>a, <3>1 DEF Tables, Blank
    <3>3. td.ver = md.ver \/ td.ver = (md.ver + 1) % 256
      BY <1>2, <1>b, <2>1, <3>1 DEF Ordered
    <3>4. td.ver = md.ver \/ Newer(td.ver, md.ver)
      BY <3>1, <3>2, <3>3, NextVersion
    <3> QED BY <2>1, <2>3, <3>4 DEF Recovered, Chosen
  <2> QED BY <2>2, <2>3
<1>3. ASSUME NEW q \in Area, area[q].kind = "mirror", \A p \in Area : area[p].kind # "main"
      PROVE  Recovered = area[q].tab
  <2>1. td.page = None
    BY <1>3, <1>b DEF TableBlocks
  <2>2. md.page = q /\ q # None
    BY <1>3, <1>c, NoneNotInArea
  <2> QED BY <2>1, <2>2 DEF Recovered, Chosen
<1> QED BY <1>1, <1>2, <1>3 DEF RecoveredRight

LEMMA QuietInit == Init => Quiet
<1> SUFFICES ASSUME Init PROVE Ordered /\ Agreed
  BY DEF Quiet
<1>1. ~Running /\ pc = "off"
  BY DEF Init, Running
<1>3. \A p, q \in TableBlocks : area[p].ver = area[q].ver /\ area[p].tab = area[q].tab
  BY DEF Init, TableBlocks, Blank, Kinds
<1>4. Ordered
  BY <1>3 DEF Ordered, TableBlocks, Kinds
<1> QED BY <1>1, <1>4 DEF Agreed, Writing

\* A step of the store that no fault excuses.
SoundOrSame ==
  \/ Store!Sound
  \/ Recovered' = Recovered /\ bbt' = bbt /\ Running' = Running

LEMMA SameRecovered ==
  ASSUME area' = area, marks' = marks
  PROVE  Recovered' = Recovered /\ TableBlocks' = TableBlocks
<1>1. Found("main")' = Found("main") /\ Found("mirror")' = Found("mirror")
  BY Zenon DEF Found
<1>2. Recovered' = Recovered
  BY <1>1, Zenon DEF Recovered, Chosen
<1> QED BY <1>2 DEF TableBlocks

\* A boot takes what it recovers for its RAM table.
LEMMA BootQuiet ==
  ASSUME IInv, Clear, Ordered, Agreed, Boot
  PROVE  Clear' /\ Ordered' /\ Agreed' /\ SoundOrSame
<1> DEFINE td == Found("main")
           md == Found("mirror")
           p  == Chosen(td, md)
<1>a. TypeOK /\ OneTable /\ area \in [Area -> Tables \cup {Blank}]
  BY DEF IInv, TypeOK
<1>b. ASSUME NEW d \in Kinds
      PROVE  /\ Found(d).page # None => /\ Found(d).page \in TableBlocks
                                        /\ area[Found(d).page].kind = d
                                        /\ Found(d).ver = area[Found(d).page].ver
             /\ \A b \in Area : area[b].kind = d => Found(d).page = b
             /\ Found(d).page \in Area \cup {None}
  BY <1>a, FoundFacts
<1>c. "main" \in Kinds /\ "mirror" \in Kinds
  BY DEF Kinds
<1>d. /\ p = None => td.page = None /\ md.page = None /\ Recovered = marks
      /\ p # None => p \in TableBlocks /\ Recovered = area[p].tab
      /\ Missing(td, md) \in Jobs
  BY <1>a, BootFacts
<1>e. /\ area' = area /\ marks' = marks /\ TableBlocks' = TableBlocks
      /\ bbt' = Recovered /\ booting' = TRUE /\ job' = Missing(td, md)
      /\ pc' = NextPc(job') /\ pc' \in {"ready", "erase"}
      /\ \A d \in Kinds : /\ desc'[d].page = Found(d).page
                          /\ desc'[d].ver = IF p = None THEN 1 ELSE area[p].ver
  BY DEF Boot, flashVars, histVars, NextPc, TableBlocks
<1>f. ~Running /\ Running'
  BY <1>e DEF Boot, Running
<1>g. booting' = TRUE /\ bbt' = Recovered /\ marks' = marks /\ TableBlocks' = TableBlocks
  BY <1>e
<1>1. Clear'
  BY ClearStep DEF Next, Step
<1>2. Ordered'
  BY <1>e DEF Ordered
<1>3. RecoveredRight
  BY <1>a, RecoveredFacts
<1>4. desc'["main"].ver = desc'["mirror"].ver
  BY <1>c, <1>e
<1>11. job' = <<>> => \A d \in Kinds : desc'[d].page # None
  BY <1>a, <1>e, BootFacts DEF Kinds
<1>5. ASSUME td.page = None /\ md.page = None PROVE Agreed'
  <2>1. TableBlocks = {}
    <3> SUFFICES ASSUME NEW b \in TableBlocks PROVE FALSE
      OBVIOUS
    <3>1. b \in Area /\ area[b].kind \in Kinds /\ b # None
      BY NoneNotInArea DEF TableBlocks
    <3>2. Found(area[b].kind).page = b
      BY <1>b, <3>1
    <3> QED BY <1>5, <3>1, <3>2 DEF Kinds
  <2>2. job' = <<"main", "mirror">>
    BY <1>5, <1>e DEF Missing
  <2>3. Recovered = marks
    BY <2>1, <1>3 DEF RecoveredRight
  <2>4. pc' = "erase"
    BY <2>2, <1>e, JobFacts DEF NextPc
  <2> QED BY <1>4, <1>g, <2>1, <2>2, <2>3, <2>4, JobFacts DEF Agreed, Writing
<1>6. ASSUME td.page = None /\ md.page # None PROVE Agreed'
  <2>1. p = md.page /\ job' = <<"main">> /\ pc' = "erase"
    BY <1>6, <1>e, JobFacts DEF Missing, Chosen, NextPc
  <2>2. \A b \in Area : area[b].kind # "main"
    BY <1>6, <1>b, <1>c, NoneNotInArea
  <2>3. p \in Area /\ area[p].kind = "mirror" /\ area[p].tab = Recovered
    BY <1>b, <1>c, <1>d, <1>6, <2>1 DEF TableBlocks
  <2>4. Fresh("mirror")'
    BY <1>6, <1>c, <1>e, <2>1, <2>3 DEF Fresh
  <2>5. \A b \in Area : area'[b].kind # "main"
    BY <1>e, <2>2
  <2> QED BY <1>4, <1>g, <2>1, <2>4, <2>5, JobFacts DEF Agreed, Writing
<1>7. ASSUME td.page # None PROVE Agreed'
  <2>1. /\ td.page \in Area /\ area[td.page].kind = "main" /\ td.ver = area[td.page].ver
        /\ area[td.page].tab = Recovered
    BY <1>7, <1>b, <1>c, <1>3 DEF TableBlocks, RecoveredRight
  <2>2. p # None
    BY <1>7, <1>a DEF Chosen
  <2>3. CASE md.page = None
    <3>1. p = td.page /\ job' = <<"mirror">> /\ pc' = "erase"
      BY <1>7, <2>3, <1>e, JobFacts DEF Missing, Chosen, NextPc
    <3>2. Fresh("main")'
      BY <1>7, <1>c, <1>e, <2>1, <3>1 DEF Fresh
    <3> QED BY <1>4, <1>g, <3>1, <3>2, JobFacts DEF Agreed, Writing
  <2>4. CASE md.page # None
    <3>1. md.page \in Area /\ area[md.page].kind = "mirror" /\ md.ver = area[md.page].ver
          /\ md.ver \in 0 .. 255
      BY <2>4, <1>a, <1>b, <1>c DEF TableBlocks, Tables, Blank
    <3>2. /\ td.ver \in {md.ver, (md.ver + 1) % 256}
          /\ td.ver = md.ver => area[td.page].tab = area[md.page].tab
      BY <2>1, <3>1 DEF Ordered
    <3>3. td.ver = md.ver \/ (td.ver # md.ver /\ Newer(td.ver, md.ver))
      BY <3>1, <3>2, NextVersion
    <3>4. p = td.page
      BY <1>7, <2>4, <3>3 DEF Chosen
    <3>5. Fresh("main")'
      BY <1>7, <1>c, <1>e, <2>1, <3>4 DEF Fresh
    <3>6. CASE td.ver = md.ver
      <4>1. job' = <<>> /\ pc' = "ready"
        BY <1>7, <2>4, <3>6, <1>e DEF Missing, NextPc
      <4>2. Fresh("mirror")'
        BY <1>7, <1>c, <1>e, <2>1, <3>1, <3>2, <3>4, <3>6 DEF Fresh
      <4> QED BY <1>4, <1>11, <3>5, <4>1, <4>2, JobFacts DEF Agreed, Writing
    <3>7. CASE td.ver # md.ver /\ Newer(td.ver, md.ver)
      <4>1. job' = <<"mirror">> /\ pc' = "erase"
        BY <1>7, <2>4, <3>7, <1>e, JobFacts DEF Missing, NextPc
      <4> QED BY <1>4, <1>g, <3>5, <4>1, JobFacts DEF Agreed, Writing
    <3> QED BY <3>3, <3>6, <3>7
  <2> QED BY <2>3, <2>4
<1>8. Recovered' = Recovered
  BY <1>e, SameRecovered
<1>9. SoundOrSame
  BY <1>e, <1>f, <1>8 DEF SoundOrSame, Store!Sound, Store!Start
<1>10. Agreed'
  BY <1>5, <1>6, <1>7
<1> QED BY <1>1, <1>2, <1>9, <1>10

\* Erasing the block of one table leaves a boot what it would have found.
LEMMA EraseQuiet ==
  ASSUME IInv, IInv', Clear, Ordered, Agreed, Erase
  PROVE  Clear' /\ Ordered' /\ Agreed' /\ SoundOrSame
<1> DEFINE d == Head(job)
<1>a. /\ pc = "erase" /\ pc' = "program" /\ Running /\ Running' /\ Writing /\ Writing'
      /\ marks' = marks /\ bbt' = bbt /\ desc' = desc /\ job' = job
      /\ booting' = booting /\ target' = target
  BY DEF Erase, Running, Writing, histVars
<1>b. PICK b \in Place(d) : page' = b /\ area' = [area EXCEPT ![b] = Blank]
  BY DEF Erase
<1>c. /\ d \in Kinds /\ b \in Area /\ b # desc[Other(d)].page /\ Spot(d) = {b}
      /\ b \notin bbt
  BY <1>a, PlaceFacts
<1>d. /\ area \in [Area -> Tables \cup {Blank}] /\ job \in Jobs \ {<<>>}
      /\ TypeOK /\ OneTable /\ TypeOK' /\ OneTable'
  BY <1>a DEF IInv, TypeOK, Working, Jobs
<1>e. /\ TableBlocks' \subseteq TableBlocks
      /\ \A x \in TableBlocks' : x \in Area /\ x # b /\ area'[x] = area[x]
      /\ \A x \in TableBlocks : x # b => x \in TableBlocks'
  BY <1>b, <1>c, <1>d DEF TableBlocks, Blank, Kinds
<1>f. ASSUME NEW x \in TableBlocks
      PROVE  /\ area[x].kind = Other(d) => x \in TableBlocks' /\ area'[x] = area[x]
             /\ x \in TableBlocks' => area[x].kind = Other(d)
  <2>1. area[x].kind \in Kinds /\ Spot(area[x].kind) = {x} /\ TableBlocks # {}
    BY <1>a DEF IInv, Located, TableBlocks
  <2>2. desc[Other(d)].page # None
    <3>1. CASE job = <<"main", "mirror">>
      BY <1>a, <1>c, <2>1, <3>1 DEF Agreed, Other, Kinds
    <3>2. CASE job # <<"main", "mirror">>
      BY <1>a, <1>d, <3>2 DEF IInv, Placed, Jobs
    <3> QED BY <3>1, <3>2
  <2>3. area[x].kind = Other(d) => x # b
    BY <1>c, <2>1, <2>2 DEF Spot
  <2>4. x # b => area[x].kind # d
    BY <1>c, <2>1
  <2> QED BY <1>c, <1>e, <2>1, <2>3, <2>4 DEF Kinds, Other
<1>g. \/ job = <<"main", "mirror">> /\ d = "main" /\ Other(d) = "mirror"
      \/ job = <<"main">> /\ d = "main" /\ Other(d) = "mirror"
      \/ job = <<"mirror">> /\ d = "mirror" /\ Other(d) = "main"
  BY <1>d, JobFacts DEF Jobs, Other
<1>h. /\ \A x \in Area : area[x].kind = "main" \/ area[x].kind = "mirror" => x \in TableBlocks
      /\ \A x \in Area : area'[x].kind = "main" \/ area'[x].kind = "mirror" => x \in TableBlocks'
      /\ TableBlocks \subseteq Area
  BY DEF TableBlocks, Kinds
<1>1. Clear'
  BY ClearStep DEF Next, Step
<1>2. Ordered'
  BY <1>e, <1>h DEF Ordered
<1>3. RecoveredRight
  BY <1>d, RecoveredFacts
<1>4. RecoveredRight'
  BY <1>d, <1>2, RecoveredFacts, PTL
<1>5. CASE job = <<"main", "mirror">> /\ booting
  <2>1. TableBlocks = {} /\ bbt = marks /\ TableBlocks' = {}
    BY <1>a, <1>e, <1>5 DEF Agreed
  <2>2. Agreed'
    BY <1>a, <1>5, <2>1, JobFacts DEF Agreed
  <2>3. Recovered' = Recovered
    BY <1>3, <1>4, <1>a, <2>1 DEF RecoveredRight
  <2> QED BY <1>1, <1>2, <1>a, <2>2, <2>3 DEF SoundOrSame
<1>6. CASE job = <<"main", "mirror">> /\ ~booting
  <2>1. PICK m \in Area :
          /\ area[m].kind = "mirror" /\ bbt = area[m].tab \cup {target}
          /\ desc["main"].ver = (area[m].ver + 1) % 256
          /\ \A c \in Area : area[c].kind = "main" =>
               area[c].ver = area[m].ver /\ area[c].tab = area[m].tab
    BY <1>a, <1>6 DEF Agreed, Before
  <2>2. Other(d) = "mirror"
    BY <1>6, <1>g, JobFacts
  <2>3. m \in TableBlocks' /\ area'[m] = area[m]
    BY <1>f, <1>h, <2>1, <2>2
  <2>4. \A c \in Area : area'[c].kind # "main"
    BY <1>e, <1>f, <1>h, <2>2
  <2>5. Before'
    BY <1>a, <2>1, <2>3, <2>4 DEF Before
  <2>6. Agreed'
    BY <1>a, <1>6, <2>5, JobFacts DEF Agreed
  <2>7. Recovered = area[m].tab
    <3>1. CASE \A c \in Area : area[c].kind # "main"
      BY <1>3, <2>1, <3>1 DEF RecoveredRight
    <3>2. CASE \E c \in Area : area[c].kind = "main"
      BY <1>3, <2>1, <3>2 DEF RecoveredRight
    <3> QED BY <3>1, <3>2
  <2>8. Recovered' = area[m].tab
    BY <1>4, <2>1, <2>3, <2>4 DEF RecoveredRight
  <2> QED BY <1>1, <1>2, <1>a, <2>6, <2>7, <2>8 DEF SoundOrSame
<1>7. CASE job = <<"main">>
  <2>1. Fresh("mirror") /\ \A c \in Area : area[c].kind # "main"
    BY <1>a, <1>7 DEF Agreed
  <2>2. PICK m \in Area : /\ area[m].kind = "mirror" /\ area[m].tab = bbt
                          /\ area[m].ver = desc["mirror"].ver
    BY <2>1 DEF Fresh
  <2>3. m \in TableBlocks' /\ area'[m] = area[m]
    BY <1>f, <1>g, <1>h, <1>7, <2>2, JobFacts
  <2>4. \A c \in Area : area'[c].kind # "main"
    BY <1>e, <1>h, <2>1
  <2>5. Fresh("mirror")'
    BY <1>a, <2>2, <2>3 DEF Fresh
  <2>6. Agreed'
    BY <1>a, <1>7, <2>4, <2>5, JobFacts DEF Agreed
  <2>7. Recovered = area[m].tab /\ Recovered' = area[m].tab
    BY <1>3, <1>4, <2>1, <2>2, <2>3, <2>4 DEF RecoveredRight
  <2> QED BY <1>1, <1>2, <1>a, <2>6, <2>7 DEF SoundOrSame
<1>8. CASE job = <<"mirror">>
  <2>1. Fresh("main")
    BY <1>a, <1>8 DEF Agreed
  <2>2. PICK m \in Area : /\ area[m].kind = "main" /\ area[m].tab = bbt
                          /\ area[m].ver = desc["main"].ver
    BY <2>1 DEF Fresh
  <2>3. m \in TableBlocks' /\ area'[m] = area[m]
    BY <1>f, <1>g, <1>h, <1>8, <2>2, JobFacts
  <2>4. Fresh("main")'
    BY <1>a, <2>2, <2>3 DEF Fresh
  <2>5. Agreed'
    BY <1>a, <1>8, <2>4, JobFacts DEF Agreed
  <2>6. Recovered = area[m].tab /\ Recovered' = area[m].tab
    BY <1>3, <1>4, <2>2, <2>3 DEF RecoveredRight
  <2> QED BY <1>1, <1>2, <1>a, <2>5, <2>6 DEF SoundOrSame
<1> QED BY <1>5, <1>6, <1>7, <1>8, <1>d DEF Jobs

\* Programming a table makes it what a boot finds: what the RAM table holds.
LEMMA ProgramQuiet ==
  ASSUME IInv, IInv', Clear, Ordered, Agreed, Program
  PROVE  Clear' /\ Ordered' /\ Agreed' /\ SoundOrSame
<1> DEFINE d == Head(job)
<1>a. /\ pc = "program" /\ pc' \in {"erase", "ready", "mark"} /\ Running /\ Running' /\ Writing
      /\ area' = [area EXCEPT ![page] = Table(d)]
      /\ marks' = marks /\ bbt' = bbt /\ job' = Tail(job)
      /\ booting' = booting /\ target' = target
  BY DEF Program, Running, Writing
<1>b. /\ d \in Kinds /\ Other(d) \in Kinds /\ Other(d) # d
      /\ page \in Area /\ desc[d].page \in {None, page}
      /\ TableBlocks' = TableBlocks \cup {page} /\ page \notin TableBlocks
      /\ area'[page] = Table(d)
      /\ \A x \in TableBlocks : area'[x] = area[x] /\ area[x].kind = Other(d)
  BY <1>a, ProgramFacts
<1>c. /\ desc \in [Kinds -> [page : Area \cup {None}, ver : 0 .. 255]]
      /\ area \in [Area -> Tables \cup {Blank}] /\ job \in Jobs \ {<<>>}
      /\ TypeOK' /\ OneTable /\ OneTable'
  BY <1>a DEF IInv, TypeOK, Working, Jobs
<1>d. /\ desc'[d].page = page /\ desc'[Other(d)] = desc[Other(d)]
      /\ \A k \in Kinds : desc'[k].ver = desc[k].ver
      /\ \A k \in Kinds : desc'[k].page \in {desc[k].page, page}
  BY <1>b, <1>c DEF Program
<1>e. \/ job = <<"main", "mirror">> /\ job' = <<"mirror">> /\ d = "main" /\ Other(d) = "mirror"
           /\ pc' = "erase"
      \/ job = <<"main">> /\ job' = <<>> /\ d = "main" /\ Other(d) = "mirror"
           /\ pc' \in {"ready", "mark"}
      \/ job = <<"mirror">> /\ job' = <<>> /\ d = "mirror" /\ Other(d) = "main"
           /\ pc' \in {"ready", "mark"}
  BY <1>c, JobFacts DEF Program, Jobs, Other
<1>f. /\ Table(d).kind = d /\ Table(d).tab = bbt /\ Table(d).ver = desc[d].ver
      /\ desc["main"].ver = desc["mirror"].ver /\ "main" \in Kinds /\ "mirror" \in Kinds
  BY <1>a DEF Table, Agreed, Kinds
<1>h. pc' # "erase" \/ ~booting => \A k \in Kinds : desc'[k].page # None
  <2>1. page # None
    BY <1>b, NoneNotInArea
  <2>2. ~booting => desc[Other(d)].page # None
    BY <1>a, <1>b DEF Agreed
  <2>3. pc' # "erase" => desc[Other(d)].page # None
    BY <1>a, <1>c, <1>e DEF IInv, Placed, Jobs
  <2> QED BY <1>b, <1>d, <2>1, <2>2, <2>3 DEF Kinds, Other
<1>g. /\ \A x \in Area : area[x].kind = "main" \/ area[x].kind = "mirror" => x \in TableBlocks
      /\ \A x \in Area : area'[x].kind = "main" \/ area'[x].kind = "mirror" => x \in TableBlocks'
      /\ TableBlocks \subseteq Area
  BY DEF TableBlocks, Kinds
<1>1. Clear'
  BY ClearStep DEF Next, Step
<1>2. CASE job = <<"main", "mirror">>
  <2>1. d = "main" /\ Other(d) = "mirror" /\ job' = <<"mirror">> /\ pc' = "erase"
    BY <1>e, <1>2, JobFacts
  <2>2. Ordered'
    <3>1. ASSUME NEW p \in Area, NEW q \in Area, area'[p].kind = "main", area'[q].kind = "mirror"
          PROVE  area'[p].ver = (area'[q].ver + 1) % 256 /\ area'[q].ver \in 0 .. 255
      <4>1. p = page /\ q \in TableBlocks /\ area'[q] = area[q]
        BY <1>b, <1>f, <1>g, <2>1, <3>1
      <4>2. ~booting
        BY <1>2, <1>a, <4>1 DEF Agreed
      <4>3. PICK m \in Area : area[m].kind = "mirror" /\ desc["main"].ver = (area[m].ver + 1) % 256
        BY <1>2, <1>a, <4>2 DEF Agreed, Before
      <4>4. m = q
        BY <1>c, <1>g, <3>1, <4>1, <4>3 DEF OneTable
      <4>5. area[q] \in Tables \cup {Blank} /\ area[q].kind = "mirror"
        BY <1>c, <3>1, <4>1
      <4>6. area[q].ver \in 0 .. 255
        BY <4>5 DEF Tables, Blank
      <4> QED BY <1>b, <1>f, <2>1, <4>1, <4>3, <4>4, <4>6
    <3> QED BY <3>1, NextVersion DEF Ordered
  <2>3. Agreed'
    <3>1. Fresh("main")'
      BY <1>a, <1>b, <1>d, <1>f, <2>1 DEF Fresh
    <3> QED BY <1>a, <1>d, <1>f, <1>h, <2>1, <3>1, JobFacts DEF Agreed
  <2>4. RecoveredRight'
    BY <1>c, <2>2, RecoveredFacts, PTL
  <2>5. Recovered' = bbt
    BY <1>b, <1>f, <2>1, <2>4 DEF RecoveredRight
  <2> QED BY <1>1, <1>a, <2>2, <2>3, <2>5 DEF SoundOrSame, Store!Sound, Store!Persist
<1>3. CASE job # <<"main", "mirror">>
  <2>1. job' = <<>> /\ pc' \in {"ready", "mark"}
    BY <1>e, <1>3
  <2>2. PICK m \in Area : /\ area[m].kind = Other(d) /\ area[m].tab = bbt
                          /\ area[m].ver = desc[Other(d)].ver
    BY <1>a, <1>e, <1>3 DEF Agreed, Fresh
  <2>3. m \in TableBlocks /\ area'[m] = area[m]
    BY <1>b, <1>e, <1>g, <2>2
  <2>4. \A x \in TableBlocks' : x = page \/ x = m
    BY <1>b, <1>c, <2>2, <2>3 DEF OneTable
  <2>5. /\ area'[page].ver = desc["main"].ver /\ area'[page].tab = bbt
        /\ area'[m].ver = desc["main"].ver /\ area'[m].tab = bbt
        /\ area'[page].kind = d /\ area'[m].kind = Other(d)
    BY <1>b, <1>e, <1>f, <2>2, <2>3
  <2>6. Ordered'
    BY <1>g, <2>4, <2>5 DEF Ordered
  <2>7. Fresh("main")' /\ Fresh("mirror")'
    <3>1. CASE d = "main" /\ Other(d) = "mirror"
      BY <1>a, <1>b, <1>d, <1>f, <2>2, <2>3, <3>1 DEF Fresh
    <3>2. CASE d = "mirror" /\ Other(d) = "main"
      BY <1>a, <1>b, <1>d, <1>f, <2>2, <2>3, <3>2 DEF Fresh
    <3> QED BY <1>e, <3>1, <3>2
  <2>8. Agreed'
    BY <1>d, <1>f, <1>h, <2>1, <2>7, JobFacts DEF Agreed, Writing
  <2>9. RecoveredRight'
    BY <1>c, <2>6, RecoveredFacts, PTL
  <2>10. Recovered' = bbt
    BY <1>b, <1>e, <2>5, <2>9 DEF RecoveredRight
  <2> QED BY <1>1, <1>a, <2>6, <2>8, <2>10 DEF SoundOrSame, Store!Sound, Store!Persist
<1> QED BY <1>2, <1>3

\* A mark goes into the RAM table first, and into the block last.
LEMMA MarkQuiet ==
  ASSUME IInv, IInv', Clear, Ordered, Agreed, NEW b \in Blocks, MarkBad(b) \/ WriteMark \/ PowerLoss
  PROVE  Clear' /\ Ordered' /\ Agreed' /\ SoundOrSame
<1>a. area' = area /\ TableBlocks' = TableBlocks
  BY DEF MarkBad, WriteMark, PowerLoss, flashVars, TableBlocks
<1>b. Ordered'
  BY <1>a DEF Ordered
<1>c. /\ TypeOK /\ OneTable /\ TypeOK' /\ OneTable'
      /\ area \in [Area -> Tables \cup {Blank}]
      /\ desc \in [Kinds -> [page : Area \cup {None}, ver : 0 .. 255]]
      /\ "main" \in Kinds /\ "mirror" \in Kinds
  BY DEF IInv, TypeOK, Kinds
<1>d. RecoveredRight /\ RecoveredRight'
  BY <1>b, <1>c, RecoveredFacts, PTL
<1>e. Clear'
  BY ClearStep DEF Next, Step
<1>1. CASE MarkBad(b)
  <2>1. /\ pc = "ready" /\ pc' = "erase" /\ job' = <<"main", "mirror">> /\ booting' = FALSE
        /\ target' = b /\ bbt' = bbt \cup {b} /\ marks' = marks /\ b \notin Area
        /\ Running /\ Running'
    BY <1>1 DEF MarkBad, flashVars, Running
  <2>2. ASSUME NEW k \in Kinds
        PROVE  desc'[k].page = desc[k].page /\ desc'[k].ver = (desc[k].ver + 1) % 256
    <3>1. desc'[k] = [desc[k] EXCEPT !.ver = (@ + 1) % 256]
      BY <1>1 DEF MarkBad
    <3>2. desc[k] \in [page : Area \cup {None}, ver : 0 .. 255]
      BY <1>c
    <3> QED BY <3>1, <3>2
  <2>4. PICK m \in Area : /\ area[m].kind = "mirror" /\ area[m].tab = bbt
                          /\ area[m].ver = desc["mirror"].ver
    BY <2>1 DEF Agreed, Fresh
  <2>5. PICK n \in Area : /\ area[n].kind = "main" /\ area[n].tab = bbt
                          /\ area[n].ver = desc["main"].ver
    BY <2>1 DEF Agreed, Fresh
  <2>6. desc["main"].ver = desc["mirror"].ver
    BY <2>1 DEF Agreed
  <2>7. \A c \in Area : area[c].kind = "main" => c = n
    BY <1>c, <2>5 DEF OneTable, TableBlocks
  <2>8. Before'
    BY <1>a, <1>c, <2>1, <2>2, <2>4, <2>5, <2>6, <2>7 DEF Before
  <2>9. Agreed'
    BY <1>c, <2>1, <2>2, <2>6, <2>8, JobFacts DEF Agreed
  <2>10. Recovered = bbt
    BY <1>d, <2>5 DEF RecoveredRight
  <2>11. Recovered' = Recovered
    BY <1>a, <2>1, SameRecovered
  <2> QED BY <1>b, <1>e, <2>1, <2>9, <2>10, <2>11
          DEF SoundOrSame, Store!Sound, Store!Learn
<1>2. CASE WriteMark
  <2>1. /\ pc = "mark" /\ pc' = "ready" /\ bbt' = bbt /\ desc' = desc /\ job' = job
        /\ booting' = booting /\ target' = target /\ marks' = marks \cup {target}
        /\ Running /\ Running' /\ ~booting
    BY <1>2 DEF WriteMark, Running, IInv, Working
  <2>4. Fresh("main") /\ Fresh("mirror") /\ desc["main"].ver = desc["mirror"].ver
    BY <2>1 DEF Agreed
  <2>5. Fresh("main")' /\ Fresh("mirror")'
    BY <1>a, <2>1, <2>4 DEF Fresh
  <2>6. Agreed'
    BY <2>1, <2>4, <2>5 DEF Agreed, Writing
  <2>7. Recovered' = Recovered
    BY <1>a, <1>d, <2>4 DEF Fresh, RecoveredRight
  <2> QED BY <1>b, <1>e, <2>1, <2>6, <2>7 DEF SoundOrSame
<1>3. CASE PowerLoss
  <2>1. pc' = "off" /\ bbt' = {} /\ marks' = marks /\ ~Running' /\ ~Writing'
    BY <1>3 DEF PowerLoss, flashVars, Running, Writing
  <2>2. Recovered' = Recovered
    BY <1>a, <2>1, SameRecovered
  <2>3. Agreed'
    BY <1>a, <2>1 DEF Agreed
  <2> QED BY <1>b, <1>e, <2>1, <2>2, <2>3 DEF SoundOrSame, Store!Sound, Store!Cut
<1> QED BY <1>1, <1>2, <1>3

LEMMA QuietStep ==
  ASSUME IInv, IInv', Clear, Quiet, [Next]_vars
  PROVE  /\ fails' \in Nat /\ fails \in Nat /\ fails' >= fails
         /\ fails' = 0 /\ Enough => Ordered' /\ Agreed' /\ SoundOrSame
<1>a. fails \in Nat /\ fails' \in Nat
  BY BlockAssumption DEF IInv, TypeOK
<1>1. CASE EraseFail \/ ProgramFail \/ WriteMarkFail
  <2>1. fails' = fails + 1
    BY <1>1 DEF EraseFail, ProgramFail, WriteMarkFail
  <2> QED BY <1>a, <2>1
<1>2. CASE Boot \/ Erase \/ NoSpace \/ Program \/ WriteMark \/ PowerLoss \/ \E b \in Blocks : MarkBad(b)
  <2>1. fails' = fails
    BY <1>2 DEF Boot, Erase, NoSpace, Program, WriteMark, PowerLoss, MarkBad
  <2>2. ASSUME fails' = 0, Enough PROVE Ordered' /\ Agreed' /\ SoundOrSame
    <3>1. Ordered /\ Agreed
      BY <2>1, <2>2 DEF Quiet
    <3>2. ~NoSpace
      BY <2>2, EnoughPlace DEF NoSpace
    <3>3. 0 \in Blocks
      BY BlockAssumption DEF Blocks
    <3> QED BY <1>2, <3>1, <3>2, <3>3, BootQuiet, EraseQuiet, ProgramQuiet, MarkQuiet
  <2> QED BY <1>a, <2>1, <2>2
<1>3. CASE UNCHANGED vars
  <2>1. /\ fails' = fails /\ area' = area /\ marks' = marks /\ bbt' = bbt /\ desc' = desc
        /\ pc' = pc /\ job' = job /\ booting' = booting /\ page' = page /\ target' = target
    BY <1>3 DEF vars
  <2>2. Recovered' = Recovered /\ TableBlocks' = TableBlocks
    BY <2>1, SameRecovered
  <2>3. SoundOrSame
    BY <2>1, <2>2 DEF SoundOrSame, Running
  <2>4. Ordered' = Ordered /\ Agreed' = Agreed
    BY <2>1, <2>2 DEF Ordered, Agreed, Fresh, Before, Writing, Running
  <2> QED BY <1>a, <2>1, <2>3, <2>4 DEF Quiet
<1> QED BY <1>1, <1>2, <1>3 DEF Next, Step

LEMMA InStepStep == IInv /\ Quiet => TablesInStep
<1> SUFFICES ASSUME IInv, Ordered, Agreed, pc = "ready",
                    NEW d \in Kinds
             PROVE  /\ desc["main"].ver = desc["mirror"].ver
                    /\ desc[d].page # None /\ area[desc[d].page] = Table(d)
  BY DEF Quiet, TablesInStep, Kinds
<1>1. desc["main"].ver = desc["mirror"].ver /\ desc[d].page # None /\ Running
  BY DEF Agreed, Running
<1>2. Fresh(d)
  BY DEF Agreed, Kinds
<1>3. PICK b \in Area : area[b].kind = d /\ area[b].tab = bbt /\ area[b].ver = desc[d].ver
  BY <1>2 DEF Fresh
<1>4. b \in TableBlocks
  BY <1>3 DEF TableBlocks
<1>5. desc[d].page = b
  BY <1>1, <1>3, <1>4 DEF IInv, Located, Spot
<1>6. area[b] \in Tables
  BY <1>3 DEF IInv, TypeOK, Blank, Kinds
<1>7. area[b] = Table(d)
  BY <1>3, <1>6 DEF Table, Tables
<1> QED BY <1>1, <1>5, <1>7

LEMMA RecoveredBlocks == TypeOK /\ OneTable => Recovered \subseteq Blocks
<1> SUFFICES ASSUME TypeOK, OneTable PROVE Recovered \subseteq Blocks
  OBVIOUS
<1>1. \A b \in TableBlocks : area[b] \in Tables => area[b].tab \subseteq Blocks
  BY DEF Tables
<1> QED BY <1>1, BootFacts DEF TypeOK

\* What a failed operation may do to the store: the running system forgets
\* no block.
LEMMA FaultStep ==
  ASSUME IInv, IInv', [Next]_vars
  PROVE  /\ Recovered' \in SUBSET Blocks /\ bbt' \in SUBSET Blocks
         /\ Running /\ Running' => bbt \subseteq bbt'
<1>1. TypeOK' /\ OneTable'
  BY DEF IInv
<1>2. (Recovered \subseteq Blocks)'
  BY <1>1, RecoveredBlocks, PTL
<1>3. bbt' \subseteq Blocks
  BY <1>1 DEF TypeOK
<1>4. Running /\ Running' => bbt \subseteq bbt'
  BY DEF Next, Step, Boot, Erase, NoSpace, EraseFail, Program, ProgramFail, WriteMark,
         WriteMarkFail, PowerLoss, MarkBad, Running, vars
<1> QED BY <1>2, <1>3, <1>4

\* While no flash operation has failed and Area has two good blocks, both
\* tables are in place and hold the RAM table at one version whenever the
\* system is idle, wherever power was lost before (check_create repairs what a
\* cut left, nand_update_bbt writes both).
THEOREM TablesAreInStep == Spec => []TablesInStep
<1>1. IInv /\ IInv' /\ Clear /\ Quiet /\ [Next]_vars => Quiet'
  <2> SUFFICES ASSUME IInv, IInv', Clear, Quiet, [Next]_vars PROVE Quiet'
    OBVIOUS
  <2> QED BY QuietStep, SameEnough DEF Quiet
<1> QED BY <1>1, IInvInit, IInvStep, ClearInit, ClearStep, QuietInit, InStepStep, PTL DEF Spec

\* The tables implement the store: what a boot would find, the RAM table and
\* whether the system is up change as BadBlockStore allows.  While no flash
\* operation has failed and Area has a good block for each table, what is durable
\* only gains the block being marked, and the running system may be ahead by that
\* one block; in any case it forgets none (nand_default_block_markbad,
\* nand_update_bbt, write_bbt, check_create).
THEOREM StoreIsImplemented == Spec => StoreSpec
<1>1. Init => Store!Init
  <2> SUFFICES ASSUME Init PROVE Store!Init
    OBVIOUS
  <2>1. Recovered \subseteq Blocks
    BY IInvInit, RecoveredBlocks DEF IInv
  <2>2. (fails > 0 \/ ~Enough) \in BOOLEAN
    OBVIOUS
  <2> QED BY <2>1, <2>2 DEF Init, Running, Store!Init
<1>2. IInv /\ IInv' /\ Clear /\ Quiet /\ [Next]_vars
        => Quiet' /\ [Store!Next]_<<Recovered, bbt, Running, fails > 0 \/ ~Enough>>
  <2> SUFFICES ASSUME IInv, IInv', Clear, Quiet, [Next]_vars
               PROVE  Quiet' /\ [Store!Next]_<<Recovered, bbt, Running, fails > 0 \/ ~Enough>>
    OBVIOUS
  <2>a. Enough' = Enough
    BY SameEnough
  <2>1. CASE fails' = 0 /\ Enough
    <3>1. fails = 0 /\ Ordered' /\ Agreed' /\ SoundOrSame
      BY <2>1, QuietStep
    <3>2. (fails' > 0 \/ ~Enough') = (fails > 0 \/ ~Enough)
      BY <2>1, <2>a, <3>1
    <3> QED BY <3>1, <3>2 DEF Quiet, SoundOrSame, Store!Next
  <2>2. CASE ~(fails' = 0 /\ Enough)
    <3>1. (fails' > 0 \/ ~Enough') = TRUE
      BY <2>2, <2>a, QuietStep
    <3>2. Store!Fault
      BY <3>1, FaultStep DEF Store!Fault
    <3> QED BY <2>2, <2>a, <3>2 DEF Quiet, Store!Next
  <2> QED BY <2>1, <2>2
<1> QED BY <1>1, <1>2, IInvInit, IInvStep, ClearInit, ClearStep, QuietInit, PTL
        DEF Spec, StoreSpec, Store!Spec

(***************************************************************************)
(* NewerKnowsMore: how far the versions on flash can be apart after so     *)
(* many failed operations, and what the newer table holds.                 *)
(***************************************************************************)
\* How many updates version v is ahead of version u, in 8 bits.
Gap(v, u) == (v - u) % 256

\* A table that the signed comparison takes for the newer one holds every
\* block of the other.
Graded == \A a, b \in TableBlocks :
  Gap(area[a].ver, area[b].ver) <= 127 => area[b].tab \subseteq area[a].tab

\* An update that fails may leave one table behind, and so may one that is
\* cut short.
Near == \A a, b \in TableBlocks :
  \/ Gap(area[a].ver, area[b].ver) <= fails + 1
  \/ Gap(area[b].ver, area[a].ver) <= fails + 1

\* How far the version in RAM may be ahead of the tables.
Slack == IF pc \in {"ready", "mark"} THEN fails ELSE fails + 1

\* No table is ahead of the RAM table, or holds a block it does not, and one
\* at its version holds just what it does.  When one table is left to write
\* the other is at the version in RAM.
Lead == Running =>
  /\ desc["main"].ver = desc["mirror"].ver
  /\ \A b \in TableBlocks :
       /\ Gap(desc["main"].ver, area[b].ver) <= Slack
       /\ area[b].tab \subseteq bbt
       /\ area[b].ver = desc["main"].ver => area[b].tab = bbt
       /\ Writing /\ job \in {<<"main">>, <<"mirror">>} /\ area[b].kind = Other(Head(job))
            => area[b].ver = desc["main"].ver

\* Where there is a mirror, or a place for it, the main table has one too.
Paired == \A q \in Area :
  area[q].kind = "mirror" \/ (Running /\ desc["mirror"].page = q) =>
    \E b \in Area \ marks : b # q

\* As long as the comparison cannot wrap.
Comparable == fails <= 126 => Graded /\ Near /\ Lead

LEMMA PairedInit == Init => Paired
BY DEF Init, Paired, Running, Blank

LEMMA PairedStep ==
  ASSUME IInv, Clear, Paired, [Next]_vars
  PROVE  Paired'
<1>a. /\ TypeOK /\ OneTable /\ area \in [Area -> Tables \cup {Blank}]
      /\ desc \in [Kinds -> [page : Area \cup {None}, ver : 0 .. 255]]
      /\ "main" \in Kinds /\ "mirror" \in Kinds
  BY DEF IInv, TypeOK, Kinds
<1>b. Area \ marks' = Area \ marks
  <2>1. marks' = marks \/ (pc = "mark" /\ marks' = marks \cup {target})
    BY DEF Next, Step, Boot, Erase, NoSpace, EraseFail, Program, ProgramFail, WriteMark,
           WriteMarkFail, PowerLoss, MarkBad, vars, flashVars
  <2>2. pc = "mark" => target \notin Area
    BY DEF IInv, Working, Clear, Running
  <2> QED BY <2>1, <2>2
<1>1. ASSUME \A q \in Area : area'[q] \in {area[q], Blank}, ~Running' \/ Running,
             desc'["mirror"].page = desc["mirror"].page
      PROVE  Paired'
  BY <1>b, <1>1 DEF Paired, Blank
<1>2. CASE Boot
  <2>1. area' = area /\ desc'["mirror"].page = Found("mirror").page
    BY <1>2, <1>a DEF Boot, flashVars
  <2>2. \A q \in Area : Found("mirror").page = q => area[q].kind = "mirror"
    BY <1>a, FoundFacts, NoneNotInArea
  <2> QED BY <1>b, <2>1, <2>2 DEF Paired
<1>3. CASE Erase \/ EraseFail
  <2>1. PICK b \in Place(Head(job)) : area' \in {area, [area EXCEPT ![b] = Blank]}
    BY <1>3 DEF Erase, EraseFail
  <2>2. \A q \in Area : area'[q] \in {area[q], Blank}
    BY <1>a, <2>1
  <2>3. desc' = desc /\ Running
    BY <1>3 DEF Erase, EraseFail, GiveUp, Running
  <2> QED BY <1>1, <2>2, <2>3
<1>4. CASE Program \/ ProgramFail
  <2>1. /\ pc = "program" /\ Running
        /\ area' \in {area, [area EXCEPT ![page] = Table(Head(job))]}
        /\ desc' \in {desc, [desc EXCEPT ![Head(job)].page = page]}
    BY <1>4 DEF Program, ProgramFail, GiveUp, Running
  <2>2. /\ job \in Jobs \ {<<>>} /\ page \in Area /\ page \notin bbt
        /\ page # desc[Other(Head(job))].page /\ bbt \cap Area = marks \cap Area
        /\ \A d \in Kinds : desc[d].page \notin bbt
    BY <2>1 DEF IInv, TypeOK, Working, Jobs, Clear
  <2>3. CASE Head(job) = "main"
    <3>1. desc'["mirror"].page = desc["mirror"].page
      BY <1>a, <2>1, <2>3
    <3>2. \A q \in Area : area'[q].kind = "mirror" => area[q].kind = "mirror"
      BY <1>a, <2>1, <2>3 DEF Table
    <3> QED BY <1>b, <2>1, <3>1, <3>2 DEF Paired
  <2>4. CASE Head(job) = "mirror"
    <3>1. job = <<"mirror">> /\ Other(Head(job)) = "main"
      BY <2>2, <2>4, JobFacts DEF Jobs, Other
    <3>2. desc["main"].page \in Area \ marks /\ desc["main"].page # page
      BY <1>a, <2>1, <2>2, <3>1 DEF IInv, Placed
    <3>3. \A q \in Area : q # page =>
            /\ area'[q].kind = "mirror" => area[q].kind = "mirror"
            /\ desc'["mirror"].page = q => desc["mirror"].page = q
      BY <1>a, <2>1, <2>4
    <3> QED BY <1>b, <2>1, <3>2, <3>3 DEF Paired
  <2> QED BY <2>2, <2>3, <2>4, JobFacts DEF Jobs
<1>5. ASSUME NEW m \in Blocks, MarkBad(m) PROVE Paired'
  <2>1. desc'["mirror"] = [desc["mirror"] EXCEPT !.ver = (@ + 1) % 256]
    BY <1>a, <1>5 DEF MarkBad
  <2>2. desc'["mirror"].page = desc["mirror"].page
    BY <1>a, <2>1
  <2>3. area' = area /\ Running
    BY <1>5 DEF MarkBad, flashVars, Running
  <2> QED BY <1>1, <2>2, <2>3
<1>6. CASE NoSpace \/ WriteMark \/ WriteMarkFail
  <2>1. area' = area /\ desc' = desc /\ Running
    BY <1>6 DEF NoSpace, GiveUp, WriteMark, WriteMarkFail, flashVars, Running
  <2> QED BY <1>1, <2>1
<1>7. CASE PowerLoss
  <2>1. area' = area /\ ~Running'
    BY <1>7 DEF PowerLoss, flashVars, Running
  <2> QED BY <1>b, <2>1 DEF Paired
<1>8. CASE UNCHANGED vars
  <2>1. area' = area /\ desc' = desc /\ Running' = Running
    BY <1>8 DEF vars, Running
  <2> QED BY <1>1, <2>1
<1> QED BY <1>2, <1>3, <1>4, <1>5, <1>6, <1>7, <1>8 DEF Next, Step

\* A table that finds no block is not on flash, nor is the mirror when it is the
\* main table.
LEMMA NoSpaceFacts ==
  ASSUME IInv, Clear, Paired, NoSpace
  PROVE  \A b \in TableBlocks : job = <<"mirror">> /\ area[b].kind = Other(Head(job))
<1> DEFINE d == Head(job)
<1>a. /\ pc = "erase" /\ Running /\ Place(d) = {} /\ TypeOK /\ d \in Kinds
      /\ job \in Jobs \ {<<>>}
  BY PlaceFacts DEF NoSpace, Running, IInv, TypeOK, Working, Jobs
<1>b. bbt \cap Area = marks \cap Area /\ desc[d].page = None
  <2>1. bbt \cap Area = marks \cap Area /\ desc[d].page \notin bbt
    BY <1>a DEF Clear
  <2> QED BY <1>a, <2>1 DEF Place, Spot
<1>c. Places(d) = {}
  <2> SUFFICES ASSUME Places(d) # {} PROVE FALSE
    OBVIOUS
  <2>1. PICK x \in Places(d) : \A y \in Places(d) : y <= x
    BY HasTop DEF Places
  <2>2. x \in Spot(d) /\ x \notin bbt
    BY <1>b, <2>1 DEF Spot, Places
  <2> QED BY <1>a, <2>2 DEF Place
<1>1. ASSUME NEW b \in TableBlocks
      PROVE  job = <<"mirror">> /\ area[b].kind = Other(d)
  <2>1. b \in Area /\ b \notin bbt /\ area[b].kind \in Kinds /\ Spot(area[b].kind) = {b}
    BY <1>a, <1>b DEF Clear, IInv, Located, TableBlocks
  <2>2. area[b].kind # d
    BY <1>a, <2>1 DEF Place
  <2>3. area[b].kind = Other(d)
    BY <1>a, <2>1, <2>2 DEF Kinds, Other
  <2>4. CASE d = "main"
    <3>1. area[b].kind = "mirror" /\ Other(d) = "mirror" /\ b # None
      BY <2>1, <2>3, <2>4, NoneNotInArea DEF Other
    <3>2. desc["mirror"].page = b
      BY <1>c, <2>1, <3>1 DEF Places
    <3>3. PICK c \in Area \ marks : c # b
      BY <2>1, <3>1 DEF Paired
    <3>4. c \in Places(d)
      BY <1>b, <3>1, <3>2, <3>3 DEF Places
    <3> QED BY <1>c, <3>4
  <2>5. CASE d = "mirror"
    BY <1>a, <2>3, <2>5, JobFacts DEF Jobs
  <2> QED BY <1>a, <2>4, <2>5 DEF Kinds
<1> QED BY <1>1

LEMMA GapValue ==
  \A v, u \in 0 .. 255 : Gap(v, u) = IF v >= u THEN v - u ELSE v - u + 256
<1> TAKE v, u \in 0 .. 255
<1> DEFINE a == v - u
<1>a. \A x \in Int : x \in -255 .. -1 => x % 256 = x + 256
  OBVIOUS
<1>b. \A x \in Int : x \in 0 .. 255 => x % 256 = x
  OBVIOUS
<1>1. a \in Int /\ (v >= u => a \in 0 .. 255) /\ (~(v >= u) => a \in -255 .. -1)
  OBVIOUS
<1> HIDE DEF a
<1>2. a % 256 = IF v >= u THEN a ELSE a + 256
  BY <1>a, <1>b, <1>1
<1> QED BY <1>2 DEF a, Gap

LEMMA GapByte == \A v, u \in 0 .. 255 : Gap(v, u) \in 0 .. 255
<1> TAKE v, u \in 0 .. 255
<1>1. Gap(v, u) = IF v >= u THEN v - u ELSE v - u + 256
  BY GapValue
<1> QED BY <1>1

LEMMA GapSelf == \A v \in 0 .. 255 : Gap(v, v) = 0
<1> TAKE v \in 0 .. 255
<1>1. Gap(v, v) = IF v >= v THEN v - v ELSE v - v + 256
  BY GapValue
<1> QED BY <1>1

LEMMA GapApart ==
  \A v, u \in 0 .. 255 : v # u => Gap(v, u) \in 1 .. 255 /\ Gap(u, v) = 256 - Gap(v, u)
<1> TAKE v, u \in 0 .. 255
<1>1. Gap(v, u) = IF v >= u THEN v - u ELSE v - u + 256
  BY GapValue
<1>2. Gap(u, v) = IF u >= v THEN u - v ELSE u - v + 256
  BY GapValue
<1> QED BY <1>1, <1>2

LEMMA GapNewer == \A v, u : Newer(v, u) <=> Gap(v, u) \in 1 .. 127
BY DEF Newer, Gap

LEMMA GapNext ==
  \A v, u \in 0 .. 255 : Gap(v, u) \in 0 .. 127 => Gap((v + 1) % 256, u) = Gap(v, u) + 1
<1> SUFFICES ASSUME NEW v \in 0 .. 255, NEW u \in 0 .. 255, Gap(v, u) \in 0 .. 127
             PROVE  Gap((v + 1) % 256, u) = Gap(v, u) + 1
  OBVIOUS
<1> DEFINE w == IF v = 255 THEN 0 ELSE v + 1
<1>1. (v + 1) % 256 = w /\ w \in 0 .. 255
  <2>1. CASE v = 255
    BY <2>1
  <2>2. CASE v # 255
    <3>1. (v + 1) % 256 = v + 1
      BY <2>2
    <3> QED BY <2>2, <3>1
  <2> QED BY <2>1, <2>2
<1>2. (w = 0 /\ v = 255) \/ (w = v + 1 /\ v < 255)
  OBVIOUS
<1> HIDE DEF w
<1>3. Gap(v, u) = IF v >= u THEN v - u ELSE v - u + 256
  BY GapValue
<1>4. Gap(w, u) = IF w >= u THEN w - u ELSE w - u + 256
  BY <1>1, GapValue
<1>5. Gap(w, u) = Gap(v, u) + 1
  BY <1>1, <1>2, <1>3, <1>4
<1> QED BY <1>1, <1>5

\* The versions in RAM and on flash are bytes.
LEMMA VersionBytes ==
  ASSUME TypeOK
  PROVE  /\ \A b \in TableBlocks : b \in Area /\ area[b] \in Tables /\ area[b].ver \in 0 .. 255
         /\ \A d \in Kinds : desc[d].ver \in 0 .. 255
         /\ fails \in Nat
<1>1. \A b \in TableBlocks : b \in Area /\ area[b] \in Tables
  BY DEF TypeOK, TableBlocks, Blank, Kinds
<1>2. \A b \in TableBlocks : area[b].ver \in 0 .. 255
  BY <1>1 DEF Tables
<1>3. \A d \in Kinds : desc[d].ver \in 0 .. 255
  BY DEF TypeOK
<1>4. fails \in Nat
  BY BlockAssumption DEF TypeOK
<1> QED BY <1>1, <1>2, <1>3, <1>4

\* Two versions of which each is ahead of the other by less than half the
\* range are equal.
LEMMA GapEqual ==
  ASSUME NEW v \in 0 .. 255, NEW u \in 0 .. 255, Gap(v, u) <= 127, Gap(u, v) <= 127
  PROVE  v = u
<1> SUFFICES ASSUME v # u PROVE FALSE
  OBVIOUS
<1>1. Gap(v, u) \in 1 .. 255 /\ Gap(u, v) = 256 - Gap(v, u)
  BY GapApart
<1> QED BY <1>1

LEMMA ComparableKnows == TypeOK /\ fails <= 126 /\ Graded /\ Near => NewerKnowsMore
<1> SUFFICES ASSUME TypeOK, fails <= 126, Graded, Near,
                    NEW p \in Area, NEW q \in Area, area[p].kind = "main", area[q].kind = "mirror"
             PROVE  IF Newer(area[p].ver, area[q].ver) THEN area[q].tab \subseteq area[p].tab
                    ELSE IF area[p].ver = area[q].ver THEN area[q].tab = area[p].tab
                    ELSE area[p].tab \subseteq area[q].tab
  BY DEF NewerKnowsMore
<1> DEFINE v == area[p].ver
           u == area[q].ver
<1>1. p \in TableBlocks /\ q \in TableBlocks
  BY DEF TableBlocks, Kinds
<1>2. v \in 0 .. 255 /\ u \in 0 .. 255 /\ fails \in Nat
  BY <1>1, VersionBytes
<1>3. /\ Gap(v, u) <= 127 => area[q].tab \subseteq area[p].tab
      /\ Gap(u, v) <= 127 => area[p].tab \subseteq area[q].tab
      /\ Gap(v, u) <= fails + 1 \/ Gap(u, v) <= fails + 1
  BY <1>1 DEF Graded, Near
<1> HIDE DEF v, u
<1>4. v # u => Gap(v, u) \in 1 .. 255 /\ Gap(u, v) = 256 - Gap(v, u)
  BY <1>2, GapApart
<1>8. Newer(v, u) <=> Gap(v, u) \in 1 .. 127
  BY GapNewer
<1>5. CASE v = u
  <2>0. Gap(v, v) = 0
    BY <1>2, GapSelf
  <2>1. Gap(v, u) <= 127 /\ Gap(u, v) <= 127
    BY <1>5, <2>0
  <2>2. area[q].tab = area[p].tab
    BY <1>3, <2>1
  <2> QED BY <1>5, <2>2 DEF v, u
<1>6. CASE v # u /\ Newer(v, u)
  <2>1. Gap(v, u) <= 127
    BY <1>8, <1>6
  <2> QED BY <1>3, <1>6, <2>1 DEF v, u
<1>7. CASE v # u /\ ~Newer(v, u)
  <2>1. ~(Gap(v, u) <= fails + 1)
    BY <1>2, <1>4, <1>7, <1>8
  <2>2. Gap(u, v) <= fails + 1
    BY <1>3, <2>1, Zenon
  <2>3. Gap(u, v) <= 127
    BY <1>2, <1>4, <1>7, <2>2
  <2> QED BY <1>3, <1>7, <2>3 DEF v, u
<1> QED BY <1>5, <1>6, <1>7

LEMMA ComparableInit == Init => Comparable
<1> SUFFICES ASSUME Init PROVE Graded /\ Near /\ Lead
  BY DEF Comparable
<1>1. \A a, b \in TableBlocks : area[a].ver = area[b].ver /\ area[a].tab = area[b].tab
  BY DEF Init, TableBlocks, Blank, Kinds
<1>2. ASSUME NEW a \in TableBlocks, NEW b \in TableBlocks
      PROVE  Gap(area[a].ver, area[b].ver) = 0
  <2>1. area[a].ver \in 0 .. 255
    BY TypeInit, VersionBytes
  <2>2. Gap(area[a].ver, area[a].ver) = 0
    BY <2>1, GapSelf
  <2> QED BY <1>1, <2>2
<1>3. fails + 1 = 1
  BY DEF Init
<1>4. Near
  BY <1>2, <1>3 DEF Near
<1>5. Graded /\ Lead
  BY <1>1 DEF Graded, Lead, Init, Running
<1> QED BY <1>4, <1>5

\* Taking tables away, and failing, keep what is said of pairs of tables.
LEMMA ShrunkPairs ==
  ASSUME TypeOK, Graded, Near, fails' \in Nat, fails' >= fails,
         TableBlocks' \subseteq TableBlocks, \A x \in TableBlocks' : area'[x] = area[x]
  PROVE  Graded' /\ Near'
<1>1. Graded'
  BY DEF Graded
<1>2. ASSUME NEW a \in TableBlocks, NEW b \in TableBlocks, Gap(area[a].ver, area[b].ver) <= fails + 1
      PROVE  Gap(area[a].ver, area[b].ver) <= fails' + 1
  <2> DEFINE g == Gap(area[a].ver, area[b].ver)
  <2>0. area[a].ver \in 0 .. 255 /\ area[b].ver \in 0 .. 255
    BY VersionBytes
  <2>1. g \in 0 .. 255
    BY <2>0, GapByte
  <2>2. fails \in Nat /\ g <= fails + 1
    BY <1>2, VersionBytes
  <2> HIDE DEF g
  <2>3. g <= fails' + 1
    BY <2>1, <2>2
  <2> QED BY <2>3 DEF g
<1>3. Near'
  BY <1>2 DEF Near
<1> QED BY <1>1, <1>3

\* How far the tables are behind the version in RAM.
LEMMA LeadFacts ==
  ASSUME TypeOK, Lead, Running, fails <= 126, NEW b \in TableBlocks
  PROVE  LET v == desc["main"].ver
             u == area[b].ver
         IN /\ v \in 0 .. 255 /\ u \in 0 .. 255 /\ Gap(v, u) \in 0 .. 127
            /\ Gap(v, u) <= fails + 1
            /\ pc \in {"ready", "mark"} => Gap(v, u) <= fails
            /\ area[b].tab \subseteq bbt /\ (u = v => area[b].tab = bbt)
<1> DEFINE v == desc["main"].ver
           u == area[b].ver
<1>1. v \in 0 .. 255 /\ u \in 0 .. 255 /\ fails \in Nat
  BY VersionBytes DEF Kinds
<1>2. Gap(v, u) <= Slack /\ area[b].tab \subseteq bbt /\ (u = v => area[b].tab = bbt)
  BY DEF Lead
<1>3. (pc \in {"ready", "mark"} => Slack = fails) /\ Slack \in {fails, fails + 1}
  BY DEF Slack
<1>4. Gap(v, u) \in 0 .. 255
  BY <1>1, GapByte
<1> HIDE DEF v, u
<1>5. pc \in {"ready", "mark"} => Gap(v, u) <= fails
  BY <1>2, <1>3
<1>6. Gap(v, u) <= fails + 1 /\ Gap(v, u) \in 0 .. 127
  <2> DEFINE g == Gap(v, u)
             k == Slack
  <2>1. g \in 0 .. 255 /\ g <= k /\ (k = fails \/ k = fails + 1)
    BY <1>2, <1>3, <1>4
  <2> HIDE DEF g, k
  <2>2. g <= fails + 1 /\ g \in 0 .. 127
    BY <1>1, <2>1
  <2> QED BY <2>2 DEF g
<1> QED BY <1>1, <1>2, <1>5, <1>6 DEF v, u

\* The table that is programmed is the newest, with all the blocks known.
LEMMA WrittenPairs ==
  ASSUME IInv, Graded, Near, Lead, pc = "program", fails <= 126, fails' \in Nat, fails' >= fails,
         area' = [area EXCEPT ![page] = Table(Head(job))]
  PROVE  Graded' /\ Near'
<1> DEFINE v == desc["main"].ver
<1>a. TypeOK /\ Running
  BY DEF IInv, Running
<1>b. /\ TableBlocks' = TableBlocks \cup {page} /\ Head(job) \in Kinds
      /\ page \notin TableBlocks /\ area'[page] = Table(Head(job))
      /\ \A x \in TableBlocks : area'[x] = area[x] /\ area[x].kind = Other(Head(job))
  BY ProgramFacts
<1>c. \A d \in Kinds : desc[d].ver = v
  BY <1>a DEF Lead, Kinds
<1>d. area'[page].ver = v /\ area'[page].tab = bbt
  BY <1>b, <1>c DEF Table
<1>e. \A x, y \in TableBlocks : x = y
  BY <1>b DEF IInv, OneTable
<1>f. v \in 0 .. 255 /\ fails \in Nat /\ \A x \in TableBlocks : area[x].ver \in 0 .. 255
  BY <1>a, VersionBytes DEF Kinds
<1>g. ASSUME NEW x \in TableBlocks
      PROVE  /\ Gap(v, area[x].ver) \in 0 .. 127 /\ Gap(v, area[x].ver) <= fails + 1
             /\ area[x].tab \subseteq bbt /\ (area[x].ver = v => area[x].tab = bbt)
  BY <1>a, LeadFacts
<1> HIDE DEF v
<1>h. Gap(v, v) = 0
  BY <1>f, GapSelf
<1>1. ASSUME NEW a \in TableBlocks', NEW b \in TableBlocks'
      PROVE  /\ Gap(area'[a].ver, area'[b].ver) <= 127 => area'[b].tab \subseteq area'[a].tab
             /\ \/ Gap(area'[a].ver, area'[b].ver) <= fails' + 1
                \/ Gap(area'[b].ver, area'[a].ver) <= fails' + 1
  <2>1. CASE area'[a] = area'[b]
    <3>1. area'[a].ver \in 0 .. 255
      BY <1>b, <1>d, <1>f
    <3> DEFINE w == area'[a].ver
    <3>a. w \in 0 .. 255
      BY <3>1
    <3> HIDE DEF w
    <3>b. Gap(w, w) = 0
      BY <3>a, GapSelf
    <3>2. Gap(area'[a].ver, area'[b].ver) = 0
      BY <2>1, <3>b DEF w
    <3>3. 0 <= fails' + 1
      <4> DEFINE f == fails'
      <4>1. f \in Nat
        OBVIOUS
      <4> HIDE DEF f
      <4>2. 0 <= f + 1
        BY <4>1
      <4> QED BY <4>2 DEF f
    <3> QED BY <2>1, <3>2, <3>3
  <2>2. CASE a = page /\ b \in TableBlocks
    <3>1. Gap(area'[a].ver, area'[b].ver) = Gap(v, area[b].ver)
      BY <1>b, <1>d, <2>2
    <3>2. Gap(v, area[b].ver) <= fails' + 1
      BY <1>f, <1>g, <2>2
    <3>3. area'[b].tab \subseteq area'[a].tab
      BY <1>b, <1>d, <1>g, <2>2
    <3> QED BY <3>1, <3>2, <3>3
  <2>3. CASE a \in TableBlocks /\ b = page
    <3>1. /\ Gap(area'[a].ver, area'[b].ver) = Gap(area[a].ver, v)
          /\ Gap(area'[b].ver, area'[a].ver) = Gap(v, area[a].ver)
      BY <1>b, <1>d, <2>3
    <3>2. Gap(v, area[a].ver) <= fails' + 1
      BY <1>f, <1>g, <2>3
    <3>3. Gap(v, area[a].ver) <= 127
      BY <1>g, <2>3
    <3>4. ASSUME Gap(area[a].ver, v) <= 127 PROVE area'[b].tab \subseteq area'[a].tab
      <4>1. area[a].ver = v
        BY <1>f, <2>3, <3>3, <3>4, GapEqual
      <4> QED BY <1>b, <1>d, <1>g, <2>3, <4>1
    <3> QED BY <3>1, <3>2, <3>4
  <2> QED BY <1>b, <1>e, <2>1, <2>2, <2>3
<1> QED BY <1>1 DEF Graded, Near

\* What a boot takes the RAM table from: the newer of two tables, and never
\* one that the comparison is wrong about.
LEMMA BootLead ==
  ASSUME IInv, Graded, Near, Boot, fails <= 126
  PROVE  Lead'
<1> DEFINE td == Found("main")
           md == Found("mirror")
           p  == Chosen(td, md)
<1>a. TypeOK /\ OneTable /\ area \in [Area -> Tables \cup {Blank}]
  BY DEF IInv, TypeOK
<1>b. ASSUME NEW d \in Kinds
      PROVE  /\ Found(d).page # None => /\ Found(d).page \in TableBlocks
                                        /\ area[Found(d).page].kind = d
                                        /\ Found(d).ver = area[Found(d).page].ver
             /\ \A b \in Area : area[b].kind = d => Found(d).page = b
  BY <1>a, FoundFacts
<1>c. "main" \in Kinds /\ "mirror" \in Kinds
  BY DEF Kinds
<1>d. p # None => Recovered = area[p].tab
  BY <1>a, BootFacts
<1>e. /\ area' = area /\ TableBlocks' = TableBlocks /\ fails' = fails
      /\ bbt' = Recovered /\ job' = Missing(td, md)
      /\ pc' = NextPc(job') /\ pc' \in {"ready", "erase"}
      /\ \A d \in Kinds : desc'[d].ver = IF p = None THEN 1 ELSE area[p].ver
  BY DEF Boot, flashVars, NextPc, TableBlocks
<1>f. ASSUME NEW b \in TableBlocks PROVE b = td.page \/ b = md.page
  BY <1>b DEF TableBlocks, Kinds
<1>g. fails \in Nat /\ \A b \in TableBlocks : b \in Area /\ b # None /\ area[b].ver \in 0 .. 255
  BY <1>a, VersionBytes, NoneNotInArea
<1>h. desc'["main"].ver = desc'["mirror"].ver
  BY <1>c, <1>e
<1>1. ASSUME NEW b \in TableBlocks
      PROVE  /\ p \in TableBlocks /\ Gap(area[p].ver, area[b].ver) <= fails + 1
             /\ pc' = "ready" => Gap(area[p].ver, area[b].ver) = 0
             /\ area[b].tab \subseteq area[p].tab
             /\ area[b].ver = area[p].ver => area[b].tab = area[p].tab
             /\ job' \in {<<"main">>, <<"mirror">>} /\ area[b].kind = Other(Head(job'))
                  => area[b].ver = area[p].ver
  <2>1. ASSUME NEW a \in TableBlocks PROVE Gap(area[a].ver, area[a].ver) = 0
    <3> DEFINE w == area[a].ver
    <3>1. w \in 0 .. 255
      BY <1>g
    <3> HIDE DEF w
    <3>2. Gap(w, w) = 0
      BY <3>1, GapSelf
    <3> QED BY <3>2 DEF w
  <2>2. 0 <= fails + 1
    BY <1>g
  <2>3. ASSUME NEW a \in TableBlocks, NEW c \in TableBlocks, area[a].ver = area[c].ver
        PROVE  area[a].tab = area[c].tab
    <3>1. Gap(area[a].ver, area[c].ver) <= 127 /\ Gap(area[c].ver, area[a].ver) <= 127
      BY <2>1, <2>3
    <3>2. area[c].tab \subseteq area[a].tab /\ area[a].tab \subseteq area[c].tab
      BY <3>1 DEF Graded
    <3> QED BY <3>2
  <2>4. CASE td.page = None \/ md.page = None
    <3>1. p = b
      BY <1>f, <1>g, <2>4 DEF Chosen
    <3> QED BY <2>1, <2>2, <3>1
  <2>5. CASE td.page # None /\ md.page # None
    <3>1. /\ td.page \in TableBlocks /\ area[td.page].kind = "main" /\ td.ver = area[td.page].ver
          /\ md.page \in TableBlocks /\ area[md.page].kind = "mirror" /\ md.ver = area[md.page].ver
      BY <1>b, <1>c, <2>5
    <3>2. td.ver \in 0 .. 255 /\ md.ver \in 0 .. 255
      BY <1>g, <3>1
    <3>3. CASE td.ver = md.ver
      <4>1. p = td.page /\ job' = <<>>
        BY <1>e, <2>5, <3>3 DEF Chosen, Missing
      <4>2. area[b].ver = area[p].ver
        BY <1>f, <3>1, <3>3, <4>1
      <4>3. area[b].tab = area[p].tab
        BY <2>3, <3>1, <4>1, <4>2
      <4>4. Gap(area[p].ver, area[b].ver) = 0
        BY <2>1, <3>1, <4>1, <4>2
      <4> QED BY <2>2, <3>1, <4>1, <4>2, <4>3, <4>4, JobFacts
    <3>4. ASSUME NEW a \in TableBlocks, NEW c \in TableBlocks, a = p, b \in {a, c},
                 Gap(area[c].ver, area[a].ver) \in 128 .. 255,
                 pc' = "erase", area[a].ver # area[c].ver,
                 area[a].kind = Other(Head(job')), area[c].kind # area[a].kind
          PROVE  /\ p \in TableBlocks /\ Gap(area[p].ver, area[b].ver) <= fails + 1
                 /\ pc' = "ready" => Gap(area[p].ver, area[b].ver) = 0
                 /\ area[b].tab \subseteq area[p].tab
                 /\ area[b].ver = area[p].ver => area[b].tab = area[p].tab
                 /\ job' \in {<<"main">>, <<"mirror">>} /\ area[b].kind = Other(Head(job'))
                      => area[b].ver = area[p].ver
      <4>1. ~(Gap(area[c].ver, area[a].ver) <= fails + 1)
        BY <1>g, <3>4
      <4>2. Gap(area[a].ver, area[c].ver) <= fails + 1
        BY <4>1 DEF Near
      <4>3. Gap(area[a].ver, area[c].ver) \in 0 .. 255
        BY <1>g, GapByte
      <4>4. Gap(area[a].ver, area[c].ver) <= 127
        BY <1>g, <4>2, <4>3
      <4>5. area[c].tab \subseteq area[a].tab
        BY <4>4 DEF Graded
      <4>6. Gap(area[a].ver, area[a].ver) <= fails + 1
        BY <2>1, <2>2
      <4>7. pc' # "ready"
        BY <3>4
      <4> QED BY <2>3, <3>4, <4>2, <4>5, <4>6, <4>7
    <3>5. CASE td.ver # md.ver /\ Newer(td.ver, md.ver)
      <4>1. p = td.page /\ job' = <<"mirror">> /\ pc' = "erase"
        BY <1>e, <2>5, <3>5, JobFacts DEF Chosen, Missing, NextPc
      <4>2. Gap(md.ver, td.ver) \in 128 .. 255
        <5>1. Gap(td.ver, md.ver) \in 1 .. 127 /\ Gap(md.ver, td.ver) = 256 - Gap(td.ver, md.ver)
          BY <3>2, <3>5, GapNewer, GapApart
        <5> QED BY <5>1
      <4>3. Other(Head(job')) = "main"
        BY <4>1, JobFacts DEF Other
      <4> QED BY <1>f, <3>1, <3>4, <3>5, <4>1, <4>2, <4>3
    <3>6. CASE td.ver # md.ver /\ ~Newer(td.ver, md.ver)
      <4>1. p = md.page /\ job' = <<"main">> /\ pc' = "erase"
        BY <1>e, <2>5, <3>6, JobFacts DEF Chosen, Missing, NextPc
      <4>2. Gap(td.ver, md.ver) \in 128 .. 255
        <5>1. ~(Gap(td.ver, md.ver) \in 1 .. 127)
          BY <3>6, GapNewer
        <5>2. Gap(td.ver, md.ver) \in 1 .. 255
          BY <3>2, <3>6, GapApart
        <5> QED BY <5>1, <5>2
      <4>3. Other(Head(job')) = "mirror"
        BY <4>1, JobFacts DEF Other
      <4> QED BY <1>f, <3>1, <3>4, <3>6, <4>1, <4>2, <4>3
    <3> QED BY <3>3, <3>5, <3>6
  <2> QED BY <2>4, <2>5
<1>2. ASSUME NEW b \in TableBlocks'
      PROVE  /\ Gap(desc'["main"].ver, area'[b].ver) <= Slack'
             /\ area'[b].tab \subseteq bbt'
             /\ area'[b].ver = desc'["main"].ver => area'[b].tab = bbt'
             /\ job' \in {<<"main">>, <<"mirror">>} /\ area'[b].kind = Other(Head(job'))
                  => area'[b].ver = desc'["main"].ver
  <2>1. /\ p \in TableBlocks /\ Gap(area[p].ver, area[b].ver) <= fails + 1
        /\ pc' = "ready" => Gap(area[p].ver, area[b].ver) = 0
        /\ area[b].tab \subseteq area[p].tab
        /\ area[b].ver = area[p].ver => area[b].tab = area[p].tab
        /\ job' \in {<<"main">>, <<"mirror">>} /\ area[b].kind = Other(Head(job'))
             => area[b].ver = area[p].ver
    BY <1>1, <1>2, <1>e
  <2>2. p # None
    BY <1>g, <2>1
  <2>3. desc'["main"].ver = area[p].ver /\ bbt' = area[p].tab
    BY <1>c, <1>d, <1>e, <2>2
  <2>4. Slack' = IF pc' = "ready" THEN fails ELSE fails + 1
    BY <1>e DEF Slack
  <2>5. 0 <= fails
    BY <1>g
  <2>6. Gap(area[p].ver, area[b].ver) <= Slack'
    BY <2>1, <2>4, <2>5
  <2> QED BY <1>e, <2>1, <2>3, <2>6
<1> QED BY <1>h, <1>2 DEF Lead

\* Erasing, giving up, marking and losing power.
LEMMA LeadStep ==
  ASSUME IInv, IInv', Clear, Paired, Lead, fails <= 126, NEW m \in Blocks,
         Erase \/ NoSpace \/ EraseFail \/ MarkBad(m) \/ WriteMark \/ WriteMarkFail \/ PowerLoss
  PROVE  Lead'
<1>a. /\ TypeOK /\ TypeOK' /\ fails \in Nat
      /\ area \in [Area -> Tables \cup {Blank}] /\ "main" \in Kinds /\ "mirror" \in Kinds
      /\ desc \in [Kinds -> [page : Area \cup {None}, ver : 0 .. 255]]
  BY VersionBytes DEF IInv, TypeOK, Kinds
<1>b. ASSUME NEW b \in TableBlocks, Running
      PROVE  /\ desc["main"].ver \in 0 .. 255 /\ area[b].ver \in 0 .. 255
             /\ Gap(desc["main"].ver, area[b].ver) \in 0 .. 127
             /\ Gap(desc["main"].ver, area[b].ver) <= fails + 1
             /\ pc \in {"ready", "mark"} => Gap(desc["main"].ver, area[b].ver) <= fails
             /\ area[b].tab \subseteq bbt /\ (area[b].ver = desc["main"].ver => area[b].tab = bbt)
  BY <1>a, <1>b, LeadFacts
<1>1. CASE Erase
  <2>1. /\ pc = "erase" /\ pc' = "program" /\ Running /\ Writing
        /\ bbt' = bbt /\ desc' = desc /\ job' = job /\ fails' = fails
    BY <1>1 DEF Erase, Running, Writing
  <2>2. TableBlocks' \subseteq TableBlocks /\ \A x \in TableBlocks' : area'[x] = area[x]
    BY <1>1, <1>a, PlaceFacts DEF Erase, TableBlocks, Blank, Kinds
  <2>3. Slack' = Slack
    BY <2>1 DEF Slack
  <2>4. ASSUME NEW b \in TableBlocks'
        PROVE  /\ Gap(desc'["main"].ver, area'[b].ver) <= Slack'
               /\ area'[b].tab \subseteq bbt'
               /\ area'[b].ver = desc'["main"].ver => area'[b].tab = bbt'
               /\ job' \in {<<"main">>, <<"mirror">>} /\ area'[b].kind = Other(Head(job'))
                    => area'[b].ver = desc'["main"].ver
    BY <2>1, <2>2, <2>3 DEF Lead
  <2> QED BY <2>1, <2>4 DEF Lead
<1>2. CASE NoSpace
  <2>1. /\ pc = "erase" /\ pc' \in {"ready", "mark"} /\ Running /\ Writing /\ fails' = fails
        /\ bbt' = bbt /\ desc' = desc /\ area' = area /\ TableBlocks' = TableBlocks
    BY <1>2 DEF NoSpace, GiveUp, flashVars, TableBlocks, Running, Writing
  <2>2. Slack' = fails
    BY <2>1 DEF Slack
  <2>3. ASSUME NEW b \in TableBlocks
        PROVE  /\ Gap(desc["main"].ver, area[b].ver) <= fails
               /\ area[b].tab \subseteq bbt
               /\ area[b].ver = desc["main"].ver => area[b].tab = bbt
    <3>1. area[b].ver = desc["main"].ver
      BY <1>2, <2>1, NoSpaceFacts DEF Lead
    <3>2. Gap(desc["main"].ver, area[b].ver) = 0
      BY <1>b, <2>1, <3>1, GapSelf
    <3> QED BY <1>a, <1>b, <2>1, <3>2
  <2>4. desc'["main"].ver = desc'["mirror"].ver
    BY <2>1 DEF Lead
  <2> QED BY <2>1, <2>2, <2>3, <2>4 DEF Lead, Writing
<1>3. CASE EraseFail
  <2>1. /\ pc = "erase" /\ pc' \in {"ready", "mark"} /\ Running
        /\ bbt' = bbt /\ desc' = desc /\ fails' = fails + 1
    BY <1>3 DEF EraseFail, GiveUp, Running
  <2>2. TableBlocks' \subseteq TableBlocks /\ \A x \in TableBlocks' : area'[x] = area[x]
    BY <1>3, <1>a, PlaceFacts DEF EraseFail, TableBlocks, Blank, Kinds
  <2>3. Slack' = fails + 1
    BY <2>1 DEF Slack
  <2>4. ASSUME NEW b \in TableBlocks'
        PROVE  /\ Gap(desc'["main"].ver, area'[b].ver) <= Slack'
               /\ area'[b].tab \subseteq bbt'
               /\ area'[b].ver = desc'["main"].ver => area'[b].tab = bbt'
    BY <1>b, <2>1, <2>2, <2>3, <2>4
  <2>5. desc'["main"].ver = desc'["mirror"].ver
    BY <2>1 DEF Lead
  <2> QED BY <2>1, <2>4, <2>5 DEF Lead, Running, Writing
<1>4. CASE MarkBad(m)
  <2>1. /\ pc = "ready" /\ pc' = "erase" /\ job' = <<"main", "mirror">> /\ Running
        /\ bbt' = bbt \cup {m} /\ fails' = fails /\ area' = area /\ TableBlocks' = TableBlocks
    BY <1>4 DEF MarkBad, flashVars, TableBlocks, Running
  <2>2. \A k \in Kinds : desc'[k].ver = (desc[k].ver + 1) % 256
    <3> TAKE k \in Kinds
    <3>1. desc'[k] = [desc[k] EXCEPT !.ver = (@ + 1) % 256]
      BY <1>4 DEF MarkBad
    <3>2. desc[k] \in [page : Area \cup {None}, ver : 0 .. 255]
      BY <1>a
    <3> QED BY <3>1, <3>2
  <2>3. desc'["main"].ver = desc'["mirror"].ver
    BY <1>a, <2>1, <2>2 DEF Lead
  <2>4. Slack' = fails + 1
    BY <2>1 DEF Slack
  <2>5. ASSUME NEW b \in TableBlocks
        PROVE  /\ Gap(desc'["main"].ver, area[b].ver) <= fails + 1
               /\ area[b].ver # desc'["main"].ver
    <3> DEFINE v == desc["main"].ver
               u == area[b].ver
               w == desc'["main"].ver
    <3>1. v \in 0 .. 255 /\ u \in 0 .. 255 /\ Gap(v, u) \in 0 .. 127 /\ Gap(v, u) <= fails
      BY <1>b, <2>1
    <3>2. w = (v + 1) % 256
      BY <1>a, <2>2
    <3> HIDE DEF v, u, w
    <3>3. Gap((v + 1) % 256, u) = Gap(v, u) + 1
      BY <3>1, GapNext
    <3>4. Gap(w, u) <= fails + 1 /\ Gap(w, u) # 0
      BY <1>a, <3>1, <3>2, <3>3
    <3>5. Gap(u, u) = 0
      BY <3>1, GapSelf
    <3> QED BY <3>4, <3>5 DEF u, w
  <2>6. ASSUME NEW b \in TableBlocks PROVE area[b].tab \subseteq bbt'
    BY <1>b, <2>1
  <2> QED BY <2>1, <2>3, <2>4, <2>5, <2>6, JobFacts DEF Lead
<1>5. CASE WriteMark \/ WriteMarkFail
  <2>1. /\ pc = "mark" /\ pc' = "ready" /\ Running /\ fails' \in {fails, fails + 1}
        /\ bbt' = bbt /\ desc' = desc /\ area' = area /\ TableBlocks' = TableBlocks
    BY <1>5 DEF WriteMark, WriteMarkFail, TableBlocks, Running
  <2>2. Slack' = fails'
    BY <2>1 DEF Slack
  <2>3. ASSUME NEW b \in TableBlocks
        PROVE  /\ Gap(desc["main"].ver, area[b].ver) <= Slack'
               /\ area[b].tab \subseteq bbt
               /\ area[b].ver = desc["main"].ver => area[b].tab = bbt
    <3> DEFINE g == Gap(desc["main"].ver, area[b].ver)
    <3>1. g \in 0 .. 127 /\ g <= fails
      BY <1>b, <2>1
    <3> HIDE DEF g
    <3>2. g <= fails /\ g <= fails + 1
      BY <1>a, <3>1
    <3>3. g <= Slack'
      BY <2>1, <2>2, <3>2
    <3> QED BY <1>b, <2>1, <3>3 DEF g
  <2>4. desc["main"].ver = desc["mirror"].ver
    BY <2>1 DEF Lead
  <2> QED BY <2>1, <2>3, <2>4 DEF Lead, Writing
<1>6. CASE PowerLoss
  BY <1>6 DEF PowerLoss, Lead, Running
<1> QED BY <1>1, <1>2, <1>3, <1>4, <1>5, <1>6

\* A table that was programmed holds what the RAM table does.
LEMMA ProgramLead ==
  ASSUME IInv, IInv', Lead, fails <= 126, Program \/ ProgramFail
  PROVE  Lead'
<1> DEFINE d == Head(job)
           v == desc["main"].ver
<1>a. /\ TypeOK /\ fails \in Nat /\ "main" \in Kinds /\ "mirror" \in Kinds
      /\ desc \in [Kinds -> [page : Area \cup {None}, ver : 0 .. 255]]
      /\ v \in 0 .. 255 /\ job \in Jobs
  BY VersionBytes DEF IInv, TypeOK, Kinds, Jobs
<1>b. /\ pc = "program" /\ Running /\ Writing /\ bbt' = bbt
  BY DEF Program, ProgramFail, Running, Writing
<1>c. job \in Jobs \ {<<>>} /\ d \in Kinds
  BY <1>a, <1>b, JobFacts DEF IInv, Working, Jobs, Kinds
<1>d. \A k \in Kinds : desc'[k].ver = v
  <2>1. \A k \in Kinds : desc[k].ver = v
    BY <1>b DEF Lead, Kinds
  <2>2. ASSUME Program, NEW k \in Kinds PROVE desc'[k].ver = desc[k].ver
    BY <1>a, <1>c, <2>2 DEF Program
  <2>3. ProgramFail => desc' = desc
    BY DEF ProgramFail, GiveUp
  <2> QED BY <2>1, <2>2, <2>3
<1>e. ASSUME NEW b \in TableBlocks
      PROVE  /\ area[b].ver \in 0 .. 255
             /\ Gap(v, area[b].ver) \in 0 .. 127 /\ Gap(v, area[b].ver) <= fails + 1
             /\ area[b].tab \subseteq bbt /\ (area[b].ver = v => area[b].tab = bbt)
  BY <1>a, <1>b, LeadFacts
<1>f. ASSUME job \in {<<"main">>, <<"mirror">>}, NEW b \in TableBlocks, area[b].kind = Other(d)
      PROVE  area[b].ver = v
  BY <1>b, <1>f DEF Lead
<1>g. Gap(v, v) = 0
  BY <1>a, GapSelf
<1>h. ASSUME area' = [area EXCEPT ![page] = Table(d)]
      PROVE  /\ TableBlocks' = TableBlocks \cup {page}
             /\ area'[page].ver = v /\ area'[page].tab = bbt /\ area'[page].kind = d
             /\ \A x \in TableBlocks : area'[x] = area[x] /\ area[x].kind = Other(d)
             /\ d # Other(d)
  <2>1. /\ d \in Kinds /\ Other(d) # d /\ TableBlocks' = TableBlocks \cup {page}
        /\ area'[page] = Table(d)
        /\ \A x \in TableBlocks : area'[x] = area[x] /\ area[x].kind = Other(d)
    BY <1>b, <1>h, ProgramFacts
  <2>2. desc[d].ver = v
    BY <1>b, <2>1 DEF Lead, Kinds
  <2> QED BY <2>1, <2>2 DEF Table
<1> HIDE DEF v
<1>1. CASE Program
  <2>1. /\ fails' = fails /\ pc' \in {"erase", "ready", "mark"} /\ job' = Tail(job)
        /\ pc' = "erase" <=> job' # <<>>
        /\ area' = [area EXCEPT ![page] = Table(d)]
    BY <1>1 DEF Program
  <2>2. Slack' = IF job' = <<>> THEN fails ELSE fails + 1
    BY <2>1 DEF Slack
  <2>3. \/ job = <<"main", "mirror">> /\ job' = <<"mirror">> /\ d = "main"
        \/ job \in {<<"main">>, <<"mirror">>} /\ job' = <<>>
    BY <1>c, <2>1, JobFacts DEF Jobs
  <2>4. ASSUME NEW b \in TableBlocks
        PROVE  Gap(v, area[b].ver) <= Slack'
    <3>1. CASE job' = <<>>
      <4>1. area[b].ver = v
        BY <1>f, <1>h, <2>1, <2>3, <3>1, JobFacts
      <4>2. 0 <= fails
        BY <1>a
      <4> QED BY <1>g, <2>2, <3>1, <4>1, <4>2
    <3>2. CASE job' # <<>>
      BY <1>e, <2>2, <3>2
    <3> QED BY <3>1, <3>2
  <2>5. Gap(v, v) <= Slack'
    <3>1. 0 <= fails /\ 0 <= fails + 1
      BY <1>a
    <3> QED BY <1>g, <2>2, <3>1
  <2>6. ASSUME NEW b \in TableBlocks'
        PROVE  /\ Gap(v, area'[b].ver) <= Slack' /\ area'[b].tab \subseteq bbt
               /\ area'[b].ver = v => area'[b].tab = bbt
    <3>1. CASE b = page
      BY <1>h, <2>1, <2>5, <3>1
    <3>2. CASE b \in TableBlocks
      BY <1>e, <1>h, <2>1, <2>4, <3>2
    <3> QED BY <1>h, <2>1, <3>1, <3>2
  <2>7. ASSUME NEW b \in TableBlocks', job' \in {<<"main">>, <<"mirror">>},
               area'[b].kind = Other(Head(job'))
        PROVE  area'[b].ver = v
    <3>1. d = "main" /\ Other(Head(job')) = "main"
      BY <2>3, <2>7, JobFacts DEF Other
    <3>2. b = page
      BY <1>h, <2>1, <2>7, <3>1
    <3> QED BY <1>h, <2>1, <3>2
  <2> QED BY <1>a, <1>b, <1>d, <2>6, <2>7 DEF Lead
<1>2. CASE ProgramFail
  <2>1. /\ fails' = fails + 1 /\ pc' \in {"ready", "mark"}
        /\ area' \in {area, [area EXCEPT ![page] = Table(d)]}
    BY <1>2 DEF ProgramFail, GiveUp
  <2>2. Slack' = fails + 1
    BY <2>1 DEF Slack
  <2>3. 0 <= fails + 1
    BY <1>a
  <2>4. ASSUME NEW b \in TableBlocks'
        PROVE  /\ Gap(v, area'[b].ver) <= Slack' /\ area'[b].tab \subseteq bbt
               /\ area'[b].ver = v => area'[b].tab = bbt
    <3>1. CASE area' = area
      <4>1. b \in TableBlocks
        BY <2>4, <3>1 DEF TableBlocks
      <4> QED BY <1>e, <2>2, <2>4, <3>1, <4>1
    <3>2. CASE area' = [area EXCEPT ![page] = Table(d)]
      <4>1. CASE b = page
        BY <1>g, <1>h, <2>2, <2>3, <2>4, <3>2, <4>1
      <4>2. CASE b \in TableBlocks
        BY <1>e, <1>h, <2>2, <2>4, <3>2, <4>2
      <4> QED BY <1>h, <2>4, <3>2, <4>1, <4>2
    <3> QED BY <2>1, <3>1, <3>2
  <2> QED BY <1>a, <1>b, <1>d, <2>1, <2>4 DEF Lead, Running, Writing
<1> QED BY <1>1, <1>2

LEMMA ComparableStep ==
  ASSUME IInv, IInv', Clear, Paired, Comparable, [Next]_vars
  PROVE  Comparable'
<1> SUFFICES ASSUME fails' <= 126 PROVE Graded' /\ Near' /\ Lead'
  BY DEF Comparable
<1>a. /\ TypeOK /\ TypeOK' /\ fails \in Nat /\ fails' \in Nat
      /\ area \in [Area -> Tables \cup {Blank}]
  BY BlockAssumption DEF IInv, TypeOK
<1>b. fails' \in {fails, fails + 1}
  BY DEF Next, Step, Boot, Erase, NoSpace, EraseFail, Program, ProgramFail, WriteMark,
         WriteMarkFail, PowerLoss, MarkBad, vars
<1>c. fails' >= fails /\ fails <= 126
  BY <1>a, <1>b
<1>d. Graded /\ Near /\ Lead
  BY <1>c DEF Comparable
<1>e. 0 \in Blocks
  BY BlockAssumption DEF Blocks
<1>1. ASSUME TableBlocks' \subseteq TableBlocks, \A x \in TableBlocks' : area'[x] = area[x]
      PROVE  Graded' /\ Near'
  BY <1>a, <1>c, <1>d, <1>1, ShrunkPairs
<1>2. ASSUME area' = area PROVE Graded' /\ Near'
  <2>1. TableBlocks' = TableBlocks
    BY <1>2 DEF TableBlocks
  <2> QED BY <1>1, <1>2, <2>1
<1>3. CASE Boot
  BY <1>2, <1>3, <1>c, <1>d, BootLead DEF Boot, flashVars
<1>4. CASE Erase \/ EraseFail
  <2>1. PICK b \in Place(Head(job)) : area' \in {area, [area EXCEPT ![b] = Blank]}
    BY <1>4 DEF Erase, EraseFail
  <2>2. b \in Area
    BY <1>4, PlaceFacts DEF Erase, EraseFail
  <2>3. TableBlocks' \subseteq TableBlocks /\ \A x \in TableBlocks' : area'[x] = area[x]
    BY <1>a, <2>1, <2>2 DEF TableBlocks, Blank, Kinds
  <2>4. Lead'
    BY <1>4, <1>c, <1>d, <1>e, LeadStep
  <2> QED BY <1>1, <2>3, <2>4
<1>5. CASE Program \/ ProgramFail
  <2>1. pc = "program" /\ area' \in {area, [area EXCEPT ![page] = Table(Head(job))]}
    BY <1>5 DEF Program, ProgramFail
  <2>2. ASSUME area' = [area EXCEPT ![page] = Table(Head(job))] PROVE Graded' /\ Near'
    BY <1>a, <1>c, <1>d, <2>1, <2>2, WrittenPairs
  <2>3. Lead'
    BY <1>5, <1>c, <1>d, ProgramLead
  <2> QED BY <1>2, <2>1, <2>2, <2>3
<1>6. ASSUME NEW m \in Blocks, NoSpace \/ MarkBad(m) \/ WriteMark \/ WriteMarkFail \/ PowerLoss
      PROVE  Graded' /\ Near' /\ Lead'
  <2>1. area' = area
    BY <1>6 DEF NoSpace, MarkBad, WriteMark, WriteMarkFail, PowerLoss, flashVars
  <2>2. Lead'
    BY <1>6, <1>c, <1>d, LeadStep
  <2> QED BY <1>2, <2>1, <2>2
<1>7. CASE UNCHANGED vars
  <2>1. /\ area' = area /\ bbt' = bbt /\ desc' = desc /\ pc' = pc /\ job' = job
        /\ fails' = fails /\ TableBlocks' = TableBlocks
    BY <1>7 DEF vars, TableBlocks
  <2>2. Lead' = Lead
    BY <2>1 DEF Lead, Slack, Running, Writing
  <2> QED BY <1>2, <1>d, <2>1, <2>2
<1> QED BY <1>3, <1>4, <1>5, <1>6, <1>7, <1>e DEF Next, Step

\* Of two tables on flash the one check_create takes for the newer holds every
\* bad block of the other, however many updates and power losses there are, as
\* long as at most 126 flash operations have failed: each may put one table a
\* version further behind the other, and check_create's signed comparison of
\* bytes is only right up to 127.
THEOREM NewerIsFuller == Spec => [](fails <= 126 => NewerKnowsMore)
<1>2. IInv /\ Comparable => (fails <= 126 => NewerKnowsMore)
  BY ComparableKnows DEF IInv, Comparable
<1> QED BY <1>2, IInvInit, IInvStep, ClearInit, ClearStep, PairedInit, PairedStep,
           ComparableInit, ComparableStep, PTL DEF Spec

=============================================================================
