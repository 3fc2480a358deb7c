--------------------------- MODULE BadBlockTable ---------------------------
(***************************************************************************)
(* The bad block table of the NAND flash (drivers/mtd/nand/nand_bbt.c and  *)
(* nand_default_block_markbad in nand_base.c).  The RAM table is loaded at *)
(* boot from one of two copies on flash, the main table and its mirror,    *)
(* which live in the last MaxBlocks blocks and carry an 8-bit version.     *)
(* Marking a block bad sets it in the RAM table, rewrites main and then    *)
(* mirror with the next version, and last puts a bad mark into the block   *)
(* itself, which is only read when neither table can be found.             *)
(*                                                                         *)
(* One action is one flash operation: power may fail between any two, and  *)
(* an erase or a program may report an error.  A table is one page, so it  *)
(* is either there with its pattern or not recognised.                     *)
(***************************************************************************)
EXTENDS Integers, Sequences, FiniteSets

CONSTANTS
  NumBlocks,     \* the blocks of the chip
  MaxBlocks,     \* bbt_main_descr.maxblocks, the blocks kept for the tables
  Factory,       \* the sets of blocks the manufacturer may have marked bad
  FirstVersion,  \* the versions the tables of an old device may be at
  MaxFail        \* bound on flash operations that report an error

ASSUME BlockAssumption ==
  /\ NumBlocks \in Nat /\ MaxBlocks \in Nat \ {0} /\ MaxBlocks < NumBlocks
  /\ Factory \subseteq SUBSET (0 .. NumBlocks - 1)
  /\ FirstVersion \subseteq 0 .. 255
  /\ MaxFail \in Nat

Blocks == 0 .. NumBlocks - 1
Area   == NumBlocks - MaxBlocks .. NumBlocks - 1
Kinds  == {"main", "mirror"}          \* bbt_td and bbt_md
Other(d) == IF d = "main" THEN "mirror" ELSE "main"
None   == -1

Blank  == [kind |-> "blank", ver |-> 0, tab |-> {}]
Tables == [kind : Kinds, ver : 0 .. 255, tab : SUBSET Blocks]

VARIABLES
  area,      \* what each block of Area holds: a table or nothing known
  marks,     \* the blocks with a bad mark in their first page
  bbt,       \* this->bbt: the blocks with a bad bit in RAM
  desc,      \* page and version of bbt_td and bbt_md in RAM
  pc,        \* off, erase, program, mark, ready
  job,       \* the tables still to write, in order
  booting,   \* the tables are written by check_create, not nand_update_bbt
  page,      \* the block write_bbt chose
  target,    \* the block being marked bad
  fails,     \* failed flash operations so far
  upd,       \* the last nand_update_bbt returned 0
  acked,     \* history: the blocks that block_markbad returned 0 for
  whole      \* history: of these, the ones whose nand_update_bbt returned 0

vars == <<area, marks, bbt, desc, pc, job, booting, page, target, fails, upd,
          acked, whole>>
flashVars == <<area, marks>>
histVars  == <<acked, whole>>

NoDesc == [d \in Kinds |-> [page |-> None, ver |-> 0]]

\* Either a new chip, or one with both tables in place and equal.
Init ==
  /\ marks \in Factory
  /\ \/ area = [b \in Area |-> Blank]
     \/ \E v \in FirstVersion, p, q \in Area \ marks :
          /\ p # q
          /\ area = [b \in Area |->
               IF b = p THEN [kind |-> "main", ver |-> v, tab |-> marks]
               ELSE IF b = q THEN [kind |-> "mirror", ver |-> v, tab |-> marks]
               ELSE Blank]
  /\ bbt = {} /\ desc = NoDesc /\ pc = "off" /\ job = <<>> /\ booting = FALSE
  /\ page = None /\ target = None /\ fails = 0
  /\ upd = FALSE
  /\ acked = marks /\ whole = marks

(***************************************************************************)
(* Boot: nand_scan_bbt.                                                    *)
(***************************************************************************)
\* search_bbt looks from the last block down and takes the first match.
Found(d) ==
  LET hits == {b \in Area : area[b].kind = d}
  IN IF hits = {} THEN [page |-> None, ver |-> 0]
     ELSE LET b == CHOOSE x \in hits : \A y \in hits : y <= x
          IN [page |-> b, ver |-> area[b].ver]

NewerM(v, u) == v > u          \* mutant: compared as unsigned numbers

Newer(v, u) == (v - u) % 256 \in 1 .. 127          \* (int8_t)(v - u) > 0

\* Which table check_create reads: None when it has to scan the chip.
Chosen(td, md) ==
  IF td.page = None /\ md.page = None THEN None
  ELSE IF td.page = None THEN md.page
  ELSE IF md.page = None THEN td.page
  ELSE IF td.ver = md.ver \/ Newer(td.ver, md.ver) THEN td.page
  ELSE md.page

\* Mutant: a missing mirror is left missing.
MissingM(td, md) ==
  IF td.page = None /\ md.page = None THEN <<"main", "mirror">>
  ELSE IF td.page = None THEN <<"main">>
  ELSE IF md.page = None \/ td.ver = md.ver THEN <<>>
  ELSE IF Newer(td.ver, md.ver) THEN <<"mirror">>
  ELSE <<"main">>

\* Which tables check_create then writes, and in which order.
Missing(td, md) ==
  IF td.page = None /\ md.page = None THEN <<"main", "mirror">>
  ELSE IF td.page = None THEN <<"main">>
  ELSE IF md.page = None THEN <<"mirror">>
  ELSE IF td.ver = md.ver THEN <<>>
  ELSE IF Newer(td.ver, md.ver) THEN <<"mirror">>
  ELSE <<"main">>

Recovered ==            \* the RAM table a boot from this flash ends up with
  LET p == Chosen(Found("main"), Found("mirror"))
  IN IF p = None THEN marks ELSE area[p].tab

NextPc(j) == IF j = <<>> THEN "ready" ELSE "erase"

Boot ==
  /\ pc = "off"
  /\ LET td == Found("main")
         md == Found("mirror")
         p  == Chosen(td, md)
         v  == IF p = None THEN 1 ELSE area[p].ver
     IN /\ desc' = [d \in Kinds |-> [page |-> Found(d).page, ver |-> v]]
        /\ job' = Missing(td, md)
        /\ pc' = NextPc(Missing(td, md))
  /\ bbt' = Recovered
  /\ booting' = TRUE
  /\ UNCHANGED <<flashVars, page, target, fails, upd, histVars>>

(***************************************************************************)
(* write_bbt, for the table at the head of the job: choose a block, erase  *)
(* it, program the table.                                                  *)
(***************************************************************************)
PlacesM(d) == {b \in Area : b \notin bbt}     \* mutant: the other table's block too

Places(d) == {b \in Area : b \notin bbt /\ b # desc[Other(d)].page}

\* The block of an earlier version, else the last free one of Area.
Spot(d) ==
  IF desc[d].page # None THEN {desc[d].page}
  ELSE {x \in Places(d) : \A y \in Places(d) : y <= x}

\* Empty for -ENOSPC, and when nand_erase_nand refuses the block as a bad one.
Place(d) == Spot(d) \ bbt

\* An error ends the job.  nand_block_checkbad ignores what scan_bbt returns, so
\* a boot runs on with the tables there are, and an update with the bad mark.
GiveUp ==
  /\ job' = <<>>
  /\ pc' = IF booting THEN "ready" ELSE "mark"
  /\ upd' = FALSE
  /\ UNCHANGED <<desc, histVars>>

Erase ==
  /\ pc = "erase"
  /\ \E b \in Place(Head(job)) :
       /\ page' = b
       /\ area' = [area EXCEPT ![b] = Blank]
  /\ pc' = "program"
  /\ UNCHANGED <<marks, bbt, desc, job, booting, target, fails, upd, histVars>>

NoSpace ==
  /\ pc = "erase" /\ Place(Head(job)) = {}
  /\ GiveUp
  /\ UNCHANGED <<flashVars, bbt, booting, page, target, fails>>

EraseFail ==
  /\ pc = "erase" /\ fails < MaxFail
  /\ \E b \in Place(Head(job)) :
       /\ page' = b
       /\ area' \in {area, [area EXCEPT ![b] = Blank]}
  /\ GiveUp
  /\ fails' = fails + 1
  /\ UNCHANGED <<marks, bbt, booting, target>>

\* Mutant: the table is built before the new block's bit is set.
TableM(d) == [kind |-> d, ver |-> desc[d].ver, tab |-> bbt \ {target}]

Table(d) == [kind |-> d, ver |-> desc[d].ver, tab |-> bbt]

Program ==
  /\ pc = "program"
  /\ area' = [area EXCEPT ![page] = Table(Head(job))]
  /\ desc' = [desc EXCEPT ![Head(job)].page = page]
  /\ job' = Tail(job)
  /\ pc' = IF Tail(job) # <<>> THEN "erase" ELSE IF booting THEN "ready" ELSE "mark"
  /\ upd' = (Tail(job) = <<>>)
  /\ UNCHANGED <<marks, bbt, booting, page, target, fails, acked, whole>>

ProgramFail ==
  /\ pc = "program" /\ fails < MaxFail
  /\ area' \in {area, [area EXCEPT ![page] = Table(Head(job))]}
  /\ GiveUp
  /\ fails' = fails + 1
  /\ UNCHANGED <<marks, bbt, booting, page, target>>

(***************************************************************************)
(* nand_block_markbad: a block that already counts as bad, one of Area     *)
(* among them, is left alone.                                              *)
(***************************************************************************)
MarkBadM(b) ==       \* mutant: the version byte does not wrap
  /\ pc = "ready" /\ b \notin bbt \cup Area
  /\ bbt' = bbt \cup {b}
  /\ desc' = [d \in Kinds |-> [desc[d] EXCEPT !.ver = @ + 1]]
  /\ job' = <<"main", "mirror">>
  /\ pc' = "erase"
  /\ booting' = FALSE /\ target' = b
  /\ UNCHANGED <<flashVars, page, fails, upd, histVars>>

MarkBad(b) ==
  /\ pc = "ready" /\ b \notin bbt \cup Area
  /\ bbt' = bbt \cup {b}
  /\ desc' = [d \in Kinds |-> [desc[d] EXCEPT !.ver = (@ + 1) % 256]]
  /\ job' = <<"main", "mirror">>
  /\ pc' = "erase"
  /\ booting' = FALSE /\ target' = b
  /\ UNCHANGED <<flashVars, page, fails, upd, histVars>>

\* The bad mark goes to the first, second and last page, and the outcome of
\* these writes is what markbad returns: that of the table update is lost.
WriteMark ==
  /\ pc = "mark"
  /\ marks' = marks \cup {target}
  /\ acked' = acked \cup {target}
  /\ pc' = "ready"
  /\ whole' = IF upd THEN whole \cup {target} ELSE whole
  /\ UNCHANGED <<area, bbt, desc, job, booting, page, target, fails, upd>>

WriteMarkFail ==
  /\ pc = "mark" /\ fails < MaxFail
  /\ marks' \in {marks, marks \cup {target}}
  /\ pc' = "ready" /\ fails' = fails + 1
  /\ UNCHANGED <<area, bbt, desc, job, booting, page, target, upd, histVars>>

\* Power is lost: only the flash is left.
PowerLoss ==
  /\ pc # "off"
  /\ pc' = "off" /\ bbt' = {} /\ desc' = NoDesc /\ job' = <<>>
  /\ booting' = FALSE /\ page' = None /\ target' = None /\ upd' = FALSE
  /\ UNCHANGED <<flashVars, fails, histVars>>

Step == \/ Boot \/ Erase \/ NoSpace \/ EraseFail \/ Program \/ ProgramFail
        \/ WriteMark \/ WriteMarkFail
Next == Step \/ PowerLoss \/ (\E b \in Blocks : MarkBad(b))

Spec == Init /\ [][Next]_vars

(***************************************************************************)
(* Properties.                                                             *)
(***************************************************************************)
\* Type invariant of the tables on flash and of the RAM state.
TypeOK ==
  /\ area \in [Area -> Tables \cup {Blank}]
  /\ marks \subseteq Blocks /\ bbt \subseteq Blocks
  /\ desc \in [Kinds -> [page : Area \cup {None}, ver : 0 .. 255]]
  /\ pc \in {"off", "erase", "program", "mark", "ready"}
  /\ job \in {<<>>, <<"main">>, <<"mirror">>, <<"main", "mirror">>}
  /\ booting \in BOOLEAN
  /\ page \in Area \cup {None} /\ target \in Blocks \cup {None}
  /\ fails \in 0 .. MaxFail
  /\ upd \in BOOLEAN
  /\ acked \subseteq Blocks /\ whole \subseteq Blocks

Running == pc # "off"

\* Whatever flash operations fail and wherever power is lost, a block whose
\* table update and bad mark both succeeded is known to the running system
\* and to every later boot.
WholeRemembered ==
  /\ whole \subseteq Recovered
  /\ Running => whole \subseteq bbt

\* A block that block_markbad returned 0 for is bad after every later boot,
\* flash errors or not.
AckedRemembered == Running => acked \subseteq bbt

\* The two tables never claim the same block, in RAM or on flash.
PagesDisjoint ==
  /\ desc["main"].page # desc["mirror"].page \/ desc["main"].page = None
  /\ \A d \in Kinds : Cardinality({b \in Area : area[b].kind = d}) <= 1

\* Of two tables on flash the newer one, by the signed 8-bit comparison of
\* check_create, holds every bad block of the older; equal versions hold
\* the same blocks.
NewerKnowsMore ==
  \A p, q \in Area :
    /\ area[p].kind = "main" /\ area[q].kind = "mirror"
    => IF Newer(area[p].ver, area[q].ver) THEN area[q].tab \subseteq area[p].tab
       ELSE IF area[p].ver = area[q].ver THEN area[q].tab = area[p].tab
       ELSE area[p].tab \subseteq area[q].tab

\* There is a good block for each of the two tables.
Enough == Cardinality(Area \ marks) >= 2

\* Wherever power was lost before, in an update or in the repair of an earlier
\* boot: while no flash operation has failed, both tables are where the
\* descriptors say and hold the RAM table at one version whenever the system is
\* idle, so that either can be lost.
TablesInStep ==
  fails = 0 /\ Enough /\ pc = "ready" =>
    /\ desc["main"].ver = desc["mirror"].ver
    /\ \A d \in Kinds : desc[d].page # None /\ area[desc[d].page] = Table(d)

\* The atomicity of an update: what a boot would find only ever changes by
\* gaining blocks, and gains at most the one being marked.  Not once a flash
\* operation has failed, and not where only one table has a block to be in: each
\* update erases it, and a cut then forgets the blocks whose mark was cut too.
Store == INSTANCE BadBlockStore
  WITH durable <- Recovered, known <- bbt, up <- Running,
       faulty <- fails > 0 \/ ~Enough
StoreSpec == Store!Spec
=============================================================================
