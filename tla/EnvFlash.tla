------------------------------ MODULE EnvFlash ------------------------------
(***************************************************************************)
(* The redundant environment on NOR flash: env_flash.c with CONFIG_ENV_    *)
(* ADDR_REDUND and a sector larger than the environment, with the setenv   *)
(* of cmd_nvedit.c.                                                        *)
(*                                                                         *)
(* A copy has contents, a CRC and a flag, written one after the other.     *)
(* The flag is a byte, here the set of its bits that are set: an erase     *)
(* sets them all, a program clears some, and one that fails or is cut      *)
(* clears some of those.                                                   *)
(***************************************************************************)
EXTENDS Integers, Sequences

CONSTANTS Values, Default, FlagBits, MaxSaves, MaxFail, MaxCut

Erased == FlagBits
Active == {0}
Obsolete == {}
Blank == [data |-> "erased", crc |-> "erased", flags |-> Erased]
Kept(v, f) == [data |-> v, crc |-> v, flags |-> f]

VARIABLES
  copy,        \* the two sectors
  cur,         \* flash_addr
  env,         \* *env_ptr: contents and what its CRC was computed for
  pc,          \* off, what boot or save do next, idle
  acked, tried, spoilt,   \* history, as in EnvNand
  saves, fails, cuts

hist == <<acked, tried, spoilt>>
vars == <<copy, cur, env, pc, hist, saves, fails, cuts>>

New == 3 - cur         \* flash_addr_new
CopyOk(n) == copy[n].data \in Values \cup {Default} /\ copy[n].crc = copy[n].data
Flag(n) == copy[n].flags

\* The copy env_init uses, 0 for the default environment: two valid copies
\* with other flags than these match none of its branches.
Choice ==
  CASE CopyOk(1) /\ ~CopyOk(2) -> 1
    [] ~CopyOk(1) /\ CopyOk(2) -> 2
    [] ~CopyOk(1) /\ ~CopyOk(2) -> 0
    [] OTHER ->
         IF Flag(1) = Active /\ Flag(2) = Obsolete THEN 1
         ELSE IF Flag(1) = Obsolete /\ Flag(2) = Active THEN 2
         ELSE IF Flag(1) = Flag(2) \/ Flag(1) = Erased THEN 1
         ELSE IF Flag(2) = Erased THEN 2 ELSE 0
\* Two valid copies, and flags that do not say which: no branch is for them, or
\* they are equal.
Undecided == CopyOk(1) /\ CopyOk(2) /\ (Choice = 0 \/ Flag(1) = Flag(2))
Loads == IF Choice = 0 THEN Default ELSE copy[Choice].data

Init ==
  /\ \/ copy = [n \in {1, 2} |-> Blank]
     \/ \E n \in {1, 2}, v, w \in Values :
          copy = [m \in {1, 2} |-> IF m = n THEN Kept(v, Active) ELSE Kept(w, Obsolete)]
  /\ acked = Loads /\ tried = {} /\ spoilt = FALSE
  /\ cur = 1 /\ env = [data |-> Default, crc |-> Default] /\ pc = "off"
  /\ saves = 0 /\ fails = 0 /\ cuts = 0

Go(p) == pc' = p
Counts == UNCHANGED <<saves, fails, cuts>>

\* Mutant: without the swap.
BootM ==
  /\ pc = "off"
  /\ cur' = 1 /\ IF Choice = 0 THEN Go("idle") ELSE Go("obsolete")
  /\ env' = [data |-> Loads, crc |-> Loads]
  /\ spoilt' = (spoilt \/ Undecided)
  /\ acked' = IF spoilt' THEN acked ELSE Loads
  /\ tried' = IF spoilt' THEN tried ELSE {}
  /\ UNCHANGED copy /\ Counts
\* env_init and the swap of env_relocate_spec
Boot ==
  /\ pc = "off"
  /\ IF Choice = 0 THEN cur' = 1 /\ Go("idle") ELSE cur' = Choice /\ Go("obsolete")
  /\ env' = [data |-> Loads, crc |-> Loads]
  /\ spoilt' = (spoilt \/ Undecided)
  /\ acked' = IF spoilt' THEN acked ELSE Loads
  /\ tried' = IF spoilt' THEN tried ELSE {}
  /\ UNCHANGED copy /\ Counts

\* What programming the flag of copy n leaves, done or not.
Program(n, f) == [copy EXCEPT ![n].flags = @ \cap f]
Torn(n, f) == {[copy EXCEPT ![n].flags = g] :
                 g \in {h \in SUBSET Flag(n) : Flag(n) \cap f \subseteq h}}

\* The two repairs of env_relocate_spec, which does not look at what flash_write
\* returns: a boot goes on whatever one has left of the flag.
NotObsolete == CopyOk(New) /\ Flag(New) # Obsolete
NotActive == Flag(cur) # Active /\ 0 \in Flag(cur)

Repair(n, f) ==
  \/ copy' = Program(n, f) /\ UNCHANGED fails
  \/ copy' \in Torn(n, f) /\ fails < MaxFail /\ fails' = fails + 1

RepairObsolete ==
  /\ pc = "obsolete" /\ Go("active")
  /\ IF NotObsolete THEN Repair(New, Obsolete) ELSE UNCHANGED <<copy, fails>>
  /\ UNCHANGED <<cur, env, hist, saves, cuts>>

RepairActive ==
  /\ pc = "active" /\ Go("idle")
  /\ IF NotActive THEN Repair(cur, Active) ELSE UNCHANGED <<copy, fails>>
  /\ UNCHANGED <<cur, env, hist, saves, cuts>>

SetEnv(v) ==
  /\ pc = "idle" /\ v # env.data /\ env' = [data |-> v, crc |-> v]
  /\ UNCHANGED <<copy, cur, pc, hist>> /\ Counts
SetTooLong(v) ==
  /\ pc = "idle" /\ v # env.data /\ env' = [env EXCEPT !.data = v]
  /\ UNCHANGED <<copy, cur, pc, hist>> /\ Counts

SaveEnv ==
  /\ pc = "idle" /\ saves < MaxSaves /\ saves' = saves + 1 /\ Go("erase")
  /\ tried' = tried \cup {env.data}
  /\ UNCHANGED <<copy, cur, env, acked, spoilt, fails, cuts>>

\* What each write of saveenv does to the sectors, and what comes next.
Writes == <<"erase", "data", "crc", "old", "new", "rest">>
After(p) == LET i == CHOOSE i \in 1 .. 6 : Writes[i] = p
            IN IF i = 6 THEN "done" ELSE Writes[i + 1]

Written(p) ==
  CASE p = "erase" -> [copy EXCEPT ![New] = Blank]
    [] p = "data"  -> [copy EXCEPT ![New].data = env.data]
    [] p = "crc"   -> [copy EXCEPT ![New].crc = env.crc]
    [] p = "old"   -> Program(cur, Obsolete)
    [] p = "new"   -> Program(New, Active)
    [] OTHER       -> copy

\* What a write that fails or is cut can leave.
Partly(p) ==
  {copy} \cup
  (CASE p = "erase" -> {[copy EXCEPT ![New] = [Blank EXCEPT !.data = "torn"]]}
     [] p = "data"  -> {[copy EXCEPT ![New].data = "torn"]}
     [] p = "crc"   -> {[copy EXCEPT ![New].crc = "torn"]}
     [] p = "old"   -> Torn(cur, Obsolete)
     [] p = "new"   -> Torn(New, Active)
     [] p = "obsolete" /\ NotObsolete -> Torn(New, Obsolete)
     [] p = "active" /\ NotActive -> Torn(cur, Active)
     [] OTHER -> {})

Saving == pc \in {"erase", "data", "crc", "old", "new", "rest", "done"}

Write ==
  /\ Saving /\ pc # "done"
  /\ copy' = Written(pc) /\ Go(After(pc))
  /\ UNCHANGED <<cur, env, hist>> /\ Counts

\* A failing write ends the save.  If it was that of the rest of the sector,
\* rc is still zero, and the two sectors are not swapped.
WriteFail ==
  /\ Saving /\ pc # "done" /\ fails < MaxFail /\ fails' = fails + 1
  /\ copy' \in Partly(pc) /\ Go("idle")
  /\ IF pc = "rest" THEN acked' = env.data /\ tried' = {} /\ spoilt' = TRUE
     ELSE UNCHANGED hist
  /\ UNCHANGED <<cur, env, saves, cuts>>

SaveDone ==
  /\ pc = "done" /\ Go("idle") /\ cur' = New
  /\ acked' = env.data /\ tried' = {} /\ spoilt' = (env.data # env.crc)
  /\ UNCHANGED <<copy, env>> /\ Counts

Cut ==
  /\ pc # "off" /\ cuts < MaxCut /\ cuts' = cuts + 1 /\ Go("off")
  /\ copy' \in Partly(pc)
  /\ UNCHANGED <<cur, env, hist, saves, fails>>

Step == RepairObsolete \/ RepairActive \/ Write \/ WriteFail \/ SaveDone
Next == Boot \/ (\E v \in Values : SetEnv(v) \/ SetTooLong(v)) \/ SaveEnv \/ Step \/ Cut
Fairness == WF_vars(Step)
Spec == Init /\ [][Next]_vars /\ Fairness

-----------------------------------------------------------------------------
(* Properties.                                                             *)

\* At every moment a boot would load what the last successful save saved, or
\* what a save since then was saving (env_flash.c: saveenv, env_init); not if
\* that save had a stale checksum or could not write back the rest of the
\* sector (spoilt), or the flags do not say which copy is the newer: a repair of
\* them at boot failed, or the write of the active flag did or was cut.
SavedIsFound == ~spoilt /\ ~Undecided => Loads \in {acked} \cup tried

\* While one copy is erased and written the other one is whole (README:2342).
BackupWhole == Saving /\ ~spoilt /\ acked # Default => CopyOk(cur) /\ copy[cur].data = acked

\* The copy that the next save spares is the one that a boot would choose, where
\* the flags say which.
SparesChosen == pc = "idle" /\ tried = {} /\ ~spoilt /\ ~Undecided => Choice \in {0, cur}

\* Types.
TypeOK ==
  /\ DOMAIN copy = {1, 2} /\ cur \in {1, 2}
  /\ \A n \in {1, 2} : Flag(n) \subseteq FlagBits
  /\ acked \in Values \cup {Default} /\ tried \subseteq Values \cup {Default}

\* A save returns, and so does a boot.
SaveReturns == pc \notin {"off", "idle"} ~> pc \in {"off", "idle"}
=============================================================================
