------------------------------ MODULE EnvNand -------------------------------
(***************************************************************************)
(* The redundant environment on NAND: env_nand.c with CONFIG_ENV_OFFSET_   *)
(* REDUND, its erase through nand_erase_opts (nand_util.c) and the setenv  *)
(* of cmd_nvedit.c.                                                        *)
(*                                                                         *)
(* An environment is its contents, the contents its CRC was computed for,  *)
(* and the serial number `flags', which the CRC does not cover.  A copy    *)
(* fills Size good blocks of an area of EnvRange.                          *)
(***************************************************************************)
EXTENDS Integers, FiniteSets

CONSTANTS
  Values,          \* contents a user can set
  Default,         \* default_environment
  Size, EnvRange,  \* CONFIG_ENV_SIZE and CONFIG_ENV_RANGE, in blocks
  Offset, Redund,  \* CONFIG_ENV_OFFSET and CONFIG_ENV_OFFSET_REDUND
  NumBlocks,       \* blocks of the device
  Serials,         \* serial numbers the flash starts with
  MaxBad, MaxSaves, MaxFail, MaxCut

ASSUME EnvNandAssumption ==
  /\ Default \notin Values
  /\ Offset \in Nat /\ EnvRange \in Nat /\ Redund \in Nat /\ NumBlocks \in Nat
  /\ Size \in 1 .. EnvRange /\ Redund >= Offset + EnvRange /\ NumBlocks >= Redund + EnvRange
  /\ MaxBad \in Nat /\ MaxSaves \in Nat /\ MaxFail \in Nat /\ MaxCut \in Nat
  /\ Serials \subseteq 0 .. 255

Blocks == 0 .. NumBlocks - 1
Erased  == [st |-> "erased"]
Garbage == [st |-> "garbage"]
Part(k, e) == [st |-> "part", k |-> k, e |-> e]
Env(d, f) == [data |-> d, crc |-> d, flags |-> f]
NoEnv == Env(Default, 255)     \* set_default_env
Area(n) == IF n = 1 THEN Offset ELSE Redund

VARIABLES
  flash, bad,   \* the device, its bad blocks
  env,          \* *env_ptr
  valid,        \* gd->env_valid: the copy in use
  pc,           \* off, idle, erase, write
  at, end, done,  \* offset and limit of the loop, amount_saved
  acked,        \* history: contents of the last successful save
  tried,        \* history: contents saved since then without success
  spoilt,       \* history: that save could not be found again
  saves, fails, cuts

loop == <<at, end, done>>
hist == <<acked, tried, spoilt>>
vars == <<flash, bad, env, valid, pc, loop, hist, saves, fails, cuts>>

-----------------------------------------------------------------------------
\* The blocks of copy n, and how many of them readenv has read at block b.
Good(n) == (Area(n) .. Area(n) + EnvRange - 1) \ bad
Before(n, b) == Cardinality({c \in Good(n) : c < b})

\* The header is in the first one.
Copy(n) == flash[CHOOSE b \in Good(n) : Before(n, b) = 0].e

CopyOk(n) == \A i \in 1 .. Size : \E b \in Good(n) :
  /\ Before(n, b) = i - 1
  /\ flash[b].st = "part" /\ flash[b].k = i /\ flash[b].e.data = Copy(n).crc

\* Mutant: the wrap of the serial number is not special.
FirstIsNewerM(f, g) == f >= g
FirstIsNewer(f, g) ==
  \/ f = 0 /\ g = 255
  \/ f >= g /\ ~(f = 255 /\ g = 0)

\* The copy that env_relocate_spec uses, 0 for none.
Choice ==
  IF CopyOk(1) /\ CopyOk(2)
  THEN IF FirstIsNewer(Copy(1).flags, Copy(2).flags) THEN 1 ELSE 2
  ELSE IF CopyOk(1) THEN 1 ELSE IF CopyOk(2) THEN 2 ELSE 0

Loads == IF Choice = 0 THEN NoEnv ELSE Copy(Choice)

-----------------------------------------------------------------------------
\* Both areas as an earlier save left them, the second copy newer or older, or
\* a device never saved to.
Init ==
  /\ bad \in {b \in SUBSET Blocks : Cardinality(b) <= MaxBad}
  /\ \E f \in Serials, newer \in {1, 2}, used \in BOOLEAN, v \in Values :
       LET e(n) == Env(v, IF n = newer THEN (f + 1) % 256 ELSE f)
           holds(n, b) == b \in Good(n) /\ Before(n, b) < Size
       IN /\ flash = [b \in Blocks |->
               IF used /\ holds(1, b) THEN Part(Before(1, b) + 1, e(1))
               ELSE IF used /\ holds(2, b) THEN Part(Before(2, b) + 1, e(2))
               ELSE Erased]
          /\ acked = Loads.data
  /\ env = NoEnv /\ valid = 1 /\ pc = "off"
  /\ at = 0 /\ end = 0 /\ done = 0
  /\ tried = {} /\ spoilt = FALSE /\ saves = 0 /\ fails = 0 /\ cuts = 0

\* env_relocate
Boot ==
  /\ pc = "off" /\ pc' = "idle"
  /\ env' = Loads /\ valid' = IF Choice = 0 THEN 1 ELSE Choice
  /\ acked' = IF spoilt THEN acked ELSE Loads.data
  /\ tried' = IF spoilt THEN tried ELSE {}
  /\ UNCHANGED <<flash, bad, loop, spoilt, saves, fails, cuts>>

SetEnv(v) ==
  /\ pc = "idle" /\ v # env.data
  /\ env' = [env EXCEPT !.data = v, !.crc = v]
  /\ UNCHANGED <<flash, bad, valid, pc, loop, hist, saves, fails, cuts>>

\* A value too long for the environment: the old definition is gone, and the
\* error return is before env_crc_update.
SetTooLong(v) ==
  /\ pc = "idle" /\ v # env.data
  /\ env' = [env EXCEPT !.data = v]
  /\ UNCHANGED <<flash, bad, valid, pc, loop, hist, saves, fails, cuts>>

\* Mutant: the copy in use is erased.
TargetM == Area(valid)
Target == IF valid = 1 THEN Redund ELSE Offset

SaveEnv ==
  /\ pc = "idle" /\ saves < MaxSaves
  /\ env' = [env EXCEPT !.flags = (@ + 1) % 256]
  /\ at' = Target /\ end' = Target + EnvRange /\ done' = 0
  /\ pc' = "erase" /\ saves' = saves + 1 /\ tried' = tried \cup {env.data}
  /\ UNCHANGED <<flash, bad, valid, acked, spoilt, fails, cuts>>

\* nand_erase_opts: a bad block makes the range one block longer, and one that
\* cannot be erased is marked bad.
Erasing == pc = "erase" /\ at < end /\ at < NumBlocks

\* Mutant: a bad block is not stepped over.
EraseBlockM ==
  /\ Erasing
  /\ \/ at \in bad /\ UNCHANGED <<at, end, flash, bad, fails>>
     \/ at \notin bad /\ flash' = [flash EXCEPT ![at] = Erased] /\ at' = at + 1
        /\ UNCHANGED <<end, bad, fails>>
  /\ UNCHANGED <<env, valid, pc, done, hist, saves, cuts>>
EraseBlock ==
  /\ Erasing /\ at' = at + 1
  /\ \/ at \in bad /\ end' = end + 1 /\ UNCHANGED <<flash, bad, fails>>
     \/ /\ at \notin bad /\ flash' = [flash EXCEPT ![at] = Erased]
        /\ UNCHANGED <<end, bad, fails>>
     \/ /\ at \notin bad /\ fails < MaxFail /\ fails' = fails + 1
        /\ bad' = bad \cup {at} /\ flash' = [flash EXCEPT ![at] = Garbage]
        /\ UNCHANGED end
  /\ UNCHANGED <<env, valid, pc, done, hist, saves, cuts>>

EraseDone ==
  /\ pc = "erase" /\ ~(at < end /\ at < NumBlocks)
  /\ pc' = "write" /\ at' = Target /\ end' = Target + EnvRange
  /\ UNCHANGED <<flash, bad, env, valid, done, hist, saves, fails, cuts>>

\* writeenv
Writing == pc = "write" /\ done < Size /\ at < end

WriteBlock ==
  /\ Writing /\ at' = at + 1
  /\ IF at \in bad THEN UNCHANGED <<flash, done>>
     ELSE flash' = [flash EXCEPT ![at] = Part(done + 1, env)] /\ done' = done + 1
  /\ UNCHANGED <<bad, env, valid, pc, end, hist, saves, fails, cuts>>

\* A write that fails leaves the block as it is, not marked.
WriteFail ==
  /\ Writing /\ at \notin bad /\ fails < MaxFail /\ fails' = fails + 1
  /\ flash' = [flash EXCEPT ![at] = Garbage]
  /\ pc' = "idle"
  /\ UNCHANGED <<bad, env, valid, loop, hist, saves, cuts>>

\* The serial number is not ahead of that of the copy in use, but for the step
\* from 255 to 0: saves that failed in between took it over the wrap.
Ahead(f, g) == (f > g /\ ~(f = 255 /\ g = 0)) \/ (f = 0 /\ g = 255)
Jumped == CopyOk(valid) /\ ~Ahead(env.flags, Copy(valid).flags)

Saved == /\ valid' = 3 - valid /\ acked' = env.data /\ tried' = {}
         /\ spoilt' = (env.crc # env.data \/ Jumped)

SaveDone ==
  /\ pc = "write" /\ ~(done < Size /\ at < end) /\ pc' = "idle"
  /\ IF done = Size
     THEN Saved ELSE UNCHANGED <<valid, hist>>
  /\ UNCHANGED <<flash, bad, env, loop, saves, fails, cuts>>

\* Power is lost; the block under way is garbage.
Cut ==
  /\ pc # "off" /\ cuts < MaxCut /\ cuts' = cuts + 1 /\ pc' = "off"
  /\ \/ UNCHANGED flash
     \/ Erasing /\ at \notin bad /\ flash' = [flash EXCEPT ![at] = Garbage]
     \/ Writing /\ at \notin bad /\ flash' = [flash EXCEPT ![at] = Garbage]
  /\ UNCHANGED <<bad, env, valid, loop, hist, saves, fails>>

Step == EraseBlock \/ EraseDone \/ WriteBlock \/ WriteFail \/ SaveDone
Next == Boot \/ (\E v \in Values : SetEnv(v) \/ SetTooLong(v)) \/ SaveEnv \/ Step \/ Cut
Fairness == WF_vars(Step)
Spec == Init /\ [][Next]_vars /\ Fairness

-----------------------------------------------------------------------------
(* Properties.                                                             *)

Saving == pc \in {"erase", "write"}

\* Types.
TypeOK ==
  /\ bad \subseteq Blocks /\ DOMAIN flash = Blocks /\ valid \in {1, 2}
  /\ env.flags \in 0 .. 255 /\ pc \in {"off", "idle", "erase", "write"}
  /\ at \in 0 .. NumBlocks /\ done \in 0 .. Size /\ acked \in Values \cup {Default}

\* Behind the first area there is a block for each bad one that its erase can
\* meet.  The code does not look at this, and README:2451 of U-Boot asks only for
\* whole blocks: with less room the erase goes on into the second copy.
Roomy == Cardinality(bad \cap (Offset .. Redund - 1)) <= Redund - Offset - EnvRange

\* At every moment a boot would load what the last successful save saved, or
\* what a save since then was saving (env_nand.c: saveenv, env_relocate_spec);
\* not if that save had a stale checksum or jumped over the wrap (spoilt), nor
\* where the first area has no room for its bad blocks.
SavedIsFound == ~spoilt /\ Roomy => Loads.data \in {acked} \cup tried

\* While one copy is erased and written the other one is whole (README:2446), if
\* the first area has room for its bad blocks.
BackupWhole ==
  Saving /\ ~spoilt /\ Roomy /\ acked # Default => CopyOk(valid) /\ Copy(valid).data = acked

\* The copy that the next save spares is the one that a boot would choose.
SparesChosen == pc = "idle" /\ tried = {} /\ ~spoilt => Choice \in {0, valid}

\* A save returns.
SaveReturns == Saving ~> ~Saving
=============================================================================
