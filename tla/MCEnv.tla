------------------------------- MODULE MCEnv --------------------------------
(***************************************************************************)
(* The two builds of the redundant environment, on NAND or on NOR, with    *)
(* what they have in common in the same variables.                         *)
(***************************************************************************)
EXTENDS EnvNand

CONSTANT FlagBits      \* the bits of the flag of a copy on NOR
VARIABLES kind, copy, cur

\* What an erase or a cut leaves in a sector of NOR flash is no environment.
ASSUME MarkAssumption == {"erased", "torn"} \cap (Values \cup {Default}) = {}

\* An erased flag is not an active one.
ASSUME FlagAssumption == 0 \in FlagBits /\ FlagBits # {0}

Nor == INSTANCE EnvFlash

nand == <<flash, bad, valid, loop>>
nor  == <<copy, cur>>

MCInit == \/ kind = "nand" /\ Init /\ copy = <<>> /\ cur = 1
          \/ /\ kind = "nor" /\ Nor!Init
             /\ flash = <<>> /\ bad = {} /\ valid = 1 /\ at = 0 /\ end = 0 /\ done = 0

MCNext == /\ UNCHANGED kind
          /\ \/ kind = "nand" /\ Next /\ UNCHANGED nor
             \/ kind = "nor" /\ Nor!Next /\ UNCHANGED nand

MCSpec == /\ MCInit /\ [][MCNext]_<<vars, kind, nor>>
          /\ WF_<<vars, kind, nor>>(kind = "nand" /\ Step /\ UNCHANGED <<kind, nor>>)
          /\ WF_<<vars, kind, nor>>(kind = "nor" /\ Nor!Step /\ UNCHANGED <<kind, nand>>)

\* A boot would find what the last successful save saved (saveenv of either build).
SaveIsFound == IF kind = "nand" THEN SavedIsFound ELSE Nor!SavedIsFound

\* The copy not being written is whole.
Backup == IF kind = "nand" THEN BackupWhole ELSE Nor!BackupWhole

\* The next save spares the copy that a boot would choose; and the types.
Spares == IF kind = "nand" THEN TypeOK /\ SparesChosen ELSE Nor!TypeOK /\ Nor!SparesChosen

\* Saves, and the repairs of a boot, come to their end (saveenv).
Returns == pc \notin {"off", "idle"} ~> pc \in {"off", "idle"}
=============================================================================
