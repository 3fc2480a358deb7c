------------------------------- MODULE MCNand -------------------------------
(***************************************************************************)
(* A behaviour is one of the device's operations or one of the transfers   *)
(* around bad blocks.                                                      *)
(***************************************************************************)
EXTENDS NandIo, NandSkip

VARIABLE kind

MCInit == \/ /\ kind = "io" /\ Init
             /\ badBlocks = {} /\ step = "idle" /\ start = 0 /\ asked = 0 /\ length = 0
             /\ offset = 0 /\ incl = 0 /\ excl = 0 /\ left = 0 /\ moved = <<>>
             /\ result = 0 /\ fewer = FALSE /\ ended = FALSE
          \/ kind = "skip" /\ SkipInit /\ Init

MCNext == /\ UNCHANGED kind
          /\ \/ kind = "io" /\ Next /\ UNCHANGED skip
             \/ kind = "skip" /\ SkipNext /\ UNCHANGED vars

MCSpec == /\ MCInit /\ [][MCNext]_<<vars, skip, kind>>
          /\ WF_<<vars, skip, kind>>(kind = "io" /\ Step /\ UNCHANGED <<skip, kind>>)
          /\ WF_<<vars, skip, kind>>(kind = "skip" /\ SkipStep /\ UNCHANGED <<vars, kind>>)

\* Every reachable state has the right types.
Types == TypeOK /\ SkipTypeOK

\* Calls of either kind come to their end, the endless skipping apart.
Ends == Returns /\ SkipReturns
=============================================================================
