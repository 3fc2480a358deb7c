--------------------------- MODULE BadBlockStore ----------------------------
(***************************************************************************)
(* What the flash driver promises of bad block marks: a set that survives  *)
(* power loss and only grows, and a copy of it that the running system     *)
(* consults and that may be one mark ahead.  On a faulty store, one that   *)
(* has no block for one of its tables or where a flash operation has       *)
(* failed, a mark may be lost by a restart, but the running system still   *)
(* forgets none.                                                           *)
(***************************************************************************)
CONSTANT Blocks

VARIABLES
  durable,   \* the bad blocks a boot will know of
  known,     \* the bad blocks the running system knows of
  up,        \* the system is running
  faulty     \* a flash operation has failed, or the store never was whole

Init == durable \subseteq Blocks /\ known = {} /\ up = FALSE /\ faulty \in BOOLEAN

Start   == ~up /\ up' = TRUE /\ known' = durable /\ UNCHANGED durable
Learn(b) == up /\ known = durable /\ known' = known \cup {b} /\ UNCHANGED <<durable, up>>
Persist == up /\ durable' = known /\ UNCHANGED <<known, up>>
Cut     == up' = FALSE /\ known' = {} /\ UNCHANGED durable

Sound == Start \/ (\E b \in Blocks : Learn(b)) \/ Persist \/ Cut

Fault == /\ faulty' = TRUE
         /\ durable' \in SUBSET Blocks /\ known' \in SUBSET Blocks
         /\ up /\ up' => known \subseteq known'

Next == (Sound /\ UNCHANGED faulty) \/ Fault

Spec == Init /\ [][Next]_<<durable, known, up, faulty>>
=============================================================================
