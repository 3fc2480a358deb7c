------------------------------ MODULE MCUbiEba ------------------------------
(* Logical eraseblocks are interchangeable: nothing orders them.           *)
EXTENDS UbiEba, TLC

Alike == Permutations(Lebs)
=============================================================================
