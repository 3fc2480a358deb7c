--------------------------- MODULE MCBadBlockTable --------------------------
(***************************************************************************)
(* BadBlockTable for TLC: a small chip with three blocks for the tables.   *)
(***************************************************************************)
EXTENDS BadBlockTable

MCFactory == {{}, {0}, {4}, {1, 4, 5}}
=============================================================================
