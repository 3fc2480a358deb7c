----------------------------- MODULE MCUpgFlash -----------------------------
(***************************************************************************)
(* UpgFlash for TLC: pages of 4 bytes, blocks of 2 pages, slices of 3      *)
(* pages, so that slices straddle blocks.                                  *)
(***************************************************************************)
EXTENDS UpgFlash

MCInitBad == {{}, {1}, {3}, {0, 2}}
=============================================================================
