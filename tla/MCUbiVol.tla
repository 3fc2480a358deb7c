------------------------------ MODULE MCUbiVol ------------------------------
EXTENDS UbiVol
=============================================================================
