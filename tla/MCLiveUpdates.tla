--------------------------- MODULE MCLiveUpdates ---------------------------
(* Connections to one API process.                                         *)
EXTENDS LiveUpdates

CONSTANTS c1, c2, c3, c4
=============================================================================
