--------------------------- MODULE MCWebSession ---------------------------
(* WebSession for TLC.  Liveness rules out symmetry.                       *)
EXTENDS WebSession
=============================================================================
