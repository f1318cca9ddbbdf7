----------------------------- MODULE MCDiscovery -----------------------------
(* Discovery for TLC.                                                      *)
EXTENDS Discovery, TLC

Symmetry == Permutations(Requests) \cup Permutations(Users)
=============================================================================
