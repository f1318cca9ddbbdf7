--------------------------- MODULE MCRegistration ---------------------------
(* Registration for TLC.                                                   *)
EXTENDS Registration, TLC

Symmetry == Permutations(Users) \cup Permutations(Names) \cup Permutations(Addresses)
            \cup Permutations(Requests)
=============================================================================
