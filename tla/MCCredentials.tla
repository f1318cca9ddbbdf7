--------------------------- MODULE MCCredentials ---------------------------
(* Credentials for TLC: the symmetry of its users, request slots and      *)
(* passwords, for runs that check safety only.                              *)
EXTENDS Credentials, TLC

Symmetry == Permutations(Users) \cup Permutations(Requests) \cup Permutations(Passwords)
=============================================================================
