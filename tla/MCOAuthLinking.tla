--------------------------- MODULE MCOAuthLinking ---------------------------
(* OAuthLinking with the symmetry of its request slots, flows, grants and   *)
(* mailboxes.                                                               *)
EXTENDS OAuthLinking, TLC

Symmetry == Permutations(Requests) \cup Permutations(Flows) \cup Permutations(Grants)
            \cup Permutations(Emails) \cup Permutations(Users)
=============================================================================
