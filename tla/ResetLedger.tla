----------------------------- MODULE ResetLedger -----------------------------
(***************************************************************************)
(* What password recovery promises: an account has a password and at most  *)
(* one live reset token; issuing a token voids the earlier one, a reset    *)
(* spends the live one, and deleting the account takes its tokens along.   *)
(***************************************************************************)
CONSTANTS Users, Tokens, Passwords, Nil

VARIABLES
  password,  \* the password of each account, Nil once it is deleted
  ticket     \* the owner of each token in the ledger and whether it is live

vars == <<password, ticket>>

Ticket == [owner : Users, live : BOOLEAN]

Init ==
  /\ password \in [Users -> Passwords]
  /\ ticket = [t \in Tokens |-> Nil]

LiveTickets(u) == {t \in Tokens : ticket[t] # Nil /\ ticket[t].owner = u /\ ticket[t].live}

Issue(u, t) ==
  /\ password[u] # Nil
  /\ ticket[t] = Nil
  /\ ticket' = [o \in Tokens |->
                  IF o = t THEN [owner |-> u, live |-> TRUE]
                  ELSE IF o \in LiveTickets(u) THEN [owner |-> u, live |-> FALSE]
                  ELSE ticket[o]]
  /\ UNCHANGED password

Reset(u, t, p) ==
  /\ password[u] # Nil
  /\ t \in LiveTickets(u)
  /\ ticket' = [ticket EXCEPT ![t] = [owner |-> u, live |-> FALSE]]
  /\ password' = [password EXCEPT ![u] = p]

Delete(u) ==
  /\ password[u] # Nil
  /\ password' = [password EXCEPT ![u] = Nil]
  /\ ticket' = [t \in Tokens |-> IF ticket[t] # Nil /\ ticket[t].owner = u THEN Nil ELSE ticket[t]]

Next ==
  \E u \in Users :
    \/ Delete(u)
    \/ \E t \in Tokens : Issue(u, t)
    \/ \E t \in Tokens, p \in Passwords : Reset(u, t, p)

Spec == Init /\ [][Next]_vars
=============================================================================
