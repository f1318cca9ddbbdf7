------------------------------ MODULE ResetDesk ------------------------------
(***************************************************************************)
(* What password recovery promises to clients that do not wait for each    *)
(* other: a password changes only by a claim, and a claim is accepted only *)
(* on a delivered token that is live at that moment; it pays for one       *)
(* change and voids the token.  A new token voids those that were there    *)
(* when it was ordered, and deleting an account takes its tokens along.    *)
(***************************************************************************)
CONSTANTS Users, Requests, Tokens, Passwords, Nil

VARIABLES
  password,   \* the password of each account, Nil once it is deleted
  ticket,     \* the owner of each token and whether it is live
  delivered,  \* tokens that reached their owner
  claim,      \* the token each client has handed in
  order       \* for whom each client has ordered a token, and what that replaces

vars == <<password, ticket, delivered, claim, order>>

Ticket == [owner : Users, live : BOOLEAN]
Slip == [owner : Users, replaces : SUBSET Tokens]

Init ==
  /\ password \in [Users -> Passwords]
  /\ ticket = [t \in Tokens |-> Nil]
  /\ delivered = {}
  /\ claim = [r \in Requests |-> Nil]
  /\ order = [r \in Requests |-> Nil]

Free(r) == claim[r] = Nil /\ order[r] = Nil
TicketsOf(u) == {t \in Tokens : ticket[t] # Nil /\ ticket[t].owner = u}

Order(r, u) ==
  /\ Free(r)
  /\ order' = [order EXCEPT ![r] = [owner |-> u, replaces |-> TicketsOf(u)]]
  /\ UNCHANGED <<password, ticket, delivered, claim>>

Issue(r, u, t) ==
  /\ order[r] # Nil /\ order[r].owner = u
  /\ password[u] # Nil
  /\ ticket[t] = Nil
  /\ ticket' = [o \in Tokens |->
                  IF o = t THEN [owner |-> u, live |-> TRUE]
                  ELSE IF ticket[o] # Nil /\ o \in order[r].replaces
                       THEN [owner |-> ticket[o].owner, live |-> FALSE]
                       ELSE ticket[o]]
  /\ order' = [order EXCEPT ![r] = Nil]
  /\ UNCHANGED <<password, delivered, claim>>

Deliver(t) ==
  /\ ticket[t] # Nil
  /\ delivered' = delivered \cup {t}
  /\ UNCHANGED <<password, ticket, claim, order>>

Claim(r, t) ==
  /\ Free(r)
  /\ t \in delivered
  /\ ticket[t] # Nil /\ ticket[t].live
  /\ claim' = [claim EXCEPT ![r] = t]
  /\ UNCHANGED <<password, ticket, delivered, order>>

Pay(r, u, t, p) ==
  /\ claim[r] = t
  /\ ticket[t] # Nil /\ ticket[t].owner = u
  /\ password[u] # Nil
  /\ password' = [password EXCEPT ![u] = p]
  /\ ticket' = [ticket EXCEPT ![t] = [owner |-> u, live |-> FALSE]]
  /\ claim' = [claim EXCEPT ![r] = Nil]
  /\ UNCHANGED <<delivered, order>>

\* Claims and orders that come to nothing.
Withdraw(S) ==
  /\ claim' = [r \in Requests |-> IF r \in S THEN Nil ELSE claim[r]]
  /\ order' = [r \in Requests |-> IF r \in S THEN Nil ELSE order[r]]
  /\ UNCHANGED <<password, ticket, delivered>>

Delete(u) ==
  /\ password[u] # Nil
  /\ password' = [password EXCEPT ![u] = Nil]
  /\ ticket' = [t \in Tokens |-> IF t \in TicketsOf(u) THEN Nil ELSE ticket[t]]
  /\ UNCHANGED <<delivered, claim, order>>

Next ==
  \/ \E u \in Users :
       \/ Delete(u)
       \/ \E r \in Requests :
            \/ Order(r, u)
            \/ \E t \in Tokens : Issue(r, u, t) \/ \E p \in Passwords : Pay(r, u, t, p)
  \/ \E t \in Tokens : Deliver(t) \/ \E r \in Requests : Claim(r, t)
  \/ \E S \in SUBSET Requests : Withdraw(S)

Spec == Init /\ [][Next]_vars
=============================================================================
