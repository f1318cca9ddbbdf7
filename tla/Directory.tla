----------------------------- MODULE Directory -----------------------------
(***************************************************************************)
(* What registration promises: a name and an address belong to one account *)
(* at a time; an account is verified only after an invitation for it went  *)
(* to its own address, and stays so; it leaves in one step, with its       *)
(* invitations, and an account that left never comes back.                 *)
(***************************************************************************)
CONSTANTS Users, Names, Addresses, Nil

VARIABLES
  entry,    \* each account: its name, its address, whether that is verified
  invited,  \* the accounts whose address received a link for them
  former    \* every account that ever was

vars == <<entry, invited, former>>

Init ==
  /\ entry = [u \in Users |-> Nil]
  /\ invited = {}
  /\ former = {}

Taken(n, a) == \E v \in Users : entry[v] # Nil /\ (entry[v].name = n \/ entry[v].address = a)

Enrol(u, n, a) ==
  /\ u \notin former
  /\ ~Taken(n, a)
  /\ entry' = [entry EXCEPT ![u] = [name |-> n, address |-> a, verified |-> FALSE]]
  /\ former' = former \cup {u}
  /\ UNCHANGED invited

Invite(u) ==
  /\ entry[u] # Nil
  /\ invited' = invited \cup {u}
  /\ UNCHANGED <<entry, former>>

Verify(u) ==
  /\ entry[u] # Nil
  /\ u \in invited
  /\ entry' = [entry EXCEPT ![u] = [name |-> @.name, address |-> @.address, verified |-> TRUE]]
  /\ UNCHANGED <<invited, former>>

Leave(u) ==
  /\ entry' = [entry EXCEPT ![u] = Nil]
  /\ invited' = invited \ {u}
  /\ UNCHANGED former

Next ==
  \E u \in Users :
    \/ \E n \in Names, a \in Addresses : Enrol(u, n, a)
    \/ Invite(u)
    \/ Verify(u)
    \/ Leave(u)

Spec == Init /\ [][Next]_vars
=============================================================================
