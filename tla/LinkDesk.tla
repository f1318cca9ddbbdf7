------------------------------ MODULE LinkDesk ------------------------------
(***************************************************************************)
(* What linking promises to clients that do not wait for each other: a     *)
(* mailbox is linked with a grant nobody redeemed before, through the      *)
(* browser only to who started the flow and found it open; that link       *)
(* closes its flow, while a device link closes, some time after it, those  *)
(* its user has left at the provider, and a client that made none closes   *)
(* nothing; a user has each address at most once; nobody unlinks a grant   *)
(* before its revocation was asked for; and an account takes its links and *)
(* its flows along.                                                        *)
(***************************************************************************)
CONSTANTS Users, Requests, Emails, Flows, Grants, BrowserProviders, DeviceProviders, Revocable, Nil

VARIABLES
  account,  \* users that have an account
  flow,     \* who started each flow, where, and whether there is anything to go on with
  state,    \* whether each flow is "none", "fresh" or "stale"
  grant,    \* the flow and address of each consent, and whether it was redeemed
  claim,    \* the grant each client came with, for whom, and how far it has got
  link,     \* whose link each grant is
  asked     \* grants whose revocation was asked for

vars == <<account, flow, state, grant, claim, link, asked>>

Providers == BrowserProviders \cup DeviceProviders
Claim == [grant : Grants, user : Users, stage : {"handed", "redeemed", "linked"}]

Init ==
  /\ account = Users
  /\ flow = [s \in Flows |-> Nil]
  /\ state = [s \in Flows |-> "none"]
  /\ grant = [g \in Grants |-> Nil]
  /\ claim = [r \in Requests |-> Nil]
  /\ link = [g \in Grants |-> Nil]
  /\ asked = {}

Initiator(g) == flow[grant[g].flow].user
Provider(g) == flow[grant[g].flow].provider
StartedBy(u) == {s \in Flows : flow[s] # Nil /\ flow[s].user = u}

Start(u, s, p) ==
  /\ u \in account
  /\ flow[s] = Nil
  /\ \E offered \in BOOLEAN :
       flow' = [flow EXCEPT ![s] = [user |-> u, provider |-> p, offered |-> offered]]
  /\ state' = [state EXCEPT ![s] = "fresh"]
  /\ UNCHANGED <<account, grant, claim, link, asked>>

Lapse(s) ==
  /\ state[s] = "fresh"
  /\ state' = [state EXCEPT ![s] = "stale"]
  /\ UNCHANGED <<account, flow, grant, claim, link, asked>>

Consent(g, s, e) ==
  /\ flow[s] # Nil /\ flow[s].offered
  /\ grant[g] = Nil
  /\ flow[s].provider \in DeviceProviders => \A h \in Grants : grant[h] # Nil => grant[h].flow # s
  /\ grant' = [grant EXCEPT ![g] = [flow |-> s, email |-> e, status |-> "code"]]
  /\ UNCHANGED <<account, flow, state, claim, link, asked>>

Claims(r, u, g, stage) == claim[r] = [grant |-> g, user |-> u, stage |-> stage]
Advance(r, u, g, stage) == claim' = [claim EXCEPT ![r] = [grant |-> g, user |-> u, stage |-> stage]]
GiveUp(r) == claim' = [claim EXCEPT ![r] = Nil]

\* Whoever has a device code may use it.
HandIn(r, u, g) ==
  /\ claim[r] = Nil
  /\ u \in account
  /\ grant[g] # Nil
  /\ Provider(g) \in BrowserProviders => Initiator(g) = u /\ state[grant[g].flow] = "fresh"
  /\ Advance(r, u, g, "handed")
  /\ UNCHANGED <<account, flow, state, grant, link, asked>>

\* What is redeemed may be lost.
Redeem(r, u, g) ==
  /\ Claims(r, u, g, "handed")
  /\ grant[g].status = "code"
  /\ grant' = [grant EXCEPT ![g].status = "tokens"]
  /\ Advance(r, u, g, "redeemed") \/ GiveUp(r)
  /\ UNCHANGED <<account, flow, state, link, asked>>

Link(r, u, g) ==
  /\ Claims(r, u, g, "redeemed")
  /\ u \in account
  /\ \A h \in Grants : link[h] = u => grant[h].email # grant[g].email
  /\ link' = [link EXCEPT ![g] = u]
  /\ IF Provider(g) \in BrowserProviders
     THEN state' = [state EXCEPT ![grant[g].flow] = "none"] /\ GiveUp(r)
     ELSE state' = state /\ Advance(r, u, g, "linked")
  /\ UNCHANGED <<account, flow, grant, asked>>

Sweep(r, u, g) ==
  /\ Claims(r, u, g, "linked")
  /\ state' = [s \in Flows |-> IF s \in StartedBy(u) /\ flow[s].provider = Provider(g)
                               THEN "none" ELSE state[s]]
  /\ GiveUp(r)
  /\ UNCHANGED <<account, flow, grant, link, asked>>

Withdraw(r) ==
  /\ GiveUp(r)
  /\ UNCHANGED <<account, flow, state, grant, link, asked>>

Ask(g) ==
  /\ grant[g] # Nil /\ grant[g].status = "tokens"
  /\ Provider(g) \in Revocable
  /\ asked' = asked \cup {g}
  /\ UNCHANGED <<account, flow, state, grant, claim, link>>

Unlink(g) ==
  /\ link[g] # Nil
  /\ Provider(g) \in Revocable => g \in asked
  /\ link' = [link EXCEPT ![g] = Nil]
  /\ UNCHANGED <<account, flow, state, grant, claim, asked>>

\* All that one provider account has anywhere goes.
Forget(p, e) ==
  /\ link' = [g \in Grants |-> IF link[g] # Nil /\ Provider(g) = p /\ grant[g].email = e
                               THEN Nil ELSE link[g]]
  /\ UNCHANGED <<account, flow, state, grant, claim, asked>>

Close(u) ==
  /\ account' = account \ {u}
  /\ link' = [g \in Grants |-> IF link[g] = u THEN Nil ELSE link[g]]
  /\ state' = [s \in Flows |-> IF s \in StartedBy(u) THEN "none" ELSE state[s]]
  /\ UNCHANGED <<flow, grant, claim, asked>>

Next ==
  \/ \E u \in Users : Close(u) \/ \E s \in Flows, p \in Providers : Start(u, s, p)
  \/ \E s \in Flows : Lapse(s) \/ \E g \in Grants, e \in Emails : Consent(g, s, e)
  \/ \E g \in Grants : Ask(g) \/ Unlink(g)
  \/ \E r \in Requests, u \in Users, g \in Grants :
       HandIn(r, u, g) \/ Redeem(r, u, g) \/ Link(r, u, g) \/ Sweep(r, u, g)
  \/ \E r \in Requests : Withdraw(r)
  \/ \E p \in Providers, e \in Emails : Forget(p, e)

Spec == Init /\ [][Next]_vars
=============================================================================
