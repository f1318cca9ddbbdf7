---------------------------- MODULE LinkRegistry ----------------------------
(***************************************************************************)
(* What linking promises: a user has each e-mail address linked at most    *)
(* once, a browser flow yields at most one link, and a link whose provider *)
(* lets tokens be revoked is removed only after that was asked for.        *)
(***************************************************************************)
CONSTANTS Users, Emails, Flows, Grants, BrowserProviders, Providers, Revocable, Nil

VARIABLES
  claim,  \* the link made with each grant, if it is in the registry
  spent,  \* browser flows that have yielded a link
  asked   \* grants whose revocation was asked for

vars == <<claim, spent, asked>>

Claim == [user : Users, email : Emails, provider : Providers, flow : Flows]

Init ==
  /\ claim = [g \in Grants |-> Nil]
  /\ spent = {}
  /\ asked = {}

Link(g, c) ==
  /\ g \notin asked
  /\ claim[g] = Nil /\ claim' = [claim EXCEPT ![g] = c]
  /\ \A h \in Grants : claim[h] # Nil => ~(claim[h].user = c.user /\ claim[h].email = c.email)
  /\ c.flow \notin spent
  /\ spent' = IF c.provider \in BrowserProviders THEN spent \cup {c.flow} ELSE spent
  /\ UNCHANGED asked

Ask(g) ==
  /\ claim[g] # Nil
  /\ claim[g].provider \in Revocable
  /\ asked' = asked \cup {g}
  /\ UNCHANGED <<claim, spent>>

Removable(g) == claim[g] # Nil /\ (claim[g].provider \in Revocable => g \in asked)

Remove(S) ==
  /\ \A g \in S : Removable(g)
  /\ claim' = [g \in Grants |-> IF g \in S THEN Nil ELSE claim[g]]
  /\ UNCHANGED <<spent, asked>>

\* One link is unlinked, or all of a user's go with the account, or all that
\* one provider account has anywhere.
Unlink(g) == Remove({g})
CloseAccount(u) == Remove({g \in Grants : claim[g] # Nil /\ claim[g].user = u})
Forget(p, e) == Remove({g \in Grants : claim[g] # Nil /\ claim[g].provider = p /\ claim[g].email = e})

Next ==
  \/ \E g \in Grants : Ask(g) \/ Unlink(g) \/ \E c \in Claim : Link(g, c)
  \/ \E u \in Users : CloseAccount(u)
  \/ \E p \in Providers, e \in Emails : Forget(p, e)

Spec == Init /\ [][Next]_vars
=============================================================================
