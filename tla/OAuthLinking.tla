---------------------------- MODULE OAuthLinking ----------------------------
(***************************************************************************)
(* Linking mailboxes to an account over OAuth: the state rows of flows     *)
(* under way, the callback and the device-code poll that end in a link,    *)
(* unlinking, the account deletion and Meta's data-deletion callback that  *)
(* take links away, and the providers they talk to.                        *)
(*                                                                         *)
(* Requests are transactions as in Credentials: READ COMMITTED, row locks  *)
(* until COMMIT, the last statement and its COMMIT in one step.  A call to *)
(* a provider and the SELECT after it are one step too: the provider's     *)
(* answer depends on nothing another request can change meanwhile.  Any    *)
(* open transaction may be rolled back at any moment: by a restart, a lost *)
(* connection or as the victim of a deadlock.                              *)
(*                                                                         *)
(* A grant is one consent a person gives at a provider for a flow: first a *)
(* code, then, once, tokens.  A link row is named by the grant whose       *)
(* tokens it keeps.  A definition marked faulty is used by no other.       *)
(***************************************************************************)
EXTENDS Integers, FiniteSets

CONSTANTS
  Users, Requests, Emails,
  Flows,            \* ids of flows, each the `state' of its oauth_states row
  Grants,
  BrowserProviders, \* providers with FlowType.LOOPBACK
  DeviceProviders,  \* providers with FlowType.DEVICE_CODE
  Revocable,        \* providers try_revoke_token has a call for
  Meta,
  Nil

Providers == BrowserProviders \cup DeviceProviders

ASSUME ProvidersAssumption ==
  /\ BrowserProviders \cap DeviceProviders = {}
  /\ Revocable \subseteq Providers
  /\ Meta \in BrowserProviders
ASSUME RowsAssumption == Flows \cap Grants = {}

VARIABLES
  account,     \* users that have an account
  oauthState,  \* oauth_states: whose flow, at which provider, still unexpired
  flow,        \* what initiate_oauth was called with, and whether the client got
               \* the authorize URL or device code
  grant,       \* the provider's side of each grant
  link,        \* linked_emails: whose link keeps the tokens of each grant
  req,         \* the local state of each request slot
  asked,       \* history: grants the server asked the provider to revoke
  made         \* history: links made from each flow, up to 2

tables == <<account, oauthState, link>>
vars == <<account, oauthState, flow, grant, link, req, asked, made>>

StateRow == [user : Users, provider : Providers, fresh : BOOLEAN]
Flow == [user : Users, provider : Providers, offered : BOOLEAN]
Grant == [flow : Flows, email : Emails, status : {"code", "tokens"}]

ASSUME NilAssumption ==
  /\ Nil \notin Users \cup Emails \cup Flows \cup Grants
  /\ Nil \notin StateRow /\ Nil \notin Flow /\ Nil \notin Grant

Steps == {"idle", "dropState", "obtain", "insert", "refresh", "cleanup", "unlink",
          "revokeUser", "flush", "cascade", "revokeMeta"}

Local == [at : Steps, user : Users \cup {Nil}, grant : Grants \cup {Nil},
          email : Emails \cup {Nil}, todo : SUBSET (Flows \cup Grants),
          held : SUBSET (Flows \cup Grants)]

Idle == [at |-> "idle", user |-> Nil, grant |-> Nil, email |-> Nil, todo |-> {}, held |-> {}]

TypeOK ==
  /\ account \subseteq Users
  /\ oauthState \in [Flows -> StateRow \cup {Nil}]
  /\ flow \in [Flows -> Flow \cup {Nil}]
  /\ grant \in [Grants -> Grant \cup {Nil}]
  /\ link \in [Grants -> Users \cup {Nil}]
  /\ req \in [Requests -> Local]
  /\ asked \subseteq Grants
  /\ made \in [Flows -> 0 .. 2]

Init ==
  /\ account = Users
  /\ oauthState = [s \in Flows |-> Nil]
  /\ flow = [s \in Flows |-> Nil]
  /\ grant = [g \in Grants |-> Nil]
  /\ link = [g \in Grants |-> Nil]
  /\ req = [r \in Requests |-> Idle]
  /\ asked = {}
  /\ made = [s \in Flows |-> 0]

-----------------------------------------------------------------------------
(* Rows and locks                                                          *)

FlowOf(g) == grant[g].flow
ProviderOf(g) == flow[FlowOf(g)].provider

LinksOf(u) == {g \in Grants : link[g] = u}
StatesOf(u) == {s \in Flows : oauthState[s] # Nil /\ oauthState[s].user = u}
StatesAt(u, p) == {s \in StatesOf(u) : oauthState[s].provider = p}
MetaLinks(e) == {g \in Grants : link[g] # Nil /\ ProviderOf(g) = Meta /\ grant[g].email = e}

Present(x) == \/ x \in Flows /\ oauthState[x] # Nil
              \/ x \in Grants /\ link[x] # Nil

\* Faulty RowsOf: the foreign key of oauth_states without ON DELETE CASCADE.
LinkRowsOf(u) == LinksOf(u)
\* The rows that ON DELETE CASCADE takes along with user u.
RowsOf(u) == LinksOf(u) \cup StatesOf(u)

\* Faulty SameMailbox: no unique constraint.
NoMailbox(u, e) == {}
\* The links that the unique constraint on user and address sees.
SameMailbox(u, e) == {g \in LinksOf(u) : grant[g].email = e}

\* No other open transaction has locked one of the rows S.
Free(r, S) == \A s \in Requests \ {r} : req[s].held \cap S = {}

\* No open deletion has locked the row of user u: a row that refers to u may be
\* inserted, or the user deleted.
UserFree(r, u) == \A s \in Requests \ {r} : ~(req[s].at = "cascade" /\ req[s].user = u)

Begin(r, local) == req[r].at = "idle" /\ req' = [req EXCEPT ![r] = local]
Goto(r, local) == req' = [req EXCEPT ![r] = local]
Finish(r) == req' = [req EXCEPT ![r] = Idle]
Abort(r) == Finish(r) /\ UNCHANGED <<tables, flow, grant, asked, made>>

\* Faulty WithoutStates: ON DELETE SET NULL.
StatesOrphaned(S) == [s \in Flows |-> IF s \in S THEN [oauthState[s] EXCEPT !.user = Nil] ELSE oauthState[s]]
\* Faulty WithoutStates: a DELETE that matches nothing.
StatesKept(S) == oauthState

WithoutLinks(S) == [g \in Grants |-> IF g \in S THEN Nil ELSE link[g]]
WithoutStates(S) == [s \in Flows |-> IF s \in S THEN Nil ELSE oauthState[s]]

-----------------------------------------------------------------------------
(* initiate_oauth, and the person at the provider                          *)

\* The row is committed before the device code is asked for: when that fails
\* the row stays and the client has nothing to poll with.
Initiate(u, s, p) ==
  /\ u \in account
  /\ \A r \in Requests : ~(req[r].at = "cascade" /\ req[r].user = u)
  /\ flow[s] = Nil
  /\ oauthState' = [oauthState EXCEPT ![s] = [user |-> u, provider |-> p, fresh |-> TRUE]]
  /\ \E offered \in BOOLEAN :
       /\ p \in BrowserProviders => offered
       /\ flow' = [flow EXCEPT ![s] = [user |-> u, provider |-> p, offered |-> offered]]
  /\ UNCHANGED <<account, grant, link, req, asked, made>>

\* Ten minutes go by.
Expire(s) ==
  /\ oauthState[s] # Nil /\ oauthState[s].fresh
  /\ oauthState' = [oauthState EXCEPT ![s].fresh = FALSE]
  /\ UNCHANGED <<account, flow, grant, link, req, asked, made>>

\* An authorize URL can be opened any number of times and with any mailbox; a
\* device code is granted once.
Consent(g, s, e) ==
  /\ flow[s] # Nil /\ flow[s].offered /\ grant[g] = Nil
  /\ flow[s].provider \in DeviceProviders => \A h \in Grants : grant[h] # Nil => FlowOf(h) # s
  /\ grant' = [grant EXCEPT ![g] = [flow |-> s, email |-> e, status |-> "code"]]
  /\ UNCHANGED <<tables, flow, req, asked, made>>

-----------------------------------------------------------------------------
(* handle_oauth_callback                                                   *)

\* Faulty StateMatches: any user's state will do.
StateMatchesAnyone(s, u, p) == oauthState[s] # Nil /\ oauthState[s].provider = p /\ oauthState[s].fresh

StateMatches(s, u, p) ==
  /\ oauthState[s] # Nil
  /\ oauthState[s].user = u /\ oauthState[s].provider = p
  /\ oauthState[s].fresh

\* The client hands in the redirect of grant g, perhaps logged in as somebody
\* else by now, perhaps again.
Callback(r, u, g) ==
  /\ u \in account
  /\ grant[g] # Nil /\ ProviderOf(g) \in BrowserProviders
  /\ StateMatches(FlowOf(g), u, ProviderOf(g))
  /\ Begin(r, [Idle EXCEPT !.at = "dropState", !.user = u, !.grant = g])
  /\ UNCHANGED <<tables, flow, grant, asked, made>>

\* Faulty DropState: the deletion is committed at once.
DropStateAtOnce(r) ==
  /\ req[r].at = "dropState"
  /\ Free(r, {FlowOf(req[r].grant)})
  /\ Goto(r, [req[r] EXCEPT !.at = "obtain"])
  /\ oauthState' = WithoutStates({FlowOf(req[r].grant)})
  /\ UNCHANGED <<account, link, flow, grant, asked, made>>

\* A DELETE that waited for another callback of the same flow finds no row, and
\* nobody looks at its row count.
DropState(r) ==
  LET s == FlowOf(req[r].grant) IN
  /\ req[r].at = "dropState"
  /\ Free(r, {s})
  /\ Goto(r, [req[r] EXCEPT !.at = "obtain", !.held = IF Present(s) THEN {s} ELSE {}])
  /\ UNCHANGED <<tables, flow, grant, asked, made>>

\* Tokens in hand and the mailbox not linked yet, the request goes on to insert;
\* without a usable answer, or with a mailbox linked before, it ends, and the
\* provider may have issued the tokens nevertheless.
Tokens(r, local, g) ==
  /\ grant[g].status = "code"
  /\ grant' = [grant EXCEPT ![g].status = "tokens"]
  /\ \/ /\ SameMailbox(local.user, grant[g].email) = {}
        /\ Goto(r, [local EXCEPT !.at = "insert"])
     \/ Finish(r)

\* The code is exchanged, the user info fetched (or read from the ID token, its
\* nonce compared) and the duplicate looked for.
Obtain(r) ==
  /\ req[r].at = "obtain"
  /\ \/ Tokens(r, req[r], req[r].grant)
     \/ Finish(r) /\ UNCHANGED grant
  /\ UNCHANGED <<tables, flow, asked, made>>

InsertLink(r) ==
  LET me == req[r]
      g == me.grant
      s == FlowOf(g)
  IN
  /\ me.at = "insert"
  /\ UserFree(r, me.user)
  /\ Free(r, SameMailbox(me.user, grant[g].email))
  /\ \/ /\ me.user \notin account \/ SameMailbox(me.user, grant[g].email) # {}
        /\ Abort(r)
     \/ /\ me.user \in account
        /\ SameMailbox(me.user, grant[g].email) = {}
        /\ link' = [link EXCEPT ![g] = me.user]
        /\ oauthState' = WithoutStates(me.held)
        /\ made' = [made EXCEPT ![s] = IF @ < 2 THEN @ + 1 ELSE @]
        /\ IF ProviderOf(g) \in DeviceProviders
           THEN Goto(r, [me EXCEPT !.at = "refresh"])
           ELSE Finish(r)
        /\ UNCHANGED <<account, flow, grant, asked>>

-----------------------------------------------------------------------------
(* poll_device_code.  A poll that is answered "pending" changes nothing.   *)

\* Who polls is not compared with who started the flow, and no state row is
\* consulted: the web page's second poll goes out seconds later, under the login
\* there is by then.
Poll(r, u, g) ==
  /\ u \in account
  /\ grant[g] # Nil /\ ProviderOf(g) \in DeviceProviders
  /\ Begin(r, [Idle EXCEPT !.at = "obtain", !.user = u, !.grant = g])
  /\ UNCHANGED <<tables, flow, grant, asked, made>>

\* After the COMMIT the new row is read back, which fails when it is gone already.
RefreshLink(r) ==
  /\ req[r].at = "refresh"
  /\ IF link[req[r].grant] = Nil THEN Finish(r) ELSE Goto(r, [req[r] EXCEPT !.at = "cleanup"])
  /\ UNCHANGED <<tables, flow, grant, asked, made>>

\* The link may be gone by now: the states the user left at the provider go all
\* the same.
CleanUpStates(r) ==
  LET me == req[r]
      S == StatesAt(me.user, ProviderOf(me.grant))
  IN
  /\ me.at = "cleanup"
  /\ Free(r, S)
  /\ oauthState' = WithoutStates(S)
  /\ Finish(r)
  /\ UNCHANGED <<account, flow, grant, link, asked, made>>

-----------------------------------------------------------------------------
(* try_revoke_token, unlink_email                                          *)

\* Faulty Revoke: Meta forgotten.
RevokeNotMeta(S) == asked \cup {g \in S : ProviderOf(g) \in Revocable \ {Meta}}
\* Whether the provider obliges is not looked at.
Revoke(S) == asked \cup {g \in S : ProviderOf(g) \in Revocable}

UnlinkEmail(r, g) ==
  /\ link[g] # Nil
  /\ Begin(r, [Idle EXCEPT !.at = "unlink", !.user = link[g], !.grant = g])
  /\ asked' = Revoke({g})
  /\ UNCHANGED <<tables, flow, grant, made>>

DeleteLink(r) ==
  LET me == req[r] IN
  /\ me.at = "unlink"
  /\ Free(r, {me.grant})
  /\ link' = WithoutLinks({me.grant})
  /\ Finish(r)
  /\ UNCHANGED <<account, oauthState, flow, grant, asked, made>>

-----------------------------------------------------------------------------
(* delete_account, once the password is accepted                           *)

DeleteAccount(r, u) ==
  /\ u \in account
  /\ Begin(r, [Idle EXCEPT !.at = "revokeUser", !.user = u, !.todo = LinksOf(u)])
  /\ UNCHANGED <<tables, flow, grant, asked, made>>

\* The links selected before are revoked one after the other, here and in
\* meta_data_deletion.
RevokeNext(r) ==
  LET me == req[r] IN
  /\ me.at \in {"revokeUser", "revokeMeta"}
  /\ \E g \in me.todo :
       /\ asked' = Revoke({g})
       /\ Goto(r, [me EXCEPT !.todo = @ \ {g}])
  /\ UNCHANGED <<tables, flow, grant, made>>

\* db.delete(user) loads the user's rows for the ORM's own cascade.
LoadChildren(r) ==
  LET me == req[r] IN
  /\ me.at = "revokeUser" /\ me.todo = {}
  /\ Goto(r, [me EXCEPT !.at = "flush", !.todo = RowsOf(me.user)])
  /\ UNCHANGED <<tables, flow, grant, asked, made>>

\* The flush deletes the loaded rows; one that is gone is only a warning.
DeleteChild(r) ==
  LET me == req[r] IN
  /\ me.at = "flush"
  /\ \E x \in me.todo :
       /\ Free(r, {x})
       /\ Goto(r, [me EXCEPT !.todo = @ \ {x}, !.held = IF Present(x) THEN @ \cup {x} ELSE @])
  /\ UNCHANGED <<tables, flow, grant, asked, made>>

DeleteUserRow(r) ==
  LET me == req[r] IN
  /\ me.at = "flush" /\ me.todo = {}
  /\ UserFree(r, me.user)
  /\ IF me.user \in account THEN Goto(r, [me EXCEPT !.at = "cascade"]) ELSE Finish(r)
  /\ UNCHANGED <<tables, flow, grant, asked, made>>

\* ON DELETE CASCADE takes the rows committed since they were loaded.
Cascade(r) ==
  LET me == req[r] IN
  /\ me.at = "cascade"
  /\ \E x \in RowsOf(me.user) \ me.held :
       Free(r, {x}) /\ Goto(r, [me EXCEPT !.held = @ \cup {x}])
  /\ UNCHANGED <<tables, flow, grant, asked, made>>

CommitDeletion(r) ==
  LET me == req[r] IN
  /\ me.at = "cascade"
  /\ RowsOf(me.user) \subseteq me.held
  /\ account' = account \ {me.user}
  /\ link' = WithoutLinks(me.held)
  /\ oauthState' = WithoutStates(me.held)
  /\ Finish(r)
  /\ UNCHANGED <<flow, grant, asked, made>>

-----------------------------------------------------------------------------
(* meta_data_deletion                                                      *)

MetaDeletion(r, e) ==
  /\ MetaLinks(e) # {}
  /\ Begin(r, [Idle EXCEPT !.at = "revokeMeta", !.email = e, !.todo = MetaLinks(e)])
  /\ UNCHANGED <<tables, flow, grant, asked, made>>

\* By predicate: links made since the SELECT go too.
DeleteMetaLinks(r) ==
  LET me == req[r] IN
  /\ me.at = "revokeMeta" /\ me.todo = {}
  /\ Free(r, MetaLinks(me.email))
  /\ link' = WithoutLinks(MetaLinks(me.email))
  /\ Finish(r)
  /\ UNCHANGED <<account, oauthState, flow, grant, asked, made>>

-----------------------------------------------------------------------------
RollBack(r) == req[r].at # "idle" /\ Abort(r)

Browse ==
  \/ \E u \in Users, s \in Flows, p \in Providers : Initiate(u, s, p)
  \/ \E s \in Flows : Expire(s)
  \/ \E g \in Grants, s \in Flows, e \in Emails : Consent(g, s, e)

Arrive(r) ==
  \/ \E u \in Users : DeleteAccount(r, u) \/ \E g \in Grants : Callback(r, u, g) \/ Poll(r, u, g)
  \/ \E g \in Grants : UnlinkEmail(r, g)
  \/ \E e \in Emails : MetaDeletion(r, e)

Proceed(r) ==
  \/ DropState(r)
  \/ Obtain(r)
  \/ InsertLink(r)
  \/ RefreshLink(r)
  \/ CleanUpStates(r)
  \/ DeleteLink(r)
  \/ RevokeNext(r)
  \/ LoadChildren(r)
  \/ DeleteChild(r)
  \/ DeleteUserRow(r)
  \/ Cascade(r)
  \/ CommitDeletion(r)
  \/ DeleteMetaLinks(r)

Next ==
  \/ Browse
  \/ \E r \in Requests : Arrive(r) \/ Proceed(r) \/ RollBack(r)

Spec == Init /\ [][Next]_vars

-----------------------------------------------------------------------------
(* What holds however the requests interleave.                             *)

\* A link and a state row belong to an account that exists, although the link
\* is inserted long after the callback read its user and a deletion lists the
\* rows it has to take along before it locks the user.
RowsHaveOwners ==
  /\ \A g \in Grants : link[g] # Nil => link[g] \in account
  /\ \A s \in Flows : oauthState[s] # Nil => oauthState[s].user \in account

\* A grant of a browser flow is linked to the account that started the flow,
\* whoever is logged in when the redirect comes back (handle_oauth_callback).
\* Proved on its own; the run checks DeskSpec, which says more.
LinkedByInitiator ==
  \A g \in Grants :
    link[g] # Nil /\ ProviderOf(g) \in BrowserProviders => flow[FlowOf(g)].user = link[g]

\* A state row disappears only together with its account, with the link its
\* callback made, or as a leftover of its user, who has linked a device at the
\* same provider: a callback or a poll that fails on the way, or a restart,
\* leaves the flow as it was.
StateGoneOnlyWithLink ==
  [][\A s \in Flows :
       oauthState[s] # Nil /\ oauthState'[s] = Nil =>
         LET u == oauthState[s].user IN
         \/ u \notin account'
         \/ \E g \in Grants :
              grant[g] # Nil /\ FlowOf(g) = s /\ link[g] = Nil /\ link'[g] = u
         \/ /\ oauthState[s].provider \in DeviceProviders
            /\ \E r \in Requests :
                 /\ req[r].user = u /\ req[r].grant # Nil
                 /\ ProviderOf(req[r].grant) = oauthState[s].provider
                 /\ made[FlowOf(req[r].grant)] > 0]_vars

\* Linking is what LinkDesk promises, however its requests overlap: who may link a
\* mailbox, when, how often, and what closes a flow or takes a link away
\* (handle_oauth_callback, poll_device_code, unlink_email, delete_account,
\* meta_data_deletion).
Stage == [at \in {"dropState", "obtain", "insert", "refresh", "cleanup"} |->
            CASE at \in {"dropState", "obtain"} -> "handed"
              [] at = "insert" -> "redeemed"
              [] at \in {"refresh", "cleanup"} -> "linked"]
Desk == INSTANCE LinkDesk WITH
  state <- [s \in Flows |-> IF oauthState[s] = Nil THEN "none"
                            ELSE IF oauthState[s].fresh THEN "fresh" ELSE "stale"],
  claim <- [r \in Requests |->
              IF req[r].at \in DOMAIN Stage
              THEN [grant |-> req[r].grant, user |-> req[r].user, stage |-> Stage[req[r].at]] ELSE Nil]
ASSUME DeskAssumption == Nil \notin Desk!Claim
DeskSpec == Desk!Spec

-----------------------------------------------------------------------------
(* What holds as long as the requests of one account do not overlap.       *)

\* The clients wait for their answers, and Meta's data-deletion callback, which
\* reaches into any number of accounts, meets no other request.
OneAtATime ==
  \A r, s \in Requests :
    /\ req[r].at # "idle" /\ req[s].at # "idle"
    /\ req[r].user = req[s].user \/ Nil \in {req[r].user, req[s].user}
    => r = s

\* "Delete the state (single-use)": a browser flow makes one link.
StateSpentOnce == \A s \in Flows : made[s] <= 1

\* "Revoke all OAuth tokens before cascade deletion destroys the encrypted
\* tokens": no link leaves with its account whose grant, at a provider that can
\* revoke, was not asked to be revoked.
RevokedBeforeCascade ==
  [][\A g \in Grants :
       link[g] # Nil /\ link[g] \notin account' /\ ProviderOf(g) \in Revocable => g \in asked]_vars

\* Without that overlap, linking is what LinkRegistry promises.
Registry == INSTANCE LinkRegistry WITH
  claim <- [g \in Grants |->
              IF link[g] = Nil THEN Nil
              ELSE [user |-> link[g], email |-> grant[g].email,
                    provider |-> ProviderOf(g), flow |-> FlowOf(g)]],
  spent <- {s \in Flows : made[s] > 0 /\ flow[s].provider \in BrowserProviders}
ASSUME RegistryAssumption == Nil \notin Registry!Claim

RegistrySpec == Registry!Spec
=============================================================================
