------------------------- MODULE OAuthLinkingProofs -------------------------
(***************************************************************************)
(* Proofs about OAuthLinking for every number of users, request slots,     *)
(* flows, grants and providers.                                            *)
(***************************************************************************)
EXTENDS OAuthLinking, TLAPS

FromBrowser(g) == ProviderOf(g) \in BrowserProviders

\* A request on its way to a link carries a grant, in the browser of a flow its
\* user started; one that revokes goes through links.
LinkSteps == {"dropState", "obtain", "insert", "refresh", "cleanup"}
LocalOK(me) ==
  /\ me.at \in LinkSteps =>
       /\ me.user \in Users
       /\ me.grant \in Grants
       /\ grant[me.grant] # Nil
       /\ FromBrowser(me.grant) => flow[FlowOf(me.grant)].user = me.user
  /\ me.at \in {"revokeUser", "revokeMeta"} => me.todo \subseteq Grants

\* Where state rows, grants and links come from.
StatesOfFlows ==
  \A s \in Flows : oauthState[s] # Nil =>
    /\ flow[s] # Nil
    /\ flow[s].user = oauthState[s].user
    /\ flow[s].provider = oauthState[s].provider

GrantsOfFlows == \A g \in Grants : grant[g] # Nil => flow[FlowOf(g)] # Nil

LinksOfGrants ==
  \A g \in Grants : link[g] # Nil =>
    /\ grant[g] # Nil
    /\ FromBrowser(g) => flow[FlowOf(g)].user = link[g]

Sources == StatesOfFlows /\ GrantsOfFlows /\ LinksOfGrants

\* LinkedByInitiator is not inductive: that a callback inserts the link for the
\* user who started the flow rests on what it compared three steps before.
LInv == TypeOK /\ Sources /\ \A r \in Requests : LocalOK(req[r])

-----------------------------------------------------------------------------
LEMMA InitLInv == Init => LInv
  BY DEF Init, LInv, TypeOK, Sources, StatesOfFlows, GrantsOfFlows, LinksOfGrants, LocalOK,
         Idle, Local, Steps, LinkSteps, FromBrowser, ProviderOf

LEMMA IdleOK == Idle \in Local /\ LocalOK(Idle)
  BY DEF Idle, Local, LocalOK, Steps, LinkSteps, FromBrowser, ProviderOf

\* A step that changes no row.
LEMMA MoveLInv ==
  ASSUME LInv, NEW r \in Requests, NEW l \in Local, LocalOK(l), Goto(r, l),
         asked' \subseteq Grants,
         UNCHANGED <<tables, flow, grant, made>>
  PROVE  LInv'
  <1>1. TypeOK'
    BY DEF LInv, TypeOK, Goto, tables
  <1>2. Sources'
    BY DEF LInv, Sources, StatesOfFlows, GrantsOfFlows, LinksOfGrants, FlowOf, tables, FromBrowser, ProviderOf
  <1>3. \A s \in Requests : LocalOK(req[s])'
    BY DEF LInv, TypeOK, Goto, LocalOK, FlowOf, LinkSteps, FromBrowser, ProviderOf
  <1> QED
    BY <1>1, <1>2, <1>3 DEF LInv

LEMMA AbortLInv == ASSUME LInv, NEW r \in Requests, Abort(r) PROVE LInv'
  <1>1. Goto(r, Idle) /\ UNCHANGED <<tables, flow, grant, made>> /\ asked' = asked
    BY DEF Abort, Finish, Goto
  <1>2. asked \subseteq Grants
    BY DEF LInv, TypeOK
  <1> QED
    BY <1>1, <1>2, MoveLInv, IdleOK

\* A step that ends a request and removes rows.
LEMMA RemoveLInv ==
  ASSUME LInv, NEW r \in Requests, Finish(r),
         account' \subseteq account,
         \A g \in Grants : link'[g] \in {Nil, link[g]},
         link' \in [Grants -> Users \cup {Nil}],
         \A s \in Flows : oauthState'[s] \in {Nil, oauthState[s]},
         oauthState' \in [Flows -> StateRow \cup {Nil}],
         UNCHANGED <<flow, grant, asked, made>>
  PROVE  LInv'
  <1>1. TypeOK'
    BY IdleOK DEF LInv, TypeOK, Finish
  <1>2. Sources'
    BY DEF LInv, Sources, StatesOfFlows, GrantsOfFlows, LinksOfGrants, FlowOf, FromBrowser, ProviderOf
  <1>3. \A s \in Requests : LocalOK(req[s])'
    BY IdleOK DEF LInv, TypeOK, Finish, LocalOK, FlowOf, Idle, LinkSteps, FromBrowser, ProviderOf
  <1> QED
    BY <1>1, <1>2, <1>3 DEF LInv

-----------------------------------------------------------------------------
(* The steps of the browser and the providers                              *)

LEMMA BrowseLInv == ASSUME LInv, Browse PROVE LInv'
  <1>1. ASSUME NEW u \in Users, NEW s \in Flows, NEW p \in Providers, Initiate(u, s, p) PROVE LInv'
    <2> PICK offered \in BOOLEAN :
          flow' = [flow EXCEPT ![s] = [user |-> u, provider |-> p, offered |-> offered]]
      BY <1>1 DEF Initiate
    <2>1. /\ flow[s] = Nil
          /\ oauthState' = [oauthState EXCEPT ![s] = [user |-> u, provider |-> p, fresh |-> TRUE]]
          /\ UNCHANGED <<account, grant, link, req, asked, made>>
      BY <1>1 DEF Initiate
    <2>2. TypeOK'
      BY <2>1 DEF LInv, TypeOK, StateRow, Flow
    <2>3. \A g \in Grants : grant[g] # Nil => FlowOf(g) \in Flows /\ FlowOf(g) # s
      BY <2>1 DEF LInv, TypeOK, Sources, GrantsOfFlows, Grant, FlowOf
    <2>4. StatesOfFlows'
      BY <2>1, NilAssumption DEF LInv, TypeOK, Sources, StatesOfFlows, Flow, StateRow
    <2>5. GrantsOfFlows' /\ LinksOfGrants'
      BY <2>1, <2>3 DEF LInv, TypeOK, Sources, GrantsOfFlows, LinksOfGrants, FlowOf, FromBrowser, ProviderOf
    <2>6. \A r \in Requests : LocalOK(req[r])'
      BY <2>1, <2>3 DEF LInv, TypeOK, LocalOK, FlowOf, LinkSteps, FromBrowser, ProviderOf
    <2> QED
      BY <2>2, <2>4, <2>5, <2>6 DEF LInv, Sources
  <1>2. ASSUME NEW s \in Flows, Expire(s) PROVE LInv'
    <2>1. TypeOK'
      BY <1>2 DEF Expire, LInv, TypeOK, StateRow
    <2>2. Sources'
      BY <1>2 DEF Expire, LInv, TypeOK, StateRow, Sources, StatesOfFlows, GrantsOfFlows, LinksOfGrants, FlowOf, FromBrowser, ProviderOf
    <2>3. \A r \in Requests : LocalOK(req[r])'
      BY <1>2 DEF Expire, LInv, LocalOK, FlowOf, LinkSteps, FromBrowser, ProviderOf
    <2> QED
      BY <2>1, <2>2, <2>3 DEF LInv
  <1>3. ASSUME NEW g \in Grants, NEW s \in Flows, NEW e \in Emails, Consent(g, s, e) PROVE LInv'
    <2>1. /\ flow[s] # Nil /\ grant[g] = Nil
          /\ grant' = [grant EXCEPT ![g] = [flow |-> s, email |-> e, status |-> "code"]]
          /\ UNCHANGED <<tables, flow, req, asked, made>>
      BY <1>3 DEF Consent
    <2>2. TypeOK'
      BY <2>1 DEF LInv, TypeOK, Grant, tables
    <2>3. StatesOfFlows'
      BY <2>1 DEF LInv, Sources, StatesOfFlows, tables
    <2>4. GrantsOfFlows' /\ LinksOfGrants'
      BY <2>1 DEF LInv, TypeOK, Sources, GrantsOfFlows, LinksOfGrants, FlowOf, tables, FromBrowser, ProviderOf
    <2>5. \A r \in Requests : LocalOK(req[r])'
      BY <2>1 DEF LInv, TypeOK, LocalOK, FlowOf, LinkSteps, FromBrowser, ProviderOf
    <2> QED
      BY <2>2, <2>3, <2>4, <2>5 DEF LInv, Sources
  <1> QED
    BY <1>1, <1>2, <1>3 DEF Browse

-----------------------------------------------------------------------------
(* The steps towards a link                                                *)

LEMMA TokensLInv ==
  ASSUME LInv, NEW r \in Requests, NEW l \in Local, NEW g \in Grants, grant[g] # Nil,
         LocalOK([l EXCEPT !.at = "insert"]),
         Tokens(r, l, g), UNCHANGED <<tables, flow, asked, made>>
  PROVE  LInv'
  <1> DEFINE m == [l EXCEPT !.at = "insert"]
  <1>1. m \in Local
    BY DEF Local, Steps
  <1>2. \/ req' = [req EXCEPT ![r] = m]
        \/ req' = [req EXCEPT ![r] = Idle]
    BY DEF Tokens, Goto, Finish
  <1>3. grant' = [grant EXCEPT ![g].status = "tokens"]
    BY DEF Tokens
  <1>4. grant[g] \in Grant
    BY DEF LInv, TypeOK
  <1>5. grant' \in [Grants -> Grant \cup {Nil}]
    BY <1>3, <1>4 DEF LInv, TypeOK, Grant
  <1>6. \A h \in Grants : (grant'[h] = Nil <=> grant[h] = Nil) /\ (grant[h] # Nil => FlowOf(h)' = FlowOf(h))
    BY <1>3, <1>4, <1>5, NilAssumption DEF LInv, TypeOK, Grant, FlowOf
  <1>7. TypeOK'
    BY <1>1, <1>2, <1>5, IdleOK DEF LInv, TypeOK, tables
  <1>8. StatesOfFlows'
    BY DEF LInv, Sources, StatesOfFlows, tables
  <1>9. GrantsOfFlows' /\ LinksOfGrants'
    BY <1>6 DEF LInv, Sources, GrantsOfFlows, LinksOfGrants, tables, FromBrowser, ProviderOf
  <1>10. ASSUME NEW s \in Requests PROVE LocalOK(req[s])'
    <2>1. req'[s] \in {req[s], m, Idle} /\ req \in [Requests -> Local]
      BY <1>2 DEF LInv, TypeOK
    <2>2. LocalOK(req[s]) /\ LocalOK(m) /\ LocalOK(Idle)
      BY IdleOK DEF LInv
    <2> HIDE DEF m
    <2> QED
      BY <2>1, <2>2, <1>6 DEF LocalOK, LinkSteps, FromBrowser, ProviderOf
  <1> QED
    BY <1>7, <1>8, <1>9, <1>10 DEF LInv, Sources

LEMMA CallbackLInv ==
  ASSUME LInv, NEW r \in Requests, NEW u \in Users, NEW g \in Grants, Callback(r, u, g) PROVE LInv'
  <1> DEFINE l == [Idle EXCEPT !.at = "dropState", !.user = u, !.grant = g]
  <1>1. l \in Local
    BY DEF Idle, Local, Steps
  <1>2. FlowOf(g) \in Flows
    BY DEF Callback, LInv, TypeOK, Grant, FlowOf
  <1>3. flow[FlowOf(g)].user = u
    BY <1>2 DEF Callback, StateMatches, LInv, Sources, StatesOfFlows
  <1>4. LocalOK(l)
    BY <1>3 DEF Callback, LocalOK, Idle, LinkSteps, FromBrowser, ProviderOf
  <1>5. Goto(r, l) /\ UNCHANGED <<tables, flow, grant, made>> /\ asked' \subseteq Grants
    BY DEF Callback, Begin, Goto, LInv, TypeOK
  <1> HIDE DEF l
  <1> QED
    BY <1>1, <1>4, <1>5, MoveLInv

LEMMA PollLInv ==
  ASSUME LInv, NEW r \in Requests, NEW u \in Users, NEW g \in Grants, Poll(r, u, g) PROVE LInv'
  <1> DEFINE l == [Idle EXCEPT !.at = "obtain", !.user = u, !.grant = g]
  <1>1. l \in Local
    BY DEF Idle, Local, Steps
  <1>2. grant[g] # Nil /\ ~FromBrowser(g)
    BY ProvidersAssumption DEF Poll, FromBrowser
  <1>3. LocalOK(l)
    BY <1>2 DEF LocalOK, Idle, LinkSteps, FromBrowser, ProviderOf
  <1>4. Goto(r, l) /\ UNCHANGED <<tables, flow, grant, made>> /\ asked' \subseteq Grants
    BY DEF Poll, Begin, Goto, LInv, TypeOK
  <1> HIDE DEF l
  <1> QED
    BY <1>1, <1>3, <1>4, MoveLInv

LEMMA ObtainLInv == ASSUME LInv, NEW r \in Requests, Obtain(r) PROVE LInv'
  <1>1. req[r] \in Local /\ LocalOK(req[r]) /\ req[r].at = "obtain"
    BY DEF LInv, TypeOK, Obtain
  <1>2. req[r].grant \in Grants /\ grant[req[r].grant] # Nil
    BY <1>1 DEF LocalOK, LinkSteps, FromBrowser, ProviderOf
  <1>3. LocalOK([req[r] EXCEPT !.at = "insert"])
    BY <1>1 DEF LocalOK, Local, LinkSteps, FromBrowser, ProviderOf
  <1>4. CASE Tokens(r, req[r], req[r].grant)
    BY <1>1, <1>2, <1>3, <1>4, TokensLInv DEF Obtain
  <1>5. CASE Finish(r) /\ UNCHANGED grant
    BY <1>5, AbortLInv DEF Obtain, Abort
  <1> QED
    BY <1>4, <1>5 DEF Obtain

LEMMA InsertLInv == ASSUME LInv, NEW r \in Requests, InsertLink(r) PROVE LInv'
  <1> DEFINE me == req[r]
             g == me.grant
             s == FlowOf(g)
             m == [me EXCEPT !.at = "refresh"]
  <1>0. me \in Local /\ LocalOK(me) /\ me.at = "insert"
    BY DEF LInv, TypeOK, InsertLink
  <1>1. CASE Abort(r)
    BY <1>1, AbortLInv
  <1>2. CASE /\ link' = [link EXCEPT ![g] = me.user]
             /\ oauthState' = WithoutStates(me.held)
             /\ made' = [made EXCEPT ![s] = IF @ < 2 THEN @ + 1 ELSE @]
             /\ IF ProviderOf(g) \in DeviceProviders THEN Goto(r, m) ELSE Finish(r)
             /\ UNCHANGED <<account, flow, grant, asked>>
    <2>1. /\ g \in Grants /\ grant[g] # Nil /\ me.user \in Users
          /\ FromBrowser(g) => flow[FlowOf(g)].user = me.user
      BY <1>0 DEF LocalOK, LinkSteps, FromBrowser, ProviderOf
    <2>2. m \in Local
      BY <1>0 DEF Local, Steps
    <2>2a. LocalOK(m)
      BY <1>0, <2>1 DEF LocalOK, Local, LinkSteps, FromBrowser, ProviderOf
    <2>3. req' = [req EXCEPT ![r] = m] \/ req' = [req EXCEPT ![r] = Idle]
      BY <1>2 DEF Goto, Finish
    <2>4. oauthState' \in [Flows -> StateRow \cup {Nil}] /\ \A o \in Flows : oauthState'[o] \in {Nil, oauthState[o]}
      BY <1>2 DEF WithoutStates, LInv, TypeOK
    <2>5. made' \in [Flows -> 0 .. 2]
      <3>1. made \in [Flows -> 0 .. 2]
        BY DEF LInv, TypeOK
      <3>2. s \in Flows
        BY <2>1 DEF LInv, TypeOK, Grant, FlowOf
      <3>3. (IF made[s] < 2 THEN made[s] + 1 ELSE made[s]) \in 0 .. 2
        BY <3>1, <3>2
      <3> HIDE DEF s
      <3> QED
        BY <1>2, <3>1, <3>2, <3>3
    <2>6. req' \in [Requests -> Local]
      BY <2>2, <2>3, IdleOK DEF LInv, TypeOK
    <2>7. TypeOK'
      BY <1>2, <2>1, <2>4, <2>5, <2>6 DEF LInv, TypeOK
    <2>8. Sources'
      BY <1>2, <2>1, <2>4 DEF LInv, TypeOK, Sources, StatesOfFlows, GrantsOfFlows, LinksOfGrants, FlowOf, FromBrowser, ProviderOf
    <2>9. ASSUME NEW q \in Requests PROVE LocalOK(req[q])'
      <3>1. req'[q] \in {req[q], m, Idle}
        BY <2>3 DEF LInv, TypeOK
      <3>2. LocalOK(req[q]) /\ LocalOK(m) /\ LocalOK(Idle)
        BY <2>2a, IdleOK DEF LInv
      <3>3. flow' = flow /\ grant' = grant
        BY <1>2
      <3> HIDE DEF m
      <3> QED
        BY <3>1, <3>2, <3>3 DEF LocalOK, FlowOf, LinkSteps, FromBrowser, ProviderOf
    <2> QED
      BY <2>7, <2>8, <2>9 DEF LInv
  <1> QED
    BY <1>1, <1>2 DEF InsertLink

-----------------------------------------------------------------------------
(* The other steps                                                         *)

LEMMA MoreMovesLInv ==
  ASSUME LInv, NEW r \in Requests,
         \/ DropState(r) \/ RefreshLink(r) \/ RevokeNext(r) \/ LoadChildren(r)
         \/ DeleteChild(r) \/ DeleteUserRow(r) \/ Cascade(r)
  PROVE  LInv'
  <1> DEFINE me == req[r]
  <1>0. me \in Local /\ LocalOK(me) /\ asked \subseteq Grants
    BY DEF LInv, TypeOK
  <1>0a. UNCHANGED <<tables, flow, grant, made>> /\ asked' \subseteq Grants
    BY <1>0 DEF DropState, RefreshLink, RevokeNext, LoadChildren, DeleteChild, DeleteUserRow, Cascade, Revoke,
                LocalOK, LinkSteps, FromBrowser, ProviderOf
  <1>1. CASE DropState(r)
    <2> DEFINE s == FlowOf(me.grant)
               l == [me EXCEPT !.at = "obtain", !.held = IF Present(s) THEN {s} ELSE {}]
    <2>1. s \in Flows
      BY <1>0, <1>1 DEF DropState, LocalOK, LInv, TypeOK, Grant, FlowOf, LinkSteps, FromBrowser, ProviderOf
    <2>2. l \in Local
      BY <1>0, <2>1 DEF Local, Steps
    <2>3. LocalOK(l)
      BY <1>0, <1>1 DEF DropState, LocalOK, Local, LinkSteps, FromBrowser, ProviderOf
    <2>4. Goto(r, l)
      BY <1>1 DEF DropState
    <2> HIDE DEF l
    <2> QED
      BY <1>0a, <2>2, <2>3, <2>4, MoveLInv
  <1>2. CASE RevokeNext(r)
    <2> PICK g \in me.todo : Goto(r, [me EXCEPT !.todo = @ \ {g}])
      BY <1>2 DEF RevokeNext
    <2> DEFINE l == [me EXCEPT !.todo = @ \ {g}]
    <2>1. l \in Local
      BY <1>0 DEF Local
    <2>2. LocalOK(l)
      BY <1>0, <1>2 DEF RevokeNext, LocalOK, Local, LinkSteps, FromBrowser, ProviderOf
    <2>3. Goto(r, l)
      OBVIOUS
    <2> HIDE DEF l
    <2> QED
      BY <1>0a, <2>1, <2>2, <2>3, MoveLInv
  <1>3. CASE LoadChildren(r)
    <2> DEFINE l == [me EXCEPT !.at = "flush", !.todo = RowsOf(me.user)]
    <2>1. RowsOf(me.user) \subseteq Flows \cup Grants
      BY DEF RowsOf, LinksOf, StatesOf
    <2>2. l \in Local
      BY <1>0, <2>1 DEF Local, Steps
    <2>3. LocalOK(l)
      BY <1>0 DEF LocalOK, Local, LinkSteps, FromBrowser, ProviderOf
    <2>4. Goto(r, l)
      BY <1>3 DEF LoadChildren
    <2> HIDE DEF l
    <2> QED
      BY <1>0a, <2>2, <2>3, <2>4, MoveLInv
  <1>4. CASE DeleteChild(r)
    <2> PICK x \in me.todo :
          Goto(r, [me EXCEPT !.todo = @ \ {x}, !.held = IF Present(x) THEN @ \cup {x} ELSE @])
      BY <1>4 DEF DeleteChild
    <2> DEFINE l == [me EXCEPT !.todo = @ \ {x}, !.held = IF Present(x) THEN @ \cup {x} ELSE @]
    <2>1. l \in Local
      BY <1>0 DEF Local
    <2>2. LocalOK(l)
      BY <1>0, <1>4 DEF DeleteChild, LocalOK, Local, LinkSteps, FromBrowser, ProviderOf
    <2>3. Goto(r, l)
      OBVIOUS
    <2> HIDE DEF l
    <2> QED
      BY <1>0a, <2>1, <2>2, <2>3, MoveLInv
  <1>5. CASE DeleteUserRow(r)
    <2> DEFINE l == [me EXCEPT !.at = "cascade"]
    <2>1. l \in Local
      BY <1>0 DEF Local, Steps
    <2>2. LocalOK(l)
      BY <1>0 DEF LocalOK, Local, LinkSteps, FromBrowser, ProviderOf
    <2>3. Goto(r, l) \/ Goto(r, Idle)
      BY <1>5 DEF DeleteUserRow, Finish, Goto
    <2> HIDE DEF l
    <2> QED
      BY <1>0a, <2>1, <2>2, <2>3, MoveLInv, IdleOK
  <1>6. CASE Cascade(r)
    <2> PICK x \in RowsOf(me.user) \ me.held : Goto(r, [me EXCEPT !.held = @ \cup {x}])
      BY <1>6 DEF Cascade
    <2> DEFINE l == [me EXCEPT !.held = @ \cup {x}]
    <2>1. l \in Local
      BY <1>0 DEF Local, RowsOf, LinksOf, StatesOf
    <2>2. LocalOK(l)
      BY <1>0, <1>6 DEF Cascade, LocalOK, Local, LinkSteps, FromBrowser, ProviderOf
    <2>3. Goto(r, l)
      OBVIOUS
    <2> HIDE DEF l
    <2> QED
      BY <1>0a, <2>1, <2>2, <2>3, MoveLInv
  <1>7. CASE RefreshLink(r)
    <2> DEFINE l == [me EXCEPT !.at = "cleanup"]
    <2>1. l \in Local
      BY <1>0 DEF Local, Steps
    <2>2. LocalOK(l)
      BY <1>0, <1>7 DEF RefreshLink, LocalOK, LinkSteps, Local, FromBrowser, ProviderOf
    <2>3. Goto(r, l) \/ Goto(r, Idle)
      BY <1>7 DEF RefreshLink, Finish, Goto
    <2> HIDE DEF l
    <2> QED
      BY <1>0a, <2>1, <2>2, <2>3, MoveLInv, IdleOK
  <1> QED
    BY <1>1, <1>2, <1>3, <1>4, <1>5, <1>6, <1>7

LEMMA RemovalsLInv ==
  ASSUME LInv, NEW r \in Requests,
         CleanUpStates(r) \/ DeleteLink(r) \/ CommitDeletion(r) \/ DeleteMetaLinks(r)
  PROVE  LInv'
  <1>0. /\ link \in [Grants -> Users \cup {Nil}]
        /\ oauthState \in [Flows -> StateRow \cup {Nil}]
    BY DEF LInv, TypeOK
  <1>1. CASE CleanUpStates(r)
    BY <1>0, <1>1, RemoveLInv DEF CleanUpStates, WithoutStates
  <1>3. CASE DeleteLink(r)
    BY <1>0, <1>3, RemoveLInv DEF DeleteLink, WithoutLinks
  <1>4. CASE CommitDeletion(r)
    BY <1>0, <1>4, RemoveLInv DEF CommitDeletion, WithoutLinks, WithoutStates
  <1>5. CASE DeleteMetaLinks(r)
    BY <1>0, <1>5, RemoveLInv DEF DeleteMetaLinks, WithoutLinks
  <1> QED
    BY <1>1, <1>3, <1>4, <1>5

LEMMA ArriveLInv == ASSUME LInv, NEW r \in Requests, Arrive(r) PROVE LInv'
  <1>0. asked \subseteq Grants
    BY DEF LInv, TypeOK
  <1>1. ASSUME NEW u \in Users, DeleteAccount(r, u) PROVE LInv'
    <2> DEFINE l == [Idle EXCEPT !.at = "revokeUser", !.user = u, !.todo = LinksOf(u)]
    <2>1. l \in Local /\ LocalOK(l)
      BY DEF Idle, Local, LocalOK, Steps, LinksOf, LinkSteps, FromBrowser, ProviderOf
    <2>2. Goto(r, l) /\ UNCHANGED <<tables, flow, grant, made>> /\ asked' = asked
      BY <1>1 DEF DeleteAccount, Begin, Goto
    <2> QED
      BY <1>0, <2>1, <2>2, MoveLInv
  <1>2. ASSUME NEW g \in Grants, UnlinkEmail(r, g) PROVE LInv'
    <2> DEFINE l == [Idle EXCEPT !.at = "unlink", !.user = link[g], !.grant = g]
    <2>1. l \in Local /\ LocalOK(l)
      BY DEF Idle, Local, LocalOK, Steps, LInv, TypeOK, LinkSteps, FromBrowser, ProviderOf
    <2>2. Goto(r, l) /\ UNCHANGED <<tables, flow, grant, made>> /\ asked' \subseteq Grants
      BY <1>0, <1>2 DEF UnlinkEmail, Begin, Goto, Revoke
    <2> QED
      BY <2>1, <2>2, MoveLInv
  <1>3. ASSUME NEW e \in Emails, MetaDeletion(r, e) PROVE LInv'
    <2> DEFINE l == [Idle EXCEPT !.at = "revokeMeta", !.email = e, !.todo = MetaLinks(e)]
    <2>1. l \in Local /\ LocalOK(l)
      BY DEF Idle, Local, LocalOK, Steps, MetaLinks, LinkSteps, FromBrowser, ProviderOf
    <2>2. Goto(r, l) /\ UNCHANGED <<tables, flow, grant, made>> /\ asked' = asked
      BY <1>3 DEF MetaDeletion, Begin, Goto
    <2> QED
      BY <1>0, <2>1, <2>2, MoveLInv
  <1> QED
    BY <1>1, <1>2, <1>3, PollLInv, CallbackLInv DEF Arrive

-----------------------------------------------------------------------------
LEMMA NextLInv == LInv /\ [Next]_vars => LInv'
  <1> SUFFICES ASSUME LInv, [Next]_vars PROVE LInv'
    OBVIOUS
  <1>1. CASE Browse
    BY <1>1, BrowseLInv
  <1>2. ASSUME NEW r \in Requests, Arrive(r) \/ Proceed(r) \/ RollBack(r) PROVE LInv'
    BY <1>2, ArriveLInv, AbortLInv, ObtainLInv, InsertLInv, MoreMovesLInv, RemovalsLInv
       DEF Proceed, RollBack
  <1>3. CASE UNCHANGED vars
    BY <1>3 DEF vars, LInv, TypeOK, Sources, StatesOfFlows, GrantsOfFlows, LinksOfGrants, LocalOK, FlowOf, LinkSteps, FromBrowser, ProviderOf
  <1> QED
    BY <1>1, <1>2, <1>3 DEF Next

\* Every reachable state of the linking tables, flows, grants and requests is
\* well typed.
THEOREM TypeCorrect == Spec => []TypeOK
  <1>1. LInv => TypeOK
    BY DEF LInv
  <1> QED
    BY <1>1, InitLInv, NextLInv, PTL DEF Spec

\* However callbacks, polls, unlinks and deletions interleave, a grant of a
\* browser flow is linked only to the account that started the flow.
THEOREM InitiatorLinked == Spec => []LinkedByInitiator
  <1>1. LInv => LinkedByInitiator
    BY DEF LInv, Sources, LinksOfGrants, LinkedByInitiator, FromBrowser, ProviderOf
  <1> QED
    BY <1>1, InitLInv, NextLInv, PTL DEF Spec

-----------------------------------------------------------------------------
(* No row without its user.                                                *)

Owned == RowsHaveOwners /\ LInv

\* A step that adds no row and removes no account.
LEMMA ShrinkOwned ==
  ASSUME RowsHaveOwners, account' = account,
         \A g \in Grants : link'[g] \in {Nil, link[g]},
         \A s \in Flows : oauthState'[s] = Nil \/ (oauthState[s] # Nil /\ oauthState'[s].user = oauthState[s].user)
  PROVE  RowsHaveOwners'
  BY DEF RowsHaveOwners

LEMMA StillOwned == ASSUME RowsHaveOwners, UNCHANGED tables PROVE RowsHaveOwners'
  BY ShrinkOwned DEF RowsHaveOwners, tables

\* The guard of the COMMIT says that the deletion has locked every row there is
\* by then; a row committed since its flush began is among them.
LEMMA DeletionOwned == ASSUME Owned, NEW r \in Requests, CommitDeletion(r) PROVE RowsHaveOwners'
  <1> DEFINE u == req[r].user
  <1>1. /\ account' = account \ {u}
        /\ link' = WithoutLinks(req[r].held)
        /\ oauthState' = WithoutStates(req[r].held)
        /\ LinksOf(u) \cup StatesOf(u) \subseteq req[r].held
    BY DEF CommitDeletion, RowsOf
  <1>2. ASSUME NEW g \in Grants, link'[g] # Nil PROVE link'[g] \in account'
    BY <1>1, <1>2 DEF WithoutLinks, LinksOf, Owned, RowsHaveOwners
  <1>3. ASSUME NEW s \in Flows, oauthState'[s] # Nil PROVE oauthState'[s].user \in account'
    BY <1>1, <1>3 DEF WithoutStates, StatesOf, Owned, RowsHaveOwners
  <1> QED
    BY <1>2, <1>3 DEF RowsHaveOwners

LEMMA InsertOwned == ASSUME Owned, NEW r \in Requests, InsertLink(r) PROVE RowsHaveOwners'
  <1> DEFINE me == req[r]
  <1>1. CASE UNCHANGED tables
    BY <1>1, StillOwned DEF Owned
  <1>2. CASE /\ me.user \in account
             /\ link' = [link EXCEPT ![me.grant] = me.user]
             /\ oauthState' = WithoutStates(me.held)
             /\ account' = account
    BY <1>2 DEF Owned, LInv, TypeOK, RowsHaveOwners, WithoutStates
  <1> QED
    BY <1>1, <1>2 DEF InsertLink, Abort

LEMMA BrowseOwned == ASSUME Owned, Browse PROVE RowsHaveOwners'
  <1>1. ASSUME NEW u \in Users, NEW s \in Flows, NEW p \in Providers, Initiate(u, s, p)
        PROVE  RowsHaveOwners'
    BY <1>1 DEF Initiate, Owned, LInv, TypeOK, RowsHaveOwners
  <1>2. ASSUME NEW s \in Flows, Expire(s) PROVE RowsHaveOwners'
    <2>1. oauthState[s] \in StateRow
      BY <1>2 DEF Expire, Owned, LInv, TypeOK
    <2> QED
      BY <1>2, <2>1, ShrinkOwned DEF Expire, Owned, LInv, TypeOK, StateRow
  <1>3. ASSUME NEW g \in Grants, NEW s \in Flows, NEW e \in Emails, Consent(g, s, e)
        PROVE  RowsHaveOwners'
    BY <1>3, StillOwned DEF Consent, Owned
  <1> QED
    BY <1>1, <1>2, <1>3 DEF Browse

LEMMA NextOwned == Owned /\ [Next]_vars => Owned'
  <1> SUFFICES ASSUME Owned, [Next]_vars PROVE RowsHaveOwners'
    BY NextLInv DEF Owned
  <1>1. CASE Browse
    BY <1>1, BrowseOwned
  <1>2. ASSUME NEW r \in Requests, Arrive(r) \/ Proceed(r) \/ RollBack(r) PROVE RowsHaveOwners'
    <2>1. CASE InsertLink(r) \/ CommitDeletion(r)
      BY <2>1, InsertOwned, DeletionOwned
    <2>2. CASE CleanUpStates(r) \/ DeleteLink(r) \/ DeleteMetaLinks(r)
      BY <2>2, ShrinkOwned DEF CleanUpStates, DeleteLink, DeleteMetaLinks, WithoutLinks, WithoutStates, Owned
    <2>3. CASE UNCHANGED tables
      BY <2>3, StillOwned DEF Owned
    <2>4. Arrive(r) \/ RollBack(r) => UNCHANGED tables
      BY DEF Arrive, RollBack, Abort, DeleteAccount, Poll, UnlinkEmail, Callback, MetaDeletion
    <2>5. DropState(r) \/ Obtain(r) \/ RefreshLink(r) \/ RevokeNext(r) \/ LoadChildren(r)
          \/ DeleteChild(r) \/ DeleteUserRow(r) \/ Cascade(r) => UNCHANGED tables
      BY DEF DropState, Obtain, RefreshLink, RevokeNext, LoadChildren, DeleteChild, DeleteUserRow, Cascade
    <2> QED
      BY <1>2, <2>1, <2>2, <2>3, <2>4, <2>5 DEF Proceed
  <1>3. CASE UNCHANGED vars
    BY <1>3, StillOwned DEF vars, tables, Owned
  <1> QED
    BY <1>1, <1>2, <1>3 DEF Next

\* No link and no state row outlives its account, whatever a callback or a poll
\* inserts while the deletion is under way.
THEOREM RowsOwned == Spec => []RowsHaveOwners
  <1>1. Init => Owned
    BY InitLInv DEF Init, Owned, RowsHaveOwners
  <1>2. Owned => RowsHaveOwners
    BY DEF Owned
  <1> QED
    BY <1>1, <1>2, NextOwned, PTL DEF Spec

-----------------------------------------------------------------------------
(* Where state rows go.                                                    *)

\* The state rows a request will take away with its commit, and why it may.
HeldOK(me) ==
  /\ me.at = "dropState" => FromBrowser(me.grant)
  /\ me.at \in {"obtain", "insert"} =>
       me.held \subseteq IF FromBrowser(me.grant) THEN {FlowOf(me.grant)} ELSE {}
  /\ me.at \in {"refresh", "cleanup"} =>
       ProviderOf(me.grant) \in DeviceProviders /\ made[FlowOf(me.grant)] > 0
  /\ me.at = "revokeUser" => me.held = {}
  /\ me.at \in {"revokeUser", "flush", "cascade"} => me.user \in Users
  /\ me.at \in {"flush", "cascade"} =>
       \A s \in Flows \cap (me.todo \cup me.held) : flow[s] # Nil /\ flow[s].user = me.user

HInv == LInv /\ \A r \in Requests : HeldOK(req[r])

\* A flow and the flow of a grant are for ever, and so is that it was linked.
Lasting ==
  /\ \A g \in Grants : grant[g] # Nil => grant'[g] # Nil /\ grant'[g].flow = grant[g].flow
  /\ \A s \in Flows : flow[s] # Nil => flow'[s] = flow[s]
  /\ \A s \in Flows : made[s] > 0 => made'[s] > 0

LEMMA IdleHeld == HeldOK(Idle) /\ HeldOK(Idle)'
  BY DEF HeldOK, Idle

LEMMA StillHeld ==
  ASSUME LInv, NEW l \in Local, LocalOK(l), HeldOK(l), Lasting PROVE HeldOK(l)'
  <1>1. l.at \in LinkSteps =>
          /\ l.grant \in Grants /\ grant[l.grant] # Nil /\ FlowOf(l.grant) \in Flows
          /\ flow[FlowOf(l.grant)] # Nil
    BY DEF LocalOK, LInv, TypeOK, Sources, GrantsOfFlows, Grant, FlowOf
  <1>2. l.at \in LinkSteps =>
          /\ FlowOf(l.grant)' = FlowOf(l.grant)
          /\ ProviderOf(l.grant)' = ProviderOf(l.grant)
          /\ FromBrowser(l.grant)' = FromBrowser(l.grant)
    BY <1>1 DEF Lasting, FlowOf, ProviderOf, FromBrowser
  <1> QED
    BY <1>1, <1>2 DEF HeldOK, Lasting, LinkSteps

LEMMA HeldStep ==
  ASSUME HInv, NEW r \in Requests, NEW l \in Local, Goto(r, l), HeldOK(l)', Lasting
  PROVE  \A q \in Requests : HeldOK(req[q])'
  <1> SUFFICES ASSUME NEW q \in Requests PROVE HeldOK(req[q])'
    OBVIOUS
  <1>1. CASE q = r
    <2>1. req'[q] = l
      BY <1>1 DEF Goto, HInv, LInv, TypeOK
    <2> QED
      BY <2>1 DEF HeldOK, FlowOf, ProviderOf, FromBrowser
  <1>2. CASE q # r
    <2>1. req'[q] = req[q] /\ req[q] \in Local /\ LocalOK(req[q]) /\ HeldOK(req[q])
      BY <1>2 DEF Goto, HInv, LInv, TypeOK
    <2> PICK m \in Local : m = req[q]
      BY <2>1
    <2>2. HeldOK(m)'
      BY <2>1, StillHeld DEF HInv
    <2> QED
      BY <2>1, <2>2 DEF HeldOK, FlowOf, ProviderOf, FromBrowser
  <1> QED
    BY <1>1, <1>2

\* A request that moves while flows, grants and links made stay.
LEMMA HeldMove ==
  ASSUME HInv, NEW r \in Requests, NEW l \in Local, Goto(r, l), HeldOK(l), UNCHANGED <<flow, grant, made>>
  PROVE  \A q \in Requests : HeldOK(req[q])'
  <1>1. Lasting /\ HeldOK(l)'
    BY DEF Lasting, HeldOK, FlowOf, ProviderOf, FromBrowser
  <1> QED
    BY <1>1, HeldStep

LEMMA HeldEnd ==
  ASSUME HInv, NEW r \in Requests, Finish(r), Lasting
  PROVE  \A q \in Requests : HeldOK(req[q])'
  <1>1. Goto(r, Idle)
    BY DEF Finish, Goto
  <1> QED
    BY <1>1, IdleOK, IdleHeld, HeldStep

LEMMA SameLasting == ASSUME UNCHANGED <<flow, grant, made>> PROVE Lasting
  BY DEF Lasting

LEMMA TokensHeld ==
  ASSUME HInv, NEW r \in Requests, NEW l \in Local, NEW g \in Grants, grant[g] # Nil,
         l.grant = g, l.held \subseteq IF FromBrowser(g) THEN {FlowOf(g)} ELSE {},
         Tokens(r, l, g), UNCHANGED <<flow, made>>
  PROVE  \A q \in Requests : HeldOK(req[q])'
  <1>1. grant[g] \in Grant /\ grant \in [Grants -> Grant \cup {Nil}]
    BY DEF HInv, LInv, TypeOK
  <1>2. grant' = [grant EXCEPT ![g].status = "tokens"]
    BY DEF Tokens
  <1>3. \A h \in Grants : h # g => grant'[h] = grant[h]
    BY <1>1, <1>2
  <1>4. grant'[g] \in Grant /\ grant'[g].flow = grant[g].flow
    BY <1>1, <1>2 DEF Grant
  <1>5. Lasting
    BY <1>3, <1>4, NilAssumption DEF Lasting
  <1>6. CASE Finish(r)
    BY <1>5, <1>6, HeldEnd
  <1>7. CASE Goto(r, [l EXCEPT !.at = "insert"])
    <2> PICK m \in Local : m = [l EXCEPT !.at = "insert"]
      BY DEF Local, Steps
    <2>1. m.at = "insert" /\ m.grant = g /\ m.held = l.held
      BY DEF Local
    <2>2. FlowOf(g)' = FlowOf(g) /\ FromBrowser(g)' = FromBrowser(g)
      BY <1>4 DEF FlowOf, ProviderOf, FromBrowser
    <2>3. HeldOK(m)'
      BY <2>1, <2>2 DEF HeldOK
    <2> QED
      BY <1>5, <1>7, <2>3, HeldStep
  <1> QED
    BY <1>6, <1>7 DEF Tokens

LEMMA BrowseHeld == ASSUME HInv, Browse PROVE \A q \in Requests : HeldOK(req[q])'
  <1>1. req' = req
    BY DEF Browse, Initiate, Expire, Consent
  <1>2. Lasting
    BY DEF Browse, Initiate, Expire, Consent, Lasting, HInv, LInv, TypeOK
  <1> SUFFICES ASSUME NEW q \in Requests PROVE HeldOK(req[q])'
    OBVIOUS
  <1> PICK m \in Local : m = req[q]
    BY DEF HInv, LInv, TypeOK
  <1>3. HeldOK(m)'
    BY <1>2, StillHeld DEF HInv, LInv
  <1> QED
    BY <1>1, <1>3 DEF HeldOK, FlowOf, ProviderOf, FromBrowser

LEMMA ArriveHeld == ASSUME HInv, NEW r \in Requests, Arrive(r) PROVE \A q \in Requests : HeldOK(req[q])'
  <1>1. ASSUME NEW u \in Users, DeleteAccount(r, u) PROVE \A q \in Requests : HeldOK(req[q])'
    <2> PICK l \in Local : l = [Idle EXCEPT !.at = "revokeUser", !.user = u, !.todo = LinksOf(u)]
      BY DEF Idle, Local, Steps, LinksOf
    <2>1. Goto(r, l) /\ UNCHANGED <<flow, grant, made>> /\ l.at = "revokeUser" /\ l.held = {} /\ l.user = u
      BY <1>1 DEF DeleteAccount, Begin, Goto, Idle
    <2> QED
      BY <2>1, HeldMove DEF HeldOK
  <1>2. ASSUME NEW g \in Grants, NEW u \in Users, Poll(r, u, g) PROVE \A q \in Requests : HeldOK(req[q])'
    <2> PICK l \in Local : l = [Idle EXCEPT !.at = "obtain", !.user = u, !.grant = g]
      BY DEF Idle, Local, Steps
    <2>1. Goto(r, l) /\ UNCHANGED <<flow, grant, made>> /\ l.at = "obtain" /\ l.held = {}
      BY <1>2 DEF Poll, Begin, Goto, Idle
    <2> QED
      BY <2>1, HeldMove DEF HeldOK
  <1>3. ASSUME NEW g \in Grants, UnlinkEmail(r, g) PROVE \A q \in Requests : HeldOK(req[q])'
    <2> PICK l \in Local : l = [Idle EXCEPT !.at = "unlink", !.user = link[g], !.grant = g]
      BY <1>3 DEF UnlinkEmail, Idle, Local, Steps, HInv, LInv, TypeOK
    <2>1. Goto(r, l) /\ UNCHANGED <<flow, grant, made>> /\ l.at = "unlink"
      BY <1>3 DEF UnlinkEmail, Begin, Goto, Idle
    <2> QED
      BY <2>1, HeldMove DEF HeldOK
  <1>4. ASSUME NEW g \in Grants, NEW u \in Users, Callback(r, u, g) PROVE \A q \in Requests : HeldOK(req[q])'
    <2> PICK l \in Local : l = [Idle EXCEPT !.at = "dropState", !.user = u, !.grant = g]
      BY DEF Idle, Local, Steps
    <2>1. /\ Goto(r, l) /\ UNCHANGED <<flow, grant, made>>
          /\ l.at = "dropState" /\ l.grant = g /\ FromBrowser(g)
      BY <1>4 DEF Callback, Begin, Goto, Idle, FromBrowser
    <2> QED
      BY <2>1, HeldMove DEF HeldOK
  <1>5. ASSUME NEW e \in Emails, MetaDeletion(r, e) PROVE \A q \in Requests : HeldOK(req[q])'
    <2> PICK l \in Local : l = [Idle EXCEPT !.at = "revokeMeta", !.email = e, !.todo = MetaLinks(e)]
      BY DEF Idle, Local, Steps, MetaLinks
    <2>1. Goto(r, l) /\ UNCHANGED <<flow, grant, made>> /\ l.at = "revokeMeta"
      BY <1>5 DEF MetaDeletion, Begin, Goto, Idle
    <2> QED
      BY <2>1, HeldMove DEF HeldOK
  <1> QED
    BY <1>1, <1>2, <1>3, <1>4, <1>5 DEF Arrive

\* The rows a deletion loads or meets are its user's flows.
LEMMA RowsAreFlows ==
  ASSUME LInv, NEW u \in Users
  PROVE  /\ RowsOf(u) \subseteq Flows \cup Grants
         /\ \A s \in Flows \cap RowsOf(u) : flow[s] # Nil /\ flow[s].user = u
  BY RowsAssumption DEF RowsOf, LinksOf, StatesOf, LInv, Sources, StatesOfFlows

LEMMA MovesHeld ==
  ASSUME HInv, NEW r \in Requests,
         \/ DropState(r) \/ RefreshLink(r) \/ RevokeNext(r) \/ LoadChildren(r) \/ DeleteChild(r)
         \/ DeleteUserRow(r) \/ Cascade(r)
  PROVE  \A q \in Requests : HeldOK(req[q])'
  <1> DEFINE me == req[r]
  <1>0. me \in Local /\ LocalOK(me) /\ HeldOK(me) /\ UNCHANGED <<flow, grant, made>>
    BY DEF HInv, LInv, TypeOK, DropState, RefreshLink, RevokeNext, LoadChildren, DeleteChild, DeleteUserRow,
           Cascade
  <1>1. CASE DropState(r)
    <2>1. FlowOf(me.grant) \in Flows /\ FromBrowser(me.grant)
      BY <1>0, <1>1 DEF DropState, LocalOK, LinkSteps, HeldOK, FlowOf, HInv, LInv, TypeOK, Grant
    <2> DEFINE held == IF Present(FlowOf(me.grant)) THEN {FlowOf(me.grant)} ELSE {}
    <2> PICK l \in Local : l = [me EXCEPT !.at = "obtain", !.held = held]
      BY <1>0, <2>1 DEF Local, Steps
    <2>2. Goto(r, l) /\ l.at = "obtain" /\ l.grant = me.grant /\ l.held \subseteq {FlowOf(me.grant)}
      BY <1>0, <1>1 DEF DropState, Local
    <2>3. HeldOK(l)
      BY <2>1, <2>2 DEF HeldOK
    <2> QED
      BY <1>0, <2>2, <2>3, HeldMove
  <1>2. CASE RevokeNext(r)
    <2> PICK g \in me.todo : Goto(r, [me EXCEPT !.todo = @ \ {g}])
      BY <1>2 DEF RevokeNext
    <2> PICK l \in Local : l = [me EXCEPT !.todo = @ \ {g}]
      BY <1>0 DEF Local
    <2>1. l.at = me.at /\ l.held = me.held /\ l.at \in {"revokeUser", "revokeMeta"} /\ Goto(r, l)
      BY <1>0, <1>2 DEF RevokeNext, Local
    <2>2. HeldOK(l)
      BY <1>0, <2>1 DEF HeldOK
    <2> QED
      BY <1>0, <2>1, <2>2, HeldMove
  <1>3. ASSUME NEW u \in Users, me.user = u, NEW l \in Local, l.at \in {"flush", "cascade"}, l.user = u, Goto(r, l),
               \A s \in Flows \cap (l.todo \cup l.held) :
                 s \in RowsOf(u) \/ (me.at \in {"flush", "cascade"} /\ s \in me.todo \cup me.held)
        PROVE  \A q \in Requests : HeldOK(req[q])'
    <2>1. \A s \in Flows \cap (l.todo \cup l.held) : flow[s] # Nil /\ flow[s].user = u
      BY <1>0, <1>3, RowsAreFlows DEF HInv, HeldOK
    <2>2. HeldOK(l)
      BY <1>3, <2>1 DEF HeldOK
    <2> QED
      BY <1>0, <1>3, <2>2, HeldMove
  <1>4. CASE LoadChildren(r)
    <2> PICK u \in Users : u = me.user
      BY <1>0, <1>4 DEF LoadChildren, HeldOK
    <2>1. RowsOf(u) \subseteq Flows \cup Grants /\ me.held = {}
      BY <1>0, <1>4, RowsAreFlows DEF LoadChildren, HeldOK, HInv
    <2> PICK l \in Local : l = [me EXCEPT !.at = "flush", !.todo = RowsOf(u)]
      BY <1>0, <2>1 DEF Local, Steps
    <2>2. Goto(r, l) /\ l.at = "flush" /\ l.user = u /\ l.todo = RowsOf(u) /\ l.held = {}
      BY <1>0, <1>4, <2>1 DEF LoadChildren, Local
    <2> QED
      BY <1>3, <2>2
  <1>5. CASE DeleteChild(r)
    <2> PICK x \in me.todo : Goto(r, [me EXCEPT !.todo = @ \ {x}, !.held = IF Present(x) THEN @ \cup {x} ELSE @])
      BY <1>5 DEF DeleteChild
    <2> DEFINE held == IF Present(x) THEN me.held \cup {x} ELSE me.held
    <2>1. me.at = "flush" /\ x \in Flows \cup Grants /\ held \subseteq Flows \cup Grants /\ held \subseteq me.held \cup {x}
      BY <1>0, <1>5 DEF DeleteChild, Local
    <2> PICK u \in Users : u = me.user
      BY <1>0, <2>1 DEF HeldOK
    <2> PICK l \in Local : l = [me EXCEPT !.todo = @ \ {x}, !.held = held]
      BY <1>0, <2>1 DEF Local
    <2>2. Goto(r, l) /\ l.at = "flush" /\ l.user = u /\ l.todo = me.todo \ {x} /\ l.held = held
      BY <1>0, <2>1 DEF Local
    <2> HIDE DEF held
    <2>3. l.todo \cup l.held \subseteq me.todo \cup me.held
      BY <2>1, <2>2
    <2> QED
      BY <1>3, <2>1, <2>2, <2>3
  <1>6. CASE DeleteUserRow(r)
    <2> PICK l \in Local : l = [me EXCEPT !.at = "cascade"]
      BY <1>0 DEF Local, Steps
    <2>1. me.at = "flush" /\ l.at = "cascade" /\ l.user = me.user /\ l.todo = me.todo /\ l.held = me.held
      BY <1>0, <1>6 DEF DeleteUserRow, Local
    <2> PICK u \in Users : u = me.user
      BY <1>0, <2>1 DEF HeldOK
    <2>2. CASE Goto(r, l)
      BY <1>3, <2>1, <2>2
    <2>3. CASE Finish(r)
      BY <1>0, <2>3, HeldEnd, SameLasting
    <2> QED
      BY <1>6, <2>2, <2>3 DEF DeleteUserRow
  <1>7. CASE Cascade(r)
    <2>1. me.at = "cascade"
      BY <1>7 DEF Cascade
    <2> PICK u \in Users : u = me.user
      BY <1>0, <2>1 DEF HeldOK
    <2> PICK x \in RowsOf(u) : Goto(r, [me EXCEPT !.held = @ \cup {x}])
      BY <1>7 DEF Cascade
    <2>2. x \in Flows \cup Grants
      BY RowsAreFlows DEF HInv
    <2> PICK l \in Local : l = [me EXCEPT !.held = @ \cup {x}]
      BY <1>0, <2>2 DEF Local
    <2>3. Goto(r, l) /\ l.at = "cascade" /\ l.user = u /\ l.todo = me.todo /\ l.held = me.held \cup {x}
      BY <1>0, <2>1 DEF Local
    <2> QED
      BY <1>3, <2>1, <2>3
  <1>8. CASE RefreshLink(r)
    <2> PICK l \in Local : l = [me EXCEPT !.at = "cleanup"]
      BY <1>0 DEF Local, Steps
    <2>1. me.at = "refresh" /\ l.at = "cleanup" /\ l.grant = me.grant
      BY <1>0, <1>8 DEF RefreshLink, Local
    <2>2. HeldOK(l)
      BY <1>0, <2>1 DEF HeldOK
    <2>3. CASE Goto(r, l)
      BY <1>0, <2>2, <2>3, HeldMove
    <2>4. CASE Finish(r)
      BY <1>0, <2>4, HeldEnd, SameLasting
    <2> QED
      BY <1>8, <2>3, <2>4 DEF RefreshLink
  <1> QED
    BY <1>1, <1>2, <1>4, <1>5, <1>6, <1>7, <1>8

LEMMA InsertHeld == ASSUME HInv, NEW r \in Requests, InsertLink(r) PROVE \A q \in Requests : HeldOK(req[q])'
  <1> DEFINE me == req[r]
             s == FlowOf(me.grant)
  <1>0. /\ me \in Local /\ LocalOK(me) /\ me.grant \in Grants /\ s \in Flows /\ made \in [Flows -> 0 .. 2]
        /\ UNCHANGED <<flow, grant>>
    BY DEF HInv, LInv, TypeOK, InsertLink, LocalOK, LinkSteps, FlowOf, Grant, Abort
  <1>1. CASE Abort(r)
    BY <1>1, HeldEnd, SameLasting DEF Abort
  <1>2. CASE /\ made' = [made EXCEPT ![s] = IF @ < 2 THEN @ + 1 ELSE @]
             /\ IF ProviderOf(me.grant) \in DeviceProviders
                THEN Goto(r, [me EXCEPT !.at = "refresh"])
                ELSE Finish(r)
    <2> PICK t \in Flows : t = s
      BY <1>0
    <2>1. made'[t] > 0 /\ \A o \in Flows \ {t} : made'[o] = made[o]
      BY <1>0, <1>2
    <2>2. Lasting
      BY <1>0, <2>1 DEF Lasting
    <2>3. CASE Finish(r)
      BY <2>2, <2>3, HeldEnd
    <2>4. CASE ProviderOf(me.grant) \in DeviceProviders /\ Goto(r, [me EXCEPT !.at = "refresh"])
      <3> PICK l \in Local : l = [me EXCEPT !.at = "refresh"]
        BY <1>0 DEF Local, Steps
      <3>1. l.at = "refresh" /\ l.grant = me.grant /\ Goto(r, l)
        BY <1>0, <2>4 DEF Local
      <3>2. FlowOf(l.grant)' = t /\ ProviderOf(l.grant)' \in DeviceProviders
        BY <1>0, <2>4, <3>1 DEF FlowOf, ProviderOf
      <3>3. HeldOK(l)'
        BY <2>1, <3>1, <3>2 DEF HeldOK
      <3> QED
        BY <2>2, <3>1, <3>3, HeldStep
    <2> QED
      BY <1>2, <2>3, <2>4
  <1> QED
    BY <1>1, <1>2 DEF InsertLink

LEMMA NextHInv == HInv /\ [Next]_vars => HInv'
  <1> SUFFICES ASSUME HInv, [Next]_vars PROVE \A q \in Requests : HeldOK(req[q])'
    BY NextLInv DEF HInv
  <1>1. CASE Browse
    BY <1>1, BrowseHeld
  <1>2. ASSUME NEW r \in Requests, Proceed(r) PROVE \A q \in Requests : HeldOK(req[q])'
    <2>1. CASE Obtain(r)
      <3>1. /\ req[r] \in Local /\ req[r].grant \in Grants /\ grant[req[r].grant] # Nil
            /\ req[r].held \subseteq IF FromBrowser(req[r].grant) THEN {FlowOf(req[r].grant)} ELSE {}
        BY <2>1 DEF Obtain, HInv, LInv, TypeOK, LocalOK, LinkSteps, HeldOK
      <3>2. CASE Finish(r) /\ UNCHANGED grant
        BY <2>1, <3>2, HeldEnd, SameLasting DEF Obtain
      <3>3. CASE Tokens(r, req[r], req[r].grant)
        <4> PICK l \in Local : l = req[r]
          BY <3>1
        <4> PICK g \in Grants : g = req[r].grant
          BY <3>1
        <4>1. /\ Tokens(r, l, g) /\ l.grant = g /\ grant[g] # Nil
              /\ l.held \subseteq IF FromBrowser(g) THEN {FlowOf(g)} ELSE {}
          BY <3>1, <3>3
        <4> QED
          BY <2>1, <4>1, TokensHeld DEF Obtain
      <3> QED
        BY <2>1, <3>2, <3>3 DEF Obtain
    <2>2. CASE CleanUpStates(r) \/ DeleteLink(r) \/ CommitDeletion(r) \/ DeleteMetaLinks(r)
      <3>1. Finish(r) /\ UNCHANGED <<flow, grant, made>>
        BY <2>2 DEF CleanUpStates, DeleteLink, CommitDeletion, DeleteMetaLinks
      <3> QED
        BY <3>1, HeldEnd, SameLasting
    <2> QED
      BY <1>2, <2>1, <2>2, InsertHeld, MovesHeld DEF Proceed
  <1>3. ASSUME NEW r \in Requests, RollBack(r) PROVE \A q \in Requests : HeldOK(req[q])'
    BY <1>3, HeldEnd, SameLasting DEF RollBack, Abort
  <1>4. CASE UNCHANGED vars
    <2>1. UNCHANGED <<flow, grant, made, req>>
      BY <1>4 DEF vars
    <2> QED
      BY <2>1 DEF HInv, HeldOK, FlowOf, ProviderOf, FromBrowser
  <1> QED
    BY <1>1, <1>2, <1>3, <1>4, ArriveHeld DEF Next

\* A state row goes for one of three reasons.
Accounted(s) ==
  oauthState[s] # Nil /\ oauthState'[s] = Nil =>
    LET u == oauthState[s].user IN
    \/ u \notin account'
    \/ \E g \in Grants :
         grant[g] # Nil /\ FlowOf(g) = s /\ link[g] = Nil /\ link'[g] = u
    \/ /\ oauthState[s].provider \in DeviceProviders
       /\ \E r \in Requests :
            /\ req[r].user = u /\ req[r].grant # Nil
            /\ ProviderOf(req[r].grant) = oauthState[s].provider
            /\ made[FlowOf(req[r].grant)] > 0

LEMMA StepAccounted == ASSUME HInv, [Next]_vars, NEW s \in Flows PROVE Accounted(s)
  <1>0. /\ oauthState \in [Flows -> StateRow \cup {Nil}]
        /\ oauthState[s] # Nil => flow[s] # Nil /\ flow[s].user = oauthState[s].user
    BY DEF HInv, LInv, TypeOK, Sources, StatesOfFlows
  <1>1. CASE oauthState' = oauthState
    BY <1>1 DEF Accounted
  <1>2. CASE Browse
    <2>1. ASSUME NEW u \in Users, NEW t \in Flows, NEW p \in Providers, Initiate(u, t, p) PROVE oauthState'[s] = Nil => oauthState[s] = Nil
      <3> DEFINE row == [user |-> u, provider |-> p, fresh |-> TRUE]
      <3>1. row \in StateRow
        BY DEF StateRow
      <3>2. row # Nil
        BY <3>1, NilAssumption
      <3>3. oauthState' = [oauthState EXCEPT ![t] = row]
        BY <2>1 DEF Initiate
      <3> HIDE DEF row
      <3> QED
        BY <1>0, <3>2, <3>3
    <2>2. ASSUME NEW t \in Flows, Expire(t) PROVE oauthState'[s] = Nil => oauthState[s] = Nil
      <3>1. oauthState[t] \in StateRow
        BY <1>0, <2>2 DEF Expire
      <3>2. [oauthState[t] EXCEPT !.fresh = FALSE] \in StateRow
        BY <3>1 DEF StateRow
      <3>3. [oauthState[t] EXCEPT !.fresh = FALSE] # Nil
        BY <3>2, NilAssumption
      <3>4. oauthState' = [oauthState EXCEPT ![t] = [oauthState[t] EXCEPT !.fresh = FALSE]]
        BY <1>0, <2>2 DEF Expire
      <3> QED
        BY <1>0, <3>3, <3>4
    <2>3. ASSUME NEW g \in Grants, NEW t \in Flows, NEW e \in Emails, Consent(g, t, e) PROVE oauthState' = oauthState
      BY <2>3 DEF Consent, tables
    <2> QED
      BY <1>2, <2>1, <2>2, <2>3 DEF Browse, Accounted
  <1>3. ASSUME NEW r \in Requests, InsertLink(r), oauthState' # oauthState PROVE Accounted(s)
    <2> DEFINE me == req[r]
    <2>0. /\ me \in Local /\ LocalOK(me) /\ HeldOK(me) /\ me.at = "insert"
          /\ oauthState' = WithoutStates(me.held) /\ link' = [link EXCEPT ![me.grant] = me.user]
          /\ SameMailbox(me.user, grant[me.grant].email) = {}
      BY <1>3 DEF InsertLink, Abort, tables, HInv, LInv, TypeOK
    <2> PICK g \in Grants : g = me.grant
      BY <2>0 DEF LocalOK, LinkSteps
    <2>1. /\ grant[g] # Nil /\ me.user \in Users
          /\ FromBrowser(g) => flow[FlowOf(g)].user = me.user
          /\ me.held \subseteq IF FromBrowser(g) THEN {FlowOf(g)} ELSE {}
      BY <2>0 DEF LocalOK, LinkSteps, HeldOK
    <2>2. FromBrowser(g) => link[g] = Nil
      BY <2>0, <2>1 DEF SameMailbox, LinksOf, HInv, LInv, Sources, LinksOfGrants
    <2>3. link'[g] = me.user
      BY <2>0 DEF HInv, LInv, TypeOK
    <2>4. oauthState[s] # Nil /\ oauthState'[s] = Nil => s = FlowOf(g) /\ FromBrowser(g)
      BY <2>0, <2>1 DEF WithoutStates
    <2> QED
      BY <1>0, <2>1, <2>2, <2>3, <2>4 DEF Accounted
  <1>4. ASSUME NEW r \in Requests, CleanUpStates(r) PROVE Accounted(s)
    <2> DEFINE me == req[r]
    <2>0. /\ LocalOK(me) /\ HeldOK(me) /\ me.at = "cleanup"
          /\ oauthState' = WithoutStates(StatesAt(me.user, ProviderOf(me.grant)))
      BY <1>4 DEF CleanUpStates, HInv, LInv
    <2>1. /\ me.grant # Nil /\ made[FlowOf(me.grant)] > 0
          /\ ProviderOf(me.grant) \in DeviceProviders
      BY <2>0, NilAssumption DEF LocalOK, LinkSteps, HeldOK
    <2>2. oauthState[s] # Nil /\ oauthState'[s] = Nil =>
            oauthState[s].user = me.user /\ oauthState[s].provider = ProviderOf(me.grant)
      BY <2>0 DEF WithoutStates, StatesAt, StatesOf
    <2> QED
      BY <2>1, <2>2 DEF Accounted
  <1>5. ASSUME NEW r \in Requests, CommitDeletion(r) PROVE Accounted(s)
    <2> DEFINE me == req[r]
    <2>0. /\ HeldOK(me) /\ me.at = "cascade"
          /\ oauthState' = WithoutStates(me.held) /\ account' = account \ {me.user}
      BY <1>5 DEF CommitDeletion, HInv
    <2>1. oauthState[s] # Nil /\ oauthState'[s] = Nil => s \in me.held
      BY <2>0 DEF WithoutStates
    <2>2. oauthState[s] # Nil /\ oauthState'[s] = Nil => oauthState[s].user = me.user
      BY <1>0, <2>0, <2>1 DEF HeldOK
    <2> QED
      BY <2>0, <2>2 DEF Accounted
  <1>6. ASSUME NEW r \in Requests, Arrive(r) \/ Proceed(r) \/ RollBack(r), oauthState' # oauthState
        PROVE  InsertLink(r) \/ CleanUpStates(r) \/ CommitDeletion(r)
    <2>1. ~Arrive(r)
      BY <1>6 DEF Arrive, DeleteAccount, Poll, UnlinkEmail, Callback, MetaDeletion, tables
    <2>2. ~RollBack(r)
      BY <1>6 DEF RollBack, Abort, tables
    <2> QED
      BY <1>6, <2>1, <2>2 DEF Proceed, DropState, Obtain, RefreshLink, DeleteLink, RevokeNext, LoadChildren, DeleteChild,
                              DeleteUserRow, Cascade, DeleteMetaLinks, tables
  <1>7. CASE UNCHANGED vars
    BY <1>1, <1>7 DEF vars
  <1> QED
    BY <1>1, <1>2, <1>3, <1>4, <1>5, <1>6, <1>7 DEF Next

\* A callback that fails, waits in vain or is cut off leaves its flow as it was:
\* a state row goes only with its account, with its link, or as a leftover of a
\* user whose poll has linked (handle_oauth_callback, poll_device_code).
THEOREM StateRowsAccounted == Spec => StateGoneOnlyWithLink
  <1>1. Init => HInv
    BY InitLInv DEF Init, HInv, HeldOK, Idle
  <1>2. HInv /\ [Next]_vars => [\A s \in Flows : Accounted(s)]_vars
    BY StepAccounted
  <1> QED
    BY <1>1, <1>2, NextHInv, PTL DEF Spec, StateGoneOnlyWithLink, Accounted
-----------------------------------------------------------------------------
(* What a step may change.                                                 *)

\* Grants, flows and what was asked for only ever grow.
Growing ==
  /\ \A g \in Grants : grant[g] # Nil =>
       /\ grant'[g] # Nil
       /\ grant'[g].flow = grant[g].flow /\ grant'[g].email = grant[g].email
       /\ grant[g].status = "tokens" => grant'[g].status = "tokens"
  /\ \A s \in Flows : flow[s] # Nil =>
       /\ flow'[s] = flow[s]
       /\ oauthState[s] = Nil => oauthState'[s] = Nil
  /\ asked \subseteq asked'

\* No link is made or taken away, and no state row goes.
Quiet ==
  /\ UNCHANGED <<link, made>>
  /\ \A s \in Flows : oauthState[s] # Nil => oauthState'[s] # Nil

LEMMA SameGrows ==
  ASSUME UNCHANGED <<flow, grant>>, asked \subseteq asked',
         \A s \in Flows : oauthState[s] = Nil => oauthState'[s] = Nil
  PROVE  Growing
  BY DEF Growing

LEMMA TokensGrow ==
  ASSUME LInv, NEW r \in Requests, NEW l \in Local, NEW g \in Grants, grant[g] # Nil,
         Tokens(r, l, g), UNCHANGED <<tables, flow, asked, made>>
  PROVE  /\ Growing /\ Quiet
         /\ grant'[g] # Nil /\ grant'[g].status = "tokens"
         /\ \A h \in Grants : h # g => grant'[h] = grant[h]
  <1>1. grant[g] \in Grant /\ grant \in [Grants -> Grant \cup {Nil}]
    BY DEF LInv, TypeOK
  <1>2. grant' = [grant EXCEPT ![g].status = "tokens"]
    BY DEF Tokens
  <1>3. \A h \in Grants : h # g => grant'[h] = grant[h]
    BY <1>1, <1>2
  <1>4. /\ grant'[g] \in Grant /\ grant'[g].flow = grant[g].flow
        /\ grant'[g].email = grant[g].email /\ grant'[g].status = "tokens"
    BY <1>1, <1>2 DEF Grant
  <1>5. Growing
    BY <1>3, <1>4, NilAssumption DEF Growing, tables
  <1> QED
    BY <1>3, <1>4, <1>5, NilAssumption DEF Quiet, tables

LEMMA BrowseGrows == ASSUME LInv, Browse PROVE Growing /\ Quiet
  <1>0. /\ grant \in [Grants -> Grant \cup {Nil}] /\ flow \in [Flows -> Flow \cup {Nil}]
        /\ oauthState \in [Flows -> StateRow \cup {Nil}]
    BY DEF LInv, TypeOK
  <1>1. ASSUME NEW u \in Users, NEW s \in Flows, NEW p \in Providers, Initiate(u, s, p) PROVE Growing /\ Quiet
    <2> PICK row \in StateRow : row = [user |-> u, provider |-> p, fresh |-> TRUE]
      BY DEF StateRow
    <2>1. oauthState' = [oauthState EXCEPT ![s] = row] /\ flow[s] = Nil
      BY <1>1 DEF Initiate
    <2>2. UNCHANGED <<grant, link, asked, made>> /\ \A o \in Flows : o # s => flow'[o] = flow[o]
      BY <1>0, <1>1 DEF Initiate
    <2> QED
      BY <1>0, <2>1, <2>2, NilAssumption DEF Growing, Quiet
  <1>2. ASSUME NEW s \in Flows, Expire(s) PROVE Growing /\ Quiet
    <2> PICK row \in StateRow : row = [oauthState[s] EXCEPT !.fresh = FALSE]
      BY <1>0, <1>2 DEF Expire, StateRow
    <2>1. oauthState' = [oauthState EXCEPT ![s] = row] /\ oauthState[s] # Nil
      BY <1>0, <1>2 DEF Expire
    <2>2. UNCHANGED <<flow, grant, link, asked, made>>
      BY <1>2 DEF Expire
    <2> QED
      BY <1>0, <2>1, <2>2, NilAssumption DEF Growing, Quiet
  <1>3. ASSUME NEW g \in Grants, NEW s \in Flows, NEW e \in Emails, Consent(g, s, e) PROVE Growing /\ Quiet
    <2>1. grant[g] = Nil /\ UNCHANGED <<tables, flow, asked, made>> /\ \A h \in Grants : h # g => grant'[h] = grant[h]
      BY <1>0, <1>3 DEF Consent
    <2> QED
      BY <2>1 DEF Growing, Quiet, tables
  <1> QED
    BY <1>1, <1>2, <1>3 DEF Browse

\* The five commits that write a link or remove a state row.
Writes(r) ==
  \/ InsertLink(r) /\ ~Abort(r)
  \/ CleanUpStates(r)
  \/ DeleteLink(r)
  \/ CommitDeletion(r)
  \/ DeleteMetaLinks(r)

LEMMA ArriveGrows == ASSUME LInv, NEW r \in Requests, Arrive(r) PROVE Growing /\ Quiet
  <1>1. ASSUME NEW u \in Users, DeleteAccount(r, u) \/ \E g \in Grants : Callback(r, u, g) \/ Poll(r, u, g)
        PROVE  Growing /\ Quiet
    <2>1. UNCHANGED <<tables, flow, grant, asked, made>>
      BY <1>1 DEF DeleteAccount, Callback, Poll
    <2> QED
      BY <2>1, SameGrows DEF Quiet, tables
  <1>2. ASSUME NEW g \in Grants, UnlinkEmail(r, g) PROVE Growing /\ Quiet
    <2>1. UNCHANGED <<tables, flow, grant, made>> /\ asked \subseteq asked'
      BY <1>2 DEF UnlinkEmail, Revoke
    <2> QED
      BY <2>1, SameGrows DEF Quiet, tables
  <1>3. ASSUME NEW e \in Emails, MetaDeletion(r, e) PROVE Growing /\ Quiet
    <2>1. UNCHANGED <<tables, flow, grant, asked, made>>
      BY <1>3 DEF MetaDeletion
    <2> QED
      BY <2>1, SameGrows DEF Quiet, tables
  <1> QED
    BY <1>1, <1>2, <1>3 DEF Arrive

LEMMA ProceedGrows ==
  ASSUME LInv, NEW r \in Requests, Proceed(r) \/ RollBack(r) PROVE Growing /\ (Quiet \/ Writes(r))
  <1>1. CASE \/ DropState(r) \/ RefreshLink(r) \/ LoadChildren(r) \/ DeleteChild(r) \/ DeleteUserRow(r)
             \/ Cascade(r) \/ Abort(r)
    <2>1. UNCHANGED <<tables, flow, grant, asked, made>>
      BY <1>1 DEF DropState, RefreshLink, LoadChildren, DeleteChild, DeleteUserRow, Cascade, Abort
    <2> QED
      BY <2>1, SameGrows DEF Quiet, tables
  <1>2. CASE RevokeNext(r)
    <2>1. UNCHANGED <<tables, flow, grant, made>> /\ asked \subseteq asked'
      BY <1>2 DEF RevokeNext, Revoke
    <2> QED
      BY <2>1, SameGrows DEF Quiet, tables
  <1>3. CASE Obtain(r)
    <2>1. /\ req[r] \in Local /\ req[r].grant \in Grants /\ grant[req[r].grant] # Nil
          /\ UNCHANGED <<tables, flow, asked, made>>
      BY <1>3 DEF Obtain, LInv, TypeOK, LocalOK, LinkSteps
    <2>2. CASE UNCHANGED grant
      BY <2>1, <2>2, SameGrows DEF Quiet, tables
    <2> PICK l \in Local : l = req[r]
      BY <2>1
    <2> PICK g \in Grants : g = req[r].grant
      BY <2>1
    <2>3. CASE Tokens(r, req[r], req[r].grant)
      BY <2>1, <2>3, TokensGrow
    <2> QED
      BY <1>3, <2>2, <2>3 DEF Obtain
  <1>4. CASE Writes(r)
    <2>1. /\ UNCHANGED <<flow, grant>> /\ asked \subseteq asked'
          /\ \A s \in Flows : oauthState[s] = Nil => oauthState'[s] = Nil
      BY <1>4 DEF Writes, InsertLink, CleanUpStates, DeleteLink, CommitDeletion, DeleteMetaLinks, WithoutStates
    <2> QED
      BY <1>4, <2>1, SameGrows
  <1> QED
    BY <1>1, <1>2, <1>3, <1>4 DEF Proceed, RollBack, Writes

LEMMA StepGrows == ASSUME LInv, [Next]_vars PROVE Growing /\ (Quiet \/ \E r \in Requests : Writes(r))
  <1>1. CASE UNCHANGED vars
    BY <1>1, SameGrows DEF vars, Quiet
  <1> QED
    BY <1>1, BrowseGrows, ArriveGrows, ProceedGrows DEF Next

-----------------------------------------------------------------------------
(* A grant is redeemed once, and a device code links once.                 *)

Redeemed(g) == grant[g] # Nil /\ grant[g].status = "tokens"

OneDeviceGrant ==
  \A g, h \in Grants :
    /\ grant[g] # Nil /\ grant[h] # Nil /\ FlowOf(g) = FlowOf(h)
    /\ ~FromBrowser(g)
    => g = h

\* What has been linked was redeemed before, and is known to have been linked.
MadeRedeemed == \A s \in Flows : made[s] > 0 => \E g \in Grants : FlowOf(g) = s /\ Redeemed(g)
LinksRedeemed == \A g \in Grants : link[g] # Nil => Redeemed(g) /\ made[FlowOf(g)] > 0

\* A request about to link redeemed the grant itself, and no other request has
\* it; the only grant of a device flow was then never linked.
Ready(g) == Redeemed(g) /\ (FromBrowser(g) \/ made[FlowOf(g)] = 0)
InsertsRedeemed == \A r \in Requests : req[r].at = "insert" => Ready(req[r].grant)
OneInsert ==
  \A q, r \in Requests :
    req[q].at = "insert" /\ req[r].at = "insert" /\ req[q].grant = req[r].grant => q = r

GInv == HInv /\ OneDeviceGrant /\ MadeRedeemed /\ LinksRedeemed /\ InsertsRedeemed /\ OneInsert

LEMMA InitGInv == Init => GInv
  <1> SUFFICES ASSUME Init PROVE GInv
    OBVIOUS
  <1>1. HInv
    BY InitLInv DEF Init, HInv, HeldOK, Idle
  <1>2. OneDeviceGrant /\ MadeRedeemed /\ LinksRedeemed /\ InsertsRedeemed /\ OneInsert
    BY DEF Init, OneDeviceGrant, MadeRedeemed, LinksRedeemed, InsertsRedeemed, OneInsert, Idle
  <1> QED
    BY <1>1, <1>2 DEF GInv

\* The flow of a grant is known, and both are for ever.
LEMMA GrantStays ==
  ASSUME LInv, Growing, NEW g \in Grants, grant[g] # Nil
  PROVE  /\ FlowOf(g) \in Flows /\ flow[FlowOf(g)] # Nil
         /\ grant'[g] # Nil /\ FlowOf(g)' = FlowOf(g) /\ flow'[FlowOf(g)] = flow[FlowOf(g)]
         /\ ProviderOf(g)' = ProviderOf(g) /\ FromBrowser(g)' = FromBrowser(g)
         /\ Redeemed(g) => Redeemed(g)'
  <1>1. FlowOf(g) \in Flows /\ flow[FlowOf(g)] # Nil
    BY DEF LInv, TypeOK, Grant, Sources, GrantsOfFlows, FlowOf
  <1>2. grant'[g] # Nil /\ FlowOf(g)' = FlowOf(g) /\ flow'[FlowOf(g)] = flow[FlowOf(g)]
    BY <1>1 DEF Growing, FlowOf
  <1>3. ProviderOf(g)' = ProviderOf(g) /\ FromBrowser(g)' = FromBrowser(g)
    BY <1>2 DEF ProviderOf, FromBrowser
  <1> QED
    BY <1>1, <1>2, <1>3 DEF Growing, Redeemed

\* Request r redeems the grant it goes on to link, or it alone moves, elsewhere.
Redeems(r) ==
  /\ Obtain(r) /\ req[r].at = "obtain"
  /\ req[r].grant \in Grants /\ grant[req[r].grant] # Nil /\ grant[req[r].grant].status = "code"
  /\ Redeemed(req[r].grant)'
  /\ req'[r].at = "insert" /\ req'[r].grant = req[r].grant
  /\ \A q \in Requests \ {r} : req'[q] = req[q]
  /\ UNCHANGED <<tables, flow, made>>
Elsewhere(r) == req'[r].at # "insert" /\ \A q \in Requests \ {r} : req'[q] = req[q]

LEMMA WhoMoves ==
  ASSUME LInv, NEW r \in Requests, Arrive(r) \/ Proceed(r) \/ RollBack(r)
  PROVE  Elsewhere(r) \/ Redeems(r)
  <1> DEFINE me == req[r]
  <1>0. req \in [Requests -> Local] /\ me \in Local
    BY DEF LInv, TypeOK
  <1>1. ASSUME NEW l, Goto(r, l), l.at # "insert" PROVE Elsewhere(r)
    BY <1>0, <1>1 DEF Goto, Elsewhere
  <1>2. ASSUME Finish(r) PROVE Elsewhere(r)
    BY <1>0, <1>2 DEF Finish, Elsewhere, Idle
  <1>3. CASE Arrive(r)
    BY <1>0, <1>3 DEF Arrive, DeleteAccount, Callback, Poll, UnlinkEmail, MetaDeletion, Begin, Idle, Elsewhere
  <1>4. CASE Obtain(r)
    <2>1. me.at = "obtain" /\ me.grant \in Grants /\ grant[me.grant] # Nil /\ UNCHANGED <<tables, flow, asked, made>>
      BY <1>0, <1>4 DEF Obtain, LInv, LocalOK, LinkSteps
    <2>2. CASE Tokens(r, me, me.grant) /\ ~Finish(r)
      <3>1. grant[me.grant].status = "code" /\ Goto(r, [me EXCEPT !.at = "insert"])
        BY <2>2 DEF Tokens
      <3> PICK g \in Grants : g = me.grant /\ grant[g] # Nil
        BY <2>1
      <3> PICK l \in Local : l = me
        BY <1>0
      <3>2. Redeemed(g)'
        BY <2>1, <2>2, TokensGrow DEF Redeemed
      <3>3. [me EXCEPT !.at = "insert"].at = "insert" /\ [me EXCEPT !.at = "insert"].grant = me.grant
        BY <1>0 DEF Local
      <3>4. req'[r] = [me EXCEPT !.at = "insert"] /\ \A q \in Requests \ {r} : req'[q] = req[q]
        BY <1>0, <3>1 DEF Goto
      <3> QED
        BY <1>4, <2>1, <3>1, <3>2, <3>3, <3>4 DEF Redeems
    <2> QED
      BY <1>2, <1>4, <2>2 DEF Obtain
  <1>5. CASE InsertLink(r) \/ RefreshLink(r) \/ DropState(r)
    <2> DEFINE held == IF Present(FlowOf(me.grant)) THEN {FlowOf(me.grant)} ELSE {}
    <2>1. /\ [me EXCEPT !.at = "refresh"].at # "insert"
          /\ [me EXCEPT !.at = "cleanup"].at # "insert"
          /\ [me EXCEPT !.at = "obtain", !.held = held].at # "insert"
      BY <1>0 DEF Local
    <2> QED
      BY <1>1, <1>2, <1>5, <2>1 DEF InsertLink, RefreshLink, DropState, Abort
  <1>6. CASE RevokeNext(r) \/ LoadChildren(r) \/ DeleteChild(r) \/ DeleteUserRow(r) \/ Cascade(r)
    <2>1. me.at # "insert"
      BY <1>6 DEF RevokeNext, LoadChildren, DeleteChild, DeleteUserRow, Cascade
    <2>2. \A S : [me EXCEPT !.todo = S].at # "insert"
      BY <1>0, <2>1 DEF Local
    <2>3. \A S : [me EXCEPT !.held = S].at # "insert"
      BY <1>0, <2>1 DEF Local
    <2>4. \A S, T : [me EXCEPT !.todo = S, !.held = T].at # "insert"
      BY <1>0, <2>1 DEF Local
    <2>5. [me EXCEPT !.at = "cascade"].at # "insert" /\ \A S : [me EXCEPT !.at = "flush", !.todo = S].at # "insert"
      BY <1>0 DEF Local
    <2>6. CASE RevokeNext(r)
      BY <1>1, <2>2, <2>6 DEF RevokeNext
    <2>7. CASE LoadChildren(r)
      BY <1>1, <2>5, <2>7 DEF LoadChildren
    <2>8. CASE DeleteChild(r)
      BY <1>1, <2>4, <2>8 DEF DeleteChild
    <2>9. CASE DeleteUserRow(r)
      BY <1>1, <1>2, <2>5, <2>9 DEF DeleteUserRow
    <2>10. CASE Cascade(r)
      BY <1>1, <2>3, <2>10 DEF Cascade
    <2> QED
      BY <1>6, <2>6, <2>7, <2>8, <2>9, <2>10
  <1>7. CASE CleanUpStates(r) \/ DeleteLink(r) \/ CommitDeletion(r) \/ DeleteMetaLinks(r) \/ RollBack(r)
    BY <1>2, <1>7 DEF CleanUpStates, DeleteLink, CommitDeletion, DeleteMetaLinks, RollBack, Abort
  <1> QED
    BY <1>3, <1>4, <1>5, <1>6, <1>7 DEF Proceed

-----------------------------------------------------------------------------
LEMMA WritesMove ==
  ASSUME LInv, NEW r \in Requests, Writes(r)
  PROVE  Elsewhere(r)
  <1>1. req[r].at # "obtain"
    BY DEF Writes, InsertLink, CleanUpStates, DeleteLink, CommitDeletion, DeleteMetaLinks
  <1>2. Proceed(r)
    BY DEF Writes, Proceed
  <1> QED
    BY <1>1, <1>2, WhoMoves DEF Redeems

\* A step makes nobody ready to insert, or one request redeems its grant.
LEMMA InsertSteps ==
  ASSUME LInv, [Next]_vars
  PROVE  \/ \A q \in Requests : req'[q].at = "insert" => req'[q] = req[q]
         \/ \E r \in Requests : Redeems(r)
  <1>1. CASE UNCHANGED req
    BY <1>1
  <1>2. Browse \/ UNCHANGED vars => UNCHANGED req
    BY DEF Browse, Initiate, Expire, Consent, vars
  <1>3. ASSUME NEW r \in Requests, Elsewhere(r), NEW q \in Requests, req'[q].at = "insert" PROVE req'[q] = req[q]
    BY <1>3 DEF Elsewhere
  <1> QED
    BY <1>1, <1>2, <1>3, WhoMoves DEF Next

\* What the COMMIT of a link writes.
LEMMA InsertWrites ==
  ASSUME HInv, NEW r \in Requests, InsertLink(r), ~Abort(r)
  PROVE  \E u \in Users, g \in Grants : \E s \in Flows :
         /\ req[r].at = "insert" /\ u = req[r].user /\ g = req[r].grant
         /\ grant[g] # Nil /\ s = FlowOf(g) /\ flow[s] # Nil
         /\ FromBrowser(g) => flow[s].user = u
         /\ u \in account /\ SameMailbox(u, grant[g].email) = {}
         /\ link' = [link EXCEPT ![g] = u]
         /\ oauthState' = WithoutStates(req[r].held)
         /\ made'[s] > 0 /\ (made[s] = 0 => made'[s] = 1) /\ \A o \in Flows \ {s} : made'[o] = made[o]
         /\ UNCHANGED <<account, flow, grant, asked>>
  <1> DEFINE me == req[r]
  <1>0. me \in Local /\ me.at = "insert" /\ LocalOK(me) /\ LInv
    BY DEF InsertLink, HInv, LInv, TypeOK
  <1> PICK u \in Users, g \in Grants :
         u = me.user /\ g = me.grant /\ grant[g] # Nil /\ (FromBrowser(g) => flow[FlowOf(g)].user = u)
    BY <1>0 DEF LocalOK, LinkSteps
  <1> PICK s \in Flows : s = FlowOf(g) /\ flow[s] # Nil
    BY <1>0 DEF FlowOf, LInv, TypeOK, Grant, Sources, GrantsOfFlows
  <1>1. /\ u \in account /\ SameMailbox(u, grant[g].email) = {}
        /\ link' = [link EXCEPT ![g] = u]
        /\ oauthState' = WithoutStates(me.held)
        /\ made' = [made EXCEPT ![s] = IF @ < 2 THEN @ + 1 ELSE @]
        /\ UNCHANGED <<account, flow, grant, asked>>
    BY DEF InsertLink
  <1>2. made \in [Flows -> 0 .. 2]
    BY <1>0 DEF LInv, TypeOK
  <1>3. /\ made'[s] = IF made[s] < 2 THEN made[s] + 1 ELSE made[s]
        /\ \A o \in Flows \ {s} : made'[o] = made[o]
    BY <1>1, <1>2
  <1>4. made[s] \in 0 .. 2
    BY <1>2
  <1>5. made'[s] > 0 /\ (made[s] = 0 => made'[s] = 1)
    BY <1>3, <1>4
  <1> QED
    BY <1>0, <1>1, <1>3, <1>5

\* The other commits make no link.
LEMMA OthersRemove ==
  ASSUME NEW r \in Requests, Writes(r), ~(InsertLink(r) /\ ~Abort(r))
  PROVE  UNCHANGED <<made, grant, flow, asked>> /\ \A g \in Grants : link'[g] \in {Nil, link[g]}
  BY DEF Writes, CleanUpStates, DeleteLink, CommitDeletion, DeleteMetaLinks, WithoutLinks

LEMMA MadeStays == ASSUME HInv, [Next]_vars, NEW s \in Flows, made[s] > 0 PROVE made'[s] > 0
  <1>1. ASSUME NEW r \in Requests, InsertLink(r), ~Abort(r) PROVE made'[s] > 0
    <2> PICK t \in Flows : made'[t] > 0 /\ \A o \in Flows \ {t} : made'[o] = made[o]
      BY <1>1, InsertWrites
    <2> QED
      OBVIOUS
  <1> QED
    BY <1>1, OthersRemove, StepGrows DEF Quiet, HInv

-----------------------------------------------------------------------------
LEMMA StepOneDeviceGrant == ASSUME LInv, OneDeviceGrant, [Next]_vars PROVE OneDeviceGrant'
  <1>0. /\ Growing /\ grant \in [Grants -> Grant \cup {Nil}]
        /\ \A g \in Grants : grant[g] # Nil => flow[FlowOf(g)] # Nil /\ FlowOf(g) \in Flows
    BY StepGrows DEF LInv, TypeOK, Sources, GrantsOfFlows, Grant, FlowOf
  <1>1. \A g \in Grants : grant[g] # Nil => FlowOf(g)' = FlowOf(g) /\ (FromBrowser(g)' <=> FromBrowser(g))
    BY <1>0, GrantStays
  <1>2. CASE \A g \in Grants : grant[g] = Nil => grant'[g] = Nil
    BY <1>1, <1>2 DEF OneDeviceGrant
  <1>3. ASSUME NEW g \in Grants, NEW s \in Flows, NEW e \in Emails, Consent(g, s, e) PROVE OneDeviceGrant'
    <2>1. /\ flow[s] # Nil /\ grant[g] = Nil /\ flow' = flow /\ flow[s] \in Flow
          /\ flow[s].provider \in DeviceProviders => \A h \in Grants : grant[h] # Nil => FlowOf(h) # s
          /\ \A h \in Grants : h # g => grant'[h] = grant[h]
          /\ grant'[g].flow = s
      BY <1>0, <1>3 DEF Consent, LInv, TypeOK
    <2>2. FlowOf(g)' = s /\ ProviderOf(g)' = flow[s].provider /\ flow[s].provider \in Providers
      BY <2>1 DEF FlowOf, ProviderOf, Flow
    <2>3. ~FromBrowser(g)' => \A h \in Grants : grant[h] # Nil => FlowOf(h) # s
      BY <2>1, <2>2 DEF FromBrowser, Providers
    <2>4. \A h \in Grants : h # g /\ grant'[h] # Nil /\ FlowOf(h)' = s => (FromBrowser(h)' <=> FromBrowser(g)')
      BY <2>2 DEF FromBrowser, ProviderOf
    <2> QED
      BY <1>1, <2>1, <2>2, <2>3, <2>4 DEF OneDeviceGrant
  <1>4. ASSUME NEW g \in Grants, grant[g] = Nil, grant'[g] # Nil
        PROVE  \E h \in Grants, s \in Flows, e \in Emails : Consent(h, s, e)
    <2>1. ~UNCHANGED grant
      BY <1>4
    <2>2. ASSUME NEW r \in Requests, Obtain(r) PROVE FALSE
      <3> PICK h \in Grants : h = req[r].grant /\ grant[h] # Nil
        BY <2>2 DEF Obtain, LInv, LocalOK, LinkSteps
      <3>1. grant' = [grant EXCEPT ![h].status = "tokens"]
        BY <2>1, <2>2 DEF Obtain, Tokens
      <3> QED
        BY <1>0, <1>4, <3>1
    <2>3. ASSUME NEW r \in Requests, Arrive(r) \/ Proceed(r) \/ RollBack(r) PROVE FALSE
      BY <2>1, <2>2, <2>3 DEF Arrive, DeleteAccount, Poll, UnlinkEmail, Callback, MetaDeletion, Proceed, RollBack, Abort,
           DropState, InsertLink, RefreshLink, CleanUpStates, DeleteLink, RevokeNext, LoadChildren, DeleteChild,
           DeleteUserRow, Cascade, CommitDeletion, DeleteMetaLinks
    <2> QED
      BY <2>1, <2>3 DEF Next, Browse, Initiate, Expire, vars
  <1> QED
    BY <1>2, <1>3, <1>4

LEMMA StepMade == ASSUME GInv, [Next]_vars PROVE MadeRedeemed' /\ LinksRedeemed'
  <1>0. LInv /\ HInv /\ Growing /\ link \in [Grants -> Users \cup {Nil}]
    BY StepGrows DEF GInv, HInv, LInv, TypeOK
  <1>1. \A g \in Grants : Redeemed(g) => Redeemed(g)' /\ FlowOf(g)' = FlowOf(g) /\ FlowOf(g) \in Flows
    BY <1>0, GrantStays DEF Redeemed
  <1>2. \A s \in Flows : made[s] > 0 => made'[s] > 0
    BY <1>0, MadeStays
  <1>3. CASE (\A g \in Grants : link'[g] \in {Nil, link[g]}) /\ UNCHANGED made
    <2>1. MadeRedeemed'
      BY <1>1, <1>3 DEF GInv, MadeRedeemed
    <2>2. LinksRedeemed'
      BY <1>1, <1>2, <1>3 DEF GInv, LinksRedeemed
    <2> QED
      BY <2>1, <2>2
  <1>4. ASSUME NEW r \in Requests, InsertLink(r), ~Abort(r) PROVE MadeRedeemed' /\ LinksRedeemed'
    <2> PICK u \in Users, g \in Grants : \E s \in Flows :
           /\ req[r].at = "insert" /\ g = req[r].grant /\ s = FlowOf(g)
           /\ link' = [link EXCEPT ![g] = u]
           /\ made'[s] > 0 /\ \A o \in Flows \ {s} : made'[o] = made[o]
      BY <1>0, <1>4, InsertWrites
    <2>1. Redeemed(g)
      BY DEF GInv, InsertsRedeemed, Ready
    <2>2. MadeRedeemed'
      BY <1>1, <2>1 DEF GInv, MadeRedeemed
    <2>3. \A h \in Grants : link'[h] # Nil => Redeemed(h)' /\ made'[FlowOf(h)'] > 0
      BY <1>0, <1>1, <1>2, <2>1 DEF GInv, LinksRedeemed
    <2>4. LinksRedeemed'
      BY <2>3 DEF LinksRedeemed, FlowOf
    <2> QED
      BY <2>2, <2>4
  <1> QED
    BY <1>0, <1>3, <1>4, OthersRemove, StepGrows DEF Quiet

\* Two requests never link with the same grant, and the second grant of a device
\* flow that the first could be mistaken for does not exist.
LEMMA StepInserts == ASSUME GInv, [Next]_vars PROVE InsertsRedeemed' /\ OneInsert'
  <1>0. LInv /\ HInv /\ Growing
    BY StepGrows DEF GInv, HInv
  <1>1. \A g \in Grants : grant[g] # Nil =>
          /\ FlowOf(g)' = FlowOf(g) /\ FlowOf(g) \in Flows /\ (FromBrowser(g)' <=> FromBrowser(g))
          /\ Redeemed(g) => Redeemed(g)'
    BY <1>0, GrantStays
  <1>2. \A q \in Requests : req[q].at = "insert" => req[q].grant \in Grants /\ Ready(req[q].grant)
    BY <1>0 DEF GInv, InsertsRedeemed, LInv, LocalOK, LinkSteps
  <1>3. ASSUME NEW q \in Requests, req[q].at = "insert", req'[q] = req[q],
               NEW g \in Grants, g = req[q].grant
        PROVE  Ready(g)'
    <2>1. Redeemed(g) /\ (FromBrowser(g) \/ made[FlowOf(g)] = 0)
      BY <1>2, <1>3 DEF Ready
    <2>2. Redeemed(g)' /\ FlowOf(g)' = FlowOf(g) /\ FlowOf(g) \in Flows /\ (FromBrowser(g)' <=> FromBrowser(g))
      BY <1>1, <2>1 DEF Redeemed
    <2>3. ASSUME ~FromBrowser(g) PROVE made'[FlowOf(g)] = made[FlowOf(g)]
      <3>1. ASSUME NEW r \in Requests, InsertLink(r), ~Abort(r) PROVE made'[FlowOf(g)] = made[FlowOf(g)]
        <4> PICK h \in Grants : \E s \in Flows :
               /\ req[r].at = "insert" /\ h = req[r].grant /\ grant[h] # Nil /\ s = FlowOf(h)
               /\ \A o \in Flows \ {s} : made'[o] = made[o]
          BY <1>0, <3>1, InsertWrites
        <4>1. r # q
          BY <1>0, <1>3, <3>1, WritesMove DEF Writes, Elsewhere
        <4>2. g # h
          BY <1>3, <4>1 DEF GInv, OneInsert
        <4>3. FlowOf(h) # FlowOf(g)
          BY <2>1, <2>3, <4>2 DEF GInv, OneDeviceGrant, Redeemed
        <4> QED
          BY <2>2, <4>3
      <3> QED
        BY <1>0, <3>1, OthersRemove, StepGrows DEF Quiet
    <2>4. made'[FlowOf(g)'] = made'[FlowOf(g)]
      BY <2>2
    <2> QED
      BY <2>1, <2>2, <2>3, <2>4 DEF Ready
  <1>4. ASSUME NEW r \in Requests, Redeems(r), NEW g \in Grants, g = req[r].grant
        PROVE  Ready(g)'
    <2>1. grant[g] # Nil /\ grant[g].status = "code" /\ Redeemed(g)' /\ made' = made
      BY <1>4 DEF Redeems
    <2>2. ASSUME ~FromBrowser(g) PROVE ~(made[FlowOf(g)] > 0)
      BY <1>1, <2>1, <2>2 DEF GInv, MadeRedeemed, OneDeviceGrant, Redeemed
    <2>3. FlowOf(g)' = FlowOf(g) /\ (FromBrowser(g)' <=> FromBrowser(g)) /\ made[FlowOf(g)] \in 0 .. 2
      BY <1>0, <1>1, <2>1 DEF LInv, TypeOK
    <2>4. FromBrowser(g)' \/ made'[FlowOf(g)'] = 0
      BY <2>1, <2>2, <2>3
    <2> QED
      BY <2>1, <2>4 DEF Ready
  <1>5. CASE \A q \in Requests : req'[q].at = "insert" => req'[q] = req[q]
    <2>1. InsertsRedeemed'
      BY <1>2, <1>3, <1>5 DEF InsertsRedeemed, Ready, Redeemed, FlowOf, FromBrowser, ProviderOf
    <2>2. OneInsert'
      BY <1>5 DEF GInv, OneInsert
    <2> QED
      BY <2>1, <2>2
  <1>6. ASSUME NEW r \in Requests, Redeems(r) PROVE InsertsRedeemed' /\ OneInsert'
    <2>1. \A q \in Requests \ {r} : req'[q] = req[q]
      BY <1>6 DEF Redeems
    <2>2. req'[r].grant = req[r].grant /\ req[r].grant \in Grants
      BY <1>6 DEF Redeems
    <2>3. InsertsRedeemed'
      BY <1>2, <1>3, <1>4, <1>6, <2>1, <2>2 DEF InsertsRedeemed, Ready, Redeemed, FlowOf, FromBrowser, ProviderOf
    <2>4. \A q \in Requests \ {r} : req[q].at = "insert" => req[q].grant # req[r].grant
      BY <1>2, <1>6 DEF Redeems, Ready, Redeemed
    <2>5. OneInsert'
      BY <2>1, <2>2, <2>4 DEF GInv, OneInsert
    <2> QED
      BY <2>3, <2>5
  <1> QED
    BY <1>0, <1>5, <1>6, InsertSteps

LEMMA NextGInv == GInv /\ [Next]_vars => GInv'
  <1> SUFFICES ASSUME GInv, [Next]_vars PROVE GInv'
    OBVIOUS
  <1>1. HInv' /\ OneDeviceGrant'
    BY NextHInv, StepOneDeviceGrant DEF GInv, HInv
  <1> QED
    BY <1>1, StepMade, StepInserts DEF GInv

-----------------------------------------------------------------------------
(* OAuthLinking implements LinkDesk.                                       *)

\* Nothing stands against taking the link of g away.
Cleared(g) == ProviderOf(g) \in Revocable => g \in asked

\* Once its flow was linked, a grant is linked to nobody but who is known for it.
Settled ==
  /\ \A s \in Flows : made[s] > 0 => made'[s] > 0
  /\ \A g \in Grants : grant[g] # Nil /\ made[FlowOf(g)] > 0 =>
       \/ link'[g] \in {Nil, link[g]}
       \/ FromBrowser(g) /\ link'[g] = flow[FlowOf(g)].user

LEMMA StepSettles == ASSUME GInv, [Next]_vars PROVE Settled
  <1>0. HInv /\ LInv
    BY DEF GInv, HInv
  <1>1. \A s \in Flows : made[s] > 0 => made'[s] > 0
    BY <1>0, MadeStays
  <1>2. ASSUME NEW g \in Grants, grant[g] # Nil, made[FlowOf(g)] > 0
        PROVE  \/ link'[g] \in {Nil, link[g]}
               \/ FromBrowser(g) /\ link'[g] = flow[FlowOf(g)].user
    <2>1. ASSUME NEW r \in Requests, InsertLink(r), ~Abort(r)
          PROVE  \/ link'[g] \in {Nil, link[g]}
                 \/ FromBrowser(g) /\ link'[g] = flow[FlowOf(g)].user
      <3> PICK u \in Users, h \in Grants : \E s \in Flows :
             /\ req[r].at = "insert" /\ h = req[r].grant /\ s = FlowOf(h)
             /\ FromBrowser(h) => flow[s].user = u
             /\ link' = [link EXCEPT ![h] = u]
        BY <1>0, <2>1, InsertWrites
      <3>1. FromBrowser(h) \/ made[FlowOf(h)] = 0
        BY DEF GInv, InsertsRedeemed, Ready
      <3>2. link \in [Grants -> Users \cup {Nil}]
        BY <1>0 DEF LInv, TypeOK
      <3> QED
        BY <1>2, <3>1, <3>2
    <2> QED
      BY <1>0, <2>1, OthersRemove, StepGrows DEF Quiet
  <1> QED
    BY <1>1, <1>2 DEF Settled

\* What a request did earlier is still so, whatever others do meanwhile: it has
\* the state row of its browser flow or that row is gone for good, what it unlinks
\* was asked to be revoked, and what a deletion takes away is its user's, or gone.
DeskOK(me) ==
  /\ me.at \in {"obtain", "insert"} /\ FromBrowser(me.grant) =>
       oauthState[FlowOf(me.grant)] = Nil \/ FlowOf(me.grant) \in me.held
  /\ me.at = "unlink" => me.grant \in Grants /\ Redeemed(me.grant) /\ Cleared(me.grant)
  /\ me.at \in {"revokeUser", "revokeMeta"} => \A g \in me.todo : Redeemed(g)
  /\ me.at \in {"flush", "cascade"} =>
       \A g \in Grants \cap (me.todo \cup me.held) :
         /\ grant[g] # Nil /\ made[FlowOf(g)] > 0
         /\ link[g] \in {Nil, me.user}
         /\ FromBrowser(g) => flow[FlowOf(g)].user = me.user

KInv == GInv /\ \A r \in Requests : DeskOK(req[r])

LEMMA InitKInv == Init => KInv
  <1> SUFFICES ASSUME Init PROVE \A r \in Requests : DeskOK(req[r])
    BY InitGInv DEF KInv
  <1> QED
    BY DEF Init, DeskOK, Idle

LEMMA StillDesk ==
  ASSUME LInv, NEW m \in Local, LocalOK(m), DeskOK(m), Growing, Settled
  PROVE  DeskOK(m)'
  <1>1. CASE m.at \in {"dropState", "obtain", "insert", "refresh", "cleanup"}
    <2> PICK g \in Grants : g = m.grant /\ grant[g] # Nil
      BY <1>1 DEF LocalOK, LinkSteps
    <2> PICK s \in Flows : s = FlowOf(g) /\ flow[s] # Nil
      BY GrantStays
    <2>1. FlowOf(g)' = s /\ (FromBrowser(g)' <=> FromBrowser(g))
      BY GrantStays
    <2>2. oauthState[s] = Nil => oauthState'[s] = Nil
      BY DEF Growing
    <2> QED
      BY <1>1, <2>1, <2>2 DEF DeskOK
  <1>2. CASE m.at = "unlink"
    <2> PICK g \in Grants : g = m.grant /\ Redeemed(g) /\ Cleared(g)
      BY <1>2 DEF DeskOK
    <2>1. Redeemed(g)' /\ ProviderOf(g)' = ProviderOf(g) /\ asked \subseteq asked'
      BY GrantStays DEF Redeemed, Growing
    <2> QED
      BY <1>2, <2>1 DEF DeskOK, Cleared
  <1>3. CASE m.at \in {"revokeUser", "revokeMeta"}
    <2>1. \A g \in m.todo : g \in Grants /\ Redeemed(g)
      BY <1>3 DEF DeskOK, LocalOK
    <2>2. \A g \in m.todo : Redeemed(g)'
      BY <2>1, GrantStays DEF Redeemed
    <2> QED
      BY <1>3, <2>2 DEF DeskOK
  <1>4. CASE m.at \in {"flush", "cascade"}
    <2> SUFFICES ASSUME NEW g \in Grants \cap (m.todo \cup m.held)
                 PROVE  /\ grant'[g] # Nil /\ made'[FlowOf(g)'] > 0
                        /\ link'[g] \in {Nil, m.user}
                        /\ FromBrowser(g)' => flow'[FlowOf(g)'].user = m.user
      BY <1>4 DEF DeskOK, FlowOf, FromBrowser, ProviderOf
    <2>1. /\ grant[g] # Nil /\ made[FlowOf(g)] > 0
          /\ link[g] \in {Nil, m.user}
          /\ FromBrowser(g) => flow[FlowOf(g)].user = m.user
      BY <1>4 DEF DeskOK
    <2>2. /\ FlowOf(g) \in Flows /\ grant'[g] # Nil /\ FlowOf(g)' = FlowOf(g)
          /\ flow'[FlowOf(g)] = flow[FlowOf(g)] /\ FromBrowser(g)' = FromBrowser(g)
      BY <2>1, GrantStays
    <2>3. made'[FlowOf(g)] > 0 /\ link'[g] \in {Nil, m.user}
      BY <2>1, <2>2 DEF Settled
    <2> QED
      BY <2>1, <2>2, <2>3
  <1>5. CASE m.at = "idle"
    BY <1>5 DEF DeskOK
  <1> QED
    BY <1>1, <1>2, <1>3, <1>4, <1>5 DEF Local, Steps

-----------------------------------------------------------------------------
(* What the desk sees of a step.                                           *)

StateOf(s) == IF oauthState[s] = Nil THEN "none" ELSE IF oauthState[s].fresh THEN "fresh" ELSE "stale"
DeskStates == [s \in Flows |-> StateOf(s)]

ClaimIn(me) ==
  IF me.at \in DOMAIN Stage
  THEN [grant |-> me.grant, user |-> me.user, stage |-> Stage[me.at]] ELSE Nil
DeskClaims == [r \in Requests |-> ClaimIn(req[r])]

Entry(g, u, stage) == [grant |-> g, user |-> u, stage |-> stage]

LEMMA ClaimOfStep ==
  ASSUME NEW me
  PROVE  /\ me.at \in {"dropState", "obtain"} => ClaimIn(me) = Entry(me.grant, me.user, "handed")
         /\ me.at = "insert" => ClaimIn(me) = Entry(me.grant, me.user, "redeemed")
         /\ me.at \in {"refresh", "cleanup"} => ClaimIn(me) = Entry(me.grant, me.user, "linked")
         /\ me.at \notin LinkSteps => ClaimIn(me) = Nil
  <1>1. DOMAIN Stage = LinkSteps
    BY DEF Stage, LinkSteps
  <1>2. /\ Stage["dropState"] = "handed" /\ Stage["obtain"] = "handed" /\ Stage["insert"] = "redeemed"
        /\ Stage["refresh"] = "linked" /\ Stage["cleanup"] = "linked"
    BY DEF Stage
  <1> QED
    BY <1>1, <1>2 DEF ClaimIn, Entry, LinkSteps

\* Request r goes on with what it may rely on, and with claim c.
Goes(r, c) == \E l \in Local : Goto(r, l) /\ DeskOK(l)' /\ ClaimIn(l) = c

LEMMA FinishGoes == ASSUME NEW r \in Requests, Finish(r) PROVE Goes(r, Nil)
  <1>1. Goto(r, Idle) /\ DeskOK(Idle)' /\ ClaimIn(Idle) = Nil
    BY ClaimOfStep DEF Finish, Goto, DeskOK, Idle, LinkSteps
  <1> QED
    BY <1>1, IdleOK DEF Goes

LEMMA GoesClaims ==
  ASSUME NEW r \in Requests, NEW c, Goes(r, c), LInv
  PROVE  DeskClaims' = [DeskClaims EXCEPT ![r] = c]
  <1> PICK l \in Local : Goto(r, l) /\ ClaimIn(l) = c
    BY DEF Goes
  <1>1. \A q \in Requests : ClaimIn(req[q])' = IF q = r THEN c ELSE ClaimIn(req[q])
    <2> SUFFICES ASSUME NEW q \in Requests
                 PROVE  ClaimIn(req[q])' = IF q = r THEN c ELSE ClaimIn(req[q])
      OBVIOUS
    <2>1. req'[q] = IF q = r THEN l ELSE req[q]
      BY DEF Goto, LInv, TypeOK
    <2> QED
      BY <2>1 DEF ClaimIn
  <1> QED
    BY <1>1 DEF DeskClaims

LEMMA GoesKInv ==
  ASSUME NEW r \in Requests, NEW c, Goes(r, c), KInv, Growing, Settled
  PROVE  \A q \in Requests : DeskOK(req[q])'
  <1> SUFFICES ASSUME NEW q \in Requests PROVE DeskOK(req[q])'
    OBVIOUS
  <1>0. LInv /\ req \in [Requests -> Local] /\ LocalOK(req[q]) /\ DeskOK(req[q])
    BY DEF KInv, GInv, HInv, LInv, TypeOK
  <1> PICK l \in Local : Goto(r, l) /\ DeskOK(l)'
    BY DEF Goes
  <1> PICK m \in Local : m = req[q]
    BY <1>0
  <1>1. DeskOK(m)'
    BY <1>0, StillDesk
  <1>2. req'[q] = IF q = r THEN l ELSE m
    BY <1>0 DEF Goto
  <1> QED
    BY <1>1, <1>2 DEF DeskOK

\* A step that changes no row, no flow, no grant and asks for nothing.
LEMMA MoveGoes ==
  ASSUME NEW r \in Requests, NEW l \in Local, Goto(r, l), DeskOK(l),
         UNCHANGED <<tables, flow, grant, asked, made>>
  PROVE  Goes(r, ClaimIn(l))
  <1>1. DeskOK(l)'
    BY DEF DeskOK, Redeemed, Cleared, FromBrowser, ProviderOf, FlowOf, tables
  <1> QED
    BY <1>1 DEF Goes

LEMMA ArriveGoes ==
  ASSUME KInv, NEW r \in Requests, Arrive(r)
  PROVE  /\ ClaimIn(req[r]) = Nil
         /\ \/ UNCHANGED <<tables, flow, grant, asked>> /\ Goes(r, Nil)
            \/ \E g \in Grants : UnlinkEmail(r, g) /\ Goes(r, Nil)
            \/ \E u \in Users, g \in Grants :
                 (Callback(r, u, g) \/ Poll(r, u, g)) /\ Goes(r, Entry(g, u, "handed"))
  <1>0. LInv /\ asked \subseteq Grants /\ req[r].at = "idle" /\ ClaimIn(req[r]) = Nil
    BY ClaimOfStep DEF KInv, GInv, HInv, LInv, TypeOK, Arrive, DeleteAccount, Poll, UnlinkEmail, Callback,
       MetaDeletion, Begin, LinkSteps
  <1>1. ASSUME NEW u \in Users, DeleteAccount(r, u)
        PROVE  UNCHANGED <<tables, flow, grant, asked>> /\ Goes(r, Nil)
    <2> PICK l \in Local : l = [Idle EXCEPT !.at = "revokeUser", !.user = u, !.todo = LinksOf(u)]
      BY DEF Idle, Local, Steps, LinksOf
    <2>1. /\ Goto(r, l) /\ l.at = "revokeUser" /\ l.todo = LinksOf(u)
          /\ UNCHANGED <<tables, flow, grant, asked, made>>
      BY <1>1 DEF DeleteAccount, Begin, Goto, Idle
    <2>2. DeskOK(l)
      BY <2>1, NilAssumption DEF DeskOK, LinksOf, KInv, GInv, LinksRedeemed
    <2>3. ClaimIn(l) = Nil
      BY <2>1, ClaimOfStep DEF LinkSteps
    <2> QED
      BY <2>1, <2>2, <2>3, MoveGoes
  <1>2. ASSUME NEW u \in Users, NEW g \in Grants, Callback(r, u, g) PROVE Goes(r, Entry(g, u, "handed"))
    <2> PICK l \in Local : l = [Idle EXCEPT !.at = "dropState", !.user = u, !.grant = g]
      BY DEF Idle, Local, Steps
    <2>1. /\ Goto(r, l) /\ l.at = "dropState" /\ l.grant = g /\ l.user = u
          /\ UNCHANGED <<tables, flow, grant, asked, made>>
      BY <1>2 DEF Callback, Begin, Goto, Idle
    <2>2. DeskOK(l) /\ ClaimIn(l) = Entry(g, u, "handed")
      BY <2>1, ClaimOfStep DEF DeskOK
    <2> QED
      BY <2>1, <2>2, MoveGoes
  <1>3. ASSUME NEW u \in Users, NEW g \in Grants, Poll(r, u, g) PROVE Goes(r, Entry(g, u, "handed"))
    <2> PICK l \in Local : l = [Idle EXCEPT !.at = "obtain", !.user = u, !.grant = g]
      BY DEF Idle, Local, Steps
    <2>1. /\ Goto(r, l) /\ l.at = "obtain" /\ l.grant = g /\ l.user = u
          /\ UNCHANGED <<tables, flow, grant, asked, made>>
      BY <1>3 DEF Poll, Begin, Goto, Idle
    <2>2. ~FromBrowser(g)
      BY <1>3, ProvidersAssumption DEF Poll, FromBrowser
    <2>3. DeskOK(l) /\ ClaimIn(l) = Entry(g, u, "handed")
      BY <2>1, <2>2, ClaimOfStep DEF DeskOK
    <2> QED
      BY <2>1, <2>3, MoveGoes
  <1>4. ASSUME NEW g \in Grants, UnlinkEmail(r, g) PROVE Goes(r, Nil)
    <2> PICK u \in Users : u = link[g]
      BY <1>0, <1>4 DEF UnlinkEmail, LInv, TypeOK
    <2> PICK l \in Local : l = [Idle EXCEPT !.at = "unlink", !.user = u, !.grant = g]
      BY DEF Idle, Local, Steps
    <2>1. /\ Goto(r, l) /\ l.at = "unlink" /\ l.grant = g
          /\ UNCHANGED <<flow, grant>> /\ asked' = Revoke({g})
      BY <1>4 DEF UnlinkEmail, Begin, Goto, Idle
    <2>2. Redeemed(g)' /\ Cleared(g)'
      BY <1>4, <2>1 DEF UnlinkEmail, KInv, GInv, LinksRedeemed, Redeemed, Cleared, Revoke, ProviderOf, FlowOf
    <2>3. DeskOK(l)'
      BY <2>1, <2>2 DEF DeskOK
    <2>4. ClaimIn(l) = Nil
      BY <2>1, ClaimOfStep DEF LinkSteps
    <2> QED
      BY <2>1, <2>3, <2>4 DEF Goes
  <1>5. ASSUME NEW e \in Emails, MetaDeletion(r, e)
        PROVE  UNCHANGED <<tables, flow, grant, asked>> /\ Goes(r, Nil)
    <2> PICK l \in Local : l = [Idle EXCEPT !.at = "revokeMeta", !.email = e, !.todo = MetaLinks(e)]
      BY DEF Idle, Local, Steps, MetaLinks
    <2>1. /\ Goto(r, l) /\ l.at = "revokeMeta" /\ l.todo = MetaLinks(e)
          /\ UNCHANGED <<tables, flow, grant, asked, made>>
      BY <1>5 DEF MetaDeletion, Begin, Goto, Idle
    <2>2. DeskOK(l)
      BY <2>1 DEF DeskOK, MetaLinks, KInv, GInv, LinksRedeemed
    <2>3. ClaimIn(l) = Nil
      BY <2>1, ClaimOfStep DEF LinkSteps
    <2> QED
      BY <2>1, <2>2, <2>3, MoveGoes
  <1> QED
    BY <1>0, <1>1, <1>2, <1>3, <1>4, <1>5 DEF Arrive

\* The deletion's steps up to its COMMIT: what it loads or meets is its user's.
LEMMA FlushGoes ==
  ASSUME KInv, NEW r \in Requests, NEW u \in Users, u = req[r].user,
         NEW l \in Local, Goto(r, l), l.at \in {"flush", "cascade"}, l.user = u,
         \A g \in Grants \cap (l.todo \cup l.held) :
           g \in RowsOf(u) \/ (req[r].at \in {"flush", "cascade"} /\ g \in req[r].todo \cup req[r].held),
         UNCHANGED <<tables, flow, grant, asked, made>>
  PROVE  Goes(r, Nil)
  <1> DEFINE Own(g) == /\ grant[g] # Nil /\ made[FlowOf(g)] > 0
                       /\ link[g] \in {Nil, u}
                       /\ FromBrowser(g) => flow[FlowOf(g)].user = u
  <1>1. ASSUME NEW g \in Grants \cap RowsOf(u) PROVE Own(g)
    <2>1. link[g] = u /\ link[g] # Nil
      BY RowsAssumption, NilAssumption DEF RowsOf, LinksOf, StatesOf
    <2> QED
      BY <2>1 DEF KInv, GInv, LinksRedeemed, HInv, LInv, Sources, LinksOfGrants
  <1>2. \A g \in Grants \cap (l.todo \cup l.held) : Own(g)
    BY <1>1 DEF DeskOK, KInv
  <1>3. DeskOK(l)
    BY <1>2 DEF DeskOK
  <1>4. ClaimIn(l) = Nil
    BY ClaimOfStep DEF LinkSteps
  <1> QED
    BY <1>3, <1>4, MoveGoes

LEMMA DeletionGoes ==
  ASSUME KInv, NEW r \in Requests,
         LoadChildren(r) \/ DeleteChild(r) \/ DeleteUserRow(r) \/ Cascade(r)
  PROVE  Goes(r, Nil) /\ ClaimIn(req[r]) = Nil /\ UNCHANGED <<tables, flow, grant, asked, made>>
  <1> DEFINE me == req[r]
  <1>0. /\ me \in Local /\ HeldOK(me) /\ me.at \in {"revokeUser", "flush", "cascade"}
        /\ ClaimIn(me) = Nil /\ UNCHANGED <<tables, flow, grant, asked, made>>
    BY ClaimOfStep DEF KInv, GInv, HInv, LInv, TypeOK, LoadChildren, DeleteChild, DeleteUserRow, Cascade, LinkSteps
  <1> PICK u \in Users : u = me.user
    BY <1>0 DEF HeldOK
  <1>1. RowsOf(u) \subseteq Flows \cup Grants
    BY DEF RowsOf, LinksOf, StatesOf
  <1>2. CASE LoadChildren(r)
    <2>1. me.held = {}
      BY <1>0, <1>2 DEF LoadChildren, HeldOK
    <2> PICK l \in Local : l = [me EXCEPT !.at = "flush", !.todo = RowsOf(u)]
      BY <1>0, <1>1 DEF Local, Steps
    <2>2. Goto(r, l) /\ l.at = "flush" /\ l.user = u /\ l.todo = RowsOf(u) /\ l.held = {}
      BY <1>0, <1>2, <2>1 DEF LoadChildren, Local
    <2> QED
      BY <1>0, <2>2, FlushGoes
  <1>3. CASE DeleteChild(r)
    <2> PICK x \in me.todo : Goto(r, [me EXCEPT !.todo = @ \ {x}, !.held = IF Present(x) THEN @ \cup {x} ELSE @])
      BY <1>3 DEF DeleteChild
    <2> DEFINE held == IF Present(x) THEN me.held \cup {x} ELSE me.held
    <2>1. me.at = "flush" /\ held \subseteq me.held \cup {x} /\ held \subseteq Flows \cup Grants
      BY <1>0, <1>3 DEF DeleteChild, Local
    <2> PICK l \in Local : l = [me EXCEPT !.todo = @ \ {x}, !.held = held]
      BY <1>0, <2>1 DEF Local
    <2>2. Goto(r, l) /\ l.at = "flush" /\ l.user = u /\ l.todo \cup l.held \subseteq me.todo \cup me.held
      BY <1>0, <2>1 DEF Local
    <2> QED
      BY <1>0, <2>1, <2>2, FlushGoes
  <1>4. CASE DeleteUserRow(r)
    <2> PICK l \in Local : l = [me EXCEPT !.at = "cascade"]
      BY <1>0 DEF Local, Steps
    <2>1. me.at = "flush" /\ l.at = "cascade" /\ l.user = u /\ l.todo = me.todo /\ l.held = me.held
      BY <1>0, <1>4 DEF DeleteUserRow, Local
    <2> QED
      BY <1>0, <1>4, <2>1, FinishGoes, FlushGoes DEF DeleteUserRow
  <1>5. CASE Cascade(r)
    <2> PICK x \in RowsOf(u) : Goto(r, [me EXCEPT !.held = @ \cup {x}])
      BY <1>5 DEF Cascade
    <2> PICK l \in Local : l = [me EXCEPT !.held = @ \cup {x}]
      BY <1>0, <1>1 DEF Local
    <2>1. /\ me.at = "cascade" /\ l.at = "cascade" /\ l.user = u /\ Goto(r, l)
          /\ l.todo = me.todo /\ l.held = me.held \cup {x}
      BY <1>0, <1>5 DEF Cascade, Local
    <2> QED
      BY <1>0, <2>1, FlushGoes
  <1> QED
    BY <1>0, <1>2, <1>3, <1>4, <1>5

LEMMA RevokeGoes ==
  ASSUME KInv, NEW r \in Requests, RevokeNext(r)
  PROVE  /\ Goes(r, Nil) /\ ClaimIn(req[r]) = Nil
         /\ \E g \in Grants : Redeemed(g) /\ asked' = Revoke({g})
         /\ UNCHANGED <<tables, flow, grant>>
  <1> DEFINE me == req[r]
  <1>0. /\ me \in Local /\ DeskOK(me) /\ LocalOK(me) /\ me.at \in {"revokeUser", "revokeMeta"}
        /\ ClaimIn(me) = Nil /\ UNCHANGED <<tables, flow, grant>>
    BY ClaimOfStep DEF KInv, GInv, HInv, LInv, TypeOK, RevokeNext, LinkSteps
  <1> PICK g \in me.todo : asked' = Revoke({g}) /\ Goto(r, [me EXCEPT !.todo = @ \ {g}])
    BY DEF RevokeNext
  <1> PICK l \in Local : l = [me EXCEPT !.todo = @ \ {g}]
    BY <1>0 DEF Local
  <1>1. l.at = me.at /\ l.todo = me.todo \ {g}
    BY <1>0 DEF Local
  <1>2. DeskOK(l)' /\ ClaimIn(l) = Nil
    BY <1>0, <1>1, ClaimOfStep DEF DeskOK, Redeemed, LinkSteps
  <1>3. g \in Grants /\ Redeemed(g)
    BY <1>0 DEF DeskOK, LocalOK
  <1> QED
    BY <1>0, <1>2, <1>3 DEF Goes

LEMMA DropGoes ==
  ASSUME KInv, NEW r \in Requests, DropState(r)
  PROVE  Goes(r, ClaimIn(req[r])) /\ UNCHANGED <<tables, flow, grant, asked>>
  <1> DEFINE me == req[r]
  <1>0. /\ me \in Local /\ LocalOK(me) /\ me.at = "dropState"
        /\ LInv /\ UNCHANGED <<tables, flow, grant, asked, made>>
    BY DEF KInv, GInv, HInv, LInv, TypeOK, DropState
  <1> PICK s \in Flows : s = FlowOf(me.grant)
    BY <1>0 DEF LocalOK, LInv, TypeOK, Grant, FlowOf, LinkSteps
  <1> PICK held \in SUBSET (Flows \cup Grants) : held = IF Present(s) THEN {s} ELSE {}
    OBVIOUS
  <1> PICK l \in Local : l = [me EXCEPT !.at = "obtain", !.held = held]
    BY <1>0 DEF Local, Steps
  <1>1. l.at = "obtain" /\ l.grant = me.grant /\ l.user = me.user /\ l.held = held /\ Goto(r, l)
    BY <1>0 DEF DropState, Local
  <1>2. oauthState[s] = Nil \/ s \in held
    BY DEF Present
  <1>3. DeskOK(l)
    BY <1>1, <1>2 DEF DeskOK
  <1>4. ClaimIn(l) = ClaimIn(me)
    BY <1>0, <1>1, ClaimOfStep
  <1> QED
    BY <1>0, <1>1, <1>3, <1>4, MoveGoes

\* A grant is redeemed, and its tokens go on to a link or are lost.
LEMMA ObtainGoes ==
  ASSUME KInv, NEW r \in Requests, Obtain(r)
  PROVE  \/ Goes(r, Nil) /\ UNCHANGED grant
         \/ \E u \in Users, g \in Grants :
              /\ ClaimIn(req[r]) = Entry(g, u, "handed")
              /\ grant[g] # Nil /\ grant[g].status = "code"
              /\ grant' = [grant EXCEPT ![g].status = "tokens"]
              /\ Goes(r, Entry(g, u, "redeemed")) \/ Goes(r, Nil)
  <1> DEFINE me == req[r]
  <1>1. /\ me \in Local /\ LocalOK(me) /\ DeskOK(me) /\ me.at = "obtain" /\ LInv
        /\ UNCHANGED <<tables, flow, asked, made>>
    BY DEF Obtain, KInv, GInv, HInv, LInv, TypeOK
  <1> PICK u \in Users, g \in Grants : u = me.user /\ g = me.grant /\ grant[g] # Nil
    BY <1>1 DEF LocalOK, LinkSteps
  <1> PICK l \in Local : l = me
    BY <1>1
  <1>2. ClaimIn(me) = Entry(g, u, "handed")
    BY <1>1, ClaimOfStep
  <1>3. CASE Tokens(r, l, g)
    <2>1. Growing
      BY <1>1, <1>3, TokensGrow
    <2>2. CASE Goto(r, [l EXCEPT !.at = "insert"])
      <3> PICK m \in Local : m = [l EXCEPT !.at = "insert"]
        BY DEF Local, Steps
      <3>1. m.at = "insert" /\ m.grant = g /\ m.user = u /\ m.held = l.held
        BY DEF Local
      <3>2. FlowOf(g)' = FlowOf(g) /\ FromBrowser(g)' = FromBrowser(g)
        BY <1>1, <2>1, GrantStays
      <3>3. FromBrowser(g) => oauthState[FlowOf(g)] = Nil \/ FlowOf(g) \in l.held
        BY <1>1 DEF DeskOK
      <3>4. DeskOK(m)'
        BY <1>1, <3>1, <3>2, <3>3 DEF DeskOK, tables
      <3>5. ClaimIn(m) = Entry(g, u, "redeemed")
        BY <3>1, ClaimOfStep
      <3> QED
        BY <1>2, <1>3, <2>2, <3>4, <3>5 DEF Goes, Tokens
    <2> QED
      BY <1>2, <1>3, <2>2, FinishGoes DEF Tokens
  <1> QED
    BY <1>3, FinishGoes DEF Obtain

\* The COMMIT of a link.
LEMMA InsertGoes ==
  ASSUME KInv, NEW r \in Requests, InsertLink(r), ~Abort(r)
  PROVE  \E u \in Users, g \in Grants : \E s \in Flows :
         /\ ClaimIn(req[r]) = Entry(g, u, "redeemed")
         /\ grant[g] # Nil /\ s = FlowOf(g)
         /\ u \in account /\ SameMailbox(u, grant[g].email) = {}
         /\ link' = [link EXCEPT ![g] = u]
         /\ \A o \in Flows : StateOf(o)' = IF o = s /\ FromBrowser(g) THEN "none" ELSE StateOf(o)
         /\ Goes(r, IF FromBrowser(g) THEN Nil ELSE Entry(g, u, "linked"))
         /\ UNCHANGED <<account, flow, grant, asked>>
  <1> DEFINE me == req[r]
  <1>0. me \in Local /\ me.at = "insert" /\ LocalOK(me) /\ HeldOK(me) /\ DeskOK(me) /\ HInv
    BY DEF InsertLink, KInv, GInv, HInv, LInv, TypeOK
  <1> PICK u \in Users, g \in Grants : \E s \in Flows :
         /\ u = me.user /\ g = me.grant /\ grant[g] # Nil /\ s = FlowOf(g) /\ flow[s] # Nil
         /\ u \in account /\ SameMailbox(u, grant[g].email) = {}
         /\ link' = [link EXCEPT ![g] = u]
         /\ oauthState' = WithoutStates(me.held)
         /\ UNCHANGED <<account, flow, grant, asked>>
    BY <1>0, InsertWrites
  <1> PICK s \in Flows : s = FlowOf(g) /\ flow[s] # Nil
    OBVIOUS
  <1>1. /\ me.held \subseteq IF FromBrowser(g) THEN {s} ELSE {}
        /\ FromBrowser(g) => oauthState[s] = Nil \/ s \in me.held
    BY <1>0 DEF HeldOK, DeskOK
  <1>2. \A o \in Flows : oauthState'[o] = IF o \in me.held THEN Nil ELSE oauthState[o]
    BY DEF WithoutStates
  <1>3. \A o \in Flows : StateOf(o)' = IF o = s /\ FromBrowser(g) THEN "none" ELSE StateOf(o)
    BY <1>1, <1>2 DEF StateOf
  <1>4. ProviderOf(g) \in Providers
    BY <1>0 DEF ProviderOf, HInv, LInv, TypeOK, Flow
  <1>5. CASE FromBrowser(g)
    <2>1. Finish(r)
      BY <1>5, ProvidersAssumption DEF InsertLink, FromBrowser
    <2> QED
      BY <1>0, <1>3, <1>5, <2>1, FinishGoes, ClaimOfStep
  <1>6. CASE ~FromBrowser(g)
    <2> PICK l \in Local : l = [me EXCEPT !.at = "refresh"]
      BY <1>0 DEF Local, Steps
    <2>1. l.at = "refresh" /\ l.grant = g /\ l.user = u /\ Goto(r, l)
      BY <1>0, <1>4, <1>6 DEF InsertLink, FromBrowser, Providers, Local
    <2>2. DeskOK(l)' /\ ClaimIn(l) = Entry(g, u, "linked")
      BY <2>1, ClaimOfStep DEF DeskOK
    <2>3. Goes(r, Entry(g, u, "linked"))
      BY <2>1, <2>2 DEF Goes
    <2> QED
      BY <1>0, <1>3, <1>6, <2>3, ClaimOfStep
  <1> QED
    BY <1>5, <1>6

LEMMA RefreshGoes ==
  ASSUME KInv, NEW r \in Requests, RefreshLink(r)
  PROVE  /\ Goes(r, Nil) \/ Goes(r, ClaimIn(req[r]))
         /\ UNCHANGED <<tables, flow, grant, asked>>
  <1> DEFINE me == req[r]
  <1>0. me \in Local /\ me.at = "refresh" /\ UNCHANGED <<tables, flow, grant, asked, made>>
    BY DEF KInv, GInv, HInv, LInv, TypeOK, RefreshLink
  <1> PICK l \in Local : l = [me EXCEPT !.at = "cleanup"]
    BY <1>0 DEF Local, Steps
  <1>1. l.at = "cleanup" /\ l.grant = me.grant /\ l.user = me.user
    BY <1>0 DEF Local
  <1> HIDE DEF me
  <1>2. DeskOK(l)
    BY <1>1 DEF DeskOK
  <1>3. ClaimIn(l) = ClaimIn(me)
    BY <1>0, <1>1, ClaimOfStep
  <1> QED
    BY <1>0, <1>2, <1>3, MoveGoes, FinishGoes DEF RefreshLink, me

\* The state rows that a device link leaves behind.
LEMMA SweepEffect ==
  ASSUME KInv, NEW r \in Requests, CleanUpStates(r)
  PROVE  \E u \in Users, g \in Grants :
         /\ ClaimIn(req[r]) = Entry(g, u, "linked")
         /\ \A s \in Flows :
              StateOf(s)' = IF flow[s] # Nil /\ flow[s].user = u /\ flow[s].provider = ProviderOf(g)
                            THEN "none" ELSE StateOf(s)
         /\ Finish(r) /\ UNCHANGED <<account, flow, grant, link, asked>>
  <1> DEFINE me == req[r]
  <1>0. me.at = "cleanup" /\ LocalOK(me) /\ LInv
    BY DEF CleanUpStates, KInv, GInv, HInv, LInv
  <1> PICK u \in Users, g \in Grants : u = me.user /\ g = me.grant
    BY <1>0 DEF LocalOK, LinkSteps
  <1>1. /\ Finish(r) /\ UNCHANGED <<account, flow, grant, link, asked>>
        /\ oauthState' = WithoutStates(StatesAt(u, ProviderOf(g)))
    BY DEF CleanUpStates
  <1>2. ASSUME NEW s \in Flows
        PROVE  oauthState'[s] = IF flow[s] # Nil /\ flow[s].user = u /\ flow[s].provider = ProviderOf(g)
                                THEN Nil ELSE oauthState[s]
    BY <1>0, <1>1 DEF WithoutStates, StatesAt, StatesOf, LInv, Sources, StatesOfFlows
  <1>3. ASSUME NEW s \in Flows
        PROVE  StateOf(s)' = IF flow[s] # Nil /\ flow[s].user = u /\ flow[s].provider = ProviderOf(g)
                             THEN "none" ELSE StateOf(s)
    BY <1>1, <1>2 DEF StateOf
  <1> QED
    BY <1>0, <1>1, <1>3, ClaimOfStep

\* What goes with the account, and nothing else.
LEMMA CloseEffect ==
  ASSUME KInv, NEW r \in Requests, CommitDeletion(r)
  PROVE  \E u \in Users :
         /\ account' = account \ {u}
         /\ \A g \in Grants : link'[g] = IF link[g] = u THEN Nil ELSE link[g]
         /\ link' = [g \in Grants |-> link'[g]]
         /\ \A s \in Flows : StateOf(s)' = IF flow[s] # Nil /\ flow[s].user = u THEN "none" ELSE StateOf(s)
         /\ Finish(r) /\ UNCHANGED <<flow, grant, asked>> /\ ClaimIn(req[r]) = Nil
  <1> DEFINE me == req[r]
  <1>0. me.at = "cascade" /\ HeldOK(me) /\ DeskOK(me) /\ LInv
    BY DEF CommitDeletion, KInv, GInv, HInv
  <1> PICK u \in Users : u = me.user
    BY <1>0 DEF HeldOK
  <1>1. /\ LinksOf(u) \cup StatesOf(u) \subseteq me.held
        /\ account' = account \ {u} /\ link' = WithoutLinks(me.held) /\ oauthState' = WithoutStates(me.held)
        /\ Finish(r) /\ UNCHANGED <<flow, grant, asked>>
    BY DEF CommitDeletion, RowsOf
  <1>2. ASSUME NEW g \in Grants PROVE link'[g] = IF link[g] = u THEN Nil ELSE link[g]
    <2>1. g \in me.held => link[g] \in {Nil, u}
      BY <1>0 DEF DeskOK
    <2> QED
      BY <1>1, <2>1 DEF WithoutLinks, LinksOf
  <1>3. ASSUME NEW s \in Flows
        PROVE  StateOf(s)' = IF flow[s] # Nil /\ flow[s].user = u THEN "none" ELSE StateOf(s)
    <2>1. s \in me.held => flow[s] # Nil /\ flow[s].user = u
      BY <1>0 DEF HeldOK
    <2>2. flow[s] # Nil /\ flow[s].user = u /\ oauthState[s] # Nil => s \in me.held
      BY <1>0, <1>1 DEF StatesOf, LInv, Sources, StatesOfFlows
    <2>3. oauthState'[s] = IF s \in me.held THEN Nil ELSE oauthState[s]
      BY <1>1 DEF WithoutStates
    <2> QED
      BY <1>1, <2>1, <2>2, <2>3 DEF StateOf
  <1>4. link' = [g \in Grants |-> link'[g]]
    BY <1>1 DEF WithoutLinks
  <1> QED
    BY <1>0, <1>1, <1>2, <1>3, <1>4, ClaimOfStep DEF LinkSteps

-----------------------------------------------------------------------------
(* The invariant.                                                          *)

LEMMA StepGoes ==
  ASSUME KInv, NEW r \in Requests, Arrive(r) \/ Proceed(r) \/ RollBack(r)
  PROVE  \E c : Goes(r, c)
  <1>1. CASE Arrive(r)
    BY <1>1, ArriveGoes
  <1>2. CASE Finish(r)
    BY <1>2, FinishGoes
  <1>3. CleanUpStates(r) \/ DeleteLink(r) \/ CommitDeletion(r) \/ DeleteMetaLinks(r) \/ RollBack(r) \/ Abort(r)
        => Finish(r)
    BY DEF CleanUpStates, DeleteLink, CommitDeletion, DeleteMetaLinks, RollBack, Abort
  <1>4. CASE InsertLink(r) /\ ~Abort(r)
    BY <1>4, InsertGoes
  <1> QED
    BY <1>1, <1>2, <1>3, <1>4, ObtainGoes, DropGoes, RefreshGoes, RevokeGoes, DeletionGoes DEF Proceed

LEMMA NextKInv == KInv /\ [Next]_vars => KInv'
  <1> SUFFICES ASSUME KInv, [Next]_vars PROVE KInv'
    OBVIOUS
  <1>1. GInv' /\ Growing /\ Settled
    BY NextGInv, StepGrows, StepSettles DEF KInv, GInv, HInv
  <1>2. ASSUME NEW r \in Requests, Arrive(r) \/ Proceed(r) \/ RollBack(r)
        PROVE  \A q \in Requests : DeskOK(req[q])'
    BY <1>1, <1>2, StepGoes, GoesKInv
  <1>3. CASE UNCHANGED req
    <2> SUFFICES ASSUME NEW q \in Requests PROVE DeskOK(req[q])'
      BY <1>1 DEF KInv
    <2>1. LInv /\ req[q] \in Local /\ LocalOK(req[q]) /\ DeskOK(req[q])
      BY DEF KInv, GInv, HInv, LInv, TypeOK
    <2> PICK m \in Local : m = req[q]
      BY <2>1
    <2>2. DeskOK(m)'
      BY <1>1, <2>1, StillDesk
    <2> QED
      BY <1>3, <2>2 DEF DeskOK
  <1> QED
    BY <1>1, <1>2, <1>3 DEF KInv, Next, Browse, Initiate, Expire, Consent, vars

LEMMA KInvAlways == Spec => []KInv
  BY InitKInv, NextKInv, PTL DEF Spec

-----------------------------------------------------------------------------
(* The actions of LinkDesk, over the desk kept by OAuthLinking.            *)

LEMMA DeskInit == Init => Desk!Init
  <1> SUFFICES ASSUME Init PROVE Desk!Init
    OBVIOUS
  <1>1. \A r \in Requests : ClaimIn(req[r]) = Nil
    BY ClaimOfStep DEF Init, Idle, LinkSteps
  <1>2. DeskClaims = [r \in Requests |-> Nil]
    BY <1>1 DEF DeskClaims
  <1>3. DeskStates = [s \in Flows |-> "none"]
    BY DEF Init, DeskStates, StateOf
  <1> QED
    BY <1>2, <1>3 DEF Desk!Init, Init, DeskClaims, ClaimIn, DeskStates, StateOf

LEMMA SameStates == ASSUME oauthState' = oauthState PROVE DeskStates' = DeskStates
  BY DEF DeskStates, StateOf

LEMMA DeskStutter ==
  ASSUME DeskStates' = DeskStates, DeskClaims' = DeskClaims, UNCHANGED <<account, flow, grant, link, asked>>
  PROVE  UNCHANGED Desk!vars
  BY DEF Desk!vars, DeskStates, StateOf, DeskClaims, ClaimIn

LEMMA DeskStart ==
  ASSUME NEW u \in account, NEW s \in Flows, NEW p \in Providers, flow[s] = Nil,
         \E offered \in BOOLEAN : flow' = [flow EXCEPT ![s] = [user |-> u, provider |-> p, offered |-> offered]],
         DeskStates' = [DeskStates EXCEPT ![s] = "fresh"], DeskClaims' = DeskClaims,
         UNCHANGED <<account, grant, link, asked>>
  PROVE  Desk!Start(u, s, p)
  BY DEF Desk!Start, DeskStates, StateOf, DeskClaims, ClaimIn

LEMMA DeskLapse ==
  ASSUME NEW s \in Flows, DeskStates[s] = "fresh",
         DeskStates' = [DeskStates EXCEPT ![s] = "stale"], DeskClaims' = DeskClaims,
         UNCHANGED <<account, flow, grant, link, asked>>
  PROVE  Desk!Lapse(s)
  BY DEF Desk!Lapse, DeskStates, StateOf, DeskClaims, ClaimIn

LEMMA DeskConsent ==
  ASSUME NEW g \in Grants, NEW s \in Flows, NEW e \in Emails, Consent(g, s, e),
         DeskStates' = DeskStates, DeskClaims' = DeskClaims
  PROVE  Desk!Consent(g, s, e)
  BY DEF Desk!Consent, Consent, FlowOf, tables, DeskStates, StateOf, DeskClaims, ClaimIn

LEMMA DeskHandIn ==
  ASSUME NEW r \in Requests, NEW u \in account, NEW g \in Grants, DeskClaims[r] = Nil, grant[g] # Nil,
         FromBrowser(g) => flow[FlowOf(g)].user = u /\ DeskStates[FlowOf(g)] = "fresh",
         DeskClaims' = [DeskClaims EXCEPT ![r] = Entry(g, u, "handed")], DeskStates' = DeskStates,
         UNCHANGED <<account, flow, grant, link, asked>>
  PROVE  Desk!HandIn(r, u, g)
  BY DEF Desk!HandIn, Desk!Advance, Desk!Initiator, Desk!Provider, FromBrowser, ProviderOf, FlowOf, Entry,
         DeskStates, StateOf, DeskClaims, ClaimIn

LEMMA DeskRedeem ==
  ASSUME NEW r \in Requests, NEW u \in Users, NEW g \in Grants,
         DeskClaims[r] = Entry(g, u, "handed"), grant[g].status = "code",
         grant' = [grant EXCEPT ![g].status = "tokens"],
         \/ DeskClaims' = [DeskClaims EXCEPT ![r] = Entry(g, u, "redeemed")]
         \/ DeskClaims' = [DeskClaims EXCEPT ![r] = Nil],
         DeskStates' = DeskStates,
         UNCHANGED <<account, flow, link, asked>>
  PROVE  Desk!Redeem(r, u, g)
  BY DEF Desk!Redeem, Desk!Claims, Desk!Advance, Desk!GiveUp, Entry, DeskStates, StateOf, DeskClaims, ClaimIn

LEMMA DeskWithdraw ==
  ASSUME NEW r \in Requests, DeskClaims' = [DeskClaims EXCEPT ![r] = Nil], DeskStates' = DeskStates,
         UNCHANGED <<account, flow, grant, link, asked>>
  PROVE  Desk!Withdraw(r)
  BY DEF Desk!Withdraw, Desk!GiveUp, DeskStates, StateOf, DeskClaims, ClaimIn

LEMMA DeskLink ==
  ASSUME NEW r \in Requests, NEW u \in account, NEW g \in Grants, DeskClaims[r] = Entry(g, u, "redeemed"),
         \A h \in Grants : link[h] = u => grant[h].email # grant[g].email,
         link' = [link EXCEPT ![g] = u],
         \/ /\ FromBrowser(g)
            /\ DeskStates' = [DeskStates EXCEPT ![FlowOf(g)] = "none"]
            /\ DeskClaims' = [DeskClaims EXCEPT ![r] = Nil]
         \/ /\ ~FromBrowser(g)
            /\ DeskStates' = DeskStates
            /\ DeskClaims' = [DeskClaims EXCEPT ![r] = Entry(g, u, "linked")],
         UNCHANGED <<account, flow, grant, asked>>
  PROVE  Desk!Link(r, u, g)
  BY DEF Desk!Link, Desk!Claims, Desk!Advance, Desk!GiveUp, Desk!Provider, FromBrowser, ProviderOf, FlowOf, Entry,
         DeskStates, StateOf, DeskClaims, ClaimIn

LEMMA DeskSweep ==
  ASSUME NEW r \in Requests, NEW u \in Users, NEW g \in Grants, DeskClaims[r] = Entry(g, u, "linked"),
         DeskStates' = [s \in Flows |-> IF flow[s] # Nil /\ flow[s].user = u /\ flow[s].provider = ProviderOf(g)
                                        THEN "none" ELSE DeskStates[s]],
         DeskClaims' = [DeskClaims EXCEPT ![r] = Nil], UNCHANGED <<account, flow, grant, link, asked>>
  PROVE  Desk!Sweep(r, u, g)
  BY DEF Desk!Sweep, Desk!Claims, Desk!GiveUp, Desk!StartedBy, Desk!Provider, ProviderOf, FlowOf, Entry,
         DeskStates, StateOf, DeskClaims, ClaimIn

LEMMA DeskAsk ==
  ASSUME NEW g \in Grants, Redeemed(g), ProviderOf(g) \in Revocable, asked' = asked \cup {g},
         DeskStates' = DeskStates, DeskClaims' = DeskClaims, UNCHANGED <<account, flow, grant, link>>
  PROVE  Desk!Ask(g)
  BY DEF Desk!Ask, Desk!Provider, Redeemed, ProviderOf, FlowOf, DeskStates, StateOf, DeskClaims, ClaimIn

LEMMA DeskUnlink ==
  ASSUME NEW g \in Grants, link[g] # Nil, Cleared(g), link' = [link EXCEPT ![g] = Nil],
         DeskStates' = DeskStates, DeskClaims' = DeskClaims, UNCHANGED <<account, flow, grant, asked>>
  PROVE  Desk!Unlink(g)
  BY DEF Desk!Unlink, Desk!Provider, Cleared, ProviderOf, FlowOf, DeskStates, StateOf, DeskClaims, ClaimIn

LEMMA DeskForget ==
  ASSUME NEW p \in Providers, NEW e \in Emails,
         link' = [g \in Grants |-> IF link[g] # Nil /\ ProviderOf(g) = p /\ grant[g].email = e THEN Nil ELSE link[g]],
         DeskStates' = DeskStates, DeskClaims' = DeskClaims, UNCHANGED <<account, flow, grant, asked>>
  PROVE  Desk!Forget(p, e)
  BY DEF Desk!Forget, Desk!Provider, ProviderOf, FlowOf, DeskStates, StateOf, DeskClaims, ClaimIn

LEMMA DeskClose ==
  ASSUME NEW u \in Users, account' = account \ {u},
         link' = [g \in Grants |-> IF link[g] = u THEN Nil ELSE link[g]],
         DeskStates' = [s \in Flows |-> IF flow[s] # Nil /\ flow[s].user = u THEN "none" ELSE DeskStates[s]],
         DeskClaims' = DeskClaims, UNCHANGED <<flow, grant, asked>>
  PROVE  Desk!Close(u)
  BY DEF Desk!Close, Desk!StartedBy, DeskStates, StateOf, DeskClaims, ClaimIn

-----------------------------------------------------------------------------
(* Every step is one of the desk's, or none.                               *)

LEMMA BrowseDesk == ASSUME KInv, Browse PROVE Desk!Next
  <1>0. DeskClaims' = DeskClaims /\ oauthState \in [Flows -> StateRow \cup {Nil}] /\ Desk!Providers = Providers
    BY DEF Browse, Initiate, Expire, Consent, DeskClaims, ClaimIn, KInv, GInv, HInv, LInv, TypeOK, Desk!Providers, Providers
  <1>1. ASSUME NEW u \in Users, NEW s \in Flows, NEW p \in Providers, Initiate(u, s, p) PROVE Desk!Next
    <2> PICK row \in StateRow : row = [user |-> u, provider |-> p, fresh |-> TRUE]
      BY DEF StateRow
    <2>1. /\ u \in account /\ flow[s] = Nil /\ row.fresh
          /\ oauthState' = [oauthState EXCEPT ![s] = row]
          /\ \E offered \in BOOLEAN : flow' = [flow EXCEPT ![s] = [user |-> u, provider |-> p, offered |-> offered]]
          /\ UNCHANGED <<account, grant, link, asked>>
      BY <1>1 DEF Initiate
    <2>2. \A o \in Flows : StateOf(o)' = IF o = s THEN "fresh" ELSE StateOf(o)
      BY <1>0, <2>1, NilAssumption DEF StateOf
    <2>3. DeskStates' = [DeskStates EXCEPT ![s] = "fresh"]
      BY <2>2 DEF DeskStates
    <2>4. Desk!Start(u, s, p)
      BY <1>0, <2>1, <2>3, DeskStart
    <2> QED
      BY <1>0, <2>4 DEF Desk!Next
  <1>2. ASSUME NEW s \in Flows, Expire(s) PROVE Desk!Next
    <2> PICK row \in StateRow : row = [oauthState[s] EXCEPT !.fresh = FALSE]
      BY <1>0, <1>2 DEF Expire, StateRow
    <2>1. /\ oauthState' = [oauthState EXCEPT ![s] = row] /\ ~row.fresh
          /\ UNCHANGED <<account, flow, grant, link, asked>>
      BY <1>0, <1>2 DEF Expire, StateRow
    <2>2. StateOf(s) = "fresh" /\ \A o \in Flows : StateOf(o)' = IF o = s THEN "stale" ELSE StateOf(o)
      BY <1>0, <1>2, <2>1, NilAssumption DEF StateOf, Expire
    <2>3. DeskStates' = [DeskStates EXCEPT ![s] = "stale"] /\ DeskStates[s] = "fresh"
      BY <2>2 DEF DeskStates
    <2>4. Desk!Lapse(s)
      BY <1>0, <2>1, <2>3, DeskLapse
    <2> QED
      BY <2>4 DEF Desk!Next
  <1>3. ASSUME NEW g \in Grants, NEW s \in Flows, NEW e \in Emails, Consent(g, s, e) PROVE Desk!Next
    <2>1. DeskStates' = DeskStates
      BY <1>3, SameStates DEF Consent, tables
    <2>2. Desk!Consent(g, s, e)
      BY <1>0, <1>3, <2>1, DeskConsent
    <2> QED
      BY <2>2 DEF Desk!Next
  <1> QED
    BY <1>1, <1>2, <1>3 DEF Browse

\* A request that changes no row: it keeps its claim, or gives it up.
LEMMA QuietDesk ==
  ASSUME KInv, NEW r \in Requests, Goes(r, Nil) \/ Goes(r, ClaimIn(req[r])),
         UNCHANGED <<tables, flow, grant, asked>>
  PROVE  Desk!Next \/ UNCHANGED Desk!vars
  <1>0. LInv /\ UNCHANGED <<account, oauthState, link>>
    BY DEF KInv, GInv, HInv, tables
  <1>1. DeskStates' = DeskStates
    BY <1>0, SameStates
  <1>2. CASE Goes(r, Nil)
    <2>1. DeskClaims' = [DeskClaims EXCEPT ![r] = Nil]
      BY <1>0, <1>2, GoesClaims
    <2>2. Desk!Withdraw(r)
      BY <1>0, <1>1, <2>1, DeskWithdraw
    <2> QED
      BY <2>2 DEF Desk!Next
  <1>3. CASE Goes(r, ClaimIn(req[r]))
    <2> PICK c : c = ClaimIn(req[r])
      OBVIOUS
    <2>1. DeskClaims' = [DeskClaims EXCEPT ![r] = c] /\ DeskClaims[r] = c
      BY <1>0, <1>3, GoesClaims DEF DeskClaims
    <2>2. DeskClaims' = DeskClaims
      <3>1. DeskClaims = [q \in Requests |-> DeskClaims[q]]
        BY DEF DeskClaims
      <3> QED
        BY <2>1, <3>1
    <2> QED
      BY <1>0, <1>1, <2>2, DeskStutter
  <1> QED
    BY <1>2, <1>3

\* A request without a claim that stays without one.
LEMMA NoClaim ==
  ASSUME KInv, NEW r \in Requests, Goes(r, Nil), ClaimIn(req[r]) = Nil
  PROVE  DeskClaims' = DeskClaims
  <1>1. DeskClaims' = [DeskClaims EXCEPT ![r] = Nil] /\ DeskClaims[r] = Nil
    BY GoesClaims DEF KInv, GInv, HInv, DeskClaims
  <1>2. DeskClaims = [q \in Requests |-> DeskClaims[q]]
    BY DEF DeskClaims
  <1> QED
    BY <1>1, <1>2

LEMMA RevokeDesk ==
  ASSUME NEW g \in Grants, Redeemed(g), asked' = Revoke({g}), DeskClaims' = DeskClaims,
         UNCHANGED <<tables, flow, grant>>
  PROVE  Desk!Next \/ UNCHANGED Desk!vars
  <1>1. DeskStates' = DeskStates /\ UNCHANGED <<account, flow, grant, link>>
    BY SameStates DEF tables
  <1>2. CASE ProviderOf(g) \in Revocable
    <2>1. asked' = asked \cup {g}
      BY <1>2 DEF Revoke
    <2>2. Desk!Ask(g)
      BY <1>1, <1>2, <2>1, DeskAsk
    <2> QED
      BY <2>2 DEF Desk!Next
  <1>3. CASE ProviderOf(g) \notin Revocable
    <2>1. asked' = asked
      BY <1>3 DEF Revoke
    <2> QED
      BY <1>1, <2>1, DeskStutter
  <1> QED
    BY <1>2, <1>3

LEMMA ArriveDesk ==
  ASSUME KInv, NEW r \in Requests, Arrive(r) PROVE Desk!Next \/ UNCHANGED Desk!vars
  <1>0. LInv /\ ClaimIn(req[r]) = Nil
    BY ArriveGoes DEF KInv, GInv, HInv
  <1>1. CASE UNCHANGED <<tables, flow, grant, asked>> /\ Goes(r, Nil)
    BY <1>1, QuietDesk
  <1>2. ASSUME NEW g \in Grants, UnlinkEmail(r, g), Goes(r, Nil)
        PROVE  Desk!Next \/ UNCHANGED Desk!vars
    <2>1. Redeemed(g) /\ asked' = Revoke({g}) /\ UNCHANGED <<tables, flow, grant>>
      BY <1>2 DEF UnlinkEmail, KInv, GInv, LinksRedeemed
    <2> QED
      BY <1>0, <1>2, <2>1, NoClaim, RevokeDesk
  <1>3. ASSUME NEW g \in Grants, NEW u \in Users, Callback(r, u, g) \/ Poll(r, u, g),
               Goes(r, Entry(g, u, "handed"))
        PROVE  Desk!Next
    <2>1. /\ grant[g] # Nil /\ u \in account
          /\ UNCHANGED <<account, oauthState, link, flow, grant, asked>>
      BY <1>3 DEF Callback, Poll, tables
    <2> PICK s \in Flows : s = FlowOf(g)
      BY <1>0, <2>1 DEF LInv, TypeOK, Grant, FlowOf
    <2>2. FromBrowser(g) => flow[s].user = u /\ DeskStates[s] = "fresh"
      <3> SUFFICES ASSUME FromBrowser(g) PROVE flow[s].user = u /\ DeskStates[s] = "fresh"
        OBVIOUS
      <3>1. oauthState[s] # Nil /\ oauthState[s].user = u /\ oauthState[s].fresh
        BY <1>3, ProvidersAssumption DEF Callback, Poll, StateMatches, FromBrowser
      <3> QED
        BY <1>0, <3>1 DEF DeskStates, StateOf, LInv, Sources, StatesOfFlows
    <2>3. DeskClaims[r] = Nil /\ DeskStates' = DeskStates
      BY <1>0, <2>1, SameStates DEF DeskClaims
    <2>4. DeskClaims' = [DeskClaims EXCEPT ![r] = Entry(g, u, "handed")]
      <3> PICK c : c = Entry(g, u, "handed")
        OBVIOUS
      <3> QED
        BY <1>0, <1>3, GoesClaims
    <2>5. Desk!HandIn(r, u, g)
      BY <2>1, <2>2, <2>3, <2>4, DeskHandIn
    <2> QED
      BY <2>5 DEF Desk!Next
  <1> QED
    BY <1>1, <1>2, <1>3, ArriveGoes

LEMMA ObtainDesk == ASSUME KInv, NEW r \in Requests, Obtain(r) PROVE Desk!Next \/ UNCHANGED Desk!vars
  <1>0. LInv /\ UNCHANGED <<tables, flow, asked>>
    BY DEF Obtain, KInv, GInv, HInv
  <1>1. CASE Goes(r, Nil) /\ UNCHANGED grant
    BY <1>0, <1>1, QuietDesk
  <1>2. ASSUME NEW u \in Users, NEW g \in Grants, ClaimIn(req[r]) = Entry(g, u, "handed"),
               grant[g].status = "code", grant' = [grant EXCEPT ![g].status = "tokens"],
               Goes(r, Entry(g, u, "redeemed")) \/ Goes(r, Nil)
        PROVE  Desk!Next
    <2>1. DeskClaims[r] = Entry(g, u, "handed") /\ DeskStates' = DeskStates
      BY <1>0, <1>2, SameStates DEF DeskClaims, tables
    <2>2. \/ DeskClaims' = [DeskClaims EXCEPT ![r] = Entry(g, u, "redeemed")]
          \/ DeskClaims' = [DeskClaims EXCEPT ![r] = Nil]
      <3> PICK c : c = Entry(g, u, "redeemed")
        OBVIOUS
      <3> QED
        BY <1>0, <1>2, GoesClaims
    <2>3. Desk!Redeem(r, u, g)
      BY <1>0, <1>2, <2>1, <2>2, DeskRedeem DEF tables
    <2> QED
      BY <2>3 DEF Desk!Next
  <1> QED
    BY <1>1, <1>2, ObtainGoes

LEMMA InsertDesk == ASSUME KInv, NEW r \in Requests, InsertLink(r), ~Abort(r) PROVE Desk!Next
  <1>0. LInv
    BY DEF KInv, GInv, HInv
  <1> PICK u \in Users, g \in Grants : \E s \in Flows :
         /\ ClaimIn(req[r]) = Entry(g, u, "redeemed")
         /\ grant[g] # Nil /\ s = FlowOf(g)
         /\ u \in account /\ SameMailbox(u, grant[g].email) = {}
         /\ link' = [link EXCEPT ![g] = u]
         /\ \A o \in Flows : StateOf(o)' = IF o = s /\ FromBrowser(g) THEN "none" ELSE StateOf(o)
         /\ Goes(r, IF FromBrowser(g) THEN Nil ELSE Entry(g, u, "linked"))
         /\ UNCHANGED <<account, flow, grant, asked>>
    BY InsertGoes
  <1> PICK s \in Flows : s = FlowOf(g) /\ \A o \in Flows : StateOf(o)' = IF o = s /\ FromBrowser(g) THEN "none" ELSE StateOf(o)
    OBVIOUS
  <1>1. /\ ClaimIn(req[r]) = Entry(g, u, "redeemed")
        /\ u \in account /\ SameMailbox(u, grant[g].email) = {}
        /\ link' = [link EXCEPT ![g] = u]
        /\ UNCHANGED <<account, flow, grant, asked>>
    OBVIOUS
  <1>2. DeskClaims[r] = Entry(g, u, "redeemed")
    BY <1>1 DEF DeskClaims
  <1>3. \A h \in Grants : link[h] = u => grant[h].email # grant[g].email
    BY <1>1 DEF SameMailbox, LinksOf
  <1>4. CASE FromBrowser(g)
    <2>1. DeskStates' = [DeskStates EXCEPT ![s] = "none"]
      BY <1>4 DEF DeskStates
    <2>2. DeskClaims' = [DeskClaims EXCEPT ![r] = Nil]
      BY <1>0, <1>4, GoesClaims
    <2>3. Desk!Link(r, u, g)
      BY <1>1, <1>2, <1>3, <1>4, <2>1, <2>2, DeskLink
    <2> QED
      BY <2>3 DEF Desk!Next
  <1>5. CASE ~FromBrowser(g)
    <2>1. DeskStates' = DeskStates
      BY <1>5 DEF DeskStates
    <2> PICK c : c = Entry(g, u, "linked")
      OBVIOUS
    <2>2. DeskClaims' = [DeskClaims EXCEPT ![r] = c]
      BY <1>0, <1>5, GoesClaims
    <2>3. Desk!Link(r, u, g)
      BY <1>1, <1>2, <1>3, <1>5, <2>1, <2>2, DeskLink
    <2> QED
      BY <2>3 DEF Desk!Next
  <1> QED
    BY <1>4, <1>5

LEMMA SweepDesk == ASSUME KInv, NEW r \in Requests, CleanUpStates(r) PROVE Desk!Next
  <1>0. LInv
    BY DEF KInv, GInv, HInv
  <1> PICK u \in Users, g \in Grants :
         /\ ClaimIn(req[r]) = Entry(g, u, "linked")
         /\ \A s \in Flows :
              StateOf(s)' = IF flow[s] # Nil /\ flow[s].user = u /\ flow[s].provider = ProviderOf(g)
                            THEN "none" ELSE StateOf(s)
         /\ Finish(r) /\ UNCHANGED <<account, flow, grant, link, asked>>
    BY SweepEffect
  <1>1. DeskStates' = [s \in Flows |-> IF flow[s] # Nil /\ flow[s].user = u /\ flow[s].provider = ProviderOf(g)
                                       THEN "none" ELSE DeskStates[s]]
    BY DEF DeskStates
  <1>2. DeskClaims[r] = Entry(g, u, "linked")
    BY DEF DeskClaims
  <1>3. DeskClaims' = [DeskClaims EXCEPT ![r] = Nil]
    BY <1>0, FinishGoes, GoesClaims
  <1>4. Desk!Sweep(r, u, g)
    BY <1>1, <1>2, <1>3, DeskSweep
  <1> QED
    BY <1>4 DEF Desk!Next

LEMMA RemovalDesk ==
  ASSUME KInv, NEW r \in Requests,
         DeleteLink(r) \/ CommitDeletion(r) \/ DeleteMetaLinks(r)
  PROVE  Desk!Next \/ UNCHANGED Desk!vars
  <1>0. LInv /\ Finish(r) /\ Goes(r, Nil) /\ ClaimIn(req[r]) = Nil /\ link \in [Grants -> Users \cup {Nil}]
    BY FinishGoes, ClaimOfStep DEF DeleteLink, CommitDeletion, DeleteMetaLinks, LinkSteps, KInv, GInv, HInv, LInv, TypeOK
  <1>1. DeskClaims' = DeskClaims
    BY <1>0, NoClaim
  <1>2. CASE DeleteLink(r)
    <2>1. DeskOK(req[r]) /\ req[r].at = "unlink"
      BY <1>2 DEF DeleteLink, KInv
    <2> PICK g \in Grants : g = req[r].grant /\ Cleared(g)
      BY <2>1 DEF DeskOK
    <2>2. link' = WithoutLinks({g}) /\ UNCHANGED <<account, oauthState, flow, grant, asked>>
      BY <1>2 DEF DeleteLink
    <2>3. link' = [link EXCEPT ![g] = Nil] /\ DeskStates' = DeskStates
      BY <1>0, <2>2, SameStates DEF WithoutLinks
    <2>4. CASE link[g] # Nil
      <3>1. Desk!Unlink(g)
        BY <1>1, <2>2, <2>3, <2>4, DeskUnlink
      <3> QED
        BY <3>1 DEF Desk!Next
    <2>5. CASE link[g] = Nil
      <3>1. link' = link
        BY <1>0, <2>3, <2>5
      <3> QED
        BY <1>1, <2>2, <2>3, <3>1, DeskStutter
    <2> QED
      BY <2>4, <2>5
  <1>3. CASE CommitDeletion(r)
    <2> PICK u \in Users :
           /\ account' = account \ {u}
           /\ \A g \in Grants : link'[g] = IF link[g] = u THEN Nil ELSE link[g]
           /\ link' = [g \in Grants |-> link'[g]]
           /\ \A s \in Flows : StateOf(s)' = IF flow[s] # Nil /\ flow[s].user = u THEN "none" ELSE StateOf(s)
           /\ UNCHANGED <<flow, grant, asked>>
      BY <1>3, CloseEffect
    <2>1. link' = [g \in Grants |-> IF link[g] = u THEN Nil ELSE link[g]]
      OBVIOUS
    <2>2. DeskStates' = [s \in Flows |-> IF flow[s] # Nil /\ flow[s].user = u THEN "none" ELSE DeskStates[s]]
      BY DEF DeskStates
    <2>3. Desk!Close(u)
      BY <1>1, <2>1, <2>2, DeskClose
    <2> QED
      BY <2>3 DEF Desk!Next
  <1>4. CASE DeleteMetaLinks(r)
    <2> DEFINE e == req[r].email
    <2>1. link' = WithoutLinks(MetaLinks(e)) /\ UNCHANGED <<account, oauthState, flow, grant, asked>>
      BY <1>4 DEF DeleteMetaLinks
    <2>2. link' = [g \in Grants |-> IF link[g] # Nil /\ ProviderOf(g) = Meta /\ grant[g].email = e THEN Nil ELSE link[g]]
      BY <2>1 DEF WithoutLinks, MetaLinks
    <2>3. DeskStates' = DeskStates
      BY <2>1, SameStates
    <2>4. Meta \in Providers /\ Desk!Providers = Providers
      BY ProvidersAssumption DEF Providers, Desk!Providers
    <2>5. CASE e \in Emails
      <3> PICK d \in Emails : d = e
        BY <2>5
      <3>1. Desk!Forget(Meta, d)
        BY <1>1, <2>1, <2>2, <2>3, <2>4, DeskForget
      <3> QED
        BY <2>4, <3>1 DEF Desk!Next
    <2>6. CASE e \notin Emails
      <3>1. \A g \in Grants : link[g] # Nil => grant[g].email \in Emails
        BY <1>0 DEF LInv, TypeOK, Sources, LinksOfGrants, Grant
      <3>2. link' = link
        BY <1>0, <2>2, <2>6, <3>1
      <3> QED
        BY <1>1, <2>1, <2>3, <3>2, DeskStutter
    <2> QED
      BY <2>5, <2>6
  <1> QED
    BY <1>2, <1>3, <1>4

LEMMA ProceedDesk ==
  ASSUME KInv, NEW r \in Requests, Proceed(r) \/ RollBack(r)
  PROVE  Desk!Next \/ UNCHANGED Desk!vars
  <1>1. CASE Abort(r)
    BY <1>1, FinishGoes, QuietDesk DEF Abort
  <1>2. CASE RevokeNext(r)
    BY <1>2, RevokeGoes, NoClaim, RevokeDesk
  <1>3. CASE DropState(r) \/ RefreshLink(r)
    BY <1>3, DropGoes, RefreshGoes, QuietDesk
  <1>4. CASE LoadChildren(r) \/ DeleteChild(r) \/ DeleteUserRow(r) \/ Cascade(r)
    BY <1>4, DeletionGoes, QuietDesk
  <1> QED
    BY <1>1, <1>2, <1>3, <1>4, ObtainDesk, InsertDesk, SweepDesk, RemovalDesk DEF Proceed, RollBack

LEMMA StepImplementsDesk == KInv /\ [Next]_vars => [Desk!Next]_Desk!vars
  <1> SUFFICES ASSUME KInv, [Next]_vars PROVE Desk!Next \/ UNCHANGED Desk!vars
    OBVIOUS
  <1>1. CASE UNCHANGED vars
    <2>1. DeskClaims' = DeskClaims /\ DeskStates' = DeskStates
      BY <1>1, SameStates DEF vars, DeskClaims, ClaimIn
    <2> QED
      BY <1>1, <2>1, DeskStutter DEF vars
  <1> QED
    BY <1>1, BrowseDesk, ArriveDesk, ProceedDesk DEF Next

\* Whatever overlaps, linking is what LinkDesk promises: a mailbox is linked with a
\* grant nobody redeemed before, through the browser only to who started the flow
\* and found it open, a device's to whoever came with its code; a client that made
\* no link closes no flow; and a link goes when its revocation was asked for, with
\* its account, or with all of its provider account (handle_oauth_callback,
\* poll_device_code, unlink_email, delete_account, meta_data_deletion).
THEOREM ImplementsDesk == Spec => DeskSpec
  BY KInvAlways, DeskInit, StepImplementsDesk, PTL DEF Spec, DeskSpec, Desk!Spec
=============================================================================
