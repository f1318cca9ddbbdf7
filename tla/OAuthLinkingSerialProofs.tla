---------------------- MODULE OAuthLinkingSerialProofs ----------------------
(***************************************************************************)
(* What OAuthLinking does for clients that wait: proofs about behaviours   *)
(* in which the requests of one account never overlap, while those of      *)
(* different accounts interleave as they like.                             *)
(***************************************************************************)
EXTENDS OAuthLinkingProofs

-----------------------------------------------------------------------------
(* The inductive invariant.                                                *)

\* What a request read or did earlier is still so: the state row its callback
\* matched is there, and the links it has gone through are those there are.
Current(me) ==
  /\ me.at \in {"dropState", "obtain", "insert"} /\ FromBrowser(me.grant) =>
       oauthState[FlowOf(me.grant)] # Nil
  /\ me.at \in {"obtain", "insert"} /\ FromBrowser(me.grant) => FlowOf(me.grant) \in me.held
  /\ me.at = "unlink" => me.user \in Users /\ me.grant \in LinksOf(me.user) /\ Cleared(me.grant)
  /\ me.at = "revokeUser" =>
       /\ me.todo \subseteq LinksOf(me.user)
       /\ \A g \in LinksOf(me.user) \ me.todo : Cleared(g)
  /\ me.at \in {"flush", "cascade"} =>
       /\ Grants \cap (me.todo \cup me.held) \subseteq LinksOf(me.user)
       /\ \A g \in LinksOf(me.user) : Cleared(g)
  /\ me.at = "revokeMeta" =>
       /\ me.user = Nil /\ me.email \in Emails
       /\ me.todo \subseteq MetaLinks(me.email)
       /\ \A g \in MetaLinks(me.email) \ me.todo : Cleared(g)

\* A flow that was linked was linked once, and the state row that a browser would
\* need to link it again is gone.
Once(s) ==
  made[s] > 0 =>
    /\ made[s] = 1
    /\ flow[s].provider \in BrowserProviders => oauthState[s] = Nil

AskedMade == \A g \in asked : grant[g] # Nil /\ made[FlowOf(g)] > 0

SInv ==
  /\ GInv
  /\ \A r \in Requests : Current(req[r])
  /\ \A s \in Flows : Once(s)
  /\ AskedMade

LEMMA InitSInv == Init => SInv
  <1> SUFFICES ASSUME Init PROVE SInv
    OBVIOUS
  <1>1. GInv
    BY InitGInv
  <1>2. \A r \in Requests : Current(req[r])
    BY DEF Init, Current, Idle
  <1>3. \A s \in Flows : Once(s)
    BY DEF Init, Once
  <1>4. AskedMade
    BY DEF Init, AskedMade
  <1> QED
    BY <1>1, <1>2, <1>3, <1>4 DEF SInv

LEMMA IdleCurrent == Current(Idle) /\ Current(Idle)'
  BY DEF Current, Idle

-----------------------------------------------------------------------------
(* Others' writes.                                                         *)

\* Nothing of user u's is linked, unlinked or cleared away.
Spares(u) ==
  /\ \A g \in Grants : link'[g] = u <=> link[g] = u
  /\ \A s \in Flows : flow[s] # Nil /\ flow[s].user = u => (oauthState[s] # Nil => oauthState'[s] # Nil)

LEMMA QuietSpares == ASSUME Quiet, NEW u \in Users PROVE Spares(u)
  BY DEF Quiet, Spares

\* What a request relies on survives a step that spares its user or, for Meta's
\* callback, every link.
LEMMA Spared ==
  ASSUME LInv, NEW m \in Local, LocalOK(m), HeldOK(m), Current(m), Growing,
         IF m.at = "revokeMeta" THEN UNCHANGED link ELSE m.user \in Users => Spares(m.user)
  PROVE  Current(m)'
  <1>1. m.at \in {"dropState", "obtain", "insert"} =>
          /\ m.grant \in Grants /\ grant[m.grant] # Nil /\ FlowOf(m.grant) \in Flows
          /\ flow[FlowOf(m.grant)] # Nil /\ m.user \in Users
          /\ FromBrowser(m.grant) => flow[FlowOf(m.grant)].user = m.user
    BY DEF LocalOK, LinkSteps, LInv, TypeOK, Sources, GrantsOfFlows, Grant, FlowOf
  <1>2. \A g \in Grants : grant[g] # Nil => FlowOf(g)' = FlowOf(g) /\ ProviderOf(g)' = ProviderOf(g)
    BY DEF Growing, FlowOf, ProviderOf, LInv, TypeOK, Grant, Sources, GrantsOfFlows
  <1>3. \A g \in Grants : grant[g] # Nil /\ Cleared(g) => Cleared(g)'
    BY <1>2 DEF Cleared, Growing
  <1>4. \A g \in Grants : link[g] # Nil => grant[g] # Nil
    BY DEF LInv, Sources, LinksOfGrants
  <1>5. CASE m.at \in {"dropState", "obtain", "insert"}
    <2>1. FromBrowser(m.grant)' = FromBrowser(m.grant) /\ FlowOf(m.grant)' = FlowOf(m.grant)
      BY <1>1, <1>2, <1>5 DEF FromBrowser
    <2>2. Spares(m.user)
      BY <1>1, <1>5
    <2> QED
      BY <1>1, <1>5, <2>1, <2>2 DEF Current, Spares, Growing
  <1>6. ASSUME NEW u \in Users, m.user = u, Spares(u)
        PROVE  LinksOf(u)' = LinksOf(u) /\ \A g \in LinksOf(u) : grant[g] # Nil
    BY <1>4, <1>6, NilAssumption DEF LinksOf, Spares
  <1>7. CASE m.at \in {"unlink", "revokeUser", "flush", "cascade"}
    <2> PICK u \in Users : u = m.user
      BY <1>7 DEF Current, HeldOK
    <2>1. LinksOf(u)' = LinksOf(u) /\ \A g \in LinksOf(u) : grant[g] # Nil /\ g \in Grants
      BY <1>6, <1>7 DEF LinksOf
    <2> QED
      BY <1>3, <1>7, <2>1 DEF Current
  <1>8. CASE m.at = "revokeMeta"
    <2> PICK e \in Emails : e = m.email
      BY <1>8 DEF Current
    <2>1. MetaLinks(e)' = MetaLinks(e) /\ \A g \in MetaLinks(e) : grant[g] # Nil /\ g \in Grants
      BY <1>2, <1>4, <1>8 DEF MetaLinks, Growing
    <2> QED
      BY <1>3, <1>8, <2>1 DEF Current
  <1>9. CASE m.at \in {"idle", "refresh", "cleanup"}
    BY <1>9 DEF Current
  <1> QED
    BY <1>5, <1>7, <1>8, <1>9 DEF Local, Steps

-----------------------------------------------------------------------------
(* What each commit does.                                                  *)

LEMMA InsertEffect ==
  ASSUME SInv, NEW r \in Requests, InsertLink(r), ~Abort(r)
  PROVE  \E u \in Users, g \in Grants : \E s \in Flows :
         /\ u = req[r].user
         /\ grant[g] # Nil /\ s = FlowOf(g)
         /\ flow[s] # Nil /\ (FromBrowser(g) => flow[s].user = u) /\ made[s] = 0
         /\ link[g] = Nil /\ g \notin asked /\ SameMailbox(u, grant[g].email) = {}
         /\ link' = [link EXCEPT ![g] = u]
         /\ made'[s] = 1 /\ \A o \in Flows \ {s} : made'[o] = made[o]
         /\ \A o \in Flows : oauthState'[o] = IF o \in req[r].held THEN Nil ELSE oauthState[o]
         /\ IF FromBrowser(g) THEN req[r].held = {s} ELSE req[r].held = {}
         /\ UNCHANGED <<account, flow, grant, asked>>
  <1> DEFINE me == req[r]
  <1>0. HInv /\ me.at = "insert" /\ HeldOK(me) /\ Current(me) /\ Ready(me.grant)
    BY DEF InsertLink, SInv, GInv, HInv, InsertsRedeemed
  <1> PICK u \in Users, g \in Grants : \E s \in Flows :
         /\ u = me.user /\ g = me.grant
         /\ grant[g] # Nil /\ s = FlowOf(g) /\ flow[s] # Nil
         /\ FromBrowser(g) => flow[s].user = u
         /\ SameMailbox(u, grant[g].email) = {}
         /\ link' = [link EXCEPT ![g] = u]
         /\ oauthState' = WithoutStates(me.held)
         /\ (made[s] = 0 => made'[s] = 1) /\ \A o \in Flows \ {s} : made'[o] = made[o]
         /\ UNCHANGED <<account, flow, grant, asked>>
    BY <1>0, InsertWrites
  <1> PICK s \in Flows :
         /\ s = FlowOf(g) /\ flow[s] # Nil
         /\ (made[s] = 0 => made'[s] = 1) /\ \A o \in Flows \ {s} : made'[o] = made[o]
    OBVIOUS
  <1>1. IF FromBrowser(g) THEN me.held = {s} /\ oauthState[s] # Nil ELSE me.held = {}
    BY <1>0 DEF Current, HeldOK
  <1>2. made[s] = 0
    <2>1. made[s] \in 0 .. 2 /\ Once(s)
      BY DEF SInv, GInv, HInv, LInv, TypeOK
    <2>2. FromBrowser(g) => ~(made[s] > 0)
      BY <1>1, <2>1 DEF Once, FromBrowser, ProviderOf
    <2> QED
      BY <1>0, <2>1, <2>2 DEF Ready
  <1>3. link[g] = Nil /\ g \notin asked
    BY <1>2 DEF SInv, GInv, LinksRedeemed, AskedMade
  <1>4. \A o \in Flows : oauthState'[o] = IF o \in me.held THEN Nil ELSE oauthState[o]
    BY DEF WithoutStates
  <1> QED
    BY <1>1, <1>2, <1>3, <1>4

LEMMA CleanUpEffect ==
  ASSUME SInv, NEW r \in Requests, CleanUpStates(r)
  PROVE  \E u \in Users :
         /\ u = req[r].user
         /\ \A s \in Flows : oauthState'[s] \in {Nil, oauthState[s]}
         /\ \A s \in Flows : oauthState'[s] # oauthState[s] => flow[s].user = u
         /\ UNCHANGED <<account, flow, grant, link, asked, made>>
  <1> PICK u \in Users : u = req[r].user
    BY DEF CleanUpStates, SInv, GInv, HInv, LInv, LocalOK, LinkSteps
  <1>1. oauthState' = WithoutStates(StatesAt(u, ProviderOf(req[r].grant)))
    BY DEF CleanUpStates
  <1>2. \A s \in StatesAt(u, ProviderOf(req[r].grant)) : flow[s].user = u
    BY DEF StatesAt, StatesOf, SInv, GInv, HInv, LInv, Sources, StatesOfFlows
  <1> QED
    BY <1>1, <1>2 DEF CleanUpStates, WithoutStates

LEMMA UnlinkEffect ==
  ASSUME SInv, NEW r \in Requests, DeleteLink(r)
  PROVE  \E u \in Users, g \in Grants :
         /\ u = req[r].user
         /\ link[g] = u /\ Cleared(g)
         /\ link' = WithoutLinks({g})
         /\ UNCHANGED <<account, oauthState, flow, grant, asked, made>>
  <1>1. Current(req[r]) /\ req[r].at = "unlink"
    BY DEF DeleteLink, SInv
  <1> PICK u \in Users, g \in Grants : u = req[r].user /\ g = req[r].grant /\ link[g] = u /\ Cleared(g)
    BY <1>1 DEF Current, LinksOf
  <1> QED
    BY DEF DeleteLink

LEMMA DeletionEffect ==
  ASSUME SInv, NEW r \in Requests, CommitDeletion(r)
  PROVE  \E u \in Users :
         /\ u = req[r].user
         /\ \A g \in LinksOf(u) : Cleared(g)
         /\ \A g \in Grants : link'[g] = IF link[g] = u THEN Nil ELSE link[g]
         /\ \A s \in Flows : oauthState'[s] \in {Nil, oauthState[s]}
         /\ \A s \in Flows : oauthState'[s] # oauthState[s] => flow[s].user = u
         /\ account' = account \ {u}
         /\ UNCHANGED <<flow, grant, asked, made>>
  <1> DEFINE me == req[r]
  <1>1. Current(me) /\ HeldOK(me) /\ me.at = "cascade"
    BY DEF CommitDeletion, SInv, GInv, HInv
  <1> PICK u \in Users : u = me.user
    BY <1>1 DEF HeldOK
  <1>2. /\ Grants \cap me.held \subseteq LinksOf(u) /\ \A g \in LinksOf(u) : Cleared(g)
        /\ \A s \in Flows \cap me.held : flow[s].user = u
    BY <1>1 DEF Current, HeldOK
  <1>3. LinksOf(u) \subseteq me.held
    BY DEF CommitDeletion, RowsOf
  <1>4. \A g \in Grants : link'[g] = IF link[g] = u THEN Nil ELSE link[g]
    BY <1>2, <1>3 DEF CommitDeletion, WithoutLinks, LinksOf
  <1>5. \A s \in Flows : oauthState'[s] = IF s \in me.held THEN Nil ELSE oauthState[s]
    BY DEF CommitDeletion, WithoutStates
  <1> QED
    BY <1>2, <1>4, <1>5 DEF CommitDeletion

LEMMA MetaEffect ==
  ASSUME SInv, NEW r \in Requests, DeleteMetaLinks(r)
  PROVE  \E e \in Emails :
         /\ req[r].user = Nil /\ req[r].at # "idle"
         /\ \A g \in MetaLinks(e) : Cleared(g)
         /\ link' = WithoutLinks(MetaLinks(e))
         /\ UNCHANGED <<account, oauthState, flow, grant, asked, made>>
  <1>1. Current(req[r]) /\ req[r].at = "revokeMeta" /\ req[r].todo = {}
    BY DEF DeleteMetaLinks, SInv
  <1> PICK e \in Emails : e = req[r].email
    BY <1>1 DEF Current
  <1> QED
    BY <1>1 DEF Current, DeleteMetaLinks

-----------------------------------------------------------------------------
(* Own steps.                                                              *)

\* Request r goes on with what it may rely on.
Lands(r) == \E l \in Local : req' = [req EXCEPT ![r] = l] /\ Current(l)'

LEMMA FinishLands == ASSUME NEW r \in Requests, Finish(r) PROVE Lands(r)
  BY IdleOK, IdleCurrent DEF Finish, Lands

\* Once redeemed, a grant goes on with the state row it came with.
LEMMA TokensLand ==
  ASSUME SInv, NEW r \in Requests, NEW l \in Local, NEW g \in Grants, grant[g] # Nil, l.grant = g,
         FromBrowser(g) => oauthState[FlowOf(g)] # Nil /\ FlowOf(g) \in l.held,
         Tokens(r, l, g), UNCHANGED <<tables, flow, asked, made>>
  PROVE  Lands(r)
  <1>1. CASE Finish(r)
    BY <1>1, FinishLands
  <1>2. CASE Goto(r, [l EXCEPT !.at = "insert"])
    <2> PICK m \in Local : m = [l EXCEPT !.at = "insert"]
      BY DEF Local, Steps
    <2>1. m.at = "insert" /\ m.grant = g /\ m.held = l.held
      BY DEF Local
    <2> HIDE DEF Tokens
    <2>2. FlowOf(g)' = FlowOf(g) /\ (FromBrowser(g)' <=> FromBrowser(g))
      BY TokensGrow, GrantStays DEF SInv, GInv, HInv
    <2>3. Current(m)'
      BY <2>1, <2>2 DEF Current, tables
    <2> QED
      BY <1>2, <2>3 DEF Lands, Goto
  <1> QED
    BY <1>1, <1>2 DEF Tokens

LEMMA ArriveLands == ASSUME SInv, NEW r \in Requests, Arrive(r) PROVE Lands(r)
  <1>0. LInv /\ asked \subseteq Grants
    BY DEF SInv, GInv, HInv, LInv, TypeOK
  <1>1. ASSUME NEW u \in Users, DeleteAccount(r, u) PROVE Lands(r)
    <2> PICK l \in Local : l = [Idle EXCEPT !.at = "revokeUser", !.user = u, !.todo = LinksOf(u)]
      BY DEF Idle, Local, Steps, LinksOf
    <2>1. req' = [req EXCEPT ![r] = l] /\ l.at = "revokeUser" /\ l.user = u /\ l.todo = LinksOf(u) /\ UNCHANGED link
      BY <1>1 DEF DeleteAccount, Begin, Idle, tables
    <2>2. LinksOf(u)' = LinksOf(u)
      BY <2>1 DEF LinksOf
    <2>3. Current(l)'
      BY <2>1, <2>2 DEF Current
    <2> QED
      BY <2>1, <2>3 DEF Lands
  <1>2. ASSUME NEW u \in Users, NEW g \in Grants, Callback(r, u, g) PROVE Lands(r)
    <2> PICK l \in Local : l = [Idle EXCEPT !.at = "dropState", !.user = u, !.grant = g]
      BY DEF Idle, Local, Steps
    <2>1. req' = [req EXCEPT ![r] = l] /\ l.at = "dropState" /\ l.grant = g /\ UNCHANGED <<oauthState, flow, grant>>
      BY <1>2 DEF Callback, Begin, Idle, tables
    <2>2. FromBrowser(g) /\ oauthState[FlowOf(g)] # Nil
      BY <1>2 DEF Callback, FromBrowser, StateMatches
    <2>3. Current(l)'
      BY <2>1, <2>2 DEF Current, FromBrowser, ProviderOf, FlowOf
    <2> QED
      BY <2>1, <2>3 DEF Lands
  <1>3. ASSUME NEW u \in Users, NEW g \in Grants, Poll(r, u, g) PROVE Lands(r)
    <2> PICK l \in Local : l = [Idle EXCEPT !.at = "obtain", !.user = u, !.grant = g]
      BY DEF Idle, Local, Steps
    <2>1. req' = [req EXCEPT ![r] = l] /\ l.at = "obtain" /\ l.grant = g /\ UNCHANGED <<flow, grant>>
      BY <1>3 DEF Poll, Begin, Idle
    <2>2. ~FromBrowser(g)'
      BY <1>3, <2>1, ProvidersAssumption DEF Poll, FromBrowser, ProviderOf, FlowOf
    <2>3. Current(l)'
      BY <2>1, <2>2 DEF Current
    <2> QED
      BY <2>1, <2>3 DEF Lands
  <1>4. ASSUME NEW g \in Grants, UnlinkEmail(r, g) PROVE Lands(r)
    <2> PICK u \in Users : u = link[g]
      BY <1>4 DEF UnlinkEmail, SInv, GInv, HInv, LInv, TypeOK
    <2> PICK l \in Local : l = [Idle EXCEPT !.at = "unlink", !.user = u, !.grant = g]
      BY DEF Idle, Local, Steps
    <2>1. /\ req' = [req EXCEPT ![r] = l] /\ l.at = "unlink" /\ l.user = u /\ l.grant = g
          /\ UNCHANGED <<link, flow, grant>> /\ asked' = Revoke({g})
      BY <1>4 DEF UnlinkEmail, Begin, Idle, tables
    <2>2. g \in LinksOf(u)' /\ Cleared(g)'
      BY <2>1 DEF LinksOf, Cleared, Revoke, ProviderOf, FlowOf
    <2>3. Current(l)'
      BY <2>1, <2>2 DEF Current
    <2> QED
      BY <2>1, <2>3 DEF Lands
  <1>5. ASSUME NEW e \in Emails, MetaDeletion(r, e) PROVE Lands(r)
    <2> PICK l \in Local : l = [Idle EXCEPT !.at = "revokeMeta", !.email = e, !.todo = MetaLinks(e)]
      BY DEF Idle, Local, Steps, MetaLinks
    <2>1. /\ req' = [req EXCEPT ![r] = l] /\ l.at = "revokeMeta" /\ l.user = Nil /\ l.email = e
          /\ l.todo = MetaLinks(e) /\ UNCHANGED <<link, flow, grant>>
      BY <1>5 DEF MetaDeletion, Begin, Idle, tables
    <2>2. MetaLinks(e)' = MetaLinks(e)
      BY <2>1 DEF MetaLinks, ProviderOf, FlowOf
    <2>3. Current(l)'
      BY <2>1, <2>2 DEF Current
    <2> QED
      BY <2>1, <2>3 DEF Lands
  <1> QED
    BY <1>1, <1>2, <1>3, <1>4, <1>5 DEF Arrive

\* A move that changes no row and asks for nothing.
LEMMA MoveLands ==
  ASSUME NEW r \in Requests, NEW l \in Local, Goto(r, l), Current(l), UNCHANGED <<tables, flow, grant, asked, made>>
  PROVE  Lands(r)
  <1>1. Current(l)'
    BY DEF Current, Cleared, FromBrowser, ProviderOf, FlowOf, LinksOf, MetaLinks, tables
  <1> QED
    BY <1>1 DEF Lands, Goto

LEMMA DeletionLands ==
  ASSUME SInv, NEW r \in Requests, LoadChildren(r) \/ DeleteChild(r) \/ DeleteUserRow(r) \/ Cascade(r)
  PROVE  Lands(r)
  <1> DEFINE me == req[r]
  <1>0. /\ me \in Local /\ Current(me) /\ HeldOK(me) /\ me.at \in {"revokeUser", "flush", "cascade"}
        /\ UNCHANGED <<tables, flow, grant, asked, made>>
    BY DEF SInv, GInv, HInv, LInv, TypeOK, LoadChildren, DeleteChild, DeleteUserRow, Cascade
  <1> PICK u \in Users : u = me.user
    BY <1>0 DEF HeldOK
  <1>1. RowsOf(u) \subseteq Flows \cup Grants /\ Grants \cap RowsOf(u) \subseteq LinksOf(u)
    BY RowsAssumption DEF RowsOf, LinksOf, StatesOf
  <1>2. CASE LoadChildren(r)
    <2>1. me.todo = {} /\ me.held = {} /\ me.at = "revokeUser"
      BY <1>0, <1>2 DEF LoadChildren, HeldOK
    <2> PICK l \in Local : l = [me EXCEPT !.at = "flush", !.todo = RowsOf(u)]
      BY <1>0, <1>1 DEF Local, Steps
    <2>2. Goto(r, l) /\ l.at = "flush" /\ l.user = u /\ l.todo = RowsOf(u) /\ l.held = {}
      BY <1>0, <1>2, <2>1 DEF LoadChildren, Local
    <2>3. Current(l)
      BY <1>0, <1>1, <2>1, <2>2 DEF Current
    <2> QED
      BY <1>0, <2>2, <2>3, MoveLands
  <1>3. CASE DeleteChild(r)
    <2> PICK x \in me.todo : Goto(r, [me EXCEPT !.todo = @ \ {x}, !.held = IF Present(x) THEN @ \cup {x} ELSE @])
      BY <1>3 DEF DeleteChild
    <2> DEFINE held == IF Present(x) THEN me.held \cup {x} ELSE me.held
    <2>1. me.at = "flush" /\ held \subseteq me.held \cup {x} /\ held \subseteq Flows \cup Grants
      BY <1>0, <1>3 DEF DeleteChild, Local
    <2> PICK l \in Local : l = [me EXCEPT !.todo = @ \ {x}, !.held = held]
      BY <1>0, <2>1 DEF Local
    <2>2. Goto(r, l) /\ l.at = "flush" /\ l.user = u /\ l.todo \cup l.held \subseteq me.todo \cup me.held
      BY <1>0, <2>1 DEF Local
    <2>3. Current(l)
      BY <1>0, <2>1, <2>2 DEF Current
    <2> QED
      BY <1>0, <2>2, <2>3, MoveLands
  <1>4. CASE DeleteUserRow(r)
    <2> PICK l \in Local : l = [me EXCEPT !.at = "cascade"]
      BY <1>0 DEF Local, Steps
    <2>1. me.at = "flush" /\ l.at = "cascade" /\ l.user = u /\ l.todo = me.todo /\ l.held = me.held
      BY <1>0, <1>4 DEF DeleteUserRow, Local
    <2>2. Current(l)
      BY <1>0, <2>1 DEF Current
    <2> QED
      BY <1>0, <1>4, <2>2, MoveLands, FinishLands DEF DeleteUserRow
  <1>5. CASE Cascade(r)
    <2> PICK x \in RowsOf(u) : Goto(r, [me EXCEPT !.held = @ \cup {x}])
      BY <1>5 DEF Cascade
    <2> PICK l \in Local : l = [me EXCEPT !.held = @ \cup {x}]
      BY <1>0, <1>1 DEF Local
    <2>1. /\ me.at = "cascade" /\ l.at = "cascade" /\ l.user = u
          /\ Grants \cap (l.todo \cup l.held) \subseteq (Grants \cap (me.todo \cup me.held)) \cup LinksOf(u)
      BY <1>0, <1>1, <1>5 DEF Cascade, Local
    <2>2. Current(l)
      BY <1>0, <2>1 DEF Current
    <2> QED
      BY <1>0, <2>2, MoveLands
  <1> QED
    BY <1>2, <1>3, <1>4, <1>5

LEMMA RevokeLands == ASSUME SInv, NEW r \in Requests, RevokeNext(r) PROVE Lands(r)
  <1> DEFINE me == req[r]
  <1>0. /\ me \in Local /\ Current(me) /\ LocalOK(me) /\ HeldOK(me) /\ me.at \in {"revokeUser", "revokeMeta"}
        /\ UNCHANGED <<tables, flow, grant, made>>
    BY DEF SInv, GInv, HInv, LInv, TypeOK, RevokeNext
  <1> PICK g \in me.todo : asked' = Revoke({g}) /\ Goto(r, [me EXCEPT !.todo = @ \ {g}])
    BY DEF RevokeNext
  <1> PICK l \in Local : l = [me EXCEPT !.todo = @ \ {g}]
    BY <1>0 DEF Local
  <1>1. l.at = me.at /\ l.user = me.user /\ l.email = me.email /\ l.todo = me.todo \ {g}
    BY <1>0 DEF Local
  <1>2. \A h \in Grants : Cleared(h) \/ h = g => Cleared(h)'
    BY <1>0 DEF Cleared, Revoke, ProviderOf, FlowOf
  <1>3. CASE me.at = "revokeUser"
    <2> PICK u \in Users : u = me.user
      BY <1>0, <1>3 DEF HeldOK
    <2>1. LinksOf(u)' = LinksOf(u) /\ LinksOf(u) \subseteq Grants
      BY <1>0 DEF LinksOf, tables
    <2>2. Current(l)'
      BY <1>0, <1>1, <1>2, <1>3, <2>1 DEF Current
    <2> QED
      BY <2>2 DEF Lands, Goto
  <1>4. CASE me.at = "revokeMeta"
    <2> PICK e \in Emails : e = me.email
      BY <1>0, <1>4 DEF Current
    <2>1. MetaLinks(e)' = MetaLinks(e) /\ MetaLinks(e) \subseteq Grants
      BY <1>0 DEF MetaLinks, ProviderOf, FlowOf, tables
    <2>2. Current(l)'
      BY <1>0, <1>1, <1>2, <1>4, <2>1 DEF Current
    <2> QED
      BY <2>2 DEF Lands, Goto
  <1> QED
    BY <1>0, <1>3, <1>4

LEMMA DropLands == ASSUME SInv, NEW r \in Requests, DropState(r) PROVE Lands(r)
  <1> DEFINE me == req[r]
  <1>0. /\ me \in Local /\ Current(me) /\ LocalOK(me) /\ HeldOK(me) /\ me.at = "dropState"
        /\ UNCHANGED <<tables, flow, grant, asked, made>>
    BY DEF SInv, GInv, HInv, LInv, TypeOK, DropState
  <1> PICK s \in Flows : s = FlowOf(me.grant)
    BY <1>0 DEF LocalOK, LinkSteps, SInv, GInv, HInv, LInv, TypeOK, Grant, FlowOf
  <1>1. Present(s) /\ FromBrowser(me.grant)
    BY <1>0 DEF Current, HeldOK, Present
  <1> PICK l \in Local : l = [me EXCEPT !.at = "obtain", !.held = {s}]
    BY <1>0 DEF Local, Steps
  <1>2. l.at = "obtain" /\ l.grant = me.grant /\ l.held = {s} /\ Goto(r, l)
    BY <1>0, <1>1 DEF DropState, Local
  <1>3. Current(l)
    BY <1>0, <1>1, <1>2 DEF Current
  <1> QED
    BY <1>0, <1>2, <1>3, MoveLands

LEMMA ProceedLands == ASSUME SInv, NEW r \in Requests, Proceed(r) \/ RollBack(r) PROVE Lands(r)
  <1>0. LInv
    BY DEF SInv, GInv, HInv
  <1>1. CASE Obtain(r)
    <2>1. /\ req[r] \in Local /\ req[r].grant \in Grants /\ grant[req[r].grant] # Nil /\ Current(req[r])
          /\ req[r].at = "obtain" /\ UNCHANGED <<tables, flow, asked, made>>
      BY <1>1 DEF Obtain, SInv, GInv, HInv, LInv, TypeOK, LocalOK, LinkSteps
    <2> PICK l \in Local : l = req[r]
      BY <2>1
    <2> PICK g \in Grants : g = req[r].grant
      BY <2>1
    <2>2. FromBrowser(g) => oauthState[FlowOf(g)] # Nil /\ FlowOf(g) \in l.held
      BY <2>1 DEF Current
    <2>3. CASE Tokens(r, req[r], req[r].grant)
      BY <2>1, <2>2, <2>3, TokensLand
    <2> QED
      BY <1>1, <2>3, FinishLands DEF Obtain
  <1>2. CASE (InsertLink(r) \/ RefreshLink(r)) /\ ~Finish(r)
    <2>1. req[r] \in Local
      BY <1>0 DEF LInv, TypeOK
    <2> PICK at \in {"refresh", "cleanup"} : Goto(r, [req[r] EXCEPT !.at = at])
      BY <1>2 DEF InsertLink, RefreshLink, Abort
    <2> PICK l \in Local : l = [req[r] EXCEPT !.at = at]
      BY <2>1 DEF Local, Steps
    <2>2. Goto(r, l) /\ l.at = at
      BY <2>1 DEF Local
    <2>3. Current(l)'
      BY <2>2 DEF Current
    <2> QED
      BY <2>2, <2>3 DEF Lands, Goto
  <1>3. CASE Finish(r)
    BY <1>3, FinishLands
  <1>4. CleanUpStates(r) \/ DeleteLink(r) \/ CommitDeletion(r) \/ DeleteMetaLinks(r) \/ RollBack(r) => Finish(r)
    BY DEF CleanUpStates, DeleteLink, CommitDeletion, DeleteMetaLinks, RollBack, Abort
  <1> QED
    BY <1>1, <1>2, <1>3, <1>4, DropLands, RevokeLands, DeletionLands DEF Proceed

-----------------------------------------------------------------------------
(* Every step.                                                             *)

LEMMA WritesSpare ==
  ASSUME SInv, NEW r \in Requests, Writes(r)
  PROVE  \/ req[r].user = Nil
         \/ \E u \in Users : req[r].user = u /\ \A v \in Users : v # u => Spares(v)
  <1>0. made \in [Flows -> 0 .. 2] /\ \A g \in Grants : link[g] # Nil => link[g] \in Users
    BY DEF SInv, GInv, HInv, LInv, TypeOK
  <1>1. CASE InsertLink(r) /\ ~Abort(r)
    <2> PICK u \in Users, g \in Grants : \E s \in Flows :
           /\ u = req[r].user /\ link[g] = Nil
           /\ FromBrowser(g) => flow[s].user = u
           /\ link' = [link EXCEPT ![g] = u]
           /\ \A o \in Flows : oauthState'[o] = IF o \in req[r].held THEN Nil ELSE oauthState[o]
           /\ IF FromBrowser(g) THEN req[r].held = {s} ELSE req[r].held = {}
      BY <1>1, InsertEffect
    <2>1. \A v \in Users : v # u => Spares(v)
      BY <1>0, NilAssumption DEF Spares, SInv, GInv, HInv, LInv, TypeOK
    <2> QED
      BY <2>1
  <1>2. CASE CleanUpStates(r)
    <2> PICK u \in Users :
           /\ u = req[r].user
           /\ \A s \in Flows : oauthState'[s] # oauthState[s] => flow[s].user = u
           /\ UNCHANGED <<link, made>>
      BY <1>2, CleanUpEffect
    <2>1. \A v \in Users : v # u => Spares(v)
      BY DEF Spares
    <2> QED
      BY <2>1
  <1>3. CASE DeleteLink(r)
    <2> PICK u \in Users, g \in Grants :
           /\ u = req[r].user /\ link[g] = u /\ link' = WithoutLinks({g})
           /\ UNCHANGED <<oauthState, made>>
      BY <1>3, UnlinkEffect
    <2>1. \A v \in Users : v # u => Spares(v)
      BY NilAssumption DEF Spares, WithoutLinks
    <2> QED
      BY <2>1
  <1>4. CASE CommitDeletion(r)
    <2> PICK u \in Users :
           /\ u = req[r].user
           /\ \A g \in Grants : link'[g] = IF link[g] = u THEN Nil ELSE link[g]
           /\ \A s \in Flows : oauthState'[s] # oauthState[s] => flow[s].user = u
           /\ UNCHANGED made
      BY <1>4, DeletionEffect
    <2>1. \A v \in Users : v # u => Spares(v)
      BY NilAssumption DEF Spares
    <2> QED
      BY <2>1
  <1>5. CASE DeleteMetaLinks(r)
    BY <1>5, MetaEffect
  <1> QED
    BY <1>1, <1>2, <1>3, <1>4, <1>5 DEF Writes

LEMMA CurrentIfSpared ==
  ASSUME SInv, [Next]_vars, NEW q \in Requests, req'[q] = req[q],
         IF req[q].at = "revokeMeta" THEN UNCHANGED link ELSE req[q].user \in Users => Spares(req[q].user)
  PROVE  Current(req[q])'
  <1> PICK m \in Local : m = req[q]
    BY DEF SInv, GInv, HInv, LInv, TypeOK
  <1>1. Current(m)'
    BY StepGrows, Spared DEF SInv, GInv, HInv, LInv
  <1>2. req'[q] = m
    OBVIOUS
  <1> QED
    BY <1>1, <1>2 DEF Current, Cleared, FromBrowser, ProviderOf, FlowOf, LinksOf, MetaLinks

LEMMA CurrentIfLanded ==
  ASSUME SInv, [Next]_vars, NEW r \in Requests, Lands(r),
         \A q \in Requests : q # r /\ req'[q] = req[q] => Current(req[q])'
  PROVE  \A q \in Requests : Current(req[q])'
  <1> PICK l \in Local : req' = [req EXCEPT ![r] = l] /\ Current(l)'
    BY DEF Lands
  <1>1. req'[r] = l /\ \A q \in Requests : q # r => req'[q] = req[q]
    BY DEF SInv, GInv, HInv, LInv, TypeOK
  <1>2. Current(req[r])'
    BY <1>1 DEF Current, Cleared, FromBrowser, ProviderOf, FlowOf, LinksOf, MetaLinks
  <1> QED
    BY <1>1, <1>2

LEMMA StepCurrent == ASSUME SInv, OneAtATime, [Next]_vars PROVE \A q \in Requests : Current(req[q])'
  <1>1. ASSUME Quiet, NEW q \in Requests, req'[q] = req[q] PROVE Current(req[q])'
    BY <1>1, CurrentIfSpared, QuietSpares DEF Quiet
  <1>2. CASE Browse \/ UNCHANGED vars
    <2>1. Quiet /\ req' = req
      BY <1>2, BrowseGrows DEF Browse, Initiate, Expire, Consent, vars, Quiet, SInv, GInv, HInv
    <2> QED
      BY <1>1, <2>1
  <1>3. ASSUME NEW r \in Requests, Writes(r), NEW q \in Requests, q # r, req'[q] = req[q] PROVE Current(req[q])'
    <2>0. /\ req[r].at # "idle" /\ req[q] \in Local /\ Current(req[q])
          /\ req[q].at = "idle" \/ (req[q].user # req[r].user /\ req[q].user # Nil /\ req[r].user # Nil)
      BY <1>3 DEF Writes, InsertLink, CleanUpStates, DeleteLink, CommitDeletion, DeleteMetaLinks, OneAtATime,
                  SInv, GInv, HInv, LInv, TypeOK
    <2>1. CASE req[q].at = "idle"
      <3>1. req'[q].at = "idle"
        BY <1>3, <2>1
      <3> QED
        BY <3>1 DEF Current
    <2>2. CASE req[q].user # req[r].user /\ req[q].user # Nil /\ req[r].user # Nil
      <3> PICK u \in Users : req[r].user = u /\ \A v \in Users : v # u => Spares(v)
        BY <1>3, <2>2, WritesSpare
      <3> PICK v \in Users : v = req[q].user
        BY <2>0, <2>2 DEF Local
      <3>1. req[q].at # "revokeMeta"
        BY <2>0, <2>2 DEF Current
      <3> QED
        BY <1>3, <2>2, <3>1, CurrentIfSpared
    <2> QED
      BY <2>0, <2>1, <2>2
  <1>4. ASSUME NEW r \in Requests, Arrive(r) \/ Proceed(r) \/ RollBack(r) PROVE \A q \in Requests : Current(req[q])'
    <2>1. Quiet \/ Writes(r)
      BY <1>4, ArriveGrows, ProceedGrows DEF SInv, GInv, HInv
    <2>2. Lands(r)
      BY <1>4, ArriveLands, ProceedLands
    <2> QED
      BY <1>1, <1>3, <2>1, <2>2, CurrentIfLanded
  <1> QED
    BY <1>2, <1>4 DEF Next

LEMMA MadeFlows == ASSUME GInv, NEW s \in Flows, made[s] > 0 PROVE flow[s] # Nil
  BY DEF GInv, MadeRedeemed, Redeemed, HInv, LInv, Sources, GrantsOfFlows

LEMMA StepOnce == ASSUME SInv, [Next]_vars PROVE \A s \in Flows : Once(s)'
  <1> SUFFICES ASSUME NEW s \in Flows PROVE Once(s)'
    OBVIOUS
  <1>0. Once(s) /\ Growing /\ made \in [Flows -> 0 .. 2]
    BY StepGrows DEF SInv, GInv, HInv, LInv, TypeOK
  <1>1. ASSUME made'[s] = made[s] PROVE Once(s)'
    <2> SUFFICES ASSUME made[s] > 0 PROVE Once(s)'
      BY <1>1 DEF Once
    <2>1. flow[s] # Nil
      BY MadeFlows DEF SInv
    <2>2. flow'[s] = flow[s] /\ (oauthState[s] = Nil => oauthState'[s] = Nil)
      BY <1>0, <2>1 DEF Growing
    <2> QED
      BY <1>0, <1>1, <2>2 DEF Once
  <1>2. ASSUME NEW r \in Requests, InsertLink(r), ~Abort(r), made'[s] # made[s] PROVE Once(s)'
    <2> PICK u \in Users, g \in Grants : \E t \in Flows :
           /\ t = FlowOf(g)
           /\ made'[t] = 1 /\ \A o \in Flows \ {t} : made'[o] = made[o]
           /\ \A o \in Flows : oauthState'[o] = IF o \in req[r].held THEN Nil ELSE oauthState[o]
           /\ IF FromBrowser(g) THEN req[r].held = {t} ELSE req[r].held = {}
           /\ UNCHANGED flow
      BY <1>2, InsertEffect
    <2>1. FlowOf(g) = s /\ made'[s] = 1
      BY <1>2
    <2> QED
      BY <2>1 DEF Once, FlowOf, FromBrowser, ProviderOf
  <1>3. Quiet => made'[s] = made[s]
    BY DEF Quiet
  <1>4. ASSUME NEW r \in Requests, Writes(r), made'[s] # made[s] PROVE InsertLink(r) /\ ~Abort(r)
    BY <1>4 DEF Writes, CleanUpStates, DeleteLink, CommitDeletion, DeleteMetaLinks, Abort
  <1> QED
    BY <1>1, <1>2, <1>3, <1>4, StepGrows DEF SInv, GInv, HInv

\* Revocation is asked for one link at a time, and a link it is asked for exists.
LEMMA AskedStep ==
  ASSUME SInv, [Next]_vars, asked' # asked
  PROVE  Quiet /\ \E g \in Grants : link[g] # Nil /\ ProviderOf(g) \in Revocable /\ asked' = asked \cup {g}
  <1>1. ASSUME NEW g \in Grants, link[g] # Nil, asked' = Revoke({g})
        PROVE  \E h \in Grants : link[h] # Nil /\ ProviderOf(h) \in Revocable /\ asked' = asked \cup {h}
    <2>1. ProviderOf(g) \in Revocable
      BY <1>1 DEF Revoke
    <2> QED
      BY <1>1, <2>1 DEF Revoke
  <1>2. ASSUME NEW r \in Requests, NEW g \in Grants, UnlinkEmail(r, g)
        PROVE  Quiet /\ link[g] # Nil /\ asked' = Revoke({g})
    BY <1>2 DEF UnlinkEmail, Quiet, tables
  <1>3. ASSUME NEW r \in Requests, RevokeNext(r)
        PROVE  Quiet /\ \E g \in Grants : link[g] # Nil /\ asked' = Revoke({g})
    <2> DEFINE me == req[r]
    <2>1. Current(me) /\ LocalOK(me) /\ HeldOK(me) /\ me.at \in {"revokeUser", "revokeMeta"} /\ UNCHANGED <<tables, made>>
      BY <1>3 DEF RevokeNext, SInv, GInv, HInv, LInv
    <2> PICK g \in me.todo : asked' = Revoke({g})
      BY <1>3 DEF RevokeNext
    <2>2. link[g] # Nil /\ g \in Grants
      BY <2>1, NilAssumption DEF Current, LocalOK, HeldOK, LinksOf, MetaLinks
    <2> QED
      BY <2>1, <2>2 DEF Quiet, tables
  <1>4. ASSUME NEW r \in Requests, Arrive(r) \/ Proceed(r) \/ RollBack(r)
        PROVE  RevokeNext(r) \/ \E g \in Grants : UnlinkEmail(r, g)
    BY <1>4 DEF Arrive, DeleteAccount, Poll, Callback, MetaDeletion, Proceed, RollBack, Abort, DropState, Obtain,
         InsertLink, RefreshLink, CleanUpStates, DeleteLink, LoadChildren, DeleteChild, DeleteUserRow, Cascade, CommitDeletion,
         DeleteMetaLinks
  <1> QED
    BY <1>1, <1>2, <1>3, <1>4 DEF Next, Browse, Initiate, Expire, Consent, vars

LEMMA StepAskedMade == ASSUME SInv, [Next]_vars PROVE AskedMade'
  <1>0. LInv /\ HInv /\ Growing /\ asked \subseteq Grants
    BY StepGrows DEF SInv, GInv, HInv, LInv, TypeOK
  <1>1. \A g \in Grants : g \in asked \/ link[g] # Nil => grant[g] # Nil /\ made[FlowOf(g)] > 0
    BY DEF SInv, GInv, LinksRedeemed, Redeemed, AskedMade
  <1>2. ASSUME NEW g \in asked' PROVE g \in Grants /\ (g \in asked \/ link[g] # Nil)
    BY <1>0, AskedStep
  <1> SUFFICES ASSUME NEW g \in asked' PROVE grant'[g] # Nil /\ made'[FlowOf(g)'] > 0
    BY DEF AskedMade, FlowOf
  <1>3. g \in Grants /\ grant[g] # Nil /\ made[FlowOf(g)] > 0
    BY <1>1, <1>2
  <1> QED
    BY <1>0, <1>3, GrantStays, MadeStays

LEMMA SInvAlways == Spec => ([]OneAtATime => []SInv)
  <1>1. SInv /\ OneAtATime /\ [Next]_vars => SInv'
    <2> SUFFICES ASSUME SInv, OneAtATime, [Next]_vars PROVE SInv'
      OBVIOUS
    <2>1. GInv'
      BY NextGInv DEF SInv
    <2> QED
      BY <2>1, StepCurrent, StepOnce, StepAskedMade DEF SInv
  <1> QED
    BY <1>1, InitSInv, PTL DEF Spec

-----------------------------------------------------------------------------
(* What a client that waits gets.                                          *)

\* A flow makes one link: its state is used once, its device code too
\* (handle_oauth_callback, poll_device_code).
THEOREM FlowLinksOnce == Spec => ([]OneAtATime => []StateSpentOnce)
  <1>1. SInv => StateSpentOnce
    <2> SUFFICES ASSUME SInv, NEW s \in Flows PROVE made[s] <= 1
      BY DEF StateSpentOnce
    <2>1. Once(s) /\ made[s] \in 0 .. 2
      BY DEF SInv, GInv, HInv, LInv, TypeOK
    <2> QED
      BY <2>1 DEF Once
  <1> QED
    BY <1>1, SInvAlways, PTL

\* Link g does not leave with its account unrevoked.
RevokedFirst(g) ==
  link[g] # Nil /\ link[g] \notin account' /\ ProviderOf(g) \in Revocable => g \in asked

LEMMA StepRevoked == ASSUME SInv, RowsHaveOwners, [Next]_vars, NEW g \in Grants PROVE RevokedFirst(g)
  <1>1. CASE account' = account
    BY <1>1 DEF RevokedFirst, RowsHaveOwners
  <1>2. ASSUME NEW r \in Requests, CommitDeletion(r) PROVE RevokedFirst(g)
    <2> PICK u \in Users : (\A h \in LinksOf(u) : Cleared(h)) /\ account' = account \ {u}
      BY <1>2, DeletionEffect
    <2>1. link[g] # Nil /\ link[g] \notin account' => g \in LinksOf(u)
      BY DEF RowsHaveOwners, LinksOf
    <2> QED
      BY <2>1 DEF RevokedFirst, Cleared
  <1>3. ASSUME NEW r \in Requests, Arrive(r) \/ Proceed(r) \/ RollBack(r), account' # account
        PROVE  CommitDeletion(r)
    BY <1>3 DEF Arrive, DeleteAccount, Poll, UnlinkEmail, Callback, MetaDeletion, Proceed, RollBack, Abort, DropState,
         Obtain, InsertLink, RefreshLink, CleanUpStates, DeleteLink, RevokeNext, LoadChildren, DeleteChild, DeleteUserRow, Cascade,
         DeleteMetaLinks, tables
  <1> QED
    BY <1>1, <1>2, <1>3 DEF Next, Browse, Initiate, Expire, Consent, vars, tables

\* A link leaves with its account only after the provider, where it can, was
\* asked to revoke its tokens (user_service.delete_account).
THEOREM TokensRevokedFirst == Spec => ([]OneAtATime => RevokedBeforeCascade)
  <1>1. SInv /\ RowsHaveOwners /\ [Next]_vars => [\A g \in Grants : RevokedFirst(g)]_vars
    BY StepRevoked
  <1> QED
    BY <1>1, SInvAlways, RowsOwned, PTL DEF Spec, RevokedBeforeCascade, RevokedFirst

-----------------------------------------------------------------------------
(* OAuthLinking implements LinkRegistry.                                   *)

ClaimOf(g) ==
  IF link[g] = Nil THEN Nil
  ELSE [user |-> link[g], email |-> grant[g].email, provider |-> ProviderOf(g), flow |-> FlowOf(g)]

Spent(s) == made[s] > 0 /\ flow[s].provider \in BrowserProviders

RegistryClaims == [g \in Grants |-> ClaimOf(g)]
RegistrySpent == {s \in Flows : Spent(s)}

LEMMA RegistryInit == Init => Registry!Init
  BY DEF Registry!Init, Init

\* The registry after a step, entry by entry.
LEMMA RegistryUnchanged ==
  ASSUME \A g \in Grants : ClaimOf(g)' = ClaimOf(g)
  PROVE  RegistryClaims' = RegistryClaims
  BY DEF RegistryClaims

\* The actions of LinkRegistry, over the registry kept by OAuthLinking.
LEMMA RegistryStutter ==
  ASSUME RegistryClaims' = RegistryClaims, RegistrySpent' = RegistrySpent, asked' = asked
  PROVE  UNCHANGED Registry!vars
  BY DEF Registry!vars, RegistryClaims, RegistrySpent, ClaimOf, Spent

LEMMA RegistryAsk ==
  ASSUME NEW g \in Grants, RegistryClaims[g] # Nil, RegistryClaims[g].provider \in Revocable,
         asked' = asked \cup {g},
         RegistryClaims' = RegistryClaims, RegistrySpent' = RegistrySpent
  PROVE  Registry!Ask(g)
  BY DEF Registry!Ask, RegistryClaims, RegistrySpent, ClaimOf, Spent

LEMMA RegistryLink ==
  ASSUME NEW g \in Grants, NEW c \in Registry!Claim,
         RegistryClaims[g] = Nil, g \notin asked,
         \A h \in Grants : RegistryClaims[h] # Nil =>
           ~(RegistryClaims[h].user = c.user /\ RegistryClaims[h].email = c.email),
         c.flow \notin RegistrySpent,
         RegistryClaims' = [RegistryClaims EXCEPT ![g] = c],
         RegistrySpent' = IF c.provider \in BrowserProviders THEN RegistrySpent \cup {c.flow} ELSE RegistrySpent,
         UNCHANGED asked
  PROVE  Registry!Link(g, c)
  BY DEF Registry!Link, RegistryClaims, RegistrySpent, ClaimOf, Spent

\* The claims of S go, each of them removable.
Removes(S) ==
  /\ \A g \in S : RegistryClaims[g] # Nil /\ (RegistryClaims[g].provider \in Revocable => g \in asked)
  /\ RegistryClaims' = [g \in Grants |-> IF g \in S THEN Nil ELSE RegistryClaims[g]]
  /\ RegistrySpent' = RegistrySpent
  /\ UNCHANGED asked

LEMMA RegistryUnlink == ASSUME NEW g \in Grants, Removes({g}) PROVE Registry!Unlink(g)
  BY DEF Registry!Unlink, Registry!Remove, Registry!Removable, Removes, RegistryClaims, RegistrySpent, ClaimOf, Spent

LEMMA RegistryClose ==
  ASSUME NEW u \in Users, NEW S \in SUBSET Grants, Removes(S),
         \A g \in Grants : g \in S <=> RegistryClaims[g] # Nil /\ RegistryClaims[g].user = u
  PROVE  Registry!CloseAccount(u)
  BY DEF Registry!CloseAccount, Registry!Remove, Registry!Removable, Removes, RegistryClaims, RegistrySpent,
         ClaimOf, Spent

LEMMA RegistryForget ==
  ASSUME NEW p \in Providers, NEW e \in Emails, NEW S \in SUBSET Grants, Removes(S),
         \A g \in Grants :
           g \in S <=> RegistryClaims[g] # Nil /\ RegistryClaims[g].provider = p /\ RegistryClaims[g].email = e
  PROVE  Registry!Forget(p, e)
  BY DEF Registry!Forget, Registry!Remove, Registry!Removable, Removes, RegistryClaims, RegistrySpent,
         ClaimOf, Spent

LEMMA ClaimIsEntry ==
  ASSUME LInv, NEW g \in Grants, link[g] # Nil
  PROVE  /\ ClaimOf(g) \in Registry!Claim /\ ClaimOf(g) # Nil
         /\ ClaimOf(g).user = link[g] /\ ClaimOf(g).email = grant[g].email
         /\ ClaimOf(g).provider = ProviderOf(g) /\ ClaimOf(g).flow = FlowOf(g)
  <1>1. /\ link[g] \in Users /\ grant[g].email \in Emails /\ FlowOf(g) \in Flows
        /\ ProviderOf(g) \in Providers
    BY DEF LInv, TypeOK, Sources, GrantsOfFlows, LinksOfGrants, Grant, Flow, FlowOf, ProviderOf
  <1>2. ClaimOf(g) = [user |-> link[g], email |-> grant[g].email, provider |-> ProviderOf(g), flow |-> FlowOf(g)]
    BY DEF ClaimOf
  <1>3. ClaimOf(g) \in Registry!Claim
    BY <1>1, <1>2 DEF Registry!Claim
  <1> QED
    BY <1>2, <1>3, RegistryAssumption

LEMMA SameClaims ==
  ASSUME LInv, Growing, NEW g \in Grants, link'[g] = link[g]
  PROVE  ClaimOf(g)' = ClaimOf(g)
  <1>1. CASE link[g] = Nil
    BY <1>1 DEF ClaimOf
  <1>2. CASE link[g] # Nil
    <2>1. grant[g] # Nil /\ FlowOf(g) \in Flows /\ flow[FlowOf(g)] # Nil
      BY <1>2 DEF LInv, TypeOK, Sources, GrantsOfFlows, LinksOfGrants, Grant, FlowOf
    <2>2. FlowOf(g)' = FlowOf(g) /\ ProviderOf(g)' = ProviderOf(g) /\ grant'[g].email = grant[g].email
      BY <2>1 DEF Growing, FlowOf, ProviderOf
    <2> QED
      BY <2>2 DEF ClaimOf
  <1> QED
    BY <1>1, <1>2

LEMMA SameSpent == ASSUME SInv, Growing, UNCHANGED made PROVE RegistrySpent' = RegistrySpent
  <1>1. ASSUME NEW s \in Flows, made[s] > 0 PROVE flow'[s] = flow[s]
    BY <1>1, MadeFlows DEF SInv, Growing
  <1> QED
    BY <1>1 DEF RegistrySpent, Spent

LEMMA QuietRegistry == ASSUME SInv, [Next]_vars, Quiet PROVE Registry!Next \/ UNCHANGED Registry!vars
  <1>1. LInv /\ Growing
    BY StepGrows DEF SInv, GInv, HInv
  <1>2. RegistryClaims' = RegistryClaims
    BY <1>1, SameClaims, RegistryUnchanged DEF Quiet
  <1>3. RegistrySpent' = RegistrySpent
    BY <1>1, SameSpent DEF Quiet
  <1>4. CASE asked' = asked
    BY <1>2, <1>3, <1>4, RegistryStutter
  <1>5. CASE asked' # asked
    <2> PICK g \in Grants : link[g] # Nil /\ ProviderOf(g) \in Revocable /\ asked' = asked \cup {g}
      BY <1>5, AskedStep
    <2>1. RegistryClaims[g] # Nil /\ RegistryClaims[g].provider \in Revocable
      BY <1>1, ClaimIsEntry DEF RegistryClaims
    <2>2. Registry!Ask(g)
      BY <1>2, <1>3, <2>1, RegistryAsk
    <2> QED
      BY <2>2 DEF Registry!Next
  <1> QED
    BY <1>4, <1>5

LEMMA InsertRegistry == ASSUME SInv, NEW r \in Requests, InsertLink(r), ~Abort(r) PROVE Registry!Next
  <1> PICK u \in Users, g \in Grants : \E s \in Flows :
         /\ grant[g] # Nil /\ s = FlowOf(g)
         /\ flow[s] # Nil /\ made[s] = 0
         /\ link[g] = Nil /\ g \notin asked /\ SameMailbox(u, grant[g].email) = {}
         /\ link' = [link EXCEPT ![g] = u]
         /\ made'[s] = 1 /\ \A o \in Flows \ {s} : made'[o] = made[o]
         /\ UNCHANGED <<flow, grant, asked>>
    BY InsertEffect
  <1> PICK s \in Flows :
         /\ grant[g] # Nil /\ s = FlowOf(g)
         /\ flow[s] # Nil /\ made[s] = 0
         /\ link[g] = Nil /\ g \notin asked /\ SameMailbox(u, grant[g].email) = {}
         /\ link' = [link EXCEPT ![g] = u]
         /\ made'[s] = 1 /\ \A o \in Flows \ {s} : made'[o] = made[o]
         /\ UNCHANGED <<flow, grant, asked>>
    OBVIOUS
  <1>0. LInv /\ link \in [Grants -> Users \cup {Nil}] /\ made \in [Flows -> 0 .. 2]
    BY DEF SInv, GInv, HInv, LInv, TypeOK
  <1>1. grant[g].email \in Emails /\ ProviderOf(g) \in Providers
    BY <1>0 DEF LInv, TypeOK, Grant, Flow, FlowOf, ProviderOf
  <1>2. [user |-> u, email |-> grant[g].email, provider |-> ProviderOf(g), flow |-> s] \in Registry!Claim
    BY <1>1 DEF Registry!Claim
  <1> PICK c \in Registry!Claim : c = [user |-> u, email |-> grant[g].email, provider |-> ProviderOf(g), flow |-> s]
    BY <1>2
  <1>3. ClaimOf(g) = Nil /\ ClaimOf(g)' = c
    BY <1>0, NilAssumption DEF ClaimOf, FlowOf, ProviderOf
  <1>4. Growing
    BY ProceedGrows DEF Proceed, SInv, GInv, HInv
  <1>5. ASSUME NEW h \in Grants, h # g PROVE ClaimOf(h)' = ClaimOf(h)
    BY <1>0, <1>4, <1>5, SameClaims
  <1>6. RegistryClaims' = [RegistryClaims EXCEPT ![g] = c] /\ RegistryClaims[g] = Nil
    BY <1>3, <1>5 DEF RegistryClaims
  <1>7. ASSUME NEW h \in Grants, RegistryClaims[h] # Nil
        PROVE  ~(RegistryClaims[h].user = u /\ RegistryClaims[h].email = grant[g].email)
    <2>1. link[h] # Nil /\ RegistryClaims[h] = ClaimOf(h)
      BY <1>7 DEF RegistryClaims, ClaimOf
    <2>2. RegistryClaims[h].user = link[h] /\ RegistryClaims[h].email = grant[h].email
      BY <1>0, <2>1, ClaimIsEntry
    <2> QED
      BY <2>2 DEF SameMailbox, LinksOf
  <1>8. c.user = u /\ c.email = grant[g].email /\ c.flow = s /\ c.provider = flow[s].provider
    BY DEF ProviderOf
  <1>9. s \notin RegistrySpent
    BY DEF RegistrySpent, Spent
  <1>10. RegistrySpent' = IF flow[s].provider \in BrowserProviders THEN RegistrySpent \cup {s} ELSE RegistrySpent
    BY <1>0 DEF RegistrySpent, Spent
  <1>11. Registry!Link(g, c)
    BY <1>6, <1>7, <1>8, <1>9, <1>10, RegistryLink
  <1> QED
    BY <1>11 DEF Registry!Next

\* A set of links goes, each of them cleared.
LEMMA RemovalRegistry ==
  ASSUME SInv, Growing, NEW S \in SUBSET Grants,
         \A g \in S : link[g] # Nil /\ Cleared(g),
         \A g \in Grants : link'[g] = IF g \in S THEN Nil ELSE link[g],
         UNCHANGED <<asked, made>>
  PROVE  Removes(S)
  <1>0. LInv
    BY DEF SInv, GInv, HInv
  <1>1. ASSUME NEW g \in S
        PROVE  RegistryClaims[g] # Nil /\ (RegistryClaims[g].provider \in Revocable => g \in asked)
    BY <1>0, ClaimIsEntry DEF RegistryClaims, Cleared
  <1>2. ASSUME NEW g \in Grants PROVE ClaimOf(g)' = IF g \in S THEN Nil ELSE ClaimOf(g)
    <2>1. CASE g \in S
      BY <2>1 DEF ClaimOf
    <2>2. CASE g \notin S
      BY <1>0, <2>2, SameClaims
    <2> QED
      BY <2>1, <2>2
  <1>3. RegistryClaims' = [g \in Grants |-> IF g \in S THEN Nil ELSE RegistryClaims[g]]
    BY <1>2 DEF RegistryClaims
  <1>4. RegistrySpent' = RegistrySpent
    BY SameSpent
  <1> QED
    BY <1>1, <1>3, <1>4 DEF Removes

LEMMA WriteRegistry ==
  ASSUME SInv, NEW r \in Requests, Writes(r)
  PROVE  Registry!Next \/ UNCHANGED Registry!vars
  <1>0. LInv /\ Growing
    BY ProceedGrows DEF Proceed, Writes, SInv, GInv, HInv
  <1>1. CASE CleanUpStates(r)
    <2>1. UNCHANGED <<link, asked, made>>
      BY <1>1, CleanUpEffect
    <2> QED
      BY <1>0, <2>1, SameClaims, SameSpent, RegistryUnchanged, RegistryStutter
  <1>2. CASE DeleteLink(r)
    <2> PICK u \in Users, g \in Grants :
           link[g] = u /\ Cleared(g) /\ link' = WithoutLinks({g}) /\ UNCHANGED <<asked, made>>
      BY <1>2, UnlinkEffect
    <2>1. Removes({g})
      BY <1>0, NilAssumption, RemovalRegistry DEF WithoutLinks
    <2> QED
      BY <2>1, RegistryUnlink DEF Registry!Next
  <1>3. CASE CommitDeletion(r)
    <2> PICK u \in Users :
           /\ \A g \in LinksOf(u) : Cleared(g)
           /\ \A g \in Grants : link'[g] = IF link[g] = u THEN Nil ELSE link[g]
           /\ UNCHANGED <<asked, made>>
      BY <1>3, DeletionEffect
    <2> PICK S \in SUBSET Grants : S = LinksOf(u)
      BY DEF LinksOf
    <2>1. Removes(S)
      BY <1>0, NilAssumption, RemovalRegistry DEF LinksOf
    <2>2. \A g \in Grants : g \in S <=> RegistryClaims[g] # Nil /\ RegistryClaims[g].user = u
      BY <1>0, ClaimIsEntry, NilAssumption DEF LinksOf, RegistryClaims, ClaimOf
    <2>3. Registry!CloseAccount(u)
      BY <2>1, <2>2, RegistryClose
    <2> QED
      BY <2>3 DEF Registry!Next
  <1>4. CASE DeleteMetaLinks(r)
    <2> PICK e \in Emails :
           (\A g \in MetaLinks(e) : Cleared(g)) /\ link' = WithoutLinks(MetaLinks(e)) /\ UNCHANGED <<asked, made>>
      BY <1>4, MetaEffect
    <2> PICK S \in SUBSET Grants : S = MetaLinks(e)
      BY DEF MetaLinks
    <2>1. Removes(S)
      BY <1>0, RemovalRegistry DEF MetaLinks, WithoutLinks
    <2>2. \A g \in Grants :
            g \in S <=> RegistryClaims[g] # Nil /\ RegistryClaims[g].provider = Meta /\ RegistryClaims[g].email = e
      BY <1>0, ClaimIsEntry DEF MetaLinks, RegistryClaims, ClaimOf
    <2>3. Meta \in Providers
      BY ProvidersAssumption DEF Providers
    <2>4. Registry!Forget(Meta, e)
      BY <2>1, <2>2, <2>3, RegistryForget
    <2> QED
      BY <2>3, <2>4 DEF Registry!Next
  <1> QED
    BY <1>1, <1>2, <1>3, <1>4, InsertRegistry DEF Writes

LEMMA StepRegistry == SInv /\ [Next]_vars => [Registry!Next]_Registry!vars
  <1> SUFFICES ASSUME SInv, [Next]_vars PROVE Registry!Next \/ UNCHANGED Registry!vars
    OBVIOUS
  <1> QED
    BY QuietRegistry, WriteRegistry, StepGrows DEF SInv, GInv, HInv

\* Linking does in many statements what LinkRegistry does at once: a callback or
\* a poll makes one link, an unlinking, a deletion and Meta's callback take links
\* away that were cleared before.
THEOREM ImplementsRegistry == Spec => ([]OneAtATime => RegistrySpec)
  BY SInvAlways, RegistryInit, StepRegistry, PTL DEF Spec, RegistrySpec, Registry!Spec
=============================================================================
