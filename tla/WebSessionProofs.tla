-------------------------- MODULE WebSessionProofs --------------------------
(***************************************************************************)
(* Proofs about WebSession for any accounts and any number of calls in     *)
(* flight, sign-ins among them.                                            *)
(***************************************************************************)
EXTENDS WebSession, TLAPS

\* A sign-in knows the account it is for.
AuthOK ==
  \A c \in Calls : call[c].at = "auth" =>
    call[c].kind \in {"login", "register"} /\ call[c].token \in Accounts /\ call[c].who \in Accounts

\* AuthGuard lets nobody stay behind it without an access token.
GuardOK == page = "app" /\ ~store.loading => store.access # Nil

\* After a logout, whoever refreshes tokens did so before it.
Out(s, sv, p) == s.access = Nil /\ s.refresh = Nil /\ ~s.loading /\ sv = Nil /\ p = "sign"
OutOK ==
  last = "out" =>
    /\ Out(store, saved, page)
    /\ \A c \in Calls : call[c].at = "refresh" => call[c].crossed = "refreshing"

\* The tokens of the window, and those sent by the calls of the session, are one
\* account's.  A call sent in an older session that is refused later refreshes
\* with the token of this one.
Since(me) == me.at \in {"fetch", "refresh", "retry"} /\ me.crossed = "no"
CallOf(a, me) ==
  /\ Since(me) => me.who = a /\ me.token \in {a, Nil}
  /\ me.at = "retry" /\ me.crossed = "no" => me.token = a
  /\ me.at = "refresh" /\ me.crossed # "refreshing" => me.token = a
StoreOf(a, s, sv, l) ==
  /\ s.access \in {a, Nil} /\ s.refresh \in {a, Nil} /\ sv \in {a, Nil}
  /\ l \notin {"untold", "out"} => s.user \in {a, Nil}
SessionOf(a) == StoreOf(a, store, saved, last) /\ \A c \in Calls : CallOf(a, call[c])
Matching(s, sv) ==
  /\ s.refresh # Nil => sv = s.refresh
  /\ s.access # Nil => s.access = s.refresh
SessionOK == last # "crossed" => Matching(store, saved) /\ \E a \in Maybe : SessionOf(a)

WInv == TypeOK /\ AuthOK /\ GuardOK /\ OutOK /\ SessionOK

-----------------------------------------------------------------------------
LEMMA SentOK ==
  ASSUME NEW at \in {"idle", "auth", "fetch", "refresh", "retry"}, NEW k \in Kinds,
         NEW t \in Maybe, NEW w \in Maybe
  PROVE  /\ Sent(at, k, t, w) \in Call
         /\ Sent(at, k, t, w).at = at /\ Sent(at, k, t, w).kind = k /\ Sent(at, k, t, w).token = t
         /\ Sent(at, k, t, w).who = w /\ Sent(at, k, t, w).crossed = "no"
  BY DEF Sent, Call

LEMMA NoCallOK == NoCall \in Call /\ NoCall.at = "idle" /\ \A a : CallOf(a, NoCall)
  <1>1. NoCall \in Call /\ NoCall.at = "idle"
    BY SentOK DEF NoCall, Kinds, Maybe
  <1> QED
    BY <1>1 DEF CallOf, Since

LEMMA SignedOK ==
  ASSUME NEW a \in Maybe, NEW u \in Maybe, NEW l \in BOOLEAN
  PROVE  /\ Signed(a, u, l) \in Store
         /\ Signed(a, u, l).access = a /\ Signed(a, u, l).refresh = a
         /\ Signed(a, u, l).user = u /\ Signed(a, u, l).loading = l
  BY DEF Signed, Store

LEMMA EmptyOK == Empty \in Store /\ Empty.access = Nil /\ Empty.refresh = Nil /\ Empty.user = Nil /\ Empty.loading = FALSE
  BY DEF Empty, Signed, Store, Maybe

LEMMA InitWInv == Init => WInv
  <1> SUFFICES ASSUME Init PROVE WInv
    OBVIOUS
  <1>1. \A c \in Calls : call[c] = NoCall
    BY DEF Init
  <1>2. TypeOK
    BY NoCallOK, EmptyOK DEF Init, TypeOK, Maybe
  <1>3. AuthOK /\ GuardOK /\ OutOK
    BY <1>1, NoCallOK DEF Init, AuthOK, GuardOK, OutOK
  <1>4. SessionOf(Nil) /\ Matching(store, saved)
    BY <1>1, NoCallOK, EmptyOK DEF Init, SessionOf, StoreOf, Matching
  <1> QED
    BY <1>2, <1>3, <1>4 DEF WInv, SessionOK, Maybe

\* The call c goes on as l, and the session stays the same account's, whichever
\* that is.
LEMMA StepWInv ==
  ASSUME WInv, NEW c \in Calls, NEW l \in Call, Goto(c, l), l.at # "auth",
         store' \in Store, saved' \in Maybe, page' \in {"sign", "app"}, valid' \subseteq Accounts,
         last' \in {"start", "untold", "in", "out", "crossed"},
         page' = "app" => store'.loading \/ store'.access # Nil,
         last' = "out" => /\ last = "out" /\ Out(store', saved', page')
                          /\ l.at = "refresh" => l.crossed = "refreshing",
         last' # "crossed" => last # "crossed",
         last' # "crossed" => Matching(store', saved'),
         \A a \in Maybe : SessionOf(a) /\ last' # "crossed" =>
           CallOf(a, l) /\ StoreOf(a, store', saved', last')
  PROVE  WInv'
  <1>1. \A d \in Calls : call'[d] = IF d = c THEN l ELSE call[d]
    BY DEF WInv, TypeOK, Goto
  <1>2. TypeOK'
    BY DEF WInv, TypeOK, Goto
  <1>3. AuthOK'
    BY <1>1 DEF WInv, AuthOK
  <1>4. GuardOK' /\ OutOK'
    BY <1>1 DEF WInv, GuardOK, OutOK, Out
  <1>5. SessionOK'
    <2> SUFFICES ASSUME last' # "crossed" PROVE \E a \in Maybe : SessionOf(a)'
      BY DEF SessionOK, Matching
    <2>1. PICK a \in Maybe : SessionOf(a)
      BY DEF WInv, SessionOK
    <2>2. \A d \in Calls : CallOf(a, call'[d])
      BY <1>1, <2>1 DEF SessionOf
    <2>3. StoreOf(a, store', saved', last')
      BY <2>1
    <2>4. SessionOf(a)'
      BY <2>2, <2>3 DEF SessionOf, StoreOf, CallOf, Since
    <2> QED
      BY <2>4
  <1> QED
    BY <1>2, <1>3, <1>4, <1>5 DEF WInv

\* The call c goes on as l and nothing is written.
LEMMA QuietWInv ==
  ASSUME WInv, NEW c \in Calls, NEW l \in Call, Goto(c, l), l.at # "auth",
         UNCHANGED <<store, page, saved, last>>, valid' \subseteq Accounts,
         last = "out" /\ l.at = "refresh" => l.crossed = "refreshing",
         \A a \in Maybe : SessionOf(a) /\ last # "crossed" => CallOf(a, l)
  PROVE  WInv'
  <1>1. /\ store' \in Store /\ saved' \in Maybe /\ page' \in {"sign", "app"}
        /\ last' \in {"start", "untold", "in", "out", "crossed"} /\ last' = last
    BY DEF WInv, TypeOK
  <1>2. /\ page' = "app" => store'.loading \/ store'.access # Nil
        /\ last' = "out" => Out(store', saved', page')
        /\ last' # "crossed" => Matching(store', saved')
    BY DEF WInv, GuardOK, OutOK, SessionOK, Out, Matching
  <1>3. \A a \in Maybe : SessionOf(a) => StoreOf(a, store', saved', last')
    BY DEF SessionOf, StoreOf
  <1> QED
    BY <1>1, <1>2, <1>3, StepWInv

LEMMA FinishWInv ==
  ASSUME WInv, NEW c \in Calls, Finish(c), UNCHANGED <<store, page, saved, last>>, valid' \subseteq Accounts
  PROVE  WInv'
  BY QuietWInv, NoCallOK DEF Finish

LEMMA SignInWInv ==
  ASSUME WInv, NEW c \in Calls, NEW a \in Accounts, NEW k \in {"login", "register"}, SignIn(c, a, k)
  PROVE  WInv'
  <1> DEFINE l == Sent("auth", k, a, a)
  <1>1. l \in Call /\ l.at = "auth" /\ l.kind = k /\ l.token = a /\ l.who = a
    BY SentOK DEF Kinds, Maybe
  <1>2. call' = [call EXCEPT ![c] = l] /\ UNCHANGED <<store, page, saved, valid, last>>
    BY DEF SignIn, Begin
  <1> HIDE DEF l
  <1>3. \A d \in Calls : call'[d] = IF d = c THEN l ELSE call[d]
    BY <1>2 DEF WInv, TypeOK
  <1>4. TypeOK' /\ AuthOK' /\ GuardOK' /\ OutOK'
    BY <1>1, <1>2, <1>3 DEF WInv, TypeOK, AuthOK, GuardOK, OutOK, Out
  <1>5. SessionOK'
    <2> SUFFICES ASSUME last # "crossed" PROVE SessionOK'
      BY <1>2 DEF SessionOK
    <2>1. PICK s \in Maybe : SessionOf(s)
      BY DEF WInv, SessionOK
    <2>2. SessionOf(s)'
      BY <1>1, <1>2, <1>3, <2>1 DEF SessionOf, StoreOf, CallOf, Since
    <2> QED
      BY <1>2, <2>2 DEF WInv, SessionOK, Matching
  <1> QED
    BY <1>4, <1>5 DEF WInv

LEMMA QueryWInv ==
  ASSUME WInv, NEW c \in Calls, NEW k \in {"query", "resend"}, Query(c, k)
  PROVE  WInv'
  <1> DEFINE l == Sent("fetch", k, store.access, store.access)
  <1>1. store.access # Nil /\ store.access \in Maybe /\ valid \subseteq Accounts
    BY DEF Query, WInv, GuardOK, TypeOK, Store
  <1>2. l \in Call /\ l.at = "fetch" /\ l.who = store.access /\ l.token = store.access
    BY <1>1, SentOK DEF Kinds
  <1>3. Goto(c, l) /\ UNCHANGED <<store, page, saved, valid, last>>
    BY DEF Query, Begin, Goto
  <1>4. \A a \in Maybe : SessionOf(a) => store.access = a
    BY <1>1 DEF SessionOf, StoreOf
  <1> HIDE DEF l
  <1>5. \A a \in Maybe : SessionOf(a) => CallOf(a, l)
    BY <1>2, <1>4 DEF CallOf, Since
  <1> QED
    BY <1>1, <1>2, <1>3, <1>5, QuietWInv

-----------------------------------------------------------------------------
LEMMA Facts ==
  ASSUME WInv, NEW c \in Calls
  PROVE  /\ call[c] \in Call /\ valid \subseteq Accounts /\ store \in Store /\ saved \in Maybe
         /\ page \in {"sign", "app"} /\ last \in {"start", "untold", "in", "out", "crossed"}
  BY DEF WInv, TypeOK

LEMMA Fetch401WInv == ASSUME WInv, NEW c \in Calls, Fetch401(c) PROVE WInv'
  <1> DEFINE me == call[c]
             l == [me EXCEPT !.at = "refresh", !.token = RefreshToken]
  <1>1. RefreshToken \in Maybe /\ RefreshToken # Nil /\ valid \subseteq Accounts
    BY Facts DEF Fetch401, RefreshToken, Store
  <1>2. /\ l \in Call /\ l.at = "refresh" /\ l.who = me.who /\ l.crossed = me.crossed /\ l.token = RefreshToken
    BY <1>1, Facts DEF Call
  <1>3. Goto(c, l) /\ UNCHANGED <<store, page, saved, valid, last>> /\ me.at = "fetch"
    BY DEF Fetch401
  <1>4. last # "out"
    BY <1>1 DEF WInv, OutOK, Out, RefreshToken
  <1>5. \A a \in Maybe : SessionOf(a) => CallOf(a, me) /\ RefreshToken = a
    BY <1>1 DEF SessionOf, StoreOf, RefreshToken
  <1> HIDE DEF l
  <1>6. \A a \in Maybe : SessionOf(a) => CallOf(a, l)
    BY <1>2, <1>3, <1>5 DEF CallOf, Since
  <1> QED
    BY <1>1, <1>2, <1>3, <1>4, <1>6, QuietWInv

\* The store is emptied, but for the loading flag, and the call ends.
LEMMA ClearWInv ==
  ASSUME WInv, NEW c \in Calls, NEW b \in BOOLEAN, b => store.loading,
         Write(Signed(Nil, Nil, b)), saved' = Nil, Goto(c, NoCall), UNCHANGED <<valid, last>>
  PROVE  WInv'
  <1> DEFINE new == Signed(Nil, Nil, b)
  <1>1. new \in Store /\ new.access = Nil /\ new.refresh = Nil /\ new.user = Nil /\ new.loading = b
    BY SignedOK DEF Maybe
  <1>2. store' = new /\ page' = Guarded(new, page)
    BY DEF Write
  <1> HIDE DEF new
  <1>3. Nil \in Maybe /\ page' \in {"sign", "app"} /\ (page' = "app" => b /\ page = "app")
    BY <1>1, <1>2, Facts DEF Maybe, Guarded
  <1>4. last = "out" => Out(store', saved', page')
    BY <1>1, <1>2, <1>3 DEF WInv, OutOK, Out
  <1>5. Matching(store', saved') /\ \A a : StoreOf(a, store', saved', last')
    BY <1>1, <1>2 DEF Matching, StoreOf
  <1> QED
    BY <1>1, <1>2, <1>3, <1>4, <1>5, Facts, NoCallOK, StepWInv

LEMMA FetchFailWInv == ASSUME WInv, NEW c \in Calls, FetchFail(c) PROVE WInv'
  <1>1. CASE UNCHANGED <<store, page, saved, last>>
    BY <1>1, Facts, FinishWInv DEF FetchFail, Fail
  <1>2. CASE call[c].kind = "fetchUser" /\ Write(Empty) /\ saved' = Nil /\ UNCHANGED last
    <2>1. Write(Signed(Nil, Nil, FALSE)) /\ Goto(c, NoCall) /\ UNCHANGED valid
      BY <1>2 DEF FetchFail, Fail, Finish, Empty
    <2> QED
      BY <1>2, <2>1, ClearWInv
  <1> QED
    BY <1>1, <1>2 DEF FetchFail, Fail

LEMMA RefreshFailWInv == ASSUME WInv, NEW c \in Calls, RefreshFail(c) PROVE WInv'
  <1> DEFINE b == store.loading /\ call[c].kind \notin {"hydrate", "fetchUser"}
  <1>1. b \in BOOLEAN /\ (b => store.loading)
    BY Facts DEF Store
  <1>2. Write(Signed(Nil, Nil, b)) /\ saved' = Nil /\ Goto(c, NoCall) /\ UNCHANGED <<valid, last>>
    BY DEF RefreshFail, Finish
  <1> HIDE DEF b
  <1> QED
    BY <1>1, <1>2, ClearWInv

LEMMA RefreshOkWInv == ASSUME WInv, NEW c \in Calls, RefreshOk(c) PROVE WInv'
  <1> DEFINE me == call[c]
             t == me.token
             new == Signed(t, store.user, store.loading)
  <1>1. /\ me \in Call /\ me.at = "refresh" /\ t \in Accounts /\ t \in Maybe /\ t # Nil
        /\ store.user \in Maybe /\ store.loading \in BOOLEAN
    BY Facts, NilAssumption DEF RefreshOk, Maybe, Store
  <1>2. /\ new \in Store /\ new.access = t /\ new.refresh = t /\ new.user = store.user
        /\ new.loading = store.loading
    BY <1>1, SignedOK
  <1>3. store' = new /\ page' = Guarded(new, page) /\ saved' = t /\ UNCHANGED valid
    BY DEF RefreshOk, Write
  <1>4. last' = IF me.crossed = "refreshing" THEN "crossed" ELSE last
    BY DEF RefreshOk
  <1>5. PICK l \in Call : /\ Goto(c, l) /\ l.at \in {"fetch", "retry"} /\ l.who = me.who
                          /\ l.token = t /\ l.crossed = me.crossed
    <2>1. CASE me.kind = "hydrate"
      <3> DEFINE l == [me EXCEPT !.at = "fetch", !.kind = "fetchUser"]
      <3>1. /\ l \in Call /\ l.at = "fetch" /\ l.who = me.who /\ l.token = t /\ l.crossed = me.crossed
        BY <1>1 DEF Call, Kinds
      <3>2. Goto(c, l)
        BY <2>1 DEF RefreshOk
      <3> HIDE DEF l
      <3> QED
        BY <3>1, <3>2
    <2>2. CASE me.kind # "hydrate"
      <3> DEFINE l == [me EXCEPT !.at = "retry"]
      <3>1. /\ l \in Call /\ l.at = "retry" /\ l.who = me.who /\ l.token = t /\ l.crossed = me.crossed
        BY <1>1 DEF Call
      <3>2. Goto(c, l)
        BY <2>2 DEF RefreshOk
      <3> HIDE DEF l
      <3> QED
        BY <3>1, <3>2
    <2> QED
      BY <2>1, <2>2
  <1> HIDE DEF new
  <1>6. page' \in {"sign", "app"} /\ last' # "out" /\ Matching(store', saved')
    BY <1>1, <1>2, <1>3, <1>4, Facts DEF Guarded, WInv, OutOK, Matching
  <1>7. ASSUME NEW a \in Maybe, SessionOf(a), last' # "crossed"
        PROVE  CallOf(a, l) /\ StoreOf(a, store', saved', last')
    <2>1. CallOf(a, me) /\ me.crossed # "refreshing" /\ last' = last
      BY <1>4, <1>7 DEF SessionOf
    <2>2. t = a
      BY <1>1, <2>1 DEF CallOf
    <2> QED
      BY <1>1, <1>2, <1>3, <1>5, <1>6, <1>7, <2>1, <2>2 DEF CallOf, Since, StoreOf, SessionOf
  <1> QED
    BY <1>1, <1>2, <1>3, <1>4, <1>5, <1>6, <1>7, Facts, StepWInv

LEMMA FetchOkWInv == ASSUME WInv, NEW c \in Calls, FetchOk(c) PROVE WInv'
  <1> DEFINE me == call[c]
             b == store.loading /\ me.kind # "fetchUser"
             told == [access |-> store.access, refresh |-> store.refresh, user |-> me.token, loading |-> b]
  <1>0. /\ me \in Call /\ me.at \in {"fetch", "retry"} /\ me.token # Nil /\ me.token \in Maybe
        /\ UNCHANGED <<saved, valid>> /\ store \in Store /\ store.access \in Maybe
    BY Facts DEF FetchOk, Call, Store
  <1>1. CASE me.kind = "query"
    BY <1>0, <1>1, Facts, FinishWInv DEF FetchOk
  <1>2. CASE me.kind = "resend"
    <2> DEFINE l == [me EXCEPT !.at = "fetch", !.kind = "fetchUser", !.token = store.access]
    <2>1. l \in Call /\ l.at = "fetch" /\ l.who = me.who /\ l.token = store.access /\ l.crossed = me.crossed
      BY <1>0 DEF Call, Kinds
    <2>2. Goto(c, l) /\ UNCHANGED <<store, page, saved, valid, last>>
      BY <1>0, <1>2 DEF FetchOk
    <2> HIDE DEF l
    <2>3. \A a \in Maybe : SessionOf(a) => CallOf(a, l)
      BY <1>0, <2>1 DEF SessionOf, StoreOf, CallOf, Since
    <2> QED
      BY <2>1, <2>2, <2>3, Facts, QuietWInv
  <1>3. CASE me.kind \in {"me", "fetchUser"}
    <2>1. told \in Store /\ told.access = store.access /\ told.refresh = store.refresh /\ told.user = me.token
          /\ told.loading = b /\ (b => store.loading)
      BY <1>0 DEF Store
    <2>2. store' = told /\ page' \in {"sign", "app"} /\ Goto(c, NoCall) /\ Told(c)
          /\ (page' = "app" => told.access # Nil \/ told.loading)
      BY <1>3, Facts DEF FetchOk, Finish, Write, Guarded
    <2> HIDE DEF told
    <2>3. /\ last' \in {"start", "untold", "in", "out", "crossed"}
          /\ last' = "out" => last = "out"
          /\ last' # "crossed" => last # "crossed" /\ (last' # "out" => me.crossed = "no" /\ last' # "untold")
      BY <2>2, Facts DEF Told, Call
    <2>4. last' = "out" => Out(store', saved', page')
      BY <1>0, <2>1, <2>2, <2>3 DEF WInv, OutOK, Out
    <2>5. last' # "crossed" => Matching(store', saved')
      BY <1>0, <2>1, <2>2, <2>3 DEF WInv, SessionOK, Matching
    <2>6. ASSUME NEW a \in Maybe, SessionOf(a), last' # "crossed" PROVE StoreOf(a, store', saved', last')
      <3>1. last' # "out" => me.token = a
        BY <1>0, <2>3, <2>6 DEF SessionOf, CallOf, Since
      <3> QED
        BY <1>0, <2>1, <2>2, <2>6, <3>1 DEF StoreOf, SessionOf
    <2> QED
      BY <1>0, <2>1, <2>2, <2>3, <2>4, <2>5, <2>6, Facts, NoCallOK, StepWInv
  <1> QED
    BY <1>1, <1>2, <1>3 DEF FetchOk

-----------------------------------------------------------------------------
LEMMA CrossFacts ==
  ASSUME TypeOK, NEW c, NEW new \in Call, Cross(c, new)
  PROVE  /\ call' \in [Calls -> Call]
         /\ \A d \in Calls :
              /\ d = c => call'[d] = new
              /\ d # c => /\ call'[d].at = call[d].at /\ call'[d].kind = call[d].kind
                          /\ call'[d].token = call[d].token
                          /\ call[d].at = "auth" => call'[d].who = call[d].who
                          /\ ~Since(call'[d])
                          /\ call[d].at = "refresh" => call'[d].crossed = "refreshing"
  <1>1. ASSUME NEW me \in Call
        PROVE  /\ Older(me) \in Call
               /\ Older(me).at = me.at /\ Older(me).kind = me.kind /\ Older(me).token = me.token
               /\ me.at = "auth" => Older(me).who = me.who
               /\ ~Since(Older(me))
               /\ me.at = "refresh" => Older(me).crossed = "refreshing"
    <2>1. CASE me.at \in {"idle", "auth"}
      BY <2>1 DEF Older, Since
    <2>2. CASE me.at = "refresh"
      <3> DEFINE l == [me EXCEPT !.who = Nil, !.crossed = "refreshing"]
      <3>1. l \in Call /\ l.at = me.at /\ l.kind = me.kind /\ l.token = me.token /\ l.crossed = "refreshing"
        BY DEF Call, Maybe
      <3>2. Older(me) = l
        BY <2>2 DEF Older
      <3> HIDE DEF l
      <3> QED
        BY <2>2, <3>1, <3>2 DEF Since
    <2>3. CASE me.at \in {"fetch", "retry"}
      <3> DEFINE l == [me EXCEPT !.who = Nil, !.crossed = "sent"]
      <3>1. l \in Call /\ l.at = me.at /\ l.kind = me.kind /\ l.token = me.token /\ l.crossed = "sent"
        BY DEF Call, Maybe
      <3>2. Older(me) = l
        BY <2>3 DEF Older
      <3> HIDE DEF l
      <3> QED
        BY <2>3, <3>1, <3>2 DEF Since
    <2> QED
      BY <2>1, <2>2, <2>3 DEF Call
  <1>2. \A d \in Calls : call'[d] = IF d = c THEN new ELSE Older(call[d])
    BY DEF Cross
  <1>3. \A d \in Calls : call'[d] \in Call
    BY <1>1, <1>2 DEF TypeOK
  <1>4. call' = [d \in Calls |-> call'[d]]
    BY DEF Cross
  <1>5. \A d \in Calls : call[d] \in Call
    BY DEF TypeOK
  <1> QED
    BY <1>1, <1>2, <1>3, <1>4, <1>5

\* A session of the account a begins, or of nobody's.
LEMMA CrossWInv ==
  ASSUME WInv, NEW c, NEW l \in Call, Cross(c, l), NEW a \in Maybe, l.at # "auth", CallOf(a, l),
         store' \in Store, saved' = a, page' \in {"sign", "app"}, valid' \subseteq Accounts,
         last' \in {"untold", "in", "out"}, store'.access = a, store'.refresh = a,
         last' = "in" => store'.user = a,
         page' = "app" => store'.loading \/ a # Nil,
         last' = "out" => Out(store', saved', page') /\ c \notin Calls
  PROVE  WInv'
  <1>1. TypeOK
    BY DEF WInv
  <1>2. TypeOK'
    BY <1>1, CrossFacts DEF TypeOK
  <1>3. AuthOK'
    BY <1>1, CrossFacts DEF WInv, AuthOK
  <1>4. GuardOK' /\ OutOK'
    BY <1>1, CrossFacts DEF GuardOK, OutOK, Out
  <1>5. \A d \in Calls : CallOf(a, call'[d])
    <2> TAKE d \in Calls
    <2>1. CASE d = c
      BY <1>1, <2>1, CrossFacts
    <2>2. CASE d # c
      BY <1>1, <2>2, CrossFacts DEF CallOf, Since
    <2> QED
      BY <2>1, <2>2
  <1>6. StoreOf(a, store', saved', last') /\ Matching(store', saved')
    BY DEF StoreOf, Matching
  <1>7. SessionOf(a)'
    BY <1>5, <1>6 DEF SessionOf, StoreOf, CallOf, Since
  <1>8. SessionOK'
    BY <1>6, <1>7 DEF SessionOK, Matching
  <1> QED
    BY <1>2, <1>3, <1>4, <1>8 DEF WInv

LEMMA AuthOkWInv == ASSUME WInv, NEW c \in Calls, AuthOk(c) PROVE WInv'
  <1> DEFINE a == call[c].who
  <1>0. /\ store.user \in Maybe /\ store.loading \in BOOLEAN /\ page \in {"sign", "app"}
        /\ a \in Accounts /\ a \in Maybe /\ a # Nil /\ valid \subseteq Accounts
    BY Facts, NilAssumption DEF AuthOk, WInv, Store, AuthOK, Maybe
  <1>1. saved' = a /\ valid' \subseteq Accounts
    BY <1>0 DEF AuthOk
  <1>2. CASE call[c].kind = "login"
    <2> DEFINE l == Sent("fetch", "me", a, a)
               new == Signed(a, store.user, store.loading)
    <2>1. l \in Call /\ l.at = "fetch" /\ l.token = a /\ l.who = a /\ l.crossed = "no"
      BY <1>0, SentOK DEF Kinds
    <2>2. new \in Store /\ new.access = a /\ new.refresh = a
      BY <1>0, SignedOK
    <2>3. store' = new /\ Cross(c, l) /\ page' = page /\ last' = "untold"
      BY <1>2 DEF AuthOk
    <2> HIDE DEF l, new
    <2>4. CallOf(a, l)
      BY <2>1 DEF CallOf, Since
    <2> HIDE DEF a
    <2> QED
      BY <1>0, <1>1, <2>1, <2>2, <2>3, <2>4, CrossWInv
  <1>3. CASE call[c].kind = "register"
    <2> DEFINE new == Signed(a, a, store.loading)
    <2>1. new \in Store /\ new.access = a /\ new.refresh = a /\ new.user = a
      BY <1>0, SignedOK
    <2>2. store' = new /\ Cross(c, NoCall) /\ page' = "app" /\ last' = "in"
      BY <1>3 DEF AuthOk
    <2> HIDE DEF new, a
    <2> QED
      BY <1>0, <1>1, <2>1, <2>2, NoCallOK, CrossWInv
  <1> QED
    BY <1>2, <1>3 DEF AuthOk

LEMMA LogoutWInv == ASSUME WInv, Logout PROVE WInv'
  <1>1. /\ store' = Empty /\ page' = "sign" /\ saved' = Nil /\ Cross(Nil, NoCall) /\ last' = "out"
        /\ valid' \subseteq Accounts /\ Nil \notin Calls /\ Nil \in Maybe
    BY NilAssumption DEF Logout, WInv, TypeOK, Maybe
  <1>2. Out(store', saved', page')
    BY <1>1, EmptyOK DEF Out
  <1> QED
    BY <1>1, <1>2, EmptyOK, NoCallOK, CrossWInv

-----------------------------------------------------------------------------
LEMMA LoadWInv == ASSUME WInv, NEW c \in Calls, NEW p \in {"sign", "app"}, Load(c, p) PROVE WInv'
  <1> DEFINE l == Sent("refresh", "hydrate", saved, saved)
             new == [access |-> Nil, refresh |-> saved, user |-> Nil, loading |-> TRUE]
  <1>0. /\ saved \in Maybe /\ TypeOK
        /\ page' = Guarded(store', p) /\ last' = (IF last = "out" THEN "out" ELSE "start")
        /\ UNCHANGED <<saved, valid>>
    BY DEF Load, WInv, TypeOK
  <1>1. CASE saved = Nil
    <2>1. store' = Empty /\ call' = [d \in Calls |-> NoCall]
      BY <1>1 DEF Load
    <2>2. page' = "sign"
      BY <1>0, <2>1, EmptyOK DEF Guarded
    <2>3. TypeOK'
      BY <1>0, <2>1, <2>2, EmptyOK, NoCallOK DEF TypeOK
    <2>4. AuthOK' /\ GuardOK' /\ OutOK'
      BY <1>0, <1>1, <2>1, <2>2, EmptyOK, NoCallOK DEF AuthOK, GuardOK, OutOK, Out
    <2>5. SessionOf(Nil)' /\ Matching(store', saved')
      BY <1>0, <1>1, <2>1, EmptyOK, NoCallOK DEF SessionOf, StoreOf, CallOf, Since, Matching
    <2> QED
      BY <2>3, <2>4, <2>5 DEF WInv, SessionOK, Matching, Maybe
  <1>2. CASE saved # Nil
    <2>1. store' = new /\ call' = [d \in Calls |-> IF d = c THEN l ELSE NoCall]
      BY <1>2 DEF Load
    <2>2. /\ new \in Store /\ new.access = Nil /\ new.refresh = saved /\ new.user = Nil /\ new.loading = TRUE
      BY <1>0 DEF Store, Maybe
    <2>3. l \in Call /\ l.at = "refresh" /\ l.token = saved /\ l.who = saved /\ l.crossed = "no"
      BY <1>0, SentOK DEF Kinds
    <2>4. last # "out"
      BY <1>2 DEF WInv, OutOK, Out
    <2> HIDE DEF l, new
    <2>5. TypeOK'
      BY <1>0, <2>1, <2>2, <2>3, NoCallOK DEF TypeOK, Guarded
    <2>6. AuthOK' /\ GuardOK' /\ OutOK'
      BY <1>0, <2>1, <2>2, <2>3, <2>4, NoCallOK DEF AuthOK, GuardOK, OutOK
    <2>7. \A d \in Calls : CallOf(saved, call'[d])
      BY <2>1, <2>3, NoCallOK DEF CallOf, Since
    <2>8. StoreOf(saved, store', saved', last') /\ Matching(store', saved')
      BY <1>0, <2>1, <2>2 DEF StoreOf, Matching
    <2>9. PICK a \in Maybe : a = saved
      BY <1>0
    <2>10. SessionOf(a)'
      BY <2>7, <2>8, <2>9 DEF SessionOf, StoreOf, CallOf, Since
    <2> QED
      BY <2>5, <2>6, <2>8, <2>10 DEF WInv, SessionOK, Matching
  <1> QED
    BY <1>1, <1>2

\* The server, and the person who only looks around, touch neither the store nor
\* the calls.
LEMMA OutsideWInv ==
  ASSUME WInv,
         \/ \E a \in Accounts : Lapse(a)
         \/ \E p \in {"sign", "app"} : Visit(p)
         \/ UNCHANGED vars
  PROVE  WInv'
  <1>1. /\ UNCHANGED <<store, saved, call, last>> /\ valid' \subseteq Accounts /\ page' \in {"sign", "app"}
        /\ page' # page => page' = "sign" \/ store.access # Nil \/ store.loading
    BY DEF Lapse, Visit, Guarded, vars, WInv, TypeOK
  <1>2. TypeOK' /\ AuthOK' /\ GuardOK'
    BY <1>1 DEF WInv, TypeOK, AuthOK, GuardOK
  <1>3. OutOK'
    BY <1>1 DEF WInv, OutOK, Out
  <1>4. SessionOK'
    <2> SUFFICES ASSUME last # "crossed" PROVE SessionOK'
      BY <1>1 DEF SessionOK
    <2>1. PICK a \in Maybe : SessionOf(a)
      BY DEF WInv, SessionOK
    <2>2. SessionOf(a)'
      BY <1>1, <2>1 DEF SessionOf, StoreOf, CallOf, Since
    <2> QED
      BY <1>1, <2>2 DEF WInv, SessionOK, Matching
  <1> QED
    BY <1>2, <1>3, <1>4 DEF WInv

LEMMA AuthFailWInv == ASSUME WInv, NEW c \in Calls, AuthFail(c) PROVE WInv'
  BY Facts, FinishWInv DEF AuthFail

LEMMA NextWInv == ASSUME WInv, [Next]_vars PROVE WInv'
  BY SignInWInv, QueryWInv, AuthOkWInv, AuthFailWInv, FetchOkWInv, Fetch401WInv, FetchFailWInv,
     RefreshOkWInv, RefreshFailWInv, LogoutWInv, LoadWInv, OutsideWInv
  DEF Next, Answer

LEMMA Invariance == Spec => []WInv
  BY InitWInv, NextWInv, PTL DEF Spec

\* The variables of WebSession keep their types.
THEOREM TypeCorrect == Spec => []TypeOK
  BY Invariance, PTL DEF WInv

\* After a logout neither a late answer, nor a visit, nor a page load gives the
\* window tokens or a page behind AuthGuard, for any number of calls that were in
\* flight: only the answer of a sign-in does, or of a refresh that was on its way.
THEOREM SignedOut == Spec => []LogoutStays
  <1>1. WInv => LogoutStays
    BY DEF WInv, OutOK, Out, LogoutStays
  <1> QED
    BY <1>1, Invariance, PTL

\* As long as no call that is older than the session has written the store, the
\* store, localStorage, the user shown and every repeated call are one account's,
\* for any number of sign-ins that overlap.
THEOREM OneAccountShown == Spec => []OneAccount
  <1>1. WInv => OneAccount
    <2> SUFFICES ASSUME WInv, last # "crossed" PROVE OneAccount
      BY DEF OneAccount
    <2>1. PICK a \in Maybe : SessionOf(a)
      BY DEF WInv, SessionOK
    <2>2. ASSUME NEW c \in Calls, call[c].at = "retry", call[c].crossed = "no"
          PROVE  call[c].token = call[c].who
      BY <2>1, <2>2 DEF SessionOf, CallOf, Since
    <2>3. ASSUME page = "app", ~store.loading, last # "untold" PROVE store.user \in {store.access, Nil}
      BY <2>1, <2>3 DEF WInv, GuardOK, OutOK, Out, SessionOf, StoreOf
    <2> QED
      BY <2>2, <2>3 DEF WInv, SessionOK, Matching, OneAccount
  <1> QED
    BY <1>1, Invariance, PTL
=============================================================================
