----------------------------- MODULE WebSession -----------------------------
(***************************************************************************)
(* The session of the web interface in one window: the zustand store, the  *)
(* refresh token in localStorage, and the calls in flight, each of which   *)
(* reads the store when it starts and writes it when it is answered.       *)
(*                                                                         *)
(* A token stands for the account it was issued to.  A call is answered at *)
(* any time and in any order; what an answer does runs to its end before   *)
(* the next one.                                                           *)
(*                                                                         *)
(* A definition marked faulty is used by no other: it is what a plausible  *)
(* bug would make of the definition it names.                              *)
(***************************************************************************)
CONSTANTS
  Accounts,
  Calls,  \* slots for calls in flight
  Nil     \* null

ASSUME NilAssumption == Nil \notin Accounts \cup Calls

VARIABLES
  store,  \* useAuthStore: accessToken, refreshToken, user, isLoading
  page,   \* "sign" for the login and register pages, "app" for those behind AuthGuard
  saved,  \* localStorage: refresh_token
  call,   \* the calls in flight
  valid,  \* accounts whose refresh token the server still accepts
  last    \* history: how the session began ("untold" until /auth/me has said who
          \* a login is) or that the person ended it ("out"), or that a call older
          \* than that has written the store since ("crossed")

vars == <<store, page, saved, call, valid, last>>

-----------------------------------------------------------------------------
Maybe == Accounts \cup {Nil}

Store == [access : Maybe, refresh : Maybe, user : Maybe, loading : BOOLEAN]

\* A login asks who it is ("me") once it has its tokens; "hydrate" and the
\* dashboard's "resend" become "fetchUser" likewise.
Kinds == {"login", "register", "me", "query", "resend", "hydrate", "fetchUser"}

\* The request a call waits for, with the token it sent.  History: who had the
\* session when the call began; whether a session began or was ended since, and
\* whether the call was refreshing the tokens then.
Call == [at : {"idle", "auth", "fetch", "refresh", "retry"}, kind : Kinds,
         token : Maybe, who : Maybe, crossed : {"no", "sent", "refreshing"}]

Sent(at, k, token, who) ==
  [at |-> at, kind |-> k, token |-> token, who |-> who, crossed |-> "no"]
NoCall == Sent("idle", "query", Nil, Nil)

Signed(a, u, l) == [access |-> a, refresh |-> a, user |-> u, loading |-> l]
Empty == Signed(Nil, Nil, FALSE)

TypeOK ==
  /\ store \in Store
  /\ page \in {"sign", "app"}
  /\ saved \in Maybe
  /\ call \in [Calls -> Call]
  /\ valid \subseteq Accounts
  /\ last \in {"start", "untold", "in", "out", "crossed"}

Init ==
  /\ store = Empty
  /\ page = "sign"
  /\ saved = Nil
  /\ call = [c \in Calls |-> NoCall]
  /\ valid = {}
  /\ last = "start"

Begin(c, new) == call[c].at = "idle" /\ call' = [call EXCEPT ![c] = new]
Goto(c, new) == call' = [call EXCEPT ![c] = new]
Finish(c) == Goto(c, NoCall)

\* The call c goes on as new; every other call in flight is older than the
\* session that begins, or that ends.
Older(me) ==
  CASE me.at \in {"idle", "auth"} -> me
    [] me.at = "refresh" -> [me EXCEPT !.who = Nil, !.crossed = "refreshing"]
    [] OTHER -> [me EXCEPT !.who = Nil, !.crossed = "sent"]
Cross(c, new) == call' = [d \in Calls |-> IF d = c THEN new ELSE Older(call[d])]

\* AuthGuard: without an access token the window is at the login page.
Guarded(new, p) == IF new.access = Nil /\ ~new.loading THEN "sign" ELSE p

Write(new) == store' = new /\ page' = Guarded(new, page)

-----------------------------------------------------------------------------
(* Signing in and out.                                                     *)

\* The login and the register page link to each other and have a loading flag
\* each: several submissions can be under way.
SignIn(c, a, k) ==
  /\ page = "sign"
  /\ ~store.loading
  /\ Begin(c, Sent("auth", k, a, a))
  /\ UNCHANGED <<store, page, saved, valid, last>>

\* A login asks who it is next, and the user of before stays until it is told; a
\* registration knows, and goes to the dashboard.
\* Faulty AuthOk: a registration leaves the user alone as well.
AuthOkSameUser(c) ==
  LET a == call[c].who IN
  /\ call[c].at = "auth"
  /\ saved' = a
  /\ valid' = valid \cup {a}
  /\ store' = Signed(a, store.user, store.loading)
  /\ \/ /\ call[c].kind = "login"
        /\ last' = "untold"
        /\ Cross(c, Sent("fetch", "me", a, a))
        /\ UNCHANGED page
     \/ /\ call[c].kind = "register"
        /\ last' = "in"
        /\ page' = "app"
        /\ Cross(c, NoCall)
AuthOk(c) ==
  LET a == call[c].who IN
  /\ call[c].at = "auth"
  /\ saved' = a
  /\ valid' = valid \cup {a}
  /\ \/ /\ call[c].kind = "login"
        /\ store' = Signed(a, store.user, store.loading)
        /\ last' = "untold"
        /\ Cross(c, Sent("fetch", "me", a, a))
        /\ UNCHANGED page
     \/ /\ call[c].kind = "register"
        /\ store' = Signed(a, a, store.loading)
        /\ last' = "in"
        /\ page' = "app"
        /\ Cross(c, NoCall)

AuthFail(c) ==
  /\ call[c].at = "auth"
  /\ Finish(c)
  /\ UNCHANGED <<store, page, saved, valid, last>>

\* Faulty Logout: localStorage keeps the token, or an empty text.
LogoutOfStore ==
  /\ page = "app"
  /\ ~store.loading
  /\ store' = Empty
  /\ page' = "sign"
  /\ Cross(Nil, NoCall)
  /\ last' = "out"
  /\ UNCHANGED <<saved, valid>>
LogoutToBlank ==
  /\ page = "app"
  /\ ~store.loading
  /\ store' = Empty
  /\ page' = "sign"
  /\ saved' = ""
  /\ Cross(Nil, NoCall)
  /\ last' = "out"
  /\ UNCHANGED valid
Logout ==
  /\ page = "app"
  /\ ~store.loading
  /\ store' = Empty
  /\ page' = "sign"
  /\ saved' = Nil
  /\ Cross(Nil, NoCall)
  /\ last' = "out"
  /\ UNCHANGED valid

\* The page p is loaded: what the window held in memory is gone, and hydrate
\* tries the refresh token in localStorage.
Load(c, p) ==
  /\ \/ /\ saved = Nil
        /\ store' = Empty
        /\ call' = [d \in Calls |-> NoCall]
     \/ /\ saved # Nil
        /\ store' = [access |-> Nil, refresh |-> saved, user |-> Nil, loading |-> TRUE]
        /\ call' = [d \in Calls |->
                      IF d = c THEN Sent("refresh", "hydrate", saved, saved) ELSE NoCall]
  /\ page' = Guarded(store', p)
  /\ last' = IF last = "out" THEN "out" ELSE "start"
  /\ UNCHANGED <<saved, valid>>

\* A link, or the browser's back button, within the window.
Visit(p) ==
  /\ ~store.loading
  /\ page' = Guarded(store, p)
  /\ UNCHANGED <<store, saved, call, valid, last>>

-----------------------------------------------------------------------------
(* apiFetch                                                                *)

\* Any request of a page behind AuthGuard, and the dashboard's "Resend
\* verification", which is shown with the user.
Query(c, k) ==
  /\ page = "app"
  /\ ~store.loading
  /\ k = "resend" => store.user # Nil
  /\ Begin(c, Sent("fetch", k, store.access, store.access))
  /\ UNCHANGED <<store, page, saved, valid, last>>

\* /auth/me told who it is.  Nothing is shown of it when the person has left.
Told(c) ==
  last' = CASE call[c].crossed # "no" /\ last # "out" -> "crossed"
            [] call[c].crossed = "no" /\ last = "untold" -> "in"
            [] OTHER -> last

\* No request is granted without a token.
FetchOk(c) ==
  LET me == call[c]
      told == [access |-> store.access, refresh |-> store.refresh, user |-> me.token,
               loading |-> store.loading /\ me.kind # "fetchUser"]
  IN
  /\ me.at \in {"fetch", "retry"}
  /\ me.token # Nil
  /\ \/ /\ me.kind = "query"
        /\ Finish(c)
        /\ UNCHANGED <<store, page, last>>
     \/ /\ me.kind = "resend"
        /\ Goto(c, [me EXCEPT !.at = "fetch", !.kind = "fetchUser", !.token = store.access])
        /\ UNCHANGED <<store, page, last>>
     \/ /\ me.kind = "fetchUser"
        /\ Write(told)
        /\ Told(c)
        /\ Finish(c)
     \/ /\ me.kind = "me"
        /\ store' = told
        /\ page' = Guarded(told, "app")
        /\ Told(c)
        /\ Finish(c)
  /\ UNCHANGED <<saved, valid>>

\* refresh takes the token of the store as it is now.
RefreshToken == IF store.refresh # Nil THEN store.refresh ELSE saved
Fetch401(c) ==
  /\ call[c].at = "fetch"
  /\ RefreshToken # Nil
  /\ Goto(c, [call[c] EXCEPT !.at = "refresh", !.token = RefreshToken])
  /\ UNCHANGED <<store, page, saved, valid, last>>

\* The error reaches the caller: a page, login, or fetchUser, which logs out.
\* Faulty Fail: fetchUser does not catch it, and hydrate ends there.
FailUncaught(c) ==
  /\ Finish(c)
  /\ UNCHANGED <<store, page, saved, last>>
Fail(c) ==
  /\ \/ call[c].kind # "fetchUser" /\ UNCHANGED <<store, page, saved, last>>
     \/ call[c].kind = "fetchUser" /\ Write(Empty) /\ saved' = Nil /\ UNCHANGED last
  /\ Finish(c)

\* Any other status, no connection, 401 with nothing to refresh with, or again.
FetchFail(c) ==
  /\ call[c].at \in {"fetch", "retry"}
  /\ Fail(c)
  /\ UNCHANGED valid

RefreshOk(c) ==
  LET me == call[c] IN
  /\ me.at = "refresh"
  /\ me.token \in valid
  /\ saved' = me.token
  /\ Write(Signed(me.token, store.user, store.loading))
  /\ last' = IF me.crossed = "refreshing" THEN "crossed" ELSE last
  /\ \/ me.kind = "hydrate" /\ Goto(c, [me EXCEPT !.at = "fetch", !.kind = "fetchUser"])
     \/ me.kind # "hydrate" /\ Goto(c, [me EXCEPT !.at = "retry"])
  /\ UNCHANGED valid

\* Refused, rate-limited or unreachable: all are the same to the catch.
RefreshFail(c) ==
  /\ call[c].at = "refresh"
  /\ saved' = Nil
  /\ Write(Signed(Nil, Nil, store.loading /\ call[c].kind \notin {"hydrate", "fetchUser"}))
  /\ Finish(c)
  /\ UNCHANGED <<valid, last>>

-----------------------------------------------------------------------------
\* Seven days pass, or the account is deleted elsewhere.
Lapse(a) ==
  /\ a \in valid
  /\ valid' = valid \ {a}
  /\ UNCHANGED <<store, page, saved, call, last>>

Answer(c) ==
  \/ AuthOk(c)
  \/ AuthFail(c)
  \/ FetchOk(c)
  \/ Fetch401(c)
  \/ FetchFail(c)
  \/ RefreshOk(c)
  \/ RefreshFail(c)

Next ==
  \/ \E c \in Calls :
       \/ Answer(c)
       \/ \E a \in Accounts, k \in {"login", "register"} : SignIn(c, a, k)
       \/ \E k \in {"query", "resend"} : Query(c, k)
       \/ \E p \in {"sign", "app"} : Load(c, p)
  \/ \E p \in {"sign", "app"} : Visit(p)
  \/ Logout
  \/ \E a \in Accounts : Lapse(a)

Spec == Init /\ [][Next]_vars

\* The browser ends every request, with an answer or an error of its own.
FairSpec == Spec /\ \A c \in Calls : WF_vars(Answer(c))
-----------------------------------------------------------------------------
(* Properties.                                                             *)

\* Until a call that was in flight when a session began or was ended writes the
\* store, what the window holds is one account's: localStorage has the refresh
\* token of the store, the access token is its account's, the user shown is that
\* account or, until a login is told who it is, the one of before, and a call is
\* repeated with a token of the account it was first sent for (login, register,
\* refresh, apiFetch).
OneAccount ==
  last # "crossed" =>
    /\ store.refresh # Nil => saved = store.refresh
    /\ store.access # Nil => store.access = store.refresh
    /\ page = "app" /\ ~store.loading /\ last # "untold" => store.user \in {store.access, Nil}
    /\ \A c \in Calls :
         call[c].at = "retry" /\ call[c].crossed = "no" => call[c].token = call[c].who

\* After a logout the window has no tokens and shows no page behind AuthGuard,
\* whatever is answered late and however often pages are visited and reloaded,
\* until a sign-in is answered or a refresh that was in flight at the logout
\* (logout, hydrate, apiFetch).  A late /auth/me may still name a user.
LogoutStays ==
  last = "out" => store.access = Nil /\ store.refresh = Nil /\ saved = Nil /\ page = "sign"

\* Unless pages are loaded for ever, every call ends, and the page that
\* hydrates comes out of its loading state (apiFetch, hydrate).
SomeLoad == \E c \in Calls, p \in {"sign", "app"} : Load(c, p)
CallsSettle ==
  (<>[][~SomeLoad]_vars) =>
    /\ \A c \in Calls : []<>(call[c].at = "idle")
    /\ []<>(~store.loading)

\* A session ends only when the person ends it or the server no longer accepts
\* its refresh token.
ExpiryUnseen ==
  [][store.access # Nil /\ store'.access = Nil =>
       Logout \/ store'.loading \/ store.refresh \notin valid]_vars
=============================================================================
