-------------------------- MODULE CredentialsProofs --------------------------
(***************************************************************************)
(* Proofs about Credentials for every number of users, request slots and   *)
(* tokens, every limit and every lock and token lifetime.                  *)
(***************************************************************************)
EXTENDS Credentials, FiniteSetTheorems, TLAPS

\* The local variables a handler has set by the time it is at a step.
LocalOK(me) ==
  /\ me.at # "idle" => me.user \in Users
  /\ me.at \in {"loginFailed", "loginPassed", "setPassword"} => me.seen \in Lockout
  /\ me.at \in {"mail", "markUsed", "readOwner", "setPassword"} => me.token \in Tokens
  /\ me.at \in {"markUsed", "readOwner", "setPassword"} => me.given \in Passwords
  /\ me.at = "revoke" => me.held = {}

\* A locked token row exists, and no two requests hold the same row.
LocksOK ==
  /\ \A r \in Requests : \A t \in req[r].held : resetToken[t] # Nil
  /\ \A r, s \in Requests : r # s => req[r].held \cap req[s].held = {}

TInv == TypeOK /\ (\A r \in Requests : LocalOK(req[r])) /\ LocksOK

-----------------------------------------------------------------------------
\* Row locks are what makes the rows a request has marked still be there when
\* it commits: the type invariant is inductive only together with them.
LEMMA InitTInv == Init => TInv
  BY LimitsAssumption DEF Init, TInv, TypeOK, LocalOK, LocksOK, Idle, Local, Steps, UserRow, Null

\* Moving a request that neither gains nor loses a lock.
LEMMA MoveTInv ==
  ASSUME TInv, NEW r \in Requests, NEW l \in Local, LocalOK(l), Goto(r, l),
         l.held \in {{}, req[r].held},
         UNCHANGED <<store, history, now>>
  PROVE  TInv'
  <1>1. TypeOK'
    BY DEF TInv, TypeOK, Goto, store, history
  <1>2. \A s \in Requests : LocalOK(req'[s])
    BY DEF TInv, TypeOK, Goto
  <1>3. LocksOK'
    BY DEF TInv, TypeOK, LocksOK, Goto, store
  <1> QED
    BY <1>1, <1>2, <1>3 DEF TInv, LocalOK

LEMMA IdleOK == Idle \in Local /\ LocalOK(Idle) /\ Idle.held = {}
  BY DEF Idle, Local, LocalOK, Steps

LEMMA AbortTInv == ASSUME TInv, NEW r \in Requests, Abort(r) PROVE TInv'
  <1>1. Goto(r, Idle) /\ UNCHANGED <<store, history, now>>
    BY DEF Abort, Finish, Goto
  <1> QED
    BY <1>1, MoveTInv, IdleOK

LEMMA ArriveTInv == ASSUME TInv, NEW r \in Requests, Arrive(r) PROVE TInv'
  <1>1. ASSUME NEW u \in Users, NEW p \in Passwords, Login(r, u, p) PROVE TInv'
    <2> DEFINE l == [Idle EXCEPT !.at = IF p = userRow[u].password THEN "loginPassed" ELSE "loginFailed",
                                 !.user = u, !.seen = LockoutOf(u), !.clock = now]
    <2>1. LockoutOf(u) \in Lockout
      BY <1>1 DEF Login, LockoutOf, Lockout, Exists, TInv, TypeOK, UserRow
    <2>2. l \in Local /\ LocalOK(l) /\ l.held = {}
      BY <2>1 DEF Idle, Local, LocalOK, Steps, TInv, TypeOK
    <2>3. Goto(r, l) /\ UNCHANGED <<store, history, now>>
      BY <1>1 DEF Login, Begin, Goto
    <2> QED
      BY <2>2, <2>3, MoveTInv
  <1>2. ASSUME NEW u \in Users, NEW p \in Passwords, DeleteAccount(r, u, p) PROVE TInv'
    <2> DEFINE l == [Idle EXCEPT !.at = "revoke", !.user = u]
    <2>1. l \in Local /\ LocalOK(l) /\ l.held = {}
      BY DEF Idle, Local, LocalOK, Steps
    <2>2. Goto(r, l) /\ UNCHANGED <<store, history, now>>
      BY <1>2 DEF DeleteAccount, Begin, Goto
    <2> QED
      BY <2>1, <2>2, MoveTInv
  <1>3. ASSUME NEW u \in Users, RequestReset(r, u) PROVE TInv'
    <2> DEFINE l == [Idle EXCEPT !.at = "collect", !.user = u]
    <2>1. l \in Local /\ LocalOK(l) /\ l.held = {}
      BY DEF Idle, Local, LocalOK, Steps
    <2>2. Goto(r, l) /\ UNCHANGED <<store, history, now>>
      BY <1>3 DEF RequestReset, Begin, Goto
    <2> QED
      BY <2>1, <2>2, MoveTInv
  <1>4. ASSUME NEW t \in Tokens, NEW p \in Passwords, CompleteReset(r, t, p) PROVE TInv'
    <2> DEFINE l == [Idle EXCEPT !.at = "markUsed", !.user = resetToken[t].owner, !.token = t, !.given = p]
    <2>1. resetToken[t].owner \in Users
      BY <1>4 DEF CompleteReset, Live, TInv, TypeOK, TokenRow
    <2>2. l \in Local /\ LocalOK(l) /\ l.held = {}
      BY <2>1 DEF Idle, Local, LocalOK, Steps
    <2>3. Goto(r, l) /\ UNCHANGED <<store, history, now>>
      BY <1>4 DEF CompleteReset, Begin, Goto
    <2> QED
      BY <2>2, <2>3, MoveTInv
  <1> QED
    BY <1>1, <1>2, <1>3, <1>4 DEF Arrive

\* Taking the lock of one more token row that nobody else holds.
LEMMA LockTInv ==
  ASSUME TInv, NEW r \in Requests, NEW l \in Local, LocalOK(l), Goto(r, l),
         NEW t \in Tokens, resetToken[t] # Nil,
         \A s \in Requests \ {r} : t \notin req[s].held,
         l.held \subseteq req[r].held \cup {t},
         UNCHANGED <<store, history, now>>
  PROVE  TInv'
  <1>1. TypeOK'
    BY DEF TInv, TypeOK, Goto, store, history
  <1>2. \A s \in Requests : LocalOK(req'[s])
    BY DEF TInv, TypeOK, Goto
  <1>4. LocksOK'
    BY DEF TInv, TypeOK, LocksOK, Goto, store
  <1> QED
    BY <1>1, <1>2, <1>4 DEF TInv, LocalOK

LEMMA WaitsForFacts ==
  ASSUME NEW r \in Requests, WaitsFor(r) = {}, NEW t \in WantsTokens(r)
  PROVE  \A s \in Requests \ {r} : t \notin req[s].held
  BY DEF WaitsFor

LEMMA RetireTInv == ASSUME TInv, NEW r \in Requests, RetireToken(r) PROVE TInv'
  <1> DEFINE me == req[r]
  <1>0. me \in Local /\ LocalOK(me) /\ me.at = "retire"
    BY DEF TInv, TypeOK, RetireToken
  <1> PICK t \in me.todo :
        /\ First(t, me.todo)
        /\ IF resetToken[t] = Nil
           THEN Finish(r)
           ELSE Goto(r, [me EXCEPT !.todo = @ \ {t}, !.held = @ \cup {t}])
    BY DEF RetireToken
  <1>1. UNCHANGED <<store, history, now>> /\ WaitsFor(r) = {}
    BY DEF RetireToken
  <1>2. t \in Tokens
    BY <1>0 DEF Local
  <1>3. CASE resetToken[t] = Nil
    BY <1>1, <1>3, AbortTInv DEF Abort
  <1>4. CASE resetToken[t] # Nil
    <2> DEFINE l == [me EXCEPT !.todo = @ \ {t}, !.held = @ \cup {t}]
    <2>1. l \in Local /\ LocalOK(l) /\ l.held = me.held \cup {t}
      BY <1>0, <1>2 DEF Local, LocalOK
    <2>2. t \in WantsTokens(r)
      BY <1>0, <1>2 DEF WantsTokens
    <2>3. \A s \in Requests \ {r} : t \notin req[s].held
      BY <1>1, <2>2, WaitsForFacts
    <2> QED
      BY <1>1, <1>2, <1>4, <2>1, <2>3, LockTInv
  <1> QED
    BY <1>3, <1>4

LEMMA MarkTInv == ASSUME TInv, NEW r \in Requests, MarkTokenUsed(r) PROVE TInv'
  <1> DEFINE me == req[r]
  <1>0. me \in Local /\ LocalOK(me) /\ me.at = "markUsed" /\ me.token \in Tokens
    BY DEF TInv, TypeOK, MarkTokenUsed, LocalOK
  <1>1. UNCHANGED <<store, history, now>> /\ WaitsFor(r) = {}
    BY DEF MarkTokenUsed
  <1>2. CASE resetToken[me.token] = Nil
    BY <1>1, <1>2, AbortTInv DEF Abort, MarkTokenUsed
  <1>3. CASE resetToken[me.token] # Nil
    <2> DEFINE l == [me EXCEPT !.at = "readOwner", !.held = {me.token}]
    <2>1. l \in Local /\ LocalOK(l) /\ l.held = {me.token}
      BY <1>0 DEF Local, LocalOK, Steps
    <2>2. me.token \in WantsTokens(r)
      BY <1>0 DEF WantsTokens
    <2>4. \A s \in Requests \ {r} : me.token \notin req[s].held
      BY <1>1, <2>2, WaitsForFacts
    <2>3. Goto(r, l)
      BY <1>3 DEF MarkTokenUsed
    <2> QED
      BY <1>0, <1>1, <1>3, <2>1, <2>3, <2>4, LockTInv
  <1> QED
    BY <1>2, <1>3

LEMMA CascadeTInv == ASSUME TInv, NEW r \in Requests, CascadeToToken(r) PROVE TInv'
  <1> DEFINE me == req[r]
  <1>0. me \in Local /\ LocalOK(me) /\ me.at = "cascade"
    BY DEF TInv, TypeOK, CascadeToToken
  <1> PICK t \in TokensOf(me.user) :
        /\ \A s \in Requests : t \notin req[s].held
        /\ Goto(r, [me EXCEPT !.held = @ \cup {t}])
    BY DEF CascadeToToken
  <1> DEFINE l == [me EXCEPT !.held = @ \cup {t}]
  <1>1. UNCHANGED <<store, history, now>>
    BY DEF CascadeToToken
  <1>2. t \in Tokens /\ resetToken[t] # Nil
    BY DEF TokensOf
  <1>3. l \in Local /\ LocalOK(l) /\ l.held = me.held \cup {t}
    BY <1>0, <1>2 DEF Local, LocalOK
  <1> QED
    BY <1>1, <1>2, <1>3, LockTInv

\* The steps of a request that write nothing and take no lock.
LEMMA LocalStepTInv ==
  ASSUME TInv, NEW r \in Requests, CollectUnused(r) \/ ReadTokenOwner(r) \/ DeleteUserRow(r)
  PROVE  TInv'
  <1> DEFINE me == req[r]
  <1>0. me \in Local /\ LocalOK(me)
    BY DEF TInv, TypeOK
  <1>1. CASE CollectUnused(r)
    <2> DEFINE l == [me EXCEPT !.at = "retire", !.todo = Unused(me.user), !.known = TokensOf(me.user)]
    <2>1. l \in Local /\ LocalOK(l) /\ l.held = me.held
      BY <1>0, <1>1 DEF Local, LocalOK, Steps, Unused, TokensOf, CollectUnused
    <2>2. Goto(r, l) /\ UNCHANGED <<store, history, now>>
      BY <1>1 DEF CollectUnused
    <2> QED
      BY <2>1, <2>2, MoveTInv
  <1>2. CASE ReadTokenOwner(r) /\ Exists(me.user)
    <2> DEFINE l == [me EXCEPT !.at = "setPassword", !.seen = LockoutOf(me.user)]
    <2>0. me.at = "readOwner" /\ me.user \in Users
      BY <1>0, <1>2 DEF ReadTokenOwner, LocalOK
    <2>1. LockoutOf(me.user) \in Lockout
      BY <1>2, <2>0 DEF LockoutOf, Lockout, Exists, TInv, TypeOK, UserRow
    <2>2. l \in Local /\ LocalOK(l) /\ l.held = me.held
      BY <1>0, <2>0, <2>1 DEF Local, LocalOK, Steps
    <2>3. Goto(r, l) /\ UNCHANGED <<store, history, now>>
      BY <1>2 DEF ReadTokenOwner
    <2> QED
      BY <2>2, <2>3, MoveTInv
  <1>3. CASE DeleteUserRow(r) /\ Exists(me.user)
    <2> DEFINE l == [me EXCEPT !.at = "cascade"]
    <2>1. l \in Local /\ LocalOK(l) /\ l.held = me.held
      BY <1>0, <1>3 DEF Local, LocalOK, Steps, DeleteUserRow
    <2>2. Goto(r, l) /\ UNCHANGED <<store, history, now>>
      BY <1>3 DEF DeleteUserRow
    <2> QED
      BY <2>1, <2>2, MoveTInv
  <1>4. CASE (ReadTokenOwner(r) \/ DeleteUserRow(r)) /\ ~Exists(me.user)
    BY <1>4, AbortTInv DEF Abort, ReadTokenOwner, DeleteUserRow
  <1> QED
    BY <1>1, <1>2, <1>3, <1>4

\* What a COMMIT has to preserve besides the type of the stored rows: no row
\* that another request has locked disappears.
LEMMA CommitTInv ==
  ASSUME TInv, TypeOK', NEW r \in Requests, NEW l \in Local, LocalOK(l), l.held = {}, Goto(r, l),
         \A s \in Requests \ {r} : \A t \in req[s].held : resetToken'[t] # Nil
  PROVE  TInv'
  <1>1. \A s \in Requests : LocalOK(req'[s])
    BY DEF TInv, TypeOK, Goto
  <1>2. LocksOK'
    BY DEF TInv, TypeOK, LocksOK, Goto
  <1> QED
    BY <1>1, <1>2 DEF TInv, LocalOK

LEMMA SaturateType ==
  ASSUME NEW top \in Nat, NEW n \in 0 .. top
  PROVE  Saturate(n, top) \in 0 .. top /\ (Saturate(n, top) = n + 1 \/ Saturate(n, top) = top)
  BY DEF Saturate

LEMMA MarkUsedType ==
  ASSUME TInv, NEW r \in Requests
  PROVE  /\ MarkUsed(req[r].held) \in [Tokens -> TokenRow \cup {Nil}]
         /\ \A t \in Tokens : resetToken[t] # Nil => MarkUsed(req[r].held)[t] \in TokenRow
  <1> DEFINE held == req[r].held
  <1>1. held \subseteq Tokens /\ \A t \in held : resetToken[t] # Nil
    BY DEF TInv, TypeOK, LocksOK, Local
  <1>2. \A t \in held : [resetToken[t] EXCEPT !.used = TRUE] \in TokenRow
    BY <1>1 DEF TInv, TypeOK, TokenRow
  <1>3. \A t \in Tokens : resetToken[t] # Nil => resetToken[t] \in TokenRow
    BY DEF TInv, TypeOK
  <1> QED
    BY <1>1, <1>2, <1>3 DEF MarkUsed, TInv, TypeOK

LEMMA ClearedType ==
  ASSUME NEW row \in UserRow, NEW seen \in Lockout
  PROVE  Cleared(row, seen) \in UserRow
  BY DEF Cleared, UserRow, Lockout, Null

LEMMA FailedType ==
  ASSUME NEW row \in UserRow, NEW seen \in Lockout, NEW t \in Nat
  PROVE  Failed(row, seen, t) \in UserRow
  <1>1. seen.attempts + 1 \in Nat /\ t + LockDuration \in Nat
    BY LimitsAssumption DEF Lockout
  <1> QED
    BY <1>1 DEF Failed, UserRow

LEMMA LoginTInv ==
  ASSUME TInv, NEW r \in Requests, CommitFailedLogin(r) \/ CommitPassedLogin(r)
  PROVE  TInv'
  <1> DEFINE me == req[r]
             u == me.user
  <1>0. me \in Local /\ u \in Users /\ me.seen \in Lockout /\ me.clock \in Nat
    BY DEF TInv, TypeOK, LocalOK, Local, CommitFailedLogin, CommitPassedLogin
  <1>1. CASE ~Exists(u)
    BY <1>1, AbortTInv DEF CommitFailedLogin, CommitPassedLogin, Abort
  <1>2. CASE Exists(u)
    <2>1. userRow[u] \in UserRow
      BY <1>0, <1>2 DEF Exists, TInv, TypeOK
    <2>2. /\ Failed(userRow[u], me.seen, me.clock) \in UserRow
          /\ Cleared(userRow[u], me.seen) \in UserRow
      BY <1>0, <2>1, FailedType, ClearedType
    <2>3. /\ Saturate(misses[u], MaxAttempts) \in 0 .. MaxAttempts
          /\ Saturate(streak[u], MaxAttempts) \in 0 .. MaxAttempts
      BY <1>0, SaturateType, LimitsAssumption DEF TInv, TypeOK
    <2>4. Goto(r, Idle) /\ UNCHANGED <<resetToken, mailed, minted, known, changes, now>>
      BY <1>2 DEF CommitFailedLogin, CommitPassedLogin, Abort, Finish, Goto
    <2>5. userRow' \in [Users -> UserRow \cup {Nil}]
      BY <1>0, <1>2, <2>2 DEF CommitFailedLogin, CommitPassedLogin, TInv, TypeOK
    <2>6. misses' \in [Users -> 0 .. MaxAttempts] /\ streak' \in [Users -> 0 .. MaxAttempts]
      BY <1>0, <1>2, <2>3, LimitsAssumption DEF CommitFailedLogin, CommitPassedLogin, TInv, TypeOK
    <2>7. TypeOK'
      BY <2>4, <2>5, <2>6, IdleOK DEF TInv, TypeOK, Goto
    <2> QED
      BY <2>4, <2>7, IdleOK, CommitTInv DEF TInv, LocksOK
  <1> QED
    BY <1>1, <1>2

LEMMA InsertTInv == ASSUME TInv, NEW r \in Requests, InsertToken(r) PROVE TInv'
  <1> DEFINE me == req[r]
             u == me.user
  <1>0. me \in Local /\ u \in Users
    BY DEF TInv, TypeOK, LocalOK, InsertToken
  <1>1. CASE ~Exists(u)
    BY <1>1, AbortTInv DEF InsertToken, Abort
  <1>2. CASE Exists(u)
    <2> DEFINE row == [owner |-> u, used |-> FALSE, expiresAt |-> now + ResetTtl]
               l(t) == [Idle EXCEPT !.at = "mail", !.user = u, !.token = t]
    <2> PICK t \in Tokens \ minted :
          /\ resetToken' = [MarkUsed(me.held) EXCEPT ![t] = row]
          /\ minted' = minted \cup {t}
          /\ known' = [known EXCEPT ![t] = me.known]
          /\ Goto(r, l(t))
      BY <1>2 DEF InsertToken, Abort
    <2>1. UNCHANGED <<userRow, mailed, history, now>>
      BY <1>2 DEF InsertToken
    <2>2. row \in TokenRow
      BY <1>0, LimitsAssumption DEF TokenRow, TInv, TypeOK
    <2>3. l(t) \in Local /\ LocalOK(l(t)) /\ l(t).held = {}
      BY <1>0 DEF Idle, Local, LocalOK, Steps
    <2>6. resetToken' \in [Tokens -> TokenRow \cup {Nil}]
      BY <2>2, MarkUsedType
    <2>7. known' \in [Tokens -> SUBSET Tokens] /\ minted' \subseteq Tokens
      BY <1>0 DEF TInv, TypeOK, Local
    <2>8. req' \in [Requests -> Local]
      BY <2>3 DEF TInv, TypeOK, Goto
    <2>4. TypeOK'
      BY <2>1, <2>6, <2>7, <2>8 DEF TInv, TypeOK, history
    <2>5. \A o \in Tokens : resetToken[o] # Nil => resetToken'[o] # Nil
      BY <2>2, MarkUsedType, NilAssumption
    <2>9. \A s \in Requests \ {r} : \A o \in req[s].held : resetToken'[o] # Nil
      BY <2>5 DEF TInv, LocksOK, TypeOK, Local
    <2> HIDE DEF l
    <2> QED
      BY <2>3, <2>4, <2>9, CommitTInv
  <1> QED
    BY <1>1, <1>2

LEMMA MailTInv == ASSUME TInv, NEW r \in Requests, MailToken(r) PROVE TInv'
  <1>1. req[r].token \in Tokens
    BY DEF MailToken, TInv, LocalOK
  <1>2. Goto(r, Idle) /\ UNCHANGED <<userRow, resetToken, minted, known, history, now>>
    BY DEF MailToken, Finish, Goto
  <1>3. TypeOK'
    BY <1>1, <1>2, IdleOK DEF MailToken, TInv, TypeOK, Goto, history
  <1> QED
    BY <1>2, <1>3, IdleOK, CommitTInv DEF TInv, LocksOK

LEMMA SetPasswordTInv == ASSUME TInv, NEW r \in Requests, SetPassword(r) PROVE TInv'
  <1> DEFINE me == req[r]
             u == me.user
  <1>0. me \in Local /\ u \in Users /\ me.seen \in Lockout /\ me.token \in Tokens /\ me.given \in Passwords
    BY DEF TInv, TypeOK, LocalOK, SetPassword
  <1>1. CASE ~Exists(u)
    BY <1>1, AbortTInv DEF SetPassword, Abort
  <1>2. CASE Exists(u)
    <2>1. userRow[u] \in UserRow
      BY <1>0, <1>2 DEF Exists, TInv, TypeOK
    <2>2. [Cleared(userRow[u], me.seen) EXCEPT !.password = me.given] \in UserRow
      BY <1>0, <2>1, ClearedType DEF UserRow
    <2>3. Saturate(changes[me.token], 2) \in 0 .. 2
      BY <1>0, SaturateType DEF TInv, TypeOK
    <2>4. /\ userRow' = [userRow EXCEPT ![u] = [Cleared(userRow[u], me.seen) EXCEPT !.password = me.given]]
          /\ resetToken' = MarkUsed(me.held)
          /\ streak' = [streak EXCEPT ![u] = 0]
          /\ changes' = [changes EXCEPT ![me.token] = Saturate(changes[me.token], 2)]
          /\ Goto(r, Idle) /\ UNCHANGED <<mailed, minted, known, misses, now>>
      BY <1>2 DEF SetPassword, Abort, Finish, Goto
    <2>5. TypeOK'
      BY <1>0, <2>2, <2>3, <2>4, IdleOK, MarkUsedType, LimitsAssumption DEF TInv, TypeOK, Goto
    <2>6. \A o \in Tokens : resetToken[o] # Nil => resetToken'[o] # Nil
      BY <2>4, MarkUsedType, NilAssumption
    <2> QED
      BY <2>4, <2>5, <2>6, IdleOK, CommitTInv DEF TInv, LocksOK, TypeOK, Local
  <1> QED
    BY <1>1, <1>2

\* The rows a deletion removes are the ones it has locked itself.
LEMMA DeletionTInv == ASSUME TInv, NEW r \in Requests, CommitDeletion(r) PROVE TInv'
  <1>1. Goto(r, Idle) /\ UNCHANGED <<mailed, minted, known, history, now>>
    BY DEF CommitDeletion, Finish, Goto
  <1>2. TypeOK'
    BY <1>1, IdleOK DEF CommitDeletion, TInv, TypeOK, Goto, history
  <1>3. \A s \in Requests \ {r} : \A t \in req[s].held : resetToken'[t] # Nil
    BY DEF CommitDeletion, TInv, LocksOK, TypeOK, Local
  <1> QED
    BY <1>1, <1>2, <1>3, IdleOK, CommitTInv

LEMMA RestartTInv == ASSUME TInv, Restart PROVE TInv'
  BY IdleOK DEF Restart, TInv, TypeOK, LocksOK, store, history, LocalOK

LEMMA StepTInv == TInv /\ [Next]_vars => TInv'
  <1> SUFFICES ASSUME TInv, [Next]_vars PROVE TInv'
    OBVIOUS
  <1>1. ASSUME NEW r \in Requests, Proceed(r) PROVE TInv'
    BY <1>1, LoginTInv, LocalStepTInv, RetireTInv, InsertTInv, MailTInv, MarkTInv,
       SetPasswordTInv, CascadeTInv, DeletionTInv DEF Proceed
  <1>2. ASSUME NEW r \in Requests, Arrive(r) \/ BreakDeadlock(r) PROVE TInv'
    BY <1>2, ArriveTInv, AbortTInv DEF BreakDeadlock
  <1>3. CASE Tick
    BY <1>3 DEF Tick, TInv, TypeOK, LocksOK, LocalOK, store, history
  <1>4. CASE UNCHANGED vars
    BY <1>4 DEF vars, TInv, TypeOK, LocksOK, LocalOK
  <1> QED
    BY <1>1, <1>2, <1>3, <1>4, RestartTInv DEF Next

\* Every row and every local variable keeps its type, and a row that a request
\* has locked is there until the request ends (the
\* transactions of password_reset_service and of delete_account).
THEOREM TypeCorrect == Spec => []TypeOK
  <1>1. TInv => TypeOK
    BY DEF TInv
  <1> QED
    BY <1>1, InitTInv, StepTInv, PTL DEF Spec

LEMMA TInvAlways == Spec => []TInv
  BY InitTInv, StepTInv, PTL DEF Spec

-----------------------------------------------------------------------------
(* Lockout.  A counter value, stored or still held in a local copy, is     *)
(* covered by wrong passwords that were committed: stale copies can only   *)
(* be behind.                                                              *)

Backed(u, n) == n <= misses[u] \/ misses[u] = MaxAttempts

UserBacked(u) ==
  Exists(u) => /\ Backed(u, userRow[u].attempts)
               /\ userRow[u].lockedUntil # Null => misses[u] = MaxAttempts

CopyBacked(r) ==
  req[r].at \in {"loginFailed", "loginPassed", "setPassword"} => Backed(req[r].user, req[r].seen.attempts)

LInv == (\A u \in Users : UserBacked(u)) /\ (\A r \in Requests : CopyBacked(r))

LEMMA InitLInv == Init => LInv
  BY LimitsAssumption DEF Init, LInv, UserBacked, CopyBacked, Backed, Idle, Null

\* A step that writes neither users nor the history of misses.
LEMMA MoveLInv ==
  ASSUME LInv, TInv, NEW r \in Requests, CopyBacked(r)',
         \A s \in Requests \ {r} : req'[s] = req[s],
         UNCHANGED <<userRow, misses>>
  PROVE  LInv'
  <1>1. ASSUME NEW u \in Users PROVE UserBacked(u)'
    BY DEF LInv, UserBacked, Backed, Exists
  <1>2. ASSUME NEW s \in Requests \ {r} PROVE CopyBacked(s)'
    BY DEF LInv, CopyBacked, Backed
  <1> QED
    BY <1>1, <1>2 DEF LInv

\* A step that leaves r idle and writes one user row.
LEMMA WriteLInv ==
  ASSUME LInv, TInv, NEW r \in Requests, Goto(r, Idle), NEW u \in Users, UserBacked(u)',
         \A v \in Users \ {u} : userRow'[v] = userRow[v],
         \A v \in Users : misses[v] <= misses'[v] /\ misses'[v] \in 0 .. MaxAttempts
  PROVE  LInv'
  <1>0. \A v \in Users : misses[v] \in 0 .. MaxAttempts
    BY DEF TInv, TypeOK
  <1>1. ASSUME NEW v \in Users, NEW n \in Nat, Backed(v, n) PROVE Backed(v, n)'
    BY <1>0, <1>1, LimitsAssumption DEF Backed
  <1>2. ASSUME NEW v \in Users \ {u} PROVE UserBacked(v)'
    <2>1. Exists(v) => userRow[v].attempts \in Nat
      BY DEF TInv, TypeOK, Exists, UserRow
    <2>2. misses[v] = MaxAttempts => misses'[v] = MaxAttempts
      BY <1>0, LimitsAssumption
    <2> QED
      BY <1>1, <2>1, <2>2 DEF LInv, UserBacked, Exists, Backed
  <1>3. ASSUME NEW s \in Requests \ {r} PROVE CopyBacked(s)'
    <2>1. req'[s] = req[s]
      BY DEF Goto, TInv, TypeOK
    <2>2. CASE req[s].at \in {"loginFailed", "loginPassed", "setPassword"}
      <3>1. req[s].user \in Users /\ req[s].seen.attempts \in Nat
        BY <2>2 DEF TInv, LocalOK, Lockout
      <3> QED
        BY <1>1, <2>1, <2>2, <3>1 DEF LInv, CopyBacked, Backed
    <2> QED
      BY <2>1, <2>2 DEF CopyBacked
  <1>4. CopyBacked(r)'
    BY DEF Goto, TInv, TypeOK, CopyBacked, Idle
  <1> QED
    BY <1>2, <1>3, <1>4 DEF LInv

\* The requests whose local state a step of r leaves alone.
LEMMA OthersStay ==
  ASSUME TInv, NEW r \in Requests, Arrive(r) \/ Proceed(r) \/ BreakDeadlock(r)
  PROVE  \A s \in Requests \ {r} : req'[s] = req[s]
  BY DEF TInv, TypeOK, Arrive, Proceed, BreakDeadlock, Abort, Finish, Goto, Begin, Login, DeleteAccount,
         RequestReset, CompleteReset, CommitFailedLogin, CommitPassedLogin, CollectUnused, RetireToken,
         InsertToken, MailToken, MarkTokenUsed, ReadTokenOwner, SetPassword, DeleteUserRow,
         CascadeToToken, CommitDeletion

LEMMA AbortLInv == ASSUME LInv, TInv, NEW r \in Requests, Abort(r) PROVE LInv'
  <1>1. req' = [req EXCEPT ![r] = Idle] /\ UNCHANGED <<userRow, misses>>
    BY DEF Abort, Finish, store, history
  <1>2. CopyBacked(r)' /\ \A s \in Requests \ {r} : req'[s] = req[s]
    BY <1>1 DEF CopyBacked, Idle, TInv, TypeOK
  <1> QED
    BY <1>1, <1>2, MoveLInv

\* A fresh copy of the row is as well covered as the row.
LEMMA ReadLInv ==
  ASSUME LInv, TInv, NEW r \in Requests, Arrive(r) \/ ReadTokenOwner(r)
  PROVE  LInv'
  <1>1. UNCHANGED <<userRow, misses>>
    BY DEF Arrive, Login, DeleteAccount, RequestReset, CompleteReset, ReadTokenOwner, store, history
  <1>2. CopyBacked(r)'
    <2>1. ASSUME NEW u \in Users, NEW p \in Passwords, Login(r, u, p) PROVE CopyBacked(r)'
      <3>1. req'[r].user = u /\ req'[r].seen = LockoutOf(u) /\ Exists(u)
        BY <2>1 DEF Login, Begin, Idle, TInv, TypeOK
      <3> QED
        BY <1>1, <3>1 DEF CopyBacked, LInv, UserBacked, Backed, LockoutOf
    <2>2. CASE ReadTokenOwner(r) /\ Exists(req[r].user)
      <3>1. req'[r] = [req[r] EXCEPT !.at = "setPassword", !.seen = LockoutOf(req[r].user)]
        BY <2>2 DEF ReadTokenOwner, Goto, TInv, TypeOK
      <3>2. req[r] \in Local /\ req[r].user \in Users
        BY <2>2 DEF ReadTokenOwner, TInv, TypeOK, LocalOK
      <3>3. req'[r].user = req[r].user /\ req'[r].seen = LockoutOf(req[r].user)
        BY <3>1, <3>2 DEF Local
      <3> QED
        BY <1>1, <2>2, <3>2, <3>3 DEF CopyBacked, LInv, UserBacked, Backed, LockoutOf
    <2>3. CASE ReadTokenOwner(r) /\ ~Exists(req[r].user)
      BY <2>3 DEF ReadTokenOwner, Finish, CopyBacked, Idle, TInv, TypeOK
    <2>4. ASSUME NEW u \in Users, NEW p \in Passwords, DeleteAccount(r, u, p) \/ RequestReset(r, u)
          PROVE  CopyBacked(r)'
      BY <2>4 DEF DeleteAccount, RequestReset, Begin, CopyBacked, Idle, TInv, TypeOK
    <2>5. ASSUME NEW t \in Tokens, NEW p \in Passwords, CompleteReset(r, t, p) PROVE CopyBacked(r)'
      BY <2>5 DEF CompleteReset, Begin, CopyBacked, Idle, TInv, TypeOK
    <2>6. CASE \E u \in Users : RequestReset(r, u)
      BY <2>6 DEF RequestReset, Begin, CopyBacked, Idle, TInv, TypeOK
    <2> QED
      BY <2>1, <2>2, <2>3, <2>4, <2>5, <2>6 DEF Arrive
  <1> QED
    BY <1>1, <1>2, OthersStay, MoveLInv DEF Proceed

\* The steps that neither read nor write a counter.
LEMMA OtherStepsLInv ==
  ASSUME LInv, TInv, NEW r \in Requests,
         \/ CollectUnused(r) \/ RetireToken(r) \/ MailToken(r) \/ MarkTokenUsed(r) \/ DeleteUserRow(r)
         \/ CascadeToToken(r) \/ (InsertToken(r) /\ Exists(req[r].user))
  PROVE  LInv'
  <1>1. UNCHANGED <<userRow, misses>>
    BY DEF CollectUnused, RetireToken, MailToken, MarkTokenUsed, DeleteUserRow, CascadeToToken, InsertToken,
           Abort, store, history
  <1>2. req[r] \in Local
    BY DEF TInv, TypeOK
  <1>3. req'[r].at \notin {"loginFailed", "loginPassed", "setPassword"}
    <2> USE <1>2 DEF Goto, Finish, Idle, Local, TInv, TypeOK
    <2>1. CASE CollectUnused(r)
      BY <2>1 DEF CollectUnused
    <2>2. CASE RetireToken(r)
      <3> PICK t \in req[r].todo :
            \/ req' = [req EXCEPT ![r] = Idle]
            \/ req' = [req EXCEPT ![r] = [req[r] EXCEPT !.todo = @ \ {t}, !.held = @ \cup {t}]]
        BY <2>2 DEF RetireToken
      <3>1. req[r].at = "retire"
        BY <2>2 DEF RetireToken
      <3>2. \/ req'[r] = Idle
            \/ req'[r] = [req[r] EXCEPT !.todo = @ \ {t}, !.held = @ \cup {t}]
        OBVIOUS
      <3>3. [req[r] EXCEPT !.todo = @ \ {t}, !.held = @ \cup {t}].at = "retire" /\ Idle.at = "idle"
        BY <3>1
      <3> QED
        BY <3>2, <3>3
    <2>3. CASE MailToken(r)
      BY <2>3 DEF MailToken
    <2>6. CASE MarkTokenUsed(r)
      <3>1. \/ req' = [req EXCEPT ![r] = Idle]
            \/ req' = [req EXCEPT ![r] = [req[r] EXCEPT !.at = "readOwner", !.held = {req[r].token}]]
        BY <2>6 DEF MarkTokenUsed
      <3>2. \/ req'[r] = Idle
            \/ req'[r] = [req[r] EXCEPT !.at = "readOwner", !.held = {req[r].token}]
        BY <3>1
      <3>3. [req[r] EXCEPT !.at = "readOwner", !.held = {req[r].token}].at = "readOwner" /\ Idle.at = "idle"
        OBVIOUS
      <3> QED
        BY <3>2, <3>3
    <2>4. CASE DeleteUserRow(r) \/ CascadeToToken(r)
      BY <2>4 DEF DeleteUserRow, CascadeToToken
    <2>5. CASE InsertToken(r) /\ Exists(req[r].user)
      <3>1. \E t \in Tokens :
              req' = [req EXCEPT ![r] = [Idle EXCEPT !.at = "mail", !.user = req[r].user, !.token = t]]
        BY <2>5 DEF InsertToken, Abort
      <3> QED
        BY <3>1
    <2> QED
      BY <2>1, <2>2, <2>3, <2>4, <2>5, <2>6
  <1> QED
    BY <1>1, <1>3, OthersStay, MoveLInv DEF Proceed, CopyBacked

LEMMA LoginLInv ==
  ASSUME LInv, TInv, NEW r \in Requests, CommitFailedLogin(r) \/ CommitPassedLogin(r)
  PROVE  LInv'
  <1> DEFINE me == req[r]
  <1> PICK u \in Users : u = me.user
    BY DEF TInv, LocalOK, CommitFailedLogin, CommitPassedLogin
  <1>0. me \in Local /\ me.seen \in Lockout /\ misses[u] \in 0 .. MaxAttempts
    BY DEF TInv, TypeOK, LocalOK, CommitFailedLogin, CommitPassedLogin
  <1>1. CASE ~Exists(u)
    BY <1>1, AbortLInv DEF CommitFailedLogin, CommitPassedLogin
  <1>2. CASE Exists(u)
    <2>1. userRow[u] \in UserRow
      BY <1>0, <1>2 DEF Exists, TInv, TypeOK
    <2>2. me.at \in {"loginFailed", "loginPassed"} /\ Backed(u, me.seen.attempts) /\ UserBacked(u)
      BY <1>0 DEF CommitFailedLogin, CommitPassedLogin, LInv, CopyBacked
    <2>3. Goto(r, Idle)
      BY <1>2 DEF CommitFailedLogin, CommitPassedLogin, Abort, Finish, Goto
    <2>4. CASE CommitFailedLogin(r)
      <3>1. /\ userRow' = [userRow EXCEPT ![u] = Failed(userRow[u], me.seen, me.clock)]
            /\ misses' = [misses EXCEPT ![u] = Saturate(misses[u], MaxAttempts)]
        BY <1>2, <2>4 DEF CommitFailedLogin, Abort
      <3>2. /\ userRow'[u] = Failed(userRow[u], me.seen, me.clock)
            /\ misses'[u] = Saturate(misses[u], MaxAttempts)
            /\ \A v \in Users \ {u} : userRow'[v] = userRow[v] /\ misses'[v] = misses[v]
        BY <1>0, <3>1 DEF TInv, TypeOK
      <3>3. /\ userRow'[u].attempts = me.seen.attempts + 1
            /\ userRow'[u].lockedUntil # Null =>
                 me.seen.attempts + 1 >= MaxAttempts \/ userRow[u].lockedUntil # Null
        BY <2>1, <3>2 DEF Failed, UserRow
      <3>4. me.seen.attempts \in Nat /\ MaxAttempts \in Nat
        BY <1>0, LimitsAssumption DEF Lockout
      <3>5. misses'[u] = IF misses[u] < MaxAttempts THEN misses[u] + 1 ELSE misses[u]
        BY <3>2 DEF Saturate
      <3>6. UserBacked(u)'
        BY <1>0, <1>2, <2>2, <3>3, <3>4, <3>5 DEF UserBacked, Backed
      <3>7. \A v \in Users : misses[v] <= misses'[v] /\ misses'[v] \in 0 .. MaxAttempts
        BY <1>0, <3>2, <3>4, <3>5 DEF TInv, TypeOK
      <3> QED
        BY <1>0, <2>3, <3>2, <3>6, <3>7, WriteLInv
    <2>5. CASE CommitPassedLogin(r)
      <3>1. userRow' = [userRow EXCEPT ![u] = Cleared(userRow[u], me.seen)] /\ UNCHANGED misses
        BY <1>2, <2>5 DEF CommitPassedLogin, Abort
      <3>2. userRow'[u] = Cleared(userRow[u], me.seen) /\ \A v \in Users \ {u} : userRow'[v] = userRow[v]
        BY <1>0, <3>1 DEF TInv, TypeOK
      <3>3. /\ userRow'[u].attempts \in {0, userRow[u].attempts}
            /\ userRow'[u].lockedUntil \in {Null, userRow[u].lockedUntil}
        BY <2>1, <3>2 DEF Cleared, UserRow
      <3>4. UserBacked(u)'
        BY <1>0, <1>2, <2>2, <3>1, <3>3, LimitsAssumption DEF UserBacked, Backed
      <3>5. \A v \in Users : misses[v] <= misses'[v] /\ misses'[v] \in 0 .. MaxAttempts
        BY <3>1, LimitsAssumption DEF TInv, TypeOK
      <3> QED
        BY <1>0, <2>3, <3>2, <3>4, <3>5, WriteLInv
    <2> QED
      BY <2>4, <2>5
  <1> QED
    BY <1>1, <1>2

LEMMA SetPasswordLInv == ASSUME LInv, TInv, NEW r \in Requests, SetPassword(r) PROVE LInv'
  <1> DEFINE me == req[r]
  <1> PICK u \in Users : u = me.user
    BY DEF TInv, LocalOK, SetPassword
  <1> DEFINE row == [Cleared(userRow[u], me.seen) EXCEPT !.password = me.given]
  <1>0. me \in Local /\ me.seen \in Lockout
    BY DEF TInv, TypeOK, LocalOK, SetPassword
  <1>1. CASE ~Exists(u)
    BY <1>1, AbortLInv DEF SetPassword
  <1>2. CASE Exists(u)
    <2>1. userRow[u] \in UserRow
      BY <1>0, <1>2 DEF Exists, TInv, TypeOK
    <2>2. userRow' = [userRow EXCEPT ![u] = row] /\ UNCHANGED misses /\ Goto(r, Idle)
      BY <1>2 DEF SetPassword, Abort, Finish, Goto
    <2>3. userRow'[u] = row /\ \A v \in Users \ {u} : userRow'[v] = userRow[v]
      BY <1>0, <2>2 DEF TInv, TypeOK
    <2>4. /\ row.attempts \in {0, userRow[u].attempts}
          /\ row.lockedUntil \in {Null, userRow[u].lockedUntil}
      BY <2>1 DEF Cleared, UserRow
    <2>5. UserBacked(u)'
      BY <1>0, <1>2, <2>2, <2>3, <2>4, LimitsAssumption DEF UserBacked, Backed, LInv, TInv, TypeOK
    <2>6. \A v \in Users : misses[v] <= misses'[v] /\ misses'[v] \in 0 .. MaxAttempts
      BY <2>2, LimitsAssumption DEF TInv, TypeOK
    <2> HIDE DEF row
    <2> QED
      BY <1>0, <2>2, <2>3, <2>5, <2>6, WriteLInv
  <1> QED
    BY <1>1, <1>2

LEMMA DeletionLInv == ASSUME LInv, TInv, NEW r \in Requests, CommitDeletion(r) PROVE LInv'
  <1> PICK u \in Users : u = req[r].user
    BY DEF TInv, LocalOK, CommitDeletion
  <1>1. /\ userRow' = [userRow EXCEPT ![u] = Nil]
        /\ UNCHANGED misses
        /\ Goto(r, Idle)
    BY DEF CommitDeletion, Finish, Goto, history
  <1>3. userRow'[u] = Nil /\ \A v \in Users \ {u} : userRow'[v] = userRow[v]
    BY <1>1 DEF TInv, TypeOK
  <1>4. UserBacked(u)'
    BY <1>3 DEF UserBacked, Exists
  <1>5. \A v \in Users : misses[v] <= misses'[v] /\ misses'[v] \in 0 .. MaxAttempts
    BY <1>1, LimitsAssumption DEF TInv, TypeOK
  <1> QED
    BY <1>1, <1>3, <1>4, <1>5, WriteLInv

LEMMA StepLInv == LInv /\ TInv /\ [Next]_vars => LInv'
  <1> SUFFICES ASSUME LInv, TInv, [Next]_vars PROVE LInv'
    OBVIOUS
  <1>1. ASSUME NEW r \in Requests, Proceed(r) PROVE LInv'
    <2>1. CASE InsertToken(r) /\ ~Exists(req[r].user)
      BY <2>1, AbortLInv DEF InsertToken
    <2> QED
      BY <1>1, <2>1, LoginLInv, ReadLInv, OtherStepsLInv, SetPasswordLInv, DeletionLInv DEF Proceed
  <1>2. ASSUME NEW r \in Requests, Arrive(r) \/ BreakDeadlock(r) PROVE LInv'
    BY <1>2, ReadLInv, AbortLInv DEF BreakDeadlock
  <1>3. CASE Restart
    BY <1>3 DEF Restart, LInv, UserBacked, CopyBacked, Backed, Exists, Idle, store, history
  <1>4. CASE Tick
    BY <1>4 DEF Tick, LInv, UserBacked, CopyBacked, Backed, Exists, store, history
  <1>5. CASE UNCHANGED vars
    BY <1>5 DEF vars, LInv, UserBacked, CopyBacked, Backed, Exists
  <1> QED
    BY <1>1, <1>2, <1>3, <1>4, <1>5 DEF Next

\* However many logins, resets and deletions overlap, and however stale the
\* counters they write back, no account is locked before MAX_FAILED_LOGIN_ATTEMPTS
\* wrong passwords were committed against it.
THEOREM LockoutEarned == Spec => []LockNeedsMisses
  <1>1. LInv => LockNeedsMisses
    BY DEF LInv, UserBacked, LockNeedsMisses
  <1> QED
    BY <1>1, InitLInv, StepLInv, TInvAlways, PTL DEF Spec

-----------------------------------------------------------------------------
(* No reset token without its account.                                     *)

Owned == TokensHaveOwners /\ TInv

\* A step that neither inserts a token nor deletes an account.
LEMMA KeepOwned ==
  ASSUME TokensHaveOwners, TypeOK,
         \A t \in Tokens : resetToken'[t] # Nil => resetToken[t] # Nil /\ resetToken'[t].owner = resetToken[t].owner,
         \A u \in Users : Exists(u) => Exists(u)'
  PROVE  TokensHaveOwners'
  BY DEF TokensHaveOwners, TypeOK, TokenRow

LEMMA MarkUsedOwned ==
  ASSUME TInv, NEW S \in SUBSET Tokens, \A t \in S : resetToken[t] # Nil
  PROVE  /\ MarkUsed(S) \in [Tokens -> TokenRow \cup {Nil}]
         /\ \A t \in Tokens : /\ MarkUsed(S)[t] # Nil <=> resetToken[t] # Nil
                              /\ resetToken[t] # Nil => MarkUsed(S)[t].owner = resetToken[t].owner
  BY NilAssumption DEF MarkUsed, TInv, TypeOK, TokenRow

LEMMA InsertOwned == ASSUME Owned, NEW r \in Requests, InsertToken(r) PROVE TokensHaveOwners'
  <1> DEFINE me == req[r]
  <1>1. CASE Abort(r)
    BY <1>1, KeepOwned DEF Abort, store, Exists, Owned, TInv
  <1>2. CASE ~Abort(r)
    <2> PICK t \in Tokens :
          /\ resetToken' = [MarkUsed(me.held) EXCEPT ![t] = [owner |-> me.user, used |-> FALSE, expiresAt |-> now + ResetTtl]]
          /\ Exists(me.user)
          /\ userRow' = userRow
      BY <1>2 DEF InsertToken
    <2>1. me.held \subseteq Tokens /\ \A o \in me.held : resetToken[o] # Nil
      BY DEF Owned, TInv, TypeOK, Local, LocksOK
    <2>2. ASSUME NEW o \in Tokens, resetToken'[o] # Nil PROVE Exists(resetToken[o].owner)'
      <3>1. CASE o = t
        BY <3>1, <2>1, MarkUsedOwned DEF Exists, Owned
      <3>2. CASE o # t
        <4>1. resetToken'[o] = MarkUsed(me.held)[o]
          BY <3>2, <2>1, MarkUsedOwned DEF Owned
        <4>2. resetToken[o] # Nil /\ resetToken'[o].owner = resetToken[o].owner
          BY <4>1, <2>1, <2>2, MarkUsedOwned DEF Owned
        <4> QED
          BY <4>2 DEF Owned, TokensHaveOwners, Exists
      <3> QED
        BY <3>1, <3>2
    <2> QED
      BY <2>2 DEF TokensHaveOwners
  <1> QED
    BY <1>1, <1>2

\* By the time of the COMMIT the cascade holds every token of the account, the
\* one included that was inserted after the deletion began.
LEMMA DeletionOwned == ASSUME Owned, NEW r \in Requests, CommitDeletion(r) PROVE TokensHaveOwners'
  <1> PICK u \in Users : u = req[r].user
    BY DEF Owned, TInv, LocalOK, CommitDeletion
  <1>1. /\ TokensOf(u) \subseteq req[r].held
        /\ userRow' = [userRow EXCEPT ![u] = Nil]
        /\ resetToken' = [t \in Tokens |-> IF t \in req[r].held THEN Nil ELSE resetToken[t]]
    BY DEF CommitDeletion
  <1>2. ASSUME NEW t \in Tokens, resetToken'[t] # Nil PROVE Exists(resetToken[t].owner)'
    <2>1. resetToken'[t] = resetToken[t] /\ t \notin TokensOf(u)
      BY <1>1, <1>2
    <2>2. resetToken[t].owner # u /\ Exists(resetToken[t].owner)
      BY <1>2, <2>1 DEF TokensOf, Owned, TokensHaveOwners
    <2>3. resetToken[t].owner \in Users
      BY <1>2, <2>1 DEF Owned, TInv, TypeOK, TokenRow
    <2> QED
      BY <1>1, <2>1, <2>2, <2>3 DEF Exists, Owned, TInv, TypeOK
  <1> QED
    BY <1>2 DEF TokensHaveOwners

\* A rewritten user row is still a row.
LEMMA RewriteOwned ==
  ASSUME Owned, NEW r \in Requests, CommitFailedLogin(r) \/ CommitPassedLogin(r) \/ SetPassword(r)
  PROVE  TokensHaveOwners'
  <1> PICK u \in Users : u = req[r].user
    BY DEF Owned, TInv, LocalOK, CommitFailedLogin, CommitPassedLogin, SetPassword
  <1>1. CASE Abort(r)
    BY <1>1, KeepOwned DEF Abort, store, Exists, Owned, TInv
  <1>2. CASE ~Abort(r)
    <2>1. Exists(u)
      BY <1>2 DEF CommitFailedLogin, CommitPassedLogin, SetPassword
    <2>2. \A v \in Users : Exists(v) => Exists(v)'
      <3>0. TypeOK /\ TypeOK'
        BY LoginTInv, SetPasswordTInv DEF Owned, TInv
      <3>1. userRow' \in [Users -> UserRow \cup {Nil}] /\ userRow \in [Users -> UserRow \cup {Nil}]
        BY <3>0 DEF TypeOK
      <3>2. \A v \in Users \ {u} : userRow'[v] = userRow[v]
        BY <1>2, <3>1 DEF CommitFailedLogin, CommitPassedLogin, SetPassword
      <3>3. userRow'[u] # Nil
        <4> DEFINE me == req[r]
        <4>1. userRow[u] \in UserRow
          BY <2>1, <3>1 DEF Exists
        <4>2. me \in Local /\ me.seen \in Lockout /\ me.clock \in Nat
          BY DEF Owned, TInv, TypeOK, LocalOK, Local, CommitFailedLogin, CommitPassedLogin, SetPassword
        <4>3. SetPassword(r) => me.given \in Passwords
          BY DEF Owned, TInv, LocalOK, SetPassword
        <4>4. /\ Failed(userRow[u], me.seen, me.clock) \in UserRow
              /\ Cleared(userRow[u], me.seen) \in UserRow
          BY <4>1, <4>2, FailedType, ClearedType
        <4>5. SetPassword(r) => [Cleared(userRow[u], me.seen) EXCEPT !.password = me.given] \in UserRow
          BY <4>3, <4>4 DEF UserRow
        <4>6. \/ userRow' = [userRow EXCEPT ![u] = Failed(userRow[u], me.seen, me.clock)]
              \/ userRow' = [userRow EXCEPT ![u] = Cleared(userRow[u], me.seen)]
              \/ /\ SetPassword(r)
                 /\ userRow' = [userRow EXCEPT ![u] = [Cleared(userRow[u], me.seen) EXCEPT !.password = me.given]]
          BY <1>2 DEF CommitFailedLogin, CommitPassedLogin, SetPassword
        <4>7. userRow'[u] \in UserRow
          BY <3>1, <4>4, <4>5, <4>6
        <4> QED
          BY <4>7, NilAssumption
      <3> QED
        BY <2>1, <3>2, <3>3 DEF Exists
    <2>3. \A t \in Tokens : resetToken'[t] # Nil => resetToken[t] # Nil /\ resetToken'[t].owner = resetToken[t].owner
      <3>1. CASE SetPassword(r)
        <4>1. resetToken' = MarkUsed(req[r].held)
          BY <1>2, <3>1 DEF SetPassword
        <4>2. req[r].held \subseteq Tokens /\ \A o \in req[r].held : resetToken[o] # Nil
          BY DEF Owned, TInv, TypeOK, Local, LocksOK
        <4> QED
          BY <4>1, <4>2, MarkUsedOwned DEF Owned
      <3>2. CASE ~SetPassword(r)
        BY <1>2, <3>2 DEF CommitFailedLogin, CommitPassedLogin
      <3> QED
        BY <3>1, <3>2
    <2> QED
      BY <2>2, <2>3, KeepOwned DEF Owned, TInv
  <1> QED
    BY <1>1, <1>2

LEMMA StepOwned == Owned /\ [Next]_vars => Owned'
  <1> SUFFICES ASSUME Owned, [Next]_vars PROVE TokensHaveOwners'
    BY StepTInv DEF Owned
  <1>1. CASE UNCHANGED <<userRow, resetToken>>
    BY <1>1, KeepOwned DEF Exists, Owned, TInv
  <1>2. ASSUME NEW r \in Requests, Arrive(r) \/ Proceed(r) \/ BreakDeadlock(r) PROVE TokensHaveOwners'
    <2>1. CASE InsertToken(r) \/ CommitDeletion(r) \/ CommitFailedLogin(r) \/ CommitPassedLogin(r) \/ SetPassword(r)
      BY <2>1, InsertOwned, DeletionOwned, RewriteOwned
    <2>2. Arrive(r) \/ BreakDeadlock(r) => UNCHANGED <<userRow, resetToken>>
      BY DEF Arrive, Login, DeleteAccount, RequestReset, CompleteReset, BreakDeadlock, Abort, store
    <2>3. CollectUnused(r) \/ RetireToken(r) \/ MailToken(r) \/ MarkTokenUsed(r) \/ ReadTokenOwner(r)
          \/ DeleteUserRow(r) \/ CascadeToToken(r) => UNCHANGED <<userRow, resetToken>>
      BY DEF CollectUnused, RetireToken, MailToken, MarkTokenUsed, ReadTokenOwner, DeleteUserRow, CascadeToToken, store
    <2> QED
      BY <1>1, <1>2, <2>1, <2>2, <2>3 DEF Proceed
  <1>3. Restart \/ Tick \/ UNCHANGED vars => UNCHANGED <<userRow, resetToken>>
    BY DEF Restart, Tick, vars, store
  <1> QED
    BY <1>1, <1>2, <1>3 DEF Next

\* No reset token outlives its account, whatever the order in which a reset
\* request and a deletion look for each other's rows.
THEOREM TokensOwned == Spec => []TokensHaveOwners
  <1>1. Init => Owned
    BY InitTInv DEF Init, Owned, TokensHaveOwners
  <1>2. Owned => TokensHaveOwners
    BY DEF Owned
  <1> QED
    BY <1>1, <1>2, StepOwned, PTL DEF Spec

-----------------------------------------------------------------------------
(* What a request remembers of token rows that others have changed since.  *)

\* A row a request has looked for is gone, used, still to be flushed or locked
\* by it, and a token that is being spent was mailed and is the user's own.
PathOK(me) ==
  /\ me.at = "retire" =>
       \A o \in me.known :
         /\ o \in minted
         /\ resetToken[o] # Nil => (resetToken[o].used \/ o \in me.todo \cup me.held)
  /\ me.at \in {"markUsed", "readOwner", "setPassword"} =>
       /\ me.token \in minted \cap mailed
       /\ resetToken[me.token] # Nil => resetToken[me.token].owner = me.user
  /\ me.at \in {"readOwner", "setPassword"} => me.held = {me.token}

\* A token with a row was inserted, and so were the ones known to it.
MintedOK == \A t \in Tokens : (resetToken[t] # Nil => t \in minted) /\ known[t] \subseteq minted

PInv == TInv /\ MintedOK /\ OlderTokensRetired /\ \A r \in Requests : PathOK(req[r])

\* What may happen to a token that was once inserted: it is used, or it goes,
\* and never comes back.
Aging ==
  /\ minted \subseteq minted' /\ mailed \subseteq mailed'
  /\ \A o \in minted : resetToken'[o] # Nil =>
       /\ resetToken[o] # Nil
       /\ resetToken'[o].owner = resetToken[o].owner
       /\ resetToken[o].used => resetToken'[o].used

LEMMA PathStays == ASSUME NEW l \in Local, PathOK(l), Aging PROVE PathOK(l)'
  BY DEF PathOK, Aging

LEMMA MarkUsedAges ==
  ASSUME TInv, NEW S \in SUBSET Tokens, \A t \in S : resetToken[t] # Nil, NEW o \in Tokens,
         MarkUsed(S)[o] # Nil
  PROVE  /\ resetToken[o] # Nil
         /\ MarkUsed(S)[o].owner = resetToken[o].owner
         /\ MarkUsed(S)[o].used <=> (resetToken[o].used \/ o \in S)
  <1>1. resetToken[o] # Nil /\ MarkUsed(S)[o].owner = resetToken[o].owner
    BY MarkUsedOwned
  <1>2. resetToken[o] \in TokenRow
    BY <1>1 DEF TInv, TypeOK
  <1>3. CASE o \in S
    BY <1>1, <1>2, <1>3 DEF MarkUsed, TokenRow
  <1>4. CASE o \notin S
    BY <1>1, <1>4 DEF MarkUsed
  <1> QED
    BY <1>1, <1>3, <1>4

\* The rows a request holds are rows.
LEMMA HeldRows ==
  ASSUME TInv, NEW r \in Requests
  PROVE  req[r].held \in SUBSET Tokens /\ \A t \in req[r].held : resetToken[t] # Nil
  BY DEF TInv, TypeOK, Local, LocksOK

LEMMA InsertAges ==
  ASSUME TInv, NEW r \in Requests, InsertToken(r), ~Abort(r)
  PROVE  \E t \in Tokens \ minted :
           /\ minted' = minted \cup {t}
           /\ known' = [known EXCEPT ![t] = req[r].known]
           /\ Goto(r, [Idle EXCEPT !.at = "mail", !.user = req[r].user, !.token = t])
           /\ resetToken'[t] # Nil
           /\ \A o \in Tokens \ {t} : resetToken'[o] # Nil =>
                /\ resetToken[o] # Nil
                /\ resetToken'[o].owner = resetToken[o].owner
                /\ resetToken'[o].used <=> (resetToken[o].used \/ o \in req[r].held)
  <1> DEFINE me == req[r]
  <1> DEFINE fresh == [owner |-> me.user, used |-> FALSE, expiresAt |-> now + ResetTtl]
  <1>1. me.held \in SUBSET Tokens /\ \A t \in me.held : resetToken[t] # Nil
    BY HeldRows
  <1> PICK t \in Tokens \ minted :
        /\ resetToken' = [MarkUsed(me.held) EXCEPT ![t] = fresh]
        /\ minted' = minted \cup {t}
        /\ known' = [known EXCEPT ![t] = me.known]
        /\ Goto(r, [Idle EXCEPT !.at = "mail", !.user = me.user, !.token = t])
    BY DEF InsertToken
  <1>2. MarkUsed(me.held) \in [Tokens -> TokenRow \cup {Nil}]
    BY <1>1, MarkUsedOwned
  <1>3. fresh \in TokenRow
    <2>1. me.at = "retire" /\ LocalOK(me)
      BY DEF InsertToken, TInv
    <2>2. me.user \in Users /\ now + ResetTtl \in Nat
      BY <2>1, LimitsAssumption DEF LocalOK, TInv, TypeOK
    <2> QED
      BY <2>2 DEF TokenRow
  <1>4. resetToken'[t] = fresh /\ fresh # Nil
    BY <1>2, <1>3, NilAssumption
  <1>5. \A o \in Tokens \ {t} : resetToken'[o] = MarkUsed(me.held)[o]
    BY <1>2
  <1>6. \A o \in Tokens \ {t} : resetToken'[o] # Nil =>
          /\ resetToken[o] # Nil
          /\ resetToken'[o].owner = resetToken[o].owner
          /\ resetToken'[o].used <=> (resetToken[o].used \/ o \in me.held)
    BY <1>1, <1>5, MarkUsedAges
  <1> QED
    BY <1>4, <1>6

\* Every step ages the tokens, keeps their rows minted, and keeps what is known
\* to a token for good.
LEMMA StepAges ==
  ASSUME PInv, [Next]_vars
  PROVE  Aging /\ \A t \in Tokens : resetToken'[t] # Nil => t \in minted'
  <1> USE DEF PInv
  <1>1. CASE UNCHANGED <<resetToken, minted>> /\ mailed \subseteq mailed'
    BY <1>1 DEF Aging, MintedOK
  <1>2. ASSUME NEW r \in Requests, InsertToken(r), ~Abort(r)
        PROVE  Aging /\ \A t \in Tokens : resetToken'[t] # Nil => t \in minted'
    <2>1. mailed' = mailed /\ minted \subseteq Tokens
      BY <1>2 DEF InsertToken, TInv, TypeOK
    <2> QED
      BY <1>2, <2>1, InsertAges DEF Aging, MintedOK
  <1>3. ASSUME NEW r \in Requests, SetPassword(r), ~Abort(r)
        PROVE  Aging /\ \A t \in Tokens : resetToken'[t] # Nil => t \in minted'
    <2>1. resetToken' = MarkUsed(req[r].held) /\ UNCHANGED <<mailed, minted>> /\ minted \subseteq Tokens
      BY <1>3 DEF SetPassword, TInv, TypeOK
    <2> QED
      BY <2>1, HeldRows, MarkUsedAges DEF Aging, MintedOK
  <1>4. ASSUME NEW r \in Requests, CommitDeletion(r)
        PROVE  Aging /\ \A t \in Tokens : resetToken'[t] # Nil => t \in minted'
    <2>1. /\ resetToken' = [t \in Tokens |-> IF t \in req[r].held THEN Nil ELSE resetToken[t]]
          /\ UNCHANGED <<mailed, minted>> /\ minted \subseteq Tokens
      BY <1>4 DEF CommitDeletion, TInv, TypeOK
    <2> QED
      BY <2>1 DEF Aging, MintedOK
  <1>5. ASSUME NEW r \in Requests, Arrive(r) \/ Proceed(r) \/ BreakDeadlock(r)
        PROVE  \/ UNCHANGED <<resetToken, minted>> /\ mailed \subseteq mailed'
               \/ InsertToken(r) /\ ~Abort(r)
               \/ SetPassword(r) /\ ~Abort(r)
               \/ CommitDeletion(r)
    <2>1. Arrive(r) \/ BreakDeadlock(r) \/ Abort(r) => UNCHANGED <<resetToken, minted, mailed>>
      BY DEF Arrive, Login, DeleteAccount, RequestReset, CompleteReset, BreakDeadlock, Abort, store
    <2>2. CollectUnused(r) \/ RetireToken(r) \/ MarkTokenUsed(r) \/ ReadTokenOwner(r)
          \/ DeleteUserRow(r) \/ CascadeToToken(r) => UNCHANGED <<resetToken, minted, mailed>>
      BY DEF CollectUnused, RetireToken, MarkTokenUsed, ReadTokenOwner, DeleteUserRow, CascadeToToken, store
    <2>3. (CommitFailedLogin(r) \/ CommitPassedLogin(r)) /\ ~Abort(r) => UNCHANGED <<resetToken, minted, mailed>>
      BY DEF CommitFailedLogin, CommitPassedLogin
    <2>4. MailToken(r) => UNCHANGED <<resetToken, minted>> /\ mailed \subseteq mailed'
      BY DEF MailToken
    <2> QED
      BY <1>5, <2>1, <2>2, <2>3, <2>4 DEF Proceed
  <1>6. Restart \/ Tick \/ UNCHANGED vars => UNCHANGED <<resetToken, minted, mailed>>
    BY DEF Restart, Tick, vars, store
  <1> QED
    BY <1>1, <1>2, <1>3, <1>4, <1>5, <1>6 DEF Next

\* The other requests are where they were, or the server was restarted.
LEMMA OwnPath ==
  ASSUME PInv, NEW r \in Requests, NEW l \in Local, Goto(r, l), PathOK(l)', Aging
  PROVE  \A s \in Requests : PathOK(req[s])'
  <1> SUFFICES ASSUME NEW s \in Requests PROVE PathOK(req[s])'
    OBVIOUS
  <1>1. CASE s = r
    <2>1. req'[s] = l
      BY <1>1 DEF Goto, PInv, TInv, TypeOK
    <2> QED
      BY <2>1 DEF PathOK
  <1>2. CASE s # r
    <2>1. req'[s] = req[s] /\ req[s] \in Local /\ PathOK(req[s])
      BY <1>2 DEF Goto, PInv, TInv, TypeOK
    <2>2. ASSUME NEW m \in Local, PathOK(m) PROVE PathOK(m)'
      BY <2>2, PathStays
    <2> PICK m \in Local : m = req[s]
      BY <2>1
    <2>3. PathOK(m)'
      BY <2>1, <2>2
    <2> QED
      BY <2>1, <2>3 DEF PathOK
  <1> QED
    BY <1>1, <1>2

LEMMA IdlePath == PathOK(Idle) /\ PathOK(Idle)'
  BY DEF PathOK, Idle

\* What a request newly remembers is true when it reads it.
LEMMA StepPath == ASSUME PInv, [Next]_vars PROVE \A s \in Requests : PathOK(req[s])'
  <1> USE DEF PInv
  <1>0. Aging
    BY StepAges
  <1> DEFINE Fresh(l) == l.at \in {"loginFailed", "loginPassed", "collect", "mail", "revoke", "cascade", "idle"}
  <1>1. ASSUME NEW l \in Local, Fresh(l) PROVE PathOK(l)'
    BY <1>1 DEF PathOK
  <1>2. ASSUME NEW r \in Requests, NEW l \in Local, Fresh(l), Goto(r, l) PROVE \A s \in Requests : PathOK(req[s])'
    BY <1>0, <1>1, <1>2, OwnPath
  <1> HIDE DEF Fresh
  <1>3. ASSUME NEW r \in Requests, Finish(r) PROVE \A s \in Requests : PathOK(req[s])'
    <2>1. Goto(r, Idle) /\ Fresh(Idle)
      BY <1>3 DEF Finish, Goto, Idle, Fresh
    <2> QED
      BY <1>2, <2>1, IdleOK
  <1>4. ASSUME NEW r \in Requests, Arrive(r) PROVE \A s \in Requests : PathOK(req[s])'
    <2>1. ASSUME NEW u \in Users, NEW p \in Passwords, Login(r, u, p) PROVE \A s \in Requests : PathOK(req[s])'
      <3> DEFINE l == [Idle EXCEPT !.at = IF p = userRow[u].password THEN "loginPassed" ELSE "loginFailed",
                                   !.user = u, !.seen = LockoutOf(u), !.clock = now]
      <3>1. LockoutOf(u) \in Lockout
        BY <2>1 DEF Login, LockoutOf, Lockout, Exists, TInv, TypeOK, UserRow
      <3>2. l \in Local /\ Fresh(l) /\ Goto(r, l)
        BY <2>1, <3>1 DEF Login, Begin, Goto, Idle, Local, Steps, Fresh, TInv, TypeOK
      <3> QED
        BY <3>2, <1>2
    <2>2. ASSUME NEW u \in Users, NEW p \in Passwords, DeleteAccount(r, u, p) PROVE \A s \in Requests : PathOK(req[s])'
      <3> DEFINE l == [Idle EXCEPT !.at = "revoke", !.user = u]
      <3>1. l \in Local /\ Fresh(l) /\ Goto(r, l)
        BY <2>2 DEF DeleteAccount, Begin, Goto, Idle, Local, Steps, Fresh
      <3> QED
        BY <3>1, <1>2
    <2>3. ASSUME NEW u \in Users, RequestReset(r, u) PROVE \A s \in Requests : PathOK(req[s])'
      <3> DEFINE l == [Idle EXCEPT !.at = "collect", !.user = u]
      <3>1. l \in Local /\ Fresh(l) /\ Goto(r, l)
        BY <2>3 DEF RequestReset, Begin, Goto, Idle, Local, Steps, Fresh
      <3> QED
        BY <3>1, <1>2
    <2>4. ASSUME NEW t \in Tokens, NEW p \in Passwords, CompleteReset(r, t, p) PROVE \A s \in Requests : PathOK(req[s])'
      <3> PICK u \in Users : u = resetToken[t].owner
        BY <2>4 DEF CompleteReset, Live, TInv, TypeOK, TokenRow
      <3> DEFINE l == [Idle EXCEPT !.at = "markUsed", !.user = u, !.token = t, !.given = p]
      <3>1. l \in Local /\ Goto(r, l)
        BY <2>4 DEF CompleteReset, Begin, Goto, Idle, Local, Steps
      <3>2. l.at = "markUsed" /\ l.token = t /\ l.user = u
        BY DEF Idle
      <3>3. t \in mailed /\ t \in minted
        BY <2>4 DEF CompleteReset, Live, MintedOK
      <3>4. PathOK(l)
        BY <3>2, <3>3 DEF PathOK
      <3> QED
        BY <1>0, <3>1, <3>4, OwnPath, PathStays
    <2> QED
      BY <1>4, <2>1, <2>2, <2>3, <2>4 DEF Arrive
  <1>5. ASSUME NEW r \in Requests, CollectUnused(r) PROVE \A s \in Requests : PathOK(req[s])'
    <2>1. req[r] \in Local /\ req[r].at = "collect" /\ Unused(req[r].user) \subseteq Tokens /\ TokensOf(req[r].user) \subseteq Tokens
      BY <1>5 DEF CollectUnused, Unused, TokensOf, TInv, TypeOK
    <2> PICK l \in Local : l = [req[r] EXCEPT !.at = "retire", !.todo = Unused(req[r].user), !.known = TokensOf(req[r].user)]
      BY <2>1 DEF Local, Steps
    <2>2. Goto(r, l)
      BY <1>5 DEF CollectUnused, Goto
    <2>3. l.at = "retire" /\ l.todo = Unused(req[r].user) /\ l.known = TokensOf(req[r].user)
      BY <2>1 DEF Local
    <2>4. \A o \in l.known : o \in minted /\ (resetToken[o].used \/ o \in l.todo)
      BY <2>3 DEF Unused, TokensOf, MintedOK
    <2>5. PathOK(l)
      BY <2>3, <2>4 DEF PathOK
    <2> QED
      BY <1>0, <2>2, <2>5, OwnPath, PathStays
  <1>6. ASSUME NEW r \in Requests, RetireToken(r) PROVE \A s \in Requests : PathOK(req[s])'
    <2> PICK t \in req[r].todo :
          IF resetToken[t] = Nil
          THEN Finish(r)
          ELSE Goto(r, [req[r] EXCEPT !.todo = @ \ {t}, !.held = @ \cup {t}])
      BY <1>6 DEF RetireToken
    <2>1. req[r] \in Local /\ req[r].at = "retire" /\ t \in Tokens
      BY <1>6 DEF RetireToken, TInv, TypeOK, Local
    <2>2. CASE Finish(r)
      BY <2>2, <1>3
    <2>3. CASE Goto(r, [req[r] EXCEPT !.todo = @ \ {t}, !.held = @ \cup {t}])
      <3> PICK l \in Local : l = [req[r] EXCEPT !.todo = @ \ {t}, !.held = @ \cup {t}]
        BY <2>1 DEF Local
      <3>1. l.at = "retire" /\ l.todo \cup l.held = req[r].todo \cup req[r].held /\ l.known = req[r].known
        BY <2>1 DEF Local
      <3>2. PathOK(req[r]) /\ Goto(r, l)
        BY <2>3
      <3>3. PathOK(l)
        BY <2>1, <3>1, <3>2 DEF PathOK
      <3> QED
        BY <1>0, <3>2, <3>3, OwnPath, PathStays
    <2> QED
      BY <2>2, <2>3
  <1>7. ASSUME NEW r \in Requests, MarkTokenUsed(r) PROVE \A s \in Requests : PathOK(req[s])'
    <2>1. req[r] \in Local /\ req[r].at = "markUsed" /\ LocalOK(req[r]) /\ PathOK(req[r])
      BY <1>7 DEF MarkTokenUsed, TInv, TypeOK
    <2>2. CASE Finish(r)
      BY <2>2, <1>3
    <2>3. CASE Goto(r, [req[r] EXCEPT !.at = "readOwner", !.held = {req[r].token}])
      <3> PICK l \in Local : l = [req[r] EXCEPT !.at = "readOwner", !.held = {req[r].token}]
        BY <2>1 DEF Local, Steps, LocalOK
      <3>1. l.at = "readOwner" /\ l.held = {l.token} /\ l.token = req[r].token /\ l.user = req[r].user
        BY <2>1 DEF Local
      <3>2. PathOK(l)
        BY <2>1, <3>1 DEF PathOK
      <3> QED
        BY <1>0, <2>3, <3>2, OwnPath, PathStays
    <2> QED
      BY <1>7, <2>2, <2>3 DEF MarkTokenUsed
  <1>8. ASSUME NEW r \in Requests, ReadTokenOwner(r) PROVE \A s \in Requests : PathOK(req[s])'
    <2>1. req[r] \in Local /\ req[r].at = "readOwner" /\ LocalOK(req[r]) /\ PathOK(req[r])
      BY <1>8 DEF ReadTokenOwner, TInv, TypeOK
    <2>2. CASE Finish(r)
      BY <2>2, <1>3
    <2>3. CASE ~Finish(r)
      <3>1. LockoutOf(req[r].user) \in Lockout
        BY <1>8, <2>1, <2>3 DEF ReadTokenOwner, LockoutOf, Lockout, Exists, TInv, TypeOK, UserRow, LocalOK
      <3> PICK l \in Local : l = [req[r] EXCEPT !.at = "setPassword", !.seen = LockoutOf(req[r].user)]
        BY <2>1, <3>1 DEF Local, Steps
      <3>2. l.at = "setPassword" /\ l.held = req[r].held /\ l.token = req[r].token /\ l.user = req[r].user
        BY <2>1 DEF Local
      <3>3. PathOK(l) /\ Goto(r, l)
        BY <1>8, <2>1, <2>3, <3>2 DEF PathOK, ReadTokenOwner
      <3> QED
        BY <1>0, <3>3, OwnPath, PathStays
    <2> QED
      BY <2>2, <2>3
  <1>9. ASSUME NEW r \in Requests, InsertToken(r) PROVE \A s \in Requests : PathOK(req[s])'
    <2>1. CASE Abort(r)
      BY <2>1, <1>3 DEF Abort
    <2>2. CASE ~Abort(r)
      <3> PICK t \in Tokens : Goto(r, [Idle EXCEPT !.at = "mail", !.user = req[r].user, !.token = t])
        BY <1>9, <2>2, InsertAges
      <3>1. req[r].user \in Users
        BY <1>9 DEF InsertToken, TInv, LocalOK
      <3> DEFINE l == [Idle EXCEPT !.at = "mail", !.user = req[r].user, !.token = t]
      <3>2. l \in Local /\ Fresh(l) /\ Goto(r, l)
        BY <3>1 DEF Idle, Local, Steps, Fresh
      <3> QED
        BY <3>2, <1>2
    <2> QED
      BY <2>1, <2>2
  <1>10. ASSUME NEW r \in Requests, DeleteUserRow(r) \/ CascadeToToken(r) PROVE \A s \in Requests : PathOK(req[s])'
    <2>1. req[r] \in Local /\ req[r].at \in {"revoke", "cascade"}
      BY <1>10 DEF DeleteUserRow, CascadeToToken, TInv, TypeOK
    <2>2. Finish(r) \/ \E l \in Local : l.at = "cascade" /\ Goto(r, l)
      <3>1. CASE DeleteUserRow(r)
        <4>1. [req[r] EXCEPT !.at = "cascade"] \in Local /\ [req[r] EXCEPT !.at = "cascade"].at = "cascade"
          BY <2>1 DEF Local, Steps
        <4> QED
          BY <3>1, <4>1 DEF DeleteUserRow
      <3>2. CASE CascadeToToken(r)
        <4> PICK t \in Tokens : Goto(r, [req[r] EXCEPT !.held = @ \cup {t}])
          BY <3>2 DEF CascadeToToken, TokensOf
        <4>1. req[r].at = "cascade"
          BY <3>2 DEF CascadeToToken
        <4>2. [req[r] EXCEPT !.held = @ \cup {t}] \in Local /\ [req[r] EXCEPT !.held = @ \cup {t}].at = "cascade"
          BY <2>1, <4>1 DEF Local
        <4> QED
          BY <4>2
      <3> QED
        BY <1>10, <3>1, <3>2
    <2>3. ASSUME NEW l \in Local, l.at = "cascade", Goto(r, l) PROVE \A s \in Requests : PathOK(req[s])'
      BY <1>2, <2>3 DEF Fresh
    <2> QED
      BY <2>2, <2>3, <1>3
  <1>11. ASSUME NEW r \in Requests,
                CommitFailedLogin(r) \/ CommitPassedLogin(r) \/ MailToken(r) \/ SetPassword(r) \/ CommitDeletion(r) \/ BreakDeadlock(r)
         PROVE  \A s \in Requests : PathOK(req[s])'
    <2>1. Finish(r)
      BY <1>11 DEF CommitFailedLogin, CommitPassedLogin, MailToken, SetPassword, CommitDeletion, BreakDeadlock, Abort
    <2> QED
      BY <2>1, <1>3
  <1>12. CASE Restart
    <2>1. \A s \in Requests : req'[s] = Idle
      BY <1>12 DEF Restart
    <2> QED
      BY <2>1, IdlePath DEF PathOK
  <1>13. CASE Tick \/ UNCHANGED vars
    <2>1. UNCHANGED <<resetToken, mailed, minted, req>>
      BY <1>13 DEF Tick, vars, store
    <2> QED
      BY <2>1 DEF PathOK
  <1> QED
    BY <1>4, <1>5, <1>6, <1>7, <1>8, <1>9, <1>10, <1>11, <1>12, <1>13 DEF Next, Proceed

LEMMA StepKnown == ASSUME PInv, [Next]_vars PROVE MintedOK' /\ OlderTokensRetired'
  <1> USE DEF PInv
  <1>0. Aging /\ \A t \in Tokens : resetToken'[t] # Nil => t \in minted'
    BY StepAges
  <1>1. ASSUME known' = known,
               \A t \in Tokens : resetToken'[t] # Nil => resetToken[t] # Nil
        PROVE  MintedOK' /\ OlderTokensRetired'
    <2>1. MintedOK'
      BY <1>0, <1>1 DEF MintedOK, Aging
    <2>2. \A t \in Tokens : known[t] \subseteq minted
      BY DEF MintedOK
    <2>3. ASSUME NEW t \in Tokens, resetToken'[t] # Nil, NEW o \in known[t], resetToken'[o] # Nil
          PROVE  resetToken'[o].used
      BY <1>0, <1>1, <2>2, <2>3 DEF OlderTokensRetired, Aging
    <2> QED
      BY <1>1, <2>1, <2>3 DEF OlderTokensRetired
  <1>2. ASSUME NEW r \in Requests, InsertToken(r), ~Abort(r) PROVE MintedOK' /\ OlderTokensRetired'
    <2> PICK t \in Tokens \ minted :
           /\ minted' = minted \cup {t}
           /\ known' = [known EXCEPT ![t] = req[r].known]
           /\ \A o \in Tokens \ {t} : resetToken'[o] # Nil =>
                /\ resetToken[o] # Nil
                /\ resetToken'[o].used <=> (resetToken[o].used \/ o \in req[r].held)
      BY <1>2, InsertAges
    <2>1. /\ req[r].at = "retire" /\ req[r].todo = {} /\ PathOK(req[r])
          /\ known \in [Tokens -> SUBSET Tokens] /\ minted \subseteq Tokens
      BY <1>2 DEF InsertToken, TInv, TypeOK
    <2>2. known'[t] = req[r].known /\ \A x \in Tokens \ {t} : known'[x] = known[x]
      BY <2>1
    <2>3. \A o \in req[r].known : o \in minted /\ (resetToken[o] # Nil => (resetToken[o].used \/ o \in req[r].held))
      BY <2>1 DEF PathOK
    <2>4. MintedOK'
      BY <1>0, <2>2, <2>3 DEF MintedOK
    <2>5. ASSUME NEW x \in Tokens, resetToken'[x] # Nil, NEW o \in known'[x], resetToken'[o] # Nil
          PROVE  resetToken'[o].used
      <3>1. CASE x = t
        BY <2>1, <2>2, <2>3, <2>5, <3>1
      <3>2. CASE x # t
        <4>1. o \in known[x] /\ o \in minted /\ resetToken[x] # Nil
          BY <2>2, <2>5, <3>2 DEF MintedOK
        <4>2. o \in Tokens \ {t} /\ resetToken[o] # Nil
          BY <2>1, <2>5, <4>1
        <4>3. resetToken[o].used
          BY <4>1, <4>2 DEF OlderTokensRetired
        <4> QED
          BY <2>5, <4>2, <4>3
      <3> QED
        BY <3>1, <3>2
    <2> QED
      BY <2>4, <2>5 DEF OlderTokensRetired
  <1>3. ASSUME NEW r \in Requests, SetPassword(r), ~Abort(r) PROVE MintedOK' /\ OlderTokensRetired'
    <2>1. resetToken' = MarkUsed(req[r].held) /\ known' = known
      BY <1>3 DEF SetPassword
    <2>2. \A t \in Tokens : resetToken'[t] # Nil => resetToken[t] # Nil
      BY <2>1, HeldRows, MarkUsedAges
    <2> QED
      BY <1>1, <2>1, <2>2
  <1>4. ASSUME NEW r \in Requests, CommitDeletion(r) PROVE MintedOK' /\ OlderTokensRetired'
    <2>1. known' = known /\ \A t \in Tokens : resetToken'[t] # Nil => resetToken[t] # Nil
      BY <1>4 DEF CommitDeletion
    <2> QED
      BY <1>1, <2>1
  <1>5. CASE UNCHANGED <<resetToken, known>>
    BY <1>1, <1>5
  <1>6. ASSUME NEW r \in Requests, Arrive(r) \/ Proceed(r) \/ BreakDeadlock(r)
        PROVE  \/ UNCHANGED <<resetToken, known>>
               \/ InsertToken(r) /\ ~Abort(r)
               \/ SetPassword(r) /\ ~Abort(r)
               \/ CommitDeletion(r)
    <2>1. Arrive(r) \/ BreakDeadlock(r) \/ Abort(r) => UNCHANGED <<resetToken, known>>
      BY DEF Arrive, Login, DeleteAccount, RequestReset, CompleteReset, BreakDeadlock, Abort, store
    <2>2. CollectUnused(r) \/ RetireToken(r) \/ MarkTokenUsed(r) \/ ReadTokenOwner(r)
          \/ DeleteUserRow(r) \/ CascadeToToken(r) \/ MailToken(r) => UNCHANGED <<resetToken, known>>
      BY DEF CollectUnused, RetireToken, MarkTokenUsed, ReadTokenOwner, DeleteUserRow, CascadeToToken, MailToken, store
    <2>3. (CommitFailedLogin(r) \/ CommitPassedLogin(r)) /\ ~Abort(r) => UNCHANGED <<resetToken, known>>
      BY DEF CommitFailedLogin, CommitPassedLogin
    <2> QED
      BY <1>6, <2>1, <2>2, <2>3 DEF Proceed
  <1>7. Restart \/ Tick \/ UNCHANGED vars => UNCHANGED <<resetToken, known>>
    BY DEF Restart, Tick, vars, store
  <1> QED
    BY <1>2, <1>3, <1>4, <1>5, <1>6, <1>7 DEF Next

LEMMA InitPInv == Init => PInv
  <1> SUFFICES ASSUME Init PROVE PInv
    OBVIOUS
  <1>1. \A r \in Requests : PathOK(req[r])
    BY IdlePath DEF Init
  <1> QED
    BY <1>1, InitTInv DEF PInv, Init, MintedOK, OlderTokensRetired

LEMMA PInvAlways == Spec => []PInv
  <1>1. PInv /\ [Next]_vars => PInv'
    <2> SUFFICES ASSUME PInv, [Next]_vars PROVE PInv'
      OBVIOUS
    <2> QED
      BY StepTInv, StepPath, StepKnown DEF PInv
  <1> QED
    BY <1>1, InitPInv, PTL DEF Spec

\* Whatever overlaps, the tokens a reset request found when it looked are of no
\* use once its own exists (request_password_reset).
THEOREM OlderTokensVoid == Spec => []OlderTokensRetired
  <1>1. PInv => OlderTokensRetired
    BY DEF PInv
  <1> QED
    BY <1>1, PInvAlways, PTL

\* The account whose password a step changes had a token, now used.
Paid(u) ==
  Exists(u) /\ Exists(u)' /\ userRow[u].password # userRow'[u].password =>
    \E t \in mailed : /\ resetToken'[t] # Nil
                      /\ resetToken'[t].owner = u
                      /\ resetToken'[t].used

LEMMA StepPaid == ASSUME PInv, [Next]_vars, NEW u \in Users PROVE Paid(u)
  <1> USE DEF PInv, Paid
  <1>1. ASSUME NEW r \in Requests, SetPassword(r), ~Abort(r) PROVE Paid(u)
    <2> DEFINE me == req[r]
    <2>1. me.at = "setPassword" /\ PathOK(me) /\ LocalOK(me) /\ resetToken' = MarkUsed(me.held)
      BY <1>1 DEF SetPassword, TInv
    <2>2. CASE me.user = u
      <3> PICK t \in Tokens : t = me.token
        BY <2>1 DEF LocalOK
      <3>1. me.held = {t} /\ t \in mailed /\ (resetToken[t] # Nil => resetToken[t].owner = u)
        BY <2>1, <2>2 DEF PathOK
      <3>2. {t} \in SUBSET Tokens /\ \A o \in {t} : resetToken[o] # Nil
        BY <3>1, HeldRows
      <3>3. MarkUsed({t})[t] # Nil
        BY <3>2, MarkUsedOwned
      <3>4. MarkUsed({t})[t].owner = u /\ MarkUsed({t})[t].used
        BY <3>1, <3>2, <3>3, MarkUsedAges
      <3> QED
        BY <2>1, <3>1, <3>3, <3>4
    <2>3. CASE me.user # u
      <3>1. userRow'[u] = userRow[u]
        BY <1>1, <2>3 DEF SetPassword, TInv, TypeOK
      <3> QED
        BY <3>1
    <2> QED
      BY <2>2, <2>3
  <1>2. ASSUME NEW r \in Requests, (CommitFailedLogin(r) \/ CommitPassedLogin(r)) /\ ~Abort(r) PROVE Paid(u)
    <2> DEFINE me == req[r]
    <2>1. me.user \in Users /\ Exists(me.user) /\ me.seen \in Lockout /\ me.clock \in Nat
      BY <1>2 DEF CommitFailedLogin, CommitPassedLogin, TInv, TypeOK, LocalOK, Local
    <2>2. userRow[me.user] \in UserRow
      BY <2>1 DEF TInv, TypeOK, Exists
    <2>3. userRow' \in {[userRow EXCEPT ![me.user] = Failed(userRow[me.user], me.seen, me.clock)],
                        [userRow EXCEPT ![me.user] = Cleared(userRow[me.user], me.seen)]}
      BY <1>2 DEF CommitFailedLogin, CommitPassedLogin
    <2>4. /\ Failed(userRow[me.user], me.seen, me.clock).password = userRow[me.user].password
          /\ Cleared(userRow[me.user], me.seen).password = userRow[me.user].password
      BY <2>2 DEF Failed, Cleared, UserRow
    <2>5. userRow \in [Users -> UserRow \cup {Nil}]
      BY DEF TInv, TypeOK
    <2>6. userRow'[u].password = userRow[u].password
      BY <2>1, <2>3, <2>4, <2>5
    <2> QED
      BY <2>6
  <1>3. ASSUME NEW r \in Requests, CommitDeletion(r) PROVE Paid(u)
    <2>1. Exists(u)' => userRow'[u] = userRow[u]
      BY <1>3 DEF CommitDeletion, Exists, TInv, TypeOK
    <2> QED
      BY <2>1
  <1>4. ASSUME NEW r \in Requests, Arrive(r) \/ Proceed(r) \/ BreakDeadlock(r)
        PROVE  \/ userRow' = userRow
               \/ SetPassword(r) /\ ~Abort(r)
               \/ (CommitFailedLogin(r) \/ CommitPassedLogin(r)) /\ ~Abort(r)
               \/ CommitDeletion(r)
    <2>1. Arrive(r) \/ BreakDeadlock(r) \/ Abort(r) => userRow' = userRow
      BY DEF Arrive, Login, DeleteAccount, RequestReset, CompleteReset, BreakDeadlock, Abort, store
    <2>2. CollectUnused(r) \/ RetireToken(r) \/ MarkTokenUsed(r) \/ ReadTokenOwner(r) \/ InsertToken(r)
          \/ DeleteUserRow(r) \/ CascadeToToken(r) \/ MailToken(r) => userRow' = userRow
      BY <2>1 DEF CollectUnused, RetireToken, MarkTokenUsed, ReadTokenOwner, InsertToken, DeleteUserRow, CascadeToToken, MailToken, store
    <2> QED
      BY <1>4, <2>1, <2>2 DEF Proceed
  <1>5. Restart \/ Tick \/ UNCHANGED vars => userRow' = userRow
    BY DEF Restart, Tick, vars, store
  <1>6. CASE userRow' = userRow
    BY <1>6
  <1> QED
    BY <1>1, <1>2, <1>3, <1>4, <1>5, <1>6 DEF Next

\* Only the commit that uses up a mailed token of the account changes its
\* password, although the token was checked four statements before
\* (complete_password_reset).
THEOREM PasswordsPaid == Spec => PasswordPaidByToken
  <1>1. PInv /\ [Next]_vars => [\A u \in Users : Paid(u)]_vars
    BY StepPaid
  <1> QED
    BY <1>1, PInvAlways, PTL DEF Spec, PasswordPaidByToken, Paid
-----------------------------------------------------------------------------
(* Row locks and who waits for whom.                                       *)

\* Rows stay locked between two statements only at four steps, and they are the
\* user's own; a flush goes through its tokens in ascending order.
HeldOK(me) ==
  /\ me.held # {} => me.at \in {"retire", "readOwner", "setPassword", "cascade"}
  /\ \A t \in me.held : resetToken[t].owner = me.user
  /\ me.at = "retire" =>
       \A o \in me.todo :
         /\ o \in minted
         /\ resetToken[o] # Nil => resetToken[o].owner = me.user
         /\ \A t \in me.held : t < o

\* An account is being deleted by one request at most.
OneCascade ==
  \A r, s \in Requests :
    req[r].at = "cascade" /\ req[s].at = "cascade" /\ req[r].user = req[s].user => r = s

WInv == PInv /\ (\A r \in Requests : HeldOK(req[r])) /\ OneCascade /\ IsFiniteSet(minted)

LEMMA HeldStays ==
  ASSUME NEW l \in Local, HeldOK(l), Aging, MintedOK,
         \A t \in l.held : resetToken[t] # Nil /\ resetToken'[t] # Nil
  PROVE  HeldOK(l)'
  <1>1. l.held \subseteq Tokens
    BY DEF Local
  <1>2. l.held \subseteq minted
    BY <1>1 DEF MintedOK
  <1> QED
    BY <1>2 DEF HeldOK, Aging

\* What the request at work has locked, when the others stay where they are.
LEMMA OwnHeld ==
  ASSUME WInv, TInv', Aging, NEW r \in Requests, NEW l \in Local, Goto(r, l), HeldOK(l)'
  PROVE  \A s \in Requests : HeldOK(req[s])'
  <1> SUFFICES ASSUME NEW s \in Requests PROVE HeldOK(req[s])'
    OBVIOUS
  <1>1. CASE s = r
    <2>1. req'[s] = l
      BY <1>1 DEF Goto, WInv, PInv, TInv, TypeOK
    <2> QED
      BY <2>1 DEF HeldOK
  <1>2. CASE s # r
    <2> PICK m \in Local : m = req[s]
      BY DEF WInv, PInv, TInv, TypeOK
    <2>1. req'[s] = m /\ HeldOK(m) /\ MintedOK
      BY <1>2 DEF Goto, WInv, PInv, TInv, TypeOK
    <2>2. \A t \in m.held : resetToken[t] # Nil /\ resetToken'[t] # Nil
      BY <2>1 DEF WInv, PInv, TInv, LocksOK
    <2>3. HeldOK(m)'
      BY <2>1, <2>2, HeldStays
    <2> QED
      BY <2>1, <2>3 DEF HeldOK
  <1> QED
    BY <1>1, <1>2

\* Holding nothing, and with nothing to flush, a request has nothing to show.
LEMMA BareHeld ==
  ASSUME WInv, TInv', Aging, NEW r \in Requests, NEW l \in Local, Goto(r, l), l.held = {}, l.at # "retire"
  PROVE  \A s \in Requests : HeldOK(req[s])'
  <1>1. HeldOK(l)'
    BY DEF HeldOK
  <1> QED
    BY <1>1, OwnHeld

LEMMA IdleHeld ==
  ASSUME WInv, TInv', Aging, NEW r \in Requests, Finish(r)
  PROVE  \A s \in Requests : HeldOK(req[s])'
  <1>1. Goto(r, Idle) /\ Idle.at # "retire"
    BY DEF Finish, Goto, Idle
  <1> QED
    BY <1>1, IdleOK, BareHeld

\* The steps that write nothing and leave their request with locks or a flush.
LEMMA LockHeld ==
  ASSUME WInv, NEW r \in Requests,
         \/ CollectUnused(r) \/ RetireToken(r) \/ MarkTokenUsed(r) \/ ReadTokenOwner(r)
         \/ DeleteUserRow(r) \/ CascadeToToken(r)
  PROVE  \/ Finish(r)
         \/ \E l \in Local : /\ Goto(r, l) /\ HeldOK(l)
                             /\ l.at = "cascade" => DeleteUserRow(r) \/ CascadeToToken(r)
  <1> DEFINE me == req[r]
  <1>0. me \in Local /\ LocalOK(me) /\ HeldOK(me) /\ PathOK(me) /\ MintedOK
    BY DEF WInv, PInv, TInv, TypeOK
  <1>1. CASE CollectUnused(r)
    <2>1. me.at = "collect" /\ Unused(me.user) \subseteq TokensOf(me.user) /\ TokensOf(me.user) \subseteq Tokens
      BY <1>1 DEF CollectUnused, Unused, TokensOf
    <2> PICK l \in Local : l = [me EXCEPT !.at = "retire", !.todo = Unused(me.user), !.known = TokensOf(me.user)]
      BY <1>0, <2>1 DEF Local, Steps
    <2>2. l.at = "retire" /\ l.todo = Unused(me.user) /\ l.held = me.held /\ l.user = me.user
      BY <1>0 DEF Local
    <2>3. me.held = {}
      BY <1>0, <2>1 DEF HeldOK
    <2>4. \A o \in l.todo : o \in minted /\ resetToken[o].owner = me.user
      BY <1>0, <2>1, <2>2 DEF TokensOf, MintedOK
    <2>5. HeldOK(l)
      BY <2>2, <2>3, <2>4 DEF HeldOK
    <2> QED
      BY <1>1, <2>2, <2>5 DEF CollectUnused
  <1>2. CASE RetireToken(r)
    <2> PICK t \in me.todo :
          /\ First(t, me.todo)
          /\ IF resetToken[t] = Nil
             THEN Finish(r)
             ELSE Goto(r, [me EXCEPT !.todo = @ \ {t}, !.held = @ \cup {t}])
      BY <1>2 DEF RetireToken
    <2>1. me.at = "retire" /\ t \in Tokens /\ me.todo \subseteq Nat
      BY <1>0, <1>2, TokensAssumption DEF RetireToken, Local
    <2>2. CASE resetToken[t] # Nil
      <3> PICK l \in Local : l = [me EXCEPT !.todo = @ \ {t}, !.held = @ \cup {t}]
        BY <1>0, <2>1 DEF Local
      <3>1. l.at = "retire" /\ l.todo = me.todo \ {t} /\ l.held = me.held \cup {t} /\ l.user = me.user
        BY <1>0, <2>1 DEF Local
      <3>2. resetToken[t].owner = me.user
        BY <1>0, <2>1, <2>2 DEF HeldOK
      <3>3. \A o \in l.todo : t < o
        BY <2>1, <3>1 DEF First
      <3>4. HeldOK(l)
        BY <1>0, <2>1, <3>1, <3>2, <3>3 DEF HeldOK
      <3> QED
        BY <2>2, <3>1, <3>4
    <2> QED
      BY <2>2
  <1>3. CASE MarkTokenUsed(r)
    <2>1. me.at = "markUsed" /\ me.token \in Tokens
      BY <1>0, <1>3 DEF MarkTokenUsed, LocalOK
    <2>2. CASE resetToken[me.token] # Nil
      <3> PICK l \in Local : l = [me EXCEPT !.at = "readOwner", !.held = {me.token}]
        BY <1>0, <2>1 DEF Local, Steps
      <3>1. l.at = "readOwner" /\ l.held = {me.token} /\ l.user = me.user
        BY <1>0 DEF Local
      <3>2. HeldOK(l)
        BY <1>0, <2>1, <2>2, <3>1 DEF HeldOK, PathOK
      <3> QED
        BY <1>3, <2>2, <3>1, <3>2 DEF MarkTokenUsed
    <2> QED
      BY <1>3, <2>2 DEF MarkTokenUsed
  <1>4. CASE ReadTokenOwner(r) /\ ~Finish(r)
    <2>1. me.at = "readOwner" /\ me.user \in Users /\ Exists(me.user)
      BY <1>0, <1>4 DEF ReadTokenOwner, LocalOK
    <2>2. LockoutOf(me.user) \in Lockout
      BY <2>1 DEF LockoutOf, Lockout, Exists, WInv, PInv, TInv, TypeOK, UserRow
    <2> PICK l \in Local : l = [me EXCEPT !.at = "setPassword", !.seen = LockoutOf(me.user)]
      BY <1>0, <2>2 DEF Local, Steps
    <2>3. l.at = "setPassword" /\ l.held = me.held /\ l.user = me.user
      BY <1>0 DEF Local
    <2>4. HeldOK(l)
      BY <1>0, <2>1, <2>3 DEF HeldOK
    <2> QED
      BY <1>4, <2>1, <2>3, <2>4 DEF ReadTokenOwner
  <1>5. CASE DeleteUserRow(r) /\ ~Finish(r)
    <2> PICK l \in Local : l = [me EXCEPT !.at = "cascade"]
      BY <1>0 DEF Local, Steps
    <2>1. l.at = "cascade" /\ l.held = me.held /\ me.held = {}
      BY <1>0, <1>5 DEF Local, DeleteUserRow, LocalOK
    <2>2. HeldOK(l)
      BY <2>1 DEF HeldOK
    <2> QED
      BY <1>5, <2>2 DEF DeleteUserRow
  <1>6. CASE CascadeToToken(r)
    <2> PICK t \in TokensOf(me.user) : Goto(r, [me EXCEPT !.held = @ \cup {t}])
      BY <1>6 DEF CascadeToToken
    <2>1. t \in Tokens /\ resetToken[t].owner = me.user /\ me.at = "cascade"
      BY <1>6 DEF TokensOf, CascadeToToken
    <2> PICK l \in Local : l = [me EXCEPT !.held = @ \cup {t}]
      BY <1>0, <2>1 DEF Local
    <2>2. l.at = "cascade" /\ l.held = me.held \cup {t} /\ l.user = me.user
      BY <1>0, <2>1 DEF Local
    <2>3. HeldOK(l)
      BY <1>0, <2>1, <2>2 DEF HeldOK
    <2> QED
      BY <1>6, <2>3
  <1> QED
    BY <1>1, <1>2, <1>3, <1>4, <1>5, <1>6

LEMMA ArriveBare ==
  ASSUME WInv, NEW r \in Requests, Arrive(r)
  PROVE  \E l \in Local : Goto(r, l) /\ l.held = {} /\ l.at \notin {"retire", "cascade"}
  <1>1. ASSUME NEW u \in Users, NEW p \in Passwords, Login(r, u, p)
        PROVE  \E l \in Local : Goto(r, l) /\ l.held = {} /\ l.at \notin {"retire", "cascade"}
    <2>1. LockoutOf(u) \in Lockout
      BY <1>1 DEF Login, LockoutOf, Lockout, Exists, WInv, PInv, TInv, TypeOK, UserRow
    <2> DEFINE l == [Idle EXCEPT !.at = IF p = userRow[u].password THEN "loginPassed" ELSE "loginFailed",
                                 !.user = u, !.seen = LockoutOf(u), !.clock = now]
    <2>2. l \in Local /\ l.held = {} /\ l.at \notin {"retire", "cascade"}
      BY <2>1 DEF Idle, Local, Steps, WInv, PInv, TInv, TypeOK
    <2>3. Goto(r, l)
      BY <1>1 DEF Login, Begin, Goto
    <2> QED
      BY <2>2, <2>3
  <1>2. ASSUME NEW u \in Users, NEW p \in Passwords, DeleteAccount(r, u, p)
        PROVE  \E l \in Local : Goto(r, l) /\ l.held = {} /\ l.at \notin {"retire", "cascade"}
    <2> DEFINE l == [Idle EXCEPT !.at = "revoke", !.user = u]
    <2>1. l \in Local /\ l.held = {} /\ l.at \notin {"retire", "cascade"} /\ Goto(r, l)
      BY <1>2 DEF DeleteAccount, Begin, Goto, Idle, Local, Steps
    <2> QED
      BY <2>1
  <1>3. ASSUME NEW u \in Users, RequestReset(r, u)
        PROVE  \E l \in Local : Goto(r, l) /\ l.held = {} /\ l.at \notin {"retire", "cascade"}
    <2> DEFINE l == [Idle EXCEPT !.at = "collect", !.user = u]
    <2>1. l \in Local /\ l.held = {} /\ l.at \notin {"retire", "cascade"} /\ Goto(r, l)
      BY <1>3 DEF RequestReset, Begin, Goto, Idle, Local, Steps
    <2> QED
      BY <2>1
  <1>4. ASSUME NEW t \in Tokens, NEW p \in Passwords, CompleteReset(r, t, p)
        PROVE  \E l \in Local : Goto(r, l) /\ l.held = {} /\ l.at \notin {"retire", "cascade"}
    <2> PICK u \in Users : u = resetToken[t].owner
      BY <1>4 DEF CompleteReset, Live, WInv, PInv, TInv, TypeOK, TokenRow
    <2> DEFINE l == [Idle EXCEPT !.at = "markUsed", !.user = u, !.token = t, !.given = p]
    <2>1. l \in Local /\ l.held = {} /\ l.at \notin {"retire", "cascade"} /\ Goto(r, l)
      BY <1>4 DEF CompleteReset, Begin, Goto, Idle, Local, Steps
    <2> QED
      BY <2>1
  <1> QED
    BY <1>1, <1>2, <1>3, <1>4 DEF Arrive

LEMMA InsertBare ==
  ASSUME WInv, NEW r \in Requests, InsertToken(r), ~Finish(r)
  PROVE  \E l \in Local : Goto(r, l) /\ l.held = {} /\ l.at = "mail"
  <1>1. TInv /\ ~Abort(r) /\ req[r].user \in Users
    BY DEF WInv, PInv, TInv, LocalOK, InsertToken, Abort
  <1> PICK t \in Tokens : Goto(r, [Idle EXCEPT !.at = "mail", !.user = req[r].user, !.token = t])
    BY <1>1, InsertAges
  <1> DEFINE l == [Idle EXCEPT !.at = "mail", !.user = req[r].user, !.token = t]
  <1>2. l \in Local /\ l.held = {} /\ l.at = "mail" /\ Goto(r, l)
    BY <1>1 DEF Idle, Local, Steps
  <1> QED
    BY <1>2

\* What a step of one request makes of its local state.
LEMMA StepOf ==
  ASSUME NEW r \in Requests, Arrive(r) \/ Proceed(r) \/ BreakDeadlock(r)
  PROVE  \/ Arrive(r)
         \/ Finish(r)
         \/ InsertToken(r)
         \/ CollectUnused(r) \/ RetireToken(r) \/ MarkTokenUsed(r) \/ ReadTokenOwner(r)
         \/ DeleteUserRow(r) \/ CascadeToToken(r)
  <1>1. CommitFailedLogin(r) \/ CommitPassedLogin(r) \/ MailToken(r) \/ SetPassword(r) \/ CommitDeletion(r)
        \/ BreakDeadlock(r) => Finish(r)
    BY DEF CommitFailedLogin, CommitPassedLogin, MailToken, SetPassword, CommitDeletion, BreakDeadlock, Abort
  <1> QED
    BY <1>1 DEF Proceed

LEMMA StepHeld == ASSUME WInv, [Next]_vars PROVE \A s \in Requests : HeldOK(req[s])'
  <1>0. TInv' /\ Aging
    BY StepTInv, StepAges DEF WInv, PInv
  <1>1. ASSUME NEW r \in Requests, Finish(r) PROVE \A s \in Requests : HeldOK(req[s])'
    BY <1>0, <1>1, IdleHeld
  <1>2. ASSUME NEW r \in Requests, Arrive(r) PROVE \A s \in Requests : HeldOK(req[s])'
    BY <1>0, <1>2, ArriveBare, BareHeld
  <1>3. ASSUME NEW r \in Requests, InsertToken(r), ~Finish(r) PROVE \A s \in Requests : HeldOK(req[s])'
    <2> PICK l \in Local : Goto(r, l) /\ l.held = {} /\ l.at = "mail"
      BY <1>3, InsertBare
    <2> QED
      BY <1>0, BareHeld
  <1>4. ASSUME NEW r \in Requests, ~Finish(r),
               \/ CollectUnused(r) \/ RetireToken(r) \/ MarkTokenUsed(r) \/ ReadTokenOwner(r)
               \/ DeleteUserRow(r) \/ CascadeToToken(r)
        PROVE  \A s \in Requests : HeldOK(req[s])'
    <2>1. UNCHANGED <<resetToken, minted>>
      BY <1>4 DEF CollectUnused, RetireToken, MarkTokenUsed, ReadTokenOwner, DeleteUserRow, CascadeToToken, store
    <2> PICK l \in Local : Goto(r, l) /\ HeldOK(l)
      BY <1>4, LockHeld
    <2>2. HeldOK(l)'
      BY <2>1 DEF HeldOK
    <2> QED
      BY <1>0, <2>2, OwnHeld
  <1>5. CASE Restart
    <2>1. \A s \in Requests : req'[s] = Idle
      BY <1>5 DEF Restart
    <2> QED
      BY <2>1 DEF HeldOK, Idle
  <1>6. CASE Tick \/ UNCHANGED vars
    <2>1. UNCHANGED <<resetToken, minted, req>>
      BY <1>6 DEF Tick, vars, store
    <2> QED
      BY <2>1 DEF HeldOK, WInv
  <1> QED
    BY <1>1, <1>2, <1>3, <1>4, <1>5, <1>6, StepOf DEF Next

\* A step of a request other than its own DELETE starts no cascade.
LEMMA StepOneCascade == ASSUME WInv, [Next]_vars PROVE OneCascade'
  <1>0. req \in [Requests -> Local] /\ OneCascade
    BY DEF WInv, PInv, TInv, TypeOK
  <1>1. ASSUME NEW r \in Requests, NEW l \in Local, Goto(r, l),
               l.at = "cascade" => req[r].at = "cascade" /\ l.user = req[r].user
        PROVE  OneCascade'
    BY <1>0, <1>1 DEF OneCascade, Goto
  <1>2. ASSUME NEW r \in Requests, Finish(r) PROVE OneCascade'
    <2>1. Goto(r, Idle) /\ Idle.at # "cascade"
      BY <1>2 DEF Finish, Goto, Idle
    <2> QED
      BY <1>1, <2>1, IdleOK
  <1>3. ASSUME NEW r \in Requests, Arrive(r) PROVE OneCascade'
    BY <1>1, <1>3, ArriveBare
  <1>4. ASSUME NEW r \in Requests, InsertToken(r), ~Finish(r) PROVE OneCascade'
    <2> PICK l \in Local : Goto(r, l) /\ l.held = {} /\ l.at = "mail"
      BY <1>4, InsertBare
    <2> QED
      BY <1>1
  <1>5. ASSUME NEW r \in Requests, CollectUnused(r) \/ RetireToken(r) \/ MarkTokenUsed(r) \/ ReadTokenOwner(r)
        PROVE  OneCascade'
    <2>1. req[r].at \notin {"revoke", "cascade"}
      BY <1>5 DEF CollectUnused, RetireToken, MarkTokenUsed, ReadTokenOwner
    <2>2. CASE Finish(r)
      BY <1>2, <2>2
    <2>3. CASE ~Finish(r)
      <3> PICK l \in Local : Goto(r, l) /\ l.at # "cascade"
        BY <1>5, <2>1, <2>3, LockHeld DEF DeleteUserRow, CascadeToToken
      <3> QED
        BY <1>1
    <2> QED
      BY <2>2, <2>3
  <1>6. ASSUME NEW r \in Requests, CascadeToToken(r) PROVE OneCascade'
    <2>1. \A s \in Requests : req'[s].at = req[s].at /\ req'[s].user = req[s].user
      BY <1>0, <1>6 DEF CascadeToToken, Goto, Local
    <2> QED
      BY <1>0, <2>1 DEF OneCascade
  <1>7. ASSUME NEW r \in Requests, DeleteUserRow(r), ~Finish(r) PROVE OneCascade'
    <2>1. req[r] \in Local /\ req[r].at = "revoke" /\ WaitsFor(r) = {} /\ Goto(r, [req[r] EXCEPT !.at = "cascade"])
      BY <1>0, <1>7 DEF DeleteUserRow
    <2>2. req'[r].user = req[r].user /\ \A s \in Requests \ {r} : req'[s] = req[s]
      BY <1>0, <2>1 DEF Goto, Local
    <2>3. \A s \in Requests \ {r} : ~(req[s].at = "cascade" /\ req[s].user = req[r].user)
      BY <2>1 DEF WaitsFor, WantsUser
    <2> QED
      BY <1>0, <2>2, <2>3 DEF OneCascade
  <1>8. CASE Restart
    BY <1>8 DEF Restart, OneCascade, Idle
  <1>9. CASE Tick \/ UNCHANGED vars
    <2>1. req' = req
      BY <1>9 DEF Tick, vars
    <2> QED
      BY <1>0, <2>1 DEF OneCascade
  <1> QED
    BY <1>2, <1>3, <1>4, <1>5, <1>6, <1>7, <1>8, <1>9, StepOf DEF Next

LEMMA StepFinite == ASSUME WInv, [Next]_vars PROVE IsFiniteSet(minted')
  <1>0. IsFiniteSet(minted)
    BY DEF WInv
  <1>1. minted' = minted \/ \E t \in Tokens : minted' = minted \cup {t}
    <2>1. ASSUME NEW r \in Requests, Arrive(r) \/ Proceed(r) \/ BreakDeadlock(r), ~InsertToken(r)
          PROVE  minted' = minted
      <3>1. Arrive(r) \/ BreakDeadlock(r) \/ Abort(r) => minted' = minted
        BY DEF Arrive, Login, DeleteAccount, RequestReset, CompleteReset, BreakDeadlock, Abort, store
      <3>2. CollectUnused(r) \/ RetireToken(r) \/ MarkTokenUsed(r) \/ ReadTokenOwner(r) \/ DeleteUserRow(r)
            \/ CascadeToToken(r) \/ MailToken(r) \/ CommitDeletion(r) => minted' = minted
        BY DEF CollectUnused, RetireToken, MarkTokenUsed, ReadTokenOwner, DeleteUserRow, CascadeToToken,
               MailToken, CommitDeletion, store
      <3>3. CommitFailedLogin(r) \/ CommitPassedLogin(r) \/ SetPassword(r) => minted' = minted
        BY <3>1 DEF CommitFailedLogin, CommitPassedLogin, SetPassword
      <3> QED
        BY <2>1, <3>1, <3>2, <3>3 DEF Proceed
    <2>2. ASSUME NEW r \in Requests, InsertToken(r)
          PROVE  minted' = minted \/ \E t \in Tokens : minted' = minted \cup {t}
      BY <2>2 DEF InsertToken, Abort, store
    <2>3. Restart \/ Tick \/ UNCHANGED vars => minted' = minted
      BY DEF Restart, Tick, vars, store
    <2> QED
      BY <2>1, <2>2, <2>3 DEF Next
  <1>2. ASSUME NEW t \in Tokens PROVE IsFiniteSet(minted \cup {t})
    BY <1>0, FS_AddElement
  <1> QED
    BY <1>0, <1>1, <1>2

LEMMA WInvAlways == Spec => []WInv
  <1>1. Init => WInv
    <2>1. Init => \A r \in Requests : req[r] = Idle
      BY DEF Init
    <2> QED
      BY <2>1, InitPInv, FS_EmptySet DEF Init, WInv, HeldOK, OneCascade, Idle
  <1>2. WInv /\ [Next]_vars => WInv'
    <2> SUFFICES ASSUME WInv, [Next]_vars PROVE WInv'
      OBVIOUS
    <2>1. PInv'
      BY StepTInv, StepPath, StepKnown DEF WInv, PInv
    <2> QED
      BY <2>1, StepHeld, StepOneCascade, StepFinite DEF WInv
  <1> QED
    BY <1>1, <1>2, PTL DEF Spec

\* A finite set of numbers has a greatest: the set of greater elements is
\* smallest for one of them.
LEMMA Greatest ==
  ASSUME NEW S \in SUBSET Nat, IsFiniteSet(S), S # {}
  PROVE  \E t \in S : \A o \in S : o <= t
  <1> DEFINE Above(t) == {o \in S : t < o}
             F == {Above(t) : t \in S}
  <1>1. \A t \in S : IsFiniteSet(Above(t))
    BY FS_Subset
  <1>2. F \subseteq FiniteSubsetsOf(S) /\ F # {}
    BY <1>1 DEF FiniteSubsetsOf
  <1>3. PICK A \in F : \A B \in F : ~(<<B, A>> \in StrictSubsetOrdering(S))
    BY <1>2, FS_StrictSubsetOrderingWellFounded, WFMin
  <1> PICK t \in S : A = Above(t)
    OBVIOUS
  <1>4. ASSUME NEW o \in S, t < o PROVE FALSE
    <2>1. Above(o) \in F
      OBVIOUS
    <2>3. \A x \in S : o < x => t < x
      BY <1>4
    <2>4. ~(o < o)
      OBVIOUS
    <2>2. <<Above(o), A>> \in StrictSubsetOrdering(S)
      BY <1>4, <2>3, <2>4, Zenon DEF StrictSubsetOrdering
    <2> QED
      BY <1>3, <2>1, <2>2
  <1> QED
    BY <1>4

\* Everybody who is at work waits, and nobody waits for one that waits for it.
AllStuck ==
  \A r \in Requests : req[r].at # "idle" =>
    WaitsFor(r) # {} /\ \A s \in WaitsFor(r) : r \notin WaitsFor(s)

\* Then whoever has locked a token is in the middle of a flush or deletes the
\* account.
LEMMA StuckHolder ==
  ASSUME WInv, AllStuck, NEW r \in Requests, NEW t \in req[r].held
  PROVE  req[r].at = "cascade" \/ (req[r].at = "retire" /\ req[r].todo # {})
  <1> DEFINE me == req[r]
  <1>1. /\ me \in Local /\ HeldOK(me) /\ PathOK(me) /\ WaitsFor(r) # {}
        /\ me.at \in {"retire", "readOwner", "setPassword", "cascade"}
        /\ t \in Tokens /\ resetToken[t] # Nil /\ resetToken[t].owner = me.user
    BY DEF WInv, PInv, TInv, TypeOK, LocksOK, Local, HeldOK, AllStuck
  <1>2. SUFFICES ASSUME me.at \in {"readOwner", "setPassword"} \/ (me.at = "retire" /\ me.todo = {}) PROVE FALSE
    BY <1>1
  <1>3. WantsTokens(r) = {}
    BY <1>2 DEF WantsTokens, First
  <1> PICK d \in Requests \ {r} : req[d].at = "cascade" /\ req[d].user = me.user
    BY <1>1, <1>3 DEF WaitsFor
  <1>4. WantsUser(r) /\ d \in WaitsFor(r)
    BY <1>1, <1>3 DEF WaitsFor
  <1>5. t \notin req[d].held
    BY DEF WInv, PInv, TInv, LocksOK
  <1>6. t \in WantsTokens(d)
    BY <1>1, <1>5 DEF WantsTokens, TokensOf
  <1>7. r \in WaitsFor(d)
    BY <1>6 DEF WaitsFor
  <1> QED
    BY <1>1, <1>4, <1>7 DEF AllStuck

\* A request in the middle of a flush that has locked a token waits for another
\* one of the kind, which has locked a greater token.
LEMMA StuckFlush ==
  ASSUME WInv, AllStuck, NEW r \in Requests, req[r].at = "retire", req[r].todo # {}, NEW t \in req[r].held
  PROVE  \E s \in Requests : \E o \in req[s].held : req[s].at = "retire" /\ req[s].todo # {} /\ t < o
  <1> DEFINE me == req[r]
  <1>1. /\ me \in Local /\ HeldOK(me) /\ WaitsFor(r) # {}
        /\ t \in Tokens /\ resetToken[t] # Nil /\ resetToken[t].owner = me.user
    BY DEF WInv, PInv, TInv, TypeOK, LocksOK, Local, HeldOK, AllStuck
  <1>2. ~WantsUser(r)
    BY DEF WantsUser
  <1> PICK s \in Requests \ {r} : req[s].held \cap WantsTokens(r) # {} /\ s \in WaitsFor(r)
    BY <1>1, <1>2 DEF WaitsFor
  <1> PICK o \in req[s].held : o \in me.todo
    BY DEF WantsTokens, First
  <1>3. t < o
    BY <1>1 DEF HeldOK
  <1>4. req[s].at # "cascade"
    <2> SUFFICES ASSUME req[s].at = "cascade" PROVE FALSE
      OBVIOUS
    <2>1. resetToken[o] # Nil /\ resetToken[o].owner = req[s].user
      BY DEF WInv, PInv, TInv, LocksOK, HeldOK
    <2>2. req[s].user = me.user
      BY <1>1, <2>1 DEF HeldOK
    <2>3. t \notin req[s].held
      BY DEF WInv, PInv, TInv, LocksOK
    <2>4. t \in WantsTokens(s)
      BY <1>1, <2>2, <2>3 DEF WantsTokens, TokensOf
    <2>5. r \in WaitsFor(s)
      BY <2>4 DEF WaitsFor
    <2> QED
      BY <1>1, <2>5 DEF AllStuck
  <1>5. req[s].at = "retire" /\ req[s].todo # {}
    BY <1>4, StuckHolder
  <1> QED
    BY <1>3, <1>5

LEMMA NotAllStuck ==
  ASSUME WInv, AllStuck, NEW r \in Requests, req[r].at # "idle"
  PROVE  FALSE
  <1> DEFINE F == {t \in minted : \E s \in Requests : req[s].at = "retire" /\ req[s].todo # {} /\ t \in req[s].held}
  <1>1. \A s \in Requests : req[s].held \subseteq minted
    BY HeldRows DEF WInv, PInv, MintedOK
  <1>2. F = {}
    <2> SUFFICES ASSUME F # {} PROVE FALSE
      OBVIOUS
    <2>1. F \in SUBSET Nat /\ IsFiniteSet(F)
      BY TokensAssumption, FS_Subset DEF WInv, PInv, TInv, TypeOK
    <2> PICK t \in F : \A o \in F : o <= t
      BY <2>1, Greatest
    <2> PICK s \in Requests : req[s].at = "retire" /\ req[s].todo # {} /\ t \in req[s].held
      OBVIOUS
    <2> PICK q \in Requests : \E o \in req[q].held : req[q].at = "retire" /\ req[q].todo # {} /\ t < o
      BY StuckFlush
    <2> PICK o \in req[q].held : t < o
      OBVIOUS
    <2>2. o \in F
      BY <1>1
    <2>3. o <= t /\ t < o /\ o \in Nat /\ t \in Nat
      BY <2>1, <2>2
    <2> QED
      BY <2>3
  <1>3. \A s \in Requests : req[s].held # {} => req[s].at = "cascade"
    BY <1>1, <1>2, StuckHolder
  <1>4. \A d \in Requests : req[d].at # "cascade"
    <2> SUFFICES ASSUME NEW d \in Requests, req[d].at = "cascade" PROVE FALSE
      OBVIOUS
    <2>1. WaitsFor(d) # {} /\ ~WantsUser(d)
      BY DEF AllStuck, WantsUser
    <2> PICK s \in Requests \ {d} : req[s].held \cap WantsTokens(d) # {}
      BY <2>1 DEF WaitsFor
    <2> PICK t \in req[s].held : t \in TokensOf(req[d].user)
      BY DEF WantsTokens
    <2>2. req[s].user = resetToken[t].owner /\ req[s].at = "cascade"
      BY <1>3 DEF WInv, HeldOK
    <2>3. resetToken[t].owner = req[d].user
      BY DEF TokensOf
    <2> QED
      BY <2>2, <2>3 DEF WInv, OneCascade
  <1>5. WaitsFor(r) = {}
    BY <1>3, <1>4 DEF WaitsFor
  <1> QED
    BY <1>5 DEF AllStuck

\* The row locks of any number of requests never stop all of them without a
\* cycle of two, which the deadlock detector ends: a flush never waits for one
\* behind it, and a deletion that somebody waits for waits for flushes only.
THEOREM NeverStandstill == Spec => []NoStandstill
  <1>1. WInv => NoStandstill
    <2> SUFFICES ASSUME WInv, NEW r \in Requests, req[r].at # "idle", ~NoStandstill PROVE FALSE
      BY DEF NoStandstill
    <2>1. AllStuck
      BY DEF NoStandstill, InCycle, AllStuck
    <2> QED
      BY <2>1, NotAllStuck
  <1> QED
    BY <1>1, WInvAlways, PTL

-----------------------------------------------------------------------------
(* What each step does to accounts and tokens.                             *)

\* A step that writes neither an account nor a token.
Quiet == UNCHANGED <<userRow, resetToken, minted, streak, changes>>

LEMMA QuietSteps ==
  ASSUME NEW r \in Requests
  PROVE  /\ Arrive(r) \/ BreakDeadlock(r) \/ Abort(r) => Quiet
         /\ CollectUnused(r) \/ RetireToken(r) \/ MailToken(r) \/ MarkTokenUsed(r) \/ ReadTokenOwner(r)
              \/ DeleteUserRow(r) \/ CascadeToToken(r) => Quiet
         /\ Restart \/ Tick \/ UNCHANGED vars => Quiet
  <1>1. Arrive(r) \/ BreakDeadlock(r) \/ Abort(r) => Quiet
    BY DEF Quiet, Arrive, Login, DeleteAccount, RequestReset, CompleteReset, BreakDeadlock, Abort, store, history
  <1>2. CollectUnused(r) \/ RetireToken(r) \/ MailToken(r) \/ MarkTokenUsed(r) \/ ReadTokenOwner(r)
          \/ DeleteUserRow(r) \/ CascadeToToken(r) => Quiet
    BY DEF Quiet, CollectUnused, RetireToken, MailToken, MarkTokenUsed, ReadTokenOwner, DeleteUserRow,
           CascadeToToken, store, history
  <1>3. Restart \/ Tick \/ UNCHANGED vars => Quiet
    BY DEF Quiet, Restart, Tick, vars, store, history
  <1> QED
    BY <1>1, <1>2, <1>3

LEMMA WhoWrites ==
  ASSUME [Next]_vars
  PROVE  \/ Quiet
         \/ \E r \in Requests : ~Abort(r) /\ (CommitFailedLogin(r) \/ CommitPassedLogin(r))
         \/ \E r \in Requests : ~Abort(r) /\ InsertToken(r)
         \/ \E r \in Requests : ~Abort(r) /\ SetPassword(r)
         \/ \E r \in Requests : CommitDeletion(r)
  <1>1. CASE Restart \/ Tick \/ UNCHANGED vars
    BY <1>1 DEF Quiet, Restart, Tick, vars, store, history
  <1>2. ASSUME NEW r \in Requests, Arrive(r) \/ Proceed(r) \/ BreakDeadlock(r)
        PROVE  \/ Quiet
               \/ ~Abort(r) /\ (CommitFailedLogin(r) \/ CommitPassedLogin(r) \/ InsertToken(r) \/ SetPassword(r))
               \/ CommitDeletion(r)
    BY <1>2, QuietSteps DEF Proceed
  <1> QED
    BY <1>1, <1>2 DEF Next

LEMMA LoginKeeps ==
  ASSUME TInv, NEW r \in Requests, ~Abort(r), CommitFailedLogin(r) \/ CommitPassedLogin(r)
  PROVE  \E u \in Users :
         /\ Exists(u) /\ userRow'[u] \in UserRow /\ userRow'[u].password = userRow[u].password
         /\ \A v \in Users : v # u => userRow'[v] = userRow[v]
         /\ UNCHANGED <<resetToken, mailed>> /\ Finish(r)
  <1> DEFINE me == req[r]
  <1> PICK u \in Users : u = me.user
    BY DEF CommitFailedLogin, CommitPassedLogin, TInv, LocalOK
  <1>1. /\ Exists(u) /\ me.seen \in Lockout /\ me.clock \in Nat
        /\ UNCHANGED <<resetToken, mailed>> /\ Finish(r)
    BY DEF CommitFailedLogin, CommitPassedLogin, TInv, TypeOK, LocalOK, Local
  <1>2. userRow[u] \in UserRow /\ userRow \in [Users -> UserRow \cup {Nil}]
    BY <1>1 DEF TInv, TypeOK, Exists
  <1>3. userRow' \in {[userRow EXCEPT ![u] = Failed(userRow[u], me.seen, me.clock)],
                      [userRow EXCEPT ![u] = Cleared(userRow[u], me.seen)]}
    BY DEF CommitFailedLogin, CommitPassedLogin
  <1>4. /\ Failed(userRow[u], me.seen, me.clock) \in UserRow
        /\ Cleared(userRow[u], me.seen) \in UserRow
    BY <1>1, <1>2, FailedType, ClearedType
  <1>5. /\ Failed(userRow[u], me.seen, me.clock).password = userRow[u].password
        /\ Cleared(userRow[u], me.seen).password = userRow[u].password
    BY <1>2 DEF Failed, Cleared, UserRow
  <1>6. /\ userRow'[u] \in UserRow /\ userRow'[u].password = userRow[u].password
        /\ \A v \in Users : v # u => userRow'[v] = userRow[v]
    BY <1>2, <1>3, <1>4, <1>5
  <1> QED
    BY <1>1, <1>6

LEMMA InsertKeeps ==
  ASSUME PInv, NEW r \in Requests, ~Abort(r), InsertToken(r)
  PROVE  \E u \in Users, t \in Tokens :
         /\ u = req[r].user /\ Exists(u) /\ UNCHANGED <<userRow, mailed>>
         /\ Goto(r, [Idle EXCEPT !.at = "mail", !.user = u, !.token = t])
         /\ resetToken[t] = Nil
         /\ resetToken'[t] # Nil /\ resetToken'[t].owner = u /\ ~resetToken'[t].used
         /\ \A o \in Tokens \ {t} :
              /\ resetToken'[o] # Nil <=> resetToken[o] # Nil
              /\ resetToken[o] # Nil => resetToken'[o].owner = resetToken[o].owner
              /\ o \in req[r].held => resetToken'[o].used
              /\ o \notin req[r].held => resetToken'[o] = resetToken[o]
  <1> DEFINE me == req[r]
             S == me.held
  <1> PICK u \in Users : u = me.user
    BY DEF InsertToken, PInv, TInv, LocalOK
  <1> DEFINE fresh == [owner |-> u, used |-> FALSE, expiresAt |-> now + ResetTtl]
  <1>1. TInv /\ S \in SUBSET Tokens /\ \A t \in S : resetToken[t] # Nil
    BY HeldRows DEF PInv
  <1> PICK t \in Tokens \ minted :
        /\ resetToken' = [MarkUsed(S) EXCEPT ![t] = fresh]
        /\ Goto(r, [Idle EXCEPT !.at = "mail", !.user = u, !.token = t])
    BY DEF InsertToken
  <1>2. Exists(u) /\ UNCHANGED <<userRow, mailed>>
    BY DEF InsertToken
  <1>3. fresh \in TokenRow
    BY <1>1, LimitsAssumption DEF TokenRow, TInv, TypeOK
  <1>4. MarkUsed(S) \in [Tokens -> TokenRow \cup {Nil}]
    BY <1>1, MarkUsedOwned
  <1>5. resetToken[t] = Nil
    BY DEF PInv, MintedOK
  <1>6. resetToken'[t] = fresh /\ fresh # Nil /\ fresh.owner = u /\ ~fresh.used
    BY <1>3, <1>4, NilAssumption
  <1>7. \A o \in Tokens \ {t} : resetToken'[o] = MarkUsed(S)[o]
    BY <1>4
  <1>8. ASSUME NEW o \in Tokens \ {t}
        PROVE  /\ resetToken'[o] # Nil <=> resetToken[o] # Nil
               /\ resetToken[o] # Nil => resetToken'[o].owner = resetToken[o].owner
               /\ o \in S => resetToken'[o].used
               /\ o \notin S => resetToken'[o] = resetToken[o]
    <2>1. /\ resetToken'[o] # Nil <=> resetToken[o] # Nil
          /\ resetToken[o] # Nil => resetToken'[o].owner = resetToken[o].owner
      BY <1>1, <1>7, MarkUsedOwned
    <2>2. o \in S => resetToken'[o].used
      BY <1>1, <1>7, <2>1, MarkUsedAges
    <2>3. o \notin S => resetToken'[o] = resetToken[o]
      BY <1>7 DEF MarkUsed
    <2> QED
      BY <2>1, <2>2, <2>3
  <1> HIDE DEF fresh
  <1> QED
    BY <1>2, <1>5, <1>6, <1>8

LEMMA SetPasswordKeeps ==
  ASSUME PInv, NEW r \in Requests, ~Abort(r), SetPassword(r)
  PROVE  \E u \in Users, t \in Tokens, p \in Passwords :
         /\ req[r].at = "setPassword" /\ t = req[r].token /\ Exists(u)
         /\ userRow'[u] \in UserRow /\ userRow'[u].password = p
         /\ \A v \in Users : v # u => userRow'[v] = userRow[v]
         /\ resetToken[t] # Nil /\ resetToken[t].owner = u
         /\ resetToken'[t] # Nil /\ resetToken'[t].owner = u /\ resetToken'[t].used
         /\ \A o \in Tokens : o # t => resetToken'[o] = resetToken[o]
         /\ UNCHANGED mailed /\ Finish(r)
  <1> DEFINE me == req[r]
  <1>0. me.at = "setPassword" /\ PathOK(me) /\ LocalOK(me) /\ TInv
    BY DEF SetPassword, PInv, TInv
  <1> PICK u \in Users : u = me.user
    BY <1>0 DEF LocalOK
  <1> PICK t \in Tokens : t = me.token
    BY <1>0 DEF LocalOK
  <1> PICK p \in Passwords : p = me.given
    BY <1>0 DEF LocalOK
  <1>1. /\ Exists(u)
        /\ userRow' = [userRow EXCEPT ![u] = [Cleared(userRow[u], me.seen) EXCEPT !.password = p]]
        /\ resetToken' = MarkUsed(me.held) /\ UNCHANGED mailed /\ Finish(r)
    BY DEF SetPassword
  <1>2. me.held = {t} /\ {t} \in SUBSET Tokens /\ \A o \in {t} : resetToken[o] # Nil
    BY <1>0, HeldRows DEF PathOK
  <1>3. resetToken[t] # Nil /\ resetToken[t].owner = u
    BY <1>0, <1>2 DEF PathOK
  <1>4. userRow \in [Users -> UserRow \cup {Nil}] /\ Cleared(userRow[u], me.seen) \in UserRow
    <2>1. userRow[u] \in UserRow /\ me.seen \in Lockout /\ userRow \in [Users -> UserRow \cup {Nil}]
      BY <1>0, <1>1 DEF TInv, TypeOK, LocalOK, Exists
    <2> QED
      BY <2>1, ClearedType
  <1> DEFINE cleared == Cleared(userRow[u], me.seen)
  <1> HIDE DEF cleared
  <1>5. userRow' = [userRow EXCEPT ![u] = [cleared EXCEPT !.password = p]] /\ cleared \in UserRow
    BY <1>1, <1>4 DEF cleared
  <1>6. [cleared EXCEPT !.password = p] \in UserRow /\ [cleared EXCEPT !.password = p].password = p
    BY <1>5 DEF UserRow
  <1>7. userRow'[u] = [cleared EXCEPT !.password = p] /\ \A v \in Users : v # u => userRow'[v] = userRow[v]
    BY <1>4, <1>5
  <1>8. userRow'[u] \in UserRow /\ userRow'[u].password = p
    BY <1>6, <1>7
  <1>9. resetToken'[t] # Nil /\ resetToken'[t].owner = u
    BY <1>0, <1>1, <1>2, <1>3, MarkUsedOwned
  <1>10. resetToken'[t].used
    BY <1>0, <1>1, <1>2, <1>9, MarkUsedAges
  <1>11. \A o \in Tokens : o # t => resetToken'[o] = resetToken[o]
    BY <1>1, <1>2 DEF MarkUsed
  <1> QED
    BY <1>0, <1>1, <1>3, <1>7, <1>8, <1>9, <1>10, <1>11

LEMMA DeletionKeeps ==
  ASSUME WInv, NEW r \in Requests, CommitDeletion(r)
  PROVE  \E u \in Users :
         /\ u = req[r].user /\ req[r].at = "cascade"
         /\ userRow'[u] = Nil
         /\ \A v \in Users : v # u => userRow'[v] = userRow[v]
         /\ \A o \in TokensOf(u) : resetToken'[o] = Nil
         /\ \A o \in Tokens : o \notin TokensOf(u) => resetToken'[o] = resetToken[o]
         /\ UNCHANGED mailed /\ Finish(r)
  <1>1. req[r].at = "cascade" /\ HeldOK(req[r]) /\ LocalOK(req[r]) /\ TInv
    BY DEF CommitDeletion, WInv, PInv, TInv
  <1> PICK u \in Users : u = req[r].user
    BY <1>1 DEF LocalOK
  <1>2. req[r].held = TokensOf(u)
    BY <1>1, HeldRows DEF HeldOK, CommitDeletion, TokensOf
  <1>3. /\ userRow' = [userRow EXCEPT ![u] = Nil] /\ UNCHANGED mailed /\ Finish(r)
        /\ resetToken' = [t \in Tokens |-> IF t \in TokensOf(u) THEN Nil ELSE resetToken[t]]
    BY <1>2 DEF CommitDeletion
  <1>4. userRow \in [Users -> UserRow \cup {Nil}] /\ TokensOf(u) \subseteq Tokens
    BY <1>1 DEF TInv, TypeOK, TokensOf
  <1> QED
    BY <1>1, <1>3, <1>4

\* Only a deletion takes accounts or tokens away, and nothing brings an account
\* back.
LEMMA WhoDeletes ==
  ASSUME PInv, [Next]_vars
  PROVE  \/ /\ \A u \in Users : Exists(u)' <=> Exists(u)
            /\ \A t \in Tokens : resetToken[t] # Nil => resetToken'[t] # Nil
         \/ \E r \in Requests : CommitDeletion(r)
  <1>0. TInv
    BY DEF PInv
  <1>1. CASE Quiet
    BY <1>1 DEF Quiet, Exists
  <1>2. ASSUME NEW r \in Requests, ~Abort(r), CommitFailedLogin(r) \/ CommitPassedLogin(r)
        PROVE  (\A u \in Users : Exists(u)' <=> Exists(u)) /\ resetToken' = resetToken
    BY <1>0, <1>2, LoginKeeps, NilAssumption DEF Exists
  <1>3. ASSUME NEW r \in Requests, ~Abort(r), InsertToken(r)
        PROVE  /\ \A u \in Users : Exists(u)' <=> Exists(u)
               /\ \A t \in Tokens : resetToken[t] # Nil => resetToken'[t] # Nil
    BY <1>3, InsertKeeps DEF Exists
  <1>4. ASSUME NEW r \in Requests, ~Abort(r), SetPassword(r)
        PROVE  /\ \A u \in Users : Exists(u)' <=> Exists(u)
               /\ \A t \in Tokens : resetToken[t] # Nil => resetToken'[t] # Nil
    BY <1>4, SetPasswordKeeps, NilAssumption DEF Exists
  <1> QED
    BY <1>1, <1>2, <1>3, <1>4, WhoWrites

-----------------------------------------------------------------------------
(* Credentials implements ResetDesk.                                       *)

\* What an order replaces includes all it will mark, a token about to be mailed
\* is there for as long as its account, and so is an account that is being
\* deleted.
DeskOK(me) ==
  /\ me.at = "retire" => me.todo \cup me.held \subseteq me.known
  /\ me.at = "mail" /\ Exists(me.user) =>
       resetToken[me.token] # Nil /\ resetToken[me.token].owner = me.user
  /\ me.at = "cascade" => Exists(me.user)

KInv == WInv /\ \A r \in Requests : DeskOK(req[r])

\* Requests that do not move: an account that goes takes its tokens along, and
\* nobody else deletes it meanwhile.
LEMMA OthersDesk ==
  ASSUME KInv, [Next]_vars, NEW s \in Requests, NEW m \in Local, m = req[s],
         ~CommitDeletion(s)
  PROVE  DeskOK(m)'
  <1>0. PInv /\ WInv /\ LocalOK(m) /\ DeskOK(m) /\ Aging
    BY StepAges DEF KInv, WInv, PInv, TInv
  <1>1. CASE /\ \A u \in Users : Exists(u)' <=> Exists(u)
             /\ \A t \in Tokens : resetToken[t] # Nil => resetToken'[t] # Nil
    <2>1. m.at = "mail" => m.token \in Tokens /\ m.user \in Users
      BY <1>0 DEF LocalOK
    <2>2. m.at = "cascade" => m.user \in Users
      BY <1>0 DEF LocalOK
    <2>3. \A t \in Tokens : resetToken[t] # Nil => resetToken'[t] # Nil /\ resetToken'[t].owner = resetToken[t].owner
      BY <1>0, <1>1 DEF Aging, PInv, MintedOK
    <2> QED
      BY <1>0, <1>1, <2>1, <2>2, <2>3 DEF DeskOK
  <1>2. ASSUME NEW q \in Requests, CommitDeletion(q) PROVE DeskOK(m)'
    <2> PICK u \in Users :
           /\ u = req[q].user /\ req[q].at = "cascade"
           /\ userRow'[u] = Nil
           /\ \A v \in Users : v # u => userRow'[v] = userRow[v]
           /\ \A o \in Tokens : o \notin TokensOf(u) => resetToken'[o] = resetToken[o]
      BY <1>0, <1>2, DeletionKeeps
    <2>1. m.at = "cascade" => m.user \in Users /\ m.user # u
      BY <1>0, <1>2 DEF LocalOK, WInv, OneCascade
    <2>2. m.at = "mail" => m.user \in Users /\ m.token \in Tokens
      BY <1>0 DEF LocalOK
    <2>3. m.at = "mail" /\ Exists(m.user)' =>
            resetToken'[m.token] # Nil /\ resetToken'[m.token].owner = m.user
      <3> SUFFICES ASSUME m.at = "mail", Exists(m.user)'
                   PROVE  resetToken'[m.token] # Nil /\ resetToken'[m.token].owner = m.user
        OBVIOUS
      <3>1. m.user # u
        BY DEF Exists
      <3>2. Exists(m.user)
        BY <2>2, <3>1 DEF Exists
      <3>3. resetToken[m.token] # Nil /\ resetToken[m.token].owner = m.user
        BY <1>0, <3>2 DEF DeskOK
      <3> QED
        BY <2>2, <3>1, <3>3 DEF TokensOf
    <2>4. m.at = "cascade" => Exists(m.user)'
      BY <1>0, <2>1 DEF DeskOK, Exists
    <2> QED
      BY <1>0, <2>3, <2>4 DEF DeskOK
  <1> QED
    BY <1>0, <1>1, <1>2, WhoDeletes

LEMMA OwnDesk ==
  ASSUME KInv, [Next]_vars, NEW r \in Requests, NEW l \in Local, Goto(r, l), DeskOK(l)'
  PROVE  \A s \in Requests : DeskOK(req[s])'
  <1> SUFFICES ASSUME NEW s \in Requests PROVE DeskOK(req[s])'
    OBVIOUS
  <1>0. req \in [Requests -> Local]
    BY DEF KInv, WInv, PInv, TInv, TypeOK
  <1>1. CASE s = r
    <2>1. req'[s] = l
      BY <1>0, <1>1 DEF Goto
    <2> QED
      BY <2>1 DEF DeskOK
  <1>2. CASE s # r
    <2> PICK m \in Local : m = req[s]
      BY <1>0
    <2>1. req'[s] = m
      BY <1>0, <1>2 DEF Goto
    <2>2. CASE ~CommitDeletion(s)
      <3>1. DeskOK(m)'
        BY <2>2, OthersDesk
      <3> QED
        BY <2>1, <3>1 DEF DeskOK
    <2>3. CASE CommitDeletion(s)
      <3>1. req'[s] = Idle
        BY <1>0, <2>3 DEF CommitDeletion, Finish
      <3> QED
        BY <3>1 DEF DeskOK, Idle
    <2> QED
      BY <2>2, <2>3
  <1> QED
    BY <1>1, <1>2

\* At these steps a request has nothing to show.
LEMMA BareDesk ==
  ASSUME NEW l \in Local, l.at \notin {"retire", "mail", "cascade"}
  PROVE  DeskOK(l) /\ DeskOK(l)'
  BY DEF DeskOK

LEMMA IdleDesk ==
  ASSUME KInv, [Next]_vars, NEW r \in Requests, Finish(r)
  PROVE  \A s \in Requests : DeskOK(req[s])'
  <1>1. Goto(r, Idle) /\ DeskOK(Idle)'
    BY DEF Finish, Goto, Idle, DeskOK
  <1> QED
    BY <1>1, IdleOK, OwnDesk

\* Arriving, a request is not yet at a step that has something to show.
LEMMA ArriveDesk ==
  ASSUME NEW r \in Requests, KInv, Arrive(r)
  PROVE  \E l \in Local : /\ Goto(r, l) /\ l.at \notin {"retire", "mail", "cascade"}
                          /\ \/ l.at \notin {"markUsed", "readOwner", "setPassword"}
                             \/ \E t \in Tokens, p \in Passwords :
                                  CompleteReset(r, t, p) /\ l.at = "markUsed" /\ l.token = t
  <1> DEFINE Fits(l) == /\ Goto(r, l) /\ l.at \notin {"retire", "mail", "cascade"}
                        /\ \/ l.at \notin {"markUsed", "readOwner", "setPassword"}
                           \/ \E t \in Tokens, p \in Passwords :
                                CompleteReset(r, t, p) /\ l.at = "markUsed" /\ l.token = t
  <1>1. ASSUME NEW u \in Users, NEW p \in Passwords, Login(r, u, p) PROVE \E l \in Local : Fits(l)
    <2>1. LockoutOf(u) \in Lockout
      BY <1>1 DEF Login, LockoutOf, Lockout, Exists, KInv, WInv, PInv, TInv, TypeOK, UserRow
    <2> DEFINE l == [Idle EXCEPT !.at = IF p = userRow[u].password THEN "loginPassed" ELSE "loginFailed",
                                 !.user = u, !.seen = LockoutOf(u), !.clock = now]
    <2>2. l \in Local /\ l.at \in {"loginPassed", "loginFailed"}
      BY <2>1 DEF Idle, Local, Steps, KInv, WInv, PInv, TInv, TypeOK
    <2>3. Goto(r, l)
      BY <1>1 DEF Login, Begin, Goto
    <2> HIDE DEF l
    <2> QED
      BY <2>2, <2>3
  <1>2. ASSUME NEW u \in Users, (\E p \in Passwords : DeleteAccount(r, u, p)) \/ RequestReset(r, u)
        PROVE  \E l \in Local : Fits(l)
    <2>1. \E at \in {"revoke", "collect"} : Goto(r, [Idle EXCEPT !.at = at, !.user = u])
      BY <1>2 DEF DeleteAccount, RequestReset, Begin, Goto
    <2> PICK at \in {"revoke", "collect"} : Goto(r, [Idle EXCEPT !.at = at, !.user = u])
      BY <2>1
    <2> DEFINE l == [Idle EXCEPT !.at = at, !.user = u]
    <2>2. l \in Local /\ l.at = at
      BY DEF Idle, Local, Steps
    <2> QED
      BY <2>2
  <1>3. ASSUME NEW t \in Tokens, NEW p \in Passwords, CompleteReset(r, t, p) PROVE \E l \in Local : Fits(l)
    <2> PICK u \in Users : u = resetToken[t].owner
      BY <1>3 DEF CompleteReset, Live, KInv, WInv, PInv, TInv, TypeOK, TokenRow
    <2> DEFINE l == [Idle EXCEPT !.at = "markUsed", !.user = u, !.token = t, !.given = p]
    <2>1. l \in Local /\ l.at = "markUsed" /\ l.token = t /\ Goto(r, l)
      BY <1>3 DEF CompleteReset, Begin, Goto, Idle, Local, Steps
    <2> QED
      BY <1>3, <2>1
  <1> QED
    BY <1>1, <1>2, <1>3 DEF Arrive

\* The steps that write nothing and keep their request at work: what they make
\* of it, and what that means for its claim and its order.
LEMMA WorkDesk ==
  ASSUME KInv, NEW r \in Requests, ~Finish(r),
         \/ CollectUnused(r) \/ RetireToken(r) \/ MarkTokenUsed(r) \/ ReadTokenOwner(r)
         \/ DeleteUserRow(r) \/ CascadeToToken(r)
  PROVE  \E l \in Local :
         /\ Goto(r, l) /\ DeskOK(l)
         /\ \/ /\ CollectUnused(r) /\ l.at = "retire" /\ l.user = req[r].user
               /\ l.known = TokensOf(l.user)
            \/ /\ req[r].at = "retire" /\ l.at = "retire"
               /\ l.user = req[r].user /\ l.known = req[r].known
            \/ /\ req[r].at \in {"markUsed", "readOwner"} /\ l.at \in {"readOwner", "setPassword"}
               /\ l.token = req[r].token
            \/ l.at = "cascade"
  <1> DEFINE me == req[r]
  <1>0. me \in Local /\ LocalOK(me) /\ HeldOK(me) /\ DeskOK(me)
    BY DEF KInv, WInv, PInv, TInv, TypeOK
  <1>1. CASE CollectUnused(r)
    <2>1. Unused(me.user) \subseteq TokensOf(me.user) /\ TokensOf(me.user) \subseteq Tokens /\ me.at = "collect"
      BY <1>1 DEF CollectUnused, Unused, TokensOf
    <2> PICK l \in Local : l = [me EXCEPT !.at = "retire", !.todo = Unused(me.user), !.known = TokensOf(me.user)]
      BY <1>0, <2>1 DEF Local, Steps
    <2>2. /\ l.at = "retire" /\ l.todo = Unused(me.user) /\ l.held = me.held /\ l.user = me.user
          /\ l.known = TokensOf(me.user)
      BY <1>0 DEF Local
    <2>3. me.held = {}
      BY <1>0, <2>1 DEF HeldOK
    <2>4. DeskOK(l)
      BY <2>1, <2>2, <2>3 DEF DeskOK
    <2> QED
      BY <1>1, <2>2, <2>4 DEF CollectUnused
  <1>2. CASE RetireToken(r)
    <2> PICK t \in me.todo : Goto(r, [me EXCEPT !.todo = @ \ {t}, !.held = @ \cup {t}])
      BY <1>2 DEF RetireToken
    <2>1. me.at = "retire" /\ t \in Tokens
      BY <1>0, <1>2 DEF RetireToken, Local
    <2> PICK l \in Local : l = [me EXCEPT !.todo = @ \ {t}, !.held = @ \cup {t}]
      BY <1>0, <2>1 DEF Local
    <2>2. /\ l.at = "retire" /\ l.todo = me.todo \ {t} /\ l.held = me.held \cup {t} /\ l.user = me.user
          /\ l.known = me.known
      BY <1>0, <2>1 DEF Local
    <2>3. DeskOK(l)
      BY <1>0, <2>1, <2>2 DEF DeskOK
    <2> QED
      BY <2>1, <2>2, <2>3
  <1>3. CASE MarkTokenUsed(r)
    <2>1. me.at = "markUsed" /\ me.token \in Tokens
      BY <1>0, <1>3 DEF MarkTokenUsed, LocalOK
    <2> PICK l \in Local : l = [me EXCEPT !.at = "readOwner", !.held = {me.token}]
      BY <1>0, <2>1 DEF Local, Steps
    <2>2. l.at = "readOwner" /\ l.token = me.token
      BY <1>0 DEF Local
    <2> QED
      BY <1>3, <2>1, <2>2, BareDesk DEF MarkTokenUsed
  <1>4. CASE ReadTokenOwner(r)
    <2>1. me.at = "readOwner" /\ me.user \in Users /\ Exists(me.user)
      BY <1>0, <1>4 DEF ReadTokenOwner, LocalOK
    <2>2. LockoutOf(me.user) \in Lockout
      BY <2>1 DEF LockoutOf, Lockout, Exists, KInv, WInv, PInv, TInv, TypeOK, UserRow
    <2> PICK l \in Local : l = [me EXCEPT !.at = "setPassword", !.seen = LockoutOf(me.user)]
      BY <1>0, <2>2 DEF Local, Steps
    <2>3. l.at = "setPassword" /\ l.token = me.token
      BY <1>0 DEF Local
    <2> QED
      BY <1>4, <2>1, <2>3, BareDesk DEF ReadTokenOwner
  <1>5. CASE DeleteUserRow(r)
    <2> PICK l \in Local : l = [me EXCEPT !.at = "cascade"]
      BY <1>0 DEF Local, Steps
    <2>1. l.at = "cascade" /\ l.user = me.user
      BY <1>0 DEF Local
    <2>2. DeskOK(l) /\ Goto(r, l)
      BY <1>5, <2>1 DEF DeskOK, DeleteUserRow
    <2> QED
      BY <2>1, <2>2
  <1>6. CASE CascadeToToken(r)
    <2> PICK t \in TokensOf(me.user) : Goto(r, [me EXCEPT !.held = @ \cup {t}])
      BY <1>6 DEF CascadeToToken
    <2>1. t \in Tokens /\ me.at = "cascade"
      BY <1>6 DEF TokensOf, CascadeToToken
    <2> PICK l \in Local : l = [me EXCEPT !.held = @ \cup {t}]
      BY <1>0, <2>1 DEF Local
    <2>2. l.at = "cascade" /\ l.user = me.user
      BY <1>0, <2>1 DEF Local
    <2>3. DeskOK(l)
      BY <1>0, <2>1, <2>2 DEF DeskOK
    <2> QED
      BY <2>2, <2>3
  <1> QED
    BY <1>1, <1>2, <1>3, <1>4, <1>5, <1>6

LEMMA StepDesk == ASSUME KInv, [Next]_vars PROVE \A s \in Requests : DeskOK(req[s])'
  <1>1. ASSUME NEW r \in Requests, Finish(r) PROVE \A s \in Requests : DeskOK(req[s])'
    BY <1>1, IdleDesk
  <1>2. ASSUME NEW r \in Requests, Arrive(r) PROVE \A s \in Requests : DeskOK(req[s])'
    <2> PICK l \in Local : Goto(r, l) /\ l.at \notin {"retire", "mail", "cascade"}
      BY <1>2, ArriveDesk
    <2> QED
      BY BareDesk, OwnDesk
  <1>3. ASSUME NEW r \in Requests, InsertToken(r), ~Finish(r) PROVE \A s \in Requests : DeskOK(req[s])'
    <2>1. PInv /\ ~Abort(r)
      BY <1>3 DEF KInv, WInv, Abort
    <2> PICK u \in Users, t \in Tokens :
           /\ Goto(r, [Idle EXCEPT !.at = "mail", !.user = u, !.token = t])
           /\ resetToken'[t] # Nil /\ resetToken'[t].owner = u
      BY <1>3, <2>1, InsertKeeps
    <2> PICK l \in Local : l = [Idle EXCEPT !.at = "mail", !.user = u, !.token = t]
      BY DEF Idle, Local, Steps
    <2>2. l.at = "mail" /\ l.user = u /\ l.token = t
      BY DEF Idle
    <2>3. DeskOK(l)'
      BY <2>2 DEF DeskOK
    <2> QED
      BY <2>3, OwnDesk
  <1>4. ASSUME NEW r \in Requests, ~Finish(r),
               \/ CollectUnused(r) \/ RetireToken(r) \/ MarkTokenUsed(r) \/ ReadTokenOwner(r)
               \/ DeleteUserRow(r) \/ CascadeToToken(r)
        PROVE  \A s \in Requests : DeskOK(req[s])'
    <2>1. UNCHANGED <<userRow, resetToken>>
      BY <1>4 DEF CollectUnused, RetireToken, MarkTokenUsed, ReadTokenOwner, DeleteUserRow, CascadeToToken, store
    <2> PICK l \in Local : Goto(r, l) /\ DeskOK(l)
      BY <1>4, WorkDesk
    <2>2. DeskOK(l)'
      BY <2>1 DEF DeskOK, Exists
    <2> QED
      BY <2>2, OwnDesk
  <1>5. CASE Restart
    <2>1. \A s \in Requests : req'[s] = Idle
      BY <1>5 DEF Restart
    <2> QED
      BY <2>1 DEF DeskOK, Idle
  <1>6. CASE Tick \/ UNCHANGED vars
    <2>1. UNCHANGED <<userRow, resetToken, req>>
      BY <1>6 DEF Tick, vars, store
    <2> QED
      BY <2>1 DEF DeskOK, Exists, KInv
  <1> QED
    BY <1>1, <1>2, <1>3, <1>4, <1>5, <1>6, StepOf DEF Next

LEMMA KInvAlways == Spec => []KInv
  <1>1. Init /\ WInv => KInv
    BY DEF Init, KInv, DeskOK, Idle
  <1>2. KInv /\ [Next]_vars /\ WInv' => KInv'
    BY StepDesk DEF KInv
  <1> QED
    BY <1>1, <1>2, WInvAlways, PTL DEF Spec

PasswordOf(u) == IF Exists(u) THEN userRow[u].password ELSE Nil
TicketOf(t) ==
  IF resetToken[t] = Nil THEN Nil ELSE [owner |-> resetToken[t].owner, live |-> ~resetToken[t].used]

ClaimOf(me) == IF me.at \in {"markUsed", "readOwner", "setPassword"} THEN me.token ELSE Nil
OrderOf(me) == IF me.at = "retire" THEN [owner |-> me.user, replaces |-> me.known] ELSE Nil

DeskPasswords == [u \in Users |-> PasswordOf(u)]
DeskTickets == [t \in Tokens |-> TicketOf(t)]
DeskClaims == [r \in Requests |-> ClaimOf(req[r])]
DeskOrders == [r \in Requests |-> OrderOf(req[r])]

LEMMA TicketIsEntry ==
  ASSUME TInv, NEW t \in Tokens, resetToken[t] # Nil
  PROVE  TicketOf(t) # Nil /\ TicketOf(t).owner = resetToken[t].owner /\ TicketOf(t).live = ~resetToken[t].used
  <1>1. resetToken[t].owner \in Users /\ resetToken[t].used \in BOOLEAN
    BY DEF TInv, TypeOK, TokenRow
  <1>2. [owner |-> resetToken[t].owner, live |-> ~resetToken[t].used] \in Ledger!Ticket
    BY <1>1 DEF Ledger!Ticket
  <1> QED
    BY <1>2, LedgerAssumption DEF TicketOf

LEMMA DeskInit == Init => Desk!Init
  <1> SUFFICES ASSUME Init PROVE Desk!Init
    OBVIOUS
  <1> PICK p \in Passwords :
        userRow = [u \in Users |-> [password |-> p, attempts |-> 0, lockedUntil |-> Null]]
    BY DEF Init
  <1>1. ASSUME NEW u \in Users PROVE Exists(u) /\ userRow[u].password \in Passwords
    <2>1. [password |-> p, attempts |-> 0, lockedUntil |-> Null] \in UserRow
      BY DEF UserRow, Null
    <2> QED
      BY <2>1, NilAssumption DEF Exists
  <1> QED
    BY <1>1 DEF Desk!Init, Init, Idle

\* The actions of ResetDesk, over the desk kept by Credentials.
Kept == UNCHANGED <<DeskPasswords, DeskTickets, mailed>>

LEMMA DeskStutter ==
  ASSUME Kept, UNCHANGED <<DeskClaims, DeskOrders>>
  PROVE  UNCHANGED Desk!vars
  BY DEF Kept, Desk!vars, DeskPasswords, DeskTickets, DeskClaims, DeskOrders, PasswordOf, TicketOf, ClaimOf, OrderOf

LEMMA DeskWithdraw ==
  ASSUME NEW S \in SUBSET Requests, Kept,
         DeskClaims' = [r \in Requests |-> IF r \in S THEN Nil ELSE DeskClaims[r]],
         DeskOrders' = [r \in Requests |-> IF r \in S THEN Nil ELSE DeskOrders[r]]
  PROVE  Desk!Withdraw(S)
  BY DEF Kept, Desk!Withdraw, DeskPasswords, DeskTickets, DeskClaims, DeskOrders, PasswordOf, TicketOf, ClaimOf, OrderOf

LEMMA DeskOrder ==
  ASSUME NEW r \in Requests, NEW u \in Users, Kept, DeskClaims[r] = Nil, DeskOrders[r] = Nil,
         DeskOrders' = [DeskOrders EXCEPT ![r] = [owner |-> u, replaces |-> Desk!TicketsOf(u)]],
         DeskClaims' = DeskClaims
  PROVE  Desk!Order(r, u)
  BY DEF Kept, Desk!Order, Desk!Free, DeskPasswords, DeskTickets, DeskClaims, DeskOrders, PasswordOf, TicketOf, ClaimOf, OrderOf

LEMMA DeskClaim ==
  ASSUME NEW r \in Requests, NEW t \in mailed, t \in Tokens, Kept, DeskClaims[r] = Nil, DeskOrders[r] = Nil,
         TicketOf(t) # Nil, TicketOf(t).live,
         DeskClaims' = [DeskClaims EXCEPT ![r] = t], DeskOrders' = DeskOrders
  PROVE  Desk!Claim(r, t)
  BY DEF Kept, Desk!Claim, Desk!Free, DeskPasswords, DeskTickets, DeskClaims, DeskOrders, PasswordOf, TicketOf, ClaimOf, OrderOf

LEMMA DeskDeliver ==
  ASSUME NEW t \in Tokens, TicketOf(t) # Nil, mailed' = mailed \cup {t},
         UNCHANGED <<DeskPasswords, DeskTickets, DeskClaims, DeskOrders>>
  PROVE  Desk!Deliver(t)
  BY DEF Desk!Deliver, DeskPasswords, DeskTickets, DeskClaims, DeskOrders, PasswordOf, TicketOf, ClaimOf, OrderOf

LEMMA DeskIssue ==
  ASSUME NEW r \in Requests, NEW u \in Users, NEW t \in Tokens,
         DeskOrders[r] # Nil, DeskOrders[r].owner = u, DeskPasswords[u] # Nil, DeskTickets[t] = Nil,
         DeskTickets' = [o \in Tokens |->
                           IF o = t THEN [owner |-> u, live |-> TRUE]
                           ELSE IF DeskTickets[o] # Nil /\ o \in DeskOrders[r].replaces
                                THEN [owner |-> DeskTickets[o].owner, live |-> FALSE]
                                ELSE DeskTickets[o]],
         DeskOrders' = [DeskOrders EXCEPT ![r] = Nil],
         UNCHANGED <<DeskPasswords, mailed, DeskClaims>>
  PROVE  Desk!Issue(r, u, t)
  BY DEF Desk!Issue, DeskPasswords, DeskTickets, DeskClaims, DeskOrders, PasswordOf, TicketOf, ClaimOf, OrderOf

LEMMA DeskPay ==
  ASSUME NEW r \in Requests, NEW u \in Users, NEW t \in Tokens, NEW p \in Passwords,
         DeskClaims[r] = t, DeskTickets[t] # Nil, DeskTickets[t].owner = u, DeskPasswords[u] # Nil,
         DeskPasswords' = [DeskPasswords EXCEPT ![u] = p],
         DeskTickets' = [DeskTickets EXCEPT ![t] = [owner |-> u, live |-> FALSE]],
         DeskClaims' = [DeskClaims EXCEPT ![r] = Nil],
         UNCHANGED <<mailed, DeskOrders>>
  PROVE  Desk!Pay(r, u, t, p)
  BY DEF Desk!Pay, DeskPasswords, DeskTickets, DeskClaims, DeskOrders, PasswordOf, TicketOf, ClaimOf, OrderOf

LEMMA DeskDelete ==
  ASSUME NEW u \in Users, DeskPasswords[u] # Nil,
         DeskPasswords' = [DeskPasswords EXCEPT ![u] = Nil],
         DeskTickets' = [t \in Tokens |-> IF t \in Desk!TicketsOf(u) THEN Nil ELSE DeskTickets[t]],
         UNCHANGED <<mailed, DeskClaims, DeskOrders>>
  PROVE  Desk!Delete(u)
  BY DEF Desk!Delete, DeskPasswords, DeskTickets, DeskClaims, DeskOrders, PasswordOf, TicketOf, ClaimOf, OrderOf

LEMMA TicketsAreTokens ==
  ASSUME TInv, NEW u \in Users
  PROVE  Desk!TicketsOf(u) = TokensOf(u)
  <1>1. Desk!TicketsOf(u) = {t \in Tokens : TicketOf(t) # Nil /\ TicketOf(t).owner = u}
    BY DEF Desk!TicketsOf, TicketOf
  <1>2. ASSUME NEW t \in Tokens PROVE TicketOf(t) # Nil /\ TicketOf(t).owner = u <=> t \in TokensOf(u)
    <2>1. resetToken[t] = Nil => TicketOf(t) = Nil
      BY DEF TicketOf
    <2> QED
      BY <2>1, TicketIsEntry DEF TokensOf
  <1> QED
    BY <1>1, <1>2 DEF TokensOf

LEMMA DeskMoves ==
  ASSUME TInv, NEW r \in Requests, NEW l \in Local, Goto(r, l)
  PROVE  /\ DeskClaims' = [DeskClaims EXCEPT ![r] = ClaimOf(l)]
         /\ DeskOrders' = [DeskOrders EXCEPT ![r] = OrderOf(l)]
         /\ ClaimOf(l) = DeskClaims[r] => DeskClaims' = DeskClaims
         /\ OrderOf(l) = DeskOrders[r] => DeskOrders' = DeskOrders
  <1>1. req' = [req EXCEPT ![r] = l] /\ req \in [Requests -> Local]
    BY DEF Goto, TInv, TypeOK
  <1>2. \A s \in Requests : req'[s] = IF s = r THEN l ELSE req[s]
    BY <1>1
  <1>3. /\ \A s \in Requests : DeskClaims'[s] = IF s = r THEN ClaimOf(l) ELSE DeskClaims[s]
        /\ \A s \in Requests : DeskOrders'[s] = IF s = r THEN OrderOf(l) ELSE DeskOrders[s]
    BY <1>2 DEF DeskClaims, DeskOrders
  <1>4. /\ DeskClaims' = [s \in Requests |-> DeskClaims'[s]] /\ DeskOrders' = [s \in Requests |-> DeskOrders'[s]]
        /\ DeskClaims = [s \in Requests |-> DeskClaims[s]] /\ DeskOrders = [s \in Requests |-> DeskOrders[s]]
    BY DEF DeskClaims, DeskOrders
  <1> HIDE DEF DeskClaims, DeskOrders
  <1> QED
    BY <1>3, <1>4

\* A request that gives up, or never had, a claim and an order.
LEMMA BareDeskStep ==
  ASSUME TInv, Kept, NEW r \in Requests, NEW l \in Local, Goto(r, l), ClaimOf(l) = Nil, OrderOf(l) = Nil
  PROVE  Desk!Next
  <1>1. /\ DeskClaims' = [s \in Requests |-> IF s \in {r} THEN Nil ELSE DeskClaims[s]]
        /\ DeskOrders' = [s \in Requests |-> IF s \in {r} THEN Nil ELSE DeskOrders[s]]
    <2>1. /\ DeskClaims = [s \in Requests |-> DeskClaims[s]]
          /\ DeskOrders = [s \in Requests |-> DeskOrders[s]]
      BY DEF DeskClaims, DeskOrders
    <2>2. DeskClaims' = [DeskClaims EXCEPT ![r] = Nil] /\ DeskOrders' = [DeskOrders EXCEPT ![r] = Nil]
      BY DeskMoves
    <2> QED
      BY <2>1, <2>2
  <1>2. Desk!Withdraw({r})
    BY <1>1, DeskWithdraw
  <1> QED
    BY <1>2 DEF Desk!Next

LEMMA FinishDeskStep ==
  ASSUME TInv, Kept, NEW r \in Requests, Finish(r)
  PROVE  Desk!Next
  <1>1. Goto(r, Idle) /\ ClaimOf(Idle) = Nil /\ OrderOf(Idle) = Nil
    BY DEF Finish, Goto, ClaimOf, OrderOf, Idle
  <1> QED
    BY <1>1, IdleOK, BareDeskStep

\* Writing neither accounts nor tokens keeps passwords and tickets.
LEMMA QuietKept == Quiet /\ UNCHANGED mailed => Kept
  BY DEF Quiet, Kept, DeskPasswords, DeskTickets, PasswordOf, TicketOf, Exists

LEMMA ArriveDeskStep == ASSUME KInv, NEW r \in Requests, Arrive(r) PROVE Desk!Next
  <1>1. TInv /\ Kept /\ req[r].at = "idle"
    <2>1. UNCHANGED <<store, history>> /\ req[r].at = "idle"
      BY DEF Arrive, Login, DeleteAccount, RequestReset, CompleteReset, Begin
    <2> QED
      BY <2>1, QuietKept DEF KInv, WInv, PInv, Quiet, store, history
  <1>2. DeskClaims[r] = Nil /\ DeskOrders[r] = Nil
    BY <1>1 DEF DeskClaims, DeskOrders, ClaimOf, OrderOf
  <1> PICK l \in Local :
         /\ Goto(r, l) /\ l.at \notin {"retire", "mail", "cascade"}
         /\ \/ l.at \notin {"markUsed", "readOwner", "setPassword"}
            \/ \E t \in Tokens, p \in Passwords :
                 CompleteReset(r, t, p) /\ l.at = "markUsed" /\ l.token = t
    BY ArriveDesk
  <1>3. CASE l.at \notin {"markUsed", "readOwner", "setPassword"}
    <2>1. ClaimOf(l) = Nil /\ OrderOf(l) = Nil
      BY <1>3 DEF ClaimOf, OrderOf
    <2> QED
      BY <1>1, <2>1, BareDeskStep
  <1>4. ASSUME NEW t \in Tokens, NEW p \in Passwords, CompleteReset(r, t, p), l.at = "markUsed", l.token = t
        PROVE  Desk!Next
    <2>1. t \in mailed /\ resetToken[t] # Nil /\ ~resetToken[t].used
      BY <1>4 DEF CompleteReset, Live
    <2>2. TicketOf(t) # Nil /\ TicketOf(t).live
      BY <1>1, <2>1, TicketIsEntry
    <2>3. ClaimOf(l) = t /\ OrderOf(l) = Nil
      BY <1>4 DEF ClaimOf, OrderOf
    <2>4. DeskClaims' = [DeskClaims EXCEPT ![r] = t]
      BY <1>1, <2>3, DeskMoves
    <2>5. DeskOrders' = DeskOrders
      BY <1>1, <1>2, <2>3, DeskMoves
    <2>6. Desk!Claim(r, t)
      BY <1>1, <1>2, <2>1, <2>2, <2>4, <2>5, DeskClaim
    <2> QED
      BY <2>6 DEF Desk!Next
  <1> QED
    BY <1>3, <1>4

LEMMA WorkDeskStep ==
  ASSUME KInv, NEW r \in Requests, ~Finish(r),
         \/ CollectUnused(r) \/ RetireToken(r) \/ MarkTokenUsed(r) \/ ReadTokenOwner(r)
         \/ DeleteUserRow(r) \/ CascadeToToken(r)
  PROVE  Desk!Next \/ UNCHANGED Desk!vars
  <1> DEFINE me == req[r]
  <1>0. TInv /\ Kept
    <2>1. UNCHANGED <<store, history>>
      BY DEF CollectUnused, RetireToken, MarkTokenUsed, ReadTokenOwner, DeleteUserRow, CascadeToToken
    <2> QED
      BY <2>1, QuietKept DEF KInv, WInv, PInv, Quiet, store, history
  <1> PICK l \in Local :
         /\ Goto(r, l)
         /\ \/ /\ CollectUnused(r) /\ l.at = "retire" /\ l.user = me.user
               /\ l.known = TokensOf(l.user)
            \/ /\ me.at = "retire" /\ l.at = "retire"
               /\ l.user = me.user /\ l.known = me.known
            \/ /\ me.at \in {"markUsed", "readOwner"} /\ l.at \in {"readOwner", "setPassword"}
               /\ l.token = me.token
            \/ l.at = "cascade"
    BY WorkDesk
  <1>1. CASE CollectUnused(r) /\ l.at = "retire" /\ l.user = me.user /\ l.known = TokensOf(l.user)
    <2>1. me.at = "collect" /\ me.user \in Users
      BY <1>0, <1>1 DEF CollectUnused, TInv, LocalOK
    <2> PICK u \in Users : u = me.user
      BY <2>1
    <2>2. DeskClaims[r] = Nil /\ DeskOrders[r] = Nil
      BY <2>1 DEF DeskClaims, DeskOrders, ClaimOf, OrderOf
    <2>3. ClaimOf(l) = Nil /\ OrderOf(l) = [owner |-> u, replaces |-> Desk!TicketsOf(u)]
      BY <1>0, <1>1, TicketsAreTokens DEF ClaimOf, OrderOf
    <2>4. DeskOrders' = [DeskOrders EXCEPT ![r] = [owner |-> u, replaces |-> Desk!TicketsOf(u)]]
      BY <1>0, <2>3, DeskMoves
    <2>5. DeskClaims' = DeskClaims
      BY <1>0, <2>2, <2>3, DeskMoves
    <2>6. Desk!Order(r, u)
      BY <1>0, <2>2, <2>4, <2>5, DeskOrder
    <2> QED
      BY <2>6 DEF Desk!Next
  <1>2. CASE \/ me.at = "retire" /\ l.at = "retire" /\ l.user = me.user /\ l.known = me.known
             \/ /\ me.at \in {"markUsed", "readOwner"} /\ l.at \in {"readOwner", "setPassword"}
                /\ l.token = me.token
    <2>1. ClaimOf(l) = DeskClaims[r] /\ OrderOf(l) = DeskOrders[r]
      BY <1>2 DEF DeskClaims, DeskOrders, ClaimOf, OrderOf
    <2>2. DeskClaims' = DeskClaims /\ DeskOrders' = DeskOrders
      BY <1>0, <2>1, DeskMoves
    <2> QED
      BY <1>0, <2>2, DeskStutter
  <1>3. CASE l.at = "cascade"
    <2>1. ClaimOf(l) = Nil /\ OrderOf(l) = Nil
      BY <1>3 DEF ClaimOf, OrderOf
    <2> QED
      BY <1>0, <2>1, BareDeskStep
  <1> QED
    BY <1>1, <1>2, <1>3

LEMMA MailDeskStep == ASSUME KInv, NEW r \in Requests, MailToken(r) PROVE Desk!Next
  <1> DEFINE me == req[r]
  <1>0. /\ TInv /\ LocalOK(me) /\ DeskOK(me) /\ me.at = "mail" /\ Finish(r)
        /\ UNCHANGED <<userRow, resetToken>>
    BY DEF MailToken, KInv, WInv, PInv, TInv
  <1>1. UNCHANGED <<DeskPasswords, DeskTickets>>
    BY <1>0 DEF DeskPasswords, DeskTickets, PasswordOf, TicketOf, Exists
  <1>2. CASE UNCHANGED mailed
    BY <1>0, <1>1, <1>2, FinishDeskStep DEF Kept
  <1>3. CASE Exists(me.user) /\ mailed' = mailed \cup {me.token}
    <2> PICK t \in Tokens : t = me.token
      BY <1>0 DEF LocalOK
    <2>1. TicketOf(t) # Nil
      BY <1>0, <1>3, TicketIsEntry DEF DeskOK
    <2>2. DeskClaims[r] = Nil /\ DeskOrders[r] = Nil /\ Goto(r, Idle) /\ ClaimOf(Idle) = Nil /\ OrderOf(Idle) = Nil
      BY <1>0 DEF DeskClaims, DeskOrders, ClaimOf, OrderOf, Finish, Goto, Idle
    <2>3. DeskClaims' = DeskClaims /\ DeskOrders' = DeskOrders
      BY <1>0, <2>2, IdleOK, DeskMoves
    <2>4. Desk!Deliver(t)
      BY <1>1, <1>3, <2>1, <2>3, DeskDeliver
    <2> QED
      BY <2>4 DEF Desk!Next
  <1> QED
    BY <1>2, <1>3 DEF MailToken

LEMMA LoginDeskStep ==
  ASSUME KInv, NEW r \in Requests, ~Abort(r), CommitFailedLogin(r) \/ CommitPassedLogin(r)
  PROVE  Desk!Next
  <1>0. TInv
    BY DEF KInv, WInv, PInv
  <1> PICK u \in Users :
         /\ Exists(u) /\ userRow'[u] \in UserRow /\ userRow'[u].password = userRow[u].password
         /\ \A v \in Users : v # u => userRow'[v] = userRow[v]
         /\ UNCHANGED <<resetToken, mailed>> /\ Finish(r)
    BY <1>0, LoginKeeps
  <1>1. ASSUME NEW v \in Users PROVE PasswordOf(v)' = PasswordOf(v)
    BY NilAssumption DEF PasswordOf, Exists
  <1>2. Kept
    BY <1>1 DEF Kept, DeskPasswords, DeskTickets, TicketOf
  <1> QED
    BY <1>0, <1>2, FinishDeskStep

LEMMA InsertDeskStep ==
  ASSUME KInv, NEW r \in Requests, ~Abort(r), InsertToken(r)
  PROVE  Desk!Next
  <1> DEFINE me == req[r]
  <1>0. /\ PInv /\ TInv /\ PathOK(me) /\ DeskOK(me) /\ me \in Local
        /\ me.at = "retire" /\ me.todo = {}
    BY DEF InsertToken, KInv, WInv, PInv, TInv, TypeOK
  <1> PICK u \in Users, t \in Tokens :
         /\ u = me.user /\ Exists(u) /\ UNCHANGED <<userRow, mailed>>
         /\ Goto(r, [Idle EXCEPT !.at = "mail", !.user = u, !.token = t])
         /\ resetToken[t] = Nil
         /\ resetToken'[t] # Nil /\ resetToken'[t].owner = u /\ ~resetToken'[t].used
         /\ \A o \in Tokens \ {t} :
              /\ resetToken'[o] # Nil <=> resetToken[o] # Nil
              /\ resetToken[o] # Nil => resetToken'[o].owner = resetToken[o].owner
              /\ o \in me.held => resetToken'[o].used
              /\ o \notin me.held => resetToken'[o] = resetToken[o]
    BY <1>0, InsertKeeps
  <1> PICK l \in Local : l = [Idle EXCEPT !.at = "mail", !.user = u, !.token = t]
    BY DEF Idle, Local, Steps
  <1>1. ClaimOf(l) = Nil /\ OrderOf(l) = Nil /\ DeskClaims[r] = Nil
    BY <1>0 DEF DeskClaims, ClaimOf, OrderOf, Idle
  <1>2. DeskOrders[r] = [owner |-> u, replaces |-> me.known]
    BY <1>0 DEF DeskOrders, OrderOf
  <1>3. DeskOrders[r] # Nil /\ DeskOrders[r].owner = u /\ DeskOrders[r].replaces = me.known
    <2>1. [owner |-> u, replaces |-> me.known] \in Desk!Slip
      BY <1>0 DEF Desk!Slip, Local
    <2> QED
      BY <1>2, <2>1, DeskAssumption
  <1>4. DeskPasswords[u] # Nil /\ UNCHANGED DeskPasswords
    BY <1>0, NilAssumption DEF DeskPasswords, PasswordOf, Exists, TInv, TypeOK, UserRow
  <1>5. TicketOf(t) = Nil /\ TicketOf(t)' = [owner |-> u, live |-> TRUE]
    BY DEF TicketOf
  <1>6. ASSUME NEW o \in Tokens, o # t
        PROVE  TicketOf(o)' = IF TicketOf(o) # Nil /\ o \in me.known
                              THEN [owner |-> TicketOf(o).owner, live |-> FALSE]
                              ELSE TicketOf(o)
    <2>1. CASE resetToken[o] = Nil
      BY <1>6, <2>1 DEF TicketOf
    <2>2. CASE resetToken[o] # Nil /\ o \notin me.known
      <3>1. o \notin me.held
        BY <1>0, <2>2 DEF DeskOK
      <3> QED
        BY <1>6, <2>2, <3>1 DEF TicketOf
    <2>3. CASE resetToken[o] # Nil /\ o \in me.known
      <3>1. resetToken'[o] # Nil /\ resetToken'[o].owner = resetToken[o].owner
        BY <1>6, <2>3
      <3>2. resetToken'[o].used
        BY <1>0, <1>6, <2>3 DEF PathOK
      <3>3. TicketOf(o)' = [owner |-> resetToken[o].owner, live |-> FALSE]
        BY <3>1, <3>2 DEF TicketOf
      <3>4. TicketOf(o) # Nil /\ TicketOf(o).owner = resetToken[o].owner
        BY <1>0, <2>3, TicketIsEntry
      <3> QED
        BY <2>3, <3>3, <3>4
    <2> QED
      BY <2>1, <2>2, <2>3
  <1>7. DeskTickets' = [o \in Tokens |->
                          IF o = t THEN [owner |-> u, live |-> TRUE]
                          ELSE IF DeskTickets[o] # Nil /\ o \in DeskOrders[r].replaces
                               THEN [owner |-> DeskTickets[o].owner, live |-> FALSE]
                               ELSE DeskTickets[o]]
    BY <1>3, <1>5, <1>6 DEF DeskTickets
  <1>8. DeskOrders' = [DeskOrders EXCEPT ![r] = Nil] /\ DeskClaims' = DeskClaims
    BY <1>0, <1>1, DeskMoves
  <1>9. DeskTickets[t] = Nil
    BY <1>5 DEF DeskTickets
  <1>10. Desk!Issue(r, u, t)
    BY <1>3, <1>4, <1>7, <1>8, <1>9, DeskIssue
  <1> QED
    BY <1>10 DEF Desk!Next

LEMMA PasswordDeskStep ==
  ASSUME KInv, NEW r \in Requests, ~Abort(r), SetPassword(r)
  PROVE  Desk!Next
  <1> DEFINE me == req[r]
  <1>0. PInv /\ TInv
    BY DEF KInv, WInv, PInv
  <1> PICK u \in Users, t \in Tokens, p \in Passwords :
         /\ me.at = "setPassword" /\ t = me.token /\ Exists(u)
         /\ userRow'[u] \in UserRow /\ userRow'[u].password = p
         /\ \A v \in Users : v # u => userRow'[v] = userRow[v]
         /\ resetToken[t] # Nil /\ resetToken[t].owner = u
         /\ resetToken'[t] # Nil /\ resetToken'[t].owner = u /\ resetToken'[t].used
         /\ \A o \in Tokens : o # t => resetToken'[o] = resetToken[o]
         /\ UNCHANGED mailed /\ Finish(r)
    BY <1>0, SetPasswordKeeps
  <1>1. PasswordOf(u)' = p /\ PasswordOf(u) # Nil
    BY <1>0, NilAssumption DEF PasswordOf, Exists, TInv, TypeOK, UserRow
  <1>2. ASSUME NEW v \in Users, v # u PROVE PasswordOf(v)' = PasswordOf(v)
    BY <1>2 DEF PasswordOf, Exists
  <1>3. TicketOf(t) # Nil /\ TicketOf(t).owner = u /\ TicketOf(t)' = [owner |-> u, live |-> FALSE]
    <2>1. TicketOf(t) # Nil /\ TicketOf(t).owner = u
      BY <1>0, TicketIsEntry
    <2>2. TicketOf(t)' = [owner |-> u, live |-> FALSE]
      BY DEF TicketOf
    <2> QED
      BY <2>1, <2>2
  <1>4. ASSUME NEW o \in Tokens, o # t PROVE TicketOf(o)' = TicketOf(o)
    BY <1>4 DEF TicketOf
  <1>5. DeskPasswords' = [DeskPasswords EXCEPT ![u] = p] /\ DeskPasswords[u] # Nil
    BY <1>1, <1>2 DEF DeskPasswords
  <1>6. /\ DeskTickets' = [DeskTickets EXCEPT ![t] = [owner |-> u, live |-> FALSE]]
        /\ DeskTickets[t] # Nil /\ DeskTickets[t].owner = u
    BY <1>3, <1>4 DEF DeskTickets
  <1>7. /\ Goto(r, Idle) /\ ClaimOf(Idle) = Nil /\ OrderOf(Idle) = Nil
        /\ DeskClaims[r] = t /\ DeskOrders[r] = Nil
    BY DEF DeskClaims, DeskOrders, ClaimOf, OrderOf, Finish, Goto, Idle
  <1>8. DeskClaims' = [DeskClaims EXCEPT ![r] = Nil] /\ DeskOrders' = DeskOrders
    BY <1>0, <1>7, IdleOK, DeskMoves
  <1>9. Desk!Pay(r, u, t, p)
    BY <1>5, <1>6, <1>7, <1>8, DeskPay
  <1> QED
    BY <1>9 DEF Desk!Next

LEMMA DeletionDeskStep ==
  ASSUME KInv, NEW r \in Requests, CommitDeletion(r)
  PROVE  Desk!Next
  <1>0. WInv /\ TInv /\ DeskOK(req[r])
    BY DEF KInv, WInv, PInv
  <1> PICK u \in Users :
         /\ u = req[r].user /\ req[r].at = "cascade"
         /\ userRow'[u] = Nil
         /\ \A v \in Users : v # u => userRow'[v] = userRow[v]
         /\ \A o \in TokensOf(u) : resetToken'[o] = Nil
         /\ \A o \in Tokens : o \notin TokensOf(u) => resetToken'[o] = resetToken[o]
         /\ UNCHANGED mailed /\ Finish(r)
    BY <1>0, DeletionKeeps
  <1>1. PasswordOf(u)' = Nil /\ PasswordOf(u) # Nil
    <2>1. Exists(u) /\ userRow[u].password \in Passwords
      BY <1>0 DEF DeskOK, Exists, TInv, TypeOK, UserRow
    <2> QED
      BY <2>1, NilAssumption DEF PasswordOf, Exists
  <1>2. ASSUME NEW v \in Users, v # u PROVE PasswordOf(v)' = PasswordOf(v)
    BY <1>2 DEF PasswordOf, Exists
  <1>3. ASSUME NEW o \in Tokens PROVE TicketOf(o)' = IF o \in TokensOf(u) THEN Nil ELSE TicketOf(o)
    BY DEF TicketOf
  <1>4. DeskPasswords' = [DeskPasswords EXCEPT ![u] = Nil] /\ DeskPasswords[u] # Nil
    BY <1>1, <1>2 DEF DeskPasswords
  <1>5. DeskTickets' = [t \in Tokens |-> IF t \in Desk!TicketsOf(u) THEN Nil ELSE DeskTickets[t]]
    BY <1>0, <1>3, TicketsAreTokens DEF DeskTickets
  <1>6. /\ Goto(r, Idle) /\ ClaimOf(Idle) = Nil /\ OrderOf(Idle) = Nil
        /\ DeskClaims[r] = Nil /\ DeskOrders[r] = Nil
    BY DEF DeskClaims, DeskOrders, ClaimOf, OrderOf, Finish, Goto, Idle
  <1>7. DeskClaims' = DeskClaims /\ DeskOrders' = DeskOrders
    BY <1>0, <1>6, IdleOK, DeskMoves
  <1>8. Desk!Delete(u)
    BY <1>4, <1>5, <1>7, DeskDelete
  <1> QED
    BY <1>8 DEF Desk!Next

LEMMA RestartDeskStep == ASSUME Restart PROVE Desk!Next
  <1>1. Kept /\ \A s \in Requests : req'[s] = Idle
    BY QuietKept DEF Restart, Quiet, store, history
  <1>2. /\ DeskClaims' = [s \in Requests |-> IF s \in Requests THEN Nil ELSE DeskClaims[s]]
        /\ DeskOrders' = [s \in Requests |-> IF s \in Requests THEN Nil ELSE DeskOrders[s]]
    BY <1>1 DEF DeskClaims, DeskOrders, ClaimOf, OrderOf, Idle
  <1>3. Desk!Withdraw(Requests)
    BY <1>1, <1>2, DeskWithdraw
  <1> QED
    BY <1>3 DEF Desk!Next

LEMMA StepImplementsDesk == KInv /\ [Next]_vars => [Desk!Next]_Desk!vars
  <1> SUFFICES ASSUME KInv, [Next]_vars PROVE Desk!Next \/ UNCHANGED Desk!vars
    OBVIOUS
  <1>0. TInv
    BY DEF KInv, WInv, PInv
  <1>1. CASE Restart
    BY <1>1, RestartDeskStep
  <1>2. CASE Tick \/ UNCHANGED vars
    <2>1. Kept /\ UNCHANGED <<DeskClaims, DeskOrders>>
      BY <1>2, QuietKept DEF Tick, vars, Quiet, store, history, DeskClaims, DeskOrders
    <2> QED
      BY <2>1, DeskStutter
  <1>3. ASSUME NEW r \in Requests, Abort(r) PROVE Desk!Next
    <2>1. Kept /\ Finish(r)
      BY <1>3, QuietKept DEF Abort, Quiet, store, history
    <2> QED
      BY <1>0, <2>1, FinishDeskStep
  <1>4. ASSUME NEW r \in Requests, Finish(r), RetireToken(r) \/ MarkTokenUsed(r) \/ ReadTokenOwner(r) \/ DeleteUserRow(r)
        PROVE  Desk!Next
    <2>1. UNCHANGED <<store, history>>
      BY <1>4 DEF RetireToken, MarkTokenUsed, ReadTokenOwner, DeleteUserRow
    <2>2. Kept
      BY <2>1, QuietKept DEF Quiet, store, history
    <2> QED
      BY <1>0, <1>4, <2>2, FinishDeskStep
  <1>5. ASSUME NEW r \in Requests, Finish(r), CollectUnused(r) \/ CascadeToToken(r) PROVE Desk!Next
    <2>1. UNCHANGED <<store, history>>
      BY <1>5 DEF CollectUnused, CascadeToToken
    <2>2. Kept
      BY <2>1, QuietKept DEF Quiet, store, history
    <2> QED
      BY <1>0, <1>5, <2>2, FinishDeskStep
  <1>6. ASSUME NEW r \in Requests, Arrive(r) \/ Proceed(r) \/ BreakDeadlock(r)
        PROVE  Desk!Next \/ UNCHANGED Desk!vars
    <2>1. BreakDeadlock(r) => Abort(r)
      BY DEF BreakDeadlock
    <2> QED
      BY <1>3, <1>4, <1>5, <1>6, <2>1, ArriveDeskStep, WorkDeskStep, MailDeskStep, LoginDeskStep,
         InsertDeskStep, PasswordDeskStep, DeletionDeskStep DEF Proceed
  <1> QED
    BY <1>1, <1>2, <1>6 DEF Next

\* Whatever overlaps, recovery is what ResetDesk promises: a token pays once for
\* each request that found it live, a new token voids what was there when it was
\* asked for, and a deletion leaves no token behind (request_password_reset,
\* complete_password_reset, delete_account).
THEOREM ImplementsDesk == Spec => DeskSpec
  BY KInvAlways, DeskInit, StepImplementsDesk, PTL DEF Spec, DeskSpec, Desk!Spec
=============================================================================
