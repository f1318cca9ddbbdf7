----------------------------- MODULE Credentials -----------------------------
(***************************************************************************)
(* The credential side of the Account Hub API: logins with the lockout     *)
(* counter, password-reset tokens and account deletion, as the requests of *)
(* one asyncio server interleave at their database calls.                  *)
(*                                                                         *)
(* A request is a transaction under READ COMMITTED.  A SELECT copies what  *)
(* is committed at that moment; everything the handler computes from it is *)
(* computed from the copy; what it writes becomes visible at its COMMIT.   *)
(* An UPDATE sends only the columns whose value differs from the copy, and *)
(* waits for the row locks that other open transactions hold.  An UPDATE   *)
(* of a row that is gone ends the request with StaleDataError.  The last   *)
(* UPDATE or INSERT of a transaction and its COMMIT are one step: between  *)
(* them nothing is read and no other request can see or change the row.    *)
(*                                                                         *)
(* A definition marked faulty is used by no other: it is what a plausible  *)
(* bug would make of the definition it names, kept to see that the         *)
(* properties notice it.                                                   *)
(***************************************************************************)
EXTENDS Integers, FiniteSets

CONSTANTS
  Users,         \* rows of table users
  Requests,      \* request slots: how many requests may be in flight
  Tokens,        \* reset tokens; their order is that of their primary keys
  Passwords,
  Nil,           \* no row, or nothing in a local variable
  MaxAttempts,   \* MAX_FAILED_LOGIN_ATTEMPTS
  LockDuration,  \* LOCKOUT_DURATION_MINUTES
  ResetTtl,      \* RESET_TOKEN_EXPIRY_MINUTES
  MaxTime        \* bound on the clock

ASSUME TokensAssumption == Tokens \subseteq Nat
ASSUME LimitsAssumption ==
  /\ MaxAttempts \in Nat \ {0}
  /\ LockDuration \in Nat \ {0}
  /\ ResetTtl \in Nat \ {0}
  /\ MaxTime \in Nat

VARIABLES
  userRow,     \* users: password_hash, failed_login_attempts, locked_until
  resetToken,  \* password_reset_tokens: user_id, used, expires_at
  mailed,      \* tokens whose plaintext reached the user's mailbox
  req,         \* the local state of each request slot
  now,         \* the clock
  minted,      \* history: tokens ever inserted
  known,       \* history: the tokens committed when the request that inserted
               \* a token looked for unused ones
  misses,      \* history: wrong-password logins committed, up to MaxAttempts
  streak,      \* history: the same since the last login or reset
  changes      \* history: password changes a token has paid for, up to 2

store == <<userRow, resetToken, mailed, minted, known>>
history == <<misses, streak, changes>>
vars == <<userRow, resetToken, mailed, req, now, minted, known, misses, streak, changes>>

-----------------------------------------------------------------------------
Null == 0  \* locked_until IS NULL; every time the clock shows is later

UserRow == [password : Passwords, attempts : Nat, lockedUntil : Nat]
Lockout == [attempts : Nat, lockedUntil : Nat]
TokenRow == [owner : Users, used : BOOLEAN, expiresAt : Nat]

\* Nil is none of the values it stands in for.
ASSUME NilAssumption ==
  /\ Nil \notin Users \cup Tokens \cup Passwords
  /\ Nil \notin UserRow /\ Nil \notin Lockout /\ Nil \notin TokenRow

Steps == {"idle", "loginFailed", "loginPassed", "collect", "retire", "mail",
          "markUsed", "readOwner", "setPassword", "revoke", "cascade"}

Local == [at : Steps, user : Users \cup {Nil}, given : Passwords \cup {Nil},
          seen : Lockout \cup {Nil}, clock : Nat, token : Tokens \cup {Nil},
          todo : SUBSET Tokens, held : SUBSET Tokens, known : SUBSET Tokens]

Idle == [at |-> "idle", user |-> Nil, given |-> Nil, seen |-> Nil, clock |-> 0,
         token |-> Nil, todo |-> {}, held |-> {}, known |-> {}]

TypeOK ==
  /\ userRow \in [Users -> UserRow \cup {Nil}]
  /\ resetToken \in [Tokens -> TokenRow \cup {Nil}]
  /\ mailed \subseteq Tokens
  /\ req \in [Requests -> Local]
  /\ now \in Nat
  /\ minted \subseteq Tokens
  /\ known \in [Tokens -> SUBSET Tokens]
  /\ misses \in [Users -> 0 .. MaxAttempts]
  /\ streak \in [Users -> 0 .. MaxAttempts]
  /\ changes \in [Tokens -> 0 .. 2]

Init ==
  /\ \E p \in Passwords :
       userRow = [u \in Users |-> [password |-> p, attempts |-> 0, lockedUntil |-> Null]]
  /\ resetToken = [t \in Tokens |-> Nil]
  /\ mailed = {}
  /\ req = [r \in Requests |-> Idle]
  /\ now = 1
  /\ minted = {}
  /\ known = [t \in Tokens |-> {}]
  /\ misses = [u \in Users |-> 0]
  /\ streak = [u \in Users |-> 0]
  /\ changes = [t \in Tokens |-> 0]

-----------------------------------------------------------------------------
(* Transactions and row locks.                                             *)

Exists(u) == userRow[u] # Nil
LockoutOf(u) == [attempts |-> userRow[u].attempts, lockedUntil |-> userRow[u].lockedUntil]
\* Faulty TokensOf: the cascade forgets tokens that were used.
LiveTokensOf(u) == {t \in Tokens : resetToken[t] # Nil /\ resetToken[t].owner = u /\ ~resetToken[t].used}
TokensOf(u) == {t \in Tokens : resetToken[t] # Nil /\ resetToken[t].owner = u}

First(t, S) == t \in S /\ \A o \in S : t <= o

\* The rows the next statement of r locks: the user row, and of the token rows
\* the next one of a flush, the one being marked, or those of the cascade.
WantsUser(r) ==
  \/ req[r].at \in {"loginFailed", "loginPassed", "setPassword", "revoke"}
  \/ req[r].at = "retire" /\ req[r].todo = {}

WantsTokens(r) ==
  {t \in Tokens :
     \/ req[r].at = "retire" /\ First(t, req[r].todo)
     \/ req[r].at = "markUsed" /\ t = req[r].token
     \/ req[r].at = "cascade" /\ t \in TokensOf(req[r].user) \ req[r].held}

\* The requests whose locks the next statement of r waits for.  A deleter keeps
\* the user row locked from its DELETE to its COMMIT.
WaitsFor(r) ==
  {s \in Requests \ {r} :
     \/ req[s].held \cap WantsTokens(r) # {}
     \/ WantsUser(r) /\ req[s].at = "cascade" /\ req[s].user = req[r].user}

Begin(r, local) == req[r].at = "idle" /\ req' = [req EXCEPT ![r] = local]
Goto(r, local) == req' = [req EXCEPT ![r] = local]
Finish(r) == req' = [req EXCEPT ![r] = Idle]
Abort(r) == Finish(r) /\ UNCHANGED <<store, history, now>>

Saturate(n, top) == IF n < top THEN n + 1 ELSE n

-----------------------------------------------------------------------------
(* authenticate_user                                                       *)

Locked(row, t) == row.lockedUntil # Null /\ row.lockedUntil > t

\* Faulty Failed: locks one miss early.
FailedOffByOne(row, seen, t) ==
  [row EXCEPT !.attempts = seen.attempts + 1,
              !.lockedUntil = IF seen.attempts + 2 >= MaxAttempts THEN t + LockDuration ELSE row.lockedUntil]

\* The row after the UPDATE of a failed login that had read `seen'.
Failed(row, seen, t) ==
  [row EXCEPT
     !.attempts = seen.attempts + 1,
     !.lockedUntil = IF seen.attempts + 1 >= MaxAttempts THEN t + LockDuration ELSE row.lockedUntil]

\* Faulty Cleared: None instead of 0.
ClearedToNone(row, seen) == [row EXCEPT !.attempts = Nil, !.lockedUntil = Null]
\* Faulty Cleared: the lock stays.
ClearedCounterOnly(row, seen) == [row EXCEPT !.attempts = 0]

\* The row after attempts := 0 and locked_until := None by a request that had
\* read `seen': a column that already had the value is not written.
Cleared(row, seen) ==
  [row EXCEPT
     !.attempts = IF seen.attempts # 0 THEN 0 ELSE row.attempts,
     !.lockedUntil = IF seen.lockedUntil # Null THEN Null ELSE row.lockedUntil]

\* The SELECT, the lock check and the password check.  An unknown or locked
\* account ends the request here and changes nothing.
Login(r, u, p) ==
  /\ Exists(u)
  /\ ~Locked(userRow[u], now)
  /\ Begin(r, [Idle EXCEPT
                 !.at = IF p = userRow[u].password THEN "loginPassed" ELSE "loginFailed",
                 !.user = u, !.seen = LockoutOf(u), !.clock = now])
  /\ UNCHANGED <<store, history, now>>

CommitFailedLogin(r) ==
  LET me == req[r]
      u == me.user
  IN
  /\ me.at = "loginFailed"
  /\ WaitsFor(r) = {}
  /\ \/ ~Exists(u) /\ Abort(r)
     \/ /\ Exists(u)
        /\ userRow' = [userRow EXCEPT ![u] = Failed(@, me.seen, me.clock)]
        /\ misses' = [misses EXCEPT ![u] = Saturate(@, MaxAttempts)]
        /\ streak' = [streak EXCEPT ![u] = Saturate(@, MaxAttempts)]
        /\ Finish(r)
        /\ UNCHANGED <<resetToken, mailed, minted, known, changes, now>>

\* With nothing to clear no UPDATE is sent: the COMMIT waits for nobody and
\* succeeds even when the row is gone.
CommitPassedLogin(r) ==
  LET me == req[r]
      u == me.user
      dirty == me.seen.attempts # 0 \/ me.seen.lockedUntil # Null
  IN
  /\ me.at = "loginPassed"
  /\ dirty => WaitsFor(r) = {}
  /\ \/ ~Exists(u) /\ Abort(r)
     \/ /\ Exists(u)
        /\ userRow' = [userRow EXCEPT ![u] = Cleared(@, me.seen)]
        /\ streak' = [streak EXCEPT ![u] = 0]
        /\ Finish(r)
        /\ UNCHANGED <<resetToken, mailed, minted, known, misses, changes, now>>

-----------------------------------------------------------------------------
(* request_password_reset and the mail the router sends after it           *)

\* Bound: every reset request in flight will find a token to insert.
TokenLeft ==
  Cardinality({r \in Requests : req[r].at \in {"collect", "retire"}}) < Cardinality(Tokens \ minted)

RequestReset(r, u) ==
  /\ Exists(u)
  /\ TokenLeft
  /\ Begin(r, [Idle EXCEPT !.at = "collect", !.user = u])
  /\ UNCHANGED <<store, history, now>>

Unused(u) == {t \in TokensOf(u) : ~resetToken[t].used}

CollectUnused(r) ==
  /\ req[r].at = "collect"
  /\ Goto(r, [req[r] EXCEPT !.at = "retire", !.todo = Unused(req[r].user),
                            !.known = TokensOf(req[r].user)])
  /\ UNCHANGED <<store, history, now>>

\* The flush: one UPDATE per collected token, in primary-key order.
RetireToken(r) ==
  LET me == req[r] IN
  /\ me.at = "retire"
  /\ WaitsFor(r) = {}
  /\ \E t \in me.todo :
       /\ First(t, me.todo)
       /\ IF resetToken[t] = Nil
          THEN Finish(r)
          ELSE Goto(r, [me EXCEPT !.todo = @ \ {t}, !.held = @ \cup {t}])
  /\ UNCHANGED <<store, history, now>>

\* Faulty MarkUsed: the flag is not saved.
MarkUsedNowhere(S) == resetToken
MarkUsed(S) == [t \in Tokens |-> IF t \in S THEN [resetToken[t] EXCEPT !.used = TRUE] ELSE resetToken[t]]

\* The INSERT, whose foreign key needs the user row, and the COMMIT.
InsertToken(r) ==
  LET me == req[r]
      u == me.user
  IN
  /\ me.at = "retire"
  /\ me.todo = {}
  /\ WaitsFor(r) = {}
  /\ \/ ~Exists(u) /\ Abort(r)
     \/ /\ Exists(u)
        /\ \E t \in Tokens \ minted :
             /\ resetToken' = [MarkUsed(me.held) EXCEPT
                                 ![t] = [owner |-> u, used |-> FALSE, expiresAt |-> now + ResetTtl]]
             /\ minted' = minted \cup {t}
             /\ known' = [known EXCEPT ![t] = me.known]
             /\ Goto(r, [Idle EXCEPT !.at = "mail", !.user = u, !.token = t])
        /\ UNCHANGED <<userRow, mailed, history, now>>

\* forgot_password looks the user up again and sends the mail; a failure to
\* send is only logged.
MailToken(r) ==
  /\ req[r].at = "mail"
  /\ \/ Exists(req[r].user) /\ mailed' = mailed \cup {req[r].token}
     \/ UNCHANGED mailed
  /\ Finish(r)
  /\ UNCHANGED <<userRow, resetToken, minted, known, history, now>>

-----------------------------------------------------------------------------
(* complete_password_reset                                                 *)

\* Faulty Live: a token that was used is accepted until it expires.
LiveThoughUsed(t) == resetToken[t] # Nil /\ resetToken[t].expiresAt > now
Live(t) == resetToken[t] # Nil /\ ~resetToken[t].used /\ resetToken[t].expiresAt > now

CompleteReset(r, t, p) ==
  /\ t \in mailed
  /\ Live(t)
  /\ Begin(r, [Idle EXCEPT !.at = "markUsed", !.user = resetToken[t].owner, !.token = t, !.given = p])
  /\ UNCHANGED <<store, history, now>>

\* used = True, sent by the autoflush of the next SELECT: by primary key alone,
\* whatever `used' has become since the token was read.
MarkTokenUsed(r) ==
  LET me == req[r] IN
  /\ me.at = "markUsed"
  /\ WaitsFor(r) = {}
  /\ IF resetToken[me.token] = Nil
     THEN Finish(r)
     ELSE Goto(r, [me EXCEPT !.at = "readOwner", !.held = {me.token}])
  /\ UNCHANGED <<store, history, now>>

ReadTokenOwner(r) ==
  LET me == req[r] IN
  /\ me.at = "readOwner"
  /\ IF Exists(me.user)
     THEN Goto(r, [me EXCEPT !.at = "setPassword", !.seen = LockoutOf(me.user)])
     ELSE Finish(r)
  /\ UNCHANGED <<store, history, now>>

SetPassword(r) ==
  LET me == req[r]
      u == me.user
  IN
  /\ me.at = "setPassword"
  /\ WaitsFor(r) = {}
  /\ \/ ~Exists(u) /\ Abort(r)
     \/ /\ Exists(u)
        /\ userRow' = [userRow EXCEPT ![u] = [Cleared(@, me.seen) EXCEPT !.password = me.given]]
        /\ resetToken' = MarkUsed(me.held)
        /\ streak' = [streak EXCEPT ![u] = 0]
        /\ changes' = [changes EXCEPT ![me.token] = Saturate(@, 2)]
        /\ Finish(r)
        /\ UNCHANGED <<mailed, minted, known, misses, now>>

-----------------------------------------------------------------------------
(* delete_account: the password check against the row get_current_user     *)
(* read, the revocations at the providers, the DELETE and its cascade      *)

DeleteAccount(r, u, p) ==
  /\ Exists(u)
  /\ p = userRow[u].password
  /\ Begin(r, [Idle EXCEPT !.at = "revoke", !.user = u])
  /\ UNCHANGED <<store, history, now>>

\* A DELETE that matches no row is only a warning: the request still commits.
DeleteUserRow(r) ==
  LET me == req[r] IN
  /\ me.at = "revoke"
  /\ WaitsFor(r) = {}
  /\ IF Exists(me.user) THEN Goto(r, [me EXCEPT !.at = "cascade"]) ELSE Finish(r)
  /\ UNCHANGED <<store, history, now>>

\* The ON DELETE CASCADE locks the token rows one by one, in the order of the
\* scan; the account and its tokens disappear together at the COMMIT.
CascadeToToken(r) ==
  LET me == req[r] IN
  /\ me.at = "cascade"
  /\ \E t \in TokensOf(me.user) \ me.held :
       /\ \A s \in Requests : t \notin req[s].held
       /\ Goto(r, [me EXCEPT !.held = @ \cup {t}])
  /\ UNCHANGED <<store, history, now>>

CommitDeletion(r) ==
  LET me == req[r] IN
  /\ me.at = "cascade"
  /\ TokensOf(me.user) \subseteq me.held
  /\ userRow' = [userRow EXCEPT ![me.user] = Nil]
  /\ resetToken' = [t \in Tokens |-> IF t \in me.held THEN Nil ELSE resetToken[t]]
  /\ Finish(r)
  /\ UNCHANGED <<mailed, minted, known, history, now>>

-----------------------------------------------------------------------------
(* The environment                                                         *)

\* Faulty InCycle: no deadlock detection.
InCycleNever(r) == FALSE

\* PostgreSQL aborts a transaction of a cycle of waiting transactions.
InCycle(r) ==
  \E s \in WaitsFor(r) : r \in WaitsFor(s) \/ \E q \in WaitsFor(s) : r \in WaitsFor(q)

BreakDeadlock(r) == InCycle(r) /\ Abort(r)

\* The server stops and is restarted: open transactions are rolled back, mails
\* not yet sent are lost.
Restart ==
  /\ \E r \in Requests : req[r].at # "idle"
  /\ req' = [r \in Requests |-> Idle]
  /\ UNCHANGED <<store, history, now>>

Tick ==
  /\ now < MaxTime
  /\ now' = now + 1
  /\ UNCHANGED <<store, history, req>>

\* What a request in flight does next.
Proceed(r) ==
  \/ CommitFailedLogin(r)
  \/ CommitPassedLogin(r)
  \/ CollectUnused(r)
  \/ RetireToken(r)
  \/ InsertToken(r)
  \/ MailToken(r)
  \/ MarkTokenUsed(r)
  \/ ReadTokenOwner(r)
  \/ SetPassword(r)
  \/ DeleteUserRow(r)
  \/ CascadeToToken(r)
  \/ CommitDeletion(r)

Arrive(r) ==
  \/ \E u \in Users, p \in Passwords : Login(r, u, p) \/ DeleteAccount(r, u, p)
  \/ \E u \in Users : RequestReset(r, u)
  \/ \E t \in Tokens, p \in Passwords : CompleteReset(r, t, p)

Next ==
  \/ \E r \in Requests : Arrive(r) \/ Proceed(r) \/ BreakDeadlock(r)
  \/ Restart
  \/ Tick

Spec == Init /\ [][Next]_vars

\* The event loop resumes every handler whose statement has returned, lock
\* queues are served in order and the deadlock detector runs: no request is
\* passed over for ever.  Nothing obliges clients, the clock or a crash.
Fairness == \A r \in Requests : SF_vars(Proceed(r)) /\ WF_vars(BreakDeadlock(r))
FairSpec == Spec /\ Fairness

-----------------------------------------------------------------------------
(* What holds however the requests interleave.                             *)

\* An account is locked only after MaxAttempts wrong passwords were committed
\* against it (user_service.authenticate_user): counters rewound or locks
\* written from stale copies never lock an account that was not missed often
\* enough since it was created.
LockNeedsMisses ==
  \A u \in Users : Exists(u) /\ userRow[u].lockedUntil # Null => misses[u] = MaxAttempts

\* "Invalidate any existing unused tokens" (request_password_reset) as far as
\* it goes: of the tokens a request found, none is usable once the token it
\* inserted exists, whoever used, retired or deleted them meanwhile.
OlderTokensRetired ==
  \A t \in Tokens : resetToken[t] # Nil =>
    \A o \in known[t] : resetToken[o] # Nil => resetToken[o].used

\* No reset token outlives its account, although delete_account and
\* request_password_reset check for each other's rows at different moments.
\* Proved on its own; the run checks DeskSpec, which says more.
TokensHaveOwners ==
  \A t \in Tokens : resetToken[t] # Nil => Exists(resetToken[t].owner)

\* A password changes only in the transaction that uses up a mailed token of
\* the same account (complete_password_reset): a restart, a deadlock or a
\* stale login never leaves one without the other.  Proved on its own, as above.
PasswordPaidByToken ==
  [][\A u \in Users :
       Exists(u) /\ Exists(u)' /\ userRow[u].password # userRow'[u].password =>
         \E t \in mailed : /\ resetToken'[t] # Nil
                           /\ resetToken'[t].owner = u
                           /\ resetToken'[t].used]_vars

\* Password recovery is what ResetDesk promises, however its requests overlap: a
\* token pays once for each request that found it live, and never for one that
\* came after it was used, replaced or deleted (request_password_reset,
\* complete_password_reset, delete_account).
Desk == INSTANCE ResetDesk WITH
  password <- [u \in Users |-> IF Exists(u) THEN userRow[u].password ELSE Nil],
  ticket <- [t \in Tokens |->
               IF resetToken[t] = Nil THEN Nil
               ELSE [owner |-> resetToken[t].owner, live |-> ~resetToken[t].used]],
  delivered <- mailed,
  claim <- [r \in Requests |->
              IF req[r].at \in {"markUsed", "readOwner", "setPassword"} THEN req[r].token ELSE Nil],
  order <- [r \in Requests |->
              IF req[r].at = "retire" THEN [owner |-> req[r].user, replaces |-> req[r].known] ELSE Nil]
ASSUME DeskAssumption == Nil \notin Desk!Slip
DeskSpec == Desk!Spec

\* While requests are in flight, one of them can go on or is in a cycle that
\* the deadlock detector ends: a flush locks tokens one by one and then refers
\* to the user row, a reset has its token and wants that row, a deletion has
\* the row and takes the tokens in any order (request_password_reset,
\* complete_password_reset, delete_account).
NoStandstill ==
  (\E r \in Requests : req[r].at # "idle") =>
    \E r \in Requests : req[r].at # "idle" /\ (WaitsFor(r) = {} \/ InCycle(r))

\* Every request ends, although deleters and resets take the row locks of users
\* and tokens in opposite orders.
RequestsFinish == \A r \in Requests : []<>(req[r].at = "idle")

-----------------------------------------------------------------------------
(* What holds as long as the requests of one account do not overlap.       *)

\* Every client waits for the answer before it asks again for the same account;
\* the requests of different accounts still interleave.
OneAtATime == \A r, s \in Requests : req[r].user # Nil /\ req[r].user = req[s].user => r = s

\* The counter counts the wrong passwords since the last login or reset, and
\* the lock is set exactly when it has reached the limit.
CounterIsStreak ==
  \A u \in Users : Exists(u) =>
    /\ streak[u] = IF userRow[u].attempts < MaxAttempts THEN userRow[u].attempts ELSE MaxAttempts
    /\ userRow[u].lockedUntil # Null <=> userRow[u].attempts >= MaxAttempts

\* "Invalidate any existing unused tokens for this user": an account never has
\* two tokens that a reset would accept.
OneLiveToken ==
  \A t, o \in Tokens : Live(t) /\ Live(o) /\ resetToken[t].owner = resetToken[o].owner => t = o

\* "Mark token as used": a token pays for one password change.
TokenSpentOnce == \A t \in Tokens : changes[t] <= 1

\* For such clients password recovery is what ResetLedger promises.
Ledger == INSTANCE ResetLedger WITH
  password <- [u \in Users |-> IF Exists(u) THEN userRow[u].password ELSE Nil],
  ticket <- [t \in Tokens |->
               IF resetToken[t] = Nil THEN Nil
               ELSE [owner |-> resetToken[t].owner, live |-> ~resetToken[t].used]]
ASSUME LedgerAssumption == Nil \notin Ledger!Ticket
LedgerSpec == Ledger!Spec
=============================================================================
