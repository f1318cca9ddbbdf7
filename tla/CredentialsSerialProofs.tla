----------------------- MODULE CredentialsSerialProofs -----------------------
(***************************************************************************)
(* What Credentials does for clients that wait: proofs about behaviours in *)
(* which the requests of one account never overlap, while those of         *)
(* different accounts interleave as they like.                             *)
(***************************************************************************)
EXTENDS CredentialsProofs

-----------------------------------------------------------------------------
(* The inductive invariant.                                                *)

\* What a request remembers of its own account is still so.
Current(me) ==
  /\ me.at \in {"loginFailed", "loginPassed", "setPassword"} /\ Exists(me.user) =>
       me.seen = LockoutOf(me.user)
  /\ me.at = "collect" => me.held = {}
  /\ me.at = "retire" =>
       /\ me.todo \cup me.held \subseteq me.known
       /\ \A t \in me.known : resetToken[t] # Nil => resetToken[t].owner = me.user
       /\ \A t \in TokensOf(me.user) : resetToken[t].used \/ t \in me.todo \cup me.held
  /\ me.at \in {"markUsed", "readOwner", "setPassword"} =>
       (resetToken[me.token] # Nil => ~resetToken[me.token].used)
  /\ me.at = "cascade" => Exists(me.user) /\ me.held \subseteq TokensOf(me.user)

\* An account has at most one token that was not used, expired or not.
OneUnused ==
  \A t, o \in Tokens :
    /\ resetToken[t] # Nil /\ ~resetToken[t].used
    /\ resetToken[o] # Nil /\ ~resetToken[o].used
    /\ resetToken[t].owner = resetToken[o].owner
    => t = o

\* A token that has paid is marked used for as long as it has a row.
Spent(t) ==
  changes[t] # 0 => changes[t] = 1 /\ t \in minted /\ (resetToken[t] # Nil => resetToken[t].used)

CounterOK(u) ==
  Exists(u) =>
    /\ streak[u] = IF userRow[u].attempts < MaxAttempts THEN userRow[u].attempts ELSE MaxAttempts
    /\ userRow[u].lockedUntil # Null <=> userRow[u].attempts >= MaxAttempts

SInv ==
  /\ PInv
  /\ \A r \in Requests : Current(req[r])
  /\ OneUnused
  /\ \A t \in Tokens : Spent(t)
  /\ \A u \in Users : CounterOK(u)

LEMMA InitSInv == Init => SInv
  <1> SUFFICES ASSUME Init PROVE SInv
    OBVIOUS
  <1>1. \A r \in Requests : Current(req[r])
    BY DEF Init, Current, Idle
  <1>2. OneUnused /\ \A t \in Tokens : Spent(t)
    BY DEF Init, OneUnused, Spent
  <1>3. \A u \in Users : CounterOK(u)
    BY LimitsAssumption DEF Init, CounterOK, Exists, Null
  <1> QED
    BY <1>1, <1>2, <1>3, InitPInv DEF SInv

-----------------------------------------------------------------------------
(* What each commit does.                                                  *)

LEMMA LoginEffect ==
  ASSUME SInv, NEW r \in Requests, ~Abort(r), CommitFailedLogin(r) \/ CommitPassedLogin(r)
  PROVE  \E u \in Users :
         /\ u = req[r].user /\ Exists(u) /\ userRow[u] \in UserRow
         /\ UNCHANGED <<resetToken, minted, changes>>
         /\ userRow'[u] \in UserRow /\ userRow'[u].password = userRow[u].password
         /\ \A v \in Users : v # u => userRow'[v] = userRow[v] /\ streak'[v] = streak[v]
         /\ CounterOK(u)'
  <1> DEFINE me == req[r]
  <1> PICK u \in Users : u = me.user
    BY DEF CommitFailedLogin, CommitPassedLogin, SInv, PInv, TInv, LocalOK
  <1>1. /\ Exists(u) /\ me.at \in {"loginFailed", "loginPassed"} /\ LocalOK(me) /\ Current(me)
        /\ UNCHANGED <<resetToken, minted, changes>>
    BY DEF CommitFailedLogin, CommitPassedLogin, SInv, PInv, TInv
  <1>2. u \in Users /\ me.seen = LockoutOf(u) /\ me.seen \in Lockout /\ me.clock \in Nat
    BY <1>1 DEF LocalOK, Current, SInv, PInv, TInv, TypeOK, Local
  <1>3. userRow[u] \in UserRow /\ userRow \in [Users -> UserRow \cup {Nil}] /\ streak \in [Users -> 0 .. MaxAttempts]
    BY <1>1, <1>2 DEF Exists, SInv, PInv, TInv, TypeOK
  <1>4. /\ me.seen.attempts = userRow[u].attempts /\ me.seen.lockedUntil = userRow[u].lockedUntil
        /\ userRow[u].attempts \in Nat /\ userRow[u].lockedUntil \in Nat
    BY <1>2, <1>3 DEF LockoutOf, UserRow
  <1>5. CounterOK(u)
    BY <1>2 DEF SInv
  <1>6. CASE CommitFailedLogin(r)
    <2> DEFINE row == Failed(userRow[u], me.seen, me.clock)
    <2>1. userRow' = [userRow EXCEPT ![u] = row] /\ streak' = [streak EXCEPT ![u] = Saturate(streak[u], MaxAttempts)]
      BY <1>6 DEF CommitFailedLogin
    <2>2. row \in UserRow
      BY <1>2, <1>3, FailedType
    <2>3. /\ row.password = userRow[u].password
          /\ row.attempts = userRow[u].attempts + 1
          /\ row.lockedUntil = IF userRow[u].attempts + 1 >= MaxAttempts THEN me.clock + LockDuration
                               ELSE userRow[u].lockedUntil
      BY <1>3, <1>4 DEF Failed, UserRow
    <2>4. userRow'[u] = row /\ streak'[u] = Saturate(streak[u], MaxAttempts)
      BY <1>2, <1>3, <2>1
    <2>5. CounterOK(u)'
      <3>1. streak[u] = IF userRow[u].attempts < MaxAttempts THEN userRow[u].attempts ELSE MaxAttempts
        BY <1>1, <1>5 DEF CounterOK
      <3>2. userRow[u].lockedUntil # Null <=> userRow[u].attempts >= MaxAttempts
        BY <1>1, <1>5 DEF CounterOK
      <3>3. streak'[u] = IF row.attempts < MaxAttempts THEN row.attempts ELSE MaxAttempts
        BY <1>4, <2>3, <2>4, <3>1, LimitsAssumption DEF Saturate
      <3>4. row.lockedUntil # Null <=> row.attempts >= MaxAttempts
        BY <1>2, <1>4, <2>3, <3>2, LimitsAssumption DEF Null
      <3> QED
        BY <2>4, <3>3, <3>4 DEF CounterOK
    <2> QED
      BY <1>1, <1>2, <1>3, <2>1, <2>2, <2>3, <2>4, <2>5
  <1>7. CASE CommitPassedLogin(r)
    <2> DEFINE row == Cleared(userRow[u], me.seen)
    <2>1. userRow' = [userRow EXCEPT ![u] = row] /\ streak' = [streak EXCEPT ![u] = 0]
      BY <1>7 DEF CommitPassedLogin
    <2>2. row \in UserRow
      BY <1>2, <1>3, ClearedType
    <2>3. row.password = userRow[u].password /\ row.attempts = 0 /\ row.lockedUntil = Null
      BY <1>3, <1>4 DEF Cleared, UserRow
    <2>4. userRow'[u] = row /\ streak'[u] = 0
      BY <1>2, <1>3, <2>1
    <2>5. CounterOK(u)'
      BY <2>3, <2>4, LimitsAssumption DEF CounterOK
    <2> QED
      BY <1>1, <1>2, <1>3, <2>1, <2>2, <2>3, <2>4, <2>5
  <1> QED
    BY <1>6, <1>7

LEMMA MarkUsedExactly ==
  ASSUME TInv, NEW S \in SUBSET Tokens, \A t \in S : resetToken[t] # Nil, NEW o \in Tokens
  PROVE  /\ MarkUsed(S)[o] # Nil <=> resetToken[o] # Nil
         /\ MarkUsed(S)[o].owner = resetToken[o].owner \/ resetToken[o] = Nil
         /\ o \in S => MarkUsed(S)[o].used
         /\ o \notin S => MarkUsed(S)[o] = resetToken[o]
  <1>1. /\ MarkUsed(S)[o] # Nil <=> resetToken[o] # Nil
        /\ MarkUsed(S)[o].owner = resetToken[o].owner \/ resetToken[o] = Nil
    BY MarkUsedOwned
  <1>2. o \in S => MarkUsed(S)[o].used
    BY <1>1, MarkUsedAges
  <1>3. o \notin S => MarkUsed(S)[o] = resetToken[o]
    BY DEF MarkUsed
  <1> QED
    BY <1>1, <1>2, <1>3

LEMMA InsertEffect ==
  ASSUME SInv, NEW r \in Requests, ~Abort(r), InsertToken(r)
  PROVE  \E u \in Users, t \in Tokens \ minted :
         /\ u = req[r].user /\ Exists(u)
         /\ UNCHANGED <<userRow, streak, changes>> /\ minted' = minted \cup {t}
         /\ resetToken[t] = Nil
         /\ resetToken'[t] # Nil /\ resetToken'[t].owner = u /\ ~resetToken'[t].used
         /\ \A o \in Tokens : o # t => (resetToken'[o] # Nil <=> resetToken[o] # Nil)
         /\ \A o \in Tokens : o # t /\ o \notin TokensOf(u) => resetToken'[o] = resetToken[o]
         /\ \A o \in TokensOf(u) : resetToken'[o].owner = u /\ resetToken'[o].used
  <1> DEFINE me == req[r]
  <1> PICK u \in Users : u = me.user
    BY DEF InsertToken, SInv, PInv, TInv, LocalOK
  <1> DEFINE fresh == [owner |-> u, used |-> FALSE, expiresAt |-> now + ResetTtl]
             S == me.held
  <1>1. me.at = "retire" /\ me.todo = {} /\ Current(me) /\ PathOK(me) /\ Exists(u)
    BY DEF InsertToken, SInv, PInv
  <1>2. S \in SUBSET Tokens /\ (\A t \in S : resetToken[t] # Nil) /\ TInv
    BY HeldRows DEF SInv, PInv
  <1>3. S \subseteq TokensOf(u) /\ \A o \in TokensOf(u) : resetToken[o].used \/ o \in S
    BY <1>1, <1>2 DEF Current, TokensOf
  <1> PICK t \in Tokens \ minted :
        resetToken' = [MarkUsed(S) EXCEPT ![t] = fresh] /\ minted' = minted \cup {t}
    BY DEF InsertToken
  <1>4. UNCHANGED <<userRow, streak, changes>>
    BY DEF InsertToken, history
  <1>5. fresh \in TokenRow
    <2>1. now + ResetTtl \in Nat
      BY <1>2, LimitsAssumption DEF TInv, TypeOK
    <2> QED
      BY <2>1 DEF TokenRow
  <1>6. MarkUsed(S) \in [Tokens -> TokenRow \cup {Nil}]
    BY <1>2, MarkUsedOwned
  <1>7. resetToken[t] = Nil /\ t \notin TokensOf(u)
    BY DEF SInv, PInv, MintedOK, TokensOf
  <1>8. resetToken'[t] = fresh /\ fresh # Nil /\ fresh.owner = u /\ ~fresh.used
    BY <1>5, <1>6, NilAssumption
  <1>9. \A o \in Tokens : o # t => resetToken'[o] = MarkUsed(S)[o]
    BY <1>6
  <1>10. \A o \in TokensOf(u) : MarkUsed(S)[o].owner = u /\ MarkUsed(S)[o].used
    <2> TAKE o \in TokensOf(u)
    <2>1. o \in Tokens /\ resetToken[o] # Nil /\ resetToken[o].owner = u /\ (resetToken[o].used \/ o \in S)
      BY <1>3 DEF TokensOf
    <2> QED
      BY <1>2, <2>1, MarkUsedExactly
  <1>11. \A o \in Tokens : /\ (MarkUsed(S)[o] # Nil <=> resetToken[o] # Nil)
                            /\ (o \notin TokensOf(u) => MarkUsed(S)[o] = resetToken[o])
    BY <1>2, <1>3, MarkUsedExactly
  <1>12. /\ \A o \in Tokens : o # t => (resetToken'[o] # Nil <=> resetToken[o] # Nil)
         /\ \A o \in Tokens : o # t /\ o \notin TokensOf(u) => resetToken'[o] = resetToken[o]
    BY <1>9, <1>11
  <1>13. \A o \in TokensOf(u) : resetToken'[o].owner = u /\ resetToken'[o].used
    BY <1>7, <1>9, <1>10 DEF TokensOf
  <1> HIDE DEF fresh, S
  <1> QED
    BY <1>1, <1>4, <1>7, <1>8, <1>12, <1>13

LEMMA PasswordEffect ==
  ASSUME SInv, NEW r \in Requests, ~Abort(r), SetPassword(r)
  PROVE  \E u \in Users : \E t \in TokensOf(u) :
         /\ u = req[r].user /\ Exists(u) /\ ~resetToken[t].used
         /\ UNCHANGED minted
         /\ userRow'[u] \in UserRow /\ userRow'[u].password = req[r].given /\ req[r].given \in Passwords
         /\ \A v \in Users : v # u => userRow'[v] = userRow[v] /\ streak'[v] = streak[v]
         /\ changes'[t] = IF changes[t] < 2 THEN changes[t] + 1 ELSE 2
         /\ resetToken'[t] # Nil /\ resetToken'[t].owner = u /\ resetToken'[t].used
         /\ \A o \in Tokens : o # t => resetToken'[o] = resetToken[o] /\ changes'[o] = changes[o]
         /\ CounterOK(u)'
  <1> DEFINE me == req[r]
  <1>0. me.at = "setPassword" /\ Current(me) /\ PathOK(me) /\ LocalOK(me) /\ TInv
    BY DEF SetPassword, SInv, PInv, TInv
  <1> PICK u \in Users : u = me.user
    BY <1>0 DEF LocalOK
  <1> PICK t \in Tokens : t = me.token
    BY <1>0 DEF LocalOK
  <1>1. /\ Exists(u)
        /\ userRow' = [userRow EXCEPT ![u] = [Cleared(userRow[u], me.seen) EXCEPT !.password = me.given]]
        /\ resetToken' = MarkUsed(me.held) /\ UNCHANGED minted
        /\ streak' = [streak EXCEPT ![u] = 0]
        /\ changes' = [changes EXCEPT ![t] = Saturate(changes[t], 2)]
    BY DEF SetPassword
  <1>2. me.held = {t} /\ {t} \in SUBSET Tokens /\ \A o \in {t} : resetToken[o] # Nil
    BY <1>0, HeldRows DEF PathOK
  <1>3. resetToken[t].owner = u /\ ~resetToken[t].used /\ t \in TokensOf(u)
    BY <1>0, <1>2 DEF PathOK, Current, TokensOf
  <1>4. /\ userRow[u] \in UserRow /\ me.seen \in Lockout /\ me.given \in Passwords
        /\ userRow \in [Users -> UserRow \cup {Nil}] /\ streak \in [Users -> 0 .. MaxAttempts]
        /\ changes \in [Tokens -> 0 .. 2]
    BY <1>0, <1>1 DEF TInv, TypeOK, LocalOK, Exists
  <1>5. me.seen.attempts = userRow[u].attempts /\ me.seen.lockedUntil = userRow[u].lockedUntil
    BY <1>0, <1>1 DEF Current, LockoutOf
  <1> DEFINE cleared == Cleared(userRow[u], me.seen)
             row == [cleared EXCEPT !.password = me.given]
  <1>6. cleared \in UserRow /\ cleared.attempts = 0 /\ cleared.lockedUntil = Null
    <2>1. cleared \in UserRow
      BY <1>4, ClearedType
    <2>2. cleared.attempts = 0 /\ cleared.lockedUntil = Null
      BY <1>4, <1>5 DEF Cleared, UserRow
    <2> QED
      BY <2>1, <2>2
  <1> HIDE DEF cleared
  <1>7. row \in UserRow /\ row.password = me.given /\ row.attempts = 0 /\ row.lockedUntil = Null
    BY <1>4, <1>6 DEF UserRow
  <1>8. userRow'[u] = row /\ streak'[u] = 0
    BY <1>1, <1>4 DEF cleared
  <1>9. \A v \in Users : v # u => userRow'[v] = userRow[v] /\ streak'[v] = streak[v]
    BY <1>1, <1>4
  <1>10. CounterOK(u)'
    BY <1>7, <1>8, LimitsAssumption DEF CounterOK
  <1>11. changes'[t] = Saturate(changes[t], 2) /\ \A o \in Tokens : o # t => changes'[o] = changes[o]
    BY <1>1, <1>4
  <1>12. resetToken'[t] # Nil /\ resetToken'[t].owner = u /\ resetToken'[t].used
    <2>1. MarkUsed({t})[t] # Nil /\ MarkUsed({t})[t].owner = u
      BY <1>0, <1>2, <1>3, MarkUsedOwned
    <2>2. MarkUsed({t})[t].used
      BY <1>0, <1>2, <2>1, MarkUsedAges
    <2> QED
      BY <1>1, <1>2, <2>1, <2>2
  <1>13. \A o \in Tokens : o # t => resetToken'[o] = resetToken[o]
    BY <1>0, <1>1, <1>2, MarkUsedExactly
  <1>14. userRow'[u] \in UserRow /\ userRow'[u].password = me.given
    BY <1>7, <1>8
  <1>15. Exists(u) /\ UNCHANGED minted /\ me.given \in Passwords
    BY <1>1, <1>4
  <1>16. changes'[t] = IF changes[t] < 2 THEN changes[t] + 1 ELSE 2
    BY <1>4, <1>11 DEF Saturate
  <1> HIDE DEF row
  <1> QED
    BY <1>3, <1>9, <1>10, <1>11, <1>12, <1>13, <1>14, <1>15, <1>16

LEMMA DeletionEffect ==
  ASSUME SInv, NEW r \in Requests, CommitDeletion(r)
  PROVE  \E u \in Users :
         /\ u = req[r].user /\ Exists(u)
         /\ UNCHANGED <<minted, streak, changes>>
         /\ userRow'[u] = Nil
         /\ \A v \in Users : v # u => userRow'[v] = userRow[v]
         /\ \A o \in TokensOf(u) : resetToken'[o] = Nil
         /\ \A o \in Tokens : o \notin TokensOf(u) => resetToken'[o] = resetToken[o]
  <1>1. req[r].at = "cascade" /\ Current(req[r]) /\ LocalOK(req[r])
    BY DEF CommitDeletion, SInv, PInv, TInv
  <1> PICK u \in Users : u = req[r].user
    BY <1>1 DEF LocalOK
  <1>2. req[r].held = TokensOf(u) /\ Exists(u)
    BY <1>1 DEF Current, CommitDeletion
  <1>3. /\ userRow' = [userRow EXCEPT ![u] = Nil] /\ UNCHANGED <<minted, streak, changes>>
        /\ resetToken' = [t \in Tokens |-> IF t \in TokensOf(u) THEN Nil ELSE resetToken[t]]
    BY <1>2 DEF CommitDeletion, history
  <1>4. userRow \in [Users -> UserRow \cup {Nil}] /\ TokensOf(u) \subseteq Tokens
    BY DEF SInv, PInv, TInv, TypeOK, TokensOf
  <1> QED
    BY <1>2, <1>3, <1>4

-----------------------------------------------------------------------------
(* The requests of other accounts.                                         *)

\* What a step has done that account v cannot tell.
Spared(v) ==
  /\ userRow'[v] = userRow[v]
  /\ streak'[v] = streak[v]
  /\ TokensOf(v)' = TokensOf(v)
  /\ \A t \in TokensOf(v) : resetToken'[t] = resetToken[t]

\* A commit of request r, which touches its own account only.
OwnCommit(r) ==
  /\ req[r].user \in Users
  /\ \A v \in Users : v # req[r].user => Spared(v)
  /\ Finish(r) \/ req'[r].at = "mail"
  /\ \A s \in Requests : s # r => req'[s] = req[s]

LEMMA OthersSpared ==
  ASSUME SInv, [Next]_vars
  PROVE  Quiet \/ \E r \in Requests : OwnCommit(r)
  <1>0. TInv
    BY DEF SInv, PInv
  <1>1. ASSUME NEW r \in Requests, ~Abort(r), CommitFailedLogin(r) \/ CommitPassedLogin(r)
        PROVE  \A v \in Users : v # req[r].user => Spared(v)
    BY <1>1, LoginEffect DEF Spared, TokensOf
  <1>2. ASSUME NEW r \in Requests, ~Abort(r), InsertToken(r)
        PROVE  \A v \in Users : v # req[r].user => Spared(v)
    <2> PICK u \in Users, t \in Tokens \ minted :
           /\ u = req[r].user
           /\ UNCHANGED <<userRow, streak, changes>>
           /\ resetToken[t] = Nil
           /\ resetToken'[t] # Nil /\ resetToken'[t].owner = u
           /\ \A o \in Tokens : o # t /\ o \notin TokensOf(u) => resetToken'[o] = resetToken[o]
           /\ \A o \in TokensOf(u) : resetToken'[o].owner = u
      BY <1>2, InsertEffect
    <2> QED
      BY DEF Spared, TokensOf
  <1>3. ASSUME NEW r \in Requests, ~Abort(r), SetPassword(r)
        PROVE  \A v \in Users : v # req[r].user => Spared(v)
    <2> PICK u \in Users : \E t \in TokensOf(u) :
           /\ u = req[r].user
           /\ \A v \in Users : v # u => userRow'[v] = userRow[v] /\ streak'[v] = streak[v]
           /\ resetToken'[t].owner = u
           /\ \A o \in Tokens : o # t => resetToken'[o] = resetToken[o]
      BY <1>3, PasswordEffect
    <2> QED
      BY DEF Spared, TokensOf
  <1>4. ASSUME NEW r \in Requests, CommitDeletion(r)
        PROVE  \A v \in Users : v # req[r].user => Spared(v)
    <2> PICK u \in Users :
           /\ u = req[r].user
           /\ UNCHANGED streak
           /\ \A v \in Users : v # u => userRow'[v] = userRow[v]
           /\ \A o \in TokensOf(u) : resetToken'[o] = Nil
           /\ \A o \in Tokens : o \notin TokensOf(u) => resetToken'[o] = resetToken[o]
      BY <1>4, DeletionEffect
    <2> QED
      BY DEF Spared, TokensOf
  <1>5. ASSUME NEW r \in Requests,
               \/ ~Abort(r) /\ (CommitFailedLogin(r) \/ CommitPassedLogin(r))
               \/ ~Abort(r) /\ InsertToken(r)
               \/ ~Abort(r) /\ SetPassword(r)
               \/ CommitDeletion(r)
        PROVE  /\ req[r].user \in Users
               /\ Finish(r) \/ req'[r].at = "mail"
               /\ \A s \in Requests : s # r => req'[s] = req[s]
    <2>1. req \in [Requests -> Local] /\ LocalOK(req[r])
      BY <1>0 DEF TInv, TypeOK
    <2>2. req[r].at # "idle"
      BY <1>5 DEF CommitFailedLogin, CommitPassedLogin, InsertToken, SetPassword, CommitDeletion
    <2>3. Finish(r) \/ \E t \in Tokens : Goto(r, [Idle EXCEPT !.at = "mail", !.user = req[r].user, !.token = t])
      BY <1>5 DEF CommitFailedLogin, CommitPassedLogin, InsertToken, SetPassword, CommitDeletion
    <2>4. CASE Finish(r)
      BY <2>1, <2>2, <2>4 DEF LocalOK, Finish
    <2>5. ASSUME NEW t \in Tokens, Goto(r, [Idle EXCEPT !.at = "mail", !.user = req[r].user, !.token = t])
          PROVE  req'[r].at = "mail" /\ \A s \in Requests : s # r => req'[s] = req[s]
      BY <2>1, <2>5 DEF Goto, Idle
    <2> QED
      BY <2>1, <2>2, <2>3, <2>4, <2>5 DEF LocalOK
  <1> QED
    BY <1>1, <1>2, <1>3, <1>4, <1>5, WhoWrites DEF OwnCommit

\* A request remembers rightly what nobody has touched.
LEMMA SparedCurrent ==
  ASSUME Aging, NEW v \in Users, Spared(v), NEW me \in Local, me.user = v, Current(me), PathOK(me), LocalOK(me)
  PROVE  Current(me)'
  <1>1. me.at \in {"loginFailed", "loginPassed", "setPassword"} /\ Exists(v)' => me.seen = LockoutOf(v)'
    BY DEF Spared, Current, Exists, LockoutOf
  <1>2. me.at = "retire" =>
       /\ me.todo \cup me.held \subseteq me.known
       /\ \A t \in me.known : resetToken'[t] # Nil => resetToken'[t].owner = v
       /\ \A t \in TokensOf(v)' : resetToken'[t].used \/ t \in me.todo \cup me.held
    BY DEF Spared, Current, PathOK, Aging
  <1>3. me.at \in {"markUsed", "readOwner", "setPassword"} /\ resetToken'[me.token] # Nil => ~resetToken'[me.token].used
    <2> SUFFICES ASSUME me.at \in {"markUsed", "readOwner", "setPassword"}, resetToken'[me.token] # Nil
                 PROVE  ~resetToken'[me.token].used
      OBVIOUS
    <2>1. me.token \in minted /\ resetToken[me.token] # Nil /\ resetToken[me.token].owner = v
      BY DEF PathOK, Aging
    <2>2. me.token \in Tokens
      BY DEF LocalOK
    <2> QED
      BY <2>1, <2>2 DEF Spared, TokensOf, Current
  <1>4. me.at = "collect" => me.held = {}
    BY DEF Current
  <1>5. me.at = "cascade" => Exists(v)' /\ me.held \subseteq TokensOf(v)'
    BY DEF Spared, Current, Exists
  <1> QED
    BY <1>1, <1>2, <1>3, <1>4, <1>5 DEF Current

\* What a request reads is so when it has read it.
LEMMA QuietCurrent ==
  ASSUME SInv, Quiet, NEW me \in Local, Current(me)
  PROVE  Current(me)'
  BY DEF Quiet, Current, Exists, LockoutOf, TokensOf

LEMMA ArriveCurrent ==
  ASSUME SInv, NEW r \in Requests, Arrive(r)
  PROVE  \E l \in Local : Goto(r, l) /\ Current(l)
  <1>0. TInv
    BY DEF SInv, PInv
  <1>1. ASSUME NEW u \in Users, NEW p \in Passwords, Login(r, u, p) PROVE \E l \in Local : Goto(r, l) /\ Current(l)
    <2> DEFINE l == [Idle EXCEPT !.at = IF p = userRow[u].password THEN "loginPassed" ELSE "loginFailed",
                                 !.user = u, !.seen = LockoutOf(u), !.clock = now]
    <2>1. LockoutOf(u) \in Lockout
      BY <1>0, <1>1 DEF Login, LockoutOf, Lockout, Exists, TInv, TypeOK, UserRow
    <2>2. l \in Local /\ Current(l)
      BY <1>0, <2>1 DEF Idle, Local, Current, Steps, TInv, TypeOK
    <2>3. Goto(r, l)
      BY <1>1 DEF Login, Begin, Goto
    <2> QED
      BY <2>2, <2>3
  <1>2. ASSUME NEW u \in Users, NEW p \in Passwords, DeleteAccount(r, u, p) PROVE \E l \in Local : Goto(r, l) /\ Current(l)
    <2> DEFINE l == [Idle EXCEPT !.at = "revoke", !.user = u]
    <2>1. l \in Local /\ Current(l)
      BY DEF Idle, Local, Current, Steps
    <2>2. Goto(r, l)
      BY <1>2 DEF DeleteAccount, Begin, Goto
    <2> QED
      BY <2>1, <2>2
  <1>3. ASSUME NEW u \in Users, RequestReset(r, u) PROVE \E l \in Local : Goto(r, l) /\ Current(l)
    <2> DEFINE l == [Idle EXCEPT !.at = "collect", !.user = u]
    <2>1. l \in Local /\ Current(l)
      BY DEF Idle, Local, Current, Steps
    <2>2. Goto(r, l)
      BY <1>3 DEF RequestReset, Begin, Goto
    <2> QED
      BY <2>1, <2>2
  <1>4. ASSUME NEW t \in Tokens, NEW p \in Passwords, CompleteReset(r, t, p) PROVE \E l \in Local : Goto(r, l) /\ Current(l)
    <2> DEFINE l == [Idle EXCEPT !.at = "markUsed", !.user = resetToken[t].owner, !.token = t, !.given = p]
    <2>1. resetToken[t].owner \in Users /\ ~resetToken[t].used
      BY <1>0, <1>4 DEF CompleteReset, Live, TInv, TypeOK, TokenRow
    <2>2. l \in Local /\ Current(l)
      BY <2>1 DEF Idle, Local, Current, Steps
    <2>3. Goto(r, l)
      BY <1>4 DEF CompleteReset, Begin, Goto
    <2> QED
      BY <2>2, <2>3
  <1> QED
    BY <1>1, <1>2, <1>3, <1>4 DEF Arrive

LEMMA MoveCurrent ==
  ASSUME SInv, NEW r \in Requests,
         CollectUnused(r) \/ RetireToken(r) \/ MarkTokenUsed(r) \/ ReadTokenOwner(r)
           \/ DeleteUserRow(r) \/ CascadeToToken(r)
  PROVE  Finish(r) \/ \E l \in Local : Goto(r, l) /\ Current(l)
  <1> DEFINE me == req[r]
  <1>0. me \in Local /\ LocalOK(me) /\ Current(me) /\ PathOK(me) /\ TInv
    BY DEF SInv, PInv, TInv, TypeOK
  <1>1. CASE CollectUnused(r)
    <2> DEFINE l == [me EXCEPT !.at = "retire", !.todo = Unused(me.user), !.known = TokensOf(me.user)]
    <2>1. l \in Local
      BY <1>0 DEF Local, Steps, Unused, TokensOf
    <2>2. l.at = "retire" /\ l.todo = Unused(l.user) /\ l.known = TokensOf(l.user) /\ l.held = {}
      BY <1>0, <1>1 DEF Local, Current, CollectUnused
    <2>3. Goto(r, l)
      BY <1>1 DEF CollectUnused
    <2> HIDE DEF l
    <2>4. Current(l)
      BY <2>2 DEF Current, Unused, TokensOf
    <2> QED
      BY <2>1, <2>3, <2>4
  <1>2. CASE RetireToken(r)
    <2> PICK t \in me.todo : Finish(r) \/ Goto(r, [me EXCEPT !.todo = @ \ {t}, !.held = @ \cup {t}])
      BY <1>2 DEF RetireToken
    <2> DEFINE l == [me EXCEPT !.todo = @ \ {t}, !.held = @ \cup {t}]
    <2>1. l \in Local /\ t \in Tokens
      BY <1>0 DEF Local
    <2>2. l.at = "retire" /\ l.todo \cup l.held = me.todo \cup me.held /\ l.known = me.known /\ l.user = me.user
      BY <1>0, <1>2 DEF Local, RetireToken
    <2> HIDE DEF l
    <2>3. Current(l)
      BY <1>0, <1>2, <2>2 DEF Current, RetireToken
    <2> QED
      BY <2>1, <2>3 DEF l
  <1>3. CASE MarkTokenUsed(r) /\ ~Finish(r)
    <2> DEFINE l == [me EXCEPT !.at = "readOwner", !.held = {me.token}]
    <2>1. l \in Local /\ l.at = "readOwner" /\ l.token = me.token
      BY <1>0, <1>3 DEF Local, Steps, LocalOK, MarkTokenUsed
    <2>2. Goto(r, l) /\ me.at = "markUsed"
      BY <1>3 DEF MarkTokenUsed
    <2> HIDE DEF l
    <2>3. Current(l)
      BY <1>0, <2>1, <2>2 DEF Current
    <2> QED
      BY <2>1, <2>2, <2>3
  <1>4. CASE ReadTokenOwner(r) /\ ~Finish(r)
    <2> DEFINE l == [me EXCEPT !.at = "setPassword", !.seen = LockoutOf(me.user)]
    <2>1. Exists(me.user) /\ me.at = "readOwner" /\ Goto(r, l)
      BY <1>4 DEF ReadTokenOwner
    <2>2. LockoutOf(me.user) \in Lockout
      BY <1>0, <2>1 DEF LockoutOf, Lockout, Exists, TInv, TypeOK, UserRow, LocalOK
    <2>3. l \in Local /\ l.at = "setPassword" /\ l.token = me.token /\ l.user = me.user /\ l.seen = LockoutOf(me.user)
      BY <1>0, <2>2 DEF Local, Steps
    <2> HIDE DEF l
    <2>4. Current(l)
      BY <1>0, <2>1, <2>3 DEF Current
    <2> QED
      BY <2>1, <2>3, <2>4
  <1>5. CASE DeleteUserRow(r) /\ ~Finish(r)
    <2> DEFINE l == [me EXCEPT !.at = "cascade"]
    <2>1. Exists(me.user) /\ me.at = "revoke" /\ Goto(r, l)
      BY <1>5 DEF DeleteUserRow
    <2>2. l \in Local /\ l.at = "cascade" /\ l.held = {} /\ l.user = me.user
      BY <1>0, <2>1 DEF Local, Steps, LocalOK
    <2> HIDE DEF l
    <2>3. Current(l)
      BY <2>1, <2>2 DEF Current
    <2> QED
      BY <2>1, <2>2, <2>3
  <1>6. CASE CascadeToToken(r)
    <2> PICK t \in TokensOf(me.user) : Goto(r, [me EXCEPT !.held = @ \cup {t}])
      BY <1>6 DEF CascadeToToken
    <2> DEFINE l == [me EXCEPT !.held = @ \cup {t}]
    <2>1. l \in Local /\ l.at = "cascade" /\ l.user = me.user /\ l.held = me.held \cup {t}
      BY <1>0, <1>6 DEF Local, TokensOf, CascadeToToken
    <2> HIDE DEF l
    <2>2. Current(l)
      BY <1>0, <1>6, <2>1 DEF Current, CascadeToToken
    <2> QED
      BY <2>1, <2>2 DEF l
  <1> QED
    BY <1>1, <1>2, <1>3, <1>4, <1>5, <1>6

LEMMA IdleCurrent == Current(Idle) /\ Current(Idle)'
  BY DEF Current, Idle

LEMMA StepCurrent ==
  ASSUME SInv, OneAtATime, [Next]_vars
  PROVE  \A s \in Requests : Current(req[s])'
  <1>0. TInv /\ (\A s \in Requests : PathOK(req[s]) /\ LocalOK(req[s]) /\ Current(req[s])) /\ Aging
    BY StepAges DEF SInv, PInv, TInv
  <1>1. ASSUME NEW s \in Requests, Quiet, req'[s] = req[s] PROVE Current(req[s])'
    <2> PICK me \in Local : me = req[s]
      BY <1>0 DEF TInv, TypeOK
    <2>1. Current(me)'
      BY <1>0, <1>1, QuietCurrent
    <2> QED
      BY <1>1, <2>1 DEF Current
  <1>2. ASSUME NEW s \in Requests, req'[s] = Idle PROVE Current(req[s])'
    BY <1>2, IdleCurrent DEF Current
  <1>3. ASSUME NEW r \in Requests, NEW l \in Local, Quiet, Goto(r, l), Current(l)
        PROVE  \A s \in Requests : Current(req[s])'
    <2> TAKE s \in Requests
    <2>1. CASE s = r
      <3>1. Current(l)' /\ req'[s] = l
        BY <1>0, <1>3, <2>1, QuietCurrent DEF Goto, TInv, TypeOK
      <3> QED
        BY <3>1 DEF Current
    <2>2. CASE s # r
      <3>1. req'[s] = req[s]
        BY <1>0, <1>3, <2>2 DEF Goto, TInv, TypeOK
      <3> QED
        BY <1>1, <1>3, <3>1
    <2> QED
      BY <2>1, <2>2
  <1>4. ASSUME NEW r \in Requests, Quiet, Finish(r) PROVE \A s \in Requests : Current(req[s])'
    BY <1>3, <1>4, IdleOK, IdleCurrent DEF Finish, Goto
  <1>5. ASSUME NEW r \in Requests, OwnCommit(r) PROVE \A s \in Requests : Current(req[s])'
    <2> TAKE s \in Requests
    <2>1. CASE s = r
      <3>1. CASE Finish(r)
        BY <1>0, <1>2, <2>1, <3>1 DEF Finish, TInv, TypeOK
      <3>2. CASE req'[s].at = "mail"
        BY <3>2 DEF Current
      <3> QED
        BY <1>5, <2>1, <3>1, <3>2 DEF OwnCommit
    <2>2. CASE s # r
      <3>1. req'[s] = req[s]
        BY <1>5, <2>2 DEF OwnCommit
      <3>2. CASE req[s].at = "idle"
        BY <3>1, <3>2 DEF Current
      <3>3. CASE req[s].at # "idle"
        <4> PICK me \in Local : me = req[s]
          BY <1>0 DEF TInv, TypeOK
        <4> PICK v \in Users : v = me.user
          BY <1>0, <3>3 DEF LocalOK
        <4>1. v # req[r].user
          BY <2>2, NilAssumption DEF OneAtATime
        <4>2. Current(me)'
          BY <1>0, <1>5, <4>1, SparedCurrent DEF OwnCommit
        <4> QED
          BY <3>1, <4>2 DEF Current
      <3> QED
        BY <3>2, <3>3
    <2> QED
      BY <2>1, <2>2
  <1>6. CASE Quiet
    <2>1. ASSUME NEW r \in Requests, Arrive(r) PROVE \A s \in Requests : Current(req[s])'
      BY <1>3, <1>6, <2>1, ArriveCurrent
    <2>2. ASSUME NEW r \in Requests, Proceed(r) \/ BreakDeadlock(r) PROVE \A s \in Requests : Current(req[s])'
      <3>1. CASE Finish(r)
        BY <1>4, <1>6, <3>1
      <3>2. CASE CollectUnused(r) \/ RetireToken(r) \/ MarkTokenUsed(r) \/ ReadTokenOwner(r)
                   \/ DeleteUserRow(r) \/ CascadeToToken(r)
        BY <1>3, <1>4, <1>6, <3>2, MoveCurrent
      <3>3. CASE InsertToken(r) /\ ~Finish(r)
        <4>1. ~Abort(r)
          BY <3>3 DEF Abort
        <4>2. PICK t \in Tokens \ minted : minted' = minted \cup {t}
          BY <3>3, <4>1, InsertEffect
        <4> QED
          BY <1>6, <4>2 DEF Quiet
      <3> QED
        BY <2>2, <3>1, <3>2, <3>3 DEF Proceed, BreakDeadlock, Abort, CommitFailedLogin, CommitPassedLogin, MailToken,
           SetPassword, CommitDeletion
    <2>3. CASE Restart
      <3>1. \A s \in Requests : req'[s] = Idle
        BY <2>3 DEF Restart
      <3> QED
        BY <1>2, <3>1
    <2>4. CASE Tick \/ UNCHANGED vars
      <3>1. req' = req
        BY <2>4 DEF Tick, vars
      <3> QED
        BY <1>1, <1>6, <3>1
    <2> QED
      BY <2>1, <2>2, <2>3, <2>4 DEF Next
  <1> QED
    BY <1>5, <1>6, OthersSpared

-----------------------------------------------------------------------------
(* Counters, live tokens and what tokens have paid for.                    *)

LEMMA StepCounter == ASSUME SInv, [Next]_vars PROVE \A v \in Users : CounterOK(v)'
  <1> SUFFICES ASSUME NEW v \in Users PROVE CounterOK(v)'
    OBVIOUS
  <1>0. CounterOK(v)
    BY DEF SInv
  <1>1. CASE userRow'[v] = userRow[v] /\ streak'[v] = streak[v]
    BY <1>0, <1>1 DEF CounterOK, Exists
  <1>2. CASE Quiet
    BY <1>1, <1>2 DEF Quiet
  <1>3. ASSUME NEW r \in Requests, ~Abort(r), CommitFailedLogin(r) \/ CommitPassedLogin(r) PROVE CounterOK(v)'
    <2> PICK u \in Users : /\ \A w \in Users : w # u => userRow'[w] = userRow[w] /\ streak'[w] = streak[w]
                           /\ CounterOK(u)'
      BY <1>3, LoginEffect
    <2> QED
      BY <1>1
  <1>4. ASSUME NEW r \in Requests, ~Abort(r), InsertToken(r) PROVE CounterOK(v)'
    <2>1. UNCHANGED <<userRow, streak>>
      BY <1>4, InsertEffect
    <2> QED
      BY <1>1, <2>1
  <1>5. ASSUME NEW r \in Requests, ~Abort(r), SetPassword(r) PROVE CounterOK(v)'
    <2> PICK u \in Users : /\ \A w \in Users : w # u => userRow'[w] = userRow[w] /\ streak'[w] = streak[w]
                           /\ CounterOK(u)'
      BY <1>5, PasswordEffect
    <2> QED
      BY <1>1
  <1>6. ASSUME NEW r \in Requests, CommitDeletion(r) PROVE CounterOK(v)'
    <2> PICK u \in Users : /\ userRow'[u] = Nil /\ UNCHANGED streak
                           /\ \A w \in Users : w # u => userRow'[w] = userRow[w]
      BY <1>6, DeletionEffect
    <2>1. CASE v = u
      BY <2>1 DEF CounterOK, Exists
    <2> QED
      BY <1>1, <2>1
  <1> QED
    BY <1>2, <1>3, <1>4, <1>5, <1>6, WhoWrites

LEMMA StepOneUnused == ASSUME SInv, [Next]_vars PROVE OneUnused'
  <1>0. OneUnused
    BY DEF SInv
  \* Rows that are as they were, used by now, or gone.
  <1>1. ASSUME \A o \in Tokens : resetToken'[o] # Nil =>
                 \/ resetToken'[o] = resetToken[o]
                 \/ resetToken'[o].used
        PROVE  OneUnused'
    BY <1>0, <1>1 DEF OneUnused
  <1>2. CASE Quiet
    BY <1>1, <1>2 DEF Quiet
  <1>3. ASSUME NEW r \in Requests, ~Abort(r), CommitFailedLogin(r) \/ CommitPassedLogin(r) PROVE OneUnused'
    <2>1. UNCHANGED resetToken
      BY <1>3, LoginEffect
    <2> QED
      BY <1>1, <2>1
  <1>4. ASSUME NEW r \in Requests, ~Abort(r), InsertToken(r) PROVE OneUnused'
    <2> PICK u \in Users, t \in Tokens \ minted :
         /\ resetToken'[t].owner = u
         /\ \A o \in Tokens : o # t /\ o \notin TokensOf(u) => resetToken'[o] = resetToken[o]
         /\ \A o \in TokensOf(u) : resetToken'[o].owner = u /\ resetToken'[o].used
      BY <1>4, InsertEffect
    <2>1. ASSUME NEW o \in Tokens, o # t, resetToken'[o] # Nil, ~resetToken'[o].used
          PROVE  resetToken'[o] = resetToken[o] /\ resetToken'[o].owner # u
      BY <2>1 DEF TokensOf
    <2> QED
      BY <1>0, <2>1 DEF OneUnused
  <1>5. ASSUME NEW r \in Requests, ~Abort(r), SetPassword(r) PROVE OneUnused'
    <2> PICK u \in Users : \E t \in TokensOf(u) :
         /\ resetToken'[t].used
         /\ \A o \in Tokens : o # t => resetToken'[o] = resetToken[o]
      BY <1>5, PasswordEffect
    <2> QED
      BY <1>1
  <1>6. ASSUME NEW r \in Requests, CommitDeletion(r) PROVE OneUnused'
    <2>1. \A o \in Tokens : resetToken'[o] # Nil => resetToken'[o] = resetToken[o]
      BY <1>6, DeletionEffect
    <2> QED
      BY <1>1, <2>1
  <1> QED
    BY <1>2, <1>3, <1>4, <1>5, <1>6, WhoWrites

LEMMA StepSpent == ASSUME SInv, [Next]_vars PROVE \A o \in Tokens : Spent(o)'
  <1> SUFFICES ASSUME NEW o \in Tokens PROVE Spent(o)'
    OBVIOUS
  <1>0. Spent(o) /\ Aging
    BY StepAges DEF SInv
  <1>1. CASE changes'[o] = changes[o]
    BY <1>0, <1>1 DEF Spent, Aging
  <1>2. CASE UNCHANGED changes
    BY <1>1, <1>2
  <1>3. ASSUME NEW r \in Requests, ~Abort(r), SetPassword(r) PROVE Spent(o)'
    <2> PICK u \in Users : \E t \in TokensOf(u) :
         /\ ~resetToken[t].used
         /\ UNCHANGED minted
         /\ changes'[t] = IF changes[t] < 2 THEN changes[t] + 1 ELSE 2
         /\ resetToken'[t].used
         /\ \A x \in Tokens : x # t => changes'[x] = changes[x]
      BY <1>3, PasswordEffect
    <2> PICK t \in TokensOf(u) :
         /\ ~resetToken[t].used
         /\ UNCHANGED minted
         /\ changes'[t] = IF changes[t] < 2 THEN changes[t] + 1 ELSE 2
         /\ resetToken'[t].used
         /\ \A x \in Tokens : x # t => changes'[x] = changes[x]
      OBVIOUS
    <2>1. CASE o = t
      <3>1. resetToken[t] # Nil /\ t \in minted
        BY DEF TokensOf, SInv, PInv, MintedOK
      <3>2. changes[t] = 0
        BY <1>0, <2>1, <3>1 DEF Spent
      <3> QED
        BY <2>1, <3>1, <3>2 DEF Spent
    <2>2. CASE o # t
      BY <1>1, <2>2
    <2> QED
      BY <2>1, <2>2
  <1> QED
    BY <1>2, <1>3, WhoWrites, LoginEffect, InsertEffect, DeletionEffect DEF Quiet

LEMMA SInvAlways == Spec => ([]OneAtATime => []SInv)
  <1>1. SInv /\ OneAtATime /\ [Next]_vars => SInv'
    <2> SUFFICES ASSUME SInv, OneAtATime, [Next]_vars PROVE SInv'
      OBVIOUS
    <2>1. PInv'
      BY StepTInv, StepPath, StepKnown DEF SInv, PInv
    <2> QED
      BY <2>1, StepCurrent, StepCounter, StepOneUnused, StepSpent DEF SInv
  <1> QED
    BY <1>1, InitSInv, PTL DEF Spec

-----------------------------------------------------------------------------
(* What a client that waits gets.                                          *)

\* The counter is the number of wrong passwords since the last login or reset,
\* and the account is locked exactly when it reaches the limit
\* (user_service.authenticate_user).
THEOREM CounterExact == Spec => ([]OneAtATime => []CounterIsStreak)
  <1>1. SInv => CounterIsStreak
    BY DEF SInv, CounterOK, CounterIsStreak
  <1> QED
    BY <1>1, SInvAlways, PTL

\* Requesting a reset leaves one usable token of the account, the new one
\* (request_password_reset).
THEOREM OneTokenLive == Spec => ([]OneAtATime => []OneLiveToken)
  <1>1. SInv => OneLiveToken
    BY DEF SInv, OneUnused, OneLiveToken, Live
  <1> QED
    BY <1>1, SInvAlways, PTL

\* A token pays for one change of password only (complete_password_reset).
THEOREM TokenPaysOnce == Spec => ([]OneAtATime => []TokenSpentOnce)
  <1>1. SInv => TokenSpentOnce
    <2> SUFFICES ASSUME SInv, NEW t \in Tokens PROVE changes[t] <= 1
      BY DEF TokenSpentOnce
    <2>1. Spent(t) /\ changes[t] \in 0 .. 2
      BY DEF SInv, PInv, TInv, TypeOK
    <2> QED
      BY <2>1 DEF Spent
  <1> QED
    BY <1>1, SInvAlways, PTL

-----------------------------------------------------------------------------
(* Credentials implements ResetLedger.                                     *)

LEMMA LedgerInit == Init => Ledger!Init
  <1> SUFFICES ASSUME Init PROVE Ledger!Init
    OBVIOUS
  <1> PICK p \in Passwords :
        userRow = [u \in Users |-> [password |-> p, attempts |-> 0, lockedUntil |-> Null]]
    BY DEF Init
  <1>1. ASSUME NEW u \in Users PROVE Exists(u) /\ userRow[u].password \in Passwords
    <2>1. [password |-> p, attempts |-> 0, lockedUntil |-> Null] \in UserRow
      BY DEF UserRow, Null
    <2> QED
      BY <2>1, NilAssumption DEF Exists
  <1> QED
    BY <1>1 DEF Ledger!Init, Init

LedgerPasswords == [u \in Users |-> PasswordOf(u)]
LedgerTickets == [t \in Tokens |-> TicketOf(t)]

\* The actions of ResetLedger, over the ledger kept by Credentials.
LEMMA LedgerReset ==
  ASSUME NEW u \in Users, NEW t \in Tokens, NEW p \in Passwords,
         LedgerPasswords[u] # Nil, t \in Ledger!LiveTickets(u),
         LedgerTickets' = [LedgerTickets EXCEPT ![t] = [owner |-> u, live |-> FALSE]],
         LedgerPasswords' = [LedgerPasswords EXCEPT ![u] = p]
  PROVE  Ledger!Reset(u, t, p)
  BY DEF Ledger!Reset, LedgerPasswords, LedgerTickets, PasswordOf, TicketOf

LEMMA LedgerDelete ==
  ASSUME NEW u \in Users,
         LedgerPasswords[u] # Nil, LedgerPasswords' = [LedgerPasswords EXCEPT ![u] = Nil],
         LedgerTickets' = [t \in Tokens |-> IF LedgerTickets[t] # Nil /\ LedgerTickets[t].owner = u THEN Nil ELSE LedgerTickets[t]]
  PROVE  Ledger!Delete(u)
  BY DEF Ledger!Delete, LedgerPasswords, LedgerTickets, PasswordOf, TicketOf

\* The ledger after a step, entry by entry.
LEMMA LedgerStutter ==
  ASSUME \A u \in Users : PasswordOf(u)' = PasswordOf(u),
         \A t \in Tokens : TicketOf(t)' = TicketOf(t)
  PROVE  UNCHANGED Ledger!vars
  BY DEF Ledger!vars, PasswordOf, TicketOf

LEMMA LiveTicketsAreUnused ==
  ASSUME TInv, NEW u \in Users
  PROVE  Ledger!LiveTickets(u) = {t \in TokensOf(u) : ~resetToken[t].used}
  <1>1. Ledger!LiveTickets(u) = {t \in Tokens : TicketOf(t) # Nil /\ TicketOf(t).owner = u /\ TicketOf(t).live}
    BY DEF Ledger!LiveTickets, TicketOf
  <1>2. ASSUME NEW t \in Tokens
        PROVE  TicketOf(t) # Nil /\ TicketOf(t).owner = u /\ TicketOf(t).live
                 <=> t \in TokensOf(u) /\ ~resetToken[t].used
    <2>1. resetToken[t] = Nil => TicketOf(t) = Nil
      BY DEF TicketOf
    <2> QED
      BY <2>1, TicketIsEntry DEF TokensOf
  <1> QED
    BY <1>1, <1>2 DEF TokensOf

LEMMA LoginLedger ==
  ASSUME SInv, NEW r \in Requests, ~Abort(r), CommitFailedLogin(r) \/ CommitPassedLogin(r)
  PROVE  UNCHANGED Ledger!vars
  <1> PICK u \in Users :
         /\ Exists(u) /\ UNCHANGED resetToken
         /\ userRow'[u] \in UserRow /\ userRow'[u].password = userRow[u].password
         /\ \A v \in Users : v # u => userRow'[v] = userRow[v]
    BY LoginEffect
  <1>1. ASSUME NEW v \in Users PROVE PasswordOf(v)' = PasswordOf(v)
    BY NilAssumption DEF PasswordOf, Exists
  <1>2. ASSUME NEW t \in Tokens PROVE TicketOf(t)' = TicketOf(t)
    BY DEF TicketOf
  <1> QED
    BY <1>1, <1>2, LedgerStutter

LEMMA InsertLedger ==
  ASSUME SInv, NEW r \in Requests, ~Abort(r), InsertToken(r)
  PROVE  Ledger!Next
  <1> PICK u \in Users, t \in Tokens \ minted :
         /\ Exists(u)
         /\ UNCHANGED userRow
         /\ resetToken[t] = Nil
         /\ resetToken'[t] # Nil /\ resetToken'[t].owner = u /\ ~resetToken'[t].used
         /\ \A o \in Tokens : o # t => (resetToken'[o] # Nil <=> resetToken[o] # Nil)
         /\ \A o \in Tokens : o # t /\ o \notin TokensOf(u) => resetToken'[o] = resetToken[o]
         /\ \A o \in TokensOf(u) : resetToken'[o].owner = u /\ resetToken'[o].used
    BY InsertEffect
  <1>0. TInv /\ (Exists(u) => userRow[u].password \in Passwords)
    BY DEF SInv, PInv, TInv, TypeOK, Exists, UserRow
  <1>1. ASSUME NEW v \in Users PROVE PasswordOf(v)' = PasswordOf(v)
    BY DEF PasswordOf, Exists
  <1>2. TicketOf(t) = Nil /\ TicketOf(t)' = [owner |-> u, live |-> TRUE]
    BY DEF TicketOf
  <1>3. ASSUME NEW o \in Ledger!LiveTickets(u) PROVE o # t /\ TicketOf(o)' = [owner |-> u, live |-> FALSE]
    BY <1>0, <1>3, LiveTicketsAreUnused DEF TicketOf, TokensOf
  <1>4. ASSUME NEW o \in Tokens, o # t, o \notin Ledger!LiveTickets(u) PROVE TicketOf(o)' = TicketOf(o)
    <2>1. CASE o \in TokensOf(u)
      <3>1. resetToken[o].used /\ resetToken[o].owner = u /\ resetToken[o] # Nil
        BY <1>0, <1>4, <2>1, LiveTicketsAreUnused DEF TokensOf
      <3>2. resetToken'[o].used /\ resetToken'[o].owner = u /\ resetToken'[o] # Nil
        BY <1>4, <2>1, <3>1
      <3> QED
        BY <3>1, <3>2 DEF TicketOf
    <2>2. CASE o \notin TokensOf(u)
      BY <1>4, <2>2 DEF TicketOf
    <2> QED
      BY <2>1, <2>2
  <1>5. PasswordOf(u) # Nil
    BY <1>0, NilAssumption DEF PasswordOf
  <1>6. Ledger!Issue(u, t)
    BY <1>1, <1>2, <1>3, <1>4, <1>5 DEF Ledger!Issue, PasswordOf, TicketOf
  <1> QED
    BY <1>6 DEF Ledger!Next

LEMMA PasswordLedger ==
  ASSUME SInv, NEW r \in Requests, ~Abort(r), SetPassword(r)
  PROVE  Ledger!Next
  <1> PICK u \in Users : \E t \in TokensOf(u), p \in Passwords :
         /\ Exists(u) /\ ~resetToken[t].used
         /\ userRow'[u] \in UserRow /\ userRow'[u].password = p
         /\ \A v \in Users : v # u => userRow'[v] = userRow[v]
         /\ resetToken'[t] # Nil /\ resetToken'[t].owner = u /\ resetToken'[t].used
         /\ \A o \in Tokens : o # t => resetToken'[o] = resetToken[o]
    BY PasswordEffect
  <1> PICK t \in TokensOf(u), p \in Passwords :
         /\ Exists(u) /\ ~resetToken[t].used
         /\ userRow'[u] \in UserRow /\ userRow'[u].password = p
         /\ \A v \in Users : v # u => userRow'[v] = userRow[v]
         /\ resetToken'[t] # Nil /\ resetToken'[t].owner = u /\ resetToken'[t].used
         /\ \A o \in Tokens : o # t => resetToken'[o] = resetToken[o]
    OBVIOUS
  <1>0. TInv /\ t \in Tokens /\ (Exists(u) => userRow[u].password \in Passwords)
    BY DEF SInv, PInv, TInv, TypeOK, Exists, UserRow, TokensOf
  <1>1. PasswordOf(u)' = p /\ PasswordOf(u) # Nil
    BY <1>0, NilAssumption DEF PasswordOf, Exists
  <1>2. ASSUME NEW v \in Users, v # u PROVE PasswordOf(v)' = PasswordOf(v)
    BY <1>2 DEF PasswordOf, Exists
  <1>3. t \in Ledger!LiveTickets(u)
    BY <1>0, LiveTicketsAreUnused
  <1>4. TicketOf(t)' = [owner |-> u, live |-> FALSE]
    BY DEF TicketOf
  <1>5. ASSUME NEW o \in Tokens, o # t PROVE TicketOf(o)' = TicketOf(o)
    BY <1>5 DEF TicketOf
  <1>6. LedgerPasswords' = [LedgerPasswords EXCEPT ![u] = p] /\ LedgerPasswords[u] # Nil
    BY <1>1, <1>2 DEF LedgerPasswords
  <1>7. LedgerTickets' = [LedgerTickets EXCEPT ![t] = [owner |-> u, live |-> FALSE]]
    BY <1>0, <1>4, <1>5 DEF LedgerTickets
  <1>8. Ledger!Reset(u, t, p)
    BY <1>0, <1>3, <1>6, <1>7, LedgerReset
  <1> QED
    BY <1>0, <1>8 DEF Ledger!Next

LEMMA DeletionLedger ==
  ASSUME SInv, NEW r \in Requests, CommitDeletion(r)
  PROVE  Ledger!Next
  <1> PICK u \in Users :
         /\ Exists(u)
         /\ userRow'[u] = Nil
         /\ \A v \in Users : v # u => userRow'[v] = userRow[v]
         /\ \A o \in TokensOf(u) : resetToken'[o] = Nil
         /\ \A o \in Tokens : o \notin TokensOf(u) => resetToken'[o] = resetToken[o]
    BY DeletionEffect
  <1>0. TInv /\ (Exists(u) => userRow[u].password \in Passwords)
    BY DEF SInv, PInv, TInv, TypeOK, Exists, UserRow
  <1>1. PasswordOf(u)' = Nil /\ PasswordOf(u) # Nil
    BY <1>0, NilAssumption DEF PasswordOf, Exists
  <1>2. ASSUME NEW v \in Users, v # u PROVE PasswordOf(v)' = PasswordOf(v)
    BY <1>2 DEF PasswordOf, Exists
  <1>3. ASSUME NEW o \in Tokens
        PROVE  TicketOf(o)' = IF TicketOf(o) # Nil /\ TicketOf(o).owner = u THEN Nil ELSE TicketOf(o)
    <2>1. CASE o \in TokensOf(u)
      BY <1>0, <2>1, TicketIsEntry DEF TokensOf, TicketOf
    <2>2. CASE o \notin TokensOf(u) /\ resetToken[o] # Nil
      <3>1. TicketOf(o).owner # u
        BY <1>0, <2>2, TicketIsEntry DEF TokensOf
      <3> QED
        BY <2>2, <3>1 DEF TicketOf
    <2>3. CASE resetToken[o] = Nil
      BY <2>3 DEF TokensOf, TicketOf
    <2> QED
      BY <2>1, <2>2, <2>3
  <1>4. LedgerPasswords' = [LedgerPasswords EXCEPT ![u] = Nil] /\ LedgerPasswords[u] # Nil
    BY <1>1, <1>2 DEF LedgerPasswords
  <1>5. LedgerTickets' = [t \in Tokens |-> IF LedgerTickets[t] # Nil /\ LedgerTickets[t].owner = u THEN Nil ELSE LedgerTickets[t]]
    BY <1>3 DEF LedgerTickets
  <1>6. Ledger!Delete(u)
    BY <1>4, <1>5, LedgerDelete
  <1> QED
    BY <1>6 DEF Ledger!Next

LEMMA StepLedger == SInv /\ [Next]_vars => [Ledger!Next]_Ledger!vars
  <1> SUFFICES ASSUME SInv, [Next]_vars PROVE Ledger!Next \/ UNCHANGED Ledger!vars
    OBVIOUS
  <1>1. CASE Quiet
    BY <1>1, LedgerStutter DEF Quiet, PasswordOf, TicketOf, Exists
  <1> QED
    BY <1>1, LoginLedger, InsertLedger, PasswordLedger, DeletionLedger, WhoWrites

\* Recovery does in many statements what ResetLedger does at once: issuing a
\* token voids the earlier one, a reset spends the live one, a deletion takes the
\* account's tokens along.
THEOREM ImplementsLedger == Spec => ([]OneAtATime => LedgerSpec)
  BY SInvAlways, LedgerInit, StepLedger, PTL DEF Spec, LedgerSpec, Ledger!Spec
=============================================================================
