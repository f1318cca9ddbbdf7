------------------------- MODULE RegistrationProofs -------------------------
(***************************************************************************)
(* Proofs about Registration for every number of users, names, addresses,  *)
(* request slots and tokens.                                               *)
(***************************************************************************)
EXTENDS Registration, TLAPS

\* The local variables a handler has set by the time it is at a step.  A flush
\* holds the tokens before the one it waits for.
LocalOK(me) ==
  /\ me.at \in {"checkAddress", "insertUser"} => me.name \in Names /\ me.address \in Addresses
  /\ me.at \in {"signIn", "collect", "retire", "mail"} => me.address \in Addresses
  /\ me.at \in {"mail", "spend", "setVerified"} => me.token \in Tokens
  /\ me.held # {} => me.at \in {"retire", "setVerified", "cascade"}
  /\ me.at = "retire" => \A h \in me.held : \A t \in me.todo : h < t
  /\ me.at = "setVerified" => me.held = {me.token}

\* What they still say of the tables, which other requests have changed since:
\* rows may be gone, and are never another account's; locked rows are there.
ReqOK(me) ==
  /\ me.at \notin {"idle", "checkAddress", "insertUser"} => me.user \in born
  /\ me.at \in {"signIn", "collect", "retire", "mail"} =>
       (Exists(me.user) => userRow[me.user].address = me.address)
  /\ me.at = "retire" =>
       \A t \in me.todo : t \in minted /\ (token[t] # Nil => token[t].owner = me.user)
  /\ me.at \in {"mail", "spend", "setVerified"} =>
       me.token \in minted /\ (token[me.token] # Nil => token[me.token].owner = me.user)
  /\ me.at \in {"spend", "setVerified"} => mailedTo[me.token] # Nil
  /\ \A t \in me.held : token[t] # Nil /\ token[t].owner = me.user

\* A row is locked by one transaction at a time.
LocksOK == \A o, p \in Requests : o # p => req[o].held \cap req[p].held = {}

\* A token belongs to an account that is there, and its link went to the
\* address of that account; ids and tokens are not used again.
RowsOK ==
  /\ \A u \in Users : Exists(u) => u \in born
  /\ \A t \in Tokens : token[t] # Nil => t \in minted /\ Exists(token[t].owner)
  /\ \A t \in Tokens : mailedTo[t] # Nil => t \in minted
  /\ \A t \in Tokens : mailedTo[t] # Nil /\ token[t] # Nil =>
       mailedTo[t] = userRow[token[t].owner].address

IInv ==
  /\ TypeOK
  /\ RowsOK
  /\ \A r \in Requests : LocalOK(req[r]) /\ ReqOK(req[r])
  /\ LocksOK

-----------------------------------------------------------------------------
(* The inductive invariant, by what a step does to the tables.             *)

LEMMA IdleOK == Idle \in Local /\ LocalOK(Idle) /\ ReqOK(Idle) /\ Idle.held = {}
  BY DEF Idle, Local, Steps, LocalOK, ReqOK

LEMMA InitIInv == Init => IInv
  <1> SUFFICES ASSUME Init PROVE IInv
    OBVIOUS
  <1>1. TypeOK
    BY IdleOK DEF Init, TypeOK
  <1>2. RowsOK
    BY DEF Init, RowsOK, Exists
  <1>3. (\A r \in Requests : LocalOK(req[r]) /\ ReqOK(req[r])) /\ LocksOK
    BY IdleOK DEF Init, LocksOK
  <1> QED
    BY <1>1, <1>2, <1>3 DEF IInv

\* A step within one request that leaves the rows alone and locks free ones.
LEMMA MoveIInv ==
  ASSUME IInv, NEW r \in Requests, NEW l \in Local, LocalOK(l), ReqOK(l), Goto(r, l),
         \A o \in Requests \ {r} : req[o].held \cap l.held = {},
         UNCHANGED <<tables, mailedTo, born, minted>>, signed' \in [Users -> SUBSET Pair]
  PROVE  IInv'
  <1>1. TypeOK'
    BY DEF IInv, TypeOK, Goto, tables
  <1>2. RowsOK'
    BY DEF IInv, RowsOK, Exists, tables
  <1>3. \A o \in Requests : req'[o] = IF o = r THEN l ELSE req[o]
    BY DEF IInv, TypeOK, Goto
  <1>5. ASSUME NEW o \in Requests PROVE LocalOK(req'[o]) /\ ReqOK(req[o])'
    <2>1. req'[o] \in Local /\ LocalOK(req'[o]) /\ ReqOK(req'[o])
      BY <1>3 DEF IInv, TypeOK
    <2> QED
      BY <2>1 DEF ReqOK, Exists, tables
  <1>6. LocksOK'
    <2>1. \A o \in Requests \ {r} : l.held \cap req[o].held = {}
      OBVIOUS
    <2> QED
      BY <1>3, <2>1 DEF IInv, LocksOK
  <1> QED
    BY <1>1, <1>2, <1>5, <1>6 DEF IInv, LocalOK

\* One that locks nothing more.
LEMMA KeepIInv ==
  ASSUME IInv, NEW r \in Requests, NEW l \in Local, LocalOK(l), ReqOK(l), Goto(r, l),
         l.held \subseteq req[r].held,
         UNCHANGED <<tables, mailedTo, born, minted>>, signed' \in [Users -> SUBSET Pair]
  PROVE  IInv'
  <1>1. \A o \in Requests \ {r} : req[o].held \cap l.held = {}
    BY DEF IInv, LocksOK
  <1> QED
    BY <1>1, MoveIInv

LEMMA AbortIInv == ASSUME IInv, NEW r \in Requests, Abort(r) PROVE IInv'
  BY KeepIInv, IdleOK DEF Abort, Finish, Goto, IInv, TypeOK

\* A slot that was idle begins.
LEMMA BeginIInv ==
  ASSUME IInv, NEW r \in Requests, NEW l \in Local, LocalOK(l), ReqOK(l), l.held = {}, Begin(r, l),
         UNCHANGED <<tables, mailedTo, signed, born, minted>>
  PROVE  IInv'
  BY KeepIInv DEF Begin, Goto, IInv, TypeOK

LEMMA ArriveIInv ==
  ASSUME IInv, NEW r \in Requests,
         \/ \E n \in Names, a \in Addresses : Register(r, n, a)
         \/ \E u \in Users : Login(r, u) \/ ResendVerification(r, u) \/ DeleteAccount(r, u)
         \/ \E t \in Tokens : VerifyEmail(r, t)
  PROVE  IInv'
  <1>1. ASSUME NEW n \in Names, NEW a \in Addresses, Register(r, n, a) PROVE IInv'
    <2> DEFINE l == [Idle EXCEPT !.at = "checkAddress", !.name = n, !.address = a]
    <2>1. l \in Local /\ LocalOK(l) /\ ReqOK(l) /\ l.held = {}
      BY DEF Idle, Local, Steps, LocalOK, ReqOK
    <2> QED
      BY <1>1, <2>1, BeginIInv DEF Register
  <1>2. ASSUME NEW u \in Users, ResendVerification(r, u) PROVE IInv'
    <2> DEFINE l == [Idle EXCEPT !.at = "collect", !.user = u, !.address = userRow[u].address]
    <2>1. userRow[u] \in UserRow /\ u \in born
      BY <1>2 DEF ResendVerification, Unverified, Exists, IInv, TypeOK, RowsOK
    <2>2. l \in Local /\ LocalOK(l) /\ ReqOK(l) /\ l.held = {}
      BY <2>1 DEF Idle, Local, Steps, UserRow, LocalOK, ReqOK
    <2> QED
      BY <1>2, <2>2, BeginIInv DEF ResendVerification
  <1>3. ASSUME NEW u \in Users, DeleteAccount(r, u) PROVE IInv'
    <2> DEFINE l == [Idle EXCEPT !.at = "deleteUser", !.user = u]
    <2>1. u \in born
      BY <1>3 DEF DeleteAccount, IInv, RowsOK
    <2>2. l \in Local /\ LocalOK(l) /\ ReqOK(l) /\ l.held = {}
      BY <2>1 DEF Idle, Local, Steps, LocalOK, ReqOK
    <2> QED
      BY <1>3, <2>2, BeginIInv DEF DeleteAccount
  <1>4. ASSUME NEW t \in Tokens, VerifyEmail(r, t) PROVE IInv'
    <2> DEFINE l == [Idle EXCEPT !.at = "spend", !.token = t, !.user = token[t].owner]
    <2>1. token[t].owner \in Users /\ token[t].owner \in born /\ t \in minted /\ mailedTo[t] # Nil
      BY <1>4 DEF VerifyEmail, IInv, TypeOK, TokenRow, RowsOK
    <2>2. l \in Local /\ LocalOK(l) /\ ReqOK(l) /\ l.held = {}
      BY <2>1 DEF Idle, Local, Steps, LocalOK, ReqOK
    <2> QED
      BY <1>4, <2>2, BeginIInv DEF VerifyEmail
  <1>5. ASSUME NEW u \in Users, Login(r, u) PROVE IInv'
    <2>1. PICK step \in {"clearMisses", "commitLogin"} : Begin(r, [Idle EXCEPT !.at = step, !.user = u])
      BY <1>5 DEF Login
    <2> DEFINE l == [Idle EXCEPT !.at = step, !.user = u]
    <2>2. u \in born
      BY <1>5 DEF Login, IInv, RowsOK
    <2>3. l \in Local /\ LocalOK(l) /\ ReqOK(l) /\ l.held = {}
      BY <2>2 DEF Idle, Local, Steps, LocalOK, ReqOK
    <2> QED
      BY <1>5, <2>1, <2>3, BeginIInv DEF Login
  <1> QED
    BY <1>1, <1>2, <1>3, <1>4, <1>5

LEMMA Me == ASSUME IInv, NEW r \in Requests PROVE req[r] \in Local /\ LocalOK(req[r]) /\ ReqOK(req[r])
  BY DEF IInv, TypeOK

\* A row that a request may lock is nobody else's.
LEMMA FreeRow ==
  ASSUME IInv, NEW r \in Requests, NEW t \in Tokens, t \in WantedTokens(r), WaitsFor(r) = {}
  PROVE  \A o \in Requests \ {r} : t \notin req[o].held
  BY DEF WaitsFor

LEMMA StepsIInv ==
  ASSUME IInv, NEW r \in Requests,
         \/ CheckAddress(r) \/ LoseInsert(r) \/ SignIn(r) \/ CollectUnused(r)
         \/ RefuseToken(r) \/ ClearMisses(r) \/ CommitLogin(r) \/ DeleteUserRow(r)
  PROVE  IInv'
  <1> DEFINE me == req[r]
  <1>0. me \in Local /\ LocalOK(me) /\ ReqOK(me) /\ signed \in [Users -> SUBSET Pair]
    BY Me DEF IInv, TypeOK
  <1>1. CASE CheckAddress(r)
    <2> DEFINE l == [me EXCEPT !.at = "insertUser"]
    <2>1. CASE Finish(r)
      BY <1>1, <2>1, AbortIInv DEF CheckAddress, Abort
    <2>2. CASE Goto(r, l)
      <3>1. l \in Local /\ LocalOK(l) /\ ReqOK(l) /\ l.held = me.held
        BY <1>0, <1>1 DEF CheckAddress, Local, Steps, LocalOK, ReqOK
      <3> QED
        BY <1>0, <1>1, <2>2, <3>1, KeepIInv DEF CheckAddress
    <2> QED
      BY <1>1, <2>1, <2>2 DEF CheckAddress
  <1>2. CASE SignIn(r)
    <2> DEFINE l == [me EXCEPT !.at = "collect"]
    <2>1. CASE Abort(r)
      BY <2>1, AbortIInv
    <2>2. CASE Sign(me.user) /\ Goto(r, l) /\ UNCHANGED <<tables, mailedTo, born, minted>>
      <3>1. l \in Local /\ LocalOK(l) /\ ReqOK(l) /\ l.held = me.held
        BY <1>0, <1>2 DEF SignIn, Local, Steps, LocalOK, ReqOK
      <3>2. signed' \in [Users -> SUBSET Pair]
        BY <1>0, <2>2 DEF Sign
      <3> QED
        BY <2>2, <3>1, <3>2, KeepIInv
    <2> QED
      BY <1>2, <2>1, <2>2 DEF SignIn
  <1>3. CASE CollectUnused(r)
    <2> DEFINE l == [me EXCEPT !.at = "retire", !.todo = UnusedOf(me.user)]
    <2>1. \A t \in UnusedOf(me.user) : t \in Tokens /\ t \in minted /\ token[t].owner = me.user
      BY DEF UnusedOf, IInv, RowsOK
    <2>2. l \in Local /\ l.held = {}
      BY <1>0, <1>3, <2>1 DEF CollectUnused, Local, Steps, LocalOK
    <2>3. LocalOK(l) /\ ReqOK(l)
      BY <1>0, <1>3, <2>1 DEF CollectUnused, Local, LocalOK, ReqOK
    <2> QED
      BY <1>0, <1>3, <2>2, <2>3, KeepIInv DEF CollectUnused
  <1>4. CASE ClearMisses(r)
    <2>1. CASE Abort(r)
      BY <2>1, AbortIInv
    <2>2. CASE Sign(me.user) /\ Finish(r) /\ UNCHANGED <<tables, mailedTo, born, minted>>
      <3>1. signed' \in [Users -> SUBSET Pair]
        BY <1>0, <2>2 DEF Sign
      <3> QED
        BY <2>2, <3>1, IdleOK, KeepIInv DEF Finish, Goto
    <2> QED
      BY <1>4, <2>1, <2>2 DEF ClearMisses
  <1>5. CASE CommitLogin(r)
    <2>1. signed' \in [Users -> SUBSET Pair]
      BY <1>0, <1>5 DEF CommitLogin, Sign
    <2> QED
      BY <1>5, <2>1, IdleOK, KeepIInv DEF CommitLogin, Finish, Goto
  <1>6. CASE DeleteUserRow(r)
    <2> DEFINE l == [me EXCEPT !.at = "cascade"]
    <2>1. CASE Abort(r)
      BY <2>1, AbortIInv
    <2>2. CASE Goto(r, l) /\ UNCHANGED <<tables, mailedTo, signed, born, minted>>
      <3>1. l \in Local /\ LocalOK(l) /\ ReqOK(l) /\ l.held = me.held
        BY <1>0, <1>6 DEF DeleteUserRow, Local, Steps, LocalOK, ReqOK
      <3> QED
        BY <1>0, <2>2, <3>1, KeepIInv
    <2> QED
      BY <1>6, <2>1, <2>2 DEF DeleteUserRow
  <1> QED
    BY <1>1, <1>2, <1>3, <1>4, <1>5, <1>6, AbortIInv DEF LoseInsert, RefuseToken

\* The three steps that lock a token row: it is free and still there.
LEMMA LocksIInv ==
  ASSUME IInv, NEW r \in Requests, RetireToken(r) \/ SpendToken(r) \/ CascadeToToken(r)
  PROVE  IInv'
  <1> DEFINE me == req[r]
  <1>0. me \in Local /\ LocalOK(me) /\ ReqOK(me) /\ signed \in [Users -> SUBSET Pair]
    BY Me DEF IInv, TypeOK
  <1>1. \A o \in Requests \ {r} : req[o].held \cap me.held = {}
    BY DEF IInv, LocksOK
  <1>2. CASE RetireToken(r)
    <2>1. PICK t \in me.todo :
                 /\ First(t, me.todo)
                 /\ IF token[t] = Nil THEN Finish(r)
                    ELSE Goto(r, [me EXCEPT !.todo = @ \ {t}, !.held = @ \cup {t}])
      BY <1>2 DEF RetireToken
    <2> DEFINE l == [me EXCEPT !.todo = @ \ {t}, !.held = @ \cup {t}]
    <2>2. t \in Tokens /\ t \in WantedTokens(r)
      BY <1>0, <1>2, <2>1 DEF RetireToken, WantedTokens, Local
    <2>3. CASE Finish(r)
      BY <1>2, <2>3, AbortIInv DEF RetireToken, Abort
    <2>4. CASE token[t] # Nil /\ Goto(r, l)
      <3>1. l \in Local /\ l.held = me.held \cup {t} /\ l.todo = me.todo \ {t}
            /\ l.at = "retire" /\ l.user = me.user /\ l.address = me.address
        BY <1>0, <1>2, <2>2 DEF RetireToken, Local
      <3>2. \A h \in l.held : \A x \in l.todo : h < x
        <4>1. \A x \in me.todo \ {t} : x \in Nat /\ t \in Nat /\ t <= x /\ t # x
          BY <1>0, <2>1, <2>2, TokensAssumption DEF First, Local
        <4>2. \A x \in me.todo \ {t} : t < x
          BY <4>1
        <4> QED
          BY <1>0, <1>2, <3>1, <4>2 DEF RetireToken, LocalOK
      <3>3. LocalOK(l)
        BY <1>0, <1>2, <3>1, <3>2 DEF RetireToken, LocalOK
      <3>4. ReqOK(l)
        <4> HIDE DEF l
        <4> QED
          BY <1>0, <1>2, <2>1, <2>4, <3>1 DEF RetireToken, ReqOK
      <3>5. \A o \in Requests \ {r} : req[o].held \cap l.held = {}
        <4>1. \A o \in Requests \ {r} : t \notin req[o].held
          BY <1>2, <2>2, FreeRow DEF RetireToken
        <4> HIDE DEF l
        <4> QED
          BY <1>1, <3>1, <4>1
      <3> QED
        BY <1>0, <1>2, <2>4, <3>1, <3>3, <3>4, <3>5, MoveIInv DEF RetireToken
    <2> QED
      BY <2>1, <2>3, <2>4
  <1>3. CASE SpendToken(r)
    <2> DEFINE l == [me EXCEPT !.at = "setVerified", !.held = {me.token}]
    <2>1. CASE Abort(r)
      BY <2>1, AbortIInv
    <2>2. CASE token[me.token] # Nil /\ Goto(r, l)
               /\ UNCHANGED <<tables, mailedTo, signed, born, minted>>
      <3>1. me.token \in Tokens /\ me.token \in WantedTokens(r)
        BY <1>0, <1>3 DEF SpendToken, WantedTokens, LocalOK
      <3>2. l \in Local /\ LocalOK(l) /\ ReqOK(l) /\ l.held = {me.token}
        BY <1>0, <1>3, <2>2, <3>1 DEF SpendToken, Local, Steps, LocalOK, ReqOK
      <3>3. \A o \in Requests \ {r} : req[o].held \cap l.held = {}
        BY <1>3, <3>1, <3>2, FreeRow DEF SpendToken
      <3> QED
        BY <1>0, <2>2, <3>2, <3>3, MoveIInv
    <2> QED
      BY <1>3, <2>1, <2>2 DEF SpendToken
  <1>4. CASE CascadeToToken(r)
    <2>1. PICK t \in TokensOf(me.user) \ me.held :
                 /\ \A o \in Requests : t \notin req[o].held
                 /\ Goto(r, [me EXCEPT !.held = @ \cup {t}])
      BY <1>4 DEF CascadeToToken
    <2> DEFINE l == [me EXCEPT !.held = @ \cup {t}]
    <2>2. t \in Tokens /\ token[t] # Nil /\ token[t].owner = me.user
      BY <2>1 DEF TokensOf
    <2>3. l \in Local /\ l.held = me.held \cup {t} /\ l.at = "cascade" /\ l.user = me.user
      BY <1>0, <1>4, <2>2 DEF CascadeToToken, Local
    <2>4. LocalOK(l) /\ ReqOK(l)
      BY <1>0, <1>4, <2>2, <2>3 DEF CascadeToToken, LocalOK, ReqOK
    <2>5. \A o \in Requests \ {r} : req[o].held \cap l.held = {}
      BY <1>1, <2>1, <2>3
    <2> QED
      BY <1>0, <1>4, <2>1, <2>3, <2>4, <2>5, MoveIInv DEF CascadeToToken
  <1> QED
    BY <1>2, <1>3, <1>4

\* Who ends its transaction keeps no lock.
LEMMA ReleaseLocks ==
  ASSUME IInv, NEW r \in Requests, NEW l, l.held = {}, req' = [req EXCEPT ![r] = l]
  PROVE  LocksOK'
  BY DEF IInv, TypeOK, LocksOK

\* What the other requests say of the rows stays true: an id that nobody had
\* names the new account.
LEMMA InsertUserIInv ==
  ASSUME IInv, NEW r \in Requests, NEW u \in Users, InsertUser(r, u)
  PROVE  IInv'
  <1> DEFINE me == req[r]
             l == [me EXCEPT !.at = "signIn", !.user = u, !.name = Nil]
  <1>0. me \in Local /\ LocalOK(me) /\ ReqOK(me) /\ me.at = "insertUser"
    BY Me DEF InsertUser
  <1>1. /\ \A v \in Users : userRow'[v] = IF v = u THEN [name |-> me.name, address |-> me.address, verified |-> FALSE]
                                          ELSE userRow[v]
        /\ userRow' \in [Users -> UserRow \cup {Nil}]
    BY <1>0 DEF InsertUser, IInv, TypeOK, UserRow, LocalOK
  <1>2. u \notin born /\ born' = born \cup {u} /\ ~Exists(u)
    BY DEF InsertUser, IInv, RowsOK
  <1>3. l \in Local /\ LocalOK(l) /\ \A o \in Requests : req'[o] = IF o = r THEN l ELSE req[o]
    BY <1>0 DEF InsertUser, Goto, IInv, TypeOK, Local, Steps, LocalOK
  <1>4. UNCHANGED <<token, mailedTo, signed, minted>>
    BY DEF InsertUser
  <1>5. userRow'[u] # Nil /\ userRow'[u].address = me.address
    <2> DEFINE row == [name |-> me.name, address |-> me.address, verified |-> FALSE]
    <2>1. row \in UserRow
      BY <1>0 DEF UserRow, LocalOK
    <2>2. row # Nil
      BY <2>1, NilAssumption
    <2>3. userRow'[u] = row
      BY <1>1
    <2> QED
      BY <2>2, <2>3
  <1>6. TypeOK'
    BY <1>1, <1>2, <1>3, <1>4 DEF IInv, TypeOK, InsertUser, Goto
  <1>7. RowsOK'
    <2>1. \A v \in Users : Exists(v)' <=> (Exists(v) \/ v = u)
      BY <1>1, <1>5 DEF Exists
    <2>2. \A t \in Tokens : token[t] # Nil => token[t].owner # u /\ token[t].owner \in Users
      BY <1>2 DEF IInv, RowsOK, TypeOK, TokenRow
    <2> QED
      BY <1>1, <1>2, <1>4, <2>1, <2>2 DEF IInv, RowsOK
  <1>8. ASSUME NEW o \in Requests PROVE LocalOK(req'[o]) /\ ReqOK(req[o])'
    <2>1. CASE o = r
      <3>1. req'[o] = l /\ l.at = "signIn" /\ l.user = u /\ l.address = me.address /\ l.held = {}
        BY <1>0, <1>3, <2>1 DEF Local, LocalOK
      <3>2. LocalOK(l)
        BY <1>0, <3>1 DEF LocalOK
      <3> HIDE DEF l
      <3>3. ReqOK(req[o])'
        BY <1>2, <1>5, <3>1 DEF ReqOK, Exists
      <3> QED
        BY <3>1, <3>2, <3>3
    <2>2. CASE o # r
      <3>1. req'[o] = req[o] /\ req[o] \in Local /\ LocalOK(req[o]) /\ ReqOK(req[o])
        BY <1>3, <2>2, Me
      <3>2. /\ req[o].at \notin {"idle", "checkAddress", "insertUser"} => req[o].user # u
            /\ req[o].held \subseteq Tokens
        BY <1>2, <3>1 DEF ReqOK, Local
      <3> QED
        BY <1>1, <1>2, <1>4, <3>1, <3>2 DEF ReqOK, Exists, IInv, TypeOK
    <2> QED
      BY <2>1, <2>2
  <1>9. LocksOK'
    <2>1. l.held = {} /\ req' = [req EXCEPT ![r] = l]
      BY <1>0 DEF Local, LocalOK, InsertUser, Goto
    <2> HIDE DEF l
    <2> QED
      BY <2>1, ReleaseLocks
  <1> QED
    BY <1>6, <1>7, <1>8, <1>9 DEF IInv, LocalOK

\* The rows a request has marked are locked: a deletion waits for them, so
\* they are there when it commits.
LEMMA InsertTokenIInv ==
  ASSUME IInv, NEW r \in Requests, NEW t \in Tokens, InsertToken(r, t)
  PROVE  IInv'
  <1> DEFINE me == req[r]
             l == [me EXCEPT !.at = "mail", !.token = t, !.held = {}]
             new == [owner |-> me.user, used |-> FALSE, expired |-> FALSE]
             retired(o) == [owner |-> token[o].owner, used |-> TRUE, expired |-> token[o].expired]
  <1>0. me \in Local /\ LocalOK(me) /\ ReqOK(me) /\ me.at = "retire" /\ Exists(me.user)
    BY Me DEF InsertToken
  <1>1. me.user \in Users
    <2>1. me.user \in born
      BY <1>0 DEF ReqOK
    <2> QED
      BY <2>1 DEF IInv, TypeOK
  <1>2. t \notin minted /\ minted' = minted \cup {t} /\ token[t] = Nil /\ mailedTo[t] = Nil
    BY DEF InsertToken, IInv, RowsOK
  <1>3. /\ token'[t] = new
        /\ \A o \in me.held \ {t} : token'[o] = retired(o)
        /\ \A o \in Tokens \ ({t} \cup me.held) : token'[o] = token[o]
    <2>1. me.held \subseteq Tokens
      BY <1>0 DEF Local
    <2> QED
      BY <2>1 DEF InsertToken
  <1>4. new \in TokenRow /\ \A o \in me.held : o \in Tokens /\ token[o] # Nil /\ token[o] \in TokenRow
                                                /\ retired(o) \in TokenRow
    BY <1>0, <1>1 DEF TokenRow, Local, ReqOK, IInv, TypeOK
  <1>5. \A o \in Tokens : /\ token'[o] # Nil <=> (token[o] # Nil \/ o = t)
                          /\ token[o] # Nil => token'[o].owner = token[o].owner
                          /\ token'[o] \in TokenRow \cup {Nil}
    <2>1. new # Nil /\ \A o \in me.held : retired(o) # Nil /\ retired(o).owner = token[o].owner
      BY <1>4, NilAssumption
    <2> TAKE o \in Tokens
    <2>2. CASE o = t
      BY <1>2, <1>3, <1>4, <2>1, <2>2
    <2>3. CASE o \in me.held \ {t}
      BY <1>3, <1>4, <2>1, <2>3
    <2>4. CASE o \in Tokens \ ({t} \cup me.held)
      BY <1>3, <2>4 DEF IInv, TypeOK
    <2> QED
      BY <2>2, <2>3, <2>4
  <1>6. UNCHANGED <<userRow, mailedTo, signed, born>> /\ token'[t].owner = me.user
    BY <1>3 DEF InsertToken
  <1>7. l \in Local /\ LocalOK(l) /\ \A o \in Requests : req'[o] = IF o = r THEN l ELSE req[o]
    BY <1>0 DEF InsertToken, Goto, IInv, TypeOK, Local, Steps, LocalOK
  <1>8. TypeOK'
    <2>1. token' \in [Tokens -> TokenRow \cup {Nil}]
      <3>1. \E f : token' = [o \in Tokens |-> f[o]]
        <4>1. token' = [o \in Tokens |-> token'[o]]
          BY DEF InsertToken
        <4> QED
          BY <4>1
      <3> QED
        BY <1>5, <3>1
    <2>2. req' \in [Requests -> Local]
      BY <1>7 DEF InsertToken, Goto, IInv, TypeOK
    <2> QED
      BY <1>2, <1>6, <2>1, <2>2 DEF IInv, TypeOK
  <1>9. RowsOK'
    BY <1>0, <1>2, <1>5, <1>6 DEF IInv, RowsOK, Exists
  <1>10. ASSUME NEW o \in Requests PROVE LocalOK(req'[o]) /\ ReqOK(req[o])'
    <2>1. CASE o = r
      <3>1. req'[o] = l /\ l.at = "mail" /\ l.user = me.user /\ l.address = me.address /\ l.token = t
            /\ l.held = {}
        BY <1>0, <1>7, <2>1 DEF Local
      <3> HIDE DEF l
      <3>2. ReqOK(req[o])'
        BY <1>0, <1>2, <1>6, <3>1 DEF ReqOK, Exists
      <3> QED
        BY <1>7, <3>1, <3>2
    <2>2. CASE o # r
      <3>1. req'[o] = req[o] /\ req[o] \in Local /\ LocalOK(req[o]) /\ ReqOK(req[o])
        BY <1>7, <2>2, Me
      <3>2. /\ req[o].at = "retire" => t \notin req[o].todo /\ req[o].todo \subseteq Tokens
            /\ req[o].at \in {"mail", "spend", "setVerified"} => t # req[o].token /\ req[o].token \in Tokens
            /\ t \notin req[o].held /\ req[o].held \subseteq Tokens
        BY <1>2, <3>1 DEF ReqOK, LocalOK, Local
      <3> HIDE DEF me, l, new, retired
      <3> QED
        BY <1>2, <1>5, <1>6, <3>1, <3>2 DEF ReqOK, Exists
    <2> QED
      BY <2>1, <2>2
  <1>11. LocksOK'
    <2>1. l.held = {} /\ req' = [req EXCEPT ![r] = l]
      BY <1>0 DEF Local, InsertToken, Goto
    <2> HIDE DEF l
    <2> QED
      BY <2>1, ReleaseLocks
  <1> QED
    BY <1>8, <1>9, <1>10, <1>11 DEF IInv, LocalOK

LEMMA MailTokenIInv ==
  ASSUME IInv, NEW r \in Requests, MailToken(r)
  PROVE  IInv'
  <1> DEFINE me == req[r]
  <1>0. me \in Local /\ LocalOK(me) /\ ReqOK(me) /\ me.at = "mail" /\ me.token \in Tokens /\ me.address \in Addresses
    BY Me DEF MailToken, LocalOK
  <1>1. UNCHANGED <<userRow, token, signed, born, minted>> /\ req' = [req EXCEPT ![r] = Idle]
    BY DEF MailToken, Finish, Goto, tables
  <1>2. mailedTo' = mailedTo \/ mailedTo' = [mailedTo EXCEPT ![me.token] = me.address]
    BY DEF MailToken
  <1>3. TypeOK'
    BY <1>0, <1>1, <1>2, IdleOK DEF IInv, TypeOK
  <1>4. \A t \in Tokens : /\ mailedTo[t] # Nil => mailedTo'[t] # Nil
                          /\ mailedTo'[t] = mailedTo[t] \/ (t = me.token /\ mailedTo'[t] = me.address)
    <2>1. me.address # Nil
      BY <1>0, NilAssumption
    <2>2. \A t \in Tokens : mailedTo'[t] = mailedTo[t] \/ (t = me.token /\ mailedTo'[t] = me.address)
      BY <1>0, <1>2 DEF IInv, TypeOK
    <2> QED
      BY <2>1, <2>2
  <1>5. me.token \in minted /\ (token[me.token] # Nil => userRow[token[me.token].owner].address = me.address)
    BY <1>0 DEF ReqOK, IInv, RowsOK
  <1>6. RowsOK'
    BY <1>1, <1>4, <1>5 DEF IInv, RowsOK, Exists
  <1>7. ASSUME NEW o \in Requests PROVE LocalOK(req'[o]) /\ ReqOK(req[o])'
    <2>1. CASE o = r
      <3>1. req'[o] = Idle
        BY <1>1, <2>1 DEF IInv, TypeOK
      <3> QED
        BY <3>1, IdleOK DEF ReqOK, Idle
    <2>2. CASE o # r
      <3>1. req'[o] = req[o] /\ req[o] \in Local /\ LocalOK(req[o]) /\ ReqOK(req[o])
        BY <1>1, <2>2, Me DEF IInv, TypeOK
      <3> QED
        BY <1>1, <1>4, <3>1 DEF ReqOK, LocalOK, Exists
    <2> QED
      BY <2>1, <2>2
  <1>8. LocksOK'
    BY <1>1, IdleOK, ReleaseLocks
  <1> QED
    BY <1>3, <1>6, <1>7, <1>8 DEF IInv, LocalOK

\* The token of a verification under way is its account's, so the account is
\* there as long as the token is.
LEMMA VerifiedOwner ==
  ASSUME IInv, NEW r \in Requests, req[r].at = "setVerified"
  PROVE  /\ req[r].token \in Tokens /\ token[req[r].token] \in TokenRow
         /\ req[r].user \in Users /\ userRow[req[r].user] \in UserRow
         /\ token[req[r].token].owner = req[r].user
         /\ mailedTo[req[r].token] = userRow[req[r].user].address
  <1>1. LocalOK(req[r]) /\ ReqOK(req[r])
    BY Me
  <1>2. req[r].token \in Tokens /\ token[req[r].token] # Nil /\ token[req[r].token].owner = req[r].user
        /\ mailedTo[req[r].token] # Nil
    BY <1>1 DEF LocalOK, ReqOK
  <1>3. token[req[r].token] \in TokenRow /\ req[r].user \in Users /\ Exists(req[r].user)
    BY <1>2 DEF IInv, TypeOK, RowsOK, TokenRow
  <1> QED
    BY <1>2, <1>3 DEF IInv, TypeOK, RowsOK, Exists

LEMMA SetVerifiedIInv ==
  ASSUME IInv, NEW r \in Requests, SetVerified(r)
  PROVE  IInv'
  <1> DEFINE me == req[r]
             u == me.user
             t == me.token
             row == [name |-> userRow[u].name, address |-> userRow[u].address, verified |-> TRUE]
             spent == [owner |-> token[t].owner, used |-> TRUE, expired |-> token[t].expired]
  <1>1. t \in Tokens /\ token[t] \in TokenRow /\ u \in Users /\ userRow[u] \in UserRow
    BY VerifiedOwner DEF SetVerified
  <1>2. row \in UserRow /\ spent \in TokenRow /\ row # Nil /\ spent # Nil /\ token[t] # Nil /\ userRow[u] # Nil
    <2>1. row \in UserRow /\ spent \in TokenRow
      BY <1>1 DEF UserRow, TokenRow
    <2> HIDE DEF row, spent, u, t
    <2> QED
      BY <1>1, <2>1, NilAssumption
  <1>3. /\ \A v \in Users : userRow'[v] = IF v = u THEN row ELSE userRow[v]
        /\ \A o \in Tokens : token'[o] = IF o = t THEN spent ELSE token[o]
        /\ UNCHANGED <<mailedTo, signed, born, minted>>
        /\ req' = [req EXCEPT ![r] = Idle]
    BY DEF SetVerified, Finish, Goto, IInv, TypeOK
  <1>4. TypeOK'
    BY <1>2, <1>3, IdleOK DEF SetVerified, IInv, TypeOK
  <1>5. /\ \A v \in Users : Exists(v)' <=> Exists(v)
        /\ \A v \in Users : userRow'[v].address = userRow[v].address
        /\ \A o \in Tokens : (token'[o] # Nil <=> token[o] # Nil) /\ token'[o].owner = token[o].owner
    BY <1>2, <1>3 DEF Exists
  <1> HIDE DEF row, spent, u, t
  <1>6. \A o \in Tokens : token[o] # Nil => token[o].owner \in Users
    BY DEF IInv, TypeOK, TokenRow
  <1>7. RowsOK'
    BY <1>3, <1>5, <1>6 DEF IInv, RowsOK
  <1>8. ASSUME NEW o \in Requests PROVE LocalOK(req'[o]) /\ ReqOK(req[o])'
    <2>1. CASE o = r
      <3>1. req'[o] = Idle
        BY <1>3, <2>1 DEF IInv, TypeOK
      <3> QED
        BY <3>1, IdleOK DEF ReqOK, Idle
    <2>2. CASE o # r
      <3>1. req'[o] = req[o] /\ req[o] \in Local /\ LocalOK(req[o]) /\ ReqOK(req[o])
        BY <1>3, <2>2, Me DEF IInv, TypeOK
      <3>2. /\ req[o].at \notin {"idle", "checkAddress", "insertUser"} => req[o].user \in Users
            /\ req[o].todo \subseteq Tokens /\ req[o].held \subseteq Tokens
        BY <3>1 DEF ReqOK, Local, IInv, TypeOK
      <3> QED
        BY <1>3, <1>5, <3>1, <3>2 DEF ReqOK, LocalOK
    <2> QED
      BY <2>1, <2>2
  <1>9. LocksOK'
    BY <1>3, IdleOK, ReleaseLocks
  <1> QED
    BY <1>4, <1>7, <1>8, <1>9 DEF IInv, LocalOK

\* At its COMMIT a deletion has locked the tokens of its account and no others.
LEMMA HeldByDeletion ==
  ASSUME IInv, NEW r \in Requests, CommitDeletion(r)
  PROVE  /\ req[r].user \in Users /\ req[r].held = TokensOf(req[r].user)
         /\ \A o \in Requests \ {r} : req[o].held \cap req[r].held = {}
  <1>1. req[r] \in Local /\ ReqOK(req[r]) /\ req[r].at = "cascade"
    BY Me DEF CommitDeletion
  <1>2. req[r].user \in Users
    BY <1>1 DEF ReqOK, IInv, TypeOK
  <1>3. req[r].held \subseteq TokensOf(req[r].user)
    BY <1>1 DEF ReqOK, Local, TokensOf
  <1> QED
    BY <1>2, <1>3 DEF CommitDeletion, IInv, LocksOK

LEMMA CommitDeletionIInv ==
  ASSUME IInv, NEW r \in Requests, CommitDeletion(r)
  PROVE  IInv'
  <1> DEFINE u == req[r].user
             gone == TokensOf(u)
  <1>1. /\ \A v \in Users : userRow'[v] = IF v = u THEN Nil ELSE userRow[v]
        /\ \A o \in Tokens : token'[o] = IF o \in gone THEN Nil ELSE token[o]
        /\ UNCHANGED <<mailedTo, signed, born, minted>>
        /\ req' = [req EXCEPT ![r] = Idle]
    BY HeldByDeletion DEF CommitDeletion, Finish, Goto, IInv, TypeOK
  <1>2. TypeOK'
    <2>1. req' \in [Requests -> Local] /\ userRow' \in [Users -> UserRow \cup {Nil}]
      BY IdleOK DEF CommitDeletion, Finish, Goto, IInv, TypeOK
    <2>2. token' \in [Tokens -> TokenRow \cup {Nil}]
      BY DEF CommitDeletion, IInv, TypeOK
    <2> QED
      BY <1>1, <2>1, <2>2 DEF IInv, TypeOK
  <1>3. \A o \in Tokens : token'[o] # Nil =>
          token'[o] = token[o] /\ token[o] # Nil /\ token[o].owner \in Users /\ token[o].owner # u
    BY <1>1 DEF TokensOf, IInv, TypeOK, TokenRow
  <1>4. RowsOK'
    BY <1>1, <1>3 DEF IInv, RowsOK, Exists
  <1>5. \A o \in Requests \ {r} : req[o].held \cap gone = {}
    BY HeldByDeletion
  <1>6. ASSUME NEW o \in Requests PROVE LocalOK(req'[o]) /\ ReqOK(req[o])'
    <2>1. CASE o = r
      <3>1. req'[o] = Idle
        BY <1>1, <2>1 DEF IInv, TypeOK
      <3> QED
        BY <3>1, IdleOK DEF ReqOK, Idle
    <2>2. CASE o # r
      <3>1. req'[o] = req[o] /\ req[o] \in Local /\ LocalOK(req[o]) /\ ReqOK(req[o])
        BY <1>1, <2>2, Me DEF IInv, TypeOK
      <3>2. /\ req[o].at \notin {"idle", "checkAddress", "insertUser"} => req[o].user \in Users
            /\ req[o].todo \subseteq Tokens /\ req[o].held \subseteq Tokens
        BY <3>1 DEF ReqOK, Local, IInv, TypeOK
      <3>3. \A t \in req[o].held : t \notin gone
        BY <1>5, <2>2
      <3> HIDE DEF gone, u
      <3>4. \A v \in Users : Exists(v)' => Exists(v) /\ userRow'[v] = userRow[v]
        BY <1>1 DEF Exists
      <3> QED
        BY <1>1, <1>3, <3>1, <3>2, <3>3, <3>4 DEF ReqOK, LocalOK
    <2> QED
      BY <2>1, <2>2
  <1>7. LocksOK'
    BY <1>1, IdleOK, ReleaseLocks
  <1> QED
    BY <1>2, <1>4, <1>6, <1>7 DEF IInv, LocalOK

LEMMA ExpireTokenIInv ==
  ASSUME IInv, NEW t \in Tokens, ExpireToken(t)
  PROVE  IInv'
  <1> DEFINE old == [owner |-> token[t].owner, used |-> token[t].used, expired |-> TRUE]
  <1>1. token[t] \in TokenRow /\ token[t] # Nil
    BY DEF ExpireToken, IInv, TypeOK
  <1>2. old \in TokenRow /\ old.owner = token[t].owner
    BY <1>1 DEF TokenRow
  <1>3. /\ \A o \in Tokens : token'[o] = IF o = t THEN old ELSE token[o]
        /\ UNCHANGED <<userRow, mailedTo, signed, req, born, minted>>
    BY DEF ExpireToken, IInv, TypeOK
  <1>4. TypeOK'
    BY <1>2, <1>3 DEF ExpireToken, IInv, TypeOK
  <1>5. \A o \in Tokens : (token'[o] # Nil <=> token[o] # Nil) /\ token'[o].owner = token[o].owner
    <2> HIDE DEF old
    <2> QED
      BY <1>1, <1>2, <1>3, NilAssumption
  <1>6. RowsOK'
    BY <1>3, <1>5 DEF IInv, RowsOK, Exists
  <1>7. ASSUME NEW o \in Requests PROVE LocalOK(req'[o]) /\ ReqOK(req[o])'
    <2>1. req'[o] = req[o] /\ req[o] \in Local /\ LocalOK(req[o]) /\ ReqOK(req[o])
          /\ req[o].todo \subseteq Tokens /\ req[o].held \subseteq Tokens
      BY <1>3, Me DEF Local
    <2> QED
      BY <1>3, <1>5, <2>1 DEF ReqOK, LocalOK, Exists
  <1>8. LocksOK'
    BY <1>3 DEF IInv, LocksOK
  <1> QED
    BY <1>4, <1>6, <1>7, <1>8 DEF IInv, LocalOK

\* What touches no row and no request, and a restart.
LEMMA OthersIInv ==
  ASSUME IInv,
         \/ \E u \in Users : RefreshTokens(u) \/ ExpireSigned(u)
         \/ Restart
         \/ UNCHANGED vars
  PROVE  IInv'
  <1>1. /\ UNCHANGED <<userRow, token, mailedTo, born, minted>>
        /\ signed' \in [Users -> SUBSET Pair]
        /\ req' = req \/ req' = [r \in Requests |-> Idle]
    BY DEF RefreshTokens, ExpireSigned, Sign, Restart, vars, tables, IInv, TypeOK, Pair
  <1>2. TypeOK'
    BY <1>1, IdleOK DEF IInv, TypeOK
  <1>3. RowsOK'
    BY <1>1 DEF IInv, RowsOK, Exists
  <1>4. ASSUME NEW o \in Requests PROVE LocalOK(req'[o]) /\ ReqOK(req[o])'
    <2>1. req'[o] \in Local /\ LocalOK(req'[o]) /\ ReqOK(req'[o])
      BY <1>1, Me, IdleOK
    <2> QED
      BY <1>1, <2>1 DEF ReqOK, Exists
  <1>5. LocksOK'
    BY <1>1, IdleOK DEF IInv, LocksOK
  <1> QED
    BY <1>2, <1>3, <1>4, <1>5 DEF IInv, LocalOK

LEMMA NextIInv == ASSUME IInv, [Next]_vars PROVE IInv'
  <1>1. ASSUME NEW r \in Requests, Proceed(r) PROVE IInv'
    BY <1>1, StepsIInv, LocksIInv, InsertUserIInv, InsertTokenIInv, MailTokenIInv, SetVerifiedIInv,
       CommitDeletionIInv
       DEF Proceed
  <1>2. ASSUME NEW r \in Requests, BreakDeadlock(r) PROVE IInv'
    BY <1>2, AbortIInv DEF BreakDeadlock
  <1> QED
    BY <1>1, <1>2, ArriveIInv, ExpireTokenIInv, OthersIInv DEF Next

LEMMA Invariance == Spec => []IInv
  BY InitIInv, NextIInv, PTL DEF Spec

\* The variables of Registration keep their types, whatever requests overlap.
THEOREM TypeCorrect == Spec => []TypeOK
  BY Invariance, PTL DEF IInv

-----------------------------------------------------------------------------
(* What the six steps that write rows do to them; every other leaves them.  *)

LEMMA WhoWrites ==
  ASSUME IInv, [Next]_vars
  PROVE  \/ UNCHANGED <<userRow, token, mailedTo, born>>
         \/ \E r \in Requests :
              \/ \E u \in Users : InsertUser(r, u)
              \/ \E t \in Tokens : InsertToken(r, t)
              \/ MailToken(r) \/ SetVerified(r) \/ CommitDeletion(r)
         \/ \E t \in Tokens : ExpireToken(t)
  <1>1. ASSUME NEW r \in Requests, Proceed(r)
        PROVE  \/ UNCHANGED <<userRow, token, mailedTo, born>>
               \/ \E u \in Users : InsertUser(r, u)
               \/ \E t \in Tokens : InsertToken(r, t)
               \/ MailToken(r) \/ SetVerified(r) \/ CommitDeletion(r)
    BY <1>1 DEF Proceed, CheckAddress, LoseInsert, SignIn, CollectUnused, RetireToken, RefuseToken,
                SpendToken, ClearMisses, CommitLogin, DeleteUserRow, CascadeToToken, Abort, tables
  <1>2. ASSUME NEW r \in Requests,
               \/ BreakDeadlock(r)
               \/ \E n \in Names, a \in Addresses : Register(r, n, a)
               \/ \E u \in Users : Login(r, u) \/ ResendVerification(r, u) \/ DeleteAccount(r, u)
               \/ \E t \in Tokens : VerifyEmail(r, t)
        PROVE  UNCHANGED <<userRow, token, mailedTo, born>>
    BY <1>2 DEF BreakDeadlock, Abort, Register, Login, ResendVerification, DeleteAccount, VerifyEmail, tables
  <1>3. ASSUME \/ \E u \in Users : RefreshTokens(u) \/ ExpireSigned(u)
               \/ Restart
               \/ UNCHANGED vars
        PROVE  UNCHANGED <<userRow, token, mailedTo, born>>
    BY <1>3 DEF RefreshTokens, ExpireSigned, Restart, vars, tables
  <1> QED
    BY <1>1, <1>2, <1>3 DEF Next

LEMMA InsertUserEffect ==
  ASSUME IInv, NEW r \in Requests, NEW u \in Users, InsertUser(r, u)
  PROVE  /\ userRow' = [userRow EXCEPT ![u] = [name |-> req[r].name, address |-> req[r].address,
                                               verified |-> FALSE]]
         /\ req[r].name \in Names /\ req[r].address \in Addresses
         /\ Clashes(req[r].name, req[r].address) = {}
         /\ u \notin born /\ ~Exists(u) /\ born' = born \cup {u}
         /\ TokensOf(u) = {}
         /\ userRow'[u].verified = FALSE
         /\ \A v \in Users : v # u => userRow'[v] = userRow[v]
         /\ UNCHANGED <<token, mailedTo>>
  <1>1. LocalOK(req[r])
    BY Me
  <1>2. u \notin born /\ ~Exists(u)
    BY DEF InsertUser, IInv, RowsOK
  <1>3. TokensOf(u) = {}
    BY <1>2 DEF TokensOf, IInv, RowsOK
  <1> QED
    BY <1>1, <1>2, <1>3 DEF InsertUser, LocalOK, IInv, TypeOK

LEMMA InsertTokenEffect ==
  ASSUME IInv, NEW r \in Requests, NEW t \in Tokens, InsertToken(r, t)
  PROVE  /\ req[r].user \in Users /\ Exists(req[r].user)
         /\ token[t] = Nil /\ mailedTo[t] = Nil
         /\ token'[t] # Nil /\ token'[t].owner = req[r].user /\ token'[t].used = FALSE
         /\ \A o \in Tokens \ {t} : /\ token'[o] # Nil <=> token[o] # Nil
                                    /\ token'[o].owner = token[o].owner
                                    /\ \/ token'[o] = token[o]
                                       \/ token'[o].used = TRUE /\ token[o].owner = req[r].user
         /\ UNCHANGED <<userRow, mailedTo, born>>
  <1> DEFINE me == req[r]
             new == [owner |-> me.user, used |-> FALSE, expired |-> FALSE]
             retired(o) == [owner |-> token[o].owner, used |-> TRUE, expired |-> token[o].expired]
  <1>0. me \in Local /\ ReqOK(me) /\ me.at = "retire" /\ Exists(me.user)
    BY Me DEF InsertToken
  <1>1. me.user \in Users
    <2>1. me.user \in born
      BY <1>0 DEF ReqOK
    <2> QED
      BY <2>1 DEF IInv, TypeOK
  <1>2. token[t] = Nil /\ mailedTo[t] = Nil
    BY DEF InsertToken, IInv, RowsOK
  <1>3. /\ token'[t] = new
        /\ \A o \in me.held \ {t} : token'[o] = retired(o)
        /\ \A o \in Tokens \ ({t} \cup me.held) : token'[o] = token[o]
    <2>1. me.held \subseteq Tokens
      BY <1>0 DEF Local
    <2> QED
      BY <2>1 DEF InsertToken
  <1>4. new \in TokenRow /\ \A o \in me.held : /\ token[o] # Nil /\ token[o].owner = me.user
                                               /\ retired(o) \in TokenRow
    BY <1>0, <1>1 DEF TokenRow, Local, ReqOK, IInv, TypeOK
  <1>5. new # Nil /\ \A o \in me.held : retired(o) # Nil
    BY <1>4, NilAssumption
  <1>6. ASSUME NEW o \in Tokens \ {t}
        PROVE  /\ token'[o] # Nil <=> token[o] # Nil
               /\ token'[o].owner = token[o].owner
               /\ \/ token'[o] = token[o]
                  \/ token'[o].used = TRUE /\ token[o].owner = me.user
    <2>1. CASE o \in me.held
      <3>1. token'[o] = retired(o)
        BY <1>3, <2>1
      <3>2. retired(o) # Nil /\ token[o] # Nil /\ token[o].owner = me.user
        BY <1>4, <1>5, <2>1
      <3>3. retired(o).owner = token[o].owner /\ retired(o).used = TRUE
        OBVIOUS
      <3> HIDE DEF retired
      <3> QED
        BY <3>1, <3>2, <3>3
    <2>2. CASE o \notin me.held
      BY <1>3, <2>2
    <2> QED
      BY <2>1, <2>2
  <1> QED
    BY <1>0, <1>1, <1>2, <1>3, <1>5, <1>6 DEF InsertToken

LEMMA MailTokenEffect ==
  ASSUME IInv, NEW r \in Requests, MailToken(r)
  PROVE  /\ req[r].token \in Tokens
         /\ token[req[r].token] # Nil =>
              /\ token[req[r].token].owner = req[r].user /\ req[r].user \in Users
              /\ Exists(req[r].user) /\ userRow[req[r].user].address = req[r].address
         /\ \/ mailedTo' = mailedTo
            \/ mailedTo' = [mailedTo EXCEPT ![req[r].token] = req[r].address]
         /\ UNCHANGED <<userRow, token, born>>
  <1>1. LocalOK(req[r]) /\ ReqOK(req[r]) /\ req[r].at = "mail"
    BY Me DEF MailToken
  <1>2. req[r].token \in Tokens /\ (token[req[r].token] # Nil => token[req[r].token].owner = req[r].user)
        /\ (Exists(req[r].user) => userRow[req[r].user].address = req[r].address) /\ req[r].user \in born
    BY <1>1 DEF LocalOK, ReqOK
  <1> QED
    BY <1>2 DEF MailToken, IInv, TypeOK, RowsOK, tables

LEMMA SetVerifiedEffect ==
  ASSUME IInv, NEW r \in Requests, SetVerified(r)
  PROVE  LET u == req[r].user
             t == req[r].token
         IN  /\ u \in Users /\ t \in Tokens /\ Exists(u) /\ token[t] # Nil /\ token[t].owner = u
             /\ mailedTo[t] = userRow[u].address
             /\ userRow' = [userRow EXCEPT ![u] = [name |-> @.name, address |-> @.address,
                                                   verified |-> TRUE]]
             /\ userRow'[u] # Nil /\ userRow'[u].verified = TRUE
             /\ userRow'[u].address = userRow[u].address
             /\ \A v \in Users : v # u => userRow'[v] = userRow[v]
             /\ token'[t] # Nil /\ token'[t].owner = u /\ token'[t].used = TRUE
             /\ \A o \in Tokens : o # t => token'[o] = token[o]
             /\ UNCHANGED <<mailedTo, born>>
  <1> DEFINE u == req[r].user
             t == req[r].token
             row == [name |-> userRow[u].name, address |-> userRow[u].address, verified |-> TRUE]
             spent == [owner |-> token[t].owner, used |-> TRUE, expired |-> token[t].expired]
  <1>1. t \in Tokens /\ token[t] \in TokenRow /\ u \in Users /\ userRow[u] \in UserRow
        /\ token[t].owner = u /\ mailedTo[t] = userRow[u].address
    BY VerifiedOwner DEF SetVerified
  <1>2. row \in UserRow /\ spent \in TokenRow
    BY <1>1 DEF UserRow, TokenRow
  <1>3. row # Nil /\ spent # Nil /\ userRow[u] # Nil /\ token[t] # Nil
    <2> HIDE DEF row, spent, u, t
    <2> QED
      BY <1>1, <1>2, NilAssumption
  <1>4. /\ userRow' = [userRow EXCEPT ![u] = row]
        /\ token' = [token EXCEPT ![t] = spent]
        /\ UNCHANGED <<mailedTo, born>>
    BY DEF SetVerified
  <1> QED
    BY <1>1, <1>3, <1>4 DEF IInv, TypeOK, Exists

LEMMA CommitDeletionEffect ==
  ASSUME IInv, NEW r \in Requests, CommitDeletion(r)
  PROVE  LET u == req[r].user
         IN  /\ u \in Users
             /\ userRow' = [userRow EXCEPT ![u] = Nil]
             /\ \A v \in Users : userRow'[v] = IF v = u THEN Nil ELSE userRow[v]
             /\ \A o \in Tokens : token'[o] = IF o \in TokensOf(u) THEN Nil ELSE token[o]
             /\ UNCHANGED <<mailedTo, born>>
  BY HeldByDeletion DEF CommitDeletion, IInv, TypeOK

LEMMA ExpireTokenEffect ==
  ASSUME IInv, NEW t \in Tokens, ExpireToken(t)
  PROVE  /\ \A o \in Tokens : /\ token'[o] # Nil <=> token[o] # Nil
                              /\ token'[o].owner = token[o].owner
                              /\ token'[o].used = token[o].used
         /\ UNCHANGED <<userRow, mailedTo, born>>
  <1> DEFINE old == [owner |-> token[t].owner, used |-> token[t].used, expired |-> TRUE]
  <1>1. token[t] \in TokenRow /\ token[t] # Nil
    BY DEF ExpireToken, IInv, TypeOK
  <1>2. old \in TokenRow
    BY <1>1 DEF TokenRow
  <1>3. old # Nil
    <2> HIDE DEF old
    <2> QED
      BY <1>2, NilAssumption
  <1> QED
    BY <1>1, <1>3 DEF ExpireToken, IInv, TypeOK

-----------------------------------------------------------------------------
(* The safety properties.                                                  *)

LEMMA StillVerifiableStep ==
  ASSUME IInv, StillVerifiable, [Next]_vars
  PROVE  StillVerifiable'
  <1>1. ASSUME UNCHANGED <<userRow, token, mailedTo, born>> PROVE StillVerifiable'
    BY <1>1 DEF StillVerifiable, Unverified, Exists, TokensOf, UnusedOf
  <1>2. ASSUME NEW r \in Requests, NEW u \in Users, InsertUser(r, u) PROVE StillVerifiable'
    <2> SUFFICES ASSUME NEW v \in Users, Unverified(v)', TokensOf(v)' # {}
                 PROVE  UnusedOf(v)' # {}
      BY DEF StillVerifiable
    <2>1. TokensOf(v)' = TokensOf(v) /\ UnusedOf(v)' = UnusedOf(v)
      BY <1>2, InsertUserEffect DEF TokensOf, UnusedOf
    <2>2. v # u
      BY <1>2, <2>1, InsertUserEffect
    <2>3. Unverified(v)
      BY <1>2, <2>2, InsertUserEffect DEF Unverified, Exists
    <2> QED
      BY <2>1, <2>3 DEF StillVerifiable
  <1>3. ASSUME NEW r \in Requests, NEW t \in Tokens, InsertToken(r, t) PROVE StillVerifiable'
    <2> SUFFICES ASSUME NEW u \in Users, Unverified(u)', NEW o \in Tokens, o \in TokensOf(u)'
                 PROVE  UnusedOf(u)' # {}
      BY DEF StillVerifiable, TokensOf
    <2>1. CASE u = req[r].user
      <3>1. t \in UnusedOf(u)'
        BY <1>3, <2>1, InsertTokenEffect DEF UnusedOf
      <3> QED
        BY <3>1
    <2>2. CASE u # req[r].user
      <3>1. o # t /\ o \in TokensOf(u) /\ Unverified(u)
        BY <1>3, <2>2, InsertTokenEffect DEF TokensOf, Unverified, Exists
      <3>2. PICK x \in Tokens : x \in UnusedOf(u)
        BY <3>1 DEF StillVerifiable, UnusedOf
      <3>3. x # t /\ token'[x] = token[x]
        BY <1>3, <2>2, <3>2, InsertTokenEffect DEF UnusedOf
      <3>4. x \in UnusedOf(u)'
        BY <3>2, <3>3 DEF UnusedOf
      <3> QED
        BY <3>4
    <2> QED
      BY <2>1, <2>2
  <1>4. ASSUME NEW r \in Requests, MailToken(r) PROVE StillVerifiable'
    BY <1>4, MailTokenEffect DEF StillVerifiable, Unverified, Exists, TokensOf, UnusedOf
  <1>5. ASSUME NEW r \in Requests, SetVerified(r) PROVE StillVerifiable'
    <2> SUFFICES ASSUME NEW u \in Users, Unverified(u)', NEW o \in Tokens, o \in TokensOf(u)'
                 PROVE  UnusedOf(u)' # {}
      BY DEF StillVerifiable, TokensOf
    <2>1. u # req[r].user /\ Unverified(u)
      BY <1>5, SetVerifiedEffect DEF Unverified, Exists
    <2>2. o # req[r].token /\ o \in TokensOf(u)
      BY <1>5, <2>1, SetVerifiedEffect DEF TokensOf
    <2>3. PICK x \in Tokens : x \in UnusedOf(u)
      BY <2>1, <2>2 DEF StillVerifiable, UnusedOf
    <2>4. x # req[r].token /\ token'[x] = token[x]
      BY <1>5, <2>1, <2>3, SetVerifiedEffect DEF UnusedOf
    <2>5. x \in UnusedOf(u)'
      BY <2>3, <2>4 DEF UnusedOf
    <2> QED
      BY <2>5
  <1>6. ASSUME NEW r \in Requests, CommitDeletion(r) PROVE StillVerifiable'
    <2> SUFFICES ASSUME NEW u \in Users, Unverified(u)', NEW o \in Tokens, o \in TokensOf(u)'
                 PROVE  UnusedOf(u)' # {}
      BY DEF StillVerifiable, TokensOf
    <2>1. u # req[r].user /\ Unverified(u) /\ o \in TokensOf(u)
      BY <1>6, CommitDeletionEffect DEF Unverified, Exists, TokensOf
    <2>2. PICK x \in Tokens : x \in UnusedOf(u)
      BY <2>1 DEF StillVerifiable, UnusedOf
    <2>3. token'[x] = token[x]
      BY <1>6, <2>1, <2>2, CommitDeletionEffect DEF UnusedOf, TokensOf
    <2>4. x \in UnusedOf(u)'
      BY <2>2, <2>3 DEF UnusedOf
    <2> QED
      BY <2>4
  <1>7. ASSUME NEW t \in Tokens, ExpireToken(t) PROVE StillVerifiable'
    BY <1>7, ExpireTokenEffect DEF StillVerifiable, Unverified, Exists, TokensOf, UnusedOf
  <1> QED
    BY <1>1, <1>2, <1>3, <1>4, <1>5, <1>6, <1>7, WhoWrites

\* No failure, restart or overlap leaves an unverified account with nothing
\* but spent tokens: a token is spent and an old one retired in the commit that
\* makes up for it, and only for its own account.
THEOREM StaysVerifiable == Spec => []StillVerifiable
  <1>1. Init => StillVerifiable
    BY DEF Init, StillVerifiable, Unverified, Exists
  <1> QED
    BY <1>1, Invariance, StillVerifiableStep, PTL DEF Spec

LEMMA VerifiedByOwnMailStep ==
  ASSUME IInv, VerifiedByOwnMail, [Next]_vars
  PROVE  VerifiedByOwnMail'
  <1> DEFINE Proof(u, t) == token[t] # Nil /\ token[t].owner = u /\ token[t].used
                            /\ mailedTo[t] = userRow[u].address
  <1>0. VerifiedByOwnMail <=>
          \A u \in Users : Exists(u) /\ userRow[u].verified => \E t \in Tokens : Proof(u, t)
    BY DEF VerifiedByOwnMail, TokensOf
  <1>00. VerifiedByOwnMail' <=>
          \A u \in Users : Exists(u)' /\ userRow'[u].verified => \E t \in Tokens : Proof(u, t)'
    BY DEF VerifiedByOwnMail, TokensOf
  <1> SUFFICES ASSUME NEW u \in Users, Exists(u)', userRow'[u].verified
               PROVE  \E t \in Tokens : Proof(u, t)'
    BY <1>00
  <1>1. ASSUME UNCHANGED <<userRow, token, mailedTo, born>> PROVE \E t \in Tokens : Proof(u, t)'
    BY <1>0, <1>1 DEF Exists
  <1>2. ASSUME NEW r \in Requests, NEW v \in Users, InsertUser(r, v) PROVE \E t \in Tokens : Proof(u, t)'
    <2>1. u # v /\ userRow'[u] = userRow[u] /\ UNCHANGED <<token, mailedTo>>
      BY <1>2, InsertUserEffect
    <2>2. PICK t \in Tokens : Proof(u, t)
      BY <1>0, <2>1 DEF Exists
    <2>3. Proof(u, t)'
      BY <2>1, <2>2
    <2> QED
      BY <2>3
  <1>3. ASSUME NEW r \in Requests, NEW o \in Tokens, InsertToken(r, o) PROVE \E t \in Tokens : Proof(u, t)'
    <2>1. PICK t \in Tokens : Proof(u, t)
      <3>1. UNCHANGED userRow
        BY <1>3, InsertTokenEffect
      <3> QED
        BY <1>0, <3>1 DEF Exists
    <2>2. t # o
      BY <1>3, <2>1, InsertTokenEffect
    <2>3. Proof(u, t)'
      BY <1>3, <2>1, <2>2, InsertTokenEffect
    <2> QED
      BY <2>3
  <1>4. ASSUME NEW r \in Requests, MailToken(r) PROVE \E t \in Tokens : Proof(u, t)'
    <2>1. PICK t \in Tokens : Proof(u, t)
      BY <1>0, <1>4, MailTokenEffect DEF Exists
    <2>2. mailedTo'[t] = mailedTo[t] \/ (t = req[r].token /\ mailedTo'[t] = req[r].address)
      BY <1>4, MailTokenEffect DEF IInv, TypeOK
    <2>3. mailedTo'[t] = userRow[u].address
      BY <1>4, <2>1, <2>2, MailTokenEffect
    <2>4. Proof(u, t)'
      BY <1>4, <2>1, <2>3, MailTokenEffect
    <2> QED
      BY <2>4
  <1>5. ASSUME NEW r \in Requests, SetVerified(r) PROVE \E t \in Tokens : Proof(u, t)'
    <2>1. CASE u = req[r].user
      <3>1. PICK t \in Tokens : t = req[r].token
        BY <1>5, SetVerifiedEffect
      <3>2. Proof(u, t)'
        BY <1>5, <2>1, <3>1, SetVerifiedEffect
      <3> QED
        BY <3>2
    <2>2. CASE u # req[r].user
      <3>1. PICK t \in Tokens : Proof(u, t)
        BY <1>0, <1>5, <2>2, SetVerifiedEffect DEF Exists
      <3>2. Proof(u, t)'
        BY <1>5, <2>2, <3>1, SetVerifiedEffect
      <3> QED
        BY <3>2
    <2> QED
      BY <2>1, <2>2
  <1>6. ASSUME NEW r \in Requests, CommitDeletion(r) PROVE \E t \in Tokens : Proof(u, t)'
    <2>1. u # req[r].user
      BY <1>6, CommitDeletionEffect DEF Exists
    <2>2. PICK t \in Tokens : Proof(u, t)
      BY <1>0, <1>6, <2>1, CommitDeletionEffect DEF Exists
    <2>3. Proof(u, t)'
      BY <1>6, <2>1, <2>2, CommitDeletionEffect DEF TokensOf
    <2> QED
      BY <2>3
  <1>7. ASSUME NEW o \in Tokens, ExpireToken(o) PROVE \E t \in Tokens : Proof(u, t)'
    <2>1. PICK t \in Tokens : Proof(u, t)
      BY <1>0, <1>7, ExpireTokenEffect DEF Exists
    <2>2. Proof(u, t)'
      BY <1>7, <2>1, ExpireTokenEffect
    <2> QED
      BY <2>2
  <1> QED
    BY <1>1, <1>2, <1>3, <1>4, <1>5, <1>6, <1>7, WhoWrites

\* An account is verified by a token that was made for it and mailed to its own
\* address: another account's token, or one of an earlier account with the same
\* address, verifies nothing.
THEOREM OwnMailVerifies == Spec => []VerifiedByOwnMail
  <1>1. Init => VerifiedByOwnMail
    BY DEF Init, VerifiedByOwnMail, Exists
  <1> QED
    BY <1>1, Invariance, VerifiedByOwnMailStep, PTL DEF Spec

\* Of an account that is gone, only a login that was about to sign signs, and
\* then it is not about to any more.
LEMMA WhoSigns ==
  ASSUME IInv, [Next]_vars, NEW u \in Users, ~Exists(u)
  PROVE  \/ signed'[u] \subseteq signed[u]
         \/ \E r \in Requests : CommitLogin(r) /\ r \in AboutToSign(u)
  <1>0. signed \in [Users -> SUBSET Pair]
    BY DEF IInv, TypeOK
  <1>1. ASSUME NEW v \in Users, v # u, Sign(v) PROVE signed'[u] \subseteq signed[u]
    BY <1>0, <1>1 DEF Sign
  <1>2. ASSUME NEW r \in Requests, Proceed(r), ~(CommitLogin(r) /\ r \in AboutToSign(u))
        PROVE  signed'[u] \subseteq signed[u]
    <2>1. CASE SignIn(r) \/ ClearMisses(r)
      <3>1. req[r].user \in Users
        BY <2>1, Me DEF SignIn, ClearMisses, ReqOK, IInv, TypeOK
      <3> QED
        BY <1>1, <2>1, <3>1 DEF SignIn, ClearMisses, Abort
    <2>2. CASE CommitLogin(r)
      <3>1. req[r].user \in Users /\ req[r].user # u
        BY <1>2, <2>2, Me DEF CommitLogin, AboutToSign, ReqOK, IInv, TypeOK
      <3> QED
        BY <1>1, <2>2, <3>1 DEF CommitLogin
    <2>3. CASE ~(SignIn(r) \/ ClearMisses(r) \/ CommitLogin(r))
      BY <1>2, <2>3 DEF Proceed, CheckAddress, InsertUser, LoseInsert, CollectUnused, RetireToken, InsertToken,
           RefuseToken, MailToken, SpendToken, SetVerified, DeleteUserRow, CascadeToToken, CommitDeletion, Abort
    <2> QED
      BY <2>1, <2>2, <2>3
  <1>3. ASSUME NEW r \in Requests,
               \/ BreakDeadlock(r)
               \/ \E n \in Names, a \in Addresses : Register(r, n, a)
               \/ \E v \in Users : Login(r, v) \/ ResendVerification(r, v) \/ DeleteAccount(r, v)
               \/ \E t \in Tokens : VerifyEmail(r, t)
        PROVE  signed'[u] \subseteq signed[u]
    BY <1>3 DEF BreakDeadlock, Abort, Register, Login, ResendVerification, DeleteAccount, VerifyEmail
  <1>4. ASSUME NEW v \in Users, RefreshTokens(v) PROVE signed'[u] \subseteq signed[u]
    BY <1>1, <1>4 DEF RefreshTokens
  <1>5. ASSUME NEW v \in Users, ExpireSigned(v) PROVE signed'[u] \subseteq signed[u]
    BY <1>0, <1>5 DEF ExpireSigned
  <1>6. ASSUME (\E t \in Tokens : ExpireToken(t)) \/ Restart \/ UNCHANGED vars
        PROVE  signed'[u] \subseteq signed[u]
    BY <1>6 DEF ExpireToken, Restart, vars
  <1> QED
    BY <1>2, <1>3, <1>4, <1>5, <1>6 DEF Next

\* What a step makes of the request it belongs to is not a login about to sign,
\* unless it is a new one.
LEMMA WhoIsAbout ==
  ASSUME IInv, [Next]_vars, NEW u \in Users, ~Exists(u)
  PROVE  AboutToSign(u)' \subseteq AboutToSign(u)
  <1> SUFFICES ASSUME NEW o \in Requests, req'[o].at = "commitLogin", req'[o].user = u, req'[o] # req[o]
               PROVE  FALSE
    BY DEF AboutToSign
  <1>1. ASSUME NEW r \in Requests, NEW l, Goto(r, l), l.at # "commitLogin" \/ l.user # u PROVE FALSE
    BY <1>1 DEF Goto, IInv, TypeOK
  <1>2. Idle.at # "commitLogin"
    BY DEF Idle
  <1>3. ASSUME NEW r \in Requests, Finish(r) PROVE FALSE
    BY <1>1, <1>2, <1>3 DEF Finish, Goto
  <1>4. ASSUME NEW r \in Requests, Proceed(r) PROVE FALSE
    <2> DEFINE me == req[r]
    <2>0. me \in Local
      BY Me
    <2>1. CASE CheckAddress(r)
      <3>1. [me EXCEPT !.at = "insertUser"].at # "commitLogin"
        BY <2>0 DEF Local
      <3> QED
        BY <1>1, <1>3, <2>1, <3>1 DEF CheckAddress
    <2>2. CASE \E v \in Users : InsertUser(r, v)
      <3>1. PICK v \in Users : InsertUser(r, v)
        BY <2>2
      <3>2. [me EXCEPT !.at = "signIn", !.user = v, !.name = Nil].at # "commitLogin"
        BY <2>0 DEF Local
      <3> QED
        BY <1>1, <3>1, <3>2 DEF InsertUser
    <2>3. CASE SignIn(r)
      <3>1. [me EXCEPT !.at = "collect"].at # "commitLogin"
        BY <2>0 DEF Local
      <3> QED
        BY <1>1, <1>3, <2>3, <3>1 DEF SignIn, Abort
    <2>4. CASE CollectUnused(r)
      <3>1. [me EXCEPT !.at = "retire", !.todo = UnusedOf(me.user)].at # "commitLogin"
        BY <2>0 DEF Local
      <3> QED
        BY <1>1, <2>4, <3>1 DEF CollectUnused
    <2>5. CASE RetireToken(r)
      <3>1. \A t : [me EXCEPT !.todo = @ \ {t}, !.held = @ \cup {t}].at # "commitLogin"
        BY <2>0, <2>5 DEF RetireToken, Local
      <3> QED
        BY <1>1, <1>3, <2>5, <3>1 DEF RetireToken
    <2>6. CASE \E t \in Tokens : InsertToken(r, t)
      <3>1. PICK t \in Tokens : InsertToken(r, t)
        BY <2>6
      <3>2. [me EXCEPT !.at = "mail", !.token = t, !.held = {}].at # "commitLogin"
        BY <2>0 DEF Local
      <3> QED
        BY <1>1, <3>1, <3>2 DEF InsertToken
    <2>7. CASE SpendToken(r)
      <3>1. [me EXCEPT !.at = "setVerified", !.held = {me.token}].at # "commitLogin"
        BY <2>0 DEF Local
      <3> QED
        BY <1>1, <1>3, <2>7, <3>1 DEF SpendToken, Abort
    <2>8. CASE DeleteUserRow(r)
      <3>1. [me EXCEPT !.at = "cascade"].at # "commitLogin"
        BY <2>0 DEF Local
      <3> QED
        BY <1>1, <1>3, <2>8, <3>1 DEF DeleteUserRow, Abort
    <2>9. CASE CascadeToToken(r)
      <3>1. \A t : [me EXCEPT !.held = @ \cup {t}].at # "commitLogin"
        BY <2>0, <2>9 DEF CascadeToToken, Local
      <3> QED
        BY <1>1, <2>9, <3>1 DEF CascadeToToken
    <2>10. CASE \/ LoseInsert(r) \/ RefuseToken(r) \/ MailToken(r) \/ SetVerified(r) \/ ClearMisses(r)
                \/ CommitLogin(r) \/ CommitDeletion(r)
      BY <1>3, <2>10 DEF LoseInsert, RefuseToken, MailToken, SetVerified, ClearMisses, CommitLogin,
                         CommitDeletion, Abort
    <2> QED
      BY <1>4, <2>1, <2>2, <2>3, <2>4, <2>5, <2>6, <2>7, <2>8, <2>9, <2>10 DEF Proceed
  <1>5. ASSUME NEW r \in Requests, NEW v \in Users, Login(r, v) PROVE FALSE
    <2>1. PICK step \in {"clearMisses", "commitLogin"} : Begin(r, [Idle EXCEPT !.at = step, !.user = v])
      BY <1>5 DEF Login
    <2>2. v # u
      BY <1>5 DEF Login
    <2>3. [Idle EXCEPT !.at = step, !.user = v].user = v
      BY DEF Idle
    <2> QED
      BY <1>1, <2>1, <2>2, <2>3 DEF Begin, Goto
  <1>6. ASSUME NEW r \in Requests,
               \/ \E n \in Names, a \in Addresses : Register(r, n, a)
               \/ \E v \in Users : ResendVerification(r, v) \/ DeleteAccount(r, v)
               \/ \E t \in Tokens : VerifyEmail(r, t)
        PROVE  FALSE
    <2>1. ASSUME NEW l, Begin(r, l), l.at # "commitLogin" PROVE FALSE
      BY <1>1, <2>1 DEF Begin, Goto
    <2>2. ASSUME NEW n \in Names, NEW a \in Addresses, Register(r, n, a) PROVE FALSE
      <3>1. [Idle EXCEPT !.at = "checkAddress", !.name = n, !.address = a].at # "commitLogin"
        BY DEF Idle
      <3> QED
        BY <2>1, <2>2, <3>1 DEF Register
    <2>3. ASSUME NEW v \in Users, ResendVerification(r, v) PROVE FALSE
      <3>1. [Idle EXCEPT !.at = "collect", !.user = v, !.address = userRow[v].address].at # "commitLogin"
        BY DEF Idle
      <3> QED
        BY <2>1, <2>3, <3>1 DEF ResendVerification
    <2>4. ASSUME NEW v \in Users, DeleteAccount(r, v) PROVE FALSE
      <3>1. [Idle EXCEPT !.at = "deleteUser", !.user = v].at # "commitLogin"
        BY DEF Idle
      <3> QED
        BY <2>1, <2>4, <3>1 DEF DeleteAccount
    <2>5. ASSUME NEW t \in Tokens, VerifyEmail(r, t) PROVE FALSE
      <3>1. [Idle EXCEPT !.at = "spend", !.token = t, !.user = token[t].owner].at # "commitLogin"
        BY DEF Idle
      <3> QED
        BY <2>1, <2>5, <3>1 DEF VerifyEmail
    <2> QED
      BY <1>6, <2>2, <2>3, <2>4, <2>5
  <1>7. ASSUME \/ \E r \in Requests : BreakDeadlock(r)
               \/ \E v \in Users : RefreshTokens(v) \/ ExpireSigned(v)
               \/ \E t \in Tokens : ExpireToken(t)
               \/ Restart \/ UNCHANGED vars
        PROVE  FALSE
    BY <1>2, <1>3, <1>7 DEF BreakDeadlock, Abort, RefreshTokens, ExpireSigned, ExpireToken, Restart, vars
  <1> QED
    BY <1>4, <1>5, <1>6, <1>7 DEF Next

\* After the commit of a deletion nothing of the account is inserted or signed,
\* by requests that had looked it up before as little as by later ones; except
\* the tokens of a login that had nothing left but its COMMIT.
THEOREM DeletionIsFinal == Spec => GoneForGood
  <1> DEFINE Gone == \A u \in born : ~Exists(u) =>
                       /\ ~Exists(u)'
                       /\ TokensOf(u)' = {}
                       /\ AboutToSign(u)' \subseteq AboutToSign(u)
                       /\ signed'[u] \subseteq signed[u] \/ AboutToSign(u)' # AboutToSign(u)
  <1>1. ASSUME IInv, IInv', [Next]_vars PROVE [Gone]_vars
    <2> SUFFICES ASSUME NEW u \in born, ~Exists(u)
                 PROVE  /\ ~Exists(u)' /\ TokensOf(u)' = {}
                        /\ AboutToSign(u)' \subseteq AboutToSign(u)
                        /\ signed'[u] \subseteq signed[u] \/ AboutToSign(u)' # AboutToSign(u)
      OBVIOUS
    <2>1. u \in Users
      BY <1>1 DEF IInv, TypeOK
    <2>2. ~Exists(u)'
      <3>1. ASSUME UNCHANGED userRow PROVE ~Exists(u)'
        BY <3>1 DEF Exists
      <3>2. ASSUME NEW r \in Requests, NEW v \in Users, InsertUser(r, v) PROVE ~Exists(u)'
        BY <1>1, <2>1, <3>2, InsertUserEffect DEF Exists
      <3>3. ASSUME NEW r \in Requests, SetVerified(r) PROVE ~Exists(u)'
        BY <1>1, <2>1, <3>3, SetVerifiedEffect DEF Exists
      <3>4. ASSUME NEW r \in Requests, CommitDeletion(r) PROVE ~Exists(u)'
        BY <1>1, <2>1, <3>4, CommitDeletionEffect DEF Exists
      <3>5. \/ UNCHANGED userRow
            \/ \E r \in Requests : (\E v \in Users : InsertUser(r, v)) \/ SetVerified(r) \/ CommitDeletion(r)
        BY <1>1, WhoWrites, InsertTokenEffect, MailTokenEffect, ExpireTokenEffect
      <3> QED
        BY <3>1, <3>2, <3>3, <3>4, <3>5
    <2>3. TokensOf(u)' = {}
      BY <1>1, <2>2 DEF IInv, RowsOK, TokensOf
    <2>4. AboutToSign(u)' \subseteq AboutToSign(u)
      BY <1>1, <2>1, WhoIsAbout
    <2>5. ASSUME NEW r \in Requests, CommitLogin(r), r \in AboutToSign(u)
          PROVE  AboutToSign(u)' # AboutToSign(u)
      <3>1. req'[r] = Idle
        BY <1>1, <2>5 DEF CommitLogin, Finish, IInv, TypeOK
      <3>2. r \notin AboutToSign(u)'
        BY <3>1 DEF AboutToSign, Idle
      <3> QED
        BY <2>5, <3>2
    <2> QED
      BY <1>1, <2>1, <2>2, <2>3, <2>4, <2>5, WhoSigns
  <1> QED
    BY <1>1, Invariance, PTL DEF Spec, GoneForGood

-----------------------------------------------------------------------------
(* Deadlock.                                                               *)

\* Without a deletion, whoever is waited for waits only for tokens after those
\* it holds: above the token r wants, the holders are closed under waiting, and r
\* is not among them.
LEMMA NoCycleOfOthers == IInv => OnlyDeletionsDeadlock
  <1> DEFINE others == {o \in Requests : req[o].at # "cascade"}
  <1> SUFFICES ASSUME IInv, NEW r \in others, Cycle(r, others)
               PROVE  FALSE
    BY DEF OnlyDeletionsDeadlock
  <1> DEFINE S == {o \in others : \E h \in req[o].held : \E t \in WantedTokens(r) : t <= h}
  <1>0. \A o \in others : o \in Requests /\ req[o] \in Local /\ LocalOK(req[o])
    BY Me
  <1>1. \A o, p \in others : p \in WaitsFor(o) => req[p].held \cap WantedTokens(o) # {}
    BY DEF WaitsFor, HeldUsers
  <1>2. WaitsFor(r) \cap others \subseteq S
    <2> SUFFICES ASSUME NEW p \in others, p \in WaitsFor(r) PROVE p \in S
      OBVIOUS
    <2>1. PICK t \in req[p].held : t \in WantedTokens(r)
      BY <1>1
    <2>2. t \in Nat
      BY <1>0, TokensAssumption DEF Local
    <2>3. t <= t
      BY <2>2
    <2> QED
      BY <2>1, <2>3
  <1>3. ASSUME NEW o \in S, NEW p \in others, p \in WaitsFor(o) PROVE p \in S
    <2>1. PICK h \in req[o].held, t \in WantedTokens(r) : t <= h
      BY <1>3
    <2>2. PICK x \in req[p].held : x \in WantedTokens(o)
      BY <1>1, <1>3
    <2>3. req[o].at = "retire" /\ x \in req[o].todo
      BY <1>0, <1>3, <2>1, <2>2 DEF WantedTokens, First, LocalOK
    <2>4. h < x
      BY <1>0, <1>3, <2>1, <2>3 DEF LocalOK
    <2>5. h \in Nat /\ x \in Nat /\ t \in Nat
      BY <1>0, <1>3, <2>1, <2>3, TokensAssumption DEF Local, WantedTokens
    <2>6. t <= x
      BY <2>1, <2>4, <2>5
    <2> QED
      BY <2>1, <2>2, <2>6, <1>3
  <1>4. r \notin S
    <2> SUFFICES ASSUME NEW h \in req[r].held, NEW t \in WantedTokens(r), t <= h PROVE FALSE
      OBVIOUS
    <2>1. req[r].at = "retire" /\ t \in req[r].todo
      BY <1>0 DEF WantedTokens, First, LocalOK
    <2>2. h < t /\ h \in Nat /\ t \in Nat
      BY <1>0, <2>1, TokensAssumption DEF LocalOK, Local
    <2> QED
      BY <2>2
  <1>5. S \in SUBSET others /\ \A o \in S : WaitsFor(o) \cap others \subseteq S
    BY <1>3
  <1> HIDE DEF S, others
  <1> QED
    BY <1>2, <1>4, <1>5 DEF Cycle

\* However many requests overlap, and whatever the tokens they update, a circle
\* of waiting transactions has a deletion in it.
THEOREM DeadlocksAreDeletions == Spec => []OnlyDeletionsDeadlock
  BY Invariance, NoCycleOfOthers, PTL

-----------------------------------------------------------------------------
(* Registration implements Directory.                                      *)

Invites(u, t) == token[t] # Nil /\ token[t].owner = u /\ mailedTo[t] = userRow[u].address

LEMMA InvitedDef ==
  /\ InvitedUsers = {u \in Users : Exists(u) /\ \E t \in Tokens : Invites(u, t)}
  /\ InvitedUsers' = {u \in Users : Exists(u)' /\ \E t \in Tokens : Invites(u, t)'}
  BY DEF InvitedUsers, TokensOf, Invites

LEMMA StutterDirectory ==
  ASSUME UNCHANGED <<userRow, token, mailedTo, born>>
  PROVE  UNCHANGED Accounts!vars
  BY InvitedDef DEF Accounts!vars, Exists, Invites

LEMMA EnrolDirectory ==
  ASSUME IInv, NEW r \in Requests, NEW u \in Users, InsertUser(r, u)
  PROVE  Accounts!Next
  <1>1. PICK n \in Names, a \in Addresses : n = req[r].name /\ a = req[r].address
    BY InsertUserEffect
  <1>2. ~Accounts!Taken(n, a)
    BY <1>1, InsertUserEffect DEF Accounts!Taken, Clashes, Exists
  <1>3. UNCHANGED InvitedUsers
    <2>1. \A t \in Tokens : ~Invites(u, t) /\ ~Invites(u, t)'
      BY InsertUserEffect DEF Invites, TokensOf
    <2>2. \A v \in Users : v # u => (Exists(v)' <=> Exists(v)) /\ \A t \in Tokens : Invites(v, t)' <=> Invites(v, t)
      BY InsertUserEffect DEF Invites, Exists
    <2> QED
      BY <2>1, <2>2, InvitedDef
  <1>4. Accounts!Enrol(u, n, a)
    BY <1>1, <1>2, <1>3, InsertUserEffect DEF Accounts!Enrol
  <1> QED
    BY <1>4 DEF Accounts!Next

\* A new token has reached no mailbox yet.
LEMMA TokenDirectory ==
  ASSUME IInv, NEW r \in Requests, NEW t \in Tokens, InsertToken(r, t)
  PROVE  UNCHANGED Accounts!vars
  <1>1. \A o \in Tokens : \A v \in Users : Exists(v) => (Invites(v, o)' <=> Invites(v, o))
    <2> TAKE o \in Tokens
    <2> TAKE v \in Users
    <2> HAVE Exists(v)
    <2>1. CASE o = t
      <3>1. userRow[v].address # Nil
        BY NilAssumption DEF IInv, TypeOK, Exists, UserRow
      <3> QED
        BY <2>1, <3>1, InsertTokenEffect DEF Invites
    <2>2. CASE o # t
      BY <2>2, InsertTokenEffect DEF Invites
    <2> QED
      BY <2>1, <2>2
  <1> QED
    BY <1>1, InvitedDef, InsertTokenEffect DEF Accounts!vars, Exists

LEMMA InviteDirectory ==
  ASSUME IInv, NEW r \in Requests, MailToken(r)
  PROVE  Accounts!Next \/ UNCHANGED Accounts!vars
  <1>1. PICK t \in Tokens : t = req[r].token
    BY MailTokenEffect
  <1>2. \A o \in Tokens : mailedTo'[o] = mailedTo[o] \/ (o = t /\ mailedTo'[o] = req[r].address)
    BY <1>1, MailTokenEffect DEF IInv, TypeOK
  <1>3. UNCHANGED <<userRow, token, born>>
    BY MailTokenEffect
  <1>4. CASE mailedTo' = mailedTo \/ token[t] = Nil
    <2>1. \A o \in Tokens : \A v \in Users : Invites(v, o)' <=> Invites(v, o)
      BY <1>2, <1>3, <1>4 DEF Invites
    <2> QED
      BY <1>3, <2>1, InvitedDef DEF Accounts!vars, Exists
  <1>5. CASE mailedTo' # mailedTo /\ token[t] # Nil
    <2>1. PICK u \in Users : u = req[r].user
      BY <1>1, <1>5, MailTokenEffect
    <2>2. Exists(u) /\ token[t].owner = u /\ userRow[u].address = req[r].address
      BY <1>1, <1>5, <2>1, MailTokenEffect
    <2>3. mailedTo'[t] = userRow[u].address
      BY <1>1, <1>5, <2>2, MailTokenEffect DEF IInv, TypeOK
    <2>4. Invites(u, t)'
      BY <1>3, <1>5, <2>2, <2>3 DEF Invites
    <2>5. \A v \in Users : v # u => \A o \in Tokens : Invites(v, o)' <=> Invites(v, o)
      BY <1>2, <1>3, <2>2 DEF Invites
    <2>6. InvitedUsers' = InvitedUsers \cup {u}
      BY <1>3, <2>2, <2>4, <2>5, InvitedDef DEF Exists
    <2>7. Accounts!Invite(u)
      BY <1>3, <2>2, <2>6 DEF Accounts!Invite, Exists
    <2> QED
      BY <2>7 DEF Accounts!Next
  <1> QED
    BY <1>4, <1>5

LEMMA VerifyDirectory ==
  ASSUME IInv, NEW r \in Requests, SetVerified(r)
  PROVE  Accounts!Next
  <1>1. PICK u \in Users : u = req[r].user
    BY SetVerifiedEffect
  <1>2. PICK t \in Tokens : t = req[r].token
    BY SetVerifiedEffect
  <1>3. Invites(u, t) /\ Exists(u)
    BY <1>1, <1>2, SetVerifiedEffect DEF Invites
  <1>4. u \in InvitedUsers
    BY <1>3, InvitedDef
  <1>5. \A v \in Users : (Exists(v)' <=> Exists(v)) /\ \A o \in Tokens : Invites(v, o)' <=> Invites(v, o)
    <2> TAKE v \in Users
    <2>1. (Exists(v)' <=> Exists(v)) /\ userRow'[v].address = userRow[v].address
      BY <1>1, SetVerifiedEffect DEF Exists
    <2>2. \A o \in Tokens : (token'[o] # Nil <=> token[o] # Nil) /\ token'[o].owner = token[o].owner
      BY SetVerifiedEffect
    <2> QED
      BY <2>1, <2>2, SetVerifiedEffect DEF Invites
  <1>6. UNCHANGED InvitedUsers
    BY <1>5, InvitedDef
  <1>7. Accounts!Verify(u)
    BY <1>1, <1>3, <1>4, <1>6, SetVerifiedEffect DEF Accounts!Verify, Exists
  <1> QED
    BY <1>7 DEF Accounts!Next

LEMMA LeaveDirectory ==
  ASSUME IInv, NEW r \in Requests, CommitDeletion(r)
  PROVE  Accounts!Next
  <1>1. PICK u \in Users : u = req[r].user
    BY CommitDeletionEffect
  <1>2. ~Exists(u)'
    BY <1>1, CommitDeletionEffect DEF Exists
  <1>3. \A v \in Users : v # u => (Exists(v)' <=> Exists(v)) /\ \A o \in Tokens : Invites(v, o)' <=> Invites(v, o)
    BY <1>1, CommitDeletionEffect DEF Exists, Invites, TokensOf
  <1>4. InvitedUsers' = InvitedUsers \ {u}
    BY <1>2, <1>3, InvitedDef
  <1>5. Accounts!Leave(u)
    BY <1>1, <1>4, CommitDeletionEffect DEF Accounts!Leave
  <1> QED
    BY <1>5 DEF Accounts!Next

LEMMA ExpiryDirectory ==
  ASSUME IInv, NEW t \in Tokens, ExpireToken(t)
  PROVE  UNCHANGED Accounts!vars
  <1>1. \A v \in Users : \A o \in Tokens : Invites(v, o)' <=> Invites(v, o)
    BY ExpireTokenEffect DEF Invites
  <1> QED
    BY <1>1, InvitedDef, ExpireTokenEffect DEF Accounts!vars, Exists

LEMMA StepDirectory == IInv /\ [Next]_vars => [Accounts!Next]_Accounts!vars
  BY WhoWrites, StutterDirectory, EnrolDirectory, TokenDirectory, InviteDirectory, VerifyDirectory,
     LeaveDirectory, ExpiryDirectory

LEMMA InitDirectory == Init => Accounts!Init
  BY DEF Init, Accounts!Init, InvitedUsers, Exists

\* Registration, with its lookups before inserts, its tokens and its deletions in
\* two statements, does what Directory does in single steps: a name and an
\* address are one account's, who is verified was invited, who left is gone.
THEOREM Implements == Spec => DirectorySpec
  BY Invariance, InitDirectory, StepDirectory, PTL DEF Spec, DirectorySpec, Accounts!Spec
=============================================================================
