---------------------------- MODULE Registration ----------------------------
(***************************************************************************)
(* Registration and e-mail verification in the Account Hub API: accounts   *)
(* with their unique name and address, verification tokens and the mails   *)
(* that carry them, the signed tokens of a session, and account deletion,  *)
(* as the requests of one asyncio server interleave at their database      *)
(* calls.  How a request becomes actions is described in Credentials.      *)
(*                                                                         *)
(* A user id is a fresh UUID: it names an account for ever, while its name *)
(* and its address can be registered again once it is deleted.  Tokens are *)
(* numbers, in the order of their primary keys; any free one may be the    *)
(* next UUID.                                                              *)
(*                                                                         *)
(* A definition marked faulty is used by no other: it is what a plausible  *)
(* bug would make of the definition it names.                              *)
(***************************************************************************)
EXTENDS Integers, FiniteSets

CONSTANTS
  Users,      \* user ids
  Names,      \* usernames
  Addresses,  \* e-mail addresses, each a mailbox
  Requests,   \* request slots: how many requests may be in flight
  Tokens,     \* verification tokens, in primary-key order
  Nil         \* no row, or nothing in a local variable

VARIABLES
  userRow,   \* users: username, email, email_verified
  token,     \* email_verification_tokens: user_id, used, whether expires_at has passed
  mailedTo,  \* the mailbox that holds a token's link
  signed,    \* the types of JWT signed for a user and not yet expired
  req,       \* the local state of each request slot
  born,      \* history: user ids ever inserted
  minted     \* history: tokens ever inserted

tables == <<userRow, token>>
vars == <<userRow, token, mailedTo, signed, req, born, minted>>

-----------------------------------------------------------------------------
UserRow == [name : Names, address : Addresses, verified : BOOLEAN]
TokenRow == [owner : Users, used : BOOLEAN, expired : BOOLEAN]
Pair == {"access", "refresh"}  \* create_access_token, create_refresh_token

\* Nil is none of the values it stands in for.
ASSUME NilAssumption ==
  /\ Nil \notin Users \cup Names \cup Addresses \cup Tokens
  /\ Nil \notin UserRow /\ Nil \notin TokenRow
ASSUME TokensAssumption == Tokens \subseteq Nat

Steps == {"idle", "checkAddress", "insertUser", "signIn", "collect", "retire", "mail",
          "spend", "setVerified", "clearMisses", "commitLogin", "deleteUser", "cascade"}

\* todo is what a flush has left to update, held the token rows it has locked.
Local == [at : Steps, user : Users \cup {Nil}, name : Names \cup {Nil},
          address : Addresses \cup {Nil}, token : Tokens \cup {Nil},
          todo : SUBSET Tokens, held : SUBSET Tokens]

Idle == [at |-> "idle", user |-> Nil, name |-> Nil, address |-> Nil, token |-> Nil,
         todo |-> {}, held |-> {}]

TypeOK ==
  /\ userRow \in [Users -> UserRow \cup {Nil}]
  /\ token \in [Tokens -> TokenRow \cup {Nil}]
  /\ mailedTo \in [Tokens -> Addresses \cup {Nil}]
  /\ signed \in [Users -> SUBSET Pair]
  /\ req \in [Requests -> Local]
  /\ born \subseteq Users
  /\ minted \subseteq Tokens

Init ==
  /\ userRow = [u \in Users |-> Nil]
  /\ token = [t \in Tokens |-> Nil]
  /\ mailedTo = [t \in Tokens |-> Nil]
  /\ signed = [u \in Users |-> {}]
  /\ req = [r \in Requests |-> Idle]
  /\ born = {}
  /\ minted = {}

-----------------------------------------------------------------------------
(* Rows and the locks on them.                                             *)

Exists(u) == userRow[u] # Nil
TokensOf(u) == {t \in Tokens : token[t] # Nil /\ token[t].owner = u}
UnusedOf(u) == {t \in Tokens : token[t] # Nil /\ token[t].owner = u /\ ~token[t].used}

Unverified(u) == Exists(u) /\ ~userRow[u].verified

NameTaken(n) == \E u \in Users : Exists(u) /\ userRow[u].name = n
AddressTaken(a) == \E u \in Users : Exists(u) /\ userRow[u].address = a

Clashes(n, a) == {u \in Users : Exists(u) /\ (userRow[u].name = n \/ userRow[u].address = a)}

First(t, S) == t \in S /\ \A o \in S : t <= o

\* A deletion keeps the user row locked from its DELETE to its COMMIT.
HeldUsers(r) == IF req[r].at = "cascade" THEN {req[r].user} ELSE {}

\* What its next statement needs: rows to update or delete, and the user row
\* that a foreign key or a unique index makes it wait for.
WantedTokens(r) ==
  {t \in Tokens :
     \/ req[r].at = "spend" /\ t = req[r].token
     \/ req[r].at = "retire" /\ First(t, req[r].todo)
     \/ req[r].at = "cascade" /\ t \in TokensOf(req[r].user) \ req[r].held}
WantedUsers(r) ==
  CASE req[r].at \in {"setVerified", "clearMisses", "deleteUser"} -> {req[r].user}
    [] req[r].at = "retire" /\ req[r].todo = {} -> {req[r].user}
    [] req[r].at = "insertUser" -> Clashes(req[r].name, req[r].address)
    [] OTHER -> {}

WaitsFor(r) ==
  {o \in Requests \ {r} : \/ req[o].held \cap WantedTokens(r) # {}
                          \/ HeldUsers(o) \cap WantedUsers(r) # {}}

\* Among the requests R, r waits for one that waits, through others perhaps, for r.
Cycle(r, R) ==
  \A S \in SUBSET R :
    WaitsFor(r) \cap R \subseteq S /\ (\A o \in S : WaitsFor(o) \cap R \subseteq S) => r \in S

Begin(r, local) == req[r].at = "idle" /\ req' = [req EXCEPT ![r] = local]
Goto(r, local) == req' = [req EXCEPT ![r] = local]
Finish(r) == req' = [req EXCEPT ![r] = Idle]
Abort(r) == Finish(r) /\ UNCHANGED <<tables, mailedTo, signed, born, minted>>

Sign(u) == signed' = [signed EXCEPT ![u] = Pair]

-----------------------------------------------------------------------------
(* POST /auth/register                                                     *)

\* Bound: every registration in flight finds an id for its user.
UserLeft ==
  Cardinality({r \in Requests : req[r].at \in {"checkAddress", "insertUser"}})
    < Cardinality(Users \ born)

\* The SELECT of the name; it sees no row that is not committed.
Register(r, n, a) ==
  /\ UserLeft
  /\ ~NameTaken(n)
  /\ Begin(r, [Idle EXCEPT !.at = "checkAddress", !.name = n, !.address = a])
  /\ UNCHANGED <<tables, mailedTo, signed, born, minted>>

\* The SELECT of the address, then hashing.
CheckAddress(r) ==
  /\ req[r].at = "checkAddress"
  /\ \/ AddressTaken(req[r].address) /\ Finish(r)
     \/ ~AddressTaken(req[r].address) /\ Goto(r, [req[r] EXCEPT !.at = "insertUser"])
  /\ UNCHANGED <<tables, mailedTo, signed, born, minted>>

\* The INSERT waits for a deletion of a row it clashes with, and is refused by
\* a unique constraint when the clash remains: nobody catches that error.
\* Faulty InsertUser: it relies on the two SELECTs.
InsertUserUnchecked(r, u) ==
  LET me == req[r] IN
  /\ me.at = "insertUser"
  /\ u \notin born
  /\ userRow' = [userRow EXCEPT ![u] = [name |-> me.name, address |-> me.address,
                                        verified |-> FALSE]]
  /\ born' = born \cup {u}
  /\ Goto(r, [me EXCEPT !.at = "signIn", !.user = u, !.name = Nil])
  /\ UNCHANGED <<token, mailedTo, signed, minted>>
InsertUser(r, u) ==
  LET me == req[r] IN
  /\ me.at = "insertUser"
  /\ Clashes(me.name, me.address) = {}
  /\ u \notin born
  /\ userRow' = [userRow EXCEPT ![u] = [name |-> me.name, address |-> me.address,
                                        verified |-> FALSE]]
  /\ born' = born \cup {u}
  /\ Goto(r, [me EXCEPT !.at = "signIn", !.user = u, !.name = Nil])
  /\ UNCHANGED <<token, mailedTo, signed, minted>>

LoseInsert(r) ==
  /\ req[r].at = "insertUser"
  /\ WaitsFor(r) = {}
  /\ Clashes(req[r].name, req[r].address) # {}
  /\ Abort(r)

\* The refresh of the new row, which another session may have deleted since.
SignIn(r) ==
  LET me == req[r] IN
  /\ me.at = "signIn"
  /\ \/ ~Exists(me.user) /\ Abort(r)
     \/ /\ Exists(me.user)
        /\ Sign(me.user)
        /\ Goto(r, [me EXCEPT !.at = "collect"])
        /\ UNCHANGED <<tables, mailedTo, born, minted>>

-----------------------------------------------------------------------------
(* create_verification_token, for a new account or POST                    *)
(* /auth/resend-verification                                               *)

ResendVerification(r, u) ==
  /\ "access" \in signed[u]
  /\ Unverified(u)
  /\ Begin(r, [Idle EXCEPT !.at = "collect", !.user = u, !.address = userRow[u].address])
  /\ UNCHANGED <<tables, mailedTo, signed, born, minted>>

CollectUnused(r) ==
  /\ req[r].at = "collect"
  /\ Goto(r, [req[r] EXCEPT !.at = "retire", !.todo = UnusedOf(req[r].user)])
  /\ UNCHANGED <<tables, mailedTo, signed, born, minted>>

\* The flush: one UPDATE per collected token, in primary-key order.  That they
\* are used is seen after the COMMIT; of a row that is gone, the flush complains.
\* Faulty RetireToken: one flush per token, in the order of the SELECT.
RetireAnyToken(r) ==
  LET me == req[r] IN
  /\ me.at = "retire"
  /\ \E t \in me.todo :
       /\ \A o \in Requests : t \notin req[o].held
       /\ IF token[t] = Nil
          THEN Finish(r)
          ELSE Goto(r, [me EXCEPT !.todo = @ \ {t}, !.held = @ \cup {t}])
  /\ UNCHANGED <<tables, mailedTo, signed, born, minted>>
RetireToken(r) ==
  LET me == req[r] IN
  /\ me.at = "retire"
  /\ WaitsFor(r) = {}
  /\ \E t \in me.todo :
       /\ First(t, me.todo)
       /\ IF token[t] = Nil
          THEN Finish(r)
          ELSE Goto(r, [me EXCEPT !.todo = @ \ {t}, !.held = @ \cup {t}])
  /\ UNCHANGED <<tables, mailedTo, signed, born, minted>>

\* The INSERT, whose foreign key needs the user row, and the COMMIT.
InsertToken(r, t) ==
  LET me == req[r] IN
  /\ me.at = "retire"
  /\ me.todo = {}
  /\ WaitsFor(r) = {}
  /\ Exists(me.user)
  /\ t \notin minted
  /\ token' = [o \in Tokens |->
                 CASE o = t -> [owner |-> me.user, used |-> FALSE, expired |-> FALSE]
                   [] o \in me.held \ {t} ->
                        [owner |-> token[o].owner, used |-> TRUE, expired |-> token[o].expired]
                   [] OTHER -> token[o]]
  /\ minted' = minted \cup {t}
  /\ Goto(r, [me EXCEPT !.at = "mail", !.token = t, !.held = {}])
  /\ UNCHANGED <<userRow, mailedTo, signed, born>>

\* Bound: the INSERT fails when there is no id left for its token.
NoTokenLeft == Tokens \subseteq minted

\* The foreign key finds no user.
RefuseToken(r) ==
  /\ req[r].at = "retire"
  /\ req[r].todo = {}
  /\ WaitsFor(r) = {}
  /\ ~Exists(req[r].user) \/ NoTokenLeft
  /\ Abort(r)

\* Whether the mail arrives, the handler does not learn.
MailToken(r) ==
  /\ req[r].at = "mail"
  /\ \/ UNCHANGED mailedTo
     \/ mailedTo' = [mailedTo EXCEPT ![req[r].token] = req[r].address]
  /\ Finish(r)
  /\ UNCHANGED <<tables, signed, born, minted>>

-----------------------------------------------------------------------------
(* POST /auth/verify-email                                                 *)

\* The SELECT of a token somebody found in a mailbox.
VerifyEmail(r, t) ==
  /\ mailedTo[t] # Nil
  /\ token[t] # Nil
  /\ ~token[t].used /\ ~token[t].expired
  /\ Begin(r, [Idle EXCEPT !.at = "spend", !.token = t, !.user = token[t].owner])
  /\ UNCHANGED <<tables, mailedTo, signed, born, minted>>

\* The SELECT of the user flushes the UPDATE of the token first.  An account
\* that is already verified ends the request without a COMMIT.
\* Faulty SpendToken: the token's UPDATE is committed at once.
SpendTokenAtOnce(r) ==
  LET me == req[r] IN
  /\ me.at = "spend"
  /\ WaitsFor(r) = {}
  /\ token[me.token] # Nil
  /\ token' = [token EXCEPT ![me.token] = [owner |-> @.owner, used |-> TRUE, expired |-> @.expired]]
  /\ Goto(r, [me EXCEPT !.at = "setVerified"])
  /\ UNCHANGED <<userRow, mailedTo, signed, born, minted>>
SpendToken(r) ==
  LET me == req[r] IN
  /\ me.at = "spend"
  /\ WaitsFor(r) = {}
  /\ \/ ~(token[me.token] # Nil /\ Unverified(me.user)) /\ Abort(r)
     \/ /\ token[me.token] # Nil
        /\ Unverified(me.user)
        /\ Goto(r, [me EXCEPT !.at = "setVerified", !.held = {me.token}])
        /\ UNCHANGED <<tables, mailedTo, signed, born, minted>>

\* Both UPDATEs become visible together.
\* Faulty SetVerified: the token stays unused, or the flag becomes None.
SetVerifiedOnly(r) ==
  LET me == req[r] IN
  /\ me.at = "setVerified"
  /\ WaitsFor(r) = {}
  /\ userRow' = [userRow EXCEPT ![me.user].verified = TRUE]
  /\ Finish(r)
  /\ UNCHANGED <<token, mailedTo, signed, born, minted>>
SetVerifiedToNone(r) ==
  LET me == req[r] IN
  /\ me.at = "setVerified"
  /\ WaitsFor(r) = {}
  /\ userRow' = [userRow EXCEPT ![me.user].verified = Nil]
  /\ Finish(r)
  /\ UNCHANGED <<token, mailedTo, signed, born, minted>>
SetVerified(r) ==
  LET me == req[r] IN
  /\ me.at = "setVerified"
  /\ WaitsFor(r) = {}
  /\ userRow' = [userRow EXCEPT ![me.user] = [name |-> @.name, address |-> @.address,
                                              verified |-> TRUE]]
  /\ token' = [token EXCEPT ![me.token] = [owner |-> @.owner, used |-> TRUE,
                                           expired |-> @.expired]]
  /\ Finish(r)
  /\ UNCHANGED <<mailedTo, signed, born, minted>>

-----------------------------------------------------------------------------
(* POST /auth/login, POST /auth/refresh, DELETE /auth/account              *)

\* The SELECT and the right password.  Whether there is a counter or a lock to
\* clear is the business of Credentials.
Login(r, u) ==
  /\ Exists(u)
  /\ \E step \in {"clearMisses", "commitLogin"} : Begin(r, [Idle EXCEPT !.at = step, !.user = u])
  /\ UNCHANGED <<tables, mailedTo, signed, born, minted>>

\* The UPDATE of the user row, the COMMIT and the tokens.
ClearMisses(r) ==
  LET me == req[r] IN
  /\ me.at = "clearMisses"
  /\ WaitsFor(r) = {}
  /\ \/ ~Exists(me.user) /\ Abort(r)
     \/ /\ Exists(me.user)
        /\ Sign(me.user)
        /\ Finish(r)
        /\ UNCHANGED <<tables, mailedTo, born, minted>>

\* With nothing to clear no UPDATE is sent: the COMMIT waits for nobody and
\* succeeds even when the row is gone.
CommitLogin(r) ==
  /\ req[r].at = "commitLogin"
  /\ Sign(req[r].user)
  /\ Finish(r)
  /\ UNCHANGED <<tables, mailedTo, born, minted>>

\* Faulty RefreshTokens: the signature alone is believed.
RefreshUnchecked(u) ==
  /\ "refresh" \in signed[u]
  /\ Sign(u)
  /\ UNCHANGED <<tables, mailedTo, req, born, minted>>
RefreshTokens(u) ==
  /\ "refresh" \in signed[u]
  /\ Exists(u)
  /\ Sign(u)
  /\ UNCHANGED <<tables, mailedTo, req, born, minted>>

\* get_current_user and the right password.
DeleteAccount(r, u) ==
  /\ "access" \in signed[u]
  /\ Exists(u)
  /\ Begin(r, [Idle EXCEPT !.at = "deleteUser", !.user = u])
  /\ UNCHANGED <<tables, mailedTo, signed, born, minted>>

\* The DELETE of the user row; one that is gone is only warned about.
DeleteUserRow(r) ==
  LET me == req[r] IN
  /\ me.at = "deleteUser"
  /\ WaitsFor(r) = {}
  /\ \/ ~Exists(me.user) /\ Abort(r)
     \/ /\ Exists(me.user)
        /\ Goto(r, [me EXCEPT !.at = "cascade"])
        /\ UNCHANGED <<tables, mailedTo, signed, born, minted>>

\* The ON DELETE CASCADE locks the token rows one by one, in the order of the
\* scan; the account and its tokens disappear together at the COMMIT.
CascadeToToken(r) ==
  LET me == req[r] IN
  /\ me.at = "cascade"
  /\ \E t \in TokensOf(me.user) \ me.held :
       /\ \A o \in Requests : t \notin req[o].held
       /\ Goto(r, [me EXCEPT !.held = @ \cup {t}])
  /\ UNCHANGED <<tables, mailedTo, signed, born, minted>>

CommitDeletion(r) ==
  LET me == req[r] IN
  /\ me.at = "cascade"
  /\ TokensOf(me.user) \subseteq me.held
  /\ userRow' = [userRow EXCEPT ![me.user] = Nil]
  /\ token' = [t \in Tokens |-> IF t \in me.held THEN Nil ELSE token[t]]
  /\ Finish(r)
  /\ UNCHANGED <<mailedTo, signed, born, minted>>

-----------------------------------------------------------------------------
(* The environment.                                                        *)

\* VERIFICATION_TOKEN_EXPIRY_HOURS pass.
ExpireToken(t) ==
  /\ token[t] # Nil
  /\ ~token[t].expired
  /\ token' = [token EXCEPT ![t] = [owner |-> @.owner, used |-> @.used, expired |-> TRUE]]
  /\ UNCHANGED <<userRow, mailedTo, signed, req, born, minted>>

\* The access token lives minutes, the refresh token days.
ExpireSigned(u) ==
  /\ signed[u] # {}
  /\ signed' = [signed EXCEPT ![u] = @ \ (IF "access" \in @ THEN {"access"} ELSE Pair)]
  /\ UNCHANGED <<tables, mailedTo, req, born, minted>>

\* PostgreSQL aborts a transaction of a cycle of waiting transactions.
InCycle(r) == Cycle(r, Requests)
BreakDeadlock(r) == InCycle(r) /\ Abort(r)

\* The process stops: every open transaction is rolled back.
Restart ==
  /\ \E r \in Requests : req[r].at # "idle"
  /\ req' = [r \in Requests |-> Idle]
  /\ UNCHANGED <<tables, mailedTo, signed, born, minted>>

Proceed(r) ==
  \/ CheckAddress(r)
  \/ \E u \in Users : InsertUser(r, u)
  \/ LoseInsert(r)
  \/ SignIn(r)
  \/ CollectUnused(r)
  \/ RetireToken(r)
  \/ \E t \in Tokens : InsertToken(r, t)
  \/ RefuseToken(r)
  \/ MailToken(r)
  \/ SpendToken(r)
  \/ SetVerified(r)
  \/ ClearMisses(r)
  \/ CommitLogin(r)
  \/ DeleteUserRow(r)
  \/ CascadeToToken(r)
  \/ CommitDeletion(r)

Next ==
  \/ \E r \in Requests :
       \/ Proceed(r)
       \/ BreakDeadlock(r)
       \/ \E n \in Names, a \in Addresses : Register(r, n, a)
       \/ \E u \in Users : Login(r, u) \/ ResendVerification(r, u) \/ DeleteAccount(r, u)
       \/ \E t \in Tokens : VerifyEmail(r, t)
  \/ \E u \in Users : RefreshTokens(u) \/ ExpireSigned(u)
  \/ \E t \in Tokens : ExpireToken(t)
  \/ Restart

Spec == Init /\ [][Next]_vars

-----------------------------------------------------------------------------
(* Properties.                                                             *)

\* An account is verified by a token of its own that its own address received
\* (verify_email), never by one of an earlier account with that address.
VerifiedByOwnMail ==
  \A u \in Users : Exists(u) /\ userRow[u].verified =>
    \E t \in TokensOf(u) : token[t].used /\ mailedTo[t] = userRow[u].address

\* While an account is not verified, the last tokens made for it are unused: no
\* failure, restart or overlap spends one and verifies nothing (verify_email),
\* or retires the old without a new one (create_verification_token).
StillVerifiable ==
  \A u \in Users : Unverified(u) /\ TokensOf(u) # {} => UnusedOf(u) # {}

\* Once its deletion is committed, no request of an account, begun before or
\* after, leaves a row of it or has a token signed for it (delete_account); but a
\* login that found the account before its deletion and has nothing to clear is
\* still answered with tokens (authenticate_user), and no other is.
AboutToSign(u) == {r \in Requests : req[r].at = "commitLogin" /\ req[r].user = u}
GoneForGood ==
  [][\A u \in born : ~Exists(u) =>
       /\ ~Exists(u)'
       /\ TokensOf(u)' = {}
       /\ AboutToSign(u)' \subseteq AboutToSign(u)
       /\ signed'[u] \subseteq signed[u] \/ AboutToSign(u)' # AboutToSign(u)]_vars

\* Requests wait for one another in a circle only where an account is being
\* deleted: verifications and flushes among themselves take the token rows in an
\* order that has no circle (verify_email, create_verification_token).
OnlyDeletionsDeadlock ==
  LET others == {r \in Requests : req[r].at # "cascade"} IN
  \A r \in others : ~Cycle(r, others)

\* Registration is what Directory promises.
InvitedUsers ==
  {u \in Users : Exists(u) /\ \E t \in TokensOf(u) : mailedTo[t] = userRow[u].address}
Accounts == INSTANCE Directory WITH entry <- userRow, invited <- InvitedUsers, former <- born
DirectorySpec == Accounts!Spec
=============================================================================
