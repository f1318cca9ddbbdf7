# Account Hub in TLA+

Account Hub finds the accounts a person has on the web: one registers, links
mailboxes over OAuth, scans them for services that know them, and requests the
closure of what was found. The server is one FastAPI process over PostgreSQL.
Its handlers are `async`: each runs as one database transaction or a few, and
another handler may run at every `await`. Its clients, a page in a browser and a command
in a terminal, are concurrent as well: several calls in flight, answered in any
order, and a person who signs out meanwhile. What can go wrong there is rarely in
one handler and nearly always between two, or between a handler and a restart.
That is what these modules describe, what TLC checks on small instances, and
what TLAPS proves for all.

Paths below are those of the repository under `src/`; `ah/` stands for
`src/account_hub/`.

1. [Inventory](#1-inventory)
2. [How a handler becomes actions](#2-how-a-handler-becomes-actions)
3. [The modules](#3-the-modules)
4. [What the runs check](#4-what-the-runs-check)
5. [Fairness](#5-fairness)
6. [What is proved](#6-what-is-proved)
7. [Where the code and its own words disagree](#7-where-the-code-and-its-own-words-disagree)
8. [What is not modelled](#8-what-is-not-modelled)
9. [Plan](#9-plan)

## 1. Inventory

| Component | State | Operations | What is hard | What makes it correct | Here |
|---|---|---|---|---|---|
| Accounts and lockout (`ah/services/user_service.py`) | `users`: password hash, `failed_login_attempts`, `locked_until` | register, login, refresh, delete account | counters computed from a stale read; lock racing reset; deletion with calls to providers inside | a lock is earned; deletion leaves nothing behind | Credentials; registering and refreshing in Registration; deletion in four modules |
| Password reset (`password_reset_service.py`) | `password_reset_tokens` | request, mail, complete | check and use of a token in two statements; two live tokens; crash in between | a change of password is paid for by one token | Credentials |
| Registration, e-mail verification (`user_service.py`, `email_verification_service.py`) | `users`, `email_verification_tokens` | register, send, verify | two registrations of one name; two live tokens; crash before the token | one account per name and address; verified only by a token its address received; never left unverifiable | Registration |
| OAuth linking (`oauth_service.py`, `api/routers/oauth.py`) | `oauth_states`, `linked_emails` | initiate, callback, poll, Meta's data deletion | state held over a provider's calls; single use; logins switched in the browser | through the browser, a mailbox goes to who started the flow; a consent is used once | OAuthLinking |
| Linked e-mails (`email_service.py`) | `linked_emails` | list, unlink, revoke at the provider | revocation against concurrent links | tokens are asked to be revoked before they are forgotten | OAuthLinking |
| Discovery scans (`discovery_service.py`, `discovery/`) | `scan_sessions`, `discovered_accounts`, the HIBP semaphore | start, show, history | long network calls between two commits; restart leaves "running" | results, count and status appear together; no scan is lost | Discovery |
| Account closures (`closure_service.py`) | `closure_requests` | request, complete, list | two foreign keys with different delete rules; deadlock with a deletion | a closure is about an account of its own user | Discovery |
| Export (`export_service.py`) | none | CSV, JSON | — | — | no |
| Web session (`src/web/src/api/client.ts`, `stores/auth-store.ts`) | tokens in the store and in `localStorage`, calls in flight | login, register, hydrate, refresh, logout | several refreshes at once, several sign-ins at once; logout during a call; answers older than the session | a logout stays; all in the window is one account's | WebSession |
| Page of linked e-mails (`src/web/src/pages/emails.tsx`) | the buttons, the card, a check of two polls | start, poll, cancel | a second poll from a closure that is older than the card | the buttons come back | LinkClients |
| CLI (`ah/cli/`) | stored tokens, loopback server | the API's operations | a server thread that answers once, whoever asks; timeouts | code and state are one request's; the command ends | LinkClients (linking), the rest no |
| Apple sign-in relay (`src/worker`) | none | forward a redirect to the local port | — | it forwards what the loopback server can use | `Relayed` in LinkClients |
| Tokens, hashing, encryption (`ah/security/`) | none | sign, hash, encrypt | tokens outlive what they were signed for | after a deletion nothing is signed but for a login that was already past its SELECT | `signed` in Registration; values elsewhere |
| Database (`ah/db/`) | tables, foreign keys, unique constraints | transactions | locks, cascades, deadlocks | — | in each module |
| HTTP application (`ah/api/main.py`, `limiter.py`) | rate limits | middleware | — | — | no |
| Mail (`mail_service.py`) | none | send | a mail may be lost | — | `MailToken` in Credentials and Registration |
| Other web pages, legal site, Rust workspace (`src/crates`) | none of their own, or stubs | — | — | — | no |

The components of the server meet in the database. The most entangled operation
is `delete_account`: it revokes links (linking), and its cascade takes tokens of
both kinds, states, links, scans, findings and closures, while requests of the
same user are in the middle of inserting them. It is modelled four times, each
time against the tables of one module and at the grain these need. The clients
meet the server in calls that may fail or be answered late, and that is all a
model of a client keeps of the server: WebSession has the set of accounts whose
refresh token is still accepted, LinkClients how far each flow is.

## 2. How a handler becomes actions

A request occupies a slot `r \in Requests`; `req[r]` is its local state and
`req[r].at` the statement it executes next. A handler is one action per point
at which another handler can run or a lock is taken:

* A SELECT copies what is committed (READ COMMITTED). What the handler computes
  from it later, it computes from the copy in `req[r]`.
* What it writes is visible to others at its COMMIT. The last UPDATE or INSERT
  and the COMMIT are one action: nothing is read between them, and the row
  locks make what another request sees the same.
* SQLAlchemy sends only columns whose value changed: a login that had read
  `attempts = 0` sends no UPDATE at all (`Cleared`, `CommitPassedLogin`).
* An UPDATE of a row that is gone raises StaleDataError and ends the request; a
  DELETE of one is only a warning, and the request goes on.
* An INSERT locks the rows its foreign keys name, so it waits for a deletion of
  them and fails when that commits. Unique constraints make the later of two
  INSERTs wait and fail.
* Row locks are kept in `held`, and `WaitsFor(r)` says whose. PostgreSQL aborts
  a transaction of a cycle (`BreakDeadlock`); it may be any of them.
* A restart loses every open transaction and every local state (`Restart`,
  `RollBack`). The variables marked *history* record what the properties speak
  of; the code has none of them, and of them only `minted` and `issued` are read
  by actions: no id is given out twice.

Names follow the code: the action that stands for the rest of `start_scan` after
its scanners is `SaveResults`, and `map` in PROJECT.json gives the lines of each.

## 3. The modules

| Module | What it is | Extends |
|---|---|---|
| `Credentials` | login, lockout, reset tokens, deletion | |
| `ResetLedger` | abstract: passwords and live tokens, for requests that wait for each other | |
| `ResetDesk` | abstract: the same for requests that overlap | |
| `OAuthLinking` | flows, states, links, revocation, deletion | |
| `LinkRegistry` | abstract: who has which mailbox linked, for requests that wait for each other | |
| `LinkDesk` | abstract: the same for requests that overlap | |
| `Discovery` | scans, findings, closures, deletion | |
| `ScanJobs` | abstract: jobs that report once | |
| `Registration` | accounts, verification tokens, signed tokens, deletion | |
| `Directory` | abstract: who is registered, invited, verified | |
| `WebSession` | the browser's store, storage and calls in flight | |
| `LinkClients` | terminal, relay and page that link a mailbox | |
| `MC...` | the symmetry sets for TLC | the module |
| `...Proofs` | theorems about every behaviour | the module, TLAPS |
| `CredentialsSerialProofs`, `OAuthLinkingSerialProofs` | theorems about behaviours in which requests of one account do not overlap | the `...Proofs` |

### Credentials

| Code | Actions |
|---|---|
| `authenticate_user` | `Login` (SELECT, lock check, password check), `CommitFailedLogin`, `CommitPassedLogin` |
| `request_password_reset`, `forgot_password` | `RequestReset`, `CollectUnused`, `RetireToken` (the flush, in key order), `InsertToken`, `MailToken` |
| `complete_password_reset` | `CompleteReset`, `MarkTokenUsed` (the autoflush), `ReadTokenOwner`, `SetPassword` |
| `delete_account` | `DeleteAccount`, `DeleteUserRow`, `CascadeToToken`, `CommitDeletion` |
| environment | `Tick`, `Restart`, `BreakDeadlock` |

A password is a model value and a hash the password itself. The clock is a
number and the lock a time, both as small as they can be with the lock still
expiring. An unknown user or a locked account changes nothing and is left out.
`known`, `misses`, `streak` and `changes` are history.

### OAuthLinking

| Code | Actions |
|---|---|
| `initiate_oauth` | `Initiate`; the person's consent at the provider is `Consent`, ten minutes are `Expire` |
| `handle_oauth_callback` | `Callback`, `DropState`, `Obtain` |
| `poll`, `poll_device_code` | `Poll` (the login it comes under), `Obtain` (the provider's answer), `CleanUpStates` |
| `_create_linked_email` | `Tokens` (its SELECT, in `Obtain`), `InsertLink` (INSERT and COMMIT), `RefreshLink` |
| `unlink_email`, `try_revoke_token` | `UnlinkEmail`, `DeleteLink` |
| `delete_account` | `DeleteAccount`, `RevokeNext`, `LoadChildren`, `DeleteChild`, `DeleteUserRow`, `Cascade`, `CommitDeletion` |
| `meta_data_deletion` | `MetaDeletion`, `RevokeNext`, `DeleteMetaLinks` |

A *grant* is one consent: a code, then tokens; a link is named by its grant. A
provider's call and the SELECT after it are one action, as nothing another
request does changes the provider's answer. A wrong nonce, a missing address
and an unreachable provider are all "no usable answer". Expiry is an event of
its own instead of a clock. A statement that deletes several rows by predicate
is one action. After a callback's link nothing follows that writes, so `RefreshLink`
and `CleanUpStates` are a poll's. A device code may be polled under any login: the page sends its
second poll five seconds after the first, with whatever login there is by then, and the
server compares nobody with who started the flow. One provider account is one address. The password check of
`delete_account` is in Credentials. A deadlock's victim is among the requests
that `RollBack` may end at any time, so the module asks for no liveness.

### Discovery

| Code | Actions |
|---|---|
| `start_scan` | `StartScan` (the mailboxes), `OpenSession` (commit of "running"), `TakeMailbox`, `Gather` and `GatherResults` (the scanners, HIBP's under its semaphore), `SaveResults` |
| `get_scan` | `GetScan`, `ReadResults`, `Respond` |
| `request_closure` | `RequestClosure`, `LockUser` (first foreign key), `InsertClosure` (second one, COMMIT) |
| `complete_closure` | `CompleteClosure`, `CommitCompletion` |
| `delete_account` | `DeleteAccount`, `DeleteChildren` (flush of what it loaded), `DeleteUserRow`, `CommitDeletion` (with ON DELETE CASCADE and SET NULL) |

The linked mailboxes are any set at the SELECT: which ones is a matter for
OAuthLinking. A `Service` stands for a service name with the source that reports
it, which with the mailbox is the key of the deduplication and of the unique
constraint. A scanner reports each service not at all, once or twice; that it
failed is that it reports nothing. A mailbox whose token has expired is skipped, which may happen to any.
The gather ends when HIBP's turn does; without an API key the same steps happen
without a wait. `delete_account` calls the providers before `DeleteAccount`, and
its load and its flush are one action, since a row committed between them is
left to the cascade as one committed after. The refresh after a commit only
fails later where the next statement would. `completed_at` is not kept, and the
lookup of a service in the registry of closures fills in text only. A request
refused because the address is unverified changes nothing.

### Registration

| Code | Actions |
|---|---|
| `register_user`, `register` | `Register` (SELECT of the name), `CheckAddress`, `InsertUser`, `LoseInsert` (the unique index), `SignIn` |
| `create_verification_token`, `resend_verification` | `ResendVerification`, `CollectUnused`, `RetireToken` (the flush, in key order), `InsertToken`, `RefuseToken` (the foreign key), `MailToken` |
| `verify_email` | `VerifyEmail`, `SpendToken` (the autoflush), `SetVerified` |
| `authenticate_user`, `refresh_tokens`, `get_current_user` | `Login` (the SELECT), `ClearMisses` or `CommitLogin` (COMMIT and signing), `RefreshTokens`, and the guards of what needs an access token |
| `delete_account` | `DeleteAccount`, `DeleteUserRow`, `CascadeToToken`, `CommitDeletion` |
| environment | `ExpireToken`, `ExpireSigned`, `Restart`, `BreakDeadlock` |

A user id is an account for ever; its name and address can be registered again
after a deletion. An address is a mailbox, and `mailedTo` says which one holds a
token's link: only such a token can be handed in. A flush and a cascade lock token
rows one by one and keep them (`held`); user rows are locked for one step or by
a deletion, so `WaitsFor` reads those locks off the step a request is at. Passwords
are left out: `Login` is a login with the right one. With misses to clear it
sends an UPDATE, which fails when the account is gone; with none it sends nothing, and
its COMMIT succeeds and tokens are signed whatever has become of the account. The
refusals by format change nothing.

### WebSession

| Code | Actions |
|---|---|
| `login`, `register` of the store | `SignIn`, `AuthOk`, `AuthFail`; the `/auth/me` of a login is a call of kind `"me"` |
| `logout` | `Logout` |
| `hydrate`, `fetchUser` | `Load` (a page is loaded), then calls of kind `"hydrate"` and `"fetchUser"` |
| "Resend verification" of the dashboard | a call of kind `"resend"`, then `"fetchUser"` |
| links between the pages | `Visit` |
| `apiFetch` | `Query`, `FetchOk`, `Fetch401`, `FetchFail` |
| `refresh` | `RefreshOk`, `RefreshFail` |
| `AuthGuard` | `Guarded` |
| environment | `Lapse` (the server no longer accepts a refresh token) |

One window. A token is the account it was issued to, so "whose" can be asked of
everything. A call is a slot with the request it waits for; any call in flight
may be answered next, and what its answer does up to the next `await` is one
action. The login and the register page link to each other and keep a loading flag
each, so any number of sign-ins can be under way, and one may be answered when the
window is behind `AuthGuard` with another. `last` and `crossed` are history: how the
session began or that it was ended, which calls are older than that (and whether
they were refreshing the tokens then), and whether such a call has written the store
since. They are in the properties because what happens then is not in the code's hands:
it has no way to tell an old answer from a new one. After a login the user of before
stays in the store until `/auth/me` has answered (`last = "untold"`).

### LinkClients

| Code | Actions |
|---|---|
| `_loopback_flow` | `Loopback` (the server thread is started), `OpenBrowser`, `TimeOut`, `StopWaiting`, `PostCallback`, `CallFails` |
| `_CallbackHandler.do_GET` | `Get` (the code), `SetReceived` (the state and the event) |
| `_device_code_flow` | `DeviceCode`, `ShowCode`, `PollRound` |
| the relay's `fetch` | `Relayed`, a guard of `SendBack` |
| `startLink` | `StartLink`, `StartOk`, `StartFails` |
| `handlePoll`, `pollDeviceCode` | `CheckStatus`, `Timer`, `PollPending`, `PollLinked`, `PollFails` |
| Cancel | `Cancel` |
| provider and person | `SendBack`, `Stray`, `Grant`, `Expire` |

What the API does with a callback is OAuthLinking; here a flow is asked, open,
granted, linked or gone, and any call may fail. A *way* stands for the providers
that have it: a redirect to the local port (Google, Meta), one by the relay
(Apple), a device code (Microsoft). The thread stores the code, then the state,
then sets the event, and the command runs beside it. A stray request is anything
else that reaches the port, once: a favicon, a tab, the redirect of an earlier
command that had the same port. The page stays mounted, and `Timer` fires with
the device code of the click, as its closure does.

### The abstract specifications

Each says what a client may rely on, in a page, without statements or locks:

* `ResetLedger`: issuing a token voids earlier ones and a reset spends one. The code
  keeps this as long as the requests of one account do not overlap, which is proved;
  section 7 says where it does not.
* `ResetDesk`: a client hands in a delivered token that is live, and pays with it for one
  change of password; a token ordered voids, once it is issued, those there were
  when it was ordered. Two clients may have handed in the same token, and two orders
  may leave two live ones: this holds under every interleaving, and is proved.
* `LinkRegistry`: an address is linked to a user at most once, a browser flow
  yields one link, and what can be revoked is asked to be before it goes. Again
  only without overlap in an account, and proved for that.
* `LinkDesk`: a mailbox is linked with a grant nobody redeemed before; through the
  browser only to who started its flow and found it open, with a device code to
  whoever came with it. The link closes its browser flow; a device link closes, some
  time later, what flows its user has left at the provider, and a client that made no
  link closes none. A user has each address once, who unlinks one mailbox has
  asked for its revocation first, and an account takes its links and flows along.
  A client that was let in may redeem its grant after its account is gone, one browser flow
  may still give two links, and a deletion may take a link that nobody asked
  to revoke: this holds under every interleaving, and is proved.
* `ScanJobs`: a scan reports once and whole, a closure is about something a
  finished scan of its own user found, and both go with the account in one step.
  This holds under every interleaving, and is proved.
* `Directory`: accounts enrol with a name and an address nobody has, are verified
  only once invited at their own address, and leave with their invitations for
  good. This, too, holds under every interleaving, and is proved.

## 4. What the runs check

| Run | Instance | Distinct states | Properties | What it shows |
|---|---|---|---|---|
| `credentials_race` | 1 user, 2 requests, 2 tokens, 2 passwords, clock to 2 | 516,419 | `TypeOK`, `LockNeedsMisses`, `OlderTokensRetired`, `DeskSpec` | what overlap does not break; recovery implements its desk |
| `credentials_serial` | 2 users, 2 requests, those of one account one at a time | 723,149 | `CounterIsStreak`, `TokenSpentOnce`, `LedgerSpec` | what clients that wait get, whatever other accounts do: exact counter, a token spent once; recovery implements its ledger |
| `credentials_live` | 1 user, 3 requests, 2 tokens | 46,161 | `RequestsFinish` | no request waits for ever |
| `linking_race` | 2 users, 2 requests, 2 flows, 2 grants, 2 addresses, a browser and a device provider | 604,797 | `TypeOK`, `RowsHaveOwners`, `StateGoneOnlyWithLink`, `DeskSpec` | what overlap does not break; linking implements its desk |
| `linking_serial` | 2 users, 2 requests, those of one account one at a time, 2 flows, 3 grants | 266,318 | `StateSpentOnce`, `RevokedBeforeCascade`, `RegistrySpec` | what clients that wait get: linking implements its registry |
| `state_spent_once` | 1 user, 2 requests, 1 flow, 2 grants | | `StateSpentOnce` | violated |
| `discovery_race` | 2 users, 2 requests, 2 addresses, 1 service, 2 sessions, 1 closure | 386,977 | `TypeOK`, `RowsHaveOwners`, `CountsMatch`, `RunningIsWorkedOn`, `ClosureHasTarget`, `ShownWhole`, `NoStandstill`, `JobsSpec` | what overlap and restarts do not break, and that no standstill stays; scans implement their jobs |
| `discovery_live` | 2 users, 2 requests, 1 address | 145,463 | `RequestsFinish`, `ScansEnd` | every request ends, and every scan that is not cut off |
| `registration_race` | 2 users, 2 names, 2 addresses, 2 requests, 2 tokens | 569,597 | `TypeOK`, `VerifiedByOwnMail`, `StillVerifiable`, `OnlyDeletionsDeadlock`, `GoneForGood`, `DirectorySpec` | what overlap, deletions, restarts and lost mails do not break; registration implements its directory |
| `web_session` | 2 accounts, 2 calls | 183,392 | `TypeOK`, `OneAccount`, `LogoutStays`, `CallsSettle` | what late answers and overlapping sign-ins do not break, and that every call ends |
| `expiry_unseen` | 2 accounts, 2 calls | | `ExpiryUnseen` | violated, section 7 |
| `link_clients` | 3 flows, 1 port, 2 rounds | 786,690 | `TypeOK`, `PairFromOneRequest`, `ButtonsComeBack`, `ClientsSettle` | neither a thread, a stray request nor an old closure confuses a client, and every client ends |

Bounds. Two requests are enough for every race in the code, all of which are
between a reader and one writer; three are used for liveness, where a deletion
and two resets can form a longer cycle. Two tokens are an old one and a new
one, two flows or sessions are one's own and another; three grants let an
address be granted twice and another once. `MaxAttempts` is 2, the least at
which a single miss does not lock; the lock and the tokens last one tick and the clock
makes one, so both expire (in the liveness run it stands still). `MaxTime`, `TokenLeft`, `ScanLeft`, `ClosureLeft` and `UserLeft`
bound what only grows; in Registration an INSERT of a token fails when no id is left
(`NoTokenLeft`), so that two requests can still flush the two tokens that were
made side by side. Two calls are one from before a sign-in or sign-out and one after it, or two sign-ins
of which the one that was answered goes on to other calls; two accounts let an answer belong
to somebody else. Longer circles of locks and more calls are left to the
theorems, which are for any number of either.
Three flows let a check outlive its card, be cancelled and meet two further
starts that are answered out of order; one port lets the redirect of an earlier
command reach a later one; two rounds are one that finds nothing and one that
does. Histories saturate at the value the properties compare
with. The serial runs keep two requests and leave out, by `CONSTRAINT OneAtATime`,
every state in which two requests of one account are under way; requests of
different accounts interleave. A request without a user (Meta's data deletion)
counts as every account's. Symmetry is used for safety only, over slots and values that no formula
orders; tokens are numbers, as their order is that of the flush, and are not
permuted.

Deadlock is not an error in these configurations: when every id is used, the
clock has reached its bound or no account is left, the server has nothing to do.
That nobody is stuck *inside* a request is what `RequestsFinish` says; `NoStandstill`
of Discovery, that somebody can always go on or is in a circle the detector ends, so that
the semaphore is never left with a scan that is past it; and `OnlyDeletionsDeadlock`
of Registration, that such a circle contains a deletion. `web_session` and
`link_clients` check deadlock: there somebody can always act.

Five properties are stated and proved but not run. `NoStandstill` of Credentials says little of
two requests, where every circle is one of two; it is the proof for any number
that shows something, and `credentials_live` that the circles end. Of the other
four the abstract specifications say more and are run. In Credentials, `DeskSpec` implies `TokensHaveOwners`
(a deletion takes the tokens) and `PasswordPaidByToken` (only `Pay` changes a password),
and `LedgerSpec` implies `OneLiveToken` (the ledger has one token of an account). In
OAuthLinking, `DeskSpec` implies `LinkedByInitiator` (only `Link` makes a link, with a
grant its client was let in with by `HandIn`).

Every property is paired with a plausible bug (`mutants` in PROJECT.json: a
constraint without its cascade, a save in the wrong order, a flag not saved, a
counter off by one, a lock not released), under which TLC finds it violated.
The mutated forms are the definitions marked *faulty*.

## 5. Fairness

On the server, `FairSpec` asks for two things of each request slot. `SF(Proceed(r))`: the
event loop resumes a handler whose statement has returned, PostgreSQL serves a
row's lock queue and asyncio a semaphore's in order, and the calls of the
scanners have timeouts, so a request that can go on again and again does. Weak
fairness would not do: a lock can be taken by others in between, and a queue
rules out that this happens for ever. `WF(BreakDeadlock(r))`: the detector runs a
second after a wait began. Nothing is asked of users, of the clock, of
`Restart` or of `RollBack`. `credentials_live` and `discovery_live` fail without
the deadlock detector (a reset against a deletion, a closure against a
deletion), which is how they show that the cycles are really there. The
modules state a safety side of this as well, which can be proved: Credentials and
Discovery by `NoStandstill` (in every state with a request under way somebody can go on or
is in a circle of two or three that the detector ends), Registration by `OnlyDeletionsDeadlock`,
its detector ending circles of any length. Registration asks for no liveness: its
waits are of the kind of Credentials.

In the clients weak fairness is enough, as nobody takes a step away from them.
WebSession asks for `WF(Answer(c))`: the browser ends every `fetch`, with an
answer or an error. `CallsSettle` says that then the calls come to an end, unless
pages are loaded for ever, which a loop of refreshes and repeated calls would
break. LinkClients asks for `WF(CommandStep)`: the API client gives up after 30 seconds, the wait for the
redirect after 120, and the rounds of polling are counted; for `WF(CheckStep)`:
timers fire and the browser ends the calls of a check; and for `WF(StartStep(f))`:
so it does those of a start. Nothing is asked of the person, of the provider or of
whoever else finds the port, and `ClientsSettle` holds without them.

## 6. What is proved

All theorems hold for every value of the constants, from the assumptions in the
modules: `Nil` is none of the values it is compared with, kinds of ids are
disjoint, tokens of Credentials are naturals, limits are positive, the rounds of
polling are a natural number, providers are as classified, and mailboxes and services
are finite sets (Discovery counts them). `Nil` is no ticket of the ledger, no slip and no claim of the desks
and no claim of the registry either. The theorems of the two `...SerialProofs` have the form
`Spec => ([]OneAtATime => ...)`: no two requests of one account are ever under way
together. The runs `credentials_serial` and `linking_serial` have the same
formula as their `CONSTRAINT`, and without it each of these properties is false.

| Theorem | Says |
|---|---|
| `CredentialsProofs!TypeCorrect` | `TypeOK` |
| `CredentialsProofs!LockoutEarned` | `LockNeedsMisses`: no interleaving locks an account that was not missed `MaxAttempts` times |
| `CredentialsProofs!TokensOwned` | `TokensHaveOwners` |
| `CredentialsProofs!OlderTokensVoid` | `OlderTokensRetired`: what a reset request found is of no use once its own token exists |
| `CredentialsProofs!PasswordsPaid` | `PasswordPaidByToken`: only the commit that uses up a mailed token changes a password |
| `CredentialsProofs!NeverStandstill` | `NoStandstill`: of requests that wait for each other's rows, one can go on or is a victim |
| `CredentialsProofs!ImplementsDesk` | `DeskSpec`: Credentials implements ResetDesk |
| `CredentialsSerialProofs!CounterExact` | `CounterIsStreak`, if requests of one account do not overlap |
| `CredentialsSerialProofs!OneTokenLive` | `OneLiveToken`, likewise |
| `CredentialsSerialProofs!TokenPaysOnce` | `TokenSpentOnce`, likewise |
| `CredentialsSerialProofs!ImplementsLedger` | `LedgerSpec`, likewise: Credentials implements ResetLedger |
| `OAuthLinkingProofs!TypeCorrect` | `TypeOK` |
| `OAuthLinkingProofs!InitiatorLinked` | `LinkedByInitiator`, for browser flows |
| `OAuthLinkingProofs!RowsOwned` | `RowsHaveOwners` |
| `OAuthLinkingProofs!StateRowsAccounted` | `StateGoneOnlyWithLink`: a failed or interrupted callback leaves its flow as it was |
| `OAuthLinkingProofs!ImplementsDesk` | `DeskSpec`: OAuthLinking implements LinkDesk |
| `OAuthLinkingSerialProofs!FlowLinksOnce` | `StateSpentOnce`, if requests of one account do not overlap |
| `OAuthLinkingSerialProofs!TokensRevokedFirst` | `RevokedBeforeCascade`, likewise |
| `OAuthLinkingSerialProofs!ImplementsRegistry` | `RegistrySpec`, likewise: OAuthLinking implements LinkRegistry |
| `DiscoveryProofs!TypeCorrect` | `TypeOK` |
| `DiscoveryProofs!RowsOwned` | `RowsHaveOwners` |
| `DiscoveryProofs!ClosuresKeepTarget` | `ClosureHasTarget` |
| `DiscoveryProofs!CountsAreRows` | `CountsMatch` |
| `DiscoveryProofs!RunningMeansWork` | `RunningIsWorkedOn` |
| `DiscoveryProofs!ShownTogether` | `ShownWhole` |
| `DiscoveryProofs!NeverStandstill` | `NoStandstill`, for the semaphore and the row locks |
| `DiscoveryProofs!Implements` | `JobsSpec`: Discovery implements ScanJobs |
| `RegistrationProofs!TypeCorrect` | `TypeOK` |
| `RegistrationProofs!StaysVerifiable` | `StillVerifiable` |
| `RegistrationProofs!OwnMailVerifies` | `VerifiedByOwnMail` |
| `RegistrationProofs!DeletionIsFinal` | `GoneForGood`: after a deletion only a login that was past its SELECT is still answered |
| `RegistrationProofs!DeadlocksAreDeletions` | `OnlyDeletionsDeadlock`: every circle of waiting requests contains a deletion |
| `RegistrationProofs!Implements` | `DirectorySpec`: Registration implements Directory |
| `WebSessionProofs!TypeCorrect` | `TypeOK` |
| `WebSessionProofs!SignedOut` | `LogoutStays`: no tokens come back but by a sign-in or a refresh of before the logout |
| `WebSessionProofs!OneAccountShown` | `OneAccount` |
| `LinkClientsProofs!TypeCorrect` | `TypeOK` |
| `LinkClientsProofs!OneRequestsPair` | `PairFromOneRequest` |
| `LinkClientsProofs!ButtonsNeverStuck` | `ButtonsComeBack` |

Why the invariants need strengthening, in each case because a request carries
something it read before:

* `TypeCorrect` of Credentials (`TInv`): a request has set the local variables
  its step uses; a token row a request has locked exists, and no other request
  holds it. Row locks are what keeps `SetPassword` from updating a row that a
  cascade has removed meanwhile.
* `LockoutEarned` (`LInv`): a counter, in the row *or in what a request has read
  of it*, is at most the number of wrong passwords committed. Counters are
  rewound by stale copies, but each copy was true once and `misses` only grows.
* `TokensOwned` (`Owned`): when the deletion commits, the cascade holds every
  token row of the account, the ones inserted after the deletion began included;
  a token is inserted only while the account exists.
* `OlderTokensVoid` and `PasswordsPaid` (`PInv`): a token row a request has
  looked for is gone, used, still to be flushed or locked by it, and the token it
  is about to spend was mailed and is its user's. Both survive what others do
  because a token only ages (`Aging`): it is used or goes, and never comes back.
* `NeverStandstill` of Credentials (`WInv`): the rows a request has locked are its
  user's own, a flush locks them in ascending order, and of each account one deletion
  has locked the user row. So whoever waits for a token row waits for somebody who
  does the same to the same account. Among flushes the one that holds
  the greatest token cannot wait for another, and a flush that waits for a deletion
  can only be waiting for the one that waits for it: cycles of two suffice. "The
  greatest" needs that only finitely many tokens were ever inserted, which is part
  of the invariant, as `Tokens` may be infinite.
* `ImplementsDesk` (`KInv`): the desk has the token a request has handed in and what
  its order replaces; the code has what was read. `KInv` adds to `WInv` that what a
  flush still has to retire, or has locked, is of what it found; that a token about to be mailed
  is there as long as its account is; and that an account in its cascade exists. A flush that
  has retired everything then voids, by `Aging`, what the order replaces and no
  more: what it found already used or gone was void before. Each statement of a
  request is a step of the desk or none, the COMMITs being those that are.
* `SInv` of CredentialsSerialProofs: what a request remembers of its account is
  still so (`Current`): the counters it read are the row's, the tokens it found
  are all there are, the token it is about to spend is unused. Commits of other
  requests write only their own account's rows, and `OneAtATime` makes these other
  accounts. A token that has paid is used or gone (`Spent`), and a used token never
  comes back. The refinement maps the step at which a commit takes effect to
  the ledger's step and everything else to a stutter.
* `InitiatorLinked` (`LInv`): a callback on its way to a link carries a grant of
  a flow that its own user started, which rests on what it compared
  three steps before; the initiator of a flow never changes.
* `RowsOwned` of OAuthLinking (`Owned`): the guard of the COMMIT says that the
  deletion holds all rows of its user, and the INSERTs find the user there.
* `StateRowsAccounted` (`HInv`): every state row a request holds is of the flow
  it links or of the user it deletes. That the row and the link go together
  rests on the unique constraint too, without which the link could have been
  there before.
* `GInv` of OAuthLinking: a grant that is linked, was linked or is about to be was redeemed,
  and of all that redeem it only one goes on to insert; a device flow has one
  grant, so it makes one link whoever polls. This is needed as soon as polls of one
  code overlap.
* `ImplementsDesk` of OAuthLinking (`KInv`): the state row a request has matched, or may
  yet delete, is there as it was read or is gone for good, as flow ids never come back
  (`Growing`). What a request is about to unlink was asked to be revoked; what a deletion has
  loaded is of flows its user started and of links that are its user's or gone. Nothing is
  claimed of the account between the request's first SELECT and its INSERT, nor of
  the link after its COMMIT: both may be gone by then. That one address is linked once
  is the unique constraint's doing, at the INSERT. An action only shows what the
  request goes on with (`Goes`) and which claim that is at the desk.
* `SInv` of OAuthLinkingSerialProofs: the state row a callback matched is still
  there until it goes with the link; a deletion that has come to the flush has
  asked for every link the account has (`Current`). A linked browser flow has no
  state row left, and a linked device flow has no second grant (`Once`,
  `OneDeviceGrant`). That a link was ever there means its flow was linked
  (`LinkedOrAsked`), so a grant about to be linked is new to the registry.
* `DInv` of Discovery joins `RowsHaveOwners` with: a session a scan works on is
  its own, "running" or gone; a session not completed has no findings; the
  session of a finding about to be closed is of the same user or gone; ids are
  never given out again. The last is what makes "gone" final: without it a
  scan could fill the session of somebody else. The refinement follows from
  `DInv` action by action. `DeletionLeaves` is its heart: because a closure's
  finding belongs to the closure's user, the cascade takes both or neither, and
  SET NULL never happens to a closure that stays.
* `SInv` adds to it what a session says of its scan. The mailboxes a scan has
  found something in or may still do so only get fewer (`Touched`), so its
  findings are of no more mailboxes than it began with. A scan holds no lock, so
  no deadlock's victim is a scan (`NoScanInCycle`), and "running" cannot be
  left behind but by a rollback. A completed session stays what it was until its
  account goes (`Settled`), which is why the two reads of `get_scan` agree.
* `WInv` of Discovery is for its `NeverStandstill`: rows stay locked only by a deletion,
  which has deleted them itself; a user row is locked by one deletion or by closures of
  that user; the semaphore is with a scan that is at its scanners, which waits for
  nothing. So a scanner in the queue has somebody in front who can go on, a closure
  that holds the user row can only be waiting for the deletion that waits for it, and
  a deletion in its cascade for another one of the account, which waits for it.
* `IInv` of Registration: a request on its way to a token has an account that was
  there, with the address the mail will go to; the tokens it retires or spends
  are that account's or gone; ids never come back; a link in a mailbox is of a
  token inserted for the account with that address. `WhoWrites` and `WhoSigns`
  say which actions write accounts, tokens and signatures at all, and each theorem
  looks at those.
* `DeletionIsFinal` looks at who may sign (`WhoSigns`, `WhoIsAbout`): a login that has nothing to
  write is the only one whose signature needs no row, and it has to have found the
  account, so no new one appears after the deletion.
* `DeadlocksAreDeletions` needs `LocksOK` of `IInv`, that a row is locked by one request. Without deletions
  only token rows are waited for, and a flush waits for a token above all it
  holds. So the requests that hold a token above the one somebody waits for are closed
  under waiting, and whoever waits does not hold it: no circle comes back to them.
* `WInv` of WebSession: behind `AuthGuard` there is an access token; after a
  logout whatever refreshes tokens did so before it; and until an older call has
  written the store, its tokens, those of `localStorage` and those sent by the calls begun since the
  last sign-in, sign-out or page load are one account's. A
  call keeps the token it was sent with, so the step from "call" to "store" needs
  the invariant of calls and not of the store alone; a sign-in that is answered makes
  all other calls older at once.
* `CInv` of LinkClients: what the command has heard is what the thread has stored,
  and nothing but the code of it while the thread is at work. That the event is set last
  is all that makes the pair one request's.

The lemmas that carry a proof through many actions (`MoveTInv`, `CommitDInv`,
`ShowStep`, `HeldStep`, ...) say that the invariant is kept by any step of a given
shape, so that each action only shows it has that shape.

Only model-checked: liveness (`RequestsFinish`, `ScansEnd`, `CallsSettle`,
`ClientsSettle`), which is out of the prover's reach. Every other property of a
passing run is stated by a theorem.

## 7. Where the code and its own words disagree

Two disagreements are runs whose counterexample can be read as a schedule.

* *"single-use"* OAuth states (`oauth_service.py:192`, `README.md:177`): two
  overlapping callbacks with two consents both make a link, since each reads the
  state before the other's deletion of it is committed (`state_spent_once`).
  What does hold is `DeskSpec`, and with it `LinkedByInitiator`: each link is paid for
  with a consent of its own, and goes to who started the flow.
* *"Auth token refresh | Transparent, no user-visible expiry"*
  (`docs/SYSTEM_DESIGN_WEB_UI.md:40`): the `catch` of the store's `refresh`
  (`auth-store.ts:68-71`) removes the saved refresh token and signs the person out
  whenever the call fails, also when the server did not refuse the token: its rate
  limit, an error of its own or no connection will do (`expiry_unseen`).

Four more comments are true only of requests of one account that do not overlap. For
those, the serial runs check and the `...SerialProofs` prove what they say, and it is
not what holds in general:

* *"Invalidate any existing unused tokens for this user"*
  (`password_reset_service.py:49`, `OneLiveToken`, a consequence of `LedgerSpec`): two overlapping reset
  requests do not see each other's uncommitted token, and both stay live. What does
  hold is `OlderTokensRetired`: the tokens a request saw are dead once its own exists.
* *"Mark token as used"* (`password_reset_service.py:97`, `TokenSpentOnce`): it is
  marked by primary key after having been read as unused; two overlapping
  completions both change the password. What does hold is `DeskSpec`, and with
  it `PasswordPaidByToken`.
* *"Reset failed attempts on successful login"* (`user_service.py:169`,
  `CounterIsStreak`): a login that read 0 writes nothing, so misses committed
  meanwhile keep counting. What does hold is `LockNeedsMisses`.
* *"Revoke all OAuth tokens before cascade deletion destroys the encrypted
  tokens"* (`user_service.py:214`, `RevokedBeforeCascade`): a link committed
  during the revocations goes unrevoked.

Four more behaviours are worth knowing, although no sentence of the repository excludes them. The
properties are stated around them:

* A device code is redeemed for whoever polls it (`poll_device_code` compares nobody with the
  initiator). The page's second poll goes out seconds after the first, so after a
  change of login in between the mailbox is linked to the new account.
* A login that found the account before its deletion and has nothing to clear is answered
  with tokens after it (`user_service.py:172`: a COMMIT without an UPDATE). They are of no use, as
  every request with them looks for the account.
* A login in the web page shows the user of before until its `/auth/me` is answered, and for good
  when that fails (`auth-store.ts`, `login`). A late `/auth/me` of before a logout writes the user
  again, with no tokens and no page behind it.
* The login and the register page can both have a sign-in under way; the one answered later
  takes the window over, and calls of the earlier one may be repeated with its tokens.

## 8. What is not modelled

* Export, templates, HTTP middleware, rate limits and the web pages other than
  the session and the page of linked e-mails keep no state that a second actor
  could disturb. The legal site serves pages, and the Rust workspace consists of stubs.
* Signing, hashing and encryption are library calls whose results are model
  values. The PKCE verifier, nonces and the parsing of Meta's signed request are
  reduced to whether they are accepted.
* The connection pool is configuration of a library, and a model of it needs
  numbers of workers that the repository does not give.
* Several windows of one browser share `localStorage` but not the store. What they
  should do is left open in `docs/SYSTEM_DESIGN_WEB_UI.md:559`, so there is
  nothing to hold the code against.
* The page of linked e-mails stays mounted. That the second poll of a check runs
  with the device code of an earlier card, and can close a later one, is
  behaviour of the model that no property forbids: nothing in the
  repository says what a check should do after its card was cancelled.
* Of the CLI, only `email link`; the other commands send one request and print
  the answer, and the file of stored tokens is written by one process at a time.

## 9. Plan

Done: Credentials, OAuthLinking, Discovery, Registration, WebSession,
LinkClients; their abstract specifications and runs; 39 theorems, which state
every property of the passing runs that is not liveness.

Next modules, in order:

1. Pure parts against reference definitions: deduplication of scanner results,
   the sources of a mailbox's scanners, closure lookup, pagination of the history.
2. A composition of account deletion over the tables of all modules, to show that the
   four views of `delete_account` agree.
3. Several windows, once it is decided what they should do.

Next theorems: that the views of `delete_account` agree, with the composition; lemmas
about the pure parts, with their modules; and that the ledger and the registry
implement the desks, so that waiting for each other is seen to add to what holds anyway.

To repeat everything here: `tlc -config <Cfg>.cfg <MC module>` for each run and
`tlapm <Proofs module>` for each module of theorems.
