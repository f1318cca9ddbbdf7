------------------------------ MODULE Discovery ------------------------------
(***************************************************************************)
(* Discovery scans over a user's mailboxes, the accounts they find, the    *)
(* requests to close those accounts, and the account deletion that takes   *)
(* all of it away.                                                         *)
(*                                                                         *)
(* Requests are transactions as in Credentials.  A scan is two of them     *)
(* with the scanners' network calls in between: one commits the session as *)
(* "running", the other commits its results and "completed" together.  Of  *)
(* the locks only those are modelled that are held from one step to the    *)
(* next: the rows a deletion has deleted, and the user row under the       *)
(* foreign-key check of a closure whose other check has to wait.           *)
(*                                                                         *)
(* A finding is a mailbox and a service that some source reports for it; a *)
(* row of discovered_accounts is a session with a finding, which is what   *)
(* its unique constraint says.  Which mailboxes are linked is the business *)
(* of OAuthLinking: a scan may find any set of them.  A definition marked  *)
(* faulty is used by no other.                                             *)
(***************************************************************************)
EXTENDS Integers, FiniteSets

CONSTANTS
  Users, Requests, Emails,
  Services,  \* what a scanner reports: a service, with the source it has it from
  Scans,     \* ids of scan_sessions
  Closures,  \* ids of closure_requests
  Nil

Finding == Emails \X Services
Account == Scans \X Finding
Rows == Scans \cup Account \cup Closures

ASSUME RowsAssumption ==
  Scans \cap Closures = {} /\ Scans \cap Account = {} /\ Account \cap Closures = {}

ASSUME FiniteAssumption == IsFiniteSet(Emails) /\ IsFiniteSet(Services)

VARIABLES
  account,     \* users that have an account
  scan,        \* scan_sessions: user_id, status, emails_scanned, accounts_found
  discovered,  \* discovered_accounts: the findings of each session
  closure,     \* closure_requests: user_id, discovered_account_id, status
  hibp,        \* who holds the semaphore of the HIBP scanner
  req,         \* the local state of each request slot
  issued,      \* history: ids of sessions and closures ever inserted
  abandoned    \* history: sessions whose request was rolled back

tables == <<account, scan, discovered, closure, issued>>
vars == <<account, scan, discovered, closure, hibp, req, issued, abandoned>>

-----------------------------------------------------------------------------
ScanRow == [owner : Users, status : {"running", "completed"}, emails : Nat, found : Nat]
ClosureRow == [owner : Users, target : Account \cup {Nil}, status : {"pending", "completed"}]

ASSUME NilAssumption ==
  /\ Nil \notin Users \cup Requests \cup Emails \cup Rows
  /\ Nil \notin ScanRow /\ Nil \notin ClosureRow
  /\ Nil \notin [owner : Users, done : BOOLEAN, results : SUBSET Finding]
  /\ Nil \notin [owner : Users, job : Scans, finding : Finding, done : BOOLEAN]

Steps == {"idle", "open", "scan", "queue", "gather", "lockUser", "insertClosure", "complete",
          "readResults", "respond", "revoke", "flush", "deleteUser", "cascade"}

\* `reports' counts how often the scanners reported a finding, up to twice.
Local == [at : Steps, user : Users \cup {Nil}, row : Rows \cup {Nil},
          todo : SUBSET Emails, email : Emails \cup {Nil}, reports : [Finding -> 0 .. 2],
          held : SUBSET Rows, seen : ScanRow \cup {Nil}, results : SUBSET Finding]

NoReports == [f \in Finding |-> 0]
Idle == [at |-> "idle", user |-> Nil, row |-> Nil, todo |-> {}, email |-> Nil,
         reports |-> NoReports, held |-> {}, seen |-> Nil, results |-> {}]

TypeOK ==
  /\ account \subseteq Users
  /\ scan \in [Scans -> ScanRow \cup {Nil}]
  /\ discovered \in [Scans -> SUBSET Finding]
  /\ closure \in [Closures -> ClosureRow \cup {Nil}]
  /\ hibp \in Requests \cup {Nil}
  /\ req \in [Requests -> Local]
  /\ issued \subseteq Scans \cup Closures
  /\ abandoned \subseteq Scans

Init ==
  /\ account = Users
  /\ scan = [s \in Scans |-> Nil]
  /\ discovered = [s \in Scans |-> {}]
  /\ closure = [c \in Closures |-> Nil]
  /\ hibp = Nil
  /\ req = [r \in Requests |-> Idle]
  /\ issued = {}
  /\ abandoned = {}

-----------------------------------------------------------------------------
(* Rows and locks                                                          *)

ScansOf(u) == {s \in Scans : scan[s] # Nil /\ scan[s].owner = u}
AccountsOf(u) == {a \in Account : a[1] \in ScansOf(u) /\ a[2] \in discovered[a[1]]}
ClosuresOf(u) == {c \in Closures : closure[c] # Nil /\ closure[c].owner = u}
\* Faulty RowsOf: closure_requests without ON DELETE CASCADE.
RowsButClosures(u) == ScansOf(u) \cup AccountsOf(u)
RowsOf(u) == ScansOf(u) \cup AccountsOf(u) \cup ClosuresOf(u)

Discovered(a) == a[2] \in discovered[a[1]]
OwnerOf(a) == IF scan[a[1]] = Nil THEN Nil ELSE scan[a[1]].owner

\* The row, if any, that the next statement of r changes or refers to, and the
\* rows it deletes.
Wants(r) ==
  LET me == req[r] IN
  CASE me.at = "scan" /\ me.todo = {} -> {me.row}
    [] me.at \in {"insertClosure", "complete"} -> {me.row}
    [] me.at = "flush" -> RowsOf(me.user)
    [] me.at = "cascade" -> RowsOf(me.user) \ me.held
    [] OTHER -> {}

\* A deletion waits for whoever has the user row locked, and a row that refers
\* to the user waits for the deletion.
WantsUser(r) == req[r].at \in {"open", "lockUser", "deleteUser"}
HoldsUser(s, r) ==
  /\ req[s].user = req[r].user
  /\ req[s].at = "cascade" \/ (req[s].at = "insertClosure" /\ req[r].at = "deleteUser")

WaitsFor(r) ==
  {s \in Requests \ {r} : req[s].held \cap Wants(r) # {} \/ (WantsUser(r) /\ HoldsUser(s, r))}

Begin(r, local) == req[r].at = "idle" /\ req' = [req EXCEPT ![r] = local]
Goto(r, local) == req' = [req EXCEPT ![r] = local]
Finish(r) == req' = [req EXCEPT ![r] = Idle]
Abort(r) == Finish(r) /\ UNCHANGED <<tables, hibp, abandoned>>

-----------------------------------------------------------------------------
(* start_scan                                                              *)

\* Bounds: every request in flight that will insert a session, or a closure,
\* finds an id for it.
ScanLeft == Cardinality({r \in Requests : req[r].at = "open"}) < Cardinality(Scans \ issued)
ClosureLeft ==
  Cardinality({r \in Requests : req[r].at \in {"lockUser", "insertClosure"}})
    < Cardinality(Closures \ issued)

\* The mailboxes E are those linked at the moment of the SELECT.
StartScan(r, u, E) ==
  /\ u \in account
  /\ ScanLeft
  /\ Begin(r, [Idle EXCEPT !.at = "open", !.user = u, !.todo = E])
  /\ UNCHANGED <<tables, hibp, abandoned>>

OpenSession(r) ==
  LET me == req[r] IN
  /\ me.at = "open"
  /\ WaitsFor(r) = {}
  /\ \/ me.user \notin account /\ Abort(r)
     \/ /\ me.user \in account
        /\ \E s \in Scans \ issued :
             /\ issued' = issued \cup {s}
             /\ scan' = [scan EXCEPT ![s] = [owner |-> me.user, status |-> "running",
                                            emails |-> Cardinality(me.todo), found |-> 0]]
             /\ Goto(r, [me EXCEPT !.at = "scan", !.row = s])
        /\ UNCHANGED <<account, discovered, closure, hibp, abandoned>>

\* A mailbox whose OAuth token has expired is skipped, the next one's scanners
\* are started.
TakeMailbox(r) ==
  LET me == req[r] IN
  /\ me.at = "scan"
  /\ \E e \in me.todo :
       \/ Goto(r, [me EXCEPT !.todo = @ \ {e}])
       \/ Goto(r, [me EXCEPT !.at = "queue", !.email = e, !.todo = @ \ {e}])
  /\ UNCHANGED <<tables, hibp, abandoned>>

\* The scanners of a mailbox run together; the one for HIBP takes its turn at
\* the semaphore first.
Gather(r) ==
  /\ req[r].at = "queue"
  /\ hibp = Nil
  /\ hibp' = r
  /\ Goto(r, [req[r] EXCEPT !.at = "gather"])
  /\ UNCHANGED <<tables, abandoned>>

\* Faulty GatherResults: the semaphore is kept.
GatherAndKeep(r) ==
  LET me == req[r] IN
  /\ me.at = "gather"
  /\ Goto(r, [me EXCEPT !.at = "scan", !.email = Nil])
  /\ UNCHANGED <<tables, hibp, abandoned>>

\* Each service is reported not at all (a failed scanner is skipped), once, or
\* more often, by one source or by several accounts of one name.
GatherResults(r) ==
  LET me == req[r] IN
  /\ me.at = "gather"
  /\ hibp' = Nil
  /\ \E times \in [Services -> 0 .. 2] :
       Goto(r, [me EXCEPT !.at = "scan", !.email = Nil,
                          !.reports = [f \in Finding |-> IF f[1] = me.email THEN times[f[2]] ELSE @[f]]])
  /\ UNCHANGED <<tables, abandoned>>

\* Faulty Distinct: the key keeps the number of reports.
DistinctCounted(reports) == {<<f[1], f[2], reports[f]>> : f \in {h \in Finding : reports[h] > 0}}
Distinct(reports) == {f \in Finding : reports[f] > 0}
\* Faulty Found: len(all_results), duplicates included.
FoundWithDuplicates(reports) ==
  Cardinality({f \in Finding : reports[f] > 0}) + Cardinality({f \in Finding : reports[f] > 1})
Found(reports) == Cardinality(Distinct(reports))

\* Faulty SaveResults: nothing is saved when nothing was found.
SaveIfAny(r) ==
  LET me == req[r] IN
  /\ me.at = "scan"
  /\ me.todo = {}
  /\ Finish(r)
  /\ IF Distinct(me.reports) = {} \/ scan[me.row] = Nil
     THEN UNCHANGED <<scan, discovered>>
     ELSE /\ discovered' = [discovered EXCEPT ![me.row] = Distinct(me.reports)]
          /\ scan' = [scan EXCEPT ![me.row].status = "completed", ![me.row].found = Found(me.reports)]
  /\ UNCHANGED <<account, closure, hibp, issued, abandoned>>

\* Faulty SaveResults: the session is committed before its results.
SaveInTwo(r) ==
  LET me == req[r] IN
  /\ me.at = "scan"
  /\ me.todo = {}
  /\ scan[me.row] # Nil
  /\ IF scan[me.row].status = "running"
     THEN /\ scan' = [scan EXCEPT ![me.row].status = "completed", ![me.row].found = Found(me.reports)]
          /\ UNCHANGED <<req, discovered>>
     ELSE /\ discovered' = [discovered EXCEPT ![me.row] = Distinct(me.reports)]
          /\ Finish(r) /\ UNCHANGED scan
  /\ UNCHANGED <<account, closure, hibp, issued, abandoned>>

\* The UPDATE of the session finds no row when its account was deleted.
SaveResults(r) ==
  LET me == req[r]
      s == me.row
  IN
  /\ me.at = "scan"
  /\ me.todo = {}
  /\ WaitsFor(r) = {}
  /\ \/ scan[s] = Nil /\ Abort(r)
     \/ /\ scan[s] # Nil
        /\ discovered' = [discovered EXCEPT ![s] = Distinct(me.reports)]
        /\ scan' = [scan EXCEPT ![s].status = "completed", ![s].found = Found(me.reports)]
        /\ Finish(r)
        /\ UNCHANGED <<account, closure, hibp, issued, abandoned>>

-----------------------------------------------------------------------------
(* get_scan: the session and its results in two SELECTs                    *)

GetScan(r, u, s) ==
  /\ s \in ScansOf(u)
  /\ Begin(r, [Idle EXCEPT !.at = "readResults", !.user = u, !.row = s, !.seen = scan[s]])
  /\ UNCHANGED <<tables, hibp, abandoned>>

ReadResults(r) ==
  LET me == req[r] IN
  /\ me.at = "readResults"
  /\ Goto(r, [me EXCEPT !.at = "respond", !.results = discovered[me.row]])
  /\ UNCHANGED <<tables, hibp, abandoned>>

Respond(r) == req[r].at = "respond" /\ Abort(r)

-----------------------------------------------------------------------------
(* request_closure, complete_closure                                       *)

\* Faulty MayClose: the session may be anybody's.
MayCloseAnyones(u, a) == Discovered(a)
MayClose(u, a) == Discovered(a) /\ OwnerOf(a) = u

RequestClosure(r, u, a) ==
  /\ u \in account
  /\ MayClose(u, a)
  /\ ClosureLeft
  /\ Begin(r, [Idle EXCEPT !.at = "lockUser", !.user = u, !.row = a])
  /\ UNCHANGED <<tables, hibp, abandoned>>

\* The INSERT checks its foreign keys in their order, user_id first.
LockUser(r) ==
  LET me == req[r] IN
  /\ me.at = "lockUser"
  /\ WaitsFor(r) = {}
  /\ IF me.user \in account THEN Goto(r, [me EXCEPT !.at = "insertClosure"]) ELSE Finish(r)
  /\ UNCHANGED <<tables, hibp, abandoned>>

InsertClosure(r) ==
  LET me == req[r] IN
  /\ me.at = "insertClosure"
  /\ WaitsFor(r) = {}
  /\ \/ ~Discovered(me.row) /\ Abort(r)
     \/ /\ Discovered(me.row)
        /\ \E c \in Closures \ issued :
             /\ issued' = issued \cup {c}
             /\ closure' = [closure EXCEPT ![c] = [owner |-> me.user, target |-> me.row, status |-> "pending"]]
        /\ Finish(r)
        /\ UNCHANGED <<account, scan, discovered, hibp, abandoned>>

\* Whether it is completed already is not looked at.
CompleteClosure(r, u, c) ==
  /\ c \in ClosuresOf(u)
  /\ Begin(r, [Idle EXCEPT !.at = "complete", !.user = u, !.row = c])
  /\ UNCHANGED <<tables, hibp, abandoned>>

CommitCompletion(r) ==
  LET me == req[r] IN
  /\ me.at = "complete"
  /\ WaitsFor(r) = {}
  /\ \/ closure[me.row] = Nil /\ Abort(r)
     \/ /\ closure[me.row] # Nil
        /\ closure' = [closure EXCEPT ![me.row].status = "completed"]
        /\ Finish(r)
        /\ UNCHANGED <<account, scan, discovered, hibp, issued, abandoned>>

-----------------------------------------------------------------------------
(* delete_account, once the password is accepted and the links are revoked *)

DeleteAccount(r, u) ==
  /\ u \in account
  /\ Begin(r, [Idle EXCEPT !.at = "flush", !.user = u])
  /\ UNCHANGED <<tables, hibp, abandoned>>

\* db.delete(user) loads the user's rows and the flush deletes them; a row
\* committed between the two is left to the cascade like one committed later.
DeleteChildren(r) ==
  LET me == req[r] IN
  /\ me.at = "flush"
  /\ WaitsFor(r) = {}
  /\ Goto(r, [me EXCEPT !.at = "deleteUser", !.held = RowsOf(me.user)])
  /\ UNCHANGED <<tables, hibp, abandoned>>

DeleteUserRow(r) ==
  LET me == req[r] IN
  /\ me.at = "deleteUser"
  /\ WaitsFor(r) = {}
  /\ IF me.user \in account THEN Goto(r, [me EXCEPT !.at = "cascade"]) ELSE Finish(r)
  /\ UNCHANGED <<tables, hibp, abandoned>>

\* ON DELETE CASCADE takes the rows that were not loaded.  A closure whose
\* account goes and that stays itself forgets it (ON DELETE SET NULL).
CommitDeletion(r) ==
  LET me == req[r]
      gone == RowsOf(me.user)
  IN
  /\ me.at = "cascade"
  /\ WaitsFor(r) = {}
  /\ account' = account \ {me.user}
  /\ scan' = [s \in Scans |-> IF s \in gone THEN Nil ELSE scan[s]]
  /\ discovered' = [s \in Scans |-> IF s \in gone THEN {} ELSE discovered[s]]
  /\ closure' = [c \in Closures |->
                   IF c \in gone THEN Nil
                   ELSE IF closure[c] # Nil /\ closure[c].target \in gone
                   THEN [closure[c] EXCEPT !.target = Nil]
                   ELSE closure[c]]
  /\ Finish(r)
  /\ UNCHANGED <<hibp, issued, abandoned>>
-----------------------------------------------------------------------------
(* The environment                                                         *)

\* Faulty InCycle: no deadlock detection.
InCycleNever(r) == FALSE
\* PostgreSQL aborts a transaction of a cycle of waiting transactions.
InCycle(r) ==
  \E s \in WaitsFor(r) : r \in WaitsFor(s) \/ \E q \in WaitsFor(s) : r \in WaitsFor(q)

BreakDeadlock(r) == InCycle(r) /\ Abort(r)

\* A restart, a lost connection, a result the INSERT refuses: the handler ends
\* and nobody takes its session over.
Scanning(r) == req[r].at \in {"scan", "queue", "gather"}
RollBack(r) ==
  /\ req[r].at # "idle"
  /\ Finish(r)
  /\ hibp' = IF hibp = r THEN Nil ELSE hibp
  /\ abandoned' = IF Scanning(r) THEN abandoned \cup {req[r].row} ELSE abandoned
  /\ UNCHANGED tables

Arrive(r) ==
  \/ \E u \in Users, E \in SUBSET Emails : StartScan(r, u, E)
  \/ \E u \in Users, s \in Scans : GetScan(r, u, s)
  \/ \E u \in Users, a \in Account : RequestClosure(r, u, a)
  \/ \E u \in Users, c \in Closures : CompleteClosure(r, u, c)
  \/ \E u \in Users : DeleteAccount(r, u)

Proceed(r) ==
  \/ OpenSession(r)
  \/ TakeMailbox(r)
  \/ Gather(r)
  \/ GatherResults(r)
  \/ SaveResults(r)
  \/ ReadResults(r)
  \/ Respond(r)
  \/ LockUser(r)
  \/ InsertClosure(r)
  \/ CommitCompletion(r)
  \/ DeleteChildren(r)
  \/ DeleteUserRow(r)
  \/ CommitDeletion(r)

Next == \E r \in Requests : Arrive(r) \/ Proceed(r) \/ BreakDeadlock(r) \/ RollBack(r)

Spec == Init /\ [][Next]_vars

\* Handlers are resumed, lock queues and the semaphore are served in order, the
\* scanners' calls have timeouts, and the deadlock detector runs.
Fairness == \A r \in Requests : SF_vars(Proceed(r)) /\ WF_vars(BreakDeadlock(r))
FairSpec == Spec /\ Fairness

-----------------------------------------------------------------------------
(* What holds however the requests interleave.                             *)

\* Sessions, findings and closures belong to an account that exists, although
\* scans run on, and closures are inserted, while delete_account is under way.
RowsHaveOwners ==
  /\ \A s \in Scans : scan[s] # Nil => scan[s].owner \in account
  /\ \A s \in Scans : scan[s] = Nil => discovered[s] = {}
  /\ \A c \in Closures : closure[c] # Nil => closure[c].owner \in account

\* The counts a session shows are those of its rows (start_scan): none before
\* the results are committed, all of them after, and of no more mailboxes than
\* it says it scanned.
CountsMatch ==
  \A s \in Scans : scan[s] # Nil =>
    /\ scan[s].found = Cardinality(discovered[s])
    /\ scan[s].status = "running" => discovered[s] = {}
    /\ Cardinality({f[1] : f \in discovered[s]}) <= scan[s].emails

\* A session that says "running" has exactly one request working on it, unless
\* that request was rolled back and left it so.
RunningIsWorkedOn ==
  \A s \in Scans :
    LET workers == {r \in Requests : Scanning(r) /\ req[r].row = s} IN
    /\ Cardinality(workers) <= 1
    /\ scan[s] # Nil /\ scan[s].status = "running" /\ s \notin abandoned => workers # {}

\* A closure is about an account found for the same user (request_closure), and
\* keeps it for as long as it exists: discovered_account_id is never set NULL
\* in a row that stays.
ClosureHasTarget ==
  \A c \in Closures : closure[c] # Nil =>
    /\ closure[c].target # Nil
    /\ Discovered(closure[c].target)
    /\ OwnerOf(closure[c].target) = closure[c].owner

\* A response that says "completed" lists as many accounts as it counts, unless
\* the account was deleted between its two reads (get_scan).
ShownWhole ==
  \A r \in Requests :
    req[r].at = "respond" /\ req[r].seen.status = "completed" =>
      Cardinality(req[r].results) = req[r].seen.found \/ req[r].user \notin account

\* While requests are in flight, one of them can go on or is in a cycle that
\* the deadlock detector ends: a deletion deletes rows and then wants the user
\* row, a closure has the user row and waits for an account the deletion has
\* deleted, and a scanner waits for the semaphore only while another one is at
\* work (delete_account, request_closure, start_scan).
NoStandstill ==
  (\E r \in Requests : req[r].at # "idle") =>
    \E r \in Requests :
      /\ req[r].at # "idle" /\ (req[r].at = "queue" => hibp = Nil)
      /\ WaitsFor(r) = {} \/ InCycle(r)

\* Every scan ends, unless its request was rolled back: it is completed or goes
\* with its account, whoever holds the semaphore and whatever it waits for.
ScansEnd ==
  \A s \in Scans :
    (scan[s] # Nil /\ scan[s].status = "running")
      ~> (scan[s] = Nil \/ scan[s].status = "completed" \/ s \in abandoned)

\* Every request ends, although a closure and a deletion can each wait for the
\* row the other has locked (request_closure, delete_account).
RequestsFinish == \A r \in Requests : []<>(req[r].at = "idle")

\* Scans and closures are what ScanJobs promises.
Jobs == INSTANCE ScanJobs WITH
  job <- [s \in Scans |->
            IF scan[s] = Nil THEN Nil
            ELSE [owner |-> scan[s].owner, done |-> scan[s].status = "completed",
                  results |-> discovered[s]]],
  request <- [c \in Closures |->
                IF closure[c] = Nil THEN Nil
                ELSE [owner |-> closure[c].owner, job |-> closure[c].target[1],
                      finding |-> closure[c].target[2], done |-> closure[c].status = "completed"]]
JobsSpec == Jobs!Spec
=============================================================================
