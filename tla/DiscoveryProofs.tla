--------------------------- MODULE DiscoveryProofs ---------------------------
(***************************************************************************)
(* Proofs about Discovery for every number of users, request slots,        *)
(* sessions and closures, and every finite set of mailboxes and services.  *)
(***************************************************************************)
EXTENDS Discovery, FiniteSetTheorems, TLAPS

Works(l) == l.at \in {"scan", "queue", "gather"}

\* A scan under way fills a session of its own that nobody completed; a closure
\* under way is for an account found for its user.  The session may be gone.
LocalOK(l) ==
  /\ l.at \in {"open", "flush", "deleteUser", "cascade"} => l.user \in Users
  /\ Works(l) =>
       /\ l.user \in Users
       /\ l.row \in Scans /\ l.row \in issued
       /\ scan[l.row] # Nil => scan[l.row].status = "running"
  /\ l.at \in {"lockUser", "insertClosure"} =>
       /\ l.user \in Users
       /\ l.row \in Account /\ l.row[1] \in issued
       /\ scan[l.row[1]] # Nil => scan[l.row[1]].owner = l.user
  /\ l.at \in {"queue", "gather"} => l.email \in Emails
  /\ l.at = "complete" => l.row \in Closures
  /\ l.at = "readResults" => l.row \in Scans

OneWorker ==
  \A r, q \in Requests : Works(req[r]) /\ Works(req[q]) /\ req[r].row = req[q].row => r = q

SessionsOK ==
  \A s \in Scans :
    /\ scan[s] # Nil => s \in issued
    /\ scan[s] # Nil /\ scan[s].status = "running" => discovered[s] = {}

ClosuresIssued == \A c \in Closures : closure[c] # Nil => c \in issued

\* Neither ClosureHasTarget nor the refinement is inductive: both rest on what
\* a request found before it waited, and on ids that never come back.
DInv ==
  /\ TypeOK
  /\ RowsHaveOwners
  /\ SessionsOK
  /\ ClosuresIssued
  /\ ClosureHasTarget
  /\ OneWorker
  /\ \A r \in Requests : LocalOK(req[r])

-----------------------------------------------------------------------------
LEMMA IdleOK == Idle \in Local /\ LocalOK(Idle) /\ ~Works(Idle)
  BY DEF Idle, Local, LocalOK, Works, Steps, NoReports

LEMMA InitDInv == Init => DInv
  <1> SUFFICES ASSUME Init PROVE DInv
    OBVIOUS
  <1>1. TypeOK
    BY IdleOK DEF Init, TypeOK
  <1>2. RowsHaveOwners /\ SessionsOK /\ ClosuresIssued /\ ClosureHasTarget
    BY DEF Init, RowsHaveOwners, SessionsOK, ClosuresIssued, ClosureHasTarget
  <1>3. OneWorker /\ \A r \in Requests : LocalOK(req[r])
    BY IdleOK DEF Init, OneWorker
  <1> QED
    BY <1>1, <1>2, <1>3 DEF DInv

LEMMA FindingFinite == IsFiniteSet(Finding)
  BY FiniteAssumption, FS_Product DEF Finding

LEMMA DistinctOK ==
  ASSUME NEW reports PROVE Distinct(reports) \subseteq Finding /\ Found(reports) \in Nat
  <1>1. Distinct(reports) \subseteq Finding
    BY DEF Distinct
  <1> QED
    BY <1>1, FindingFinite, FS_Subset, FS_CardinalityType DEF Found

\* A request moves on, and no row changes.
LEMMA MoveDInv ==
  ASSUME DInv, NEW r \in Requests, NEW l \in Local, LocalOK(l), Goto(r, l),
         Works(l) => Works(req[r]) /\ l.row = req[r].row,
         hibp' \in Requests \cup {Nil}, abandoned' \subseteq Scans, UNCHANGED tables
  PROVE  DInv'
  <1>1. TypeOK'
    BY DEF DInv, TypeOK, Goto, tables
  <1>2. RowsHaveOwners' /\ SessionsOK' /\ ClosuresIssued'
    BY DEF DInv, RowsHaveOwners, SessionsOK, ClosuresIssued, tables
  <1>3. ClosureHasTarget'
    BY DEF DInv, ClosureHasTarget, Discovered, OwnerOf, tables
  <1>4. \A q \in Requests : req'[q] = IF q = r THEN l ELSE req[q]
    BY DEF DInv, TypeOK, Goto
  <1>5. OneWorker'
    BY <1>4 DEF DInv, OneWorker, Works
  <1>6. \A q \in Requests : LocalOK(req[q])'
    BY <1>4 DEF DInv, LocalOK, Works, tables
  <1> QED
    BY <1>1, <1>2, <1>3, <1>5, <1>6 DEF DInv

LEMMA EndDInv ==
  ASSUME DInv, NEW r \in Requests, Finish(r),
         hibp' \in Requests \cup {Nil}, abandoned' \subseteq Scans, UNCHANGED tables
  PROVE  DInv'
  <1>1. Goto(r, Idle)
    BY DEF Finish, Goto
  <1> QED
    BY <1>1, IdleOK, MoveDInv

LEMMA AbortDInv == ASSUME DInv, NEW r \in Requests, Abort(r) PROVE DInv'
  <1>1. Finish(r) /\ UNCHANGED tables /\ hibp' = hibp /\ abandoned' = abandoned
    BY DEF Abort
  <1>2. hibp \in Requests \cup {Nil} /\ abandoned \subseteq Scans
    BY DEF DInv, TypeOK
  <1> QED
    BY <1>1, <1>2, EndDInv

LEMMA RollBackDInv == ASSUME DInv, NEW r \in Requests, RollBack(r) PROVE DInv'
  <1>1. hibp' \in Requests \cup {Nil}
    BY DEF RollBack, DInv, TypeOK
  <1>2. abandoned' \subseteq Scans
    BY DEF RollBack, Scanning, DInv, TypeOK, LocalOK, Works
  <1> QED
    BY <1>1, <1>2, EndDInv DEF RollBack
-----------------------------------------------------------------------------
(* Steps that change no row                                                *)

LEMMA ArriveDInv == ASSUME DInv, NEW r \in Requests, Arrive(r) PROVE DInv'
  <1>0. hibp \in Requests \cup {Nil} /\ abandoned \subseteq Scans
    BY DEF DInv, TypeOK
  <1>1. ASSUME NEW u \in Users, NEW E \in SUBSET Emails, StartScan(r, u, E) PROVE DInv'
    <2> DEFINE l == [Idle EXCEPT !.at = "open", !.user = u, !.todo = E]
    <2>1. l \in Local /\ LocalOK(l) /\ ~Works(l)
      BY IdleOK DEF Local, Idle, LocalOK, Works, Steps
    <2>2. Goto(r, l) /\ UNCHANGED tables /\ hibp' = hibp /\ abandoned' = abandoned
      BY <1>1 DEF StartScan, Begin, Goto
    <2> HIDE DEF l
    <2> QED
      BY <1>0, <2>1, <2>2, MoveDInv
  <1>2. ASSUME NEW u \in Users, NEW s \in Scans, GetScan(r, u, s) PROVE DInv'
    <2> DEFINE l == [Idle EXCEPT !.at = "readResults", !.user = u, !.row = s, !.seen = scan[s]]
    <2>0. scan[s] \in ScanRow /\ s \in Rows
      BY <1>2 DEF GetScan, ScansOf, DInv, TypeOK, Rows
    <2>1. l \in Local /\ LocalOK(l) /\ ~Works(l)
      BY <2>0, IdleOK DEF Local, Idle, LocalOK, Works, Steps
    <2>2. Goto(r, l) /\ UNCHANGED tables /\ hibp' = hibp /\ abandoned' = abandoned
      BY <1>2 DEF GetScan, Begin, Goto
    <2> HIDE DEF l
    <2> QED
      BY <1>0, <2>1, <2>2, MoveDInv
  <1>3. ASSUME NEW u \in Users, NEW a \in Account, RequestClosure(r, u, a) PROVE DInv'
    <2> DEFINE l == [Idle EXCEPT !.at = "lockUser", !.user = u, !.row = a]
    <2>0. a \in Rows /\ a[1] \in Scans
      BY DEF Rows, Account
    <2>1. scan[a[1]] # Nil /\ scan[a[1]].owner = u /\ a[1] \in issued
      <3>1. discovered[a[1]] # {}
        BY <1>3 DEF RequestClosure, MayClose, Discovered
      <3>2. scan[a[1]] # Nil
        BY <2>0, <3>1 DEF DInv, RowsHaveOwners
      <3> QED
        BY <1>3, <2>0, <3>2 DEF RequestClosure, MayClose, OwnerOf, DInv, SessionsOK
    <2>2. l \in Local
      BY <2>0, IdleOK DEF Local, Idle, Steps
    <2>3. LocalOK(l) /\ ~Works(l)
      BY <2>1 DEF Idle, LocalOK, Works
    <2>4. Goto(r, l) /\ UNCHANGED tables /\ hibp' = hibp /\ abandoned' = abandoned
      BY <1>3 DEF RequestClosure, Begin, Goto
    <2> HIDE DEF l
    <2> QED
      BY <1>0, <2>2, <2>3, <2>4, MoveDInv
  <1>4. ASSUME NEW u \in Users, NEW c \in Closures, CompleteClosure(r, u, c) PROVE DInv'
    <2> DEFINE l == [Idle EXCEPT !.at = "complete", !.user = u, !.row = c]
    <2>1. l \in Local /\ LocalOK(l) /\ ~Works(l)
      BY IdleOK DEF Local, Idle, LocalOK, Works, Steps, Rows
    <2>2. Goto(r, l) /\ UNCHANGED tables /\ hibp' = hibp /\ abandoned' = abandoned
      BY <1>4 DEF CompleteClosure, Begin, Goto
    <2> HIDE DEF l
    <2> QED
      BY <1>0, <2>1, <2>2, MoveDInv
  <1>5. ASSUME NEW u \in Users, DeleteAccount(r, u) PROVE DInv'
    <2> DEFINE l == [Idle EXCEPT !.at = "flush", !.user = u]
    <2>1. l \in Local /\ LocalOK(l) /\ ~Works(l)
      BY IdleOK DEF Local, Idle, LocalOK, Works, Steps
    <2>2. Goto(r, l) /\ UNCHANGED tables /\ hibp' = hibp /\ abandoned' = abandoned
      BY <1>5 DEF DeleteAccount, Begin, Goto
    <2> HIDE DEF l
    <2> QED
      BY <1>0, <2>1, <2>2, MoveDInv
  <1> QED
    BY <1>1, <1>2, <1>3, <1>4, <1>5 DEF Arrive

LEMMA MovesDInv ==
  ASSUME DInv, NEW r \in Requests,
         \/ TakeMailbox(r) \/ Gather(r) \/ GatherResults(r) \/ ReadResults(r) \/ Respond(r)
         \/ LockUser(r) \/ DeleteChildren(r) \/ DeleteUserRow(r)
  PROVE  DInv'
  <1> DEFINE me == req[r]
  <1>0. me \in Local /\ LocalOK(me) /\ hibp \in Requests \cup {Nil} /\ abandoned \subseteq Scans
    BY DEF DInv, TypeOK
  <1>1. CASE TakeMailbox(r)
    <2> PICK e \in me.todo : \/ Goto(r, [me EXCEPT !.todo = @ \ {e}])
                             \/ Goto(r, [me EXCEPT !.at = "queue", !.email = e, !.todo = @ \ {e}])
      BY <1>1 DEF TakeMailbox
    <2> DEFINE l == [me EXCEPT !.todo = @ \ {e}]
               m == [me EXCEPT !.at = "queue", !.email = e, !.todo = @ \ {e}]
    <2>1. me.at = "scan" /\ UNCHANGED tables /\ hibp' = hibp /\ abandoned' = abandoned
      BY <1>1 DEF TakeMailbox
    <2>2. l \in Local /\ m \in Local
      BY <1>0 DEF Local, Steps
    <2>3. LocalOK(l) /\ LocalOK(m) /\ Works(me) /\ l.row = me.row /\ m.row = me.row
      BY <1>0, <2>1 DEF Local, LocalOK, Works
    <2>4. Goto(r, l) \/ Goto(r, m)
      OBVIOUS
    <2> HIDE DEF l, m
    <2> QED
      BY <1>0, <2>1, <2>2, <2>3, <2>4, MoveDInv
  <1>2. CASE Gather(r)
    <2> DEFINE l == [me EXCEPT !.at = "gather"]
    <2>1. l \in Local
      BY <1>0 DEF Local, Steps
    <2>2. LocalOK(l) /\ Works(me) /\ l.row = me.row
      BY <1>0, <1>2 DEF Gather, Local, LocalOK, Works
    <2>3. Goto(r, l) /\ UNCHANGED tables /\ hibp' = r /\ abandoned' = abandoned
      BY <1>2 DEF Gather
    <2> HIDE DEF l
    <2> QED
      BY <1>0, <2>1, <2>2, <2>3, MoveDInv
  <1>3. CASE GatherResults(r)
    <2> PICK times \in [Services -> 0 .. 2] :
          Goto(r, [me EXCEPT !.at = "scan", !.email = Nil,
                     !.reports = [f \in Finding |-> IF f[1] = me.email THEN times[f[2]] ELSE @[f]]])
      BY <1>3 DEF GatherResults
    <2> DEFINE new == [f \in Finding |-> IF f[1] = me.email THEN times[f[2]] ELSE me.reports[f]]
               l == [me EXCEPT !.at = "scan", !.email = Nil, !.reports = new]
    <2>0. new \in [Finding -> 0 .. 2]
      BY <1>0 DEF Finding, Local
    <2>1. l \in Local
      <3> HIDE DEF new
      <3> QED
        BY <1>0, <2>0 DEF Local, Steps
    <2>2. LocalOK(l) /\ Works(me) /\ l.row = me.row
      <3> HIDE DEF new
      <3> QED
        BY <1>0, <1>3 DEF GatherResults, Local, LocalOK, Works
    <2>3. Goto(r, l) /\ UNCHANGED tables /\ hibp' = Nil /\ abandoned' = abandoned
      BY <1>3 DEF GatherResults
    <2> HIDE DEF l
    <2> QED
      BY <1>0, <2>1, <2>2, <2>3, MoveDInv
  <1>4. CASE ReadResults(r)
    <2> DEFINE l == [me EXCEPT !.at = "respond", !.results = discovered[me.row]]
    <2>0. me.row \in Scans /\ discovered[me.row] \subseteq Finding
      BY <1>0, <1>4 DEF ReadResults, LocalOK, DInv, TypeOK
    <2>1. l \in Local
      BY <1>0, <2>0 DEF Local, Steps
    <2>2. LocalOK(l) /\ ~Works(l)
      BY <1>0 DEF Local, LocalOK, Works
    <2>3. Goto(r, l) /\ UNCHANGED tables /\ hibp' = hibp /\ abandoned' = abandoned
      BY <1>4 DEF ReadResults
    <2> HIDE DEF l
    <2> QED
      BY <1>0, <2>1, <2>2, <2>3, MoveDInv
  <1>5. CASE Respond(r)
    BY <1>5, AbortDInv DEF Respond
  <1>6. CASE LockUser(r)
    <2> DEFINE l == [me EXCEPT !.at = "insertClosure"]
    <2>1. l \in Local
      BY <1>0 DEF Local, Steps
    <2>2. LocalOK(l) /\ ~Works(l)
      BY <1>0, <1>6 DEF LockUser, Local, LocalOK, Works
    <2>3. (Goto(r, l) \/ Finish(r)) /\ UNCHANGED tables /\ hibp' = hibp /\ abandoned' = abandoned
      BY <1>6 DEF LockUser
    <2> HIDE DEF l
    <2> QED
      BY <1>0, <2>1, <2>2, <2>3, MoveDInv, EndDInv
  <1>7. CASE DeleteChildren(r)
    <2> DEFINE l == [me EXCEPT !.at = "deleteUser", !.held = RowsOf(me.user)]
    <2>0. RowsOf(me.user) \subseteq Rows
      BY DEF RowsOf, ScansOf, AccountsOf, ClosuresOf, Rows
    <2>1. l \in Local
      BY <1>0, <2>0 DEF Local, Steps
    <2>2. LocalOK(l) /\ ~Works(l)
      BY <1>0, <1>7 DEF DeleteChildren, Local, LocalOK, Works
    <2>3. Goto(r, l) /\ UNCHANGED tables /\ hibp' = hibp /\ abandoned' = abandoned
      BY <1>7 DEF DeleteChildren
    <2> HIDE DEF l
    <2> QED
      BY <1>0, <2>1, <2>2, <2>3, MoveDInv
  <1>8. CASE DeleteUserRow(r)
    <2> DEFINE l == [me EXCEPT !.at = "cascade"]
    <2>1. l \in Local
      BY <1>0 DEF Local, Steps
    <2>2. LocalOK(l) /\ ~Works(l)
      BY <1>0, <1>8 DEF DeleteUserRow, Local, LocalOK, Works
    <2>3. (Goto(r, l) \/ Finish(r)) /\ UNCHANGED tables /\ hibp' = hibp /\ abandoned' = abandoned
      BY <1>8 DEF DeleteUserRow
    <2> HIDE DEF l
    <2> QED
      BY <1>0, <2>1, <2>2, <2>3, MoveDInv, EndDInv
  <1> QED
    BY <1>1, <1>2, <1>3, <1>4, <1>5, <1>6, <1>7, <1>8
-----------------------------------------------------------------------------
(* Steps that commit rows                                                  *)

LEMMA OpenSessionDInv == ASSUME DInv, NEW r \in Requests, OpenSession(r) PROVE DInv'
  <1> DEFINE me == req[r]
  <1>0. me \in Local /\ LocalOK(me) /\ me.at = "open"
    BY DEF DInv, TypeOK, OpenSession
  <1>1. CASE Abort(r)
    BY <1>1, AbortDInv
  <1>2. ASSUME me.user \in account, NEW s \in Scans \ issued,
               issued' = issued \cup {s},
               scan' = [scan EXCEPT ![s] = [owner |-> me.user, status |-> "running",
                                            emails |-> Cardinality(me.todo), found |-> 0]],
               Goto(r, [me EXCEPT !.at = "scan", !.row = s]),
               UNCHANGED <<account, discovered, closure, hibp, abandoned>>
        PROVE  DInv'
    <2> DEFINE l == [me EXCEPT !.at = "scan", !.row = s]
               row == [owner |-> me.user, status |-> "running",
                       emails |-> Cardinality(me.todo), found |-> 0]
    <2>1. scan[s] = Nil /\ discovered[s] = {}
      BY <1>2 DEF DInv, SessionsOK, RowsHaveOwners
    <2>2. row \in ScanRow
      <3>1. Cardinality(me.todo) \in Nat
        BY <1>0, FiniteAssumption, FS_Subset, FS_CardinalityType DEF Local
      <3> QED
        BY <1>0, <3>1 DEF ScanRow, LocalOK
    <2>3. row # Nil /\ row.owner \in account /\ row.status = "running"
      BY <1>2, <2>2, NilAssumption
    <2>4. scan' = [scan EXCEPT ![s] = row]
      BY <1>2
    <2>5. l \in Local /\ Works(l) /\ l.row = s /\ l.user \in Users
      BY <1>0 DEF Local, Steps, Works, Rows, LocalOK
    <2>6. \A q \in Requests : req'[q] = IF q = r THEN l ELSE req[q]
      BY <1>2 DEF DInv, TypeOK, Goto
    <2> HIDE DEF row
    <2>7. TypeOK'
      <3>1. scan' \in [Scans -> ScanRow \cup {Nil}]
        BY <2>2, <2>4 DEF DInv, TypeOK
      <3>2. req' \in [Requests -> Local]
        BY <1>2, <2>5 DEF DInv, TypeOK, Goto
      <3> QED
        BY <1>2, <3>1, <3>2 DEF DInv, TypeOK
    <2>8. \A o \in Scans : scan'[o] = IF o = s THEN row ELSE scan[o]
      BY <2>4 DEF DInv, TypeOK
    <2>9. RowsHaveOwners' /\ SessionsOK' /\ ClosuresIssued'
      BY <1>2, <2>1, <2>3, <2>8 DEF DInv, RowsHaveOwners, SessionsOK, ClosuresIssued
    <2>10. ClosureHasTarget'
      <3>1. ASSUME NEW c \in Closures, closure[c] # Nil
            PROVE  /\ closure[c].target # Nil
                   /\ Discovered(closure[c].target)'
                   /\ OwnerOf(closure[c].target)' = closure[c].owner
        <4> DEFINE a == closure[c].target
        <4>1. a # Nil /\ Discovered(a) /\ OwnerOf(a) = closure[c].owner
          BY <3>1 DEF DInv, ClosureHasTarget
        <4>2. a \in Account
          BY <3>1, <4>1 DEF DInv, TypeOK, ClosureRow
        <4>3. a[1] \in Scans /\ a[1] # s
          BY <2>1, <4>1, <4>2 DEF Account, Discovered
        <4>4. scan'[a[1]] = scan[a[1]] /\ discovered' = discovered
          BY <1>2, <2>8, <4>3
        <4> QED
          BY <1>2, <4>1, <4>4 DEF Discovered, OwnerOf
      <3> QED
        BY <1>2, <3>1 DEF ClosureHasTarget
    <2>11. \A q \in Requests : Works(req[q]) => req[q].row # s
      BY <1>2 DEF DInv, LocalOK
    <2>12. OneWorker'
      <3>1. \A q \in Requests : Works(req[q])' => (q = r \/ (Works(req[q]) /\ req'[q].row = req[q].row))
        BY <2>6 DEF Works
      <3>2. req'[r].row = s
        BY <2>5, <2>6
      <3> QED
        BY <2>6, <2>11, <3>1, <3>2 DEF DInv, OneWorker, Works
    <2>13. ASSUME NEW q \in Requests PROVE LocalOK(req[q])'
      <3>1. CASE q = r
        BY <1>2, <2>3, <2>5, <2>6, <2>8, <3>1, <1>0 DEF LocalOK, Works, Local
      <3>2. CASE q # r
        <4>1. req'[q] = req[q] /\ LocalOK(req[q])
          BY <2>6, <3>2 DEF DInv
        <4> QED
          BY <1>2, <2>8, <4>1 DEF LocalOK, Works, Account
      <3> QED
        BY <3>1, <3>2
    <2> QED
      BY <2>7, <2>9, <2>10, <2>12, <2>13 DEF DInv
  <1> QED
    BY <1>1, <1>2 DEF OpenSession

\* What the commits that end a request have in common.
LEMMA CommitDInv ==
  ASSUME DInv, NEW r \in Requests, Finish(r), TypeOK', RowsHaveOwners', SessionsOK',
         ClosuresIssued', ClosureHasTarget', issued \subseteq issued',
         \A q \in Requests \ {r} : Works(req[q]) =>
           scan'[req[q].row] \in {Nil, scan[req[q].row]},
         \A s \in Scans : scan'[s] # Nil => scan[s] # Nil /\ scan'[s].owner = scan[s].owner
  PROVE  DInv'
  <1>1. \A q \in Requests : req'[q] = IF q = r THEN Idle ELSE req[q]
    BY DEF DInv, TypeOK, Finish
  <1>2. OneWorker'
    BY <1>1, IdleOK DEF DInv, OneWorker, Works
  <1>3. ASSUME NEW q \in Requests PROVE LocalOK(req[q])'
    <2>1. CASE q = r
      BY <1>1, <2>1 DEF LocalOK, Works, Idle
    <2>2. CASE q # r
      <3>1. req'[q] = req[q] /\ LocalOK(req[q])
        BY <1>1, <2>2 DEF DInv
      <3> QED
        BY <2>2, <3>1 DEF LocalOK, Works, Account
    <2> QED
      BY <2>1, <2>2
  <1> QED
    BY <1>2, <1>3 DEF DInv

LEMMA SaveResultsDInv == ASSUME DInv, NEW r \in Requests, SaveResults(r) PROVE DInv'
  <1> DEFINE me == req[r]
             s == me.row
  <1>0. /\ me \in Local /\ LocalOK(me) /\ Works(me)
        /\ s \in Scans /\ s \in issued
    BY DEF DInv, TypeOK, SaveResults, Works, LocalOK
  <1>1. CASE Abort(r)
    BY <1>1, AbortDInv
  <1>2. CASE /\ scan[s] # Nil
             /\ discovered' = [discovered EXCEPT ![s] = Distinct(me.reports)]
             /\ scan' = [scan EXCEPT ![s].status = "completed", ![s].found = Found(me.reports)]
             /\ Finish(r)
             /\ UNCHANGED <<account, closure, hibp, issued, abandoned>>
    <2> DEFINE D == Distinct(me.reports)
               row == [scan[s] EXCEPT !.status = "completed", !.found = Found(me.reports)]
    <2>1. scan[s] \in ScanRow /\ scan[s].status = "running" /\ discovered[s] = {}
      BY <1>0, <1>2 DEF DInv, TypeOK, LocalOK, SessionsOK
    <2>2. D \subseteq Finding /\ Found(me.reports) \in Nat
      BY DistinctOK
    <2>3. row \in ScanRow /\ row.owner = scan[s].owner /\ row.status = "completed"
      BY <2>1, <2>2 DEF ScanRow
    <2>4. scan' = [scan EXCEPT ![s] = row]
      BY <1>0, <1>2 DEF DInv, TypeOK
    <2>5. row # Nil
      BY <2>3, NilAssumption
    <2> HIDE DEF row, D
    <2>6. \A o \in Scans : /\ scan'[o] = IF o = s THEN row ELSE scan[o]
                           /\ discovered'[o] = IF o = s THEN D ELSE discovered[o]
      BY <1>2, <2>4 DEF DInv, TypeOK, D
    <2>7. TypeOK'
      <3>1. scan' \in [Scans -> ScanRow \cup {Nil}] /\ discovered' \in [Scans -> SUBSET Finding]
        BY <1>2, <2>2, <2>3, <2>4 DEF DInv, TypeOK, D
      <3>2. req' \in [Requests -> Local]
        BY <1>2, IdleOK DEF DInv, TypeOK, Finish
      <3> QED
        BY <1>2, <3>1, <3>2 DEF DInv, TypeOK
    <2>8. RowsHaveOwners' /\ SessionsOK' /\ ClosuresIssued'
      <3>1. account' = account /\ closure' = closure /\ issued' = issued /\ scan[s] # Nil
        BY <1>2
      <3>2. RowsHaveOwners'
        BY <2>3, <2>5, <2>6, <3>1 DEF DInv, RowsHaveOwners
      <3>3. SessionsOK'
        BY <2>3, <2>6, <3>1 DEF DInv, SessionsOK
      <3>4. ClosuresIssued'
        BY <3>1 DEF DInv, ClosuresIssued
      <3> QED
        BY <3>2, <3>3, <3>4
    <2>9. ClosureHasTarget'
      <3>1. ASSUME NEW c \in Closures, closure[c] # Nil
            PROVE  /\ closure[c].target # Nil
                   /\ Discovered(closure[c].target)'
                   /\ OwnerOf(closure[c].target)' = closure[c].owner
        <4> DEFINE a == closure[c].target
        <4>1. a # Nil /\ Discovered(a) /\ OwnerOf(a) = closure[c].owner
          BY <3>1 DEF DInv, ClosureHasTarget
        <4>2. a \in Account
          BY <3>1, <4>1 DEF DInv, TypeOK, ClosureRow
        <4>3. a[1] \in Scans /\ a[1] # s
          BY <2>1, <4>1, <4>2 DEF Account, Discovered
        <4>4. scan'[a[1]] = scan[a[1]] /\ discovered'[a[1]] = discovered[a[1]]
          BY <2>6, <4>3
        <4> QED
          BY <1>2, <4>1, <4>4 DEF Discovered, OwnerOf
      <3> QED
        BY <1>2, <3>1 DEF ClosureHasTarget
    <2>10. \A q \in Requests \ {r} : Works(req[q]) => req[q].row \in Scans /\ req[q].row # s
      BY <1>0 DEF DInv, OneWorker, LocalOK
    <2>11. \A q \in Requests \ {r} : Works(req[q]) => scan'[req[q].row] \in {Nil, scan[req[q].row]}
      BY <2>6, <2>10
    <2>12. \A o \in Scans : scan'[o] # Nil => scan[o] # Nil /\ scan'[o].owner = scan[o].owner
      BY <1>2, <2>3, <2>6
    <2> QED
      BY <1>2, <2>7, <2>8, <2>9, <2>11, <2>12, CommitDInv
  <1> QED
    BY <1>1, <1>2 DEF SaveResults
LEMMA InsertClosureDInv == ASSUME DInv, NEW r \in Requests, InsertClosure(r) PROVE DInv'
  <1> DEFINE me == req[r]
             a == me.row
  <1>0. /\ me \in Local /\ LocalOK(me) /\ me.user \in Users /\ a \in Account
        /\ scan[a[1]] # Nil => scan[a[1]].owner = me.user
    BY DEF DInv, TypeOK, InsertClosure, LocalOK
  <1>1. CASE Abort(r)
    BY <1>1, AbortDInv
  <1>2. ASSUME Discovered(a), NEW c \in Closures \ issued, issued' = issued \cup {c},
               closure' = [closure EXCEPT ![c] = [owner |-> me.user, target |-> a, status |-> "pending"]],
               Finish(r), UNCHANGED <<account, scan, discovered, hibp, abandoned>>
        PROVE  DInv'
    <2> DEFINE row == [owner |-> me.user, target |-> a, status |-> "pending"]
    <2>1. row \in ClosureRow /\ row.owner = me.user /\ row.target = a
      BY <1>0 DEF ClosureRow
    <2>2. a # Nil /\ a[1] \in Scans /\ scan[a[1]] # Nil
      <3>1. a # Nil /\ a[1] \in Scans
        BY <1>0, NilAssumption DEF Account, Rows
      <3> QED
        BY <1>2, <3>1 DEF Discovered, DInv, RowsHaveOwners
    <2>3. OwnerOf(a) = me.user /\ me.user \in account
      BY <1>0, <2>2 DEF OwnerOf, DInv, RowsHaveOwners
    <2>4. closure' = [closure EXCEPT ![c] = row]
      BY <1>2
    <2> HIDE DEF row
    <2>5. \A o \in Closures : closure'[o] = IF o = c THEN row ELSE closure[o]
      BY <2>4 DEF DInv, TypeOK
    <2>6. TypeOK'
      <3>1. closure' \in [Closures -> ClosureRow \cup {Nil}]
        BY <2>1, <2>4 DEF DInv, TypeOK
      <3>2. req' \in [Requests -> Local]
        BY <1>2, IdleOK DEF DInv, TypeOK, Finish
      <3> QED
        BY <1>2, <3>1, <3>2 DEF DInv, TypeOK
    <2>7. RowsHaveOwners' /\ SessionsOK'
      BY <1>2, <2>1, <2>3, <2>5 DEF DInv, RowsHaveOwners, SessionsOK
    <2>8. ClosuresIssued'
      BY <1>2, <2>5 DEF DInv, ClosuresIssued
    <2>9. ClosureHasTarget'
      <3>1. UNCHANGED <<scan, discovered>>
        BY <1>2
      <3>2. ASSUME NEW o \in Closures, closure'[o] # Nil
            PROVE  /\ closure'[o].target # Nil
                   /\ Discovered(closure'[o].target)
                   /\ OwnerOf(closure'[o].target) = closure'[o].owner
        BY <1>2, <2>1, <2>2, <2>3, <2>5, <3>2 DEF DInv, ClosureHasTarget
      <3> QED
        BY <3>1, <3>2 DEF ClosureHasTarget, Discovered, OwnerOf
    <2>10. /\ issued \subseteq issued'
           /\ \A q \in Requests \ {r} : Works(req[q]) => scan'[req[q].row] \in {Nil, scan[req[q].row]}
           /\ \A s \in Scans : scan'[s] # Nil => scan[s] # Nil /\ scan'[s].owner = scan[s].owner
      BY <1>2
    <2> QED
      BY <1>2, <2>6, <2>7, <2>8, <2>9, <2>10, CommitDInv
  <1> QED
    BY <1>1, <1>2 DEF InsertClosure

LEMMA CompletionDInv == ASSUME DInv, NEW r \in Requests, CommitCompletion(r) PROVE DInv'
  <1> DEFINE c == req[r].row
  <1>0. c \in Closures
    BY DEF DInv, LocalOK, CommitCompletion
  <1>1. CASE Abort(r)
    BY <1>1, AbortDInv
  <1>2. CASE /\ closure[c] # Nil
             /\ closure' = [closure EXCEPT ![c].status = "completed"]
             /\ Finish(r)
             /\ UNCHANGED <<account, scan, discovered, hibp, issued, abandoned>>
    <2> DEFINE row == [closure[c] EXCEPT !.status = "completed"]
    <2>1. row \in ClosureRow /\ row.owner = closure[c].owner /\ row.target = closure[c].target
      <3>1. closure[c] \in ClosureRow
        BY <1>0, <1>2 DEF DInv, TypeOK
      <3> QED
        BY <3>1 DEF ClosureRow
    <2>2. closure' = [closure EXCEPT ![c] = row]
      BY <1>0, <1>2 DEF DInv, TypeOK
    <2> HIDE DEF row
    <2>3. \A o \in Closures : closure'[o] = IF o = c THEN row ELSE closure[o]
      BY <2>2 DEF DInv, TypeOK
    <2>4. TypeOK'
      <3>1. closure' \in [Closures -> ClosureRow \cup {Nil}]
        BY <2>1, <2>2 DEF DInv, TypeOK
      <3>2. req' \in [Requests -> Local]
        BY <1>2, IdleOK DEF DInv, TypeOK, Finish
      <3> QED
        BY <1>2, <3>1, <3>2 DEF DInv, TypeOK
    <2>5. RowsHaveOwners' /\ SessionsOK' /\ ClosuresIssued'
      BY <1>2, <2>1, <2>3 DEF DInv, RowsHaveOwners, SessionsOK, ClosuresIssued
    <2>6. ClosureHasTarget'
      <3>1. UNCHANGED <<scan, discovered>>
        BY <1>2
      <3>2. ASSUME NEW o \in Closures, closure'[o] # Nil
            PROVE  /\ closure'[o].target # Nil
                   /\ Discovered(closure'[o].target)
                   /\ OwnerOf(closure'[o].target) = closure'[o].owner
        BY <1>2, <2>1, <2>3, <3>2 DEF DInv, ClosureHasTarget
      <3> QED
        BY <3>1, <3>2 DEF ClosureHasTarget, Discovered, OwnerOf
    <2>7. /\ issued \subseteq issued'
          /\ \A q \in Requests \ {r} : Works(req[q]) => scan'[req[q].row] \in {Nil, scan[req[q].row]}
          /\ \A s \in Scans : scan'[s] # Nil => scan[s] # Nil /\ scan'[s].owner = scan[s].owner
      BY <1>2
    <2> QED
      BY <1>2, <2>4, <2>5, <2>6, <2>7, CommitDInv
  <1> QED
    BY <1>1, <1>2 DEF CommitCompletion

\* What a deletion leaves: because a closure is about an account of its own
\* user, none that stays loses its target.
LEMMA DeletionLeaves ==
  ASSUME DInv, NEW r \in Requests, CommitDeletion(r)
  PROVE  /\ \A s \in Scans :
              /\ scan'[s] = IF scan[s] # Nil /\ scan[s].owner = req[r].user THEN Nil ELSE scan[s]
              /\ discovered'[s] = IF scan[s] # Nil /\ scan[s].owner = req[r].user THEN {} ELSE discovered[s]
         /\ \A c \in Closures :
              closure'[c] = IF closure[c] # Nil /\ closure[c].owner = req[r].user THEN Nil ELSE closure[c]
  <1> DEFINE u == req[r].user
             gone == RowsOf(u)
  <1>1. \A s \in Scans : s \in gone <=> (scan[s] # Nil /\ scan[s].owner = u)
    BY RowsAssumption DEF RowsOf, ScansOf, AccountsOf, ClosuresOf
  <1>2. \A c \in Closures : c \in gone <=> (closure[c] # Nil /\ closure[c].owner = u)
    BY RowsAssumption DEF RowsOf, ScansOf, AccountsOf, ClosuresOf
  <1>3. ASSUME NEW c \in Closures, closure[c] # Nil, closure[c].owner # u PROVE closure[c].target \notin gone
    <2> DEFINE a == closure[c].target
    <2>1. a \in Account /\ OwnerOf(a) # u
      BY <1>3 DEF DInv, ClosureHasTarget, TypeOK, ClosureRow
    <2>2. a \notin AccountsOf(u)
      BY <2>1 DEF AccountsOf, ScansOf, OwnerOf
    <2> QED
      BY <2>1, <2>2, RowsAssumption DEF RowsOf, ScansOf, ClosuresOf
  <1>4. /\ scan' = [s \in Scans |-> IF s \in gone THEN Nil ELSE scan[s]]
        /\ discovered' = [s \in Scans |-> IF s \in gone THEN {} ELSE discovered[s]]
        /\ closure' = [c \in Closures |->
                        IF c \in gone THEN Nil
                        ELSE IF closure[c] # Nil /\ closure[c].target \in gone
                        THEN [closure[c] EXCEPT !.target = Nil]
                        ELSE closure[c]]
    BY DEF CommitDeletion
  <1> HIDE DEF gone
  <1> QED
    BY <1>1, <1>2, <1>3, <1>4

LEMMA DeletionDInv == ASSUME DInv, NEW r \in Requests, CommitDeletion(r) PROVE DInv'
  <1> DEFINE u == req[r].user
             Mine(s) == scan[s] # Nil /\ scan[s].owner = u
             MineToo(c) == closure[c] # Nil /\ closure[c].owner = u
  <1>1. /\ \A s \in Scans : /\ scan'[s] = IF Mine(s) THEN Nil ELSE scan[s]
                            /\ discovered'[s] = IF Mine(s) THEN {} ELSE discovered[s]
        /\ \A c \in Closures : closure'[c] = IF MineToo(c) THEN Nil ELSE closure[c]
    BY DeletionLeaves
  <1>2. Finish(r) /\ account' = account \ {u} /\ UNCHANGED <<hibp, issued, abandoned>>
    BY DEF CommitDeletion
  <1>3. TypeOK'
    <2>1. \E S, D, C : /\ scan' = [s \in Scans |-> S[s]]
                       /\ discovered' = [s \in Scans |-> D[s]]
                       /\ closure' = [c \in Closures |-> C[c]]
      <3>1. /\ scan' = [s \in Scans |-> scan'[s]]
            /\ discovered' = [s \in Scans |-> discovered'[s]]
            /\ closure' = [c \in Closures |-> closure'[c]]
        BY DEF CommitDeletion
      <3> QED
        BY <3>1
    <2>2. scan' \in [Scans -> ScanRow \cup {Nil}] /\ discovered' \in [Scans -> SUBSET Finding]
      BY <1>1, <2>1 DEF DInv, TypeOK
    <2>3. closure' \in [Closures -> ClosureRow \cup {Nil}]
      BY <1>1, <2>1 DEF DInv, TypeOK
    <2>4. req' \in [Requests -> Local]
      BY <1>2, IdleOK DEF DInv, TypeOK, Finish
    <2> QED
      BY <1>2, <2>2, <2>3, <2>4 DEF DInv, TypeOK
  <1>4. RowsHaveOwners' /\ SessionsOK' /\ ClosuresIssued'
    BY <1>1, <1>2 DEF DInv, RowsHaveOwners, SessionsOK, ClosuresIssued
  <1>5. ClosureHasTarget'
    <2>1. ASSUME NEW c \in Closures, closure'[c] # Nil
          PROVE  /\ closure'[c].target # Nil
                 /\ closure'[c].target[2] \in discovered'[closure'[c].target[1]]
                 /\ scan'[closure'[c].target[1]] # Nil
                 /\ scan'[closure'[c].target[1]].owner = closure'[c].owner
      <3> DEFINE a == closure[c].target
      <3>1. closure'[c] = closure[c] /\ closure[c] # Nil /\ closure[c].owner # u
        BY <1>1, <2>1
      <3>2. a # Nil /\ Discovered(a) /\ OwnerOf(a) = closure[c].owner
        BY <3>1 DEF DInv, ClosureHasTarget
      <3>3. a \in Account /\ a[1] \in Scans
        BY <3>1, <3>2 DEF DInv, TypeOK, ClosureRow, Account
      <3>4. scan[a[1]] # Nil
        BY <3>2, <3>3 DEF Discovered, DInv, RowsHaveOwners
      <3>5. scan[a[1]].owner = closure[c].owner /\ ~Mine(a[1])
        BY <3>1, <3>2, <3>4 DEF OwnerOf
      <3>6. scan'[a[1]] = scan[a[1]] /\ discovered'[a[1]] = discovered[a[1]]
        BY <1>1, <3>3, <3>5
      <3> QED
        BY <3>1, <3>2, <3>4, <3>5, <3>6 DEF Discovered
    <2> QED
      BY <2>1 DEF ClosureHasTarget, Discovered, OwnerOf
  <1>6. \A q \in Requests \ {r} : Works(req[q]) => scan'[req[q].row] \in {Nil, scan[req[q].row]}
    BY <1>1 DEF DInv, LocalOK
  <1>7. \A s \in Scans : scan'[s] # Nil => scan[s] # Nil /\ scan'[s].owner = scan[s].owner
    BY <1>1
  <1> QED
    BY <1>2, <1>3, <1>4, <1>5, <1>6, <1>7, CommitDInv

LEMMA StepDInv == DInv /\ [Next]_vars => DInv'
  <1> SUFFICES ASSUME DInv, [Next]_vars PROVE DInv'
    OBVIOUS
  <1>1. CASE UNCHANGED vars
    <2>1. UNCHANGED <<account, scan, discovered, closure, hibp, req, issued, abandoned>>
      BY <1>1 DEF vars
    <2> QED
      BY <2>1 DEF DInv, TypeOK, RowsHaveOwners, SessionsOK, ClosuresIssued, ClosureHasTarget,
                  Discovered, OwnerOf, OneWorker, LocalOK, Works
  <1>2. ASSUME NEW r \in Requests, Proceed(r) PROVE DInv'
    BY <1>2, MovesDInv, OpenSessionDInv, SaveResultsDInv, InsertClosureDInv, CompletionDInv, DeletionDInv
       DEF Proceed
  <1>3. ASSUME NEW r \in Requests, Arrive(r) \/ BreakDeadlock(r) \/ RollBack(r) PROVE DInv'
    BY <1>3, ArriveDInv, AbortDInv, RollBackDInv DEF BreakDeadlock
  <1> QED
    BY <1>1, <1>2, <1>3 DEF Next

LEMMA Invariance == Spec => []DInv
  BY InitDInv, StepDInv, PTL DEF Spec

\* Every reachable state of Discovery is well typed.
THEOREM TypeCorrect == Spec => []TypeOK
  <1>1. DInv => TypeOK
    BY DEF DInv
  <1> QED
    BY <1>1, Invariance, PTL

\* No session, finding or closure outlives the account it belongs to
\* (start_scan and request_closure against delete_account).
THEOREM RowsOwned == Spec => []RowsHaveOwners
  <1>1. DInv => RowsHaveOwners
    BY DEF DInv
  <1> QED
    BY <1>1, Invariance, PTL

\* A closure never loses the account it is about: the SET NULL of its foreign
\* key is never seen (request_closure against delete_account).
THEOREM ClosuresKeepTarget == Spec => []ClosureHasTarget
  <1>1. DInv => ClosureHasTarget
    BY DEF DInv
  <1> QED
    BY <1>1, Invariance, PTL

-----------------------------------------------------------------------------
(* Discovery implements ScanJobs                                           *)

JobOf(s) ==
  IF scan[s] = Nil THEN Nil
  ELSE [owner |-> scan[s].owner, done |-> scan[s].status = "completed", results |-> discovered[s]]
RequestOf(c) ==
  IF closure[c] = Nil THEN Nil
  ELSE [owner |-> closure[c].owner, job |-> closure[c].target[1],
        finding |-> closure[c].target[2], done |-> closure[c].status = "completed"]
Job == [s \in Scans |-> JobOf(s)]
Request == [c \in Closures |-> RequestOf(c)]

LEMMA StutterJobs ==
  ASSUME UNCHANGED <<scan, discovered, closure, issued>> PROVE UNCHANGED Jobs!vars
  BY DEF Jobs!vars

LEMMA StartJobs == ASSUME DInv, NEW r \in Requests, OpenSession(r) PROVE [Jobs!Next]_Jobs!vars
  <1> DEFINE me == req[r]
  <1>0. me.user \in Users
    BY DEF DInv, LocalOK, OpenSession
  <1>1. CASE Abort(r)
    BY <1>1, StutterJobs DEF Abort, tables
  <1>2. ASSUME NEW s \in Scans \ issued, issued' = issued \cup {s},
               scan' = [scan EXCEPT ![s] = [owner |-> me.user, status |-> "running",
                                            emails |-> Cardinality(me.todo), found |-> 0]],
               UNCHANGED <<discovered, closure>>
        PROVE  Jobs!Next
    <2> DEFINE row == [owner |-> me.user, status |-> "running",
                       emails |-> Cardinality(me.todo), found |-> 0]
               j == [owner |-> me.user, done |-> FALSE, results |-> {}]
    <2>1. discovered[s] = {}
      BY <1>2 DEF DInv, SessionsOK, RowsHaveOwners
    <2>2. \A o \in Scans : scan'[o] = IF o = s THEN row ELSE scan[o]
      BY <1>2 DEF DInv, TypeOK
    <2>3. row # Nil
      <3>1. Cardinality(me.todo) \in Nat
        <4>1. me.todo \subseteq Emails
          BY DEF DInv, TypeOK, Local
        <4> QED
          BY <4>1, FiniteAssumption, FS_Subset, FS_CardinalityType
      <3>2. row \in ScanRow
        BY <1>0, <3>1 DEF ScanRow
      <3> QED
        BY <3>2, NilAssumption
    <2>4. row.owner = me.user /\ row.status = "running"
      OBVIOUS
    <2> HIDE DEF row
    <2>5. Job' = [Job EXCEPT ![s] = j]
      BY <1>2, <2>1, <2>2, <2>3, <2>4 DEF Job, JobOf
    <2>6. Request' = Request
      BY <1>2 DEF Request, RequestOf
    <2>7. Jobs!Start(me.user, s)
      BY <1>2, <2>5, <2>6 DEF Jobs!Start, Job, JobOf, Request, RequestOf
    <2> QED
      BY <1>0, <2>7 DEF Jobs!Next
  <1> QED
    BY <1>1, <1>2 DEF OpenSession

LEMMA ReportJobs == ASSUME DInv, NEW r \in Requests, SaveResults(r) PROVE [Jobs!Next]_Jobs!vars
  <1> DEFINE me == req[r]
             s == me.row
             D == Distinct(me.reports)
  <1>0. s \in Scans /\ (scan[s] # Nil => scan[s].status = "running")
    BY DEF DInv, SaveResults, Works, LocalOK
  <1>1. CASE Abort(r)
    BY <1>1, StutterJobs DEF Abort, tables
  <1>2. CASE /\ scan[s] # Nil
             /\ discovered' = [discovered EXCEPT ![s] = D]
             /\ scan' = [scan EXCEPT ![s].status = "completed", ![s].found = Found(me.reports)]
             /\ UNCHANGED <<closure, issued>>
    <2> DEFINE row == [scan[s] EXCEPT !.status = "completed", !.found = Found(me.reports)]
    <2>1. scan[s] \in ScanRow /\ scan[s].status = "running" /\ D \subseteq Finding
      BY <1>0, <1>2, DistinctOK DEF DInv, TypeOK
    <2>2. row.owner = scan[s].owner /\ row.status = "completed" /\ row # Nil
      <3>1. row \in ScanRow
        BY <2>1, DistinctOK DEF ScanRow
      <3>2. row.owner = scan[s].owner /\ row.status = "completed"
        BY <2>1 DEF ScanRow
      <3> HIDE DEF row
      <3> QED
        BY <3>1, <3>2, NilAssumption
    <2>3. \A o \in Scans : /\ scan'[o] = IF o = s THEN row ELSE scan[o]
                           /\ discovered'[o] = IF o = s THEN D ELSE discovered[o]
      BY <1>0, <1>2 DEF DInv, TypeOK
    <2>4. JobOf(s) = [owner |-> scan[s].owner, done |-> FALSE, results |-> discovered[s]]
      BY <1>2, <2>1 DEF JobOf
    <2> HIDE DEF row, D
    <2>5. Job' = [Job EXCEPT ![s] = [owner |-> @.owner, done |-> TRUE, results |-> D]]
      <3>1. Job'[s] = [owner |-> scan[s].owner, done |-> TRUE, results |-> D]
        BY <1>0, <2>2, <2>3 DEF Job, JobOf
      <3>2. Job[s].owner = scan[s].owner
        BY <1>0, <2>4 DEF Job
      <3>3. \A o \in Scans : o # s => Job'[o] = Job[o]
        BY <2>3 DEF Job, JobOf
      <3> QED
        BY <1>0, <3>1, <3>2, <3>3 DEF Job
    <2>6. Request' = Request
      BY <1>2 DEF Request, RequestOf
    <2>7. Job[s] # Nil /\ ~Job[s].done
      <3> DEFINE j == [owner |-> scan[s].owner, done |-> FALSE, results |-> discovered[s]]
      <3>1. j \in [owner : Users, done : BOOLEAN, results : SUBSET Finding]
        BY <1>0, <2>1 DEF ScanRow, DInv, TypeOK
      <3>2. j # Nil /\ j.done = FALSE
        BY <3>1, NilAssumption
      <3>3. Job[s] = j
        BY <1>0, <2>4 DEF Job
      <3> HIDE DEF j
      <3> QED
        BY <3>2, <3>3
    <2>8. PICK R : R = D
      OBVIOUS
    <2>9. R \in SUBSET Jobs!Finding
      BY <2>1, <2>8 DEF Jobs!Finding, Finding
    <2>10. Jobs!Report(s, R)
      BY <1>2, <2>5, <2>6, <2>7, <2>8 DEF Jobs!Report, Job, JobOf, Request, RequestOf
    <2> HIDE DEF s
    <2> QED
      BY <1>0, <2>9, <2>10 DEF Jobs!Next
  <1> QED
    BY <1>1, <1>2 DEF SaveResults

LEMMA JobOK ==
  ASSUME DInv, NEW s \in Scans, scan[s] # Nil
  PROVE  /\ Job[s] # Nil
         /\ Job[s].owner = scan[s].owner
         /\ Job[s].done = (scan[s].status = "completed")
         /\ Job[s].results = discovered[s]
  <1> DEFINE j == [owner |-> scan[s].owner, done |-> scan[s].status = "completed", results |-> discovered[s]]
  <1>1. j \in [owner : Users, done : BOOLEAN, results : SUBSET Finding]
    BY DEF ScanRow, DInv, TypeOK
  <1>2. j # Nil
    BY <1>1, NilAssumption
  <1>3. Job[s] = j
    BY DEF Job, JobOf
  <1> QED
    BY <1>2, <1>3

LEMMA RequestOK ==
  ASSUME DInv, NEW c \in Closures, closure[c] # Nil
  PROVE  /\ Request[c] # Nil
         /\ Request[c].owner = closure[c].owner
         /\ Request[c].job = closure[c].target[1]
         /\ Request[c].finding = closure[c].target[2]
         /\ Request[c].done = (closure[c].status = "completed")
  <1> DEFINE q == [owner |-> closure[c].owner, job |-> closure[c].target[1],
                   finding |-> closure[c].target[2], done |-> closure[c].status = "completed"]
  <1>1. closure[c].target \in Account /\ closure[c].owner \in Users
    BY DEF DInv, ClosureHasTarget, TypeOK, ClosureRow
  <1>2. q \in [owner : Users, job : Scans, finding : Finding, done : BOOLEAN]
    BY <1>1 DEF Account
  <1>3. q # Nil
    BY <1>2, NilAssumption
  <1>4. Request[c] = q
    BY DEF Request, RequestOf
  <1> QED
    BY <1>3, <1>4

LEMMA ClosingJobs == ASSUME DInv, NEW r \in Requests, InsertClosure(r) PROVE [Jobs!Next]_Jobs!vars
  <1> DEFINE me == req[r]
             a == me.row
  <1>0. a \in Account /\ a[1] \in Scans /\ a[2] \in Finding
        /\ (scan[a[1]] # Nil => scan[a[1]].owner = me.user)
    BY DEF DInv, InsertClosure, LocalOK, Account
  <1>1. CASE Abort(r)
    BY <1>1, StutterJobs DEF Abort, tables
  <1>2. ASSUME Discovered(a), NEW c \in Closures \ issued, issued' = issued \cup {c},
               closure' = [closure EXCEPT ![c] = [owner |-> me.user, target |-> a, status |-> "pending"]],
               UNCHANGED <<scan, discovered>>
        PROVE  [Jobs!Next]_Jobs!vars
    <2> DEFINE row == [owner |-> me.user, target |-> a, status |-> "pending"]
    <2>1. PICK s, f : s = a[1] /\ f = a[2]
      OBVIOUS
    <2>2. s \in Scans /\ f \in Finding /\ scan[s] # Nil /\ scan[s].owner = me.user /\ scan[s].status = "completed"
          /\ f \in discovered[s]
      BY <1>0, <1>2, <2>1 DEF Discovered, DInv, RowsHaveOwners, SessionsOK, TypeOK, ScanRow
    <2>3. Job[s] # Nil /\ Job[s].done /\ f \in Job[s].results /\ Job[s].owner = me.user
      BY <2>2, JobOK
    <2>4. row # Nil /\ row.owner = me.user /\ row.target[1] = s /\ row.target[2] = f /\ row.status = "pending"
      <3>1. row \in ClosureRow
        BY <1>0, <2>2 DEF ClosureRow, DInv, TypeOK, ScanRow
      <3> QED
        BY <2>1, <3>1, NilAssumption
    <2>5. closure' = [closure EXCEPT ![c] = row]
      BY <1>2
    <2> HIDE DEF row, me
    <2>6. \A o \in Closures : closure'[o] = IF o = c THEN row ELSE closure[o]
      BY <2>5 DEF DInv, TypeOK
    <2>7. Request' = [Request EXCEPT ![c] = [owner |-> Job[s].owner, job |-> s, finding |-> f, done |-> FALSE]]
      <3>1. PICK u : u = Job[s].owner
        OBVIOUS
      <3>2. Request'[c] = [owner |-> u, job |-> s, finding |-> f, done |-> FALSE]
        BY <1>2, <2>3, <2>4, <2>6, <3>1 DEF Request, RequestOf
      <3>3. \A o \in Closures : o # c => Request'[o] = Request[o]
        BY <2>6 DEF Request, RequestOf
      <3> QED
        BY <1>2, <3>1, <3>2, <3>3 DEF Request
    <2>8. Job' = Job
      BY <1>2 DEF Job, JobOf
    <2>9. Jobs!RequestClosing(c, s, f)
      BY <1>2, <2>3, <2>7, <2>8 DEF Jobs!RequestClosing, Job, JobOf, Request, RequestOf
    <2>10. f \in Jobs!Finding
      BY <2>2 DEF Jobs!Finding, Finding
    <2> QED
      BY <2>2, <2>9, <2>10 DEF Jobs!Next
  <1> QED
    BY <1>1, <1>2 DEF InsertClosure

LEMMA CompletionJobs == ASSUME DInv, NEW r \in Requests, CommitCompletion(r) PROVE [Jobs!Next]_Jobs!vars
  <1>1. CASE Abort(r)
    BY <1>1, StutterJobs DEF Abort, tables
  <1>2. CASE /\ closure[req[r].row] # Nil
             /\ closure' = [closure EXCEPT ![req[r].row].status = "completed"]
             /\ UNCHANGED <<scan, discovered, issued>>
    <2>1. PICK c \in Closures : c = req[r].row
      BY DEF DInv, CommitCompletion, LocalOK
    <2>2. closure[c] \in ClosureRow
      BY <1>2, <2>1 DEF DInv, TypeOK
    <2> DEFINE row == [closure[c] EXCEPT !.status = "completed"]
    <2>3. row # Nil /\ row.owner = closure[c].owner /\ row.target = closure[c].target /\ row.status = "completed"
      <3>1. row \in ClosureRow
        BY <2>2 DEF ClosureRow
      <3>2. row.owner = closure[c].owner /\ row.target = closure[c].target /\ row.status = "completed"
        BY <2>2 DEF ClosureRow
      <3> HIDE DEF row
      <3> QED
        BY <3>1, <3>2, NilAssumption
    <2>4. \A o \in Closures : closure'[o] = IF o = c THEN row ELSE closure[o]
      BY <1>2, <2>1 DEF DInv, TypeOK
    <2> HIDE DEF row
    <2>5. /\ Request[c] # Nil
          /\ Request[c].owner = closure[c].owner
          /\ Request[c].job = closure[c].target[1]
          /\ Request[c].finding = closure[c].target[2]
      BY <1>2, <2>1, RequestOK
    <2>6. Request' = [Request EXCEPT ![c] = [owner |-> @.owner, job |-> @.job, finding |-> @.finding, done |-> TRUE]]
      <3>1. Request'[c] = [owner |-> closure[c].owner, job |-> closure[c].target[1],
                           finding |-> closure[c].target[2], done |-> TRUE]
        BY <2>3, <2>4 DEF Request, RequestOf
      <3>2. \A o \in Closures : o # c => Request'[o] = Request[o]
        BY <2>4 DEF Request, RequestOf
      <3> QED
        BY <2>5, <3>1, <3>2 DEF Request
    <2>7. Job' = Job
      BY <1>2 DEF Job, JobOf
    <2>8. Jobs!CompleteClosing(c)
      BY <1>2, <2>5, <2>6, <2>7 DEF Jobs!CompleteClosing, Job, JobOf, Request, RequestOf
    <2> QED
      BY <2>8 DEF Jobs!Next
  <1> QED
    BY <1>1, <1>2 DEF CommitCompletion

LEMMA DeletionJobs == ASSUME DInv, NEW r \in Requests, CommitDeletion(r) PROVE [Jobs!Next]_Jobs!vars
  <1>1. PICK u \in Users : u = req[r].user
    BY DEF DInv, CommitDeletion, LocalOK
  <1>2. issued' = issued
    BY DEF CommitDeletion
  <1>3. /\ \A s \in Scans :
             /\ scan'[s] = IF scan[s] # Nil /\ scan[s].owner = u THEN Nil ELSE scan[s]
             /\ discovered'[s] = IF scan[s] # Nil /\ scan[s].owner = u THEN {} ELSE discovered[s]
        /\ \A c \in Closures :
             closure'[c] = IF closure[c] # Nil /\ closure[c].owner = u THEN Nil ELSE closure[c]
    BY <1>1, DeletionLeaves
  <1>4. Job' = [s \in Scans |-> IF Job[s] # Nil /\ Job[s].owner = u THEN Nil ELSE Job[s]]
    <2>1. \A s \in Scans : scan[s] = Nil => Job[s] = Nil
      BY DEF Job, JobOf
    <2>2. \A s \in Scans : scan[s] # Nil => Job[s] # Nil /\ Job[s].owner = scan[s].owner
      BY JobOK
    <2>3. \A s \in Scans : Job'[s] = IF scan[s] # Nil /\ scan[s].owner = u THEN Nil ELSE Job[s]
      BY <1>3 DEF Job, JobOf
    <2> QED
      BY <2>1, <2>2, <2>3 DEF Job
  <1>5. Request' = [c \in Closures |-> IF Request[c] # Nil /\ Request[c].owner = u THEN Nil ELSE Request[c]]
    <2>1. \A c \in Closures : closure[c] = Nil => Request[c] = Nil
      BY DEF Request, RequestOf
    <2>2. \A c \in Closures : closure[c] # Nil => Request[c] # Nil /\ Request[c].owner = closure[c].owner
      BY RequestOK
    <2>3. \A c \in Closures : Request'[c] = IF closure[c] # Nil /\ closure[c].owner = u THEN Nil ELSE Request[c]
      BY <1>3 DEF Request, RequestOf
    <2> QED
      BY <2>1, <2>2, <2>3 DEF Request
  <1>6. Jobs!CloseAccount(u)
    BY <1>2, <1>4, <1>5 DEF Jobs!CloseAccount, Job, JobOf, Request, RequestOf
  <1> QED
    BY <1>6 DEF Jobs!Next

LEMMA InitJobs == Init => Jobs!Init
  BY DEF Init, Jobs!Init

LEMMA StepJobs == DInv /\ [Next]_vars => [Jobs!Next]_Jobs!vars
  <1> SUFFICES ASSUME DInv, [Next]_vars PROVE [Jobs!Next]_Jobs!vars
    OBVIOUS
  <1>1. CASE UNCHANGED vars
    BY <1>1, StutterJobs DEF vars
  <1>2. ASSUME NEW r \in Requests, Proceed(r) PROVE [Jobs!Next]_Jobs!vars
    <2>1. CASE TakeMailbox(r) \/ Gather(r) \/ GatherResults(r) \/ ReadResults(r) \/ Respond(r)
               \/ LockUser(r) \/ DeleteChildren(r) \/ DeleteUserRow(r)
      BY <2>1, StutterJobs
         DEF TakeMailbox, Gather, GatherResults, ReadResults, Respond, LockUser, DeleteChildren,
             DeleteUserRow, Abort, tables
    <2> QED
      BY <1>2, <2>1, StartJobs, ReportJobs, ClosingJobs, CompletionJobs, DeletionJobs DEF Proceed
  <1>3. ASSUME NEW r \in Requests, Arrive(r) \/ BreakDeadlock(r) \/ RollBack(r)
        PROVE  [Jobs!Next]_Jobs!vars
    BY <1>3, StutterJobs
       DEF Arrive, StartScan, GetScan, RequestClosure, CompleteClosure, DeleteAccount, BreakDeadlock,
           RollBack, Abort, tables
  <1> QED
    BY <1>1, <1>2, <1>3 DEF Next

\* What discovery promises, it keeps: results and "completed" become visible
\* together and once, a closure is about a finished scan of its own user, and
\* everything goes with the account in one step (start_scan, request_closure,
\* complete_closure, delete_account).
THEOREM Implements == Spec => JobsSpec
  BY Invariance, InitJobs, StepJobs, PTL DEF Spec, JobsSpec, Jobs!Spec

-----------------------------------------------------------------------------
(* What a session says of its scan, and a response of a session            *)

\* The mailboxes a scan has found something in or may still do so.
Touched(l) ==
  l.todo \cup {f[1] : f \in Distinct(l.reports)}
         \cup (IF l.at \in {"queue", "gather"} THEN {l.email} ELSE {})

\* A scan holds no locks, and its session counts the mailboxes it touches.
WorkOK(l) ==
  /\ l.at = "open" => l.reports = NoReports /\ l.held = {}
  /\ Works(l) =>
       /\ l.held = {}
       /\ scan[l.row] # Nil => Cardinality(Touched(l)) <= scan[l.row].emails

\* A session shown as completed is still what was read, or its account is gone.
SeenOK(l) ==
  /\ l.at = "readResults" =>
       /\ l.seen \in ScanRow /\ l.seen.owner = l.user
       /\ l.seen.status = "completed" /\ l.user \in account => scan[l.row] = l.seen
  /\ l.at = "respond" /\ l.seen.status = "completed" /\ l.user \in account =>
       Cardinality(l.results) = l.seen.found

Running(s) == scan[s] # Nil /\ scan[s].status = "running" /\ s \notin abandoned
WorksOn(l, s) == Works(l) /\ l.row = s
Worked == \A s \in Scans : Running(s) => \E r \in Requests : WorksOn(req[r], s)

SInv == DInv /\ CountsMatch /\ Worked /\ \A r \in Requests : WorkOK(req[r]) /\ SeenOK(req[r])

\* Accounts only go, a session keeps its number of mailboxes, and a completed one
\* stays as it is until its account goes.
Settled ==
  /\ account' \subseteq account
  /\ \A s \in issued \cap Scans : scan'[s] # Nil =>
       scan[s] # Nil /\ scan'[s].emails = scan[s].emails
  /\ \A s \in Scans :
       scan[s] # Nil /\ scan[s].status = "completed" /\ scan[s].owner \in account' => scan'[s] = scan[s]

LEMMA IdleShows == WorkOK(Idle) /\ SeenOK(Idle) /\ WorkOK(Idle)' /\ SeenOK(Idle)' /\ ~Works(Idle)
  BY DEF Idle, WorkOK, SeenOK, Works

LEMMA OthersShow ==
  ASSUME NEW l \in Local, LocalOK(l), WorkOK(l), SeenOK(l), Settled
  PROVE  WorkOK(l)' /\ SeenOK(l)'
  <1>1. WorkOK(l)'
    BY DEF WorkOK, LocalOK, Settled, Works, Touched, Distinct
  <1>2. ASSUME l.at = "readResults", l.seen.status = "completed", l.user \in account' PROVE scan'[l.row] = l.seen
    <2>1. l.seen \in ScanRow /\ l.seen.owner = l.user /\ l.user \in account /\ l.row \in Scans
      BY <1>2 DEF SeenOK, LocalOK, Settled
    <2>2. scan[l.row] = l.seen /\ l.seen # Nil
      BY <1>2, <2>1, NilAssumption DEF SeenOK
    <2> QED
      BY <1>2, <2>1, <2>2 DEF Settled
  <1>3. SeenOK(l)'
    BY <1>2 DEF SeenOK, Settled
  <1> QED
    BY <1>1, <1>3

\* A step of r: the others stay, and a session that runs has somebody at work.
LEMMA ShowStep ==
  ASSUME SInv, DInv', NEW r \in Requests, NEW l \in Local, Goto(r, l),
         WorkOK(l)', SeenOK(l)', Settled, CountsMatch',
         \A s \in Scans : Running(s)' => \/ WorksOn(l, s)
                                         \/ Running(s) /\ ~WorksOn(req[r], s)
  PROVE  SInv'
  <1>1. \A q \in Requests : req'[q] = IF q = r THEN l ELSE req[q]
    BY DEF SInv, DInv, TypeOK, Goto
  <1>2. ASSUME NEW q \in Requests PROVE WorkOK(req[q])' /\ SeenOK(req[q])'
    <2>1. CASE q = r
      BY <1>1, <2>1 DEF WorkOK, SeenOK, Works, Touched, Distinct
    <2>2. CASE q # r
      <3>1. req'[q] = req[q] /\ req[q] \in Local /\ LocalOK(req[q]) /\ WorkOK(req[q]) /\ SeenOK(req[q])
        BY <1>1, <2>2 DEF SInv, DInv, TypeOK
      <3> PICK m \in Local : m = req[q]
        BY <3>1
      <3>2. WorkOK(m)' /\ SeenOK(m)'
        BY <3>1, OthersShow
      <3> QED
        BY <3>1, <3>2 DEF WorkOK, SeenOK, Works, Touched, Distinct
    <2> QED
      BY <2>1, <2>2
  <1>3. ASSUME NEW s \in Scans, Running(s)' PROVE \E q \in Requests : WorksOn(req'[q], s)
    <2>1. CASE WorksOn(l, s)
      BY <1>1, <2>1
    <2>2. CASE Running(s) /\ ~WorksOn(req[r], s)
      <3> PICK q \in Requests : WorksOn(req[q], s)
        BY <2>2 DEF SInv, Worked
      <3>1. q # r /\ req'[q] = req[q]
        BY <1>1, <2>2
      <3> QED
        BY <3>1
    <2> QED
      BY <1>3, <2>1, <2>2
  <1>4. Worked'
    BY <1>3 DEF Worked, WorksOn, Works
  <1> QED
    BY <1>2, <1>4 DEF SInv

\* A step that changes neither accounts nor sessions.
LEMMA ShowMove ==
  ASSUME SInv, DInv', NEW r \in Requests, NEW l \in Local, Goto(r, l), WorkOK(l), SeenOK(l),
         UNCHANGED <<account, scan, discovered>>, abandoned \subseteq abandoned',
         Works(req[r]) => WorksOn(l, req[r].row) \/ req[r].row \in abandoned'
  PROVE  SInv'
  <1>1. Settled
    BY DEF Settled
  <1>2. WorkOK(l)' /\ SeenOK(l)'
    BY DEF WorkOK, SeenOK, Works, Touched, Distinct
  <1>3. CountsMatch'
    BY DEF SInv, CountsMatch
  <1>4. \A s \in Scans : Running(s)' => WorksOn(l, s) \/ (Running(s) /\ ~WorksOn(req[r], s))
    BY DEF Running, WorksOn
  <1> QED
    BY <1>1, <1>2, <1>3, <1>4, ShowStep

LEMMA ShowEnd ==
  ASSUME SInv, DInv', NEW r \in Requests, Finish(r),
         UNCHANGED <<account, scan, discovered>>, abandoned \subseteq abandoned',
         Works(req[r]) => req[r].row \in abandoned'
  PROVE  SInv'
  <1>1. Goto(r, Idle)
    BY DEF Finish, Goto
  <1> QED
    BY <1>1, IdleOK, IdleShows, ShowMove

\* Who scans holds nothing anybody waits for: a deadlock's victim is no scan.
LEMMA NoScanInCycle ==
  ASSUME SInv, NEW r \in Requests, Works(req[r]) PROVE ~InCycle(r)
  <1>1. req[r].held = {} /\ req[r].at \in {"scan", "queue", "gather"}
    BY DEF SInv, WorkOK, Works
  <1>2. ASSUME NEW s \in Requests PROVE r \notin WaitsFor(s)
    BY <1>1 DEF WaitsFor, HoldsUser
  <1> QED
    BY <1>2 DEF InCycle, WaitsFor

\* A request that scans nothing begins or goes on with something else.
LEMMA ShowOther ==
  ASSUME SInv, DInv', NEW r \in Requests, NEW l \in Local, Goto(r, l), ~Works(req[r]),
         l.at \in {"lockUser", "insertClosure", "complete", "flush", "deleteUser", "cascade"},
         UNCHANGED <<tables, abandoned>>
  PROVE  SInv'
  <1>1. WorkOK(l) /\ SeenOK(l)
    BY DEF WorkOK, SeenOK, Works
  <1> QED
    BY <1>1, ShowMove DEF tables

LEMMA ArriveShows == ASSUME SInv, DInv', NEW r \in Requests, Arrive(r) PROVE SInv'
  <1>0. req[r].at = "idle" => ~Works(req[r])
    BY DEF Works
  <1>1. ASSUME NEW u \in Users, NEW E \in SUBSET Emails, StartScan(r, u, E) PROVE SInv'
    <2> DEFINE l == [Idle EXCEPT !.at = "open", !.user = u, !.todo = E]
    <2>1. l \in Local /\ WorkOK(l) /\ SeenOK(l)
      BY IdleOK DEF Local, Idle, WorkOK, SeenOK, Works, Steps
    <2>2. Goto(r, l) /\ ~Works(req[r]) /\ UNCHANGED <<tables, abandoned>>
      BY <1>0, <1>1 DEF StartScan, Begin, Goto
    <2> HIDE DEF l
    <2> QED
      BY <2>1, <2>2, ShowMove DEF tables
  <1>2. ASSUME NEW u \in Users, NEW s \in Scans, GetScan(r, u, s) PROVE SInv'
    <2> DEFINE l == [Idle EXCEPT !.at = "readResults", !.user = u, !.row = s, !.seen = scan[s]]
    <2>1. scan[s] \in ScanRow /\ scan[s].owner = u /\ s \in Rows
      BY <1>2 DEF GetScan, ScansOf, SInv, DInv, TypeOK, Rows
    <2>2. l \in Local /\ l.at = "readResults" /\ l.user = u /\ l.row = s /\ l.seen = scan[s]
      BY <2>1, IdleOK DEF Local, Idle, Steps
    <2> HIDE DEF l
    <2>3. WorkOK(l) /\ SeenOK(l)
      BY <2>1, <2>2 DEF WorkOK, SeenOK, Works
    <2>4. Goto(r, l) /\ ~Works(req[r]) /\ UNCHANGED <<tables, abandoned>>
      BY <1>0, <1>2 DEF GetScan, Begin, Goto, l
    <2> QED
      BY <2>2, <2>3, <2>4, ShowMove DEF tables
  <1>3. ASSUME NEW u \in Users, NEW a \in Account, RequestClosure(r, u, a) PROVE SInv'
    <2> DEFINE l == [Idle EXCEPT !.at = "lockUser", !.user = u, !.row = a]
    <2>1. l \in Local /\ l.at = "lockUser"
      BY IdleOK DEF Local, Idle, Steps, Rows
    <2>2. Goto(r, l) /\ ~Works(req[r]) /\ UNCHANGED <<tables, abandoned>>
      BY <1>0, <1>3 DEF RequestClosure, Begin, Goto
    <2> HIDE DEF l
    <2> QED
      BY <2>1, <2>2, ShowOther
  <1>4. ASSUME NEW u \in Users, NEW c \in Closures, CompleteClosure(r, u, c) PROVE SInv'
    <2> DEFINE l == [Idle EXCEPT !.at = "complete", !.user = u, !.row = c]
    <2>1. l \in Local /\ l.at = "complete"
      BY IdleOK DEF Local, Idle, Steps, Rows
    <2>2. Goto(r, l) /\ ~Works(req[r]) /\ UNCHANGED <<tables, abandoned>>
      BY <1>0, <1>4 DEF CompleteClosure, Begin, Goto
    <2> HIDE DEF l
    <2> QED
      BY <2>1, <2>2, ShowOther
  <1>5. ASSUME NEW u \in Users, DeleteAccount(r, u) PROVE SInv'
    <2> DEFINE l == [Idle EXCEPT !.at = "flush", !.user = u]
    <2>1. l \in Local /\ l.at = "flush"
      BY IdleOK DEF Local, Idle, Steps
    <2>2. Goto(r, l) /\ ~Works(req[r]) /\ UNCHANGED <<tables, abandoned>>
      BY <1>0, <1>5 DEF DeleteAccount, Begin, Goto
    <2> HIDE DEF l
    <2> QED
      BY <2>1, <2>2, ShowOther
  <1> QED
    BY <1>1, <1>2, <1>3, <1>4, <1>5 DEF Arrive

\* A scan only ever touches fewer mailboxes than it began with.
LEMMA TouchFewer ==
  ASSUME SInv, NEW r \in Requests, Works(req[r]), NEW l \in Local, Works(l),
         l.row = req[r].row, l.held = req[r].held, Touched(l) \subseteq Touched(req[r])
  PROVE  WorkOK(l) /\ SeenOK(l)
  <1>1. req[r] \in Local /\ LocalOK(req[r]) /\ WorkOK(req[r])
    BY DEF SInv, DInv, TypeOK
  <1>2. Touched(req[r]) \subseteq Emails
    BY <1>1 DEF Touched, Distinct, Finding, Local, LocalOK
  <1>3. IsFiniteSet(Touched(req[r]))
    BY <1>2, FiniteAssumption, FS_Subset
  <1>4. /\ Cardinality(Touched(l)) \in Nat /\ Cardinality(Touched(req[r])) \in Nat
        /\ Cardinality(Touched(l)) <= Cardinality(Touched(req[r]))
    BY <1>3, FS_Subset, FS_CardinalityType
  <1>5. scan[l.row] # Nil => Cardinality(Touched(l)) <= scan[l.row].emails
    <2> SUFFICES ASSUME scan[l.row] # Nil PROVE Cardinality(Touched(l)) <= scan[l.row].emails
      OBVIOUS
    <2>1. scan[l.row] \in ScanRow
      BY <1>1 DEF LocalOK, SInv, DInv, TypeOK
    <2>2. scan[l.row].emails \in Nat /\ Cardinality(Touched(req[r])) <= scan[l.row].emails
      BY <1>1, <2>1 DEF WorkOK, ScanRow
    <2> QED
      BY <1>4, <2>2
  <1> QED
    BY <1>1, <1>5 DEF WorkOK, SeenOK, Works

LEMMA ScanStepShows ==
  ASSUME SInv, DInv', NEW r \in Requests, TakeMailbox(r) \/ Gather(r) \/ GatherResults(r)
  PROVE  SInv'
  <1> DEFINE me == req[r]
  <1>0. me \in Local /\ LocalOK(me) /\ Works(me) /\ UNCHANGED <<account, scan, discovered, abandoned>>
    BY DEF SInv, DInv, TypeOK, TakeMailbox, Gather, GatherResults, Works, tables
  <1>1. ASSUME NEW l \in Local, Goto(r, l), Works(l), l.row = me.row, l.held = me.held,
               Touched(l) \subseteq Touched(me)
        PROVE  SInv'
    BY <1>0, <1>1, TouchFewer, ShowMove DEF WorksOn
  <1>2. CASE TakeMailbox(r)
    <2> PICK e \in me.todo : \/ Goto(r, [me EXCEPT !.todo = @ \ {e}])
                             \/ Goto(r, [me EXCEPT !.at = "queue", !.email = e, !.todo = @ \ {e}])
      BY <1>2 DEF TakeMailbox
    <2> DEFINE l == [me EXCEPT !.todo = @ \ {e}]
               m == [me EXCEPT !.at = "queue", !.email = e, !.todo = @ \ {e}]
    <2>1. me.at = "scan" /\ e \in Emails
      BY <1>0, <1>2 DEF TakeMailbox, Local
    <2>2. /\ l \in Local /\ l.at = "scan" /\ l.row = me.row /\ l.held = me.held
          /\ l.todo = me.todo \ {e} /\ l.reports = me.reports
      BY <1>0, <2>1 DEF Local
    <2>3. /\ m \in Local /\ m.at = "queue" /\ m.row = me.row /\ m.held = me.held
          /\ m.todo = me.todo \ {e} /\ m.reports = me.reports /\ m.email = e
      BY <1>0, <2>1 DEF Local, Steps
    <2>4. Goto(r, l) \/ Goto(r, m)
      OBVIOUS
    <2> HIDE DEF l, m
    <2>5. Touched(l) \subseteq Touched(me)
      BY <2>1, <2>2 DEF Touched
    <2>6. Touched(m) \subseteq Touched(me)
      BY <2>1, <2>3 DEF Touched
    <2>7. Works(l) /\ Works(m)
      BY <2>2, <2>3 DEF Works
    <2> QED
      BY <1>1, <2>2, <2>3, <2>4, <2>5, <2>6, <2>7
  <1>3. CASE Gather(r)
    <2> DEFINE l == [me EXCEPT !.at = "gather"]
    <2>1. me.at = "queue" /\ Goto(r, l)
      BY <1>3 DEF Gather
    <2>2. /\ l \in Local /\ l.at = "gather" /\ l.row = me.row /\ l.held = me.held
          /\ l.todo = me.todo /\ l.reports = me.reports /\ l.email = me.email
      BY <1>0 DEF Local, Steps
    <2> HIDE DEF l
    <2>3. Touched(l) \subseteq Touched(me) /\ Works(l)
      BY <2>1, <2>2 DEF Touched, Works
    <2> QED
      BY <1>1, <2>1, <2>2, <2>3
  <1>4. CASE GatherResults(r)
    <2> PICK times \in [Services -> 0 .. 2] :
          Goto(r, [me EXCEPT !.at = "scan", !.email = Nil,
                     !.reports = [f \in Finding |-> IF f[1] = me.email THEN times[f[2]] ELSE @[f]]])
      BY <1>4 DEF GatherResults
    <2> DEFINE new == [f \in Finding |-> IF f[1] = me.email THEN times[f[2]] ELSE me.reports[f]]
               l == [me EXCEPT !.at = "scan", !.email = Nil, !.reports = new]
    <2>0. new \in [Finding -> 0 .. 2]
      BY <1>0 DEF Finding, Local
    <2>1. me.at = "gather" /\ Goto(r, l)
      BY <1>4 DEF GatherResults
    <2>2. \A f \in Distinct(new) : f[1] = me.email \/ f \in Distinct(me.reports)
      BY DEF Distinct
    <2> HIDE DEF new
    <2>3. /\ l \in Local /\ l.at = "scan" /\ l.row = me.row /\ l.held = me.held
          /\ l.todo = me.todo /\ l.reports = new
      BY <1>0, <2>0 DEF Local, Steps
    <2> HIDE DEF l
    <2>4. Touched(l) \subseteq Touched(me) /\ Works(l)
      BY <2>1, <2>2, <2>3 DEF Touched, Works
    <2> QED
      BY <1>1, <2>1, <2>3, <2>4
  <1> QED
    BY <1>2, <1>3, <1>4

LEMMA ReadShows == ASSUME SInv, DInv', NEW r \in Requests, ReadResults(r) PROVE SInv'
  <1> DEFINE me == req[r]
             l == [me EXCEPT !.at = "respond", !.results = discovered[me.row]]
  <1>1. /\ me \in Local /\ me.at = "readResults" /\ me.row \in Scans /\ SeenOK(me)
        /\ discovered[me.row] \subseteq Finding
    BY DEF SInv, DInv, TypeOK, ReadResults, LocalOK
  <1>2. Goto(r, l) /\ UNCHANGED <<account, scan, discovered, abandoned>> /\ ~Works(me)
    BY <1>1 DEF ReadResults, tables, Works
  <1>3. l \in Local /\ l.at = "respond" /\ l.seen = me.seen /\ l.user = me.user /\ l.results = discovered[me.row]
    BY <1>1 DEF Local, Steps
  <1> HIDE DEF l
  <1>4. ASSUME me.seen.status = "completed", me.user \in account
        PROVE  Cardinality(discovered[me.row]) = me.seen.found
    <2>1. scan[me.row] = me.seen /\ me.seen # Nil
      BY <1>1, <1>4, NilAssumption DEF SeenOK
    <2> QED
      BY <1>1, <2>1 DEF SInv, CountsMatch
  <1>5. WorkOK(l) /\ SeenOK(l)
    BY <1>3, <1>4 DEF WorkOK, SeenOK, Works
  <1> QED
    BY <1>2, <1>3, <1>5, ShowMove

LEMMA OpenShows == ASSUME SInv, DInv', NEW r \in Requests, OpenSession(r), ~Abort(r) PROVE SInv'
  <1> DEFINE me == req[r]
  <1> PICK s \in Scans \ issued :
        /\ scan' = [scan EXCEPT ![s] = [owner |-> me.user, status |-> "running",
                                        emails |-> Cardinality(me.todo), found |-> 0]]
        /\ Goto(r, [me EXCEPT !.at = "scan", !.row = s])
        /\ UNCHANGED <<account, discovered, abandoned>>
    BY DEF OpenSession
  <1> DEFINE row == [owner |-> me.user, status |-> "running", emails |-> Cardinality(me.todo), found |-> 0]
  <1>1. /\ me \in Local /\ me.at = "open" /\ me.reports = NoReports /\ me.held = {}
        /\ scan[s] = Nil /\ discovered[s] = {} /\ me.user \in Users
    BY DEF SInv, DInv, TypeOK, OpenSession, WorkOK, SessionsOK, RowsHaveOwners, LocalOK
  <1> PICK l \in Local : l = [me EXCEPT !.at = "scan", !.row = s]
    BY <1>1 DEF Local, Steps, Rows
  <1>2. /\ l \in Local /\ l.at = "scan" /\ l.row = s /\ l.held = {}
        /\ l.todo = me.todo /\ l.reports = NoReports
    BY <1>1 DEF Local, Steps, Rows
  <1>3. \A o \in Scans : scan'[o] = IF o = s THEN row ELSE scan[o]
    BY DEF SInv, DInv, TypeOK
  <1>4. /\ row.emails = Cardinality(me.todo) /\ row.found = 0 /\ row.status = "running" /\ row.owner = me.user
        /\ Goto(r, l)
    OBVIOUS
  <1>5. Cardinality(me.todo) \in Nat
    BY <1>1, FiniteAssumption, FS_Subset, FS_CardinalityType DEF Local
  <1> HIDE DEF row
  <1>6. Settled
    BY <1>1, <1>3 DEF Settled
  <1>7. WorkOK(l)' /\ SeenOK(l)'
    <2>1. Touched(l) = me.todo
      BY <1>2 DEF Touched, Distinct, NoReports
    <2>2. scan'[l.row].emails = Cardinality(Touched(l))
      BY <1>2, <1>3, <1>4, <2>1
    <2>3. Cardinality(Touched(l)) <= scan'[l.row].emails
      BY <1>5, <2>1, <2>2
    <2>4. Touched(l)' = Touched(l)
      BY DEF Touched, Distinct
    <2> QED
      BY <1>2, <2>3, <2>4 DEF WorkOK, SeenOK, Works
  <1>8. CountsMatch'
    <2> SUFFICES ASSUME NEW o \in Scans, scan'[o] # Nil
                 PROVE  /\ scan'[o].found = Cardinality(discovered[o])
                        /\ scan'[o].status = "running" => discovered[o] = {}
                        /\ Cardinality({f[1] : f \in discovered[o]}) <= scan'[o].emails
      BY DEF CountsMatch
    <2>1. CASE o = s
      <3>1. {f[1] : f \in discovered[o]} = {}
        BY <1>1, <2>1
      <3> QED
        BY <1>1, <1>3, <1>4, <1>5, <2>1, <3>1, FS_EmptySet
    <2>2. CASE o # s
      BY <1>3, <2>2 DEF SInv, CountsMatch
    <2> QED
      BY <2>1, <2>2
  <1>9. ASSUME NEW o \in Scans, Running(o)' PROVE WorksOn(l, o) \/ (Running(o) /\ ~WorksOn(me, o))
    <2>1. ~Works(me) /\ Works(l)
      BY <1>1, <1>2 DEF Works
    <2> QED
      BY <1>2, <1>3, <1>9, <2>1 DEF Running, WorksOn
  <1> QED
    BY <1>2, <1>4, <1>6, <1>7, <1>8, <1>9, ShowStep

LEMMA SaveShows == ASSUME SInv, DInv', NEW r \in Requests, SaveResults(r), scan[req[r].row] # Nil PROVE SInv'
  <1> DEFINE me == req[r]
             s == me.row
             row == [scan[s] EXCEPT !.status = "completed", !.found = Found(me.reports)]
             D == Distinct(me.reports)
  <1>1. /\ me \in Local /\ me.at = "scan" /\ me.todo = {} /\ s \in Scans /\ scan[s] # Nil
        /\ LocalOK(me) /\ WorkOK(me) /\ Works(me)
    BY DEF SInv, DInv, TypeOK, SaveResults, LocalOK, Works
  <1>2. /\ discovered' = [discovered EXCEPT ![s] = D]
        /\ scan' = [scan EXCEPT ![s].status = "completed", ![s].found = Found(me.reports)]
        /\ Goto(r, Idle)
        /\ UNCHANGED <<account, issued, abandoned>>
    BY DEF SaveResults, Finish, Goto
  <1>3. scan[s] \in ScanRow /\ scan[s].status = "running"
    BY <1>1 DEF SInv, DInv, TypeOK, LocalOK, Works
  <1>4. row.status = "completed" /\ row.found = Cardinality(D) /\ row.emails = scan[s].emails /\ row # Nil
    <2>1. row \in ScanRow
      BY <1>3, DistinctOK DEF ScanRow
    <2> QED
      BY <1>3, <2>1, NilAssumption DEF ScanRow, Found
  <1>5. \A o \in Scans : /\ scan'[o] = IF o = s THEN row ELSE scan[o]
                         /\ discovered'[o] = IF o = s THEN D ELSE discovered[o]
    BY <1>1, <1>2 DEF SInv, DInv, TypeOK
  <1>6. Cardinality({f[1] : f \in D}) <= row.emails
    <2>1. Touched(me) = {f[1] : f \in D}
      BY <1>1 DEF Touched
    <2> QED
      BY <1>1, <1>4, <2>1 DEF WorkOK
  <1> HIDE DEF row, D
  <1>7. Settled
    BY <1>1, <1>2, <1>3, <1>4, <1>5 DEF Settled
  <1>8. CountsMatch'
    <2> SUFFICES ASSUME NEW o \in Scans, scan'[o] # Nil
                 PROVE  /\ scan'[o].found = Cardinality(discovered'[o])
                        /\ scan'[o].status = "running" => discovered'[o] = {}
                        /\ Cardinality({f[1] : f \in discovered'[o]}) <= scan'[o].emails
      BY DEF CountsMatch
    <2>1. CASE o = s
      <3>1. scan'[o] = row /\ discovered'[o] = D
        BY <1>5, <2>1
      <3> QED
        BY <1>4, <1>6, <3>1
    <2>2. CASE o # s
      BY <1>5, <2>2 DEF SInv, CountsMatch
    <2> QED
      BY <2>1, <2>2
  <1>9. ASSUME NEW o \in Scans, Running(o)' PROVE WorksOn(Idle, o) \/ (Running(o) /\ ~WorksOn(me, o))
    BY <1>2, <1>4, <1>5, <1>9 DEF Running, WorksOn
  <1> QED
    BY <1>2, <1>7, <1>8, <1>9, IdleOK, IdleShows, ShowStep

LEMMA DeletionShows == ASSUME SInv, DInv', NEW r \in Requests, CommitDeletion(r) PROVE SInv'
  <1> DEFINE u == req[r].user
             Mine(s) == scan[s] # Nil /\ scan[s].owner = u
  <1>0. DInv
    BY DEF SInv
  <1>1. \A s \in Scans : /\ scan'[s] = IF Mine(s) THEN Nil ELSE scan[s]
                         /\ discovered'[s] = IF Mine(s) THEN {} ELSE discovered[s]
    BY <1>0, DeletionLeaves
  <1>2. account' = account \ {u} /\ abandoned' = abandoned /\ Goto(r, Idle) /\ ~Works(req[r])
    BY DEF CommitDeletion, Finish, Goto, Works
  <1> HIDE DEF u
  <1>3. Settled
    BY <1>1, <1>2 DEF Settled
  <1>4. CountsMatch'
    BY <1>1 DEF SInv, CountsMatch
  <1>5. \A s \in Scans : Running(s)' => (Running(s) /\ ~WorksOn(req[r], s))
    BY <1>1, <1>2 DEF Running, WorksOn
  <1> QED
    BY <1>2, <1>3, <1>4, <1>5, IdleOK, IdleShows, ShowStep

LEMMA StepShows == SInv /\ [Next]_vars => SInv'
  <1> SUFFICES ASSUME SInv, [Next]_vars PROVE SInv'
    OBVIOUS
  <1>0. DInv /\ DInv'
    BY StepDInv DEF SInv
  <1>1. CASE UNCHANGED vars
    <2>1. UNCHANGED <<account, scan, discovered, req, abandoned>>
      BY <1>1 DEF vars
    <2> QED
      BY <1>0, <2>1 DEF SInv, CountsMatch, Worked, Running, WorksOn, Works, WorkOK, SeenOK, Touched, Distinct
  <1>2. ASSUME NEW r \in Requests, Finish(r), ~Works(req[r]), UNCHANGED <<account, scan, discovered, abandoned>>
        PROVE  SInv'
    BY <1>0, <1>2, ShowEnd
  <1>3. ASSUME NEW r \in Requests, Abort(r), ~Works(req[r]) PROVE SInv'
    BY <1>2, <1>3 DEF Abort, tables
  <1>4. ASSUME NEW r \in Requests, SaveResults(r), Abort(r), scan[req[r].row] = Nil PROVE SInv'
    <2>1. Goto(r, Idle) /\ UNCHANGED <<account, scan, discovered, abandoned, issued>>
      BY <1>4 DEF Abort, Finish, Goto, tables
    <2>2. Settled /\ CountsMatch'
      BY <2>1 DEF Settled, SInv, CountsMatch
    <2>3. \A s \in Scans : Running(s)' => (Running(s) /\ ~WorksOn(req[r], s))
      BY <1>4, <2>1 DEF Running, WorksOn
    <2> QED
      BY <1>0, <2>1, <2>2, <2>3, IdleOK, IdleShows, ShowStep
  <1>5. ASSUME NEW r \in Requests, LockUser(r) \/ DeleteChildren(r) \/ DeleteUserRow(r) PROVE SInv'
    <2>1. req[r] \in Local /\ ~Works(req[r]) /\ UNCHANGED <<tables, abandoned>>
      BY <1>5 DEF LockUser, DeleteChildren, DeleteUserRow, Works, SInv, DInv, TypeOK
    <2>2. Finish(r) \/ \E l \in Local : l.at \in {"insertClosure", "deleteUser", "cascade"} /\ Goto(r, l)
      <3>0. RowsOf(req[r].user) \subseteq Rows
        BY DEF RowsOf, ScansOf, AccountsOf, ClosuresOf, Rows
      <3>1. CASE LockUser(r)
        <4>1. [req[r] EXCEPT !.at = "insertClosure"] \in Local
          BY <2>1 DEF Local, Steps
        <4>2. [req[r] EXCEPT !.at = "insertClosure"].at = "insertClosure"
          BY <2>1 DEF Local
        <4> QED
          BY <3>1, <4>1, <4>2 DEF LockUser
      <3>2. CASE DeleteChildren(r)
        <4> DEFINE l == [req[r] EXCEPT !.at = "deleteUser", !.held = RowsOf(req[r].user)]
        <4>1. l \in Local /\ l.at = "deleteUser"
          BY <2>1, <3>0 DEF Local, Steps
        <4>2. Goto(r, l)
          BY <3>2 DEF DeleteChildren
        <4> QED
          BY <4>1, <4>2
      <3>3. CASE DeleteUserRow(r)
        <4>1. [req[r] EXCEPT !.at = "cascade"] \in Local
          BY <2>1 DEF Local, Steps
        <4>2. [req[r] EXCEPT !.at = "cascade"].at = "cascade"
          BY <2>1 DEF Local
        <4> QED
          BY <3>3, <4>1, <4>2 DEF DeleteUserRow
      <3> QED
        BY <1>5, <3>1, <3>2, <3>3
    <2> QED
      BY <1>0, <1>2, <2>1, <2>2, ShowOther DEF tables
  <1>6. ASSUME NEW r \in Requests, Proceed(r) PROVE SInv'
    <2>1. CASE TakeMailbox(r) \/ Gather(r) \/ GatherResults(r) \/ ReadResults(r)
      BY <1>0, <2>1, ScanStepShows, ReadShows
    <2>2. CASE OpenSession(r)
      <3>1. ~Works(req[r])
        BY <2>2 DEF OpenSession, Works
      <3> QED
        BY <1>0, <1>3, <2>2, <3>1, OpenShows
    <2>3. CASE SaveResults(r)
      <3>1. scan[req[r].row] = Nil => Abort(r)
        BY <2>3 DEF SaveResults
      <3> QED
        BY <1>0, <1>4, <2>3, <3>1, SaveShows
    <2>4. CASE Respond(r)
      BY <1>3, <2>4 DEF Respond, Works
    <2>5. CASE InsertClosure(r) \/ CommitCompletion(r)
      <3>1. Finish(r) /\ ~Works(req[r]) /\ UNCHANGED <<account, scan, discovered, abandoned>>
        BY <2>5 DEF InsertClosure, CommitCompletion, Abort, tables, Works
      <3> QED
        BY <1>2, <3>1
    <2>6. CASE CommitDeletion(r)
      BY <1>0, <2>6, DeletionShows
    <2> QED
      BY <1>5, <1>6, <2>1, <2>2, <2>3, <2>4, <2>5, <2>6 DEF Proceed
  <1>7. ASSUME NEW r \in Requests, BreakDeadlock(r) PROVE SInv'
    BY <1>3, <1>7, NoScanInCycle DEF BreakDeadlock
  <1>8. ASSUME NEW r \in Requests, RollBack(r) PROVE SInv'
    <2>1. Scanning(r) <=> Works(req[r])
      BY DEF Scanning, Works
    <2>2. /\ Finish(r) /\ UNCHANGED <<account, scan, discovered>>
          /\ abandoned \subseteq abandoned' /\ (Works(req[r]) => req[r].row \in abandoned')
      BY <1>8, <2>1 DEF RollBack, tables
    <2> QED
      BY <1>0, <2>2, ShowEnd
  <1>9. ASSUME NEW r \in Requests, Arrive(r) PROVE SInv'
    BY <1>0, <1>9, ArriveShows
  <1> QED
    BY <1>1, <1>6, <1>7, <1>8, <1>9 DEF Next

LEMMA InitShows == Init => SInv
  <1> SUFFICES ASSUME Init PROVE SInv
    OBVIOUS
  <1>1. \A r \in Requests : WorkOK(req[r]) /\ SeenOK(req[r])
    BY IdleShows DEF Init
  <1>2. CountsMatch /\ Worked
    BY DEF Init, CountsMatch, Worked, Running
  <1> QED
    BY <1>1, <1>2, InitDInv DEF SInv

LEMMA ShowInvariance == Spec => []SInv
  BY InitShows, StepShows, PTL DEF Spec

\* The numbers a session shows are those of its rows, although mailboxes are
\* skipped, services reported twice and accounts deleted meanwhile (start_scan).
THEOREM CountsAreRows == Spec => []CountsMatch
  <1>1. SInv => CountsMatch
    BY DEF SInv
  <1> QED
    BY <1>1, ShowInvariance, PTL

\* A session says "running" only while its one request works on it or after
\* that was cut off: no deadlock, deletion or other scan ends it (start_scan).
THEOREM RunningMeansWork == Spec => []RunningIsWorkedOn
  <1>1. SInv => RunningIsWorkedOn
    <2> SUFFICES ASSUME SInv, NEW s \in Scans
                 PROVE  LET workers == {r \in Requests : Scanning(r) /\ req[r].row = s} IN
                        /\ Cardinality(workers) <= 1
                        /\ scan[s] # Nil /\ scan[s].status = "running" /\ s \notin abandoned => workers # {}
      BY DEF RunningIsWorkedOn
    <2> DEFINE workers == {r \in Requests : Scanning(r) /\ req[r].row = s}
    <2>1. \A r \in Requests : Scanning(r) <=> Works(req[r])
      BY DEF Scanning, Works
    <2>2. \A r, q \in workers : r = q
      BY <2>1 DEF SInv, DInv, OneWorker
    <2>3. Cardinality(workers) <= 1
      <3>1. CASE workers = {}
        BY <3>1, FS_EmptySet
      <3>2. ASSUME NEW r \in workers PROVE Cardinality(workers) <= 1
        <4>1. workers = {r}
          BY <2>2, <3>2
        <4> QED
          BY <4>1, FS_Singleton
      <3> QED
        BY <3>1, <3>2
    <2>4. scan[s] # Nil /\ scan[s].status = "running" /\ s \notin abandoned => workers # {}
      BY <2>1 DEF SInv, Worked, Running, WorksOn
    <2> QED
      BY <2>3, <2>4
  <1> QED
    BY <1>1, ShowInvariance, PTL

\* What get_scan reads in two statements fits together for whoever still has an
\* account, whatever is committed in between.
THEOREM ShownTogether == Spec => []ShownWhole
  <1>1. SInv => ShownWhole
    BY DEF SInv, SeenOK, ShownWhole
  <1> QED
    BY <1>1, ShowInvariance, PTL
-----------------------------------------------------------------------------
(* Row locks and who waits for whom.                                       *)

\* Rows stay locked only by a deletion, which has deleted them itself and whose
\* user they belong to.
HeldOK(l) ==
  /\ l.held # {} => l.at \in {"deleteUser", "cascade"}
  /\ l.held \subseteq RowsOf(l.user)

Apart == \A r, q \in Requests : r # q => req[r].held \cap req[q].held = {}

\* An account is being deleted by one request at most.
OneCascade ==
  \A r, q \in Requests :
    req[r].at = "cascade" /\ req[q].at = "cascade" /\ req[r].user = req[q].user => r = q

\* Who has the semaphore is at the scanners.
SemaphoreOK == hibp # Nil => req[hibp].at = "gather"

WInv == DInv /\ Apart /\ OneCascade /\ SemaphoreOK /\ \A r \in Requests : HeldOK(req[r])

LEMMA ArriveBare ==
  ASSUME NEW r \in Requests, Arrive(r)
  PROVE  \E l : Begin(r, l) /\ l.held = {} /\ l.at \notin {"deleteUser", "cascade"}
  <1>1. ASSUME NEW u \in Users, NEW E \in SUBSET Emails, StartScan(r, u, E)
        PROVE  \E l : Begin(r, l) /\ l.held = {} /\ l.at \notin {"deleteUser", "cascade"}
    <2> DEFINE l == [Idle EXCEPT !.at = "open", !.user = u, !.todo = E]
    <2>1. l.held = {} /\ l.at \notin {"deleteUser", "cascade"}
      BY DEF Idle
    <2> QED
      BY <1>1, <2>1 DEF StartScan
  <1>2. ASSUME NEW u \in Users, NEW s \in Scans, GetScan(r, u, s)
        PROVE  \E l : Begin(r, l) /\ l.held = {} /\ l.at \notin {"deleteUser", "cascade"}
    <2> DEFINE l == [Idle EXCEPT !.at = "readResults", !.user = u, !.row = s, !.seen = scan[s]]
    <2>1. l.held = {} /\ l.at \notin {"deleteUser", "cascade"}
      BY DEF Idle
    <2> QED
      BY <1>2, <2>1 DEF GetScan
  <1>3. ASSUME NEW u \in Users, NEW a \in Account, RequestClosure(r, u, a)
        PROVE  \E l : Begin(r, l) /\ l.held = {} /\ l.at \notin {"deleteUser", "cascade"}
    <2> DEFINE l == [Idle EXCEPT !.at = "lockUser", !.user = u, !.row = a]
    <2>1. l.held = {} /\ l.at \notin {"deleteUser", "cascade"}
      BY DEF Idle
    <2> QED
      BY <1>3, <2>1 DEF RequestClosure
  <1>4. ASSUME NEW u \in Users, NEW c \in Closures, CompleteClosure(r, u, c)
        PROVE  \E l : Begin(r, l) /\ l.held = {} /\ l.at \notin {"deleteUser", "cascade"}
    <2> DEFINE l == [Idle EXCEPT !.at = "complete", !.user = u, !.row = c]
    <2>1. l.held = {} /\ l.at \notin {"deleteUser", "cascade"}
      BY DEF Idle
    <2> QED
      BY <1>4, <2>1 DEF CompleteClosure
  <1>5. ASSUME NEW u \in Users, DeleteAccount(r, u)
        PROVE  \E l : Begin(r, l) /\ l.held = {} /\ l.at \notin {"deleteUser", "cascade"}
    <2> DEFINE l == [Idle EXCEPT !.at = "flush", !.user = u]
    <2>1. l.held = {} /\ l.at \notin {"deleteUser", "cascade"}
      BY DEF Idle
    <2> QED
      BY <1>5, <2>1 DEF DeleteAccount
  <1> QED
    BY <1>1, <1>2, <1>3, <1>4, <1>5 DEF Arrive

\* The steps after which a request holds nothing and deletes nobody.
LEMMA BareStep ==
  ASSUME WInv, NEW r \in Requests,
         Arrive(r) \/ Proceed(r) \/ BreakDeadlock(r) \/ RollBack(r),
         ~DeleteChildren(r), DeleteUserRow(r) => Finish(r)
  PROVE  /\ req'[r].held = {} /\ req'[r].at \notin {"deleteUser", "cascade"}
         /\ \A q \in Requests \ {r} : req'[q] = req[q]
  <1>0. req \in [Requests -> Local] /\ req[r] \in Local /\ HeldOK(req[r])
    BY DEF WInv, DInv, TypeOK
  <1>1. CASE Finish(r)
    BY <1>0, <1>1 DEF Finish, Idle
  <1>2. CASE Arrive(r)
    <2>1. ASSUME NEW l, Begin(r, l), l.held = {}, l.at \notin {"deleteUser", "cascade"}
          PROVE  /\ req'[r].held = {} /\ req'[r].at \notin {"deleteUser", "cascade"}
                 /\ \A q \in Requests \ {r} : req'[q] = req[q]
      BY <1>0, <2>1 DEF Begin
    <2>2. \E l : Begin(r, l) /\ l.held = {} /\ l.at \notin {"deleteUser", "cascade"}
      BY <1>2, ArriveBare
    <2> QED
      BY <2>1, <2>2
  <1>3. CASE OpenSession(r) /\ ~Finish(r)
    <2> PICK s \in Scans : Goto(r, [req[r] EXCEPT !.at = "scan", !.row = s])
      BY <1>3 DEF OpenSession, Abort
    <2>1. req[r].held = {}
      BY <1>0, <1>3 DEF OpenSession, HeldOK
    <2> QED
      BY <1>0, <2>1 DEF Goto, Local
  <1>4. CASE TakeMailbox(r)
    <2> PICK e \in req[r].todo : \/ Goto(r, [req[r] EXCEPT !.todo = @ \ {e}])
                                 \/ Goto(r, [req[r] EXCEPT !.at = "queue", !.email = e, !.todo = @ \ {e}])
      BY <1>4 DEF TakeMailbox
    <2> DEFINE l == [req[r] EXCEPT !.todo = @ \ {e}]
               m == [req[r] EXCEPT !.at = "queue", !.email = e, !.todo = @ \ {e}]
    <2>1. req[r].held = {} /\ req[r].at = "scan"
      BY <1>0, <1>4 DEF TakeMailbox, HeldOK
    <2>2. l.held = {} /\ l.at = "scan" /\ m.held = {} /\ m.at = "queue"
      BY <1>0, <2>1 DEF Local
    <2>3. Goto(r, l) \/ Goto(r, m)
      OBVIOUS
    <2> HIDE DEF l, m
    <2> QED
      BY <1>0, <2>2, <2>3 DEF Goto
  <1>5. CASE Gather(r)
    <2>1. req[r].held = {} /\ Goto(r, [req[r] EXCEPT !.at = "gather"])
      BY <1>0, <1>5 DEF Gather, HeldOK
    <2> QED
      BY <1>0, <2>1 DEF Goto, Local
  <1>6. CASE GatherResults(r)
    <2> PICK times \in [Services -> 0 .. 2] :
          Goto(r, [req[r] EXCEPT !.at = "scan", !.email = Nil,
                     !.reports = [f \in Finding |-> IF f[1] = req[r].email THEN times[f[2]] ELSE @[f]]])
      BY <1>6 DEF GatherResults
    <2> DEFINE new == [f \in Finding |-> IF f[1] = req[r].email THEN times[f[2]] ELSE req[r].reports[f]]
    <2>1. req[r].held = {}
      BY <1>0, <1>6 DEF GatherResults, HeldOK
    <2>2. Goto(r, [req[r] EXCEPT !.at = "scan", !.email = Nil, !.reports = new])
      OBVIOUS
    <2> HIDE DEF new
    <2> QED
      BY <1>0, <2>1, <2>2 DEF Goto, Local
  <1>7. CASE ReadResults(r)
    <2>1. req[r].held = {} /\ Goto(r, [req[r] EXCEPT !.at = "respond", !.results = discovered[req[r].row]])
      BY <1>0, <1>7 DEF ReadResults, HeldOK
    <2> QED
      BY <1>0, <2>1 DEF Goto, Local
  <1>8. CASE LockUser(r) /\ ~Finish(r)
    <2>1. req[r].held = {} /\ Goto(r, [req[r] EXCEPT !.at = "insertClosure"])
      BY <1>0, <1>8 DEF LockUser, HeldOK
    <2> QED
      BY <1>0, <2>1 DEF Goto, Local
  <1>9. SaveResults(r) \/ Respond(r) \/ InsertClosure(r) \/ CommitCompletion(r) \/ CommitDeletion(r)
        \/ BreakDeadlock(r) \/ RollBack(r) => Finish(r)
    BY DEF SaveResults, Respond, InsertClosure, CommitCompletion, CommitDeletion, BreakDeadlock, RollBack, Abort
  <1> QED
    BY <1>1, <1>2, <1>3, <1>4, <1>5, <1>6, <1>7, <1>8, <1>9 DEF Proceed

\* A deletion on its way: it locks the rows it has found, then the user row.
LEMMA DeletionStep ==
  ASSUME WInv, NEW r \in Requests, DeleteChildren(r) \/ (DeleteUserRow(r) /\ ~Finish(r))
  PROVE  /\ \A q \in Requests \ {r} : req'[q] = req[q]
         /\ req'[r].user = req[r].user /\ req[r].user \in Users
         /\ WaitsFor(r) = {} /\ UNCHANGED <<tables, hibp>>
         /\ DeleteChildren(r) => req[r].at = "flush" /\ req'[r].at = "deleteUser" /\ req'[r].held = RowsOf(req[r].user)
         /\ DeleteUserRow(r) => req[r].at = "deleteUser" /\ req'[r].at = "cascade" /\ req'[r].held = req[r].held
  <1>0. req \in [Requests -> Local] /\ req[r] \in Local /\ LocalOK(req[r])
    BY DEF WInv, DInv, TypeOK
  <1>1. CASE DeleteChildren(r)
    <2>1. req[r].at = "flush" /\ Goto(r, [req[r] EXCEPT !.at = "deleteUser", !.held = RowsOf(req[r].user)])
      BY <1>1 DEF DeleteChildren
    <2>2. req[r].user \in Users /\ WaitsFor(r) = {} /\ UNCHANGED <<tables, hibp>> /\ ~DeleteUserRow(r)
      BY <1>0, <1>1, <2>1 DEF DeleteChildren, DeleteUserRow, LocalOK
    <2> QED
      BY <1>0, <2>1, <2>2 DEF Goto, Local
  <1>2. CASE DeleteUserRow(r) /\ ~Finish(r)
    <2>1. req[r].at = "deleteUser" /\ Goto(r, [req[r] EXCEPT !.at = "cascade"])
      BY <1>2 DEF DeleteUserRow
    <2>2. req[r].user \in Users /\ WaitsFor(r) = {} /\ UNCHANGED <<tables, hibp>> /\ ~DeleteChildren(r)
      BY <1>0, <1>2, <2>1 DEF DeleteChildren, DeleteUserRow, LocalOK
    <2> QED
      BY <1>0, <2>1, <2>2 DEF Goto, Local
  <1> QED
    BY <1>1, <1>2

LEMMA RowsKept ==
  ASSUME NEW u \in Users,
         \A s \in ScansOf(u) : scan'[s] # Nil /\ scan'[s].owner = u /\ discovered[s] \subseteq discovered'[s],
         \A c \in ClosuresOf(u) : closure'[c] # Nil /\ closure'[c].owner = u
  PROVE  RowsOf(u) \subseteq RowsOf(u)'
  <1>1. ScansOf(u) \subseteq ScansOf(u)' /\ ClosuresOf(u) \subseteq ClosuresOf(u)'
    BY DEF ScansOf, ClosuresOf
  <1>2. AccountsOf(u) \subseteq AccountsOf(u)'
    BY <1>1 DEF AccountsOf
  <1> QED
    BY <1>1, <1>2 DEF RowsOf

\* Only the deletion of its account takes a row away.
LEMMA RowsStay ==
  ASSUME DInv, NEW r \in Requests, Arrive(r) \/ Proceed(r) \/ BreakDeadlock(r) \/ RollBack(r),
         NEW u \in Users, ~(CommitDeletion(r) /\ req[r].user = u)
  PROVE  RowsOf(u) \subseteq RowsOf(u)'
  <1>0. TypeOK /\ SessionsOK /\ ClosuresIssued /\ RowsHaveOwners
    BY DEF DInv
  <1>1. CASE UNCHANGED <<scan, discovered, closure>>
    BY <1>1, RowsKept DEF ScansOf, ClosuresOf
  <1>2. CASE OpenSession(r) /\ ~Abort(r)
    <2> PICK s \in Scans \ issued :
          scan' = [scan EXCEPT ![s] = [owner |-> req[r].user, status |-> "running",
                                       emails |-> Cardinality(req[r].todo), found |-> 0]]
      BY <1>2 DEF OpenSession
    <2>1. UNCHANGED <<discovered, closure>>
      BY <1>2 DEF OpenSession
    <2>2. \A o \in ScansOf(u) : scan'[o] = scan[o] /\ scan[o] # Nil /\ scan[o].owner = u
      BY <1>0 DEF TypeOK, SessionsOK, ScansOf
    <2> QED
      BY <2>1, <2>2, RowsKept DEF ClosuresOf
  <1>3. CASE SaveResults(r) /\ ~Abort(r)
    <2> PICK s \in Scans : s = req[r].row
      BY <1>3 DEF SaveResults, DInv, LocalOK, Works
    <2>1. /\ discovered' = [discovered EXCEPT ![s] = Distinct(req[r].reports)]
          /\ scan' = [scan EXCEPT ![s].status = "completed", ![s].found = Found(req[r].reports)]
          /\ scan[s] # Nil /\ closure' = closure
      BY <1>3 DEF SaveResults
    <2>2. scan[s] \in ScanRow /\ discovered[s] = {}
      BY <1>0, <1>3, <2>1 DEF TypeOK, SaveResults, DInv, LocalOK, Works, SessionsOK
    <2>3. /\ scan'[s] = [scan[s] EXCEPT !.status = "completed", !.found = Found(req[r].reports)]
          /\ \A o \in Scans \ {s} : scan'[o] = scan[o] /\ discovered'[o] = discovered[o]
      BY <1>0, <2>1 DEF TypeOK
    <2>4. scan'[s].owner = scan[s].owner /\ scan'[s] \in ScanRow
      <3>1. Found(req[r].reports) \in Nat
        BY DistinctOK
      <3> QED
        BY <2>2, <2>3, <3>1 DEF ScanRow
    <2>5. \A o \in ScansOf(u) : scan'[o] # Nil /\ scan'[o].owner = u /\ discovered[o] \subseteq discovered'[o]
      BY <2>2, <2>3, <2>4, NilAssumption DEF ScansOf
    <2> QED
      BY <2>1, <2>5, RowsKept DEF ClosuresOf
  <1>4. CASE InsertClosure(r) /\ ~Abort(r)
    <2> PICK c \in Closures \ issued :
          closure' = [closure EXCEPT ![c] = [owner |-> req[r].user, target |-> req[r].row, status |-> "pending"]]
      BY <1>4 DEF InsertClosure
    <2>1. UNCHANGED <<scan, discovered>>
      BY <1>4 DEF InsertClosure
    <2>2. \A o \in ClosuresOf(u) : closure'[o] = closure[o] /\ closure[o] # Nil /\ closure[o].owner = u
      BY <1>0 DEF TypeOK, ClosuresIssued, ClosuresOf
    <2> QED
      BY <2>1, <2>2, RowsKept DEF ScansOf
  <1>5. CASE CommitCompletion(r) /\ ~Abort(r)
    <2> PICK c \in Closures : c = req[r].row
      BY <1>5 DEF CommitCompletion, DInv, LocalOK
    <2>1. /\ closure' = [closure EXCEPT ![c].status = "completed"]
          /\ closure[c] # Nil /\ UNCHANGED <<scan, discovered>>
      BY <1>5 DEF CommitCompletion
    <2>2. closure[c] \in ClosureRow
      BY <1>0, <2>1 DEF TypeOK
    <2>3. /\ closure'[c] = [closure[c] EXCEPT !.status = "completed"]
          /\ \A o \in Closures \ {c} : closure'[o] = closure[o]
      BY <1>0, <2>1 DEF TypeOK
    <2>4. closure'[c].owner = closure[c].owner /\ closure'[c] \in ClosureRow
      BY <2>2, <2>3 DEF ClosureRow
    <2>5. \A o \in ClosuresOf(u) : closure'[o] # Nil /\ closure'[o].owner = u
      BY <2>3, <2>4, NilAssumption DEF ClosuresOf
    <2> QED
      BY <2>1, <2>5, RowsKept DEF ScansOf
  <1>6. CASE CommitDeletion(r)
    <2>1. req[r].user # u
      BY <1>6
    <2>2. /\ \A s \in ScansOf(u) : scan'[s] = scan[s] /\ discovered'[s] = discovered[s]
          /\ \A c \in ClosuresOf(u) : closure'[c] = closure[c]
      BY <1>6, <2>1, DeletionLeaves DEF ScansOf, ClosuresOf
    <2> QED
      BY <2>2, RowsKept DEF ScansOf, ClosuresOf
  <1>7. Arrive(r) \/ BreakDeadlock(r) \/ RollBack(r) \/ Abort(r) => UNCHANGED <<scan, discovered, closure>>
    BY DEF Arrive, StartScan, GetScan, RequestClosure, CompleteClosure, DeleteAccount, BreakDeadlock,
           RollBack, Abort, tables
  <1>8. TakeMailbox(r) \/ Gather(r) \/ GatherResults(r) \/ ReadResults(r) \/ Respond(r)
        \/ LockUser(r) \/ DeleteChildren(r) \/ DeleteUserRow(r) => UNCHANGED <<scan, discovered, closure>>
    BY <1>7 DEF TakeMailbox, Gather, GatherResults, ReadResults, Respond, LockUser, DeleteChildren,
                DeleteUserRow, tables
  <1> QED
    BY <1>1, <1>2, <1>3, <1>4, <1>5, <1>6, <1>7, <1>8 DEF Proceed

\* A deletion that commits takes nothing that another request has locked.
LEMMA OthersHold ==
  ASSUME WInv, NEW r \in Requests, Arrive(r) \/ Proceed(r) \/ BreakDeadlock(r) \/ RollBack(r),
         NEW q \in Requests \ {r}, req'[q] = req[q]
  PROVE  HeldOK(req[q])'
  <1>0. HeldOK(req[q]) /\ LocalOK(req[q])
    BY DEF WInv, DInv
  <1>1. CASE req[q].held = {}
    BY <1>1 DEF HeldOK
  <1>2. CASE req[q].held # {}
    <2> PICK u \in Users : u = req[q].user
      BY <1>0, <1>2 DEF HeldOK, LocalOK
    <2>1. ASSUME CommitDeletion(r), req[r].user = u PROVE FALSE
      <3>1. req[q].held \cap (RowsOf(u) \ req[r].held) = {}
        BY <2>1 DEF CommitDeletion, WaitsFor, Wants
      <3>2. req[q].held \cap req[r].held = {} /\ req[q].held \subseteq RowsOf(u)
        BY <1>0 DEF WInv, Apart, HeldOK
      <3> QED
        BY <1>2, <3>1, <3>2
    <2>2. RowsOf(u) \subseteq RowsOf(u)'
      BY <2>1, RowsStay DEF WInv
    <2>3. req'[q].user = u /\ req'[q].held \subseteq RowsOf(u)'
      BY <1>0, <2>2 DEF HeldOK
    <2> QED
      BY <1>0, <2>3 DEF HeldOK, RowsOf, ScansOf, AccountsOf, ClosuresOf
  <1> QED
    BY <1>1, <1>2

LEMMA StepLocks ==
  ASSUME WInv, NEW r \in Requests, Arrive(r) \/ Proceed(r) \/ BreakDeadlock(r) \/ RollBack(r)
  PROVE  Apart' /\ OneCascade' /\ \A q \in Requests : HeldOK(req[q])'
  <1>1. CASE ~DeleteChildren(r) /\ (DeleteUserRow(r) => Finish(r))
    <2>1. /\ req'[r].held = {} /\ req'[r].at \notin {"deleteUser", "cascade"}
          /\ \A q \in Requests \ {r} : req'[q] = req[q]
      BY <1>1, BareStep
    <2>2. Apart' /\ OneCascade'
      BY <2>1 DEF WInv, Apart, OneCascade
    <2>3. HeldOK(req[r])'
      BY <2>1 DEF HeldOK
    <2> QED
      BY <2>1, <2>2, <2>3, OthersHold
  <1>2. CASE DeleteChildren(r) \/ (DeleteUserRow(r) /\ ~Finish(r))
    <2>1. /\ \A q \in Requests \ {r} : req'[q] = req[q]
          /\ req'[r].user = req[r].user /\ WaitsFor(r) = {} /\ UNCHANGED tables
          /\ DeleteChildren(r) => req[r].at = "flush" /\ req'[r].at = "deleteUser" /\ req'[r].held = RowsOf(req[r].user)
          /\ DeleteUserRow(r) => req[r].at = "deleteUser" /\ req'[r].at = "cascade" /\ req'[r].held = req[r].held
      BY <1>2, DeletionStep
    <2>2. req'[r].held \subseteq RowsOf(req[r].user)
      BY <1>2, <2>1 DEF WInv, HeldOK
    <2>3. HeldOK(req[r])'
      <3>1. req'[r].held \subseteq RowsOf(req[r].user) /\ UNCHANGED <<scan, discovered, closure>>
        BY <2>1, <2>2 DEF tables
      <3> QED
        BY <1>2, <2>1, <3>1 DEF HeldOK, RowsOf, ScansOf, AccountsOf, ClosuresOf
    <2>4. \A q \in Requests \ {r} : req'[r].held \cap req[q].held = {}
      <3>1. CASE DeleteChildren(r)
        BY <2>1, <3>1 DEF WaitsFor, Wants
      <3>2. CASE DeleteUserRow(r)
        BY <2>1, <3>2 DEF WInv, Apart
      <3> QED
        BY <1>2, <3>1, <3>2
    <2>5. Apart'
      BY <2>1, <2>4 DEF WInv, Apart
    <2>6. OneCascade'
      <3>1. CASE DeleteChildren(r)
        BY <2>1, <3>1 DEF WInv, OneCascade
      <3>2. CASE DeleteUserRow(r)
        <4>1. \A q \in Requests \ {r} : ~(req[q].at = "cascade" /\ req[q].user = req[r].user)
          BY <2>1, <3>2 DEF WaitsFor, WantsUser, HoldsUser
        <4> QED
          BY <2>1, <4>1 DEF WInv, OneCascade
      <3> QED
        BY <1>2, <3>1, <3>2
    <2> QED
      BY <2>1, <2>3, <2>5, <2>6, OthersHold
  <1> QED
    BY <1>1, <1>2

\* The semaphore is given back with the results or with the request; nobody
\* waits for a request that has it, so that the deadlock detector never ends it.
LEMMA StepSemaphore ==
  ASSUME WInv, NEW r \in Requests, Arrive(r) \/ Proceed(r) \/ BreakDeadlock(r) \/ RollBack(r)
  PROVE  SemaphoreOK'
  <1>0. SemaphoreOK /\ HeldOK(req[r]) /\ req \in [Requests -> Local] /\ req[r] \in Local /\ hibp \in Requests \cup {Nil}
    BY DEF WInv, DInv, TypeOK
  <1>1. \A q \in Requests \ {r} : req'[q] = req[q]
    BY BareStep, DeletionStep
  <1>2. CASE hibp' = Nil
    BY <1>2 DEF SemaphoreOK
  <1>3. CASE hibp' = hibp /\ hibp # r
    BY <1>0, <1>1, <1>3 DEF SemaphoreOK
  <1>4. CASE Gather(r)
    BY <1>0, <1>4 DEF Gather, Goto, SemaphoreOK, Local
  <1>5. CASE hibp = r
    <2>1. r # Nil
      BY NilAssumption
    <2>2. req[r].at = "gather" /\ req[r].held = {}
      BY <1>0, <1>5, <2>1 DEF SemaphoreOK, HeldOK
    <2>3. ~BreakDeadlock(r)
      <3>1. \A s \in Requests : r \notin WaitsFor(s)
        BY <2>2 DEF WaitsFor, HoldsUser
      <3> QED
        BY <3>1 DEF BreakDeadlock, InCycle, WaitsFor
    <2>4. CASE RollBack(r)
      BY <1>2, <1>5, <2>4 DEF RollBack
    <2>5. ~Arrive(r)
      BY <2>2 DEF Arrive, StartScan, GetScan, RequestClosure, CompleteClosure, DeleteAccount, Begin
    <2>6. Proceed(r) => GatherResults(r)
      BY <2>2 DEF Proceed, OpenSession, TakeMailbox, Gather, SaveResults, ReadResults, Respond, LockUser,
                  InsertClosure, CommitCompletion, DeleteChildren, DeleteUserRow, CommitDeletion
    <2>7. CASE GatherResults(r)
      BY <1>2, <2>7 DEF GatherResults
    <2> QED
      BY <2>3, <2>4, <2>5, <2>6, <2>7
  <1>6. Gather(r) \/ GatherResults(r) \/ hibp' = Nil \/ hibp' = hibp
    <2>1. Arrive(r) \/ BreakDeadlock(r) \/ RollBack(r) \/ Abort(r) => hibp' \in {Nil, hibp}
      BY DEF Arrive, StartScan, GetScan, RequestClosure, CompleteClosure, DeleteAccount, BreakDeadlock,
             RollBack, Abort
    <2>2. Proceed(r) => Gather(r) \/ GatherResults(r) \/ hibp' = hibp
      BY DEF Proceed, OpenSession, TakeMailbox, SaveResults, ReadResults, Respond, LockUser, Abort,
             InsertClosure, CommitCompletion, DeleteChildren, DeleteUserRow, CommitDeletion
    <2> QED
      BY <2>1, <2>2
  <1>7. GatherResults(r) => hibp' = Nil
    BY DEF GatherResults
  <1> QED
    BY <1>2, <1>3, <1>4, <1>5, <1>6, <1>7

LEMMA WInvAlways == Spec => []WInv
  <1>1. Init => WInv
    <2> SUFFICES ASSUME Init PROVE WInv
      OBVIOUS
    <2>1. \A r \in Requests : req[r] = Idle
      BY DEF Init
    <2>2. \A r \in Requests : HeldOK(req[r])
      BY <2>1 DEF HeldOK, Idle
    <2> QED
      BY <2>1, <2>2, InitDInv DEF Init, WInv, Apart, OneCascade, SemaphoreOK, Idle
  <1>2. WInv /\ [Next]_vars => WInv'
    <2> SUFFICES ASSUME WInv, [Next]_vars PROVE WInv'
      OBVIOUS
    <2>1. DInv'
      BY StepDInv DEF WInv
    <2>2. CASE UNCHANGED vars
      <3>1. UNCHANGED <<scan, discovered, closure, hibp, req>>
        BY <2>2 DEF vars
      <3>2. Apart' /\ OneCascade' /\ SemaphoreOK'
        BY <3>1 DEF WInv, Apart, OneCascade, SemaphoreOK
      <3>3. \A r \in Requests : HeldOK(req[r])'
        BY <3>1 DEF WInv, HeldOK, RowsOf, ScansOf, AccountsOf, ClosuresOf
      <3> QED
        BY <2>1, <3>2, <3>3 DEF WInv
    <2>3. ASSUME NEW r \in Requests, Arrive(r) \/ Proceed(r) \/ BreakDeadlock(r) \/ RollBack(r)
          PROVE  WInv'
      <3>1. Apart' /\ OneCascade' /\ \A q \in Requests : HeldOK(req[q])'
        BY <2>3, StepLocks
      <3>2. SemaphoreOK'
        BY <2>3, StepSemaphore
      <3> QED
        BY <2>1, <3>1, <3>2 DEF WInv
    <2> QED
      BY <2>2, <2>3 DEF Next
  <1> QED
    BY <1>1, <1>2, PTL DEF Spec

\* A row belongs to one user.
LEMMA OneOwner ==
  ASSUME DInv, NEW u, NEW v, NEW x \in RowsOf(u), x \in RowsOf(v) PROVE u = v
  <1>1. CASE x \in Scans
    BY <1>1, RowsAssumption DEF RowsOf, ScansOf, AccountsOf, ClosuresOf
  <1>2. CASE x \in Closures
    BY <1>2, RowsAssumption DEF RowsOf, ScansOf, AccountsOf, ClosuresOf
  <1>3. CASE x \in Account
    BY <1>3, RowsAssumption DEF RowsOf, ScansOf, AccountsOf, ClosuresOf
  <1> QED
    BY <1>1, <1>2, <1>3 DEF RowsOf, ScansOf, AccountsOf, ClosuresOf

\* Everybody who is at work waits for a lock, and nobody for one that waits for
\* it.
AllStuck ==
  \A r \in Requests : req[r].at # "idle" =>
    WaitsFor(r) # {} /\ \A q \in WaitsFor(r) : r \notin WaitsFor(q)

\* Then nobody deletes a user row: it would wait for the rows of a deletion that
\* waits for it.
LEMMA NoneCascades ==
  ASSUME WInv, AllStuck, NEW d \in Requests, req[d].at = "cascade" PROVE FALSE
  <1>1. WaitsFor(d) # {} /\ ~WantsUser(d)
    BY DEF AllStuck, WantsUser
  <1>2. Wants(d) = RowsOf(req[d].user) \ req[d].held
    BY DEF Wants
  <1> PICK q \in Requests \ {d} : req[q].held \cap RowsOf(req[d].user) # {} /\ q \in WaitsFor(d)
    BY <1>1, <1>2 DEF WaitsFor
  <1>3. req[q].at \in {"deleteUser", "cascade"} /\ req[q].held \subseteq RowsOf(req[q].user)
    BY DEF WInv, HeldOK
  <1>4. req[q].user = req[d].user
    BY <1>3, OneOwner DEF WInv
  <1>5. req[q].at = "deleteUser"
    BY <1>3, <1>4 DEF WInv, OneCascade
  <1>6. d \in WaitsFor(q)
    BY <1>4, <1>5 DEF WaitsFor, WantsUser, HoldsUser
  <1> QED
    BY <1>6 DEF AllStuck

\* And nobody inserts a closure: it would wait for the account of a deletion that
\* waits for it.
LEMMA NoneInserts ==
  ASSUME WInv, AllStuck, NEW c \in Requests, req[c].at = "insertClosure" PROVE FALSE
  <1>1. WaitsFor(c) # {} /\ ~WantsUser(c) /\ Wants(c) = {req[c].row}
    BY DEF AllStuck, WantsUser, Wants
  <1> PICK q \in Requests \ {c} : req[c].row \in req[q].held /\ q \in WaitsFor(c)
    BY <1>1 DEF WaitsFor
  <1>2. req[q].at = "deleteUser" /\ req[c].row \in RowsOf(req[q].user)
    BY NoneCascades DEF WInv, HeldOK
  <1>3. req[q].user = req[c].user
    <2>1. LocalOK(req[c])
      BY DEF WInv, DInv
    <2>2. req[c].row \in Account /\ (scan[req[c].row[1]] # Nil => scan[req[c].row[1]].owner = req[c].user)
      BY <2>1 DEF LocalOK
    <2>3. req[c].row \in AccountsOf(req[q].user)
      BY <1>2, <2>2, RowsAssumption DEF RowsOf, ScansOf, ClosuresOf
    <2> QED
      BY <2>2, <2>3 DEF AccountsOf, ScansOf
  <1>4. c \in WaitsFor(q)
    BY <1>2, <1>3 DEF WaitsFor, WantsUser, HoldsUser
  <1> QED
    BY <1>4 DEF AllStuck

LEMMA NotAllStuck ==
  ASSUME WInv, AllStuck, NEW r \in Requests, req[r].at # "idle" PROVE FALSE
  <1>1. \A q \in Requests : req[q].at \notin {"cascade", "insertClosure"}
    BY NoneCascades, NoneInserts
  <1>2. \A q \in Requests : req[q].at # "deleteUser"
    <2> SUFFICES ASSUME NEW q \in Requests, req[q].at = "deleteUser" PROVE FALSE
      OBVIOUS
    <2>1. WaitsFor(q) # {} /\ Wants(q) = {}
      BY DEF AllStuck, Wants
    <2> QED
      BY <1>1, <2>1 DEF WaitsFor, HoldsUser
  <1>3. \A q \in Requests : req[q].held = {}
    BY <1>1, <1>2 DEF WInv, HeldOK
  <1>4. WaitsFor(r) = {}
    BY <1>1, <1>3 DEF WaitsFor, HoldsUser
  <1> QED
    BY <1>4 DEF AllStuck

\* The row locks of any number of requests and the semaphore of the HIBP scanner
\* never stop all of them without a cycle of two, which the deadlock detector
\* ends (request_closure, delete_account, start_scan).
THEOREM NeverStandstill == Spec => []NoStandstill
  <1>1. WInv => NoStandstill
    <2> SUFFICES ASSUME WInv, NEW r \in Requests, req[r].at # "idle", ~NoStandstill PROVE FALSE
      BY DEF NoStandstill
    <2>1. ASSUME NEW q \in Requests, req[q].at = "queue" PROVE FALSE
      <3>1. WaitsFor(q) = {}
        BY <2>1 DEF WaitsFor, Wants, WantsUser
      <3>2. hibp \in Requests
        BY <2>1, <3>1 DEF NoStandstill, WInv, DInv, TypeOK
      <3> PICK h \in Requests : h = hibp
        BY <3>2
      <3>3. req[h].at = "gather"
        BY NilAssumption DEF WInv, SemaphoreOK
      <3>4. WaitsFor(h) = {}
        BY <3>3 DEF WaitsFor, Wants, WantsUser
      <3> QED
        BY <3>3, <3>4 DEF NoStandstill
    <2>2. AllStuck
      BY <2>1 DEF NoStandstill, InCycle, AllStuck
    <2> QED
      BY <2>2, NotAllStuck
  <1> QED
    BY <1>1, WInvAlways, PTL
=============================================================================
