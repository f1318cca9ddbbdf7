------------------------------ MODULE ScanJobs ------------------------------
(***************************************************************************)
(* What discovery promises: a scan reports once, all its results together, *)
(* and they never change; a closure is requested for something a finished  *)
(* scan of the same user found, and once done stays done; both go with the *)
(* account, at one moment, and an id is never given out again.             *)
(***************************************************************************)
CONSTANTS Users, Emails, Services, Scans, Closures, Nil

VARIABLES
  job,      \* each scan: whose it is, whether it has reported, and what
  request,  \* each closure: whose it is, what it is to close, whether it is done
  issued    \* ids ever given out

vars == <<job, request, issued>>

Finding == Emails \X Services

Init ==
  /\ job = [s \in Scans |-> Nil]
  /\ request = [c \in Closures |-> Nil]
  /\ issued = {}

Start(u, s) ==
  /\ s \notin issued
  /\ issued' = issued \cup {s}
  /\ job' = [job EXCEPT ![s] = [owner |-> u, done |-> FALSE, results |-> {}]]
  /\ UNCHANGED request

Report(s, R) ==
  /\ job[s] # Nil
  /\ ~job[s].done
  /\ job' = [job EXCEPT ![s] = [owner |-> @.owner, done |-> TRUE, results |-> R]]
  /\ UNCHANGED <<request, issued>>

RequestClosing(c, s, f) ==
  /\ c \notin issued
  /\ job[s] # Nil
  /\ job[s].done
  /\ f \in job[s].results
  /\ issued' = issued \cup {c}
  /\ request' = [request EXCEPT ![c] = [owner |-> job[s].owner, job |-> s, finding |-> f, done |-> FALSE]]
  /\ UNCHANGED job

CompleteClosing(c) ==
  /\ request[c] # Nil
  /\ request' = [request EXCEPT ![c] = [owner |-> @.owner, job |-> @.job, finding |-> @.finding, done |-> TRUE]]
  /\ UNCHANGED <<job, issued>>

CloseAccount(u) ==
  /\ job' = [s \in Scans |-> IF job[s] # Nil /\ job[s].owner = u THEN Nil ELSE job[s]]
  /\ request' = [c \in Closures |-> IF request[c] # Nil /\ request[c].owner = u THEN Nil ELSE request[c]]
  /\ UNCHANGED issued

Next ==
  \/ \E s \in Scans : (\E u \in Users : Start(u, s)) \/ (\E R \in SUBSET Finding : Report(s, R))
  \/ \E c \in Closures, s \in Scans, f \in Finding : RequestClosing(c, s, f)
  \/ \E c \in Closures : CompleteClosing(c)
  \/ \E u \in Users : CloseAccount(u)

Spec == Init /\ [][Next]_vars
=============================================================================
