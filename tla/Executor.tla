------------------------------ MODULE Executor ------------------------------
(***************************************************************************)
(* What a user of the thread pool sees of class JobQue: jobs are submitted,*)
(* each of them runs once, wait() returns when all of them have run, and   *)
(* a destroyed pool runs nothing.  Threads, locks, counters and the two    *)
(* lists of jobs are not visible; the order of jobs is left open.          *)
(***************************************************************************)
CONSTANTS Jobs

VARIABLES
  status,   \* "new", "submitted", "running" or "done", for each job
  owner     \* the owner: "free", "waited" (wait is about to return) or "closed"

vars == <<status, owner>>

Statuses == {"new", "submitted", "running", "done"}

Init ==
  /\ status = [j \in Jobs |-> "new"]
  /\ owner = "free"

Change(j, from, to) ==
  /\ owner # "closed"
  /\ status[j] = from
  /\ status' = [status EXCEPT ![j] = to]
  /\ UNCHANGED owner

\* push and EvalOnMainThread
Submit(j) == Change(j, "new", "submitted")

Start(j) == Change(j, "submitted", "running")

End(j) == Change(j, "running", "done")

\* wait has found everything done
Waited ==
  /\ owner = "free"
  /\ \A j \in Jobs : status[j] \in {"new", "done"}
  /\ owner' = "waited"
  /\ UNCHANGED status

Return ==
  /\ owner = "waited"
  /\ owner' = "free"
  /\ UNCHANGED status

\* The destructor has ended.  Jobs that were not started never will be.
Close ==
  /\ owner = "free"
  /\ \A j \in Jobs : status[j] # "running"
  /\ owner' = "closed"
  /\ UNCHANGED status

Next ==
  \/ \E j \in Jobs : Submit(j) \/ Start(j) \/ End(j)
  \/ Waited \/ Return \/ Close

Spec == Init /\ [][Next]_vars
=============================================================================
