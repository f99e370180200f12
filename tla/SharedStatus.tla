---------------------------- MODULE SharedStatus ----------------------------
(***************************************************************************)
(* The life of a JobStatus, Channel, Stream or LockBox made by one of the  *)
(* *_create functions: the reference count mRef, the notification count    *)
(* mRemaining and the pointers the script holds (misc/job_que.cpp,         *)
(* builtin/module_builtin_jobque.cpp, the capture functions of             *)
(* daslib/jobque_boost.das).                                               *)
(*                                                                         *)
(* The creator captures the object into the lambdas of jobs, which adds a  *)
(* reference, expects a notification from each of them, may join, and      *)
(* removes the object or merely releases it.  Addition and removal of a    *)
(* reference are atomic and take no lock; NotifyAndRelease drops both      *)
(* counts in one critical section.                                         *)
(***************************************************************************)
EXTENDS Integers, FiniteSets

CONSTANTS
  Creator,
  Jobs,         \* jobs whose lambdas capture the object
  Joins,        \* whether the creator joins before it removes the object
  Notifying,    \* the jobs that use notify_and_release; everybody else may use release
  MaxFailures   \* bound: failed calls of remove the creator recovers from

Holders == Jobs \cup {Creator}

VARIABLES
  object,      \* "none", "live" or "deleted"
  mRef,        \* atomic<int>
  mRemaining,  \* uint32_t
  ptr,         \* [Holders -> "unset", "set", "null"] the pointer variable
  joined,      \* the creator has joined since it last dispatched a job
  failures     \* failed calls of remove

vars == <<object, mRef, mRemaining, ptr, joined, failures>>

Init ==
  /\ object = "none"
  /\ mRef = 0
  /\ mRemaining = 0
  /\ ptr = [h \in Holders |-> "unset"]
  /\ joined = FALSE
  /\ failures = 0

\* jobStatusCreate, channelCreate, streamCreate, lockBoxCreate
create ==
  /\ object = "none"
  /\ object' = "live"
  /\ mRef' = 1
  /\ ptr' = [ptr EXCEPT ![Creator] = "set"]
  /\ UNCHANGED <<mRemaining, joined, failures>>

\* Fault: the captured pointer is not counted.
captureUncounted(j) ==
  /\ ptr[Creator] = "set" /\ ptr[j] = "unset"
  /\ mRemaining' = IF j \in Notifying THEN mRemaining + 1 ELSE mRemaining
  /\ ptr' = [ptr EXCEPT ![j] = "set"]
  /\ joined' = FALSE
  /\ UNCHANGED <<object, mRef, failures>>

\* append(1) for a job that will notify, then capture_jobque_*: add_ref
capture(j) ==
  /\ ptr[Creator] = "set" /\ ptr[j] = "unset"
  /\ mRemaining' = IF j \in Notifying THEN mRemaining + 1 ELSE mRemaining
  /\ mRef' = mRef + 1
  /\ ptr' = [ptr EXCEPT ![j] = "set"]
  /\ joined' = FALSE
  /\ UNCHANGED <<object, failures>>

\* notifyAndReleaseJob
NotifyAndRelease(j) ==
  /\ j \in Notifying /\ ptr[j] = "set" /\ object = "live" /\ mRemaining # 0
  /\ mRef' = mRef - 1
  /\ mRemaining' = mRemaining - 1
  /\ ptr' = [ptr EXCEPT ![j] = "null"]
  /\ UNCHANGED <<object, joined, failures>>

\* jobStatusReleaseRef, by a job or by the creator: the object is not deleted here,
\* whatever the count
release(h) ==
  /\ h \in Holders \ Notifying /\ ptr[h] = "set" /\ object = "live"
  /\ mRef' = mRef - 1
  /\ ptr' = [ptr EXCEPT ![h] = "null"]
  /\ UNCHANGED <<object, mRemaining, joined, failures>>

\* Fault: the wait ends with notifications outstanding.
joinEarly ==
  /\ ptr[Creator] = "set" /\ ~joined
  /\ joined' = TRUE
  /\ UNCHANGED <<object, mRef, mRemaining, ptr, failures>>

\* waitForJob returns
join ==
  /\ ptr[Creator] = "set" /\ ~joined /\ mRemaining = 0
  /\ joined' = TRUE
  /\ UNCHANGED <<object, mRef, mRemaining, ptr, failures>>

CallsRemove == ptr[Creator] = "set" /\ (Joins => joined)

\* *_remove with the last reference: delete ch; ch = nullptr
remove ==
  /\ CallsRemove
  /\ mRef - 1 = 0
  /\ mRef' = 0
  /\ object' = "deleted"
  /\ ptr' = [ptr EXCEPT ![Creator] = "null"]
  /\ UNCHANGED <<mRemaining, joined, failures>>

\* *_remove while others hold references: the reference is dropped, then the call
\* throws "... being deleted while being used" and ch stays what it was.
removeFails ==
  /\ CallsRemove /\ failures < MaxFailures
  /\ mRef - 1 # 0
  /\ mRef' = mRef - 1
  /\ failures' = failures + 1
  /\ UNCHANGED <<object, mRemaining, ptr, joined>>

\* Nobody has anything left to do with the object; what happens to it after a
\* delete is not modelled.
Idle ==
  /\ \/ object = "deleted"
     \/ /\ object = "live" /\ \A j \in Jobs : ptr[j] # "set"
        /\ failures = MaxFailures \/ ptr[Creator] = "null"
  /\ UNCHANGED vars

Next ==
  \/ create \/ join \/ remove \/ removeFails
  \/ \E j \in Jobs : capture(j) \/ NotifyAndRelease(j)
  \/ \E h \in Holders : release(h)
  \/ Idle

Spec == Init /\ [][Next]_vars

-----------------------------------------------------------------------------
(* Properties.                                                             *)

\* Who has a pointer to the object that is not null.
Holding == {h \in Holders : ptr[h] = "set"}

\* The count is the number of pointers that are held, less one for every remove that
\* failed.
RefExact == mRef = Cardinality(Holding) - failures

\* When join has returned no job that notifies holds the object any more.  A remove that
\* fails then does so on account of a job that releases without a notification.
JoinedIsLast == joined => \A j \in Notifying : ptr[j] # "set"

\* A remove that deletes the object leaves as many pointers to it behind as removes have
\* failed before, so none if none has: a remove that throws has taken the reference of
\* another holder.
DeletedUnderFailures == object = "deleted" => Cardinality(Holding) = failures

\* The object of a creator that called release is never deleted, although "the object is
\* deleted when the count reaches zero" (function-jobque-release): it is leaked.
ReleasedIsLeaked == [][object = "live" /\ ptr[Creator] = "null" => object' = "live"]_vars

\* The count is exact through captures, releases and failed removes; it says how many
\* still hold an object that is deleted; and only remove deletes.
DeletedByTheLast == [](RefExact /\ DeletedUnderFailures) /\ ReleasedIsLeaked
=============================================================================
