------------------------------- MODULE JobQue -------------------------------
(***************************************************************************)
(* The thread pool of the runtime: class JobQue of misc/job_que.{h,cpp}.   *)
(*                                                                         *)
(* Worker threads run JobQue::job.  One owner thread, Main, creates the    *)
(* queue, submits jobs, evaluates main-thread jobs, waits and destroys the *)
(* queue.  Everything the code does while it holds mFifoMutex is one       *)
(* atomic step; the code between two critical sections (the test of        *)
(* mShutdown, the body of a job, the last decrement of mThreadCount) is a  *)
(* step of its own, so all interleavings the locks allow are explored.     *)
(*                                                                         *)
(* A job is an identifier; its priority and category are constants.  The   *)
(* body of a job is arbitrary code: while it runs it may push further jobs *)
(* and post jobs to the main thread, and it ends at some point.            *)
(***************************************************************************)
EXTENDS Integers, FiniteSets, Sequences, SequencesExt

CONSTANTS
  Workers,      \* the worker threads (mThreadCount = get_num_threads() of them)
  Main,         \* the thread that owns the queue
  Jobs,         \* job identifiers, each submitted at most once
  Priority,     \* [Jobs -> Int]   JobEntry::priority
  Category,     \* [Jobs -> Nat]   JobEntry::category
  Inactive,     \* JobPriority::Inactive, no job's priority
  NoJob         \* an empty Job

ASSUME JobQueAssumption ==
  /\ IsFiniteSet(Workers) /\ Workers # {}
  /\ Main \notin Workers
  /\ NoJob \notin Jobs
  /\ Priority \in [Jobs -> Int]
  /\ Category \in [Jobs -> Nat]
  /\ \A j \in Jobs : Inactive # Priority[j]

VARIABLES
  mFifo,            \* deque<JobEntry>, front first
  mThreads,         \* vector<ThreadEntry>: currentPriority and currentCategory
  mJobsRunning,     \* atomic<int>
  mThreadCount,     \* atomic<int>
  mShutdown,        \* atomic<bool>
  mEvalMainThread,  \* vector<Job> for the main thread
  results,          \* the local vector of EvalMainThreadJobs, still to be run
  inWait,           \* whether EvalMainThreadJobs was called by wait
  pc,               \* where each thread is in its code
  cur,              \* the local variable "job" of each thread
  submitted,        \* history: jobs handed to push or EvalOnMainThread, in order
  finished          \* history: jobs whose function has returned

queueVars == <<mFifo, mThreads, mJobsRunning>>
poolVars  == <<mThreadCount, mShutdown>>
mainVars  == <<mEvalMainThread, results, inWait>>
histVars  == <<submitted, finished>>
vars == <<queueVars, poolVars, mainVars, histVars, pc, cur>>

Threads == Workers \cup {Main}

WorkerPc == {"loop", "fetch", "run", "retire", "exited"}
MainPc   == {"idle", "wait", "drain", "swap", "eval", "run", "waited", "join", "joined"}

Goto(t, from, to) == pc[t] = from /\ pc' = [pc EXCEPT ![t] = to]

\* Position counted by ticket: the order in which two jobs were submitted.
Ticket(j) == CHOOSE i \in DOMAIN submitted : submitted[i] = j

-----------------------------------------------------------------------------
(* The constructor: every worker is started before the object is visible.  *)

Init ==
  /\ mFifo = <<>>
  /\ mThreads = [w \in Workers |-> [currentPriority |-> Inactive, currentCategory |-> 0]]
  /\ mJobsRunning = 0
  /\ mThreadCount = Cardinality(Workers)
  /\ mShutdown = FALSE
  /\ mEvalMainThread = <<>>
  /\ results = <<>>
  /\ inWait = FALSE
  /\ pc = [t \in Threads |-> IF t = Main THEN "idle" ELSE "loop"]
  /\ cur = [t \in Threads |-> NoJob]
  /\ submitted = <<>>
  /\ finished = {}

-----------------------------------------------------------------------------
(* Submission.  lower_bound with the comparison lhs.priority >= priority   *)
(* returns the partition point of the sorted queue: p entries of at least  *)
(* this priority come first, all the others are below it.                  *)

\* Fault: the comparison is strict, an equal priority is inserted in front.
PartitionPointStrict(q, prio, p) ==
  /\ \A i \in 1..p : Priority[q[i]] > prio
  /\ \A i \in p+1..Len(q) : Priority[q[i]] <= prio

PartitionPoint(q, prio, p) ==
  /\ \A i \in 1..p : Priority[q[i]] >= prio
  /\ \A i \in p+1..Len(q) : Priority[q[i]] < prio

\* JobQue::submit
submit(j) ==
  \E p \in 0..Len(mFifo) :
    /\ PartitionPoint(mFifo, Priority[j], p)
    /\ mFifo' = InsertAt(mFifo, p + 1, j)

\* Code that may call into the queue: the owner between two calls, and any
\* thread while it runs the body of a job.
CanCall(t) == pc[t] = "run" \/ (t = Main /\ pc[Main] = "idle")

Fresh(j) == j \notin ToSet(submitted)

\* JobQue::push
push(t, j) ==
  /\ CanCall(t) /\ Fresh(j)
  /\ submit(j)
  /\ submitted' = Append(submitted, j)
  /\ UNCHANGED <<mThreads, mJobsRunning, poolVars, mainVars, finished, pc, cur>>

\* JobQue::EvalOnMainThread
EvalOnMainThread(t, j) ==
  /\ CanCall(t) /\ Fresh(j)
  /\ mEvalMainThread' = Append(mEvalMainThread, j)
  /\ submitted' = Append(submitted, j)
  /\ UNCHANGED <<queueVars, poolVars, results, inWait, finished, pc, cur>>

-----------------------------------------------------------------------------
(* JobQue::job, the loop of a worker.                                      *)

\* while (!mShutdown): the flag is read outside the lock.
LoopTest(w) ==
  /\ ~mShutdown
  /\ Goto(w, "loop", "fetch")
  /\ UNCHANGED <<queueVars, poolVars, mainVars, histVars, cur>>

\* wait_for returned true: take the front job, all under mFifoMutex.
Fetch(w) ==
  /\ mFifo # <<>>
  /\ Goto(w, "fetch", "run")
  /\ LET j == Head(mFifo) IN
       /\ cur' = [cur EXCEPT ![w] = j]
       /\ mThreads' = [mThreads EXCEPT ![w] =
                         [currentPriority |-> Priority[j], currentCategory |-> Category[j]]]
  /\ mFifo' = Tail(mFifo)
  /\ mJobsRunning' = mJobsRunning + 1
  /\ UNCHANGED <<poolVars, mainVars, histVars>>

\* Fault: the timeout path breaks out of the loop.
FetchTimeoutBreaks(w) ==
  /\ mFifo = <<>>
  /\ Goto(w, "fetch", "exited")
  /\ UNCHANGED <<queueVars, poolVars, mainVars, histVars, cur>>

\* wait_for timed out with the predicate false: yield, continue.
FetchTimeout(w) ==
  /\ mFifo = <<>>
  /\ Goto(w, "fetch", "loop")
  /\ UNCHANGED <<queueVars, poolVars, mainVars, histVars, cur>>

\* job() returns.
JobEnd(w) ==
  /\ Goto(w, "run", "retire")
  /\ finished' = finished \cup {cur[w]}
  /\ cur' = [cur EXCEPT ![w] = NoJob]
  /\ UNCHANGED <<queueVars, poolVars, mainVars, submitted>>

\* Fault: the running count is not taken back.
RetireNoDecrement(w) ==
  /\ Goto(w, "retire", "loop")
  /\ mThreads' = [mThreads EXCEPT ![w].currentPriority = Inactive]
  /\ UNCHANGED <<mFifo, mJobsRunning, poolVars, mainVars, histVars, cur>>

\* The second critical section.
Retire(w) ==
  /\ Goto(w, "retire", "loop")
  /\ mThreads' = [mThreads EXCEPT ![w].currentPriority = Inactive]
  /\ mJobsRunning' = mJobsRunning - 1
  /\ UNCHANGED <<mFifo, poolVars, mainVars, histVars, cur>>

\* Fault: a worker leaves without being counted out.
LeaveUncounted(w) ==
  /\ mShutdown
  /\ Goto(w, "loop", "exited")
  /\ UNCHANGED <<queueVars, poolVars, mainVars, histVars, cur>>

\* mShutdown was seen: mThreadCount-- and the thread function returns.
Leave(w) ==
  /\ mShutdown
  /\ Goto(w, "loop", "exited")
  /\ mThreadCount' = mThreadCount - 1
  /\ UNCHANGED <<queueVars, mShutdown, mainVars, histVars, cur>>

-----------------------------------------------------------------------------
(* Queries.  isEmpty(true) takes mEvalMainThreadMutex inside mFifoMutex.   *)

isEmpty(includingMainThreadJobs) ==
  /\ mJobsRunning = 0 /\ mFifo = <<>>
  /\ includingMainThreadJobs => mEvalMainThread = <<>>

\* Fault: the jobs in flight are forgotten.
areJobsPendingQueueOnly(category) ==
  \E i \in DOMAIN mFifo : Category[mFifo[i]] = category

areJobsPending(category) ==
  \/ \E i \in DOMAIN mFifo : Category[mFifo[i]] = category
  \/ \E w \in Workers : /\ mThreads[w].currentPriority # Inactive
                        /\ mThreads[w].currentCategory = category

-----------------------------------------------------------------------------
(* The owner: EvalMainThreadJobs, wait and the destructor (join).          *)

CallEvalMainThreadJobs ==
  /\ Goto(Main, "idle", "swap")
  /\ inWait' = FALSE
  /\ UNCHANGED <<queueVars, poolVars, mEvalMainThread, results, histVars, cur>>

CallWait ==
  /\ Goto(Main, "idle", "wait")
  /\ UNCHANGED <<queueVars, poolVars, mainVars, histVars, cur>>

\* while ( !isEmpty(true) )
WaitOuter ==
  /\ Goto(Main, "wait", IF isEmpty(TRUE) THEN "waited" ELSE "drain")
  /\ UNCHANGED <<queueVars, poolVars, mainVars, histVars, cur>>

\* while ( !isEmpty() ) yield: Main stays here until the queue is drained.
WaitInner ==
  /\ isEmpty(FALSE)
  /\ Goto(Main, "drain", "swap")
  /\ inWait' = TRUE
  /\ UNCHANGED <<queueVars, poolVars, mEvalMainThread, results, histVars, cur>>

WaitReturn ==
  /\ Goto(Main, "waited", "idle")
  /\ UNCHANGED <<queueVars, poolVars, mainVars, histVars, cur>>

\* Fault: the list is copied and stays where it was.
EvalCopy ==
  /\ Goto(Main, "swap", "eval")
  /\ results' = mEvalMainThread
  /\ UNCHANGED <<mEvalMainThread, queueVars, poolVars, inWait, histVars, cur>>

\* swap(results, mEvalMainThread) under mEvalMainThreadMutex.
EvalSwap ==
  /\ Goto(Main, "swap", "eval")
  /\ results' = mEvalMainThread
  /\ mEvalMainThread' = <<>>
  /\ UNCHANGED <<queueVars, poolVars, inWait, histVars, cur>>

\* for (auto & job : results) job();
EvalJob ==
  /\ results # <<>>
  /\ Goto(Main, "eval", "run")
  /\ cur' = [cur EXCEPT ![Main] = Head(results)]
  /\ results' = Tail(results)
  /\ UNCHANGED <<queueVars, poolVars, mEvalMainThread, inWait, histVars>>

EvalJobEnd ==
  /\ Goto(Main, "run", "eval")
  /\ finished' = finished \cup {cur[Main]}
  /\ cur' = [cur EXCEPT ![Main] = NoJob]
  /\ UNCHANGED <<queueVars, poolVars, mainVars, submitted>>

EvalReturn ==
  /\ results = <<>>
  /\ Goto(Main, "eval", IF inWait THEN "wait" ELSE "idle")
  /\ UNCHANGED <<queueVars, poolVars, mainVars, histVars, cur>>

\* ~JobQue: mShutdown = true; jobs still queued are not drained.
JoinBegin ==
  /\ Goto(Main, "idle", "join")
  /\ mShutdown' = TRUE
  /\ UNCHANGED <<queueVars, mThreadCount, mainVars, histVars, cur>>

\* while (mThreadCount) yield; join every thread; mThreads.clear()
JoinEnd ==
  /\ mThreadCount = 0
  /\ Goto(Main, "join", "joined")
  /\ UNCHANGED <<queueVars, poolVars, mainVars, histVars, cur>>

-----------------------------------------------------------------------------
Submit == \E t \in Threads, j \in Jobs : push(t, j) \/ EvalOnMainThread(t, j)

WorkerStep(w) ==
  LoopTest(w) \/ Fetch(w) \/ FetchTimeout(w) \/ JobEnd(w) \/ Retire(w) \/ Leave(w)

\* What the owner does inside a call; the calls themselves are its free choice.
MainStep ==
  \/ WaitOuter \/ WaitInner \/ WaitReturn
  \/ EvalSwap \/ EvalJob \/ EvalJobEnd \/ EvalReturn
  \/ JoinEnd

MainCall == CallEvalMainThreadJobs \/ CallWait \/ JoinBegin

\* The queue object is gone.
Destroyed == pc[Main] = "joined" /\ UNCHANGED vars

Next ==
  \/ Submit
  \/ \E w \in Workers : WorkerStep(w)
  \/ MainStep
  \/ MainCall
  \/ Destroyed

Spec == Init /\ [][Next]_vars

\* Threads are scheduled and job bodies return; nobody is obliged to submit a
\* job or to make a call.
FairSpec ==
  /\ Spec
  /\ \A w \in Workers : WF_vars(WorkerStep(w))
  /\ WF_vars(MainStep)

-----------------------------------------------------------------------------
(* Properties.                                                             *)

\* Every variable has its type; in particular neither counter drops below zero.
TypeOK ==
  /\ mFifo \in Seq(Jobs)
  /\ mThreads \in [Workers -> [currentPriority : Int \cup {Inactive}, currentCategory : Nat]]
  /\ mJobsRunning \in Nat
  /\ mThreadCount \in Nat
  /\ mShutdown \in BOOLEAN
  /\ mEvalMainThread \in Seq(Jobs)
  /\ results \in Seq(Jobs)
  /\ inWait \in BOOLEAN
  /\ pc \in [Threads -> WorkerPc \cup MainPc]
  /\ \A w \in Workers : pc[w] \in WorkerPc
  /\ pc[Main] \in MainPc
  /\ cur \in [Threads -> Jobs \cup {NoJob}]
  /\ submitted \in Seq(Jobs)
  /\ finished \in SUBSET Jobs

\* Where every submitted job is: queued, posted to the main thread, taken from
\* the main-thread list, in the hands of a thread, or finished.
Running == {cur[t] : t \in Threads} \ {NoJob}

\* How far a job is.  One that is in two places at once shows the earlier of them.
JobStatusOf(j) ==
  IF j \in Running THEN "running"
  ELSE IF j \in ToSet(mFifo) \cup ToSet(mEvalMainThread) \cup ToSet(results) THEN "submitted"
  ELSE IF j \in finished THEN "done"
  ELSE "new"

OwnerStatus ==
  IF pc[Main] = "waited" THEN "waited" ELSE IF pc[Main] = "joined" THEN "closed" ELSE "free"

Exec == INSTANCE Executor WITH
  status <- [j \in Jobs |-> JobStatusOf(j)],
  owner <- OwnerStatus

\* The pool is an executor: push, the workers, the main-thread list and its local
\* copy neither lose a job nor run one twice, wait() returns only when every job
\* submitted so far has run, and the destructor only when none is running.
ExecutorImplemented == Exec!Spec

\* mJobsRunning counts the workers between their two critical sections, and
\* mThreadCount the workers that have not left their loop.
CountersExact ==
  /\ mJobsRunning = Cardinality({w \in Workers : pc[w] \in {"run", "retire"}})
  /\ mThreadCount = Cardinality({w \in Workers : pc[w] # "exited"})

\* The queue is ordered by priority, and by submission among equal priorities:
\* the front is always the oldest job of the highest priority waiting.
FifoOrdered ==
  \A i, k \in DOMAIN mFifo : i < k =>
    \/ Priority[mFifo[i]] > Priority[mFifo[k]]
    \/ /\ Priority[mFifo[i]] = Priority[mFifo[k]]
       /\ Ticket(mFifo[i]) < Ticket(mFifo[k])

\* When wait() returns every job submitted so far has finished, those posted to
\* the main thread and those submitted by other jobs included.
WaitComplete == pc[Main] = "waited" => ToSet(submitted) \subseteq finished

\* areJobsPending answers false for a category only when every job of that
\* category handed to push has finished.
NotPendingMeansFinished ==
  \A c \in {Category[j] : j \in Jobs} : ~areJobsPending(c) =>
    \A j \in ToSet(submitted) :
      Category[j] = c =>
        j \in finished \cup ToSet(mEvalMainThread) \cup ToSet(results) \cup {cur[Main]}

\* Once ~JobQue has seen mThreadCount = 0 no thread of the pool is inside a job
\* or will touch the queue again.
JoinQuiescent ==
  pc[Main] = "joined" =>
    /\ \A w \in Workers : pc[w] = "exited"
    /\ mJobsRunning = 0

\* A job in the queue is run, unless the queue is shut down first.
EveryJobRuns ==
  \A j \in Jobs : (j \in ToSet(mFifo)) ~> (j \in finished \/ mShutdown)

\* wait() returns.
WaitTerminates == (pc[Main] = "wait") ~> (pc[Main] = "waited")

\* The destructor returns.
JoinTerminates == (pc[Main] = "join") ~> (pc[Main] = "joined")
=============================================================================
