----------------------------- MODULE WithJobQue -----------------------------
(***************************************************************************)
(* The life of the global queue: g_jobQue and g_jobQueMutex, with_job_que, *)
(* new_job, new_thread and the destructor of Module_JobQue, all of         *)
(* builtin/module_builtin_jobque.cpp.                                      *)
(*                                                                         *)
(* g_jobQue is a shared_ptr.  It is tested and copied without the lock and *)
(* assigned and reset under it.  The destructor of a queue (JobQue::join)  *)
(* runs in the thread that drops the last reference: it waits for the jobs *)
(* that are running and abandons the queued ones.                          *)
(*                                                                         *)
(* new_job tests g_jobQue, runs the capture function of the lambda, and    *)
(* only then takes the queue from g_jobQue and pushes, without the lock    *)
(* and without a reference.  A use of the null pointer ends the program    *)
(* (crashed); a push to a queue that is gone ends it or loses the job.     *)
(*                                                                         *)
(* Actors are Main, the threads it starts with new_thread, and jobs, each  *)
(* of which may open a scope of its own.  A queue has a worker for every   *)
(* job.                                                                    *)
(***************************************************************************)
EXTENDS Integers, FiniteSets

CONSTANTS
  Main,        \* the thread that loads and unloads the module
  Spawned,     \* threads started by new_thread
  Jobs,        \* jobs, each submitted at most once
  ScopeUsers,  \* actors that call with_job_que
  Spawners,    \* jobs that call new_job; other actors call it in a scope of their own
  MayPanic,    \* actors whose block may panic
  MaxScopes,   \* bound: scopes an actor opens
  MaxQueues,   \* bound: queues created
  Nil

Actors == {Main} \cup Spawned \cup Jobs
Queues == 1..MaxQueues

ASSUME WithJobQueAssumption ==
  /\ Main \notin Spawned \cup Jobs /\ Spawned \cap Jobs = {}
  /\ ScopeUsers \subseteq Actors /\ Spawners \subseteq Jobs /\ MayPanic \subseteq Actors
  /\ IsFiniteSet(Spawned) /\ IsFiniteSet(Jobs)
  /\ MaxScopes \in Nat /\ MaxQueues \in Nat /\ Nil \notin Queues \cup Actors

VARIABLES
  g_jobQue,              \* the queue the global pointer holds, or Nil
  g_jobQueMutex,         \* the actor that holds the mutex, or Nil
  g_jobQueTotalThreads,  \* atomic<int32_t>
  created,               \* number of queues constructed so far
  live,                  \* queues whose destructor has not ended
  pc,                    \* where each actor is in with_job_que, "out" if outside
  jq,                    \* the local shared_ptr of with_job_que
  joining,               \* the queue whose destructor the actor runs, or Nil
  fork,                  \* the job the actor is making in new_job, or Nil
  callee,                \* the queue new_job has read and is about to push to, or Nil
  crashed,               \* the null pointer, or a queue that is gone, was used
  leaked,                \* references a panic has left behind: longjmp runs no destructor
  scopes,                \* scopes opened so far, per actor
  job,                   \* [Jobs -> [state, que]]
  thread,                \* [Spawned -> "new", "run", "teardown" or "ended"]
  refused,               \* actors to whom new_job said "need to be in 'with_job_que' block"
  module                 \* "loaded", "waiting", "counted", "reset" or "gone"

vars == <<g_jobQue, g_jobQueMutex, g_jobQueTotalThreads, created, live, pc, jq, joining,
          leaked, scopes, job, thread, refused, module, fork, callee, crashed>>
scopeVars == <<pc, jq, joining, leaked, scopes>>
queueVars == <<g_jobQue, created, live>>
threadVars == <<thread, g_jobQueTotalThreads>>
newJobVars == <<fork, callee, crashed>>
restVars == <<threadVars, refused, module, newJobVars>>

Init ==
  /\ g_jobQue = Nil /\ g_jobQueMutex = Nil /\ g_jobQueTotalThreads = 0
  /\ created = 0 /\ live = {}
  /\ pc = [a \in Actors |-> "out"]
  /\ jq = [a \in Actors |-> Nil]
  /\ joining = [a \in Actors |-> Nil]
  /\ leaked = [q \in Queues |-> 0]
  /\ scopes = [a \in Actors |-> 0]
  /\ job = [j \in Jobs |-> [state |-> "new", que |-> Nil]]
  /\ thread = [t \in Spawned |-> "new"]
  /\ fork = [a \in Actors |-> Nil]
  /\ callee = [a \in Actors |-> Nil]
  /\ crashed = FALSE
  /\ refused = {}
  /\ module = "loaded"

-----------------------------------------------------------------------------
(* References and the destructor.                                          *)

use_count(q) ==
  (IF g_jobQue = q THEN 1 ELSE 0) + Cardinality({a \in Actors : jq[a] = q}) + leaked[q]

\* What is destroyed when one reference to q is dropped.
Dropped(q) == IF q # Nil /\ use_count(q) = 1 THEN q ELSE Nil

\* JobQue::join of q can return: no worker is inside a job.
JoinReturns(q) == q = Nil \/ \A j \in Jobs : ~(job[j].que = q /\ job[j].state = "running")

\* ... and the jobs still queued go with the queue.
Abandon(q) ==
  /\ live' = live \ {q}
  /\ job' = [j \in Jobs |-> IF q # Nil /\ job[j].que = q /\ job[j].state = "queued"
                            THEN [job[j] EXCEPT !.state = "dropped"] ELSE job[j]]

\* The script of the actor is running ...
Runs(a) ==
  CASE a = Main -> module = "loaded"
    [] a \in Spawned -> thread[a] = "run"
    [] a \in Jobs -> job[a].state = "running"

\* ... and is not inside of new_job.
Free(a) == fork[a] = Nil

-----------------------------------------------------------------------------
(* withJobQue.                                                             *)

\* Fault: the test is inverted.
EnterInverted(a) ==
  /\ a \in ScopeUsers /\ pc[a] = "out" /\ Runs(a) /\ Free(a) /\ scopes[a] < MaxScopes
  /\ scopes' = [scopes EXCEPT ![a] = @ + 1]
  /\ pc' = [pc EXCEPT ![a] = IF g_jobQue # Nil THEN "create" ELSE "copy"]
  /\ UNCHANGED <<queueVars, g_jobQueMutex, jq, joining, leaked, job, restVars>>

\* if ( !g_jobQue ), read without the lock
Enter(a) ==
  /\ a \in ScopeUsers /\ pc[a] = "out" /\ Runs(a) /\ Free(a) /\ scopes[a] < MaxScopes
  /\ scopes' = [scopes EXCEPT ![a] = @ + 1]
  /\ pc' = [pc EXCEPT ![a] = IF g_jobQue = Nil THEN "create" ELSE "copy"]
  /\ UNCHANGED <<queueVars, g_jobQueMutex, jq, joining, leaked, job, restVars>>

\* g_jobQue = make_shared<JobQue>() under the lock, whatever g_jobQue is by now
Create(a) ==
  /\ pc[a] = "create" /\ g_jobQueMutex = Nil /\ created < MaxQueues
  /\ g_jobQueMutex' = a
  /\ joining' = [joining EXCEPT ![a] = Dropped(g_jobQue)]
  /\ created' = created + 1
  /\ g_jobQue' = created + 1
  /\ live' = live \cup {created + 1}
  /\ pc' = [pc EXCEPT ![a] = "created"]
  /\ UNCHANGED <<jq, leaked, scopes, job, restVars>>

\* The queue that was overwritten is gone; unlock.
Created(a) ==
  /\ pc[a] = "created" /\ JoinReturns(joining[a])
  /\ Abandon(joining[a])
  /\ joining' = [joining EXCEPT ![a] = Nil]
  /\ g_jobQueMutex' = Nil
  /\ pc' = [pc EXCEPT ![a] = "copy"]
  /\ UNCHANGED <<g_jobQue, created, jq, leaked, scopes, restVars>>

\* shared_ptr<JobQue> jq = g_jobQue, without the lock
Copy(a) ==
  /\ pc[a] = "copy"
  /\ jq' = [jq EXCEPT ![a] = g_jobQue]
  /\ pc' = [pc EXCEPT ![a] = "block"]
  /\ UNCHANGED <<queueVars, g_jobQueMutex, joining, leaked, scopes, job, restVars>>

\* The block returns and jq is destroyed, and with it a queue nobody else holds.
BlockEnd(a) ==
  /\ pc[a] = "block" /\ Free(a)
  /\ joining' = [joining EXCEPT ![a] = Dropped(jq[a])]
  /\ jq' = [jq EXCEPT ![a] = Nil]
  /\ pc' = [pc EXCEPT ![a] = "dropped"]
  /\ UNCHANGED <<queueVars, g_jobQueMutex, leaked, scopes, job, restVars>>

DropEnd(a) ==
  /\ pc[a] = "dropped" /\ JoinReturns(joining[a])
  /\ Abandon(joining[a])
  /\ joining' = [joining EXCEPT ![a] = Nil]
  /\ pc' = [pc EXCEPT ![a] = "final"]
  /\ UNCHANGED <<g_jobQue, created, g_jobQueMutex, jq, leaked, scopes, restVars>>

\* The block panics: longjmp leaves with_job_que, jq is never destroyed and the
\* last section is not run.
Panic(a) ==
  /\ a \in MayPanic /\ pc[a] = "block" /\ Free(a)
  /\ leaked' = IF jq[a] = Nil THEN leaked ELSE [leaked EXCEPT ![jq[a]] = @ + 1]
  /\ jq' = [jq EXCEPT ![a] = Nil]
  /\ pc' = [pc EXCEPT ![a] = "out"]
  /\ UNCHANGED <<queueVars, g_jobQueMutex, joining, scopes, job, restVars>>

\* Fault: the pointer is never reset.
FinalKeeps(a) ==
  /\ pc[a] = "final" /\ g_jobQueMutex = Nil
  /\ pc' = [pc EXCEPT ![a] = "out"]
  /\ UNCHANGED <<queueVars, g_jobQueMutex, jq, joining, leaked, scopes, job, restVars>>

\* lock; if ( g_jobQue.use_count()==1 ) g_jobQue.reset()
Final(a) ==
  /\ pc[a] = "final" /\ g_jobQueMutex = Nil
  /\ g_jobQueMutex' = a
  /\ joining' = [joining EXCEPT ![a] = Dropped(g_jobQue)]
  /\ g_jobQue' = IF Dropped(g_jobQue) = Nil THEN g_jobQue ELSE Nil
  /\ pc' = [pc EXCEPT ![a] = "reset"]
  /\ UNCHANGED <<created, live, jq, leaked, scopes, job, restVars>>

\* Fault: the destructor does not wait for running jobs.
FinalEndAtOnce(a) ==
  /\ pc[a] = "reset"
  /\ Abandon(joining[a])
  /\ joining' = [joining EXCEPT ![a] = Nil]
  /\ g_jobQueMutex' = Nil
  /\ pc' = [pc EXCEPT ![a] = "out"]
  /\ UNCHANGED <<g_jobQue, created, jq, leaked, scopes, restVars>>

\* Fault: the mutex stays locked.
FinalEndLocked(a) ==
  /\ pc[a] = "reset" /\ JoinReturns(joining[a])
  /\ Abandon(joining[a])
  /\ joining' = [joining EXCEPT ![a] = Nil]
  /\ pc' = [pc EXCEPT ![a] = "out"]
  /\ UNCHANGED <<g_jobQue, g_jobQueMutex, created, jq, leaked, scopes, restVars>>

\* ~JobQue has returned; unlock and return.
FinalEnd(a) ==
  /\ pc[a] = "reset" /\ JoinReturns(joining[a])
  /\ Abandon(joining[a])
  /\ joining' = [joining EXCEPT ![a] = Nil]
  /\ g_jobQueMutex' = Nil
  /\ pc' = [pc EXCEPT ![a] = "out"]
  /\ UNCHANGED <<g_jobQue, created, jq, leaked, scopes, restVars>>

-----------------------------------------------------------------------------
(* new_job, the jobs, new_thread and the threads.                          *)

\* new_job is called inside a scope, or by a job, which runs inside the scope of
\* whoever submitted it.
MayCallNewJob(a) == Runs(a) /\ Free(a) /\ (pc[a] = "block" \/ (a \in Spawners /\ pc[a] = "out"))

\* if ( !g_jobQue ) is passed; the context is cloned and the capture function runs
new_job_invoke(a, j) ==
  /\ MayCallNewJob(a) /\ job[j].state = "new" /\ g_jobQue # Nil
  /\ fork' = [fork EXCEPT ![a] = j]
  /\ job' = [job EXCEPT ![j].state = "forked"]
  /\ UNCHANGED <<queueVars, g_jobQueMutex, scopeVars, threadVars, refused, module, callee, crashed>>

\* if ( !g_jobQue ) throw_error_at(...)
new_job_refused(a) ==
  /\ MayCallNewJob(a) /\ g_jobQue = Nil /\ a \notin refused
  /\ refused' = refused \cup {a}
  /\ UNCHANGED <<queueVars, g_jobQueMutex, scopeVars, job, threadVars, module, newJobVars>>

\* g_jobQue-> : the pointer is read again, whatever it is by now
new_job_read(a) ==
  /\ fork[a] # Nil /\ callee[a] = Nil
  /\ callee' = [callee EXCEPT ![a] = g_jobQue]
  /\ crashed' = (g_jobQue = Nil)
  /\ UNCHANGED <<queueVars, g_jobQueMutex, scopeVars, job, threadVars, refused, module, fork>>

\* push(...) of the queue that was read
new_job_push(a) ==
  /\ callee[a] # Nil
  /\ \/ /\ callee[a] \in live
        /\ job' = [job EXCEPT ![fork[a]] = [state |-> "queued", que |-> callee[a]]]
        /\ crashed' = FALSE
     \/ /\ callee[a] \notin live
        /\ job' = [job EXCEPT ![fork[a]].state = "dropped"]
        /\ crashed' \in BOOLEAN
  /\ fork' = [fork EXCEPT ![a] = Nil]
  /\ callee' = [callee EXCEPT ![a] = Nil]
  /\ UNCHANGED <<queueVars, g_jobQueMutex, scopeVars, threadVars, refused, module>>

\* A worker of the job's queue takes it; possible until the destructor has ended.
JobStart(j) ==
  /\ job[j].state = "queued"
  /\ job' = [job EXCEPT ![j].state = "running"]
  /\ UNCHANGED <<queueVars, g_jobQueMutex, scopeVars, restVars>>

JobEnd(j) ==
  /\ job[j].state = "running" /\ pc[j] = "out" /\ Free(j)
  /\ job' = [job EXCEPT ![j].state = "finished"]
  /\ UNCHANGED <<queueVars, g_jobQueMutex, scopeVars, restVars>>

\* new_thread_invoke, by any script that runs: the count goes up in the caller, after
\* the context is cloned
new_thread_invoke(a, t) ==
  /\ Runs(a) /\ Free(a) /\ pc[a] \in {"out", "block"} /\ thread[t] = "new"
  /\ g_jobQueTotalThreads' = g_jobQueTotalThreads + 1
  /\ thread' = [thread EXCEPT ![t] = "run"]
  /\ UNCHANGED <<queueVars, g_jobQueMutex, scopeVars, job, refused, module, newJobVars>>

\* Fault: the thread is not counted out.
ThreadEndUncounted(t) ==
  /\ thread[t] = "run" /\ pc[t] = "out" /\ Free(t)
  /\ thread' = [thread EXCEPT ![t] = "teardown"]
  /\ UNCHANGED <<queueVars, g_jobQueTotalThreads, g_jobQueMutex, scopeVars, job, refused, module,
                newJobVars>>

\* The lambda has returned and has been destroyed: the count goes down.
ThreadEnd(t) ==
  /\ thread[t] = "run" /\ pc[t] = "out" /\ Free(t)
  /\ g_jobQueTotalThreads' = g_jobQueTotalThreads - 1
  /\ thread' = [thread EXCEPT ![t] = "teardown"]
  /\ UNCHANGED <<queueVars, g_jobQueMutex, scopeVars, job, refused, module, newJobVars>>

\* shutdownThreadLocalDebugAgent, and the fork context is released.
ThreadTeardown(t) ==
  /\ thread[t] = "teardown"
  /\ thread' = [thread EXCEPT ![t] = "ended"]
  /\ UNCHANGED <<queueVars, g_jobQueTotalThreads, g_jobQueMutex, scopeVars, job, refused, module,
                newJobVars>>

-----------------------------------------------------------------------------
(* ~Module_JobQue.                                                         *)

\* g_jobQueAvailable drops to zero: is_job_que_shutting_down() is true from now on
ModuleShutdown ==
  /\ module = "loaded" /\ pc[Main] = "out"
  /\ module' = "waiting"
  /\ UNCHANGED <<queueVars, g_jobQueMutex, scopeVars, job, threadVars, refused, newJobVars>>

\* Fault: the threads are not waited for.
ModuleCountedAtOnce ==
  /\ module = "waiting"
  /\ module' = "counted"
  /\ UNCHANGED <<queueVars, g_jobQueMutex, scopeVars, job, threadVars, refused, newJobVars>>

\* while ( g_jobQueTotalThreads ) builtin_sleep(0)
ModuleCounted ==
  /\ module = "waiting" /\ g_jobQueTotalThreads = 0
  /\ module' = "counted"
  /\ UNCHANGED <<queueVars, g_jobQueMutex, scopeVars, job, threadVars, refused, newJobVars>>

\* lock; g_jobQue.reset()
ModuleReset ==
  /\ module = "counted" /\ g_jobQueMutex = Nil
  /\ g_jobQueMutex' = Main
  /\ joining' = [joining EXCEPT ![Main] = Dropped(g_jobQue)]
  /\ g_jobQue' = Nil
  /\ module' = "reset"
  /\ UNCHANGED <<created, live, pc, jq, leaked, scopes, job, threadVars, refused, newJobVars>>

ModuleGone ==
  /\ module = "reset" /\ JoinReturns(joining[Main])
  /\ Abandon(joining[Main])
  /\ joining' = [joining EXCEPT ![Main] = Nil]
  /\ g_jobQueMutex' = Nil
  /\ module' = "gone"
  /\ UNCHANGED <<g_jobQue, created, pc, jq, leaked, scopes, threadVars, refused, newJobVars>>

-----------------------------------------------------------------------------
\* What an actor does inside with_job_que; BlockEnd is the end of its own script.
ScopeStep(a) ==
  Create(a) \/ Created(a) \/ Copy(a) \/ BlockEnd(a) \/ DropEnd(a) \/ Final(a) \/ FinalEnd(a)

JobStep(j) == JobStart(j) \/ JobEnd(j)

ThreadStep(t) == ThreadEnd(t) \/ ThreadTeardown(t)

\* What a caller does inside new_job once the test is passed.
NewJobStep(a) == new_job_read(a) \/ new_job_push(a)

ModuleStep == ModuleCounted \/ ModuleReset \/ ModuleGone

Stopped == (module = "gone" \/ crashed) /\ UNCHANGED vars

Next ==
  \/ /\ ~crashed
     /\ \/ \E a \in Actors :
             Enter(a) \/ ScopeStep(a) \/ Panic(a) \/ NewJobStep(a) \/ new_job_refused(a)
        \/ \E a \in Actors, j \in Jobs : new_job_invoke(a, j)
        \/ \E j \in Jobs : JobStep(j)
        \/ \E a \in Actors, t \in Spawned : new_thread_invoke(a, t)
        \/ \E t \in Spawned : ThreadStep(t)
        \/ ModuleShutdown \/ ModuleStep
  \/ Stopped

Spec == Init /\ [][Next]_vars

\* Threads are scheduled, blocks, capture functions and jobs return.
FairSpec ==
  /\ Spec
  /\ \A a \in Actors : WF_vars(~crashed /\ ScopeStep(a)) /\ WF_vars(~crashed /\ NewJobStep(a))
  /\ \A j \in Jobs : WF_vars(~crashed /\ JobEnd(j))
  /\ \A t \in Spawned : WF_vars(~crashed /\ ThreadStep(t))
  /\ WF_vars(~crashed /\ ModuleStep)

-----------------------------------------------------------------------------
(* Properties.                                                             *)

\* "with_job_que initializes the thread pool and runs the block": inside the block
\* there is a queue, so new_job does not say "need to be in 'with_job_que' block".
QueueInsideScope == \A a \in Actors : pc[a] = "block" => g_jobQue # Nil

\* A queue is used only while its destructor has not ended: by the global pointer, by
\* a scope, by a job that runs or waits on it, and by new_job, which holds no reference
\* to the queue it is about to push to.
NoDanglingQueue ==
  /\ g_jobQue # Nil => g_jobQue \in live
  /\ \A a \in Actors : jq[a] # Nil => jq[a] \in live
  /\ \A j \in Jobs : job[j].state \in {"queued", "running"} => job[j].que \in live
  /\ \A a \in Actors : callee[a] # Nil => callee[a] \in live

\* A scope that returns leaves nothing running behind it: with nobody else in a
\* scope (or dropping the queue in the destructor of the module) and no reference lost in
\* a panic, the pool is gone, nobody is in the middle of new_job, and every submitted
\* job has finished or was abandoned.
NothingLeftBehind ==
  (\A a \in Actors : pc[a] = "out") /\ module # "reset" /\ (\A q \in Queues : leaked[q] = 0) =>
    /\ g_jobQue = Nil /\ live = {}
    /\ \A a \in Actors : fork[a] = Nil
    /\ \A j \in Jobs : job[j].state \notin {"queued", "running"}

\* new_job says "need to be in 'with_job_que' block" when there is no queue; it does not
\* go on and use the null pointer.
NewJobFindsAQueue == ~crashed

\* Once the destructor of the module has seen the count of threads at zero, no lambda of
\* new_thread runs any more, whoever started it, unless a panic has left a queue behind,
\* whose jobs may go on to start threads.  The teardown of a thread comes after its
\* lambda and is not waited for.
ModuleOutlivesThreads ==
  module \in {"counted", "reset", "gone"} =>
    \/ \E q \in Queues : leaked[q] > 0
    \/ \A t \in Spawned : thread[t] # "run"

\* with_job_que returns, unless the program has crashed in new_job.
ScopeReturns == \A a \in Actors : (pc[a] # "out") ~> (pc[a] = "out" \/ crashed)

\* The destructor of the module returns, unless the program has crashed in new_job.
ModuleUnloads == (module = "waiting") ~> (module = "gone" \/ crashed)
=============================================================================
