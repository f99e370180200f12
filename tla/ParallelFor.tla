---------------------------- MODULE ParallelFor ----------------------------
(***************************************************************************)
(* _parallel_for and with_wait_group of daslib/jobque_boost.das on top of  *)
(* JobStatus (misc/job_que.cpp), withJobStatus and new_job_invoke          *)
(* (builtin/module_builtin_jobque.cpp).                                    *)
(*                                                                         *)
(* A scope is one call of parallel_for: it creates a JobStatus on the      *)
(* stack, dispatches one job per chunk, joins, and destroys the status.    *)
(* Root is called by the main thread, a nested scope by a job of Root,     *)
(* whose worker is busy until the nested scope has returned.  The pool is  *)
(* used as JobQue promises: a FIFO (all these jobs have the default        *)
(* priority), each job is run once, by one worker.                         *)
(*                                                                         *)
(* A Native scope is a call of the C++ JobQue::parallel_for made from a    *)
(* job: it submits the chunks of the pool in one critical section, runs    *)
(* the last chunks itself and waits on a JobStatus without references.     *)
(*                                                                         *)
(* Every Root job also notifies a channel, as in the parallel_for section  *)
(* of the job queue tutorial; the main thread drains it after the join.    *)
(***************************************************************************)
EXTENDS Integers, Sequences, FiniteSets, FiniteSetsExt

CONSTANTS
  Workers,        \* the threads of the pool
  Scopes, Root,   \* calls of parallel_for, and the one made by the main thread
  Native,         \* the scopes that are calls of JobQue::parallel_for
  HostChunk,      \* [Scopes -> Nat]  the Root chunk (0, 1, ...) whose job calls the scope
  Earlier,        \* [Scopes -> SUBSET Scopes]  the calls that job makes before
  range_begin,    \* [Scopes -> Int]
  range_end,      \* [Scopes -> Int]
  num_jobs,       \* [Scopes -> Int]  for a Native scope, its chunk_count
  min_step,       \* [Scopes -> Nat]  the argument step of a Native scope
  ChannelCounts,  \* the counts that may be given to with_channel
  NoJob

ASSUME ParallelForAssumption ==
  /\ Workers # {} /\ IsFiniteSet(Workers) /\ Root \in Scopes /\ Native \subseteq Scopes \ {Root}
  /\ min_step \in [Scopes -> Nat \ {0}] /\ \A s \in Native : num_jobs[s] > 0
  /\ HostChunk \in [Scopes -> Nat]
  /\ Earlier \in [Scopes -> SUBSET Scopes]
  /\ range_begin \in [Scopes -> Int] /\ range_end \in [Scopes -> Int]
  /\ num_jobs \in [Scopes -> Int]
  /\ ChannelCounts \subseteq Nat

JobRecords == [scope : Scopes, chunk : Nat, job_begin : Int, job_end : Int]

ASSUME NoJobAssumption == NoJob \notin JobRecords

VARIABLES
  stage,       \* [Scopes -> ...] where the caller of the scope is
  next_chunk,  \* [Scopes -> Nat] the loop variable i
  offset,      \* [Scopes -> Int]
  mRemaining,  \* [Scopes -> Nat] of the scope's JobStatus
  mRef,        \* [Scopes -> Int] of the scope's JobStatus
  visited,     \* [Scopes -> [Int -> Nat]] how often each index was processed
  queue,       \* jobs not yet taken
  cur,         \* [Workers -> job]
  wpc,         \* [Workers -> ...] where the worker is in the job
  chRemaining, \* mRemaining of the results channel
  consumer     \* "wait" or "end": the for_each_clone of the main thread

vars == <<stage, next_chunk, offset, mRemaining, mRef, visited, queue, cur, wpc,
          chRemaining, consumer>>
statusVars == <<mRemaining, mRef>>
callerVars == <<stage, next_chunk, offset>>
channelVars == <<chRemaining, consumer>>

Stages == {"new", "dispatch", "own", "join", "joined", "gone"}

-----------------------------------------------------------------------------
(* The partition.                                                          *)

total(s) == range_end[s] - range_begin[s]

\* if (total <= 0 || num_jobs <= 0) return
nothingToDo(s) == total(s) <= 0 \/ num_jobs[s] <= 0

\* min(num_jobs, total)
actual_jobs(s) == IF num_jobs[s] < total(s) THEN num_jobs[s] ELSE total(s)

\* How many jobs the call makes.
chunks(s) == IF nothingToDo(s) THEN 0 ELSE actual_jobs(s)

\* Fault: the remainder is not spread over the first chunks.
evenChunk(s, i) == total(s) \div actual_jobs(s)

this_chunk(s, i) ==
  total(s) \div actual_jobs(s) + (IF i < total(s) % actual_jobs(s) THEN 1 ELSE 0)

\* The partition of JobQue::parallel_for.
step(s) == Max({(total(s) + 1) \div num_jobs[s], min_step[s]})

numChunks(s) == (total(s) + step(s)) \div step(s)

mThreadCount == Cardinality(Workers)

onMainThread(s) == Max({(numChunks(s) + mThreadCount) \div (mThreadCount + 1), 1})

onThreads(s) == numChunks(s) - onMainThread(s)

-----------------------------------------------------------------------------
Window(s) == range_begin[s] - 1 .. range_end[s] + 1

Init ==
  /\ stage = [s \in Scopes |-> "new"]
  /\ next_chunk = [s \in Scopes |-> 0]
  /\ offset = [s \in Scopes |-> range_begin[s]]
  /\ mRemaining = [s \in Scopes |-> 0]
  /\ mRef = [s \in Scopes |-> 0]
  /\ visited = [s \in Scopes |-> [x \in Window(s) |-> 0]]
  /\ queue = <<>>
  /\ cur = [w \in Workers |-> NoJob]
  /\ wpc = [w \in Workers |-> "idle"]
  /\ chRemaining \in {c \in ChannelCounts : c >= chunks(Root)}
  /\ consumer = "wait"

\* The nested scopes that the job calls.
Calls(job) == {s \in Scopes \ {Root} : job.scope = Root /\ HostChunk[s] = job.chunk}

Called(s) ==
  \/ s = Root
  \/ /\ \E w \in Workers : wpc[w] = "body" /\ s \in Calls(cur[w])
     /\ \A t \in Earlier[s] : stage[t] = "gone"

-----------------------------------------------------------------------------
(* The caller of parallel_for.                                             *)

\* The indices from .. to - 1 are processed.
Process(s, from, to) ==
  visited' = [visited EXCEPT ![s] =
    [x \in DOMAIN @ |-> IF x \in from .. to - 1 THEN @[x] + 1 ELSE @[x]]]

\* An empty range or no jobs: return at once.
EnterNothing(s) ==
  /\ stage[s] = "new" /\ Called(s) /\ nothingToDo(s)
  /\ stage' = [stage EXCEPT ![s] = "gone"]
  /\ UNCHANGED <<next_chunk, offset, statusVars, visited, queue, cur, wpc, channelVars>>

\* with_wait_group(actual_jobs): JobStatus status(total) and its AddReleaseGuard
Enter(s) ==
  /\ stage[s] = "new" /\ s \notin Native /\ Called(s) /\ ~nothingToDo(s)
  /\ stage' = [stage EXCEPT ![s] = "dispatch"]
  /\ mRemaining' = [mRemaining EXCEPT ![s] = actual_jobs(s)]
  /\ mRef' = [mRef EXCEPT ![s] = 1]
  /\ UNCHANGED <<next_chunk, offset, visited, queue, cur, wpc, channelVars>>

\* One turn of the loop: the block captures wg (add_ref) and calls new_job, which
\* pushes the job.
Dispatch(s) ==
  /\ stage[s] = "dispatch" /\ next_chunk[s] < actual_jobs(s)
  /\ LET i == next_chunk[s]
         job_end == offset[s] + this_chunk(s, i)
     IN  /\ offset' = [offset EXCEPT ![s] = job_end]
         /\ queue' = Append(queue, [scope |-> s, chunk |-> i,
                                    job_begin |-> offset[s], job_end |-> job_end])
         /\ next_chunk' = [next_chunk EXCEPT ![s] = i + 1]
  /\ mRef' = [mRef EXCEPT ![s] = @ + 1]
  /\ UNCHANGED <<stage, mRemaining, visited, cur, wpc, channelVars>>

\* Native, numChunks==1: the caller runs everything and returns.
RunWhole(s) ==
  /\ stage[s] = "new" /\ s \in Native /\ Called(s) /\ ~nothingToDo(s) /\ numChunks(s) = 1
  /\ Process(s, range_begin[s], range_end[s])
  /\ stage' = [stage EXCEPT ![s] = "gone"]
  /\ UNCHANGED <<next_chunk, offset, statusVars, queue, cur, wpc, channelVars>>

\* Fault: the status counts the caller's chunks too.
SubmitAll(s) ==
  /\ stage[s] = "new" /\ s \in Native /\ Called(s) /\ ~nothingToDo(s) /\ numChunks(s) > 1
  /\ mRemaining' = [mRemaining EXCEPT ![s] = numChunks(s)]
  /\ queue' = queue \o [c \in 1 .. onThreads(s) |->
       [scope |-> s, chunk |-> c - 1, job_begin |-> range_begin[s] + (c - 1) * step(s),
        job_end |-> range_begin[s] + c * step(s)]]
  /\ stage' = [stage EXCEPT ![s] = "own"]
  /\ UNCHANGED <<next_chunk, offset, mRef, visited, cur, wpc, channelVars>>

\* Native: status.Clear(onThreads), then all chunks of the pool are submitted under
\* one lock of mFifoMutex.
Submit(s) ==
  /\ stage[s] = "new" /\ s \in Native /\ Called(s) /\ ~nothingToDo(s) /\ numChunks(s) > 1
  /\ mRemaining' = [mRemaining EXCEPT ![s] = onThreads(s)]
  /\ queue' = queue \o [c \in 1 .. onThreads(s) |->
       [scope |-> s, chunk |-> c - 1, job_begin |-> range_begin[s] + (c - 1) * step(s),
        job_end |-> range_begin[s] + c * step(s)]]
  /\ stage' = [stage EXCEPT ![s] = "own"]
  /\ UNCHANGED <<next_chunk, offset, mRef, visited, cur, wpc, channelVars>>

\* Native: chunk(from + onThreads * step, to) in the calling thread, then Wait.
OwnChunk(s) ==
  /\ stage[s] = "own"
  /\ Process(s, range_begin[s] + onThreads(s) * step(s), range_end[s])
  /\ stage' = [stage EXCEPT ![s] = "join"]
  /\ UNCHANGED <<next_chunk, offset, statusVars, queue, cur, wpc, channelVars>>

\* The loop is over: status |> join is called.
Join(s) ==
  /\ stage[s] = "dispatch" /\ next_chunk[s] = actual_jobs(s)
  /\ stage' = [stage EXCEPT ![s] = "join"]
  /\ UNCHANGED <<next_chunk, offset, statusVars, visited, queue, cur, wpc, channelVars>>

\* Fault: the wait also ends on a spurious wake-up.
WaitReturnsEarly(s) ==
  /\ stage[s] = "join"
  /\ stage' = [stage EXCEPT ![s] = "joined"]
  /\ UNCHANGED <<next_chunk, offset, statusVars, visited, queue, cur, wpc, channelVars>>

\* JobStatus::Wait returns
WaitReturns(s) ==
  /\ stage[s] = "join" /\ mRemaining[s] = 0
  /\ stage' = [stage EXCEPT ![s] = "joined"]
  /\ UNCHANGED <<next_chunk, offset, statusVars, visited, queue, cur, wpc, channelVars>>

\* ~AddReleaseGuard releases the caller's reference (and throws if others are left),
\* ~JobStatus ends the life of the object.  A Native scope has no guard.
Destroy(s) ==
  /\ stage[s] = "joined"
  /\ mRef' = IF s \in Native THEN mRef ELSE [mRef EXCEPT ![s] = @ - 1]
  /\ stage' = [stage EXCEPT ![s] = "gone"]
  /\ UNCHANGED <<next_chunk, offset, mRemaining, visited, queue, cur, wpc, channelVars>>

\* for_each_clone of the main thread, after parallel_for has returned: the loop ends
\* when every expected notification of the channel has arrived.
ConsumerEnds ==
  /\ stage[Root] = "gone" /\ consumer = "wait" /\ chRemaining = 0
  /\ consumer' = "end"
  /\ UNCHANGED <<callerVars, statusVars, visited, queue, cur, wpc, chRemaining>>

-----------------------------------------------------------------------------
(* A worker.                                                               *)

Start(w) ==
  /\ wpc[w] = "idle" /\ queue # <<>>
  /\ cur' = [cur EXCEPT ![w] = Head(queue)]
  /\ queue' = Tail(queue)
  /\ wpc' = [wpc EXCEPT ![w] = "body"]
  /\ UNCHANGED <<callerVars, statusVars, visited, channelVars>>

\* for (i in range(job_begin, job_end)), then the nested scopes have returned.
Body(w) ==
  /\ wpc[w] = "body"
  /\ \A s \in Calls(cur[w]) : stage[s] = "gone"
  /\ Process(cur[w].scope, cur[w].job_begin, cur[w].job_end)
  /\ wpc' = [wpc EXCEPT ![w] = IF cur[w].scope = Root THEN "notify" ELSE "done"]
  /\ UNCHANGED <<callerVars, statusVars, queue, cur, channelVars>>

\* Fault: the job ends without notifying the channel.
ChannelForgotten(w) ==
  /\ wpc[w] = "notify"
  /\ wpc' = [wpc EXCEPT ![w] = "done"]
  /\ UNCHANGED <<callerVars, statusVars, visited, queue, cur, channelVars>>

\* ch |> notify_and_release
NotifyChannel(w) ==
  /\ wpc[w] = "notify"
  /\ chRemaining # 0
  /\ chRemaining' = chRemaining - 1
  /\ wpc' = [wpc EXCEPT ![w] = "done"]
  /\ UNCHANGED <<callerVars, statusVars, visited, queue, cur, consumer>>

\* wg |> done: JobStatus::NotifyAndRelease, one critical section
NotifyAndRelease(w) ==
  /\ wpc[w] = "done" /\ cur[w].scope \notin Native /\ mRemaining[cur[w].scope] # 0
  /\ mRef' = [mRef EXCEPT ![cur[w].scope] = @ - 1]
  /\ mRemaining' = [mRemaining EXCEPT ![cur[w].scope] = @ - 1]
  /\ wpc' = [wpc EXCEPT ![w] = "idle"]
  /\ cur' = [cur EXCEPT ![w] = NoJob]
  /\ UNCHANGED <<callerVars, visited, queue, channelVars>>

\* status.Notify() of a Native chunk
Notify(w) ==
  /\ wpc[w] = "done" /\ cur[w].scope \in Native /\ mRemaining[cur[w].scope] # 0
  /\ mRemaining' = [mRemaining EXCEPT ![cur[w].scope] = @ - 1]
  /\ wpc' = [wpc EXCEPT ![w] = "idle"]
  /\ cur' = [cur EXCEPT ![w] = NoJob]
  /\ UNCHANGED <<callerVars, mRef, visited, queue, channelVars>>

-----------------------------------------------------------------------------
CallerStep(s) ==
  \/ EnterNothing(s) \/ Enter(s) \/ Dispatch(s) \/ Join(s)
  \/ RunWhole(s) \/ Submit(s) \/ OwnChunk(s)
  \/ WaitReturns(s) \/ Destroy(s)

WorkerStep(w) == Start(w) \/ Body(w) \/ NotifyChannel(w) \/ NotifyAndRelease(w) \/ Notify(w)

\* Everything has been done, or the main thread waits for a notification of the channel
\* that no job is left to send.
Finished ==
  /\ stage[Root] = "gone" /\ (consumer = "end" \/ chRemaining # 0)
  /\ \A w \in Workers : wpc[w] = "idle"
  /\ UNCHANGED vars

Next ==
  \/ \E s \in Scopes : CallerStep(s)
  \/ \E w \in Workers : WorkerStep(w)
  \/ ConsumerEnds
  \/ Finished

Spec == Init /\ [][Next]_vars

\* Threads are scheduled and loop bodies return.
FairSpec ==
  /\ Spec
  /\ \A s \in Scopes : WF_vars(CallerStep(s))
  /\ \A w \in Workers : WF_vars(WorkerStep(w))
  /\ WF_vars(ConsumerEnds)

-----------------------------------------------------------------------------
(* Properties.                                                             *)

\* When join has returned every index of the range has been processed exactly once
\* and no index outside of it has been touched.
EachIndexOnce ==
  \A s \in Scopes : stage[s] \in {"joined", "gone"} =>
    \A x \in Window(s) :
      visited[s][x] = IF ~nothingToDo(s) /\ x \in range_begin[s] .. range_end[s] - 1 THEN 1 ELSE 0

\* The jobs that will still touch the scope's status.
Users(s) ==
  {w \in Workers : cur[w] # NoJob /\ cur[w].scope = s}
    \cup {i \in DOMAIN queue : queue[i].scope = s}

\* A JobStatus lives on the caller's stack: no job uses it once the caller has
\* destroyed it, and ~AddReleaseGuard (~JobStatus of a Native call) finds no reference
\* but its own, so "synch primitive deleted while being used" is never raised.
NoUseAfterDestroy ==
  \A s \in Scopes :
    /\ stage[s] = "joined" => mRef[s] = IF s \in Native THEN 0 ELSE 1
    /\ stage[s] = "gone" => Users(s) = {}

\* parallel_for of the main thread returns, and with it every call made by its jobs:
\* none of them waits for ever while its chunks wait for a worker.
ParallelForReturns ==
  (stage[Root] = "dispatch") ~> (\A s \in Scopes : stage[s] = "gone")

\* "When using a channel inside parallel_for, set the channel count to num_jobs since
\* each chunk calls notify_and_release once": the loop over the channel that follows
\* parallel_for ends if the count is the number of chunks, which for a range shorter
\* than num_jobs is less than num_jobs.  With a larger count it waits for ever.
ChannelLoopEnds ==
  /\ chRemaining = chunks(Root) => (stage[Root] = "gone" ~> consumer = "end")
  /\ chRemaining > chunks(Root) => [](consumer = "wait")
=============================================================================
