------------------------------ MODULE Channel ------------------------------
(***************************************************************************)
(* class Channel of aot_builtin_jobque.h / module_builtin_jobque.cpp, with *)
(* the consuming loops for_each, for_each_clone and each of                *)
(* daslib/jobque_boost.das.                                                *)
(*                                                                         *)
(* Producers run in contexts of their own (the fork contexts of jobs); the *)
(* Owner context created the channel.  A producer's context goes away once *)
(* its job is over, except that a Feature keeps the context it came from   *)
(* alive (fromShared).  mRemaining counts the producers still at work.     *)
(*                                                                         *)
(* Channel::pop takes mCompleteMutex twice: once to wait until there is    *)
(* something to do, and again to take the item.  Every other operation is  *)
(* one critical section, and the script block that receives an item runs   *)
(* inside of it.                                                           *)
(***************************************************************************)
EXTENDS Integers, FiniteSets, Sequences, SequencesExt

CONSTANTS
  Owner,          \* the context that created the channel, itself a producer
  Jobs,           \* the contexts of producing jobs
  Started,        \* the jobs running when the channel is created
  Consumers,      \* threads that take items out
  Raw,            \* consumers using for_each/each: they keep the item's address
                  \*   after pop returns; the others clone it inside the block
  Callers,        \* consumers that also call try_pop and gather outside of a loop
  Forwarders,     \* callers that also call gather_and_forward
  Drainers,       \* contexts that call gather_ex
  Items,          \* data pointers, each pushed at most once
  Null            \* nullptr, as data and as context

ASSUME ChannelAssumption ==
  /\ Owner \notin Jobs /\ Started \subseteq Jobs /\ IsFiniteSet(Jobs)
  /\ Raw \subseteq Consumers /\ Callers \subseteq Consumers
  /\ Forwarders \subseteq Callers /\ Drainers \subseteq Jobs \cup {Owner}
  /\ Null \notin Items /\ Null \notin Jobs /\ Null # Owner

Producers == Jobs \cup {Owner}

VARIABLES
  drains,      \* whether gather_ex is used on this channel
  pipe,        \* deque<Feature>, front first
  tail,        \* the Feature last taken out
  forwarded,   \* the pipe of a second channel of the same owner, which nobody reads
  mRemaining,  \* uint32_t, producers that have not notified yet
  producer,    \* "new", "run", "notified" or "done", for each producer
  pc,          \* where each consumer is
  held,        \* the address a consumer works on, Null if none
  pushed,      \* history: <<item, context that pushed it>>, in order
  taken        \* history: items handed to a consumer, in order

vars == <<drains, pipe, tail, forwarded, mRemaining, producer, pc, held, pushed, taken>>

\* Feature::clear
NoFeature == [data |-> Null, from |-> Null]

\* f.from ? f.from : owner
itOwner(f) == IF f.from # Null THEN f.from ELSE Owner

PushedItems == {pushed[i][1] : i \in DOMAIN pushed}

\* The context an item was allocated in.
Allocator(d) == pushed[CHOOSE i \in DOMAIN pushed : pushed[i][1] = d][2]

Data(features) == [i \in DOMAIN features |-> features[i].data]

Init ==
  /\ drains \in {FALSE, Drainers # {}}
  /\ pipe = <<>>
  /\ tail = NoFeature
  /\ forwarded = <<>>
  /\ mRemaining = Cardinality(Started) + 1
  /\ producer = [p \in Producers |-> IF p \in Started \cup {Owner} THEN "run" ELSE "new"]
  /\ pc = [c \in Consumers |-> "idle"]
  /\ held = [c \in Consumers |-> Null]
  /\ pushed = <<>>
  /\ taken = <<>>

-----------------------------------------------------------------------------
(* Producers.                                                              *)

\* Fault: no item keeps its context.
MakeFeatureAnonymous(p, d) == [data |-> d, from |-> Null]

\* The Feature push puts into the pipe: no context for the owner's own items.
MakeFeature(p, d) == [data |-> d, from |-> IF p # Owner THEN p ELSE Null]

\* Channel::push
push(p, d) ==
  /\ producer[p] = "run" /\ d \notin PushedItems
  /\ pipe' = Append(pipe, MakeFeature(p, d))
  /\ pushed' = Append(pushed, <<d, p>>)
  /\ UNCHANGED <<drains, forwarded, tail, mRemaining, producer, pc, held, taken>>

\* Channel::pushBatch, for a batch of two
pushBatch(p, d, e) ==
  /\ producer[p] = "run" /\ d # e /\ d \notin PushedItems /\ e \notin PushedItems
  /\ pipe' = pipe \o <<MakeFeature(p, d), MakeFeature(p, e)>>
  /\ pushed' = pushed \o <<<<d, p>>, <<e, p>>>>
  /\ UNCHANGED <<drains, forwarded, tail, mRemaining, producer, pc, held, taken>>

\* JobStatus::append(1) by the owner, which then starts another job
append(p) ==
  /\ producer[Owner] = "run" /\ producer[p] = "new"
  /\ mRemaining' = mRemaining + 1
  /\ producer' = [producer EXCEPT ![p] = "run"]
  /\ UNCHANGED <<drains, forwarded, pipe, tail, pc, held, pushed, taken>>

\* JobStatus::Notify / NotifyAndRelease, the last thing a producer does to the
\* channel
Notify(p) ==
  /\ producer[p] = "run"
  /\ mRemaining # 0
  /\ mRemaining' = mRemaining - 1
  /\ producer' = [producer EXCEPT ![p] = "notified"]
  /\ UNCHANGED <<drains, forwarded, pipe, tail, pc, held, pushed, taken>>

\* The job of new_job_invoke returns and its forkContext is released.  The heap of
\* the context goes with it unless a Feature holds the context.
JobReturns(p) ==
  /\ producer[p] = "notified"
  /\ producer' = [producer EXCEPT ![p] = "done"]
  /\ UNCHANGED <<drains, forwarded, pipe, tail, mRemaining, pc, held, pushed, taken>>

-----------------------------------------------------------------------------
(* Consumers.                                                              *)

\* Fault: the newest item is taken first.
TakeBack ==
  /\ tail' = Last(pipe)
  /\ pipe' = Front(pipe)
  /\ taken' = Append(taken, Last(pipe).data)

\* tail = move(pipe.front()); pipe.pop_front()
TakeFront ==
  /\ tail' = Head(pipe)
  /\ pipe' = Tail(pipe)
  /\ taken' = Append(taken, Head(pipe).data)

\* A consumer enters its loop.
ForEach(c) ==
  /\ pc[c] = "idle"
  /\ pc' = [pc EXCEPT ![c] = "pop"]
  /\ UNCHANGED <<drains, forwarded, pipe, tail, mRemaining, producer, held, pushed, taken>>

\* Fault: an empty pipe is enough to stop waiting.
PopWaitAnything(c) ==
  /\ pc[c] = "pop"
  /\ pc' = [pc EXCEPT ![c] = "woken"]
  /\ UNCHANGED <<drains, forwarded, pipe, tail, mRemaining, producer, held, pushed, taken>>

\* Fault: the consumer is only woken by items, never by the last notification.
PopWaitItemsOnly(c) ==
  /\ pc[c] = "pop"
  /\ pipe # <<>>
  /\ pc' = [pc EXCEPT ![c] = "woken"]
  /\ UNCHANGED <<drains, forwarded, pipe, tail, mRemaining, producer, held, pushed, taken>>

\* Channel::pop, first critical section: wait until the predicate is false, then
\* release the mutex.
PopWait(c) ==
  /\ pc[c] = "pop"
  /\ LET continue_waiting == mRemaining > 0 /\ pipe = <<>> IN ~continue_waiting
  /\ pc' = [pc EXCEPT ![c] = "woken"]
  /\ UNCHANGED <<drains, forwarded, pipe, tail, mRemaining, producer, held, pushed, taken>>

\* Channel::pop, second critical section, with an item: the block gets tail.data.
PopTake(c) ==
  /\ pc[c] = "woken" /\ pipe # <<>>
  /\ TakeFront
  /\ pc' = [pc EXCEPT ![c] = "use"]
  /\ held' = [held EXCEPT ![c] = IF c \in Raw THEN tail'.data ELSE Null]
  /\ UNCHANGED <<drains, forwarded, mRemaining, producer, pushed>>

\* Channel::pop, second critical section, pipe empty: the block gets nullptr and
\* the loop breaks.
PopNothing(c) ==
  /\ pc[c] = "woken" /\ pipe = <<>>
  /\ tail' = NoFeature
  /\ pc' = [pc EXCEPT ![c] = "stopped"]
  /\ UNCHANGED <<drains, forwarded, pipe, mRemaining, producer, held, pushed, taken>>

\* The body of the loop returns.
UseEnd(c) ==
  /\ pc[c] = "use"
  /\ pc' = [pc EXCEPT ![c] = "pop"]
  /\ held' = [held EXCEPT ![c] = Null]
  /\ UNCHANGED <<drains, forwarded, pipe, tail, mRemaining, producer, pushed, taken>>

\* Channel::tryPop, and Channel::popWithTimeout once its predicate holds: the block
\* runs inside the critical section.
tryPop(c) ==
  /\ c \in Callers /\ pc[c] = "idle" /\ pipe # <<>>
  /\ TakeFront
  /\ UNCHANGED <<drains, forwarded, mRemaining, producer, pc, held, pushed>>

\* Channel::gather
gather(c) ==
  /\ c \in Callers /\ pc[c] = "idle" /\ pipe # <<>>
  /\ taken' = taken \o Data(pipe)
  /\ pipe' = <<>>
  /\ UNCHANGED <<drains, forwarded, tail, mRemaining, producer, pc, held, pushed>>

\* Channel::gather_and_forward: the block sees every item, then the Features move to
\* the other channel, both mutexes held.
gather_and_forward(c) ==
  /\ c \in Forwarders /\ pc[c] = "idle" /\ pipe # <<>>
  /\ taken' = taken \o Data(pipe)
  /\ forwarded' = forwarded \o pipe
  /\ pipe' = <<>>
  /\ UNCHANGED <<drains, tail, mRemaining, producer, pc, held, pushed>>

\* The entries of q at the positions in I, in the order they have in q.
InOrder(q, I) ==
  {[i \in DOMAIN f |-> q[f[i]]] :
     f \in {g \in [1 .. Cardinality(I) -> I] : \A i, k \in DOMAIN g : i < k => g[i] < g[k]}}

\* Channel::gatherEx called from context ctx: its own items are erased from the pipe.
gatherEx(ctx) ==
  LET mine == {i \in DOMAIN pipe : itOwner(pipe[i]) = ctx}
  IN  /\ drains /\ ctx \in Drainers /\ producer[ctx] = "run" /\ mine # {}
      /\ \E r \in InOrder(pipe, mine) : taken' = taken \o Data(r)
      /\ pipe' \in InOrder(pipe, DOMAIN pipe \ mine)
      /\ UNCHANGED <<drains, forwarded, tail, mRemaining, producer, pc, held, pushed>>

-----------------------------------------------------------------------------
ProducerStep(p) ==
  \/ \E d \in Items : push(p, d)
  \/ \E d, e \in Items : pushBatch(p, d, e)
  \/ gatherEx(p)

ConsumerCall(c) == ForEach(c) \/ tryPop(c) \/ gather(c) \/ gather_and_forward(c)

LoopStep(c) == PopWait(c) \/ PopTake(c) \/ PopNothing(c) \/ UseEnd(c)

\* Everybody has left.
Finished ==
  /\ \A p \in Producers : producer[p] \in {"new", "done"}
  /\ \A c \in Consumers : pc[c] = "stopped"
  /\ UNCHANGED vars

Next ==
  \/ \E p \in Producers : ProducerStep(p) \/ Notify(p) \/ JobReturns(p)
  \/ \E p \in Jobs : append(p)
  \/ \E c \in Consumers : ConsumerCall(c) \/ LoopStep(c)
  \/ Finished

Spec == Init /\ [][Next]_vars

\* Producers are jobs that return; consumers in the loop keep being scheduled.
FairSpec ==
  /\ Spec
  /\ \A p \in Producers : WF_vars(Notify(p) \/ JobReturns(p))
  /\ \A c \in Consumers : WF_vars(LoopStep(c))

-----------------------------------------------------------------------------
(* Properties.                                                             *)

\* What has been handed out and what will be next, in order.
Out == taken \o Data(pipe)

\* x stands before y in a sequence.
Before(s, x, y) == \E i, k \in DOMAIN s : i < k /\ s[i] = x /\ s[k] = y

\* The items of one context come out in the order that context pushed them, each
\* exactly once, whoever takes them and by whichever operation.
PerContextFifo ==
  /\ ToSet(Out) = PushedItems /\ IsInjective(Out)
  /\ \A i, k \in DOMAIN pushed :
       i < k /\ pushed[i][2] = pushed[k][2] => Before(Out, pushed[i][1], pushed[k][1])

\* A context still exists if its job runs or a Feature keeps it.
Alive(ctx) ==
  \/ ctx = Owner
  \/ producer[ctx] \in {"run", "notified"}
  \/ \E f \in ToSet(pipe) \cup ToSet(forwarded) \cup {tail} : f.from = ctx

\* Data is in a live context while it waits in the pipe of either channel, and while a consumer uses
\* its address, but there only until anybody takes the next item: it is tail that
\* keeps the context.
DataAlive ==
  /\ \A f \in ToSet(pipe) \cup ToSet(forwarded) : Alive(Allocator(f.data))
  /\ \A c \in Consumers :
       (held[c] # Null /\ held[c] = tail.data) => Alive(Allocator(held[c]))

\* When the last loop ends nothing is left behind: every producer has notified and
\* the pipe is empty.  A gather_ex between the two critical sections of pop can stop
\* the last loop early, so this is about channels it is not used on.
NothingStranded ==
  (~drains /\ Consumers # {} /\ \A c \in Consumers : pc[c] = "stopped") =>
    mRemaining = 0 /\ pipe = <<>>

\* "stops once channel is depleted (internal entry counter is 0)": a loop stops only
\* when no producer is left and the pipe is empty.
StopsOnlyWhenDepleted ==
  \A c \in Consumers : pc[c] = "stopped" => mRemaining = 0

\* Once every consumer is in the loop, all the loops end.
LoopsEnd ==
  (\A c \in Consumers : pc[c] # "idle") ~> (\A c \in Consumers : pc[c] = "stopped")
=============================================================================
