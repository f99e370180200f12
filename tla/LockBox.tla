------------------------------ MODULE LockBox ------------------------------
(***************************************************************************)
(* class LockBox of aot_builtin_jobque.h / module_builtin_jobque.cpp, with *)
(* the wrappers set, get, update, clear, fill and grab of                  *)
(* daslib/jobque_boost.das.                                                *)
(*                                                                         *)
(* Two boxes are used in the two ways the wrappers are meant for:          *)
(*   Shared   holds an object some context allocated: set, update, get and *)
(*            clear, by any thread;                                        *)
(*   Handoff  passes the address of a buffer that Filler owns and reuses:  *)
(*            fill, grab, isReady and join.  "data must outlive the grab - *)
(*            caller owns the lifetime": Filler writes to the buffer when  *)
(*            the box is ready and frees it after join.                    *)
(* Every operation holds mCompleteMutex, and so does the script block that *)
(* it calls.  update and grab are split in two steps, before and after the *)
(* block, to make the mutex matter.  A context is gone when its thread is  *)
(* over, unless a Feature keeps it (fromShared).                           *)
(***************************************************************************)
EXTENDS Integers, Sequences, FiniteSets

CONSTANTS
  Shared, Handoff,  \* the boxes
  Filler,           \* the thread that fills Handoff
  Grabbers,         \* the threads that grab from it
  Others,           \* threads that only use Shared, and may end at any time
  Objects,          \* addresses of the objects that new TT returns
  Buffer,           \* the address of Filler's buffer
  Null,             \* nullptr, as data, as context and as a mutex that is free
  MaxUpdates,       \* bound: operations on Shared
  MaxFills          \* bound: fills

Boxes == {Shared, Handoff}
Threads == {Filler} \cup Grabbers \cup Others

VARIABLES
  box,         \* [Boxes -> Feature]
  mRemaining,  \* [Boxes -> Nat], of the base class JobStatus
  holder,      \* [Boxes -> thread]  who holds mCompleteMutex between two steps
  pc,          \* [Threads -> ...] what each thread is doing
  read,        \* [Threads -> Int] what the block has read so far
  allocatedBy, \* [Objects -> context] Null if not allocated
  value,       \* [Objects -> Nat] the counter in the object
  buffer,      \* what is in Filler's buffer: 0 while it is being written
  filled,      \* how many times Handoff has been filled
  grabbed,     \* history: what the blocks of grab have read
  updates,     \* history: updates of Shared since it was set or cleared
  calls        \* operations on Shared, for MaxUpdates

vars == <<box, mRemaining, holder, pc, read, allocatedBy, value, buffer, filled,
          grabbed, updates, calls>>
sharedVars == <<allocatedBy, value, updates, calls>>
handoffVars == <<buffer, filled, grabbed>>

Feature == [data : Objects \cup {Buffer, Null}, from : Threads \cup {Null}]

NoFeature == [data |-> Null, from |-> Null]

Init ==
  /\ box = [b \in Boxes |-> NoFeature]
  /\ mRemaining = [b \in Boxes |-> 0]
  /\ holder = [b \in Boxes |-> Null]
  /\ pc = [t \in Threads |-> "idle"]
  /\ read = [t \in Threads |-> 0]
  /\ allocatedBy = [o \in Objects |-> Null]
  /\ value = [o \in Objects |-> 0]
  /\ buffer = 0
  /\ filled = 0
  /\ grabbed = <<>>
  /\ updates = 0
  /\ calls = 0

-----------------------------------------------------------------------------
(* Operations on Shared.                                                   *)

CanCall(t) ==
  pc[t] = "idle" /\ holder[Shared] = Null /\ calls < MaxUpdates

\* Fault: the Feature keeps the context it had.
setStale(d, t) == [data |-> d, from |-> box[Shared].from]

\* A new pointer in the box and Feature::setFrom(context)
setFeature(d, t) == [data |-> d, from |-> t]

\* new TT in the heap of thread t, with the counter at n
New(t, o, n) ==
  /\ allocatedBy[o] = Null
  /\ allocatedBy' = [allocatedBy EXCEPT ![o] = t]
  /\ value' = [value EXCEPT ![o] = n]

\* set: clones the data to the heap of the caller, then LockBox::set.  What the box
\* held before stays in the heap it is in.
set(t, o) ==
  /\ CanCall(t)
  /\ New(t, o, 0)
  /\ box' = [box EXCEPT ![Shared] = setFeature(o, t)]
  /\ updates' = 0
  /\ calls' = calls + 1
  /\ UNCHANGED <<mRemaining, holder, pc, read, handoffVars>>

\* Fault: the mutex is not held while the block runs.
updateUnlocked(t) ==
  /\ CanCall(t)
  /\ pc' = [pc EXCEPT ![t] = "update"]
  /\ read' = [read EXCEPT ![t] = IF box[Shared].data # Null THEN value[box[Shared].data] ELSE 0]
  /\ calls' = calls + 1
  /\ UNCHANGED <<box, mRemaining, holder, allocatedBy, value, updates, handoffVars>>

\* LockBox::update: the mutex is taken and the block reads the object, or a new one.
updateBegin(t) ==
  /\ CanCall(t)
  /\ holder' = [holder EXCEPT ![Shared] = t]
  /\ pc' = [pc EXCEPT ![t] = "update"]
  /\ read' = [read EXCEPT ![t] = IF box[Shared].data # Null THEN value[box[Shared].data] ELSE 0]
  /\ calls' = calls + 1
  /\ UNCHANGED <<box, mRemaining, allocatedBy, value, updates, handoffVars>>

\* The block writes back; a new object is put in the box with the caller's context,
\* an old one stays with the context it came from.
updateEnd(t) ==
  /\ pc[t] = "update"
  /\ LET d == box[Shared].data IN
       IF d # Null
       THEN /\ value' = [value EXCEPT ![d] = read[t] + 1]
            /\ UNCHANGED <<box, allocatedBy>>
       ELSE \E o \in Objects :
              /\ New(t, o, read[t] + 1)
              /\ box' = [box EXCEPT ![Shared] = setFeature(o, t)]
  /\ updates' = updates + 1
  /\ holder' = [holder EXCEPT ![Shared] = Null]
  /\ pc' = [pc EXCEPT ![t] = "idle"]
  /\ UNCHANGED <<mRemaining, read, calls, handoffVars>>

\* clear: update with a block that deletes the object and returns null.  The pointer
\* has changed, so the caller's context is put in the Feature.
clear(t) ==
  /\ CanCall(t) /\ box[Shared].data # Null
  /\ allocatedBy' = [allocatedBy EXCEPT ![box[Shared].data] = Null]
  /\ box' = [box EXCEPT ![Shared] = setFeature(Null, t)]
  /\ updates' = 0
  /\ calls' = calls + 1
  /\ UNCHANGED <<mRemaining, holder, pc, read, value, handoffVars>>

\* LockBox::get: the mutex is taken and the block reads the object.  With an empty box
\* it does nothing and get returns false.
getBegin(t) ==
  /\ CanCall(t) /\ box[Shared].data # Null
  /\ holder' = [holder EXCEPT ![Shared] = t]
  /\ pc' = [pc EXCEPT ![t] = "get"]
  /\ read' = [read EXCEPT ![t] = value[box[Shared].data]]
  /\ calls' = calls + 1
  /\ UNCHANGED <<box, mRemaining, allocatedBy, value, updates, handoffVars>>

\* The block returns.
getEnd(t) ==
  /\ pc[t] = "get"
  /\ holder' = [holder EXCEPT ![Shared] = Null]
  /\ pc' = [pc EXCEPT ![t] = "idle"]
  /\ UNCHANGED <<box, mRemaining, read, sharedVars, handoffVars>>

-----------------------------------------------------------------------------
(* Handoff.                                                                *)

\* isReady() is true: Filler starts to write the next buffer.
isReady ==
  /\ pc[Filler] = "idle" /\ holder[Handoff] = Null /\ filled < MaxFills
  /\ mRemaining[Handoff] = 0
  /\ buffer' = 0
  /\ pc' = [pc EXCEPT ![Filler] = "write"]
  /\ UNCHANGED <<box, mRemaining, holder, read, sharedVars, filled, grabbed>>

\* The buffer is complete, LockBox::fill
fill ==
  /\ pc[Filler] = "write" /\ holder[Handoff] = Null
  /\ buffer' = filled + 1
  /\ box' = [box EXCEPT ![Handoff] = [data |-> Buffer, from |-> Filler]]
  /\ mRemaining' = [mRemaining EXCEPT ![Handoff] = 1]
  /\ filled' = filled + 1
  /\ pc' = [pc EXCEPT ![Filler] = "idle"]
  /\ UNCHANGED <<holder, read, sharedVars, grabbed>>

\* Fault: join does not look at the counter.
joinEarly ==
  /\ pc[Filler] = "idle" /\ filled = MaxFills /\ holder[Handoff] = Null
  /\ buffer' = -1
  /\ pc' = [pc EXCEPT ![Filler] = "freed"]
  /\ UNCHANGED <<box, mRemaining, holder, read, sharedVars, filled, grabbed>>

\* box |> join returns (JobStatus::Wait), and Filler frees its buffer.
join ==
  /\ pc[Filler] = "idle" /\ filled = MaxFills /\ holder[Handoff] = Null
  /\ mRemaining[Handoff] = 0
  /\ buffer' = -1
  /\ pc' = [pc EXCEPT ![Filler] = "freed"]
  /\ UNCHANGED <<box, mRemaining, holder, read, sharedVars, filled, grabbed>>

\* Fault: the box is emptied and marked before the block runs, without the mutex.
grabEmptiesFirst(g) ==
  /\ pc[g] = "idle" /\ holder[Handoff] = Null /\ box[Handoff].data # Null
  /\ box' = [box EXCEPT ![Handoff] = NoFeature]
  /\ mRemaining' = [mRemaining EXCEPT ![Handoff] = 0]
  /\ pc' = [pc EXCEPT ![g] = "grab"]
  /\ UNCHANGED <<holder, read, sharedVars, handoffVars>>

\* LockBox::grab: the mutex is taken and the block starts.  With an empty box the
\* block does nothing and grab returns false.
grabBegin(g) ==
  /\ pc[g] = "idle" /\ holder[Handoff] = Null /\ box[Handoff].data # Null
  /\ holder' = [holder EXCEPT ![Handoff] = g]
  /\ pc' = [pc EXCEPT ![g] = "grab"]
  /\ UNCHANGED <<box, mRemaining, read, sharedVars, handoffVars>>

\* Fault: the box is emptied and not marked.
grabUnmarked(g) ==
  /\ pc[g] = "grab"
  /\ grabbed' = Append(grabbed, buffer)
  /\ box' = [box EXCEPT ![Handoff] = NoFeature]
  /\ holder' = [holder EXCEPT ![Handoff] = Null]
  /\ pc' = [pc EXCEPT ![g] = "idle"]
  /\ UNCHANGED <<mRemaining, read, sharedVars, buffer, filled>>

\* The block has read the buffer; the box is emptied and marked.
grabEnd(g) ==
  /\ pc[g] = "grab"
  /\ grabbed' = Append(grabbed, buffer)
  /\ box' = [box EXCEPT ![Handoff] = NoFeature]
  /\ mRemaining' = [mRemaining EXCEPT ![Handoff] = 0]
  /\ holder' = [holder EXCEPT ![Handoff] = Null]
  /\ pc' = [pc EXCEPT ![g] = "idle"]
  /\ UNCHANGED <<read, sharedVars, buffer, filled>>

-----------------------------------------------------------------------------
\* A thread is over; its context is released.
ThreadEnds(t) ==
  /\ pc[t] = IF t = Filler THEN "freed" ELSE "idle"
  /\ pc' = [pc EXCEPT ![t] = "over"]
  /\ UNCHANGED <<box, mRemaining, holder, read, sharedVars, handoffVars>>

SharedStep(t) ==
  \/ \E o \in Objects : set(t, o)
  \/ updateBegin(t)
  \/ clear(t)
  \/ getBegin(t)

BlockEnds(t) == updateEnd(t) \/ getEnd(t)

FillerStep == isReady \/ fill \/ join

GrabberStep(g) == grabBegin(g) \/ grabEnd(g)

\* Everything has been handed over.
Finished == pc[Filler] = "over" /\ UNCHANGED vars

Next ==
  \/ \E t \in Threads : SharedStep(t) \/ BlockEnds(t)
  \/ FillerStep
  \/ \E g \in Grabbers : GrabberStep(g)
  \/ \E t \in Others \cup {Filler} : ThreadEnds(t)
  \/ Finished

Spec == Init /\ [][Next]_vars

\* Threads are scheduled, blocks return, and grabbers keep polling the box.
FairSpec ==
  /\ Spec
  /\ \A t \in Threads : WF_vars(BlockEnds(t))
  /\ WF_vars(FillerStep)
  /\ \A g \in Grabbers : WF_vars(GrabberStep(g))

-----------------------------------------------------------------------------
(* Properties.                                                             *)

\* Every variable has its type.
TypeOK ==
  /\ box \in [Boxes -> Feature]
  /\ mRemaining \in [Boxes -> {0, 1}]
  /\ holder \in [Boxes -> Threads \cup {Null}]
  /\ pc \in [Threads -> {"idle", "update", "get", "write", "grab", "freed", "over"}]
  /\ read \in [Threads -> Nat]
  /\ allocatedBy \in [Objects -> Threads \cup {Null}]
  /\ value \in [Objects -> Nat]
  /\ buffer \in -1 .. MaxFills
  /\ filled \in 0 .. MaxFills
  /\ grabbed \in Seq(Int)
  /\ updates \in Nat
  /\ calls \in 0 .. MaxUpdates

\* The object in the box shows every update made since it was put there, by
\* whichever threads: update is a read-modify-write under the mutex.
NoLostUpdate == box[Shared].data # Null => value[box[Shared].data] = updates

\* While the block of get or update runs, the object it looks at is not deleted,
\* replaced or changed by another thread.
ObjectStableInBlock ==
  \A t \in Threads : (pc[t] \in {"get", "update"} /\ box[Shared].data # Null) =>
    /\ allocatedBy[box[Shared].data] # Null
    /\ value[box[Shared].data] = read[t]

\* A context exists while its thread runs, or a Feature keeps it.
Alive(t) == pc[t] # "over" \/ \E b \in Boxes : box[b].from = t

\* The object in the box is in the heap of a context that still exists, although
\* updates by other threads come and go after the thread that allocated it.
SharedDataAlive ==
  box[Shared].data # Null =>
    allocatedBy[box[Shared].data] # Null /\ Alive(allocatedBy[box[Shared].data])

\* Every buffer is grabbed once, in the order it was filled, and whole: Filler does
\* not write to it while a block of grab reads it.
GrabsInOrder ==
  /\ \A i \in DOMAIN grabbed : grabbed[i] = i
  /\ filled = Len(grabbed) + mRemaining[Handoff]

\* After join nobody has or will get the address of the buffer: it can be freed.
JoinIsSafe ==
  pc[Filler] \in {"freed", "over"} =>
    /\ box[Handoff].data = Null
    /\ \A g \in Grabbers : pc[g] # "grab"

\* Who is in a block holds the mutex, and nobody else does.
MutexInv ==
  \A t \in Threads :
    /\ pc[t] \in {"get", "update"} <=> holder[Shared] = t
    /\ pc[t] = "grab" <=> holder[Handoff] = t

\* The object in Shared came with its context, and the block sees its counter.
SharedInv ==
  /\ box[Shared].data # Buffer
  /\ box[Shared].data = Null => updates = 0
  /\ box[Shared].data # Null => /\ value[box[Shared].data] = updates
                               /\ box[Shared].from # Null
                               /\ allocatedBy[box[Shared].data] = box[Shared].from
  /\ \A t \in Threads : pc[t] \in {"get", "update"} => read[t] = updates

\* Handoff is full exactly while it is marked, and then Filler leaves the buffer alone.
HandoffInv ==
  /\ box[Handoff].data \in {Buffer, Null}
  /\ box[Handoff].data = Buffer <=> mRemaining[Handoff] = 1
  /\ \A t \in Threads : pc[t] = "grab" => mRemaining[Handoff] = 1
  /\ \A t \in Threads \ {Filler} : pc[t] \notin {"write", "freed"}
  /\ pc[Filler] \in {"write", "freed", "over"} => mRemaining[Handoff] = 0
  /\ pc[Filler] = "write" => filled < MaxFills
  /\ mRemaining[Handoff] = 1 => buffer = filled
  /\ filled = Len(grabbed) + mRemaining[Handoff]
  /\ \A i \in DOMAIN grabbed : grabbed[i] = i

\* The inductive invariant: the types, the two mutexes, and what each box holds in
\* relation to the threads that use it.
Inv == TypeOK /\ MutexInv /\ SharedInv /\ HandoffInv

\* What is filled is eventually grabbed, and the box becomes ready again for the next
\* buffer, until all have been handed over.
HandoffCompletes == (filled > 0) ~> (Len(grabbed) = MaxFills)
=============================================================================
