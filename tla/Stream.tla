------------------------------- MODULE Stream -------------------------------
(***************************************************************************)
(* class Stream of aot_builtin_jobque.h / module_builtin_jobque.cpp, with  *)
(* push_archive, pop_archive, try_pop_archive and gather_archive of        *)
(* daslib/jobque_boost.das.                                                *)
(*                                                                         *)
(* Unlike a Channel, a Stream copies: push stores the bytes, and the       *)
(* producer deletes its own array right after.  A pop moves the blob to a  *)
(* local variable and runs the script block on it without the mutex, so    *)
(* blocks of several consumers run at the same time; only gather runs its  *)
(* block under the mutex.  pop takes the mutex twice, to wait and to take. *)
(*                                                                         *)
(* Blobs are numbered in the order they are serialized; every archive has  *)
(* at least one byte, so an empty view always means "nothing popped".      *)
(***************************************************************************)
EXTENDS Integers, FiniteSets, Sequences, SequencesExt

CONSTANTS
  Producers,   \* jobs that push and then notify
  Consumers,   \* threads that call pop_archive until it returns false
  Callers,     \* consumers that also call try_pop_archive and gather_archive before
  MaxBlobs,    \* bound: blobs serialized
  Null

VARIABLES
  pipe,        \* deque<vector<uint8_t>>, front first
  mRemaining,  \* uint32_t, producers that have not notified yet
  bytes,       \* [Producers -> Nat] the producer's own array, 0 when deleted
  pp,          \* [Producers -> ...] where each producer is
  pc,          \* [Consumers -> ...] where each consumer is
  item,        \* [Consumers -> blob] the local variable of pop
  saved,       \* how many blobs have been serialized
  pushed,      \* history: the blobs pushed, in order
  taken,       \* history: the blobs taken out of the pipe, in order
  seen         \* history: what the blocks have read, in order

vars == <<pipe, mRemaining, bytes, pp, pc, item, saved, pushed, taken, seen>>
producerVars == <<mRemaining, bytes, pp, saved, pushed>>

\* Fault: the blob refers to the producer's array.
Borrow(p) == [copy |-> 0, of |-> p]

\* v.resize(size); memcpy(v.data(), data, size)
Copy(p) == [copy |-> bytes[p], of |-> Null]

NoBlob == [copy |-> 0, of |-> Null]

\* What a block reads from a blob.
content(b) == IF b.of = Null THEN b.copy ELSE bytes[b.of]

Contents(blobs) == [i \in DOMAIN blobs |-> content(blobs[i])]

Init ==
  /\ pipe = <<>>
  /\ mRemaining = Cardinality(Producers)
  /\ bytes = [p \in Producers |-> 0]
  /\ pp = [p \in Producers |-> "run"]
  /\ pc = [c \in Consumers |-> "idle"]
  /\ item = [c \in Consumers |-> NoBlob]
  /\ saved = 0
  /\ pushed = <<>>
  /\ taken = <<>>
  /\ seen = <<>>

-----------------------------------------------------------------------------
(* Producers.                                                              *)

\* push_archive: bytes <- mem_archive_save(value)
save(p) ==
  /\ pp[p] = "run" /\ saved < MaxBlobs
  /\ saved' = saved + 1
  /\ bytes' = [bytes EXCEPT ![p] = saved + 1]
  /\ pp' = [pp EXCEPT ![p] = "saved"]
  /\ UNCHANGED <<pipe, mRemaining, pc, item, pushed, taken, seen>>

\* Stream::push
push(p) ==
  /\ pp[p] = "saved"
  /\ pipe' = Append(pipe, Copy(p))
  /\ pushed' = Append(pushed, bytes[p])
  /\ pp' = [pp EXCEPT ![p] = "pushed"]
  /\ UNCHANGED <<mRemaining, bytes, pc, item, saved, taken, seen>>

\* push_archive: delete bytes
deleteBytes(p) ==
  /\ pp[p] = "pushed"
  /\ bytes' = [bytes EXCEPT ![p] = 0]
  /\ pp' = [pp EXCEPT ![p] = "run"]
  /\ UNCHANGED <<pipe, mRemaining, pc, item, saved, pushed, taken, seen>>

\* The next two archives, copied.
Batch == <<[copy |-> saved + 1, of |-> Null], [copy |-> saved + 2, of |-> Null]>>

\* Stream::pushBatch, for a batch of two
pushBatch(p) ==
  /\ pp[p] = "run" /\ saved + 1 < MaxBlobs
  /\ pipe' = pipe \o Batch
  /\ pushed' = pushed \o <<saved + 1, saved + 2>>
  /\ saved' = saved + 2
  /\ UNCHANGED <<mRemaining, bytes, pp, pc, item, taken, seen>>

\* JobStatus::NotifyAndRelease, after the producer's last push
Notify(p) ==
  /\ pp[p] = "run" /\ mRemaining # 0
  /\ mRemaining' = mRemaining - 1
  /\ pp' = [pp EXCEPT ![p] = "notified"]
  /\ UNCHANGED <<pipe, bytes, pc, item, saved, pushed, taken, seen>>

-----------------------------------------------------------------------------
(* Consumers.                                                              *)

\* item = move(pipe.front()); pipe.pop_front()
takeFront(c) ==
  /\ item' = [item EXCEPT ![c] = Head(pipe)]
  /\ pipe' = Tail(pipe)
  /\ taken' = Append(taken, content(Head(pipe)))

\* The consumer starts to call pop_archive in a loop.
Loop(c) ==
  /\ pc[c] = "idle"
  /\ pc' = [pc EXCEPT ![c] = "pop"]
  /\ UNCHANGED <<pipe, item, producerVars, taken, seen>>

\* Fault: pop waits for a blob only.
popWaitBlob(c) ==
  /\ pc[c] = "pop" /\ pipe # <<>>
  /\ pc' = [pc EXCEPT ![c] = "woken"]
  /\ UNCHANGED <<pipe, item, producerVars, taken, seen>>

\* Stream::pop, first critical section: wait while producers are left and the pipe is
\* empty.
popWait(c) ==
  /\ pc[c] = "pop"
  /\ ~(mRemaining > 0 /\ pipe = <<>>)
  /\ pc' = [pc EXCEPT ![c] = "woken"]
  /\ UNCHANGED <<pipe, item, producerVars, taken, seen>>

\* Stream::pop, second critical section, with a blob
popTake(c) ==
  /\ pc[c] = "woken" /\ pipe # <<>>
  /\ takeFront(c)
  /\ pc' = [pc EXCEPT ![c] = "block"]
  /\ UNCHANGED <<producerVars, seen>>

\* Stream::pop, second critical section, without: the block gets an empty view, and
\* pop_archive returns false.
popNothing(c) ==
  /\ pc[c] = "woken" /\ pipe = <<>>
  /\ pc' = [pc EXCEPT ![c] = "stopped"]
  /\ UNCHANGED <<pipe, item, producerVars, taken, seen>>

\* Stream::tryPop, and Stream::popWithTimeout when it does not time out
tryPop(c) ==
  /\ c \in Callers /\ pc[c] = "idle" /\ pipe # <<>>
  /\ takeFront(c)
  /\ pc' = [pc EXCEPT ![c] = "tryBlock"]
  /\ UNCHANGED <<producerVars, seen>>

\* invoke_stream_block, without the mutex: the block reads (mem_archive_load) the
\* local blob, which goes when pop returns.
Block(c) ==
  /\ pc[c] \in {"block", "tryBlock"}
  /\ seen' = Append(seen, content(item[c]))
  /\ item' = [item EXCEPT ![c] = NoBlob]
  /\ pc' = [pc EXCEPT ![c] = IF pc[c] = "block" THEN "pop" ELSE "idle"]
  /\ UNCHANGED <<pipe, producerVars, taken>>

\* Stream::gather: the block reads every blob under the mutex, then pipe.clear().
gather(c) ==
  /\ c \in Callers /\ pc[c] = "idle" /\ pipe # <<>>
  /\ seen' = seen \o Contents(pipe)
  /\ taken' = taken \o Contents(pipe)
  /\ pipe' = <<>>
  /\ UNCHANGED <<item, pc, producerVars>>

-----------------------------------------------------------------------------
ProducerEnds(p) == push(p) \/ deleteBytes(p) \/ Notify(p)

LoopStep(c) == popWait(c) \/ popTake(c) \/ popNothing(c) \/ Block(c)

\* Everybody has left.
Finished ==
  /\ \A p \in Producers : pp[p] = "notified"
  /\ \A c \in Consumers : pc[c] = "stopped"
  /\ UNCHANGED vars

Next ==
  \/ \E p \in Producers : save(p) \/ pushBatch(p) \/ ProducerEnds(p)
  \/ \E c \in Consumers : Loop(c) \/ tryPop(c) \/ gather(c) \/ LoopStep(c)
  \/ Finished

Spec == Init /\ [][Next]_vars

\* Producers are jobs that end; consumers keep being scheduled and blocks return.
FairSpec ==
  /\ Spec
  /\ \A p \in Producers : WF_vars(ProducerEnds(p))
  /\ \A c \in Consumers : WF_vars(LoopStep(c))

-----------------------------------------------------------------------------
(* Properties.                                                             *)

InBlock == {c \in Consumers : pc[c] \in {"block", "tryBlock"}}

\* Blobs leave the pipe in the order they were pushed, and what the blocks read is what
\* was pushed, each blob once: a view is not disturbed by the producer deleting its
\* array or by other consumers, although the block runs without the mutex.
ReadAsPushed ==
  /\ pushed = taken \o Contents(pipe)
  /\ Len(taken) = Len(seen) + Cardinality(InBlock)
  /\ ToSet(taken) = ToSet(seen) \cup {content(item[c]) : c \in InBlock}

\* Once every consumer is in its loop, all the loops end, with every blob read.
EverythingRead ==
  (\A c \in Consumers : pc[c] \notin {"idle", "tryBlock"}) ~>
    ((\A c \in Consumers : pc[c] = "stopped") /\ Len(seen) = Len(pushed))
=============================================================================
