# A verification project for the daScript runtime

daScript (daslang) is a scripting language with a C++ compiler and runtime. This directory
holds TLA+ models of the parts of the runtime whose correctness depends on
interleavings, on the order of calls and on the life of shared objects, the TLC
configurations that check them, and proofs that TLAPS checks. Paths below are relative to
the repository.

## 1. Inventory

| Component | State it keeps | Operations | Talks to |
|---|---|---|---|
| Thread pool `JobQue` (`src/misc/job_que.cpp`) | priority queue `mFifo`, per-thread `mThreads`, `mJobsRunning`, `mThreadCount`, `mShutdown`, main-thread list | push, EvalOnMainThread, worker loop, EvalMainThreadJobs, wait, isEmpty, areJobsPending, destructor | everything submitted by `new_job` |
| Synchronisation objects: `JobStatus`, `Channel`, `Stream`, `LockBox` (`src/builtin/module_builtin_jobque.cpp`, `aot_builtin_jobque.h`) | `mRemaining`, `mRef`, a pipe or box of `Feature`s with their contexts | notify, append, join, push, pop, try_pop, gather, set, get, fill, grab, create, remove | jobs, consumers, contexts |
| Scripts' side (`daslib/jobque_boost.das`) | none of its own | for_each, each, with_wait_group, parallel_for, capture of references by lambdas | the objects above |
| Scope of the queue (`with_job_que`, `new_job`, `new_thread`, the module's destructor) | `g_jobQue`, `g_jobQueMutex`, thread counters | enter, leave, submit, unload | the pool |
| Heaps (`memory_model`, `heap`) and context garbage collection (`simulate_gc`) | decks of size classes with bitsets, big blocks, totals, interned strings, one temporary string | allocate, reallocate, free, intern, mark, sweep, reset | contexts |
| Tables and arrays (`runtime_table`, `runtime_array`) | packed or hashed slots, tombstones, lock counters | index, find, erase, clear, reserve, delete, iterate, get | heaps, loops and blocks of scripts |
| Handle registry | slots with generations, free list | acquire, release, lookup | C++ bindings |
| AST garbage collection (`gc_node`) | doubly linked list per root | new, delete, move to another root, collect | compiler |
| Debug agents and debugger thread | map of agents, `stopped`, `stop_requested` | install, invoke, stop | `new_debugger_thread` |
| Compiler, simulation nodes, AOT, JIT, script libraries, bindings, tools | - | - | - |

The hard behaviours are concentrated in the first four rows: threads that share one queue, locks
that are released and taken again inside one call, counters read outside the lock, blocks of script
code run while a lock is held, contexts that go away while their data is in flight, and
objects deleted by one thread while another is about to notify them. The heaps, tables and the
registry are sequential; what is hard about them is long sequences of legal calls.

What makes each part correct: a submitted job runs once and in order, and `wait` and the
destructor do not return early (pool); items arrive once, in order, and from live memory, and
loops neither stop early nor hang (channels and streams); a range is processed exactly once and the wait group outlives
its users (parallel_for); a queue exists inside a scope and not after it (scope); an object is
deleted once, by the last holder (reference counts); no cell of a heap is in two blocks and the count
behind its limit covers what is in use (heaps); a table is a finite map whatever its storage has been through, and what a
loop or block has borrowed stays where it is (tables); a handle finds its own object or nothing (registry).

## 2. Modules

| Module | Models |
|---|---|
| `JobQue`, `MCJobQue` | the thread pool |
| `Executor` | what the pool promises: each job runs once, wait and the destructor return when they may; `JobQue` implements it |
| `JobQueProofs` | theorems about `JobQue`: its counters and places, its refinement of `Executor`, the order of its queue |
| `Channel`, `MCChannel` | channels with their producers, consumers and contexts |
| `Stream` | byte streams with their producers and consumers |
| `MCPipes` | an instance of `Channel` and one of `Stream`, checked in one run |
| `PipesProofs` | theorems about `Channel` and `Stream` |
| `ParallelFor`, `MCParallelFor` | parallel_for and wait groups over a pool |
| `ParallelForProofs` | theorems about `ParallelFor` |
| `WithJobQue`, `MCWithJobQue` | the scope of the queue, jobs, threads, unloading |
| `WithJobQueProofs` | theorems about `WithJobQue` |
| `SharedStatus` | reference counts of created objects |
| `HandleRegistry` | objects named by index and generation |
| `LockBox` | lock boxes: the shared object, and the fill/grab handshake |
| `MCSharedObjects` | an instance of `SharedStatus`, one of `HandleRegistry` and one of `LockBox`, checked in one run |
| `SharedObjectsProofs` | theorems about `SharedStatus` and `HandleRegistry` |
| `LockBoxProofs` | theorems about `LockBox` |
| `Table`, `MCTable` | hash tables, their iterators and locks |
| `TableMap` | what a table promises: a finite map and borrowers that freeze its keys; `Table` implements it |
| `TableProofs` | theorems about `Table`, its refinement of `TableMap` among them |
| `Heap`, `MCHeap` | the persistent heaps of data and strings |
| `HeapBlocks` | what a heap promises: a set of disjoint blocks; `Heap` implements it |
| `HeapProofs` | theorems about `Heap`, its refinement of `HeapBlocks` among them |

Conventions. A variable has the name of the member it stands for, an action that of the function.
What the code does under one lock is one action; a function that takes a lock twice, or acts
between two locks, is split there. A definition whose comment begins with "Fault" is a
plausible mistake in the definition that follows it: it is no part of the specification and is used
to see that the properties notice it. History variables are marked as such.

**JobQue.** Workers are at `loop` (test of `mShutdown`, outside the lock), `fetch` (first critical section, with a
time-out), `run` (the job's function, which may push more jobs), `retire` (second critical section),
`exited`. The owner calls wait, EvalMainThreadJobs and the destructor. `submit` inserts at the
partition point that `lower_bound` computes in a sorted deque. A job is an identifier with a
priority and a category.

**Channel.** A producer is `new`, `run`ning, `notified` and then `done`, when its job object is destroyed and with it
the context, unless a `Feature` in the pipe or in `tail` holds it. `Channel::pop` is two
actions, `PopWait` and `PopTake`/`PopNothing`, because the code unlocks between them. A consumer of
`Raw` keeps the item's address after pop (for_each, each); the others copy inside the
block (for_each_clone, each_clone). Time-outs of the wait only repeat it and are stuttering steps. `append` is
called by the owner before it starts another producer. `gather_and_forward` moves the items, with their `Feature`s, to a second channel of the same owner;
`forwarded` is its pipe, from which nobody takes. The bound `Forwarders` names the consumers that call it.

**ParallelFor.** One record of stages per call of parallel_for; nested calls are made by jobs of the outer
one and keep their worker busy. The partition is computed as the code does, chunk by chunk. The pool is the one
`JobQue` promises: first in, first out for one priority, each job once. The channel
is its counter only. A `Native` scope is a call of the C++ `JobQue::parallel_for`: it submits the chunks of the pool
under one lock, runs the last chunks in the calling thread and waits on a status that nobody holds a reference to.
`ChannelCounts` are the counts the channel may have been given: as many as there are chunks, or more.

**WithJobQue.** `g_jobQue` is a pointer to a numbered queue with `use_count` computed from
the holders. Creation, copy, the end of the block and the last section are steps
of their own; the destructor of a queue runs in the actor that drops the last reference, with the
mutex held where the code holds it. `new_job` is three steps: `new_job_invoke` tests the pointer and goes on to clone the
context and run the capture function (`fork` holds the job it makes), `new_job_read` reads the pointer again, and `new_job_push` pushes to the queue it has read (`callee`). Reading null ends the program (`crashed`),
and pushing to a queue that is gone may. `new_thread_invoke` is called by any script that runs, jobs and threads included, also while the module
is being unloaded; the module is `waiting` for the count of threads, has `counted`, has `reset` the pointer, and is `gone`. A panic leaves by longjmp (the default build has no
exceptions), so it leaks its reference. The unsynchronised copy of the `shared_ptr` is taken to read the old or the new
value, which is the mildest outcome of that race.

**SharedStatus.** One object, its creator and the jobs that captured it. `remove` drops a reference first
and throws afterwards if others are left, as the code does. Everybody who does not notify may `release`, the creator included, which
deletes nothing, whatever the count; a creator that could not remove may go on and share the object with more jobs.

**HandleRegistry.** `slots` is the vector, numbered from 1, and `free_head` the index of the head of the free list, 0 for none, as in the code. All
operations hold the registry's mutex, so they are atomic. The generation wraps at `GenerationMod`, which
stands for 2^32; `wraps` counts how often, and is a history variable like the sets of handles that are live and stale.

**LockBox.** Two boxes, for the two ways the operations are used. `Shared` holds an object that some context
allocated; `Handoff` holds the address of a buffer that its filler reuses once the box is ready (the player in
`modules/dasAudio/strudel/strudel_player.das` is written like that). Each operation runs its script block under
`mCompleteMutex`: get, update and grab are two steps around the block, and `holder` is the mutex. A context is gone with its thread unless a `Feature` keeps it.

**Stream.** A blob is a copy of the producer's array, which the producer deletes right after the push. `Stream::pop` is
`popWait`, then `popTake` or `popNothing`; the block is a step of its own, without the mutex. gather runs its block
under the mutex and is one step. pop_with_timeout is try_pop when it does not time out and nothing when it does.

**Table.** One table, of strings or of another key type (`noHash`, the template parameter; the flag in `struct Table` is
`tableNoHash`). A probe loop is the operator `First`: the first slot, on the circle that begins at the hash, in a set of slots that
end the loop. `Index`, `SimNode_TableFind` and `SimNode_TableErase` are the nodes of the interpreter; compiled code differs in when it
looks at the lock, and `Index` allows both. A loop is `TableIterator_first`, `_next` and `Release`; its body, and the block of `get`, are whatever
happens in between, and `WriteThrough` writes to the borrowed element. `block` is the size of the heap block the table owns. A hash is
a constant; its width is scaled by `HashKeyMod`, so that hashes that differ only in their upper half, and hashes that reduce to a sentinel, exist.

**Heap.** A deck is a set of used cells with the word the next search begins at (`look`); a class has a chain of decks, newest first, that never
shrinks. `free` finds the chain by the size the caller says and the cell by the address, as the code does, so a wrong size would free a cell of
another class. A request may be refused by the limit or by a deck without cells. `collectHeap` takes the set of blocks its walk reaches; that walk is
typed and is not modelled. Strings are interned, added (allocated first and recognised later), deleted, and given up through the queue of one temporary string.

## 3. Runs

| Run | Shows |
|---|---|
| `jobque` | the pool implements `Executor`: no job lost or run twice, complete wait, quiet destructor; stable priority order, sound areJobsPending; queued jobs run, wait and the destructor return |
| `pipes` | channel: items of a context once and in order, whichever operation takes them; data in the pipe, or forwarded to another channel, is in a live context, and an address kept after pop is valid until the next pop of anybody; several loops all end, and the last leaves nothing behind. Stream: blobs leave in order and are read as pushed, although the producer deletes its array and blocks run without the mutex; when all loops have ended everything has been read |
| `channel_depleted` (violation) | with two loops one may stop while producers are at work |
| `parallel_for` | each index once, wait group never used after its scope nor left with a reference, everything returns; the loop over a channel the chunks notify ends if its count is the number of chunks and hangs if it is larger |
| `scope` | one thread that opens scopes, also after a panic: queue there inside, gone after, never pushed to when it is gone; the module unloads after the threads it counted, and no other runs unless a panic left a queue |
| `scope_two` (violation) | two threads that open scopes: a block may run without a queue |
| `scope_new_job` (violation) | a job between the test of `g_jobQue` in new_job and the push, while its scope ends, uses a null pointer |
| `shared_objects` | counted pointers: after join no job that notifies holds the object, the count is exact, and a deleted object has as many holders as removes have failed. Handles: a stale one finds nothing, a live one its own object, and the free list is whole. Lock boxes: no update of the shared object is lost and it is in a live context; every buffer handed over is read once, whole and in order, and nobody has it after join |
| `table` | the table implements `TableMap`; probes end and counters agree with slots; the block is freed with the size it was allocated with |
| `table_sentinel` (violation) | a string whose hash ends in 0 or 1 is lost when its table grows |
| `heap` | the heap implements `HeapBlocks`; blocks are in cells of their class and interned strings in use; the count never drops below what is in use; the limit is exceeded by the rounding of one request at most, and is exceeded; without a limit no request fails |
| `heap_hint` (violation) | with a size hint below the size of a class, a request fails without any limit |

The violations are disagreements between the code and its documentation; PROJECT.json quotes the sentences. More were met on the
way. `DataAlive` has to end with the next pop of anybody: with two loops of the deprecated `for_each`
the pop of one releases, through `tail`, the context whose data the other is reading. In four places a property says what the code does because
the documentation says something else:

- `release` never deletes, so an object whose creator called it is leaked (`ReleasedIsLeaked`, a part of `DeletedByTheLast`), while
  `doc/source/stdlib/handmade/function-jobque-release-0x6c65fbac1ec7c6c9.rst:1` says "the object is deleted when the count reaches zero". `remove` itself drops the reference before
  it throws, so repeating a failed one deletes an object a job still holds; `MaxFailures` bounds the failures and `DeletedByTheLast` accounts for them.
- parallel_for makes no more chunks than there are indices. For a range shorter than `num_jobs` the count of
  `doc/source/reference/tutorials/35_jobque.rst:385-386`, "set the channel count to `num_jobs` since each chunk calls `notify_and_release` once", is too high and the loop over the
  channel waits for ever; `ChannelLoopEnds` says both, for the run's range of 3 indices in 4 jobs.
- "Accessing a locked `Table`'s elements via the `[]` operator will also cause a `panic`" (`doc/source/reference/language/locks.rst:26`) holds for the interpreter, which tests the lock first
  (`runtime_table_nodes.h:67`). Compiled code (`aot.h:1128-1133`) calls `reserve` at once, which looks at the lock only when it would insert or grow: the element of a key that is present is returned and may be written to.
  `Index` and `TableMap` allow both, so `TableImplementsMap` promises frozen keys and not a panic.
- `heap_size_limit` is the "maximum heap allocation in bytes" (`doc/source/reference/language/options.rst:194`), but it is compared with the size asked for and charged with the rounded one: with a limit of 57 the
  count goes to 64. `LimitHolds` therefore allows the rounding of one request.

The byte count of the string heap is in units of four until a sweep recounts it in cells of
sixteen, and stays too high from then on: `CountCoversBlocks` is exact only for the data heap. After `restartHeaps` the count keeps
its old value, and interned strings, if there are any, keep pointing into the cells (`RestartInterned = FALSE` leaves that call out).

**Bounds.** Two workers and three jobs of two priorities and two categories: overtaking, ties, a job
submitted by a job and a worker busy while another fetches all happen. Channels: owner and a job started late, so that the counter rises again (two jobs in `channel_depleted`), two consumers, three items: enough for a stolen
item, a batch between two pushes and an item left behind.
parallel_for: 3 indices for 4 jobs (so 3 chunks, and channel counts of 3 and 4), an inner call of 3 indices for 2 jobs (a remainder) and an empty one, a C++ call with three chunks of which the last is short, and one with
a single chunk; three workers, because two outer jobs wait for inner ones. Lock boxes: a filler, two grabbers and a thread that may end, three operations
on the shared box (`MaxUpdates`) and two fills of the same buffer (`MaxFills`). Streams: two producers, two consumers, three blobs (`MaxBlobs`).
Handles: two objects, three slots (`MaxSlots`), three generations and one wrap (`MaxWraps`). Tables: five keys of which four collide in a table of four slots and two pairs in one of sixteen (`Capacities`, two growth steps for either key type), one loop or block at a time; tombstones, their reuse, promotion, growth and rehash at the same size all happen. Heaps: three blocks at a time (`MaxBlocks`, one fewer after each of `MaxRestarts` restarts),
a size of each class and one beyond them, words of two bits so that the search moves from word to word; the chain has up to two decks in a class.
The limit of 57 bytes is not a multiple of the alignment, so that it can be passed. Scopes: two per thread, three jobs of which one submits others, one thread that anybody may start. Reference counts: four jobs, two failed removes. `MaxScopes`, `MaxQueues` and `MaxFailures` cap counters in the
guards of `Enter`, `Create` and `removeFails`. Items are interchangeable: symmetry is used for them in
`channel_depleted`, which checks an invariant only.

**Fairness.** Weak fairness of each thread's own steps: the operating system schedules every thread, locks
are released (no lock is held across a step except `g_jobQueMutex` and the mutex of a lock box, which are modelled), and the bodies of jobs and blocks return. Nothing
is assumed about calls a script is free not to make, except that the grabbers of a lock box keep polling it. In `parallel_for`, two of three workers may be blocked in
inner calls; if as many outer jobs as workers called parallel_for, the inner jobs
would never start and `ParallelForReturns` would fail: a nested parallel_for is safe only while a worker is left. In the
same way `ScopeReturns` needs that jobs do not open scopes: a job at the end of its own scope waits for
`g_jobQueMutex`, which the thread destroying the queue holds while it waits for the job.

Tables, heaps, reference counts and handles are sequential (or atomic) and their
runs check safety only.

**Refinement.** `ExecutorImplemented` maps a job to running while a thread holds it, to submitted while it is in the queue, the main-thread list or the local list of
EvalMainThreadJobs, and to done once its function has returned; a job that was copied instead of moved would go from done back to submitted, which the executor cannot do.
`TableImplementsMap` maps live slots to a function and cursors to keys with the keys still to come, so moving an entry under an open loop shows as a key
handed out twice or skipped. `HeapImplementsBlocks` maps the bits of the decks to a set of addresses, so a free of the wrong cell or a cell given out twice is not a step of the abstract heap.

**Deadlock** is checked in every run.
Each module has a final stuttering action for the states in which the program is through.

## 4. Proofs

Every safety property of a passing run and every refinement is proved, for all values of the constants under the assumptions named below
(each `ASSUME` is evaluated by the run of its module). A theorem has the name of what it says; PROJECT.json lists them with the
properties they state.

`JobQueProofs` proves, for every finite nonempty set of workers, any set of jobs and any
priorities and categories, that `Spec` implies always `TypeOK`, `CountersExact`,
`WaitComplete`, `NotPendingMeansFinished` and `JoinQuiescent`. Assumption: `JobQueAssumption` only.
None of the last four is inductive. The invariant `IInv` adds where every submitted job is (queued, posted to the main
thread, in `results`, in the hands of a thread, or finished), that a thread has a job in its hands exactly while it runs it,
that a worker's entry in `mThreads` shows the priority and category of the job it runs, that `results` is nonempty only
inside EvalMainThreadJobs, and that the owner is past the test of `isEmpty(true)` only if the pool
was idle then and nobody else can submit. `NextIInv` has one step per action. `NobodyRuns` is the key to wait: if
`mJobsRunning` is zero no worker is inside a job, so nobody but the owner can submit, and the owner is waiting.

Its second part proves `Spec => ExecutorImplemented`. `IInv` says that no job is missing; `Once` adds
that none is in two places: no list holds a job twice, the three lists, the hands of the threads and the finished jobs are disjoint, and no two threads
hold the same job. `IInv /\ Once` is inductive, and under it every step moves one job from one place to the next (`Submit`, `Start`, `End`
of the executor), is one of `Waited`, `Return` and `Close`, or moves nothing. There is a lemma for each of these kinds of step.
Its third part proves `Spec => []FifoOrdered`. The ticket of a job is its place in the history of submissions, which a new submission must not change;
`Order` therefore adds that no job is submitted twice. A job inserted at the partition point then has a larger ticket than every job in the queue, and stands behind all those of at least its priority.

`WithJobQueProofs` proves the four safety properties of the scope from `WithJobQueAssumption` (a finite number of threads and jobs), for any panics and any bounds.
`NothingLeftBehind` holds whoever opens scopes: while the global pointer holds a queue some actor is still on its way to the last section of with_job_que, which resets the pointer, or a panic has left a
reference behind, and the reset waits for the jobs that run, so for those inside of new_job. `ModuleOutlivesThreads` is proved if no job opens a scope (`NoJobOpensAScope`):
once the count of threads has been seen at zero no scope is open, so no queue is left whose jobs could start a thread, unless a panic has left one. `NoDanglingQueue` and `QueueInsideScope` are proved if
only the main thread opens scopes (`OnlyMainOpensScopes`); the runs `scope_two` and `scope_new_job` show what happens otherwise, and that even then the pointer new_job reads may be null. The
invariant says what a queue is good for at each moment: one whose destructor has not ended is either referenced, or being joined by exactly one actor. A queue that new_job has read belongs to a job that runs, for which the
destructor waits, or to the scope its caller is in.

`PipesProofs` proves the four safety properties of channels and streams from `ChannelAssumption`, for any jobs, consumers, items and blobs.
For `DataAlive`, `Inv` says that each `Feature` in the pipe, in `tail` and in the
other channel names, null standing for the owner, the producer that pushed its item, and that no item was pushed by two. A context named by a `Feature` is kept alive by it, so what is
to prove is that no step separates an item from its context, `gather_ex`, which takes items out of the middle, and `gather_and_forward` included.
For `NothingStranded`, `LoopInv` says that `mRemaining` counts the producers at work and that somebody always attends: while producers are at work, or the pipe is not empty, some loop will look
again. A consumer that finds the pipe empty may stop early (the run `channel_depleted`), but only because another took the item and has yet to look.
For `PerContextFifo`, `OrderInv` is about the items taken followed by those in the pipe: an operation leaves this sequence as it is or appends to it, but for `gather_ex`, which
permutes it, monotonically on the items of each context. `ReadAsPushed` has `StreamInv`: what was sent is what was popped followed by the copies in the pipe, and what was popped and not yet read is in the hands of
the consumers in their block. `PipesAreSafe` puts the two instances side by side, as the run has them.

`ParallelForProofs` proves `NoUseAfterDestroy` and `EachIndexOnce` from `ParallelForAssumption` and `NoJobAssumption`, for any finite set of workers, any calls and any ranges,
including the arithmetic of both partitions. `CountsInv` relates the status of a call to the number of its jobs that are in the queue or in a worker: `mRemaining` is that number and
the chunks still to be dispatched, `mRef` that number and the caller's own reference. `CoverInv` says that below a limit, which the caller moves up, each index has been processed once unless it
is in the interval of a job that has not run, that these intervals are disjoint, and that no job is pending twice. `OffsetAt` gives the begin of chunk i in closed form; `OffsetLast` shows that the last
chunk ends at the end of the range (a remainder that is not spread leaves a gap), `NativeSizes` that the chunks of the C++ call lie inside of it. When join returns nothing is outstanding, so nothing is pending and the limit is the end of the range.

`LockBoxProofs` proves, for any threads, objects and bounds, that `Spec` implies always `NoLostUpdate`, `ObjectStableInBlock`,
`SharedDataAlive`, `GrabsInOrder` and `JoinIsSafe`, from `LockBoxAssumption`, for the instance `Box` of `MCSharedObjects`. The inductive invariant `Inv`
says that whoever is in a block holds the mutex, that the object in the box belongs to the context in its `Feature` and shows all updates (an empty box has had
none), and that `Handoff` is full exactly while it is marked, during which the filler neither writes nor frees. There is a lemma per action.

`SharedObjectsProofs` proves `StaleFindsNothing`, `LiveFindsItsObject` and `FreeListSound` for any number of objects and slots and
any width of the generation. A released handle differs from its slot now, which says nothing of later; `StaleInv` adds that until the generation wraps
it is larger than that of the handle. `FreeListSound` is inductive: that no set of free slots is closed under its links (`FreeListEnds`) is what keeps the list finite.
Its second part proves `JoinedIsLast` and `DeletedByTheLast` for any set of jobs, from `SharedStatusAssumption`. `mRemaining` is the
number of notifying jobs that still hold the object, `mRef` the number of its holders, the creator among them, less the removes that failed.
`SharedObjectsAreSafe` states all five for the two instances of the run together.

`HeapProofs` proves, from `HeapAssumption`, the four safety properties of the heaps and `Spec => HeapImplementsBlocks`, for any sizes, limits, number of blocks and history. Decks and blocks are summed by folds,
whose value the provers cannot compute; `SumIsCount` shows once that the sum of a function into the naturals is the number of elements of a set (`Units`), by a least counterexample among the subsets, and from there on
sums are cardinalities, which the library's theorems add and subtract. `IInv` has four parts: the blocks a program holds are those that decks and big blocks have in use, found again by their
address and the size the program gives (`HeapOK`); the count is at least the bytes of those blocks, and equal to them where it is exact (`Counted`); the limit (`Limited`); interned and given-up strings are in
use (`StringsOK`). `CountNeverFallsShort` is the part that keeps the unsigned count from wrapping around. Two hypotheses are needed: `HintSuffices` (`CountCoversTheBlocks`, `NoLimitNoFailure`), without which a first deck may have no cell, and a request fails
after the count has gone up (the run `heap_hint`), and `~RestartInterned` (`HeapIsSound`, `HeapImplementsTheBlocks`), because after a restart with interned strings these point into free cells, which the run leaves out for the same reason.

`TableProofs` proves, from `TableAssumption`, `ProbeEnds` and `FreedAsAllocated`, and with the hypothesis `HashesServe` also `EveryKeyFound` and `TableImplementsMap`, for any keys,
capacities, borrowers and sequence of operations. The invariant has two parts. `Sound` says what slots hold and that the counters count them, that a packed table is dense, and that another has an empty slot;
it holds for every hash function. `Placed` says that no key is held twice and that no empty slot lies between the place where the probe for a key starts and the slot that holds it; that is what makes a key found.
Erasing keeps it because a tombstone is not empty. Inserting keeps it because the slot taken is not behind the first empty one. Growth keeps it only if the number a slot holds starts the probe where the
hash does. `HashesServe` is what a table of strings needs and other tables do not: no hash has a lower half of 0 or 1 (`table_sentinel` is the counterexample without it), the capacities divide 2^32 (past that size `reserveInternal`
refiles a string by 32 bits of its hash, `runtime_table.h:545-547`, where no lookup by 64 begins, 227-228), and no two keys have the same 64-bit hash, since a packed table compares nothing else. The code ensures none of the three. The copying loop of `reserveInternal` is a recursive function over the slots; that there is one, and
what it has copied after i slots, is shown by a least counterexample, since the library's induction takes an operator. `Borrowing` adds that the lock counts the borrowers and that what they hold is a used slot. For the refinement, `MapOf` and `Handles` read the
map and what each borrower has left off the used slots; `SameMap` says that a table that holds the same pairs is the same map, wherever they are, and there is one lemma per operation.
`TableAssumption` itself takes for granted only that `hash_function` never returns 0 or 1, and that capacities are `minCapacity` and its doublings.

Only model-checked: liveness (`EveryJobRuns`, `WaitTerminates`, `JoinTerminates`, `LoopsEnd`, `EverythingRead`, `ParallelForReturns`, `ChannelLoopEnds`, `ScopeReturns`, `ModuleUnloads`, `HandoffCompletes`), which this prover does not handle.
`gatherEx` describes the subsequence it takes (`InOrder`) instead of computing it recursively, so that it can be reasoned about.

## 5. Not modelled, and why

PROJECT.json lists every component with the reason. Operating-system thread priorities and names, logging and
leak reports have no bearing on the properties. The compiler, code generation and the script
libraries are sequential programs over large data, and make up most of the lines of the repository together with
vendored libraries (sqlite, pugixml, stb, generated parsers) that are not its own logic. Blocks that call back into the channel whose lock
their own thread holds are undefined behaviour of `std::mutex` and are not explored. The linear heaps are a bump pointer that is reset as a whole. The typed walk of
the context's garbage collection is a traversal of the type system; what it reaches is an input of `collectHeap`.

## 6. What is left

Worth adding next: two channels that forward to each other (lock order, and the attribution of the owner's items when the owners differ); the step in which a worker destroys the job object after
`Retire`; the start and stop of the debugger thread; `parallel_for_with_consume`, whose partition leaves out the indices after the last whole chunk; the lists of `gc_node`.
Theorems: what a thread pool of `JobQue` promises composed with the scope of the queue, and the modules above as they are added.
