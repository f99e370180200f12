---------------------------- MODULE JobQueProofs ----------------------------
(***************************************************************************)
(* Theorems about JobQue, for every finite pool of workers, every set of   *)
(* jobs and every assignment of priorities and categories: its counters    *)
(* and places, then its refinement of Executor, then the order of its      *)
(* queue.                                                                  *)
(***************************************************************************)
EXTENDS JobQue, FiniteSetTheorems, TLAPS

-----------------------------------------------------------------------------
(* What the sequence operations of the queue do to the set of its entries. *)

\* deque::push_back / vector::emplace_back add exactly one job.
LEMMA AppendSet ==
  ASSUME NEW S, NEW q \in Seq(S), NEW e \in S
  PROVE  ToSet(Append(q, e)) = ToSet(q) \cup {e} /\ Append(q, e) \in Seq(S)
<1> DEFINE r == Append(q, e)
<1>1. r \in Seq(S) /\ Len(r) = Len(q) + 1 /\ Len(q) \in Nat
  OBVIOUS
<1>2. \A i \in 1..Len(q) : r[i] = q[i]
  OBVIOUS
<1>3. r[Len(q) + 1] = e
  OBVIOUS
<1>4. DOMAIN r = 1..(Len(q) + 1) /\ DOMAIN q = 1..Len(q)
  BY <1>1
<1> HIDE DEF r
<1>5. ToSet(r) = ToSet(q) \cup {e}
  <2>1. ASSUME NEW x \in ToSet(r) PROVE x \in ToSet(q) \cup {e}
    <3>1. PICK i \in 1..(Len(q) + 1) : x = r[i]
      BY <2>1, <1>4 DEF ToSet
    <3>2. CASE i \in 1..Len(q)
      BY <3>1, <3>2, <1>2, <1>4 DEF ToSet
    <3>3. CASE i = Len(q) + 1
      BY <3>1, <3>3, <1>3
    <3>4. QED BY <3>1, <3>2, <3>3, <1>1
  <2>2. ASSUME NEW x \in ToSet(q) PROVE x \in ToSet(r)
    <3>1. PICK i \in 1..Len(q) : x = q[i]
      BY <2>2, <1>4 DEF ToSet
    <3>2. i \in 1..(Len(q) + 1) /\ x = r[i]
      BY <3>1, <1>1, <1>2
    <3>3. QED BY <3>2, <1>4 DEF ToSet
  <2>3. e \in ToSet(r)
    <3>1. Len(q) + 1 \in DOMAIN r
      BY <1>1, <1>4
    <3>2. QED BY <3>1, <1>3 DEF ToSet
  <2>4. QED BY <2>1, <2>2, <2>3
<1>6. QED BY <1>1, <1>5 DEF r

\* deque::pop_front removes nothing but the front.
LEMMA HeadTailSet ==
  ASSUME NEW S, NEW q \in Seq(S), q # <<>>
  PROVE  /\ Head(q) \in S /\ Tail(q) \in Seq(S)
         /\ ToSet(q) = ToSet(Tail(q)) \cup {Head(q)}
<1> DEFINE r == Tail(q)
<1>1. r \in Seq(S) /\ Len(q) \in Nat \ {0} /\ Len(r) = Len(q) - 1
  OBVIOUS
<1>2. \A i \in 1..(Len(q) - 1) : r[i] = q[i + 1]
  OBVIOUS
<1>3. Head(q) = q[1] /\ Head(q) \in S
  OBVIOUS
<1>4. DOMAIN r = 1..(Len(q) - 1) /\ DOMAIN q = 1..Len(q)
  BY <1>1
<1> HIDE DEF r
<1>5. ToSet(q) = ToSet(r) \cup {Head(q)}
  <2>1. ASSUME NEW x \in ToSet(q) PROVE x \in ToSet(r) \cup {Head(q)}
    <3>1. PICK i \in 1..Len(q) : x = q[i]
      BY <2>1, <1>4 DEF ToSet
    <3>2. CASE i = 1
      BY <3>1, <3>2, <1>3
    <3>3. CASE i # 1
      <4>1. i - 1 \in 1..(Len(q) - 1) /\ (i - 1) + 1 = i
        BY <3>1, <3>3, <1>1
      <4>2. x = r[i - 1]
        BY <4>1, <3>1, <1>2
      <4>3. QED BY <4>1, <4>2, <1>4 DEF ToSet
    <3>4. QED BY <3>2, <3>3
  <2>2. ASSUME NEW x \in ToSet(r) PROVE x \in ToSet(q)
    <3>1. PICK i \in 1..(Len(q) - 1) : x = r[i]
      BY <2>2, <1>4 DEF ToSet
    <3>2. i + 1 \in 1..Len(q) /\ x = q[i + 1]
      BY <3>1, <1>1, <1>2
    <3>3. QED BY <3>2, <1>4 DEF ToSet
  <2>3. Head(q) \in ToSet(q)
    <3>1. 1 \in DOMAIN q
      BY <1>1, <1>4
    <3>2. QED BY <3>1, <1>3 DEF ToSet
  <2>4. QED BY <2>1, <2>2, <2>3
<1>6. QED BY <1>1, <1>3, <1>5 DEF r

\* r is q with e put in front of entry p + 1.
Inserted(S, q, p, e, r) ==
  /\ r \in Seq(S)
  /\ Len(r) = Len(q) + 1
  /\ \A i \in 1..p : r[i] = q[i]
  /\ r[p + 1] = e
  /\ \A i \in (p + 1)..Len(q) : r[i + 1] = q[i]

\* deque::emplace at position p + 1: entries up to p keep their place, the others
\* move back by one.
LEMMA InsertAtEntries ==
  ASSUME NEW S, NEW q \in Seq(S), NEW e \in S, NEW p \in 0..Len(q)
  PROVE  Inserted(S, q, p, e, InsertAt(q, p + 1, e))
<1> DEFINE a == SubSeq(q, 1, p)
           b == SubSeq(q, p + 1, Len(q))
<1>1. Len(q) \in Nat /\ p \in Nat /\ p <= Len(q) /\ (p + 1) - 1 = p
  OBVIOUS
<1>2. a \in Seq(S) /\ Len(a) = p /\ \A i \in 1..p : a[i] = q[i]
  BY <1>1
<1>3. b \in Seq(S) /\ Len(b) = Len(q) - p
  BY <1>1
<1>4. \A i \in 1..(Len(q) - p) : b[i] = q[p + i]
  BY <1>1
<1>5. InsertAt(q, p + 1, e) = (a \o <<e>>) \o b
  BY <1>1 DEF InsertAt
<1> HIDE DEF a, b
<1> DEFINE c == a \o <<e>>
<1>6. c \in Seq(S) /\ Len(c) = p + 1
  BY <1>1, <1>2
<1>7. (\A i \in 1..p : c[i] = q[i]) /\ c[p + 1] = e
  BY <1>1, <1>2
<1> HIDE DEF c
<1> DEFINE r == c \o b
<1>8. r \in Seq(S) /\ Len(r) = Len(c) + Len(b)
  BY <1>3, <1>6
<1>9. Len(r) = Len(q) + 1
  BY <1>8, <1>1, <1>3, <1>6
<1>10. \A i \in 1..(p + 1) : r[i] = c[i]
  BY <1>1, <1>3, <1>6
<1>11. \A i \in 1..(Len(q) - p) : r[(p + 1) + i] = b[i]
  BY <1>1, <1>3, <1>6
<1> HIDE DEF r
<1>12. \A i \in 1..p : r[i] = q[i]
  BY <1>1, <1>7, <1>10
<1>13. r[p + 1] = e
  BY <1>1, <1>7, <1>10
<1>14. ASSUME NEW i \in (p + 1)..Len(q) PROVE r[i + 1] = q[i]
  <2>1. i - p \in 1..(Len(q) - p) /\ (p + 1) + (i - p) = i + 1 /\ p + (i - p) = i
    BY <1>1
  <2>2. QED BY <2>1, <1>4, <1>11
<1>15. InsertAt(q, p + 1, e) = r
  BY <1>5 DEF r, c
<1>16. Inserted(S, q, p, e, r)
  BY <1>8, <1>9, <1>12, <1>13, <1>14 DEF Inserted
<1>17. QED BY <1>15, <1>16

\* r holds the entries of q and e.
AddsOne(S, q, e, r) == r \in Seq(S) /\ ToSet(r) = ToSet(q) \cup {e}

\* deque::emplace adds exactly one job to the queue.
LEMMA InsertAtSet ==
  ASSUME NEW S, NEW q \in Seq(S), NEW e \in S, NEW p \in 0..Len(q)
  PROVE  AddsOne(S, q, e, InsertAt(q, p + 1, e))
<1> DEFINE r == InsertAt(q, p + 1, e)
<1> HIDE DEF r
<1>1. /\ r \in Seq(S) /\ Len(r) = Len(q) + 1
      /\ \A i \in 1..p : r[i] = q[i]
      /\ r[p + 1] = e
      /\ \A i \in (p + 1)..Len(q) : r[i + 1] = q[i]
  <2>1. Inserted(S, q, p, e, r)
    BY InsertAtEntries DEF r
  <2>2. QED BY <2>1 DEF Inserted
<1>2. Len(q) \in Nat /\ p \in Nat /\ p <= Len(q)
  OBVIOUS
<1>3. DOMAIN r = 1..(Len(q) + 1) /\ DOMAIN q = 1..Len(q)
  BY <1>1
<1>4. ASSUME NEW x \in ToSet(r) PROVE x \in ToSet(q) \cup {e}
  <2>1. PICK i \in 1..(Len(q) + 1) : x = r[i]
    BY <1>3 DEF ToSet
  <2>2. CASE i \in 1..p
    <3>1. i \in 1..Len(q) /\ x = q[i]
      BY <2>1, <2>2, <1>1, <1>2
    <3>2. QED BY <3>1, <1>3 DEF ToSet
  <2>3. CASE i = p + 1
    BY <2>1, <2>3, <1>1, <1>2
  <2>4. CASE i > p + 1
    <3>1. i - 1 \in (p + 1)..Len(q) /\ (i - 1) + 1 = i /\ i - 1 \in 1..Len(q)
      BY <2>1, <2>4, <1>2
    <3>2. x = q[i - 1]
      BY <3>1, <2>1, <1>1
    <3>3. QED BY <3>1, <3>2, <1>3 DEF ToSet
  <2>5. QED BY <1>2, <2>2, <2>3, <2>4
<1>5. ASSUME NEW x \in ToSet(q) PROVE x \in ToSet(r)
  <2>1. PICK i \in 1..Len(q) : x = q[i]
    BY <1>3 DEF ToSet
  <2>2. CASE i \in 1..p
    <3>1. i \in 1..(Len(q) + 1) /\ x = r[i]
      BY <2>1, <2>2, <1>1, <1>2
    <3>2. QED BY <3>1, <1>3 DEF ToSet
  <2>3. CASE i \in (p + 1)..Len(q)
    <3>1. i + 1 \in 1..(Len(q) + 1) /\ x = r[i + 1]
      BY <2>1, <2>3, <1>1, <1>2
    <3>2. QED BY <3>1, <1>3 DEF ToSet
  <2>4. QED BY <1>2, <2>2, <2>3
<1>6. e \in ToSet(r)
  <2>1. p + 1 \in 1..(Len(q) + 1)
    BY <1>2
  <2>2. QED BY <2>1, <1>1, <1>3 DEF ToSet
<1>7. AddsOne(S, q, e, r)
  BY <1>1, <1>4, <1>5, <1>6 DEF AddsOne
<1>8. QED BY <1>7 DEF r

-----------------------------------------------------------------------------
(* The inductive invariant.                                                *)

Busy  == {w \in Workers : pc[w] \in {"run", "retire"}}
Alive == {w \in Workers : pc[w] # "exited"}

\* No submitted job is missing from all the places a job can be in.
Placed ==
  ToSet(submitted) = ToSet(mFifo) \cup ToSet(mEvalMainThread) \cup ToSet(results)
                       \cup Running \cup finished

\* A thread holds a job exactly while it runs its body.
Held == \A t \in Threads : cur[t] # NoJob <=> pc[t] = "run"

\* The ThreadEntry of a worker describes the job it holds until it retires it.
Tagged ==
  \A w \in Workers :
    /\ mThreads[w].currentPriority # Inactive <=> pc[w] \in {"run", "retire"}
    /\ pc[w] = "run" => mThreads[w].currentCategory = Category[cur[w]]

\* The local list of EvalMainThreadJobs is empty outside of its loop.
ResultsLocal == pc[Main] \notin {"eval", "run"} => results = <<>>

Waited == pc[Main] = "waited" => isEmpty(TRUE)

Joined == pc[Main] = "joined" => mThreadCount = 0

IInv == /\ TypeOK /\ CountersExact /\ Placed /\ Held /\ Tagged
        /\ ResultsLocal /\ Waited /\ Joined

-----------------------------------------------------------------------------
\* The sets the counters count are finite.
LEMMA CountedFinite ==
  /\ IsFiniteSet(Busy) /\ IsFiniteSet(Alive)
  /\ Cardinality(Busy) \in Nat /\ Cardinality(Alive) \in Nat
<1>1. Busy \subseteq Workers /\ Alive \subseteq Workers
  BY DEF Busy, Alive
<1>2. IsFiniteSet(Busy) /\ IsFiniteSet(Alive)
  BY <1>1, JobQueAssumption, FS_Subset
<1>3. QED BY <1>2, FS_CardinalityType

\* The constructor establishes the invariant.
LEMMA InitIInv == Init => IInv
<1> SUFFICES ASSUME Init PROVE IInv
  OBVIOUS
<1> USE JobQueAssumption
<1>1. \A w \in Workers : pc[w] = "loop" /\ cur[w] = NoJob
  BY DEF Init, Threads
<1>2. pc[Main] = "idle" /\ cur[Main] = NoJob
  BY DEF Init, Threads
<1>3. TypeOK
  <2>1. Cardinality(Workers) \in Nat
    BY FS_CardinalityType
  <2>2. pc \in [Threads -> WorkerPc \cup MainPc]
    BY DEF Init, WorkerPc, MainPc
  <2>3. mThreads \in [Workers -> [currentPriority : Int \cup {Inactive}, currentCategory : Nat]]
    BY DEF Init
  <2>4. mFifo \in Seq(Jobs) /\ mEvalMainThread \in Seq(Jobs) /\ results \in Seq(Jobs)
        /\ submitted \in Seq(Jobs)
    BY DEF Init
  <2>5. mJobsRunning \in Nat /\ mThreadCount \in Nat /\ mShutdown \in BOOLEAN /\ inWait \in BOOLEAN
    BY <2>1 DEF Init
  <2>6. cur \in [Threads -> Jobs \cup {NoJob}] /\ finished \in SUBSET Jobs
    BY DEF Init
  <2>7. (\A w \in Workers : pc[w] \in WorkerPc) /\ pc[Main] \in MainPc
    BY <1>1, <1>2 DEF WorkerPc, MainPc
  <2>8. QED BY <2>2, <2>3, <2>4, <2>5, <2>6, <2>7 DEF TypeOK
<1>4. CountersExact
  <2>1. Busy = {} /\ Alive = Workers
    BY <1>1 DEF Busy, Alive
  <2>2. QED BY <2>1, FS_EmptySet DEF CountersExact, Init, Busy, Alive
<1>5. Placed
  BY DEF Placed, Init, ToSet, Running
<1>6. Held
  BY <1>1, <1>2 DEF Held, Threads
<1>7. Tagged
  BY <1>1 DEF Tagged, Init
<1>8. ResultsLocal /\ Waited /\ Joined
  BY <1>2 DEF ResultsLocal, Waited, Joined, Init
<1>9. QED BY <1>3, <1>4, <1>5, <1>6, <1>7, <1>8 DEF IInv

-----------------------------------------------------------------------------
(* One lemma for each kind of step.                                        *)

\* mJobsRunning = 0 is only true when no worker is between its two sections.
LEMMA NobodyRuns ==
  ASSUME TypeOK, CountersExact, mJobsRunning = 0
  PROVE  \A w \in Workers : pc[w] \notin {"run", "retire"}
<1>1. Cardinality(Busy) = 0
  BY DEF CountersExact, Busy
<1>2. Busy = {}
  BY <1>1, CountedFinite, FS_EmptySet
<1>3. QED BY <1>2 DEF Busy

\* A step that moves no thread in or out of a job leaves both counters exact.
LEMMA CountersUntouched ==
  ASSUME CountersExact, UNCHANGED <<mJobsRunning, mThreadCount>>,
         \A w \in Workers : /\ pc[w] \in {"run", "retire"} <=> pc'[w] \in {"run", "retire"}
                            /\ pc[w] = "exited" <=> pc'[w] = "exited"
  PROVE  CountersExact'
<1>1. {w \in Workers : pc[w] \in {"run", "retire"}} = {w \in Workers : pc'[w] \in {"run", "retire"}}
  OBVIOUS
<1>2. {w \in Workers : pc[w] # "exited"} = {w \in Workers : pc'[w] # "exited"}
  OBVIOUS
<1>3. QED BY <1>1, <1>2 DEF CountersExact

\* push and EvalOnMainThread add the job to one list and to the history.
LEMMA SubmitIInv ==
  ASSUME IInv, NEW t \in Threads, NEW j \in Jobs, push(t, j) \/ EvalOnMainThread(t, j)
  PROVE  IInv'
<1> USE JobQueAssumption
<1>1. /\ UNCHANGED <<mThreads, mJobsRunning, mThreadCount, mShutdown, results, inWait, finished, pc, cur>>
      /\ submitted' = Append(submitted, j) /\ CanCall(t)
  BY DEF push, EvalOnMainThread, queueVars, poolVars, mainVars
<1>2. /\ mFifo' \in Seq(Jobs) /\ mEvalMainThread' \in Seq(Jobs)
      /\ ToSet(mFifo') \cup ToSet(mEvalMainThread')
           = (ToSet(mFifo) \cup ToSet(mEvalMainThread)) \cup {j}
  <2>1. CASE push(t, j)
    <3>1. PICK p \in 0..Len(mFifo) : mFifo' = InsertAt(mFifo, p + 1, j)
      BY <2>1 DEF push, submit
    <3>2. mFifo \in Seq(Jobs)
      BY DEF IInv, TypeOK
    <3>3. mFifo' \in Seq(Jobs) /\ ToSet(mFifo') = ToSet(mFifo) \cup {j}
      <4>1. AddsOne(Jobs, mFifo, j, InsertAt(mFifo, p + 1, j))
        BY <3>2, InsertAtSet
      <4>2. QED BY <3>1, <4>1 DEF AddsOne
    <3>4. mEvalMainThread' = mEvalMainThread
      BY <2>1 DEF push, mainVars
    <3>5. QED BY <3>3, <3>4 DEF IInv, TypeOK
  <2>2. CASE EvalOnMainThread(t, j)
    <3>1. mEvalMainThread \in Seq(Jobs)
      BY DEF IInv, TypeOK
    <3>2. mEvalMainThread' \in Seq(Jobs)
          /\ ToSet(mEvalMainThread') = ToSet(mEvalMainThread) \cup {j}
      BY <2>2, <3>1, AppendSet DEF EvalOnMainThread
    <3>3. mFifo' = mFifo
      BY <2>2 DEF EvalOnMainThread, queueVars
    <3>4. QED BY <3>2, <3>3 DEF IInv, TypeOK
  <2>3. QED BY <2>1, <2>2
<1>3. submitted' \in Seq(Jobs) /\ ToSet(submitted') = ToSet(submitted) \cup {j}
  BY <1>1, AppendSet DEF IInv, TypeOK
<1>4. TypeOK'
  BY <1>1, <1>2, <1>3 DEF IInv, TypeOK
<1>5. CountersExact'
  BY <1>1, CountersUntouched DEF IInv
<1>6. Placed'
  <2>1. Running' = Running
    BY <1>1 DEF Running
  <2>2. QED BY <1>1, <1>2, <1>3, <2>1 DEF IInv, Placed
<1>7. Held' /\ Tagged' /\ ResultsLocal' /\ Joined'
  BY <1>1 DEF IInv, Held, Tagged, ResultsLocal, Joined
<1>8. Waited'
  <2>1. pc[Main] # "waited"
    <3>1. SUFFICES ASSUME pc[Main] = "waited" PROVE FALSE
      OBVIOUS
    <3>2. t \in Workers /\ pc[t] = "run"
      BY <1>1, <3>1 DEF CanCall, Threads
    <3>3. mJobsRunning = 0
      BY <3>1 DEF IInv, Waited, isEmpty
    <3>4. QED BY <3>2, <3>3, NobodyRuns DEF IInv
  <2>2. QED BY <1>1, <2>1 DEF Waited
<1>9. QED BY <1>4, <1>5, <1>6, <1>7, <1>8 DEF IInv

\* The steps of JobQue::job.
LEMMA WorkerIInv ==
  ASSUME IInv, NEW w \in Workers, WorkerStep(w)
  PROVE  IInv'
<1> USE JobQueAssumption
<1> w \in Threads /\ w # Main /\ Main \in Threads /\ Workers \subseteq Threads
  BY DEF Threads
<1> TypeOK /\ CountersExact /\ Placed /\ Held /\ Tagged /\ ResultsLocal /\ Waited /\ Joined
  BY DEF IInv
<1>0. pc \in [Threads -> WorkerPc \cup MainPc] /\ cur \in [Threads -> Jobs \cup {NoJob}]
  BY DEF TypeOK
<1>1. CASE LoopTest(w) \/ FetchTimeout(w)
  <2>1. /\ pc[w] \in {"loop", "fetch"} /\ pc'[w] \in {"loop", "fetch"}
        /\ \A t \in Threads : t # w => pc'[t] = pc[t]
        /\ pc' \in [Threads -> WorkerPc \cup MainPc]
        /\ UNCHANGED <<mFifo, mThreads, mJobsRunning, mThreadCount, mShutdown, mEvalMainThread,
                       results, inWait, submitted, finished, cur>>
    BY <1>0, <1>1 DEF LoopTest, FetchTimeout, Goto, queueVars, poolVars, mainVars, histVars, WorkerPc
  <2>2. TypeOK'
    BY <2>1 DEF TypeOK, WorkerPc
  <2>3. CountersExact'
    BY <2>1, CountersUntouched
  <2>4. Placed'
    BY <2>1 DEF Placed, Running
  <2>5. Held' /\ Tagged' /\ ResultsLocal' /\ Waited' /\ Joined'
    BY <2>1 DEF Held, Tagged, ResultsLocal, Waited, isEmpty, Joined
  <2>6. QED BY <2>2, <2>3, <2>4, <2>5 DEF IInv
<1>2. CASE Fetch(w)
  <2> DEFINE j == Head(mFifo)
  <2>1. /\ pc[w] = "fetch" /\ pc'[w] = "run" /\ mFifo # <<>>
        /\ \A t \in Threads : t # w => pc'[t] = pc[t] /\ cur'[t] = cur[t]
        /\ pc' \in [Threads -> WorkerPc \cup MainPc]
        /\ cur' = [cur EXCEPT ![w] = j] /\ cur'[w] = j
        /\ mFifo' = Tail(mFifo) /\ mJobsRunning' = mJobsRunning + 1
        /\ mThreads' = [mThreads EXCEPT ![w] =
                          [currentPriority |-> Priority[j], currentCategory |-> Category[j]]]
        /\ UNCHANGED <<mThreadCount, mShutdown, mEvalMainThread, results, inWait, submitted, finished>>
    BY <1>0, <1>2 DEF Fetch, Goto, poolVars, mainVars, histVars, WorkerPc
  <2>2. /\ j \in Jobs /\ mFifo' \in Seq(Jobs)
        /\ ToSet(mFifo) = ToSet(mFifo') \cup {j}
    BY <2>1, HeadTailSet DEF TypeOK
  <2>3. j # NoJob /\ cur[w] = NoJob /\ Priority[j] \in Int /\ Category[j] \in Nat /\ Priority[j] # Inactive
    BY <2>1, <2>2 DEF Held
  <2> HIDE DEF j
  <2>4. mThreads' \in [Workers -> [currentPriority : Int \cup {Inactive}, currentCategory : Nat]]
    BY <2>1, <2>3 DEF TypeOK
  <2>5. TypeOK'
    <3>1. cur' \in [Threads -> Jobs \cup {NoJob}]
      BY <1>0, <2>1, <2>2
    <3>2. mJobsRunning' \in Nat
      BY <2>1 DEF TypeOK
    <3>3. (\A v \in Workers : pc'[v] \in WorkerPc) /\ pc'[Main] \in MainPc
      BY <2>1 DEF TypeOK, WorkerPc
    <3>4. QED BY <2>1, <2>2, <2>4, <3>1, <3>2, <3>3 DEF TypeOK
  <2>6. CountersExact'
    <3>1. Busy' = Busy \cup {w} /\ w \notin Busy /\ Alive' = Alive
      BY <2>1 DEF Busy, Alive
    <3>2. Cardinality(Busy') = Cardinality(Busy) + 1
      BY <3>1, CountedFinite, FS_AddElement
    <3>3. QED BY <3>1, <3>2, <2>1 DEF CountersExact, Busy, Alive
  <2>7. Placed'
    <3>1. Running' = Running \cup {j}
      <4>1. ASSUME NEW x \in Running' PROVE x \in Running \cup {j}
        BY <4>1, <2>1 DEF Running
      <4>2. ASSUME NEW x \in Running PROVE x \in Running'
        BY <4>2, <2>1, <2>3 DEF Running
      <4>3. j \in Running'
        BY <2>1, <2>3 DEF Running
      <4>4. QED BY <4>1, <4>2, <4>3
    <3>2. QED BY <3>1, <2>1, <2>2 DEF Placed
  <2>8. Held'
    BY <2>1, <2>3 DEF Held
  <2>9. Tagged'
    <3>1. ASSUME NEW v \in Workers
          PROVE  /\ mThreads'[v].currentPriority # Inactive <=> pc'[v] \in {"run", "retire"}
                 /\ pc'[v] = "run" => mThreads'[v].currentCategory = Category[cur'[v]]
      <4>1. CASE v = w
        BY <4>1, <2>1, <2>3 DEF TypeOK
      <4>2. CASE v # w
        BY <4>2, <2>1 DEF TypeOK, Tagged
      <4>3. QED BY <4>1, <4>2
    <3>2. QED BY <3>1 DEF Tagged
  <2>10. Waited'
    BY <2>1 DEF Waited, isEmpty
  <2>11. ResultsLocal' /\ Joined'
    BY <2>1 DEF ResultsLocal, Joined
  <2>12. QED BY <2>5, <2>6, <2>7, <2>8, <2>9, <2>10, <2>11 DEF IInv
<1>3. CASE JobEnd(w)
  <2>1. /\ pc[w] = "run" /\ pc'[w] = "retire"
        /\ \A t \in Threads : t # w => pc'[t] = pc[t] /\ cur'[t] = cur[t]
        /\ pc' \in [Threads -> WorkerPc \cup MainPc]
        /\ cur' \in [Threads -> Jobs \cup {NoJob}] /\ cur'[w] = NoJob
        /\ finished' = finished \cup {cur[w]}
        /\ UNCHANGED <<mFifo, mThreads, mJobsRunning, mThreadCount, mShutdown, mEvalMainThread,
                       results, inWait, submitted>>
    BY <1>0, <1>3 DEF JobEnd, Goto, queueVars, poolVars, mainVars, WorkerPc
  <2>2. cur[w] \in Jobs
    BY <1>0, <2>1 DEF Held
  <2>3. TypeOK'
    BY <2>1, <2>2 DEF TypeOK, WorkerPc
  <2>4. CountersExact'
    BY <2>1, CountersUntouched
  <2>5. Placed'
    <3>1. Running' \cup {cur[w]} = Running
      <4>1. ASSUME NEW x \in Running' PROVE x \in Running
        BY <4>1, <2>1 DEF Running
      <4>2. ASSUME NEW x \in Running PROVE x \in Running' \cup {cur[w]}
        BY <4>2, <2>1 DEF Running
      <4>3. cur[w] \in Running
        BY <2>2 DEF Running
      <4>4. QED BY <4>1, <4>2, <4>3
    <3>2. QED BY <3>1, <2>1 DEF Placed
  <2>6. Held' /\ ResultsLocal' /\ Waited' /\ Joined'
    BY <2>1 DEF Held, ResultsLocal, Waited, isEmpty, Joined
  <2>7. Tagged'
    <3>1. ASSUME NEW v \in Workers
          PROVE  /\ mThreads'[v].currentPriority # Inactive <=> pc'[v] \in {"run", "retire"}
                 /\ pc'[v] = "run" => mThreads'[v].currentCategory = Category[cur'[v]]
      <4>1. CASE v = w
        BY <4>1, <2>1 DEF Tagged
      <4>2. CASE v # w
        BY <4>2, <2>1 DEF Tagged
      <4>3. QED BY <4>1, <4>2
    <3>2. QED BY <3>1 DEF Tagged
  <2>8. QED BY <2>3, <2>4, <2>5, <2>6, <2>7 DEF IInv
<1>4. CASE Retire(w)
  <2>1. /\ pc[w] = "retire" /\ pc'[w] = "loop"
        /\ \A t \in Threads : t # w => pc'[t] = pc[t]
        /\ pc' \in [Threads -> WorkerPc \cup MainPc]
        /\ mThreads' = [mThreads EXCEPT ![w].currentPriority = Inactive]
        /\ mJobsRunning' = mJobsRunning - 1
        /\ UNCHANGED <<mFifo, mThreadCount, mShutdown, mEvalMainThread, results, inWait, submitted,
                       finished, cur>>
    BY <1>0, <1>4 DEF Retire, Goto, poolVars, mainVars, histVars, WorkerPc
  <2>2. CountersExact' /\ mJobsRunning' \in Nat
    <3>1. Busy' = Busy \ {w} /\ w \in Busy /\ Alive' = Alive
      BY <2>1 DEF Busy, Alive
    <3>2. Cardinality(Busy') = Cardinality(Busy) - 1
      BY <3>1, CountedFinite, FS_RemoveElement
    <3>3. IsFiniteSet(Busy') /\ Cardinality(Busy') \in Nat
      BY <3>1, CountedFinite, FS_RemoveElement, FS_CardinalityType
    <3>4. mJobsRunning' = Cardinality(Busy')
      BY <3>2, <2>1 DEF CountersExact, Busy
    <3>5. mThreadCount' = Cardinality(Alive')
      BY <3>1, <2>1 DEF CountersExact, Alive
    <3>6. QED BY <3>3, <3>4, <3>5 DEF CountersExact, Busy, Alive
  <2>3. /\ \A v \in Workers : v # w => mThreads'[v] = mThreads[v]
        /\ mThreads'[w].currentPriority = Inactive
        /\ mThreads' \in [Workers -> [currentPriority : Int \cup {Inactive}, currentCategory : Nat]]
    <3> DEFINE T == [currentPriority : Int \cup {Inactive}, currentCategory : Nat]
               r == [mThreads[w] EXCEPT !.currentPriority = Inactive]
    <3>1. mThreads \in [Workers -> T]
      BY DEF TypeOK
    <3>2. r \in T /\ r.currentPriority = Inactive
      <4>1. mThreads[w] \in T
        BY <3>1
      <4>2. QED BY <4>1
    <3>3. mThreads' = [mThreads EXCEPT ![w] = r]
      BY <2>1
    <3> HIDE DEF T, r
    <3>4. mThreads' \in [Workers -> T] /\ mThreads'[w] = r
          /\ \A v \in Workers : v # w => mThreads'[v] = mThreads[v]
      BY <3>1, <3>2, <3>3
    <3>5. QED BY <3>2, <3>4 DEF T
  <2>4. TypeOK'
    BY <2>1, <2>2, <2>3 DEF TypeOK, WorkerPc
  <2>5. Placed'
    BY <2>1 DEF Placed, Running
  <2>6. Held' /\ ResultsLocal' /\ Joined'
    BY <2>1 DEF Held, ResultsLocal, Joined
  <2>7. Tagged'
    BY <2>1, <2>3 DEF Tagged
  <2>8. Waited'
    <3>1. pc[Main] # "waited"
      BY <2>1, NobodyRuns DEF Waited, isEmpty
    <3>2. QED BY <3>1, <2>1 DEF Waited
  <2>9. QED BY <2>2, <2>4, <2>5, <2>6, <2>7, <2>8 DEF IInv
<1>5. CASE Leave(w)
  <2>1. /\ pc[w] = "loop" /\ pc'[w] = "exited"
        /\ \A t \in Threads : t # w => pc'[t] = pc[t]
        /\ pc' \in [Threads -> WorkerPc \cup MainPc]
        /\ mThreadCount' = mThreadCount - 1
        /\ UNCHANGED <<mFifo, mThreads, mJobsRunning, mShutdown, mEvalMainThread, results, inWait,
                       submitted, finished, cur>>
    BY <1>0, <1>5 DEF Leave, Goto, queueVars, mainVars, histVars, WorkerPc
  <2>2. CountersExact' /\ mThreadCount' \in Nat /\ mThreadCount # 0
    <3>1. Alive' = Alive \ {w} /\ w \in Alive /\ Busy' = Busy
      BY <2>1 DEF Busy, Alive
    <3>2. Cardinality(Alive') = Cardinality(Alive) - 1
      BY <3>1, CountedFinite, FS_RemoveElement
    <3>3. IsFiniteSet(Alive') /\ Cardinality(Alive') \in Nat
      BY <3>1, CountedFinite, FS_RemoveElement, FS_CardinalityType
    <3>4. mThreadCount = Cardinality(Alive) /\ mThreadCount' = Cardinality(Alive')
      BY <3>2, <2>1 DEF CountersExact, Alive
    <3>5. mJobsRunning' = Cardinality(Busy')
      BY <3>1, <2>1 DEF CountersExact, Busy
    <3>6. QED BY <3>2, <3>3, <3>4, <3>5, CountedFinite DEF CountersExact, Busy, Alive
  <2>3. TypeOK'
    BY <2>1, <2>2 DEF TypeOK, WorkerPc
  <2>4. Placed'
    BY <2>1 DEF Placed, Running
  <2>5. Held' /\ Tagged' /\ ResultsLocal' /\ Waited'
    BY <2>1 DEF Held, Tagged, ResultsLocal, Waited, isEmpty
  <2>6. Joined'
    BY <2>1, <2>2 DEF Joined
  <2>7. QED BY <2>2, <2>3, <2>4, <2>5, <2>6 DEF IInv
<1>6. QED BY <1>1, <1>2, <1>3, <1>4, <1>5 DEF WorkerStep

\* The owner's calls and what it does inside them.
LEMMA MainIInv ==
  ASSUME IInv, MainStep \/ MainCall
  PROVE  IInv'
<1> USE JobQueAssumption
<1> Main \in Threads /\ Workers \subseteq Threads /\ \A w \in Workers : w # Main
  BY DEF Threads
<1> TypeOK /\ CountersExact /\ Placed /\ Held /\ Tagged /\ ResultsLocal /\ Waited /\ Joined
  BY DEF IInv
<1>0. pc \in [Threads -> WorkerPc \cup MainPc] /\ cur \in [Threads -> Jobs \cup {NoJob}]
  BY DEF TypeOK
<1>1. CASE EvalSwap
  <2>1. /\ pc[Main] = "swap" /\ pc'[Main] = "eval"
        /\ \A t \in Threads : t # Main => pc'[t] = pc[t]
        /\ pc' \in [Threads -> WorkerPc \cup MainPc]
        /\ results' = mEvalMainThread /\ mEvalMainThread' = <<>>
        /\ UNCHANGED <<mFifo, mThreads, mJobsRunning, mThreadCount, mShutdown, inWait, submitted,
                       finished, cur>>
    BY <1>0, <1>1 DEF EvalSwap, Goto, queueVars, poolVars, histVars, MainPc
  <2>2. results = <<>> /\ ToSet(<<>>) = {} /\ <<>> \in Seq(Jobs)
    BY <2>1 DEF ResultsLocal, ToSet
  <2>3. TypeOK'
    BY <2>1, <2>2 DEF TypeOK, MainPc
  <2>4. CountersExact'
    BY <2>1, CountersUntouched
  <2>5. Placed'
    <3>1. Running' = Running
      BY <2>1 DEF Running
    <3>2. QED BY <3>1, <2>1, <2>2 DEF Placed
  <2>6. Held' /\ Tagged' /\ ResultsLocal' /\ Waited' /\ Joined'
    BY <2>1 DEF Held, Tagged, ResultsLocal, Waited, Joined
  <2>7. QED BY <2>3, <2>4, <2>5, <2>6 DEF IInv
<1>2. CASE EvalJob
  <2> DEFINE j == Head(results)
  <2>1. /\ pc[Main] = "eval" /\ pc'[Main] = "run" /\ results # <<>>
        /\ \A t \in Threads : t # Main => pc'[t] = pc[t] /\ cur'[t] = cur[t]
        /\ pc' \in [Threads -> WorkerPc \cup MainPc]
        /\ cur' = [cur EXCEPT ![Main] = j] /\ cur'[Main] = j
        /\ results' = Tail(results)
        /\ UNCHANGED <<mFifo, mThreads, mJobsRunning, mThreadCount, mShutdown, mEvalMainThread,
                       inWait, submitted, finished>>
    BY <1>0, <1>2 DEF EvalJob, Goto, queueVars, poolVars, histVars, MainPc
  <2>2. j \in Jobs /\ results' \in Seq(Jobs) /\ ToSet(results) = ToSet(results') \cup {j}
    BY <2>1, HeadTailSet DEF TypeOK
  <2>3. j # NoJob /\ cur[Main] = NoJob
    BY <2>1, <2>2 DEF Held
  <2> HIDE DEF j
  <2>4. TypeOK'
    <3>1. cur' \in [Threads -> Jobs \cup {NoJob}]
      BY <1>0, <2>1, <2>2
    <3>2. QED BY <2>1, <2>2, <3>1 DEF TypeOK, MainPc
  <2>5. CountersExact'
    BY <2>1, CountersUntouched
  <2>6. Placed'
    <3>1. Running' = Running \cup {j}
      <4>1. ASSUME NEW x \in Running' PROVE x \in Running \cup {j}
        BY <4>1, <2>1 DEF Running
      <4>2. ASSUME NEW x \in Running PROVE x \in Running'
        BY <4>2, <2>1, <2>3 DEF Running
      <4>3. j \in Running'
        BY <2>1, <2>3 DEF Running
      <4>4. QED BY <4>1, <4>2, <4>3
    <3>2. QED BY <3>1, <2>1, <2>2 DEF Placed
  <2>7. Held'
    BY <2>1, <2>3 DEF Held
  <2>8. Tagged' /\ ResultsLocal' /\ Waited' /\ Joined'
    BY <2>1 DEF Tagged, ResultsLocal, Waited, Joined
  <2>9. QED BY <2>4, <2>5, <2>6, <2>7, <2>8 DEF IInv
<1>3. CASE EvalJobEnd
  <2>1. /\ pc[Main] = "run" /\ pc'[Main] = "eval"
        /\ \A t \in Threads : t # Main => pc'[t] = pc[t] /\ cur'[t] = cur[t]
        /\ pc' \in [Threads -> WorkerPc \cup MainPc]
        /\ cur' \in [Threads -> Jobs \cup {NoJob}] /\ cur'[Main] = NoJob
        /\ finished' = finished \cup {cur[Main]}
        /\ UNCHANGED <<mFifo, mThreads, mJobsRunning, mThreadCount, mShutdown, mEvalMainThread,
                       results, inWait, submitted>>
    BY <1>0, <1>3 DEF EvalJobEnd, Goto, queueVars, poolVars, mainVars, MainPc
  <2>2. cur[Main] \in Jobs
    BY <1>0, <2>1 DEF Held
  <2>3. TypeOK'
    BY <2>1, <2>2 DEF TypeOK, MainPc
  <2>4. CountersExact'
    BY <2>1, CountersUntouched
  <2>5. Placed'
    <3>1. Running' \cup {cur[Main]} = Running
      <4>1. ASSUME NEW x \in Running' PROVE x \in Running
        BY <4>1, <2>1 DEF Running
      <4>2. ASSUME NEW x \in Running PROVE x \in Running' \cup {cur[Main]}
        BY <4>2, <2>1 DEF Running
      <4>3. cur[Main] \in Running
        BY <2>2 DEF Running
      <4>4. QED BY <4>1, <4>2, <4>3
    <3>2. QED BY <3>1, <2>1 DEF Placed
  <2>6. Held' /\ ResultsLocal' /\ Waited' /\ Joined'
    BY <2>1 DEF Held, ResultsLocal, Waited, Joined
  <2>7. Tagged'
    BY <2>1 DEF Tagged
  <2>8. QED BY <2>3, <2>4, <2>5, <2>6, <2>7 DEF IInv
<1>4. CASE \/ CallEvalMainThreadJobs \/ CallWait \/ WaitOuter \/ WaitInner \/ WaitReturn
           \/ EvalReturn \/ JoinBegin \/ JoinEnd
  <2>1. /\ \A t \in Threads : t # Main => pc'[t] = pc[t]
        /\ pc' \in [Threads -> WorkerPc \cup MainPc]
        /\ pc'[Main] \in MainPc /\ pc'[Main] # "run" /\ pc[Main] # "run"
        /\ mShutdown' \in BOOLEAN /\ inWait' \in BOOLEAN
        /\ UNCHANGED <<mFifo, mThreads, mJobsRunning, mThreadCount, mEvalMainThread,
                       results, submitted, finished, cur>>
    BY <1>0, <1>4 DEF CallEvalMainThreadJobs, CallWait, WaitOuter, WaitInner, WaitReturn, EvalReturn,
       JoinBegin, JoinEnd, Goto, queueVars, poolVars, mainVars, histVars, MainPc, TypeOK
  <2>2. /\ pc'[Main] = "waited" => isEmpty(TRUE)
        /\ pc'[Main] = "joined" => mThreadCount = 0
        /\ pc[Main] = "eval" => results = <<>>
        /\ pc'[Main] # "eval"
    BY <1>0, <1>4 DEF CallEvalMainThreadJobs, CallWait, WaitOuter, WaitInner, WaitReturn, EvalReturn,
       JoinBegin, JoinEnd, Goto
  <2>3. TypeOK'
    BY <2>1 DEF TypeOK
  <2>4. CountersExact'
    BY <2>1, CountersUntouched
  <2>5. Placed'
    BY <2>1 DEF Placed, Running
  <2>6. Held'
    BY <2>1 DEF Held
  <2>7. Tagged'
    BY <2>1 DEF Tagged
  <2>8. ResultsLocal' /\ Waited' /\ Joined'
    BY <2>1, <2>2 DEF ResultsLocal, Waited, isEmpty, Joined
  <2>9. QED BY <2>3, <2>4, <2>5, <2>6, <2>7, <2>8 DEF IInv
<1>5. QED BY <1>1, <1>2, <1>3, <1>4 DEF MainStep, MainCall

\* Every step of the pool and of its owner preserves the invariant.
LEMMA NextIInv == IInv /\ [Next]_vars => IInv'
<1> SUFFICES ASSUME IInv, [Next]_vars PROVE IInv'
  OBVIOUS
<1>1. CASE Submit
  BY <1>1, SubmitIInv DEF Submit
<1>2. CASE \E w \in Workers : WorkerStep(w)
  BY <1>2, WorkerIInv
<1>3. CASE MainStep \/ MainCall
  BY <1>3, MainIInv
<1>4. CASE UNCHANGED vars
  <2>1. UNCHANGED <<mFifo, mThreads, mJobsRunning, mThreadCount, mShutdown, mEvalMainThread,
                    results, inWait, submitted, finished, pc, cur>>
    BY <1>4 DEF vars, queueVars, poolVars, mainVars, histVars
  <2>2. TypeOK'
    BY <2>1 DEF IInv, TypeOK
  <2>3. CountersExact'
    BY <2>1 DEF IInv, CountersExact
  <2>4. Placed'
    BY <2>1 DEF IInv, Placed, Running
  <2>5. Held' /\ Tagged'
    BY <2>1 DEF IInv, Held, Tagged
  <2>6. ResultsLocal' /\ Waited' /\ Joined'
    BY <2>1 DEF IInv, ResultsLocal, Waited, isEmpty, Joined
  <2>7. QED BY <2>2, <2>3, <2>4, <2>5, <2>6 DEF IInv
<1>5. QED BY <1>1, <1>2, <1>3, <1>4 DEF Next, Destroyed

\* The invariant holds throughout every behaviour of the queue.
THEOREM Invariance == Spec => []IInv
BY InitIInv, NextIInv, PTL DEF Spec

-----------------------------------------------------------------------------
\* Type correctness; with it, neither counter ever drops below zero.
THEOREM TypeCorrect == Spec => []TypeOK
<1>1. IInv => TypeOK
  BY DEF IInv
<1>2. QED BY <1>1, Invariance, PTL

\* mJobsRunning and mThreadCount are exact in every state, so isEmpty, wait and
\* the destructor may rely on them.
THEOREM CountersAreExact == Spec => []CountersExact
<1>1. IInv => CountersExact
  BY DEF IInv
<1>2. QED BY <1>1, Invariance, PTL

\* JobQue::wait returns only when every job submitted so far has finished.
THEOREM WaitIsComplete == Spec => []WaitComplete
<1>1. IInv => WaitComplete
  <2> SUFFICES ASSUME IInv, pc[Main] = "waited" PROVE ToSet(submitted) \subseteq finished
    BY DEF WaitComplete
  <2>1. mFifo = <<>> /\ mEvalMainThread = <<>> /\ mJobsRunning = 0 /\ results = <<>>
    BY DEF IInv, Waited, isEmpty, ResultsLocal
  <2>2. \A w \in Workers : pc[w] \notin {"run", "retire"}
    BY <2>1, NobodyRuns DEF IInv
  <2>3. Running = {}
    BY <2>2 DEF IInv, Held, Running, Threads
  <2>4. ToSet(<<>>) = {}
    BY DEF ToSet
  <2>5. QED BY <2>1, <2>3, <2>4 DEF IInv, Placed
<1>2. QED BY <1>1, Invariance, PTL

\* JobQue::areJobsPending never answers false for a category one of whose pushed
\* jobs has not finished.
THEOREM PendingIsSound == Spec => []NotPendingMeansFinished
<1>1. IInv => NotPendingMeansFinished
  <2> SUFFICES ASSUME IInv, NEW c, ~areJobsPending(c), NEW j \in ToSet(submitted), Category[j] = c
               PROVE  j \in finished \cup ToSet(mEvalMainThread) \cup ToSet(results) \cup {cur[Main]}
    BY DEF NotPendingMeansFinished
  <2>1. j \notin ToSet(mFifo)
    BY DEF areJobsPending, ToSet
  <2>2. ASSUME NEW w \in Workers, cur[w] = j, j # NoJob PROVE FALSE
    <3>1. pc[w] = "run"
      BY <2>2 DEF IInv, Held, Threads
    <3>2. mThreads[w].currentPriority # Inactive /\ mThreads[w].currentCategory = c
      BY <3>1, <2>2 DEF IInv, Tagged
    <3>3. QED BY <3>2 DEF areJobsPending
  <2>3. j \in Running => j = cur[Main]
    BY <2>2 DEF Running, Threads
  <2>4. QED BY <2>1, <2>3 DEF IInv, Placed
<1>2. QED BY <1>1, Invariance, PTL

\* mThreadCount = 0 is only true when every worker has left its loop.
LEMMA NobodyAlive ==
  ASSUME IInv, mThreadCount = 0
  PROVE  \A w \in Workers : pc[w] = "exited"
<1>1. Cardinality(Alive) = 0
  BY DEF IInv, CountersExact, Alive
<1>2. Alive = {}
  BY <1>1, CountedFinite, FS_EmptySet
<1>3. QED BY <1>2 DEF Alive

\* When ~JobQue has seen mThreadCount = 0, no thread of the pool is left in a job.
THEOREM JoinIsQuiescent == Spec => []JoinQuiescent
<1>1. IInv => JoinQuiescent
  <2> SUFFICES ASSUME IInv, pc[Main] = "joined"
               PROVE  (\A w \in Workers : pc[w] = "exited") /\ mJobsRunning = 0
    BY DEF JoinQuiescent
  <2>1. \A w \in Workers : pc[w] = "exited"
    BY NobodyAlive DEF IInv, Joined
  <2>2. Busy = {}
    BY <2>1 DEF Busy
  <2>3. Cardinality(Busy) = 0
    BY <2>2, FS_EmptySet
  <2>4. QED BY <2>1, <2>3 DEF IInv, CountersExact, Busy
<1>2. QED BY <1>1, Invariance, PTL

-----------------------------------------------------------------------------
(* JobQue implements Executor.  Placed says that no job is missing; Once   *)
(* adds that none is in two places: every list holds a job at most once,   *)
(* the lists, the hands of the threads and the finished jobs are disjoint, *)
(* and no two threads hold the same job.  A step then moves one job from   *)
(* one place to the next, which is a step of the executor, or moves none.  *)

Distinct(q) == \A i, k \in DOMAIN q : q[i] = q[k] => i = k

\* The jobs that were submitted and not yet taken.
Waiting == ToSet(mFifo) \cup ToSet(mEvalMainThread) \cup ToSet(results)

Once ==
  /\ Distinct(mFifo) /\ Distinct(mEvalMainThread) /\ Distinct(results)
  /\ ToSet(mFifo) \cap ToSet(mEvalMainThread) = {}
  /\ ToSet(results) \cap (ToSet(mFifo) \cup ToSet(mEvalMainThread)) = {}
  /\ Waiting \cap Running = {}
  /\ Waiting \cap finished = {}
  /\ Running \cap finished = {}
  /\ \A s, t \in Threads : cur[s] = cur[t] /\ cur[s] # NoJob => s = t

-----------------------------------------------------------------------------
(* A list that holds no job twice, and the operations of the queue.        *)

\* push_back of a job that is not in the vector.
LEMMA AppendDistinct ==
  ASSUME NEW S, NEW q \in Seq(S), NEW e \in S, Distinct(q), e \notin ToSet(q)
  PROVE  Distinct(Append(q, e))
<1> DEFINE r == Append(q, e)
           n == Len(q)
<1>1. n \in Nat /\ DOMAIN q = 1..n /\ DOMAIN r = 1..(n + 1)
  OBVIOUS
<1>2. (\A i \in 1..n : r[i] = q[i]) /\ r[n + 1] = e
  OBVIOUS
<1>3. \A i \in 1..n : q[i] # e
  BY <1>1 DEF ToSet
<1> HIDE DEF r, n
<1>4. Distinct(r)
  BY <1>1, <1>2, <1>3 DEF Distinct
<1>5. QED BY <1>4 DEF r

\* emplace of a job that is not in the deque.
LEMMA InsertDistinct ==
  ASSUME NEW S, NEW q \in Seq(S), NEW e \in S, NEW p \in 0..Len(q),
         Distinct(q), e \notin ToSet(q)
  PROVE  Distinct(InsertAt(q, p + 1, e))
<1> DEFINE r == InsertAt(q, p + 1, e)
           n == Len(q)
           old(i) == IF i <= p THEN i ELSE i - 1
<1>1. n \in Nat /\ p \in Nat /\ p <= n /\ DOMAIN q = 1..n
  OBVIOUS
<1>2. Inserted(S, q, p, e, r)
  BY InsertAtEntries
<1> HIDE DEF r
<1>3. r \in Seq(S) /\ Len(r) = n + 1
  BY <1>2 DEF Inserted
<1>4. DOMAIN r = 1..(n + 1)
  BY <1>3
<1>5. r[p + 1] = e
  BY <1>2 DEF Inserted
<1>6. ASSUME NEW i \in 1..(n + 1), i # p + 1
      PROVE  old(i) \in 1..n /\ r[i] = q[old(i)]
  <2>1. CASE i <= p
    BY <2>1, <1>1, <1>2 DEF Inserted
  <2>2. CASE i > p + 1
    <3>1. i - 1 \in (p + 1)..n /\ (i - 1) + 1 = i /\ i - 1 \in 1..n
      BY <2>2, <1>1
    <3>2. r[i] = q[i - 1]
      BY <3>1, <1>2 DEF Inserted
    <3>3. QED BY <3>1, <3>2, <2>2, <1>1
  <2>3. QED BY <2>1, <2>2, <1>1, <1>6
<1>7. \A i \in 1..n : q[i] # e
  BY <1>1 DEF ToSet
<1> HIDE DEF n
<1>8. ASSUME NEW i \in 1..(n + 1), NEW k \in 1..(n + 1), r[i] = r[k]
      PROVE  i = k
  <2>1. CASE i = p + 1
    <3>1. CASE k = p + 1
      BY <2>1, <3>1
    <3>2. CASE k # p + 1
      BY <2>1, <3>2, <1>5, <1>6, <1>7, <1>8
    <3>3. QED BY <3>1, <3>2
  <2>2. CASE i # p + 1 /\ k = p + 1
    BY <2>2, <1>5, <1>6, <1>7, <1>8
  <2>3. CASE i # p + 1 /\ k # p + 1
    <3>1. /\ old(i) \in 1..n /\ old(k) \in 1..n
          /\ q[old(i)] = q[old(k)]
      BY <2>3, <1>6, <1>8
    <3>2. old(i) = old(k)
      BY <3>1, <1>1 DEF Distinct
    <3>3. QED BY <3>2, <2>3, <1>1
  <2>4. QED BY <2>1, <2>2, <2>3
<1>9. Distinct(r)
  BY <1>4, <1>8 DEF Distinct
<1>10. QED BY <1>9 DEF r

\* pop_front: the job taken is not in the rest.
LEMMA TailDistinct ==
  ASSUME NEW S, NEW q \in Seq(S), q # <<>>, Distinct(q)
  PROVE  Distinct(Tail(q)) /\ Head(q) \notin ToSet(Tail(q))
<1> DEFINE r == Tail(q)
           n == Len(q)
<1>1. n \in Nat \ {0} /\ DOMAIN q = 1..n /\ DOMAIN r = 1..(n - 1)
  OBVIOUS
<1>2. \A i \in 1..(n - 1) : r[i] = q[i + 1]
  OBVIOUS
<1>3. Head(q) = q[1]
  OBVIOUS
<1> HIDE DEF r, n
<1>4. \A i \in 1..(n - 1) : i + 1 \in 1..n /\ 1 \in 1..n /\ i + 1 # 1
  BY <1>1
<1>5. ASSUME NEW i \in 1..(n - 1), NEW k \in 1..(n - 1), r[i] = r[k]
      PROVE  i = k
  <2>1. q[i + 1] = q[k + 1]
    BY <1>2, <1>5
  <2>2. i + 1 = k + 1
    BY <2>1, <1>1, <1>4 DEF Distinct
  <2>3. QED BY <2>2, <1>1
<1>6. Distinct(r)
  BY <1>1, <1>5 DEF Distinct
<1>7. ASSUME NEW i \in 1..(n - 1)
      PROVE  r[i] # q[1]
  BY <1>1, <1>2, <1>4 DEF Distinct
<1>8. q[1] \notin ToSet(r)
  BY <1>1, <1>7 DEF ToSet
<1>9. QED BY <1>3, <1>6, <1>8 DEF r

-----------------------------------------------------------------------------
(* How a step of the pool maps to a step of the executor.                  *)

\* The owner has not returned from the destructor while somebody runs a job.
LEMMA NotClosed ==
  ASSUME IInv, NEW t \in Threads, pc[t] = "run"
  PROVE  OwnerStatus = "free"
<1>1. pc[Main] # "joined"
  BY NobodyAlive DEF IInv, Joined, Threads
<1>2. CASE pc[Main] = "waited"
  <2>1. t \in Workers /\ mJobsRunning = 0
    BY <1>2 DEF IInv, Waited, isEmpty, Threads
  <2>2. QED BY <2>1, NobodyRuns DEF IInv
<1>3. QED BY <1>1, <1>2 DEF OwnerStatus

\* One job changes its status, everything else stays.
LEMMA OneChanges ==
  ASSUME NEW j \in Jobs, NEW from, NEW to,
         OwnerStatus = "free", OwnerStatus' = OwnerStatus,
         JobStatusOf(j) = from, JobStatusOf(j)' = to,
         \A x \in Jobs : x # j => JobStatusOf(x)' = JobStatusOf(x)
  PROVE  Exec!Change(j, from, to)
<1> DEFINE st == [x \in Jobs |-> JobStatusOf(x)]
<1>1. st[j] = from
  OBVIOUS
<1>2. st' = [st EXCEPT ![j] = to]
  OBVIOUS
<1>3. QED BY <1>1, <1>2 DEF Exec!Change

\* A job that is in no place yet is put into a list.
LEMMA SubmitMaps ==
  ASSUME NEW j \in Jobs, j \notin Waiting \cup Running \cup finished,
         Waiting' = Waiting \cup {j}, Running' = Running, finished' = finished,
         OwnerStatus = "free", OwnerStatus' = OwnerStatus
  PROVE  Exec!Submit(j)
<1>1. JobStatusOf(j) = "new" /\ JobStatusOf(j)' = "submitted"
  BY DEF JobStatusOf, Waiting
<1>2. ASSUME NEW x \in Jobs, x # j
      PROVE  JobStatusOf(x)' = JobStatusOf(x)
  <2>1. x \in Waiting' <=> x \in Waiting
    BY <1>2
  <2>2. QED BY <2>1 DEF JobStatusOf, Waiting
<1>3. Exec!Change(j, "new", "submitted")
  BY <1>1, <1>2, OneChanges
<1>4. QED BY <1>3 DEF Exec!Submit

\* A job goes from a list into the hands of a thread.
LEMMA StartMaps ==
  ASSUME NEW j \in Jobs, j \in Waiting, j \notin Running,
         Waiting' = Waiting \ {j}, Running' = Running \cup {j}, finished' = finished,
         OwnerStatus = "free", OwnerStatus' = OwnerStatus
  PROVE  Exec!Start(j)
<1>1. JobStatusOf(j) = "submitted" /\ JobStatusOf(j)' = "running"
  BY DEF JobStatusOf, Waiting
<1>2. ASSUME NEW x \in Jobs, x # j
      PROVE  JobStatusOf(x)' = JobStatusOf(x)
  <2>1. (x \in Waiting' <=> x \in Waiting) /\ (x \in Running' <=> x \in Running)
    BY <1>2
  <2>2. QED BY <2>1 DEF JobStatusOf, Waiting
<1>3. Exec!Change(j, "submitted", "running")
  BY <1>1, <1>2, OneChanges
<1>4. QED BY <1>3 DEF Exec!Start

\* The function of a job has returned.
LEMMA EndMaps ==
  ASSUME NEW j \in Jobs, j \in Running, j \notin Waiting,
         Waiting' = Waiting, Running' = Running \ {j}, finished' = finished \cup {j},
         OwnerStatus = "free", OwnerStatus' = OwnerStatus
  PROVE  Exec!End(j)
<1>1. JobStatusOf(j) = "running" /\ JobStatusOf(j)' = "done"
  BY DEF JobStatusOf, Waiting
<1>2. ASSUME NEW x \in Jobs, x # j
      PROVE  JobStatusOf(x)' = JobStatusOf(x)
  <2>1. (x \in finished' <=> x \in finished) /\ (x \in Running' <=> x \in Running)
    BY <1>2
  <2>2. QED BY <2>1 DEF JobStatusOf, Waiting
<1>3. Exec!Change(j, "running", "done")
  BY <1>1, <1>2, OneChanges
<1>4. QED BY <1>3 DEF Exec!End

\* No job moves.
LEMMA NoneChanges ==
  ASSUME Waiting' = Waiting, Running' = Running, finished' = finished
  PROVE  [x \in Jobs |-> JobStatusOf(x)]' = [x \in Jobs |-> JobStatusOf(x)]
<1>1. ASSUME NEW x \in Jobs PROVE JobStatusOf(x)' = JobStatusOf(x)
  BY DEF JobStatusOf, Waiting
<1>2. QED BY <1>1

-----------------------------------------------------------------------------
(* One lemma for each kind of step: no job is in two places, and what the  *)
(* step is for the executor.                                               *)

\* The constructor.
LEMMA InitOnce == Init => Once /\ Exec!Init
<1> SUFFICES ASSUME Init PROVE Once /\ Exec!Init
  OBVIOUS
<1>1. \A t \in Threads : cur[t] = NoJob
  BY DEF Init
<1>2. Running = {}
  BY <1>1 DEF Running
<1>3. ToSet(<<>>) = {} /\ Distinct(<<>>)
  BY DEF ToSet, Distinct
<1>4. mFifo = <<>> /\ mEvalMainThread = <<>> /\ results = <<>> /\ finished = {}
  BY DEF Init
<1>5. Once
  BY <1>1, <1>2, <1>3, <1>4 DEF Once, Waiting
<1>6. \A x \in Jobs : JobStatusOf(x) = "new"
  BY <1>2, <1>3, <1>4 DEF JobStatusOf
<1>7. OwnerStatus = "free"
  BY DEF Init, OwnerStatus, Threads
<1>8. Exec!Init
  BY <1>6, <1>7 DEF Exec!Init
<1>9. QED BY <1>5, <1>8

\* push and EvalOnMainThread submit.
LEMMA SubmitOnce ==
  ASSUME IInv, Once, NEW t \in Threads, NEW j \in Jobs, push(t, j) \/ EvalOnMainThread(t, j)
  PROVE  Once' /\ Exec!Submit(j)
<1>1. UNCHANGED <<results, finished, pc, cur>> /\ CanCall(t) /\ j \notin ToSet(submitted)
  BY DEF push, EvalOnMainThread, mainVars, Fresh
<1>2. j \notin Waiting \cup Running \cup finished
  BY <1>1 DEF IInv, Placed, Waiting
<1>3. mFifo \in Seq(Jobs) /\ mEvalMainThread \in Seq(Jobs)
  BY DEF IInv, TypeOK
<1>4. Running' = Running
  BY <1>1 DEF Running
<1>5. \/ /\ ToSet(mFifo') = ToSet(mFifo) \cup {j} /\ Distinct(mFifo')
         /\ UNCHANGED mEvalMainThread
      \/ /\ ToSet(mEvalMainThread') = ToSet(mEvalMainThread) \cup {j} /\ Distinct(mEvalMainThread')
         /\ UNCHANGED mFifo
  <2>1. CASE push(t, j)
    <3>1. PICK p \in 0..Len(mFifo) : mFifo' = InsertAt(mFifo, p + 1, j)
      BY <2>1 DEF push, submit
    <3>2. AddsOne(Jobs, mFifo, j, mFifo')
      BY <3>1, <1>3, InsertAtSet
    <3>3. Distinct(mFifo')
      BY <3>1, <1>2, <1>3, InsertDistinct DEF Once, Waiting
    <3>4. UNCHANGED mEvalMainThread
      BY <2>1 DEF push, mainVars
    <3>5. QED BY <3>2, <3>3, <3>4 DEF AddsOne
  <2>2. CASE EvalOnMainThread(t, j)
    <3>1. mEvalMainThread' = Append(mEvalMainThread, j) /\ UNCHANGED mFifo
      BY <2>2 DEF EvalOnMainThread, queueVars
    <3>2. ToSet(mEvalMainThread') = ToSet(mEvalMainThread) \cup {j}
      BY <3>1, <1>3, AppendSet
    <3>3. Distinct(mEvalMainThread')
      BY <3>1, <1>2, <1>3, AppendDistinct DEF Once, Waiting
    <3>4. QED BY <3>1, <3>2, <3>3
  <2>3. QED BY <2>1, <2>2
<1>6. Waiting' = Waiting \cup {j}
  BY <1>1, <1>5 DEF Waiting
<1>7. Once'
  BY <1>1, <1>2, <1>4, <1>5, <1>6 DEF Once, Waiting
<1>8. OwnerStatus = "free" /\ OwnerStatus' = OwnerStatus
  <2>1. CASE pc[t] = "run"
    BY <2>1, <1>1, NotClosed DEF OwnerStatus
  <2>2. CASE pc[Main] = "idle"
    BY <2>2, <1>1 DEF OwnerStatus
  <2>3. QED BY <2>1, <2>2, <1>1 DEF CanCall
<1>9. Exec!Submit(j)
  BY <1>1, <1>2, <1>4, <1>6, <1>8, SubmitMaps
<1>10. QED BY <1>7, <1>9

\* A thread that had no job takes j, which no other thread has.
LEMMA Taken ==
  ASSUME Once, NEW t \in Threads, NEW j \in Jobs, cur[t] = NoJob, j \notin Running, j # NoJob,
         cur'[t] = j, \A s \in Threads : s # t => cur'[s] = cur[s]
  PROVE  /\ Running' = Running \cup {j}
         /\ \A r, s \in Threads : cur'[r] = cur'[s] /\ cur'[r] # NoJob => r = s
<1>1. Running' = Running \cup {j}
  <2>1. ASSUME NEW x \in Running' PROVE x \in Running \cup {j}
    BY <2>1 DEF Running
  <2>2. ASSUME NEW x \in Running PROVE x \in Running'
    BY <2>2 DEF Running
  <2>3. j \in Running'
    BY DEF Running
  <2>4. QED BY <2>1, <2>2, <2>3
<1>2. \A s \in Threads : cur[s] # j
  BY DEF Running
<1>3. QED BY <1>1, <1>2 DEF Once

\* A thread gives up the job it had.
LEMMA Given ==
  ASSUME Once, NEW t \in Threads, cur[t] # NoJob,
         cur'[t] = NoJob, \A s \in Threads : s # t => cur'[s] = cur[s]
  PROVE  /\ cur[t] \in Running
         /\ Running' = Running \ {cur[t]}
         /\ \A r, s \in Threads : cur'[r] = cur'[s] /\ cur'[r] # NoJob => r = s
<1>1. Running' = Running \ {cur[t]}
  <2>1. ASSUME NEW x \in Running' PROVE x \in Running \ {cur[t]}
    BY <2>1 DEF Running, Once
  <2>2. ASSUME NEW x \in Running \ {cur[t]} PROVE x \in Running'
    BY <2>2 DEF Running
  <2>3. QED BY <2>1, <2>2
<1>2. QED BY <1>1 DEF Once, Running

\* A worker takes the front of the queue.
LEMMA FetchOnce ==
  ASSUME IInv, Once, NEW w \in Workers, Fetch(w)
  PROVE  Once' /\ \E j \in Jobs : Exec!Start(j)
<1> DEFINE j == Head(mFifo)
<1>1. /\ mFifo # <<>> /\ mFifo' = Tail(mFifo)
      /\ cur' = [cur EXCEPT ![w] = j]
      /\ pc[w] = "fetch" /\ pc' = [pc EXCEPT ![w] = "run"]
      /\ UNCHANGED <<mEvalMainThread, results, finished>>
  BY DEF Fetch, Goto, mainVars, histVars
<1>2. mFifo \in Seq(Jobs) /\ cur \in [Threads -> Jobs \cup {NoJob}]
      /\ w \in Threads /\ Main \in Threads /\ w # Main
      /\ pc \in [Threads -> WorkerPc \cup MainPc]
  BY JobQueAssumption DEF IInv, TypeOK, Threads
<1>3. j \in Jobs /\ ToSet(mFifo) = ToSet(mFifo') \cup {j}
  BY <1>1, <1>2, HeadTailSet
<1>4. Distinct(mFifo') /\ j \notin ToSet(mFifo')
  BY <1>1, <1>2, TailDistinct DEF Once
<1>5. j # NoJob /\ cur[w] = NoJob
  BY <1>1, <1>2, <1>3, JobQueAssumption DEF IInv, Held
<1>6. cur'[w] = j /\ \A s \in Threads : s # w => cur'[s] = cur[s]
  BY <1>1, <1>2
<1> HIDE DEF j
<1>7. j \in Waiting /\ j \notin Running
  BY <1>3 DEF Waiting, Once
<1>8. /\ Running' = Running \cup {j}
      /\ \A r, s \in Threads : cur'[r] = cur'[s] /\ cur'[r] # NoJob => r = s
  BY <1>2, <1>3, <1>5, <1>6, <1>7, Taken
<1>9. Waiting' = Waiting \ {j}
  BY <1>1, <1>3, <1>4 DEF Waiting, Once
<1>10. Once'
  BY <1>1, <1>3, <1>4, <1>7, <1>8, <1>9 DEF Once
<1>11. OwnerStatus = "free" /\ OwnerStatus' = OwnerStatus
  <2>1. pc'[Main] = pc[Main]
    BY <1>1, <1>2
  <2>2. pc[Main] # "joined"
    BY <1>1, NobodyAlive DEF IInv, Joined
  <2>3. pc[Main] # "waited"
    BY <1>1 DEF IInv, Waited, isEmpty
  <2>4. QED BY <2>1, <2>2, <2>3 DEF OwnerStatus
<1>12. Exec!Start(j)
  BY <1>1, <1>3, <1>7, <1>8, <1>9, <1>11, StartMaps
<1>13. QED BY <1>3, <1>10, <1>12

\* The owner takes the front of its local list.
LEMMA EvalJobOnce ==
  ASSUME IInv, Once, EvalJob
  PROVE  Once' /\ \E j \in Jobs : Exec!Start(j)
<1> DEFINE j == Head(results)
<1>1. /\ results # <<>> /\ results' = Tail(results)
      /\ cur' = [cur EXCEPT ![Main] = j]
      /\ pc[Main] = "eval" /\ pc' = [pc EXCEPT ![Main] = "run"]
      /\ UNCHANGED <<mFifo, mEvalMainThread, finished>>
  BY DEF EvalJob, Goto, queueVars, histVars
<1>2. results \in Seq(Jobs) /\ cur \in [Threads -> Jobs \cup {NoJob}] /\ Main \in Threads
      /\ pc \in [Threads -> WorkerPc \cup MainPc]
  BY DEF IInv, TypeOK, Threads
<1>3. j \in Jobs /\ ToSet(results) = ToSet(results') \cup {j}
  BY <1>1, <1>2, HeadTailSet
<1>4. Distinct(results') /\ j \notin ToSet(results')
  BY <1>1, <1>2, TailDistinct DEF Once
<1>5. j # NoJob /\ cur[Main] = NoJob
  BY <1>1, <1>2, <1>3, JobQueAssumption DEF IInv, Held
<1>6. cur'[Main] = j /\ \A s \in Threads : s # Main => cur'[s] = cur[s]
  BY <1>1, <1>2
<1> HIDE DEF j
<1>7. j \in Waiting /\ j \notin Running
  BY <1>3 DEF Waiting, Once
<1>8. /\ Running' = Running \cup {j}
      /\ \A r, s \in Threads : cur'[r] = cur'[s] /\ cur'[r] # NoJob => r = s
  BY <1>2, <1>3, <1>5, <1>6, <1>7, Taken
<1>9. Waiting' = Waiting \ {j}
  BY <1>1, <1>3, <1>4 DEF Waiting, Once
<1>10. Once'
  BY <1>1, <1>3, <1>4, <1>7, <1>8, <1>9 DEF Once
<1>11. OwnerStatus = "free" /\ OwnerStatus' = OwnerStatus
  BY <1>1, <1>2 DEF OwnerStatus
<1>12. Exec!Start(j)
  BY <1>1, <1>3, <1>7, <1>8, <1>9, <1>11, StartMaps
<1>13. QED BY <1>3, <1>10, <1>12

\* The function of a job returns, to a worker or to the owner.
LEMMA EndOnce ==
  ASSUME IInv, Once, NEW t \in Threads, NEW to, to \notin {"waited", "joined"},
         Goto(t, "run", to),
         finished' = finished \cup {cur[t]}, cur' = [cur EXCEPT ![t] = NoJob],
         UNCHANGED <<mFifo, mEvalMainThread, results>>
  PROVE  Once' /\ \E j \in Jobs : Exec!End(j)
<1> DEFINE j == cur[t]
<1>1. cur \in [Threads -> Jobs \cup {NoJob}] /\ Main \in Threads
      /\ pc \in [Threads -> WorkerPc \cup MainPc]
  BY DEF IInv, TypeOK, Threads
<1>2. pc[t] = "run" /\ pc' = [pc EXCEPT ![t] = to]
  BY DEF Goto
<1>3. j \in Jobs /\ j # NoJob
  BY <1>1, <1>2 DEF IInv, Held
<1>4. cur'[t] = NoJob /\ \A s \in Threads : s # t => cur'[s] = cur[s]
  BY <1>1
<1>5. /\ j \in Running /\ Running' = Running \ {j}
      /\ \A r, s \in Threads : cur'[r] = cur'[s] /\ cur'[r] # NoJob => r = s
  BY <1>3, <1>4, Given
<1> HIDE DEF j
<1>6. finished' = finished \cup {j}
  BY DEF j
<1>7. Waiting' = Waiting /\ j \notin Waiting
  BY <1>5 DEF Waiting, Once
<1>8. Once'
  BY <1>5, <1>6, <1>7 DEF Once
<1>9. OwnerStatus = "free" /\ OwnerStatus' = OwnerStatus
  <2>1. OwnerStatus = "free"
    BY <1>2, NotClosed
  <2>2. pc'[Main] \notin {"waited", "joined"}
    <3>1. CASE t = Main
      BY <3>1, <1>1, <1>2
    <3>2. CASE t # Main
      BY <3>2, <1>1, <1>2, <2>1 DEF OwnerStatus
    <3>3. QED BY <3>1, <3>2
  <2>3. QED BY <2>1, <2>2 DEF OwnerStatus
<1>10. Exec!End(j)
  BY <1>3, <1>5, <1>6, <1>7, <1>9, EndMaps
<1>11. QED BY <1>3, <1>8, <1>10

\* A step that touches neither a list nor what a thread has.
LEMMA NothingMoves ==
  ASSUME Once, UNCHANGED <<mFifo, mEvalMainThread, results, cur, finished>>
  PROVE  /\ Once'
         /\ [x \in Jobs |-> JobStatusOf(x)]' = [x \in Jobs |-> JobStatusOf(x)]
<1>1. Running' = Running
  BY DEF Running
<1>2. Waiting' = Waiting
  BY DEF Waiting
<1>3. Once'
  BY <1>1, <1>2 DEF Once
<1>4. QED BY <1>1, <1>2, <1>3, NoneChanges

\* The owner moves the list of the main thread to its local copy.
LEMMA EvalSwapOnce ==
  ASSUME IInv, Once, EvalSwap
  PROVE  Once' /\ UNCHANGED Exec!vars
<1>1. /\ results' = mEvalMainThread /\ mEvalMainThread' = <<>>
      /\ pc[Main] = "swap" /\ pc' = [pc EXCEPT ![Main] = "eval"]
      /\ UNCHANGED <<mFifo, cur, finished>>
  BY DEF EvalSwap, Goto, queueVars, histVars
<1>2. Main \in Threads /\ pc \in [Threads -> WorkerPc \cup MainPc]
  BY DEF IInv, TypeOK, Threads
<1>3. results = <<>> /\ ToSet(<<>>) = {} /\ Distinct(<<>>)
  BY <1>1 DEF IInv, ResultsLocal, ToSet, Distinct
<1>4. Running' = Running
  BY <1>1 DEF Running
<1>5. Waiting' = Waiting
  BY <1>1, <1>3 DEF Waiting
<1>6. Once'
  BY <1>1, <1>3, <1>4, <1>5 DEF Once
<1>7. OwnerStatus' = OwnerStatus
  BY <1>1, <1>2 DEF OwnerStatus
<1>8. [x \in Jobs |-> JobStatusOf(x)]' = [x \in Jobs |-> JobStatusOf(x)]
  BY <1>1, <1>4, <1>5, NoneChanges
<1>9. QED BY <1>6, <1>7, <1>8 DEF Exec!vars

\* The owner leaves the loop of wait, or goes round it.
LEMMA WaitOuterOnce ==
  ASSUME IInv, Once, WaitOuter
  PROVE  Once' /\ [Exec!Next]_(Exec!vars)
<1>1. /\ pc[Main] = "wait" /\ pc' = [pc EXCEPT ![Main] = IF isEmpty(TRUE) THEN "waited" ELSE "drain"]
      /\ UNCHANGED <<mFifo, mEvalMainThread, results, cur, finished>>
  BY DEF WaitOuter, Goto, queueVars, mainVars, histVars
<1>2. Main \in Threads /\ pc \in [Threads -> WorkerPc \cup MainPc]
  BY DEF IInv, TypeOK, Threads
<1>3. /\ Once'
      /\ [x \in Jobs |-> JobStatusOf(x)]' = [x \in Jobs |-> JobStatusOf(x)]
  BY <1>1, NothingMoves
<1>4. OwnerStatus = "free"
  BY <1>1 DEF OwnerStatus
<1>5. CASE isEmpty(TRUE)
  <2>1. OwnerStatus' = "waited"
    BY <1>1, <1>2, <1>5 DEF OwnerStatus
  <2>2. Waiting = {}
    BY <1>1, <1>5 DEF IInv, ResultsLocal, isEmpty, Waiting, ToSet
  <2>3. Running = {}
    <3>1. \A w \in Workers : pc[w] # "run"
      BY <1>5, NobodyRuns DEF IInv, isEmpty
    <3>2. \A t \in Threads : cur[t] = NoJob
      BY <1>1, <3>1 DEF IInv, Held, Threads
    <3>3. QED BY <3>2 DEF Running
  <2>4. \A x \in Jobs : JobStatusOf(x) \in {"new", "done"}
    BY <2>2, <2>3 DEF JobStatusOf, Waiting
  <2>5. Exec!Waited
    BY <1>3, <1>4, <2>1, <2>4 DEF Exec!Waited
  <2>6. QED BY <1>3, <2>5 DEF Exec!Next
<1>6. CASE ~isEmpty(TRUE)
  <2>1. OwnerStatus' = "free"
    BY <1>1, <1>2, <1>6 DEF OwnerStatus
  <2>2. QED BY <1>3, <1>4, <2>1 DEF Exec!vars
<1>7. QED BY <1>5, <1>6

\* wait returns.
LEMMA WaitReturnOnce ==
  ASSUME IInv, Once, WaitReturn
  PROVE  Once' /\ Exec!Return
<1>1. /\ pc[Main] = "waited" /\ pc' = [pc EXCEPT ![Main] = "idle"]
      /\ UNCHANGED <<mFifo, mEvalMainThread, results, cur, finished>>
  BY DEF WaitReturn, Goto, queueVars, mainVars, histVars
<1>2. Main \in Threads /\ pc \in [Threads -> WorkerPc \cup MainPc]
  BY DEF IInv, TypeOK, Threads
<1>3. OwnerStatus = "waited" /\ OwnerStatus' = "free"
  BY <1>1, <1>2 DEF OwnerStatus
<1>4. QED BY <1>1, <1>3, NothingMoves DEF Exec!Return

\* The destructor has joined every thread.
LEMMA JoinEndOnce ==
  ASSUME IInv, Once, JoinEnd
  PROVE  Once' /\ Exec!Close
<1>1. /\ mThreadCount = 0
      /\ pc[Main] = "join" /\ pc' = [pc EXCEPT ![Main] = "joined"]
      /\ UNCHANGED <<mFifo, mEvalMainThread, results, cur, finished>>
  BY DEF JoinEnd, Goto, queueVars, mainVars, histVars
<1>2. Main \in Threads /\ pc \in [Threads -> WorkerPc \cup MainPc]
  BY DEF IInv, TypeOK, Threads
<1>3. OwnerStatus = "free" /\ OwnerStatus' = "closed"
  BY <1>1, <1>2 DEF OwnerStatus
<1>4. Running = {}
  <2>1. \A t \in Threads : pc[t] # "run"
    BY <1>1, NobodyAlive DEF Threads
  <2>2. \A t \in Threads : cur[t] = NoJob
    BY <2>1 DEF IInv, Held
  <2>3. QED BY <2>2 DEF Running
<1>5. \A x \in Jobs : JobStatusOf(x) # "running"
  BY <1>4 DEF JobStatusOf
<1>6. /\ Once'
      /\ [x \in Jobs |-> JobStatusOf(x)]' = [x \in Jobs |-> JobStatusOf(x)]
  BY <1>1, NothingMoves
<1>7. QED BY <1>3, <1>5, <1>6 DEF Exec!Close

\* A step of a worker that takes no job and ends none.
LEMMA WorkerStutters ==
  ASSUME IInv, Once, NEW w \in Workers,
         LoopTest(w) \/ FetchTimeout(w) \/ Retire(w) \/ Leave(w)
  PROVE  Once' /\ UNCHANGED Exec!vars
<1>1. UNCHANGED <<mFifo, mEvalMainThread, results, cur, finished>>
  BY DEF LoopTest, FetchTimeout, Retire, Leave, queueVars, mainVars, histVars
<1>2. pc'[Main] = pc[Main]
  <2>1. w # Main /\ pc \in [Threads -> WorkerPc \cup MainPc]
    BY JobQueAssumption DEF IInv, TypeOK
  <2>2. \E to \in {"fetch", "loop", "exited"} : pc' = [pc EXCEPT ![w] = to]
    BY DEF LoopTest, FetchTimeout, Retire, Leave, Goto
  <2>3. QED BY <2>1, <2>2 DEF Threads
<1>3. OwnerStatus' = OwnerStatus
  BY <1>2 DEF OwnerStatus
<1>4. QED BY <1>1, <1>3, NothingMoves DEF Exec!vars

\* A step of the owner between two calls, or one that only moves on inside a call.
LEMMA OwnerStutters ==
  ASSUME IInv, Once, MainCall \/ WaitInner \/ EvalReturn
  PROVE  Once' /\ UNCHANGED Exec!vars
<1>1. UNCHANGED <<mFifo, mEvalMainThread, results, cur, finished>>
  BY DEF MainCall, CallEvalMainThreadJobs, CallWait, JoinBegin, WaitInner, EvalReturn,
         queueVars, mainVars, histVars
<1>2. Main \in Threads /\ pc \in [Threads -> WorkerPc \cup MainPc]
  BY DEF IInv, TypeOK, Threads
<1>3. /\ pc[Main] \in {"idle", "drain", "eval"}
      /\ \E to \in {"swap", "wait", "join", "idle"} : pc' = [pc EXCEPT ![Main] = to]
  BY DEF MainCall, CallEvalMainThreadJobs, CallWait, JoinBegin, WaitInner, EvalReturn, Goto
<1>4. pc'[Main] \in {"swap", "wait", "join", "idle"}
  BY <1>2, <1>3
<1>5. OwnerStatus' = OwnerStatus
  BY <1>3, <1>4 DEF OwnerStatus
<1>6. QED BY <1>1, <1>5, NothingMoves DEF Exec!vars

-----------------------------------------------------------------------------
LEMMA WorkerMaps ==
  ASSUME IInv, Once, NEW w \in Workers, WorkerStep(w)
  PROVE  Once' /\ [Exec!Next]_(Exec!vars)
<1> w \in Threads
  BY DEF Threads
<1>1. CASE Fetch(w)
  BY <1>1, FetchOnce DEF Exec!Next
<1>2. CASE JobEnd(w)
  <2>1. Once' /\ \E j \in Jobs : Exec!End(j)
    BY <1>2, EndOnce DEF JobEnd, mainVars, queueVars
  <2>2. QED BY <2>1 DEF Exec!Next
<1>3. CASE LoopTest(w) \/ FetchTimeout(w) \/ Retire(w) \/ Leave(w)
  BY <1>3, WorkerStutters
<1>4. QED BY <1>1, <1>2, <1>3 DEF WorkerStep

LEMMA OwnerMaps ==
  ASSUME IInv, Once, MainStep \/ MainCall
  PROVE  Once' /\ [Exec!Next]_(Exec!vars)
<1>1. CASE WaitOuter
  BY <1>1, WaitOuterOnce
<1>2. CASE WaitReturn
  BY <1>2, WaitReturnOnce DEF Exec!Next
<1>3. CASE EvalSwap
  BY <1>3, EvalSwapOnce
<1>4. CASE EvalJob
  BY <1>4, EvalJobOnce DEF Exec!Next
<1>5. CASE EvalJobEnd
  <2>1. Once' /\ \E j \in Jobs : Exec!End(j)
    BY <1>5, EndOnce DEF EvalJobEnd, mainVars, queueVars, Threads
  <2>2. QED BY <2>1 DEF Exec!Next
<1>6. CASE JoinEnd
  BY <1>6, JoinEndOnce DEF Exec!Next
<1>7. CASE MainCall \/ WaitInner \/ EvalReturn
  BY <1>7, OwnerStutters
<1>8. QED BY <1>1, <1>2, <1>3, <1>4, <1>5, <1>6, <1>7 DEF MainStep

LEMMA NextMaps == IInv /\ Once /\ [Next]_vars => Once' /\ [Exec!Next]_(Exec!vars)
<1> SUFFICES ASSUME IInv, Once, [Next]_vars PROVE Once' /\ [Exec!Next]_(Exec!vars)
  OBVIOUS
<1>1. CASE Submit
  BY <1>1, SubmitOnce DEF Submit, Exec!Next
<1>2. CASE \E w \in Workers : WorkerStep(w)
  BY <1>2, WorkerMaps
<1>3. CASE MainStep \/ MainCall
  BY <1>3, OwnerMaps
<1>4. CASE UNCHANGED vars
  <2>1. UNCHANGED <<mFifo, mEvalMainThread, results, cur, finished>> /\ UNCHANGED pc
    BY <1>4 DEF vars, queueVars, mainVars, histVars
  <2>2. OwnerStatus' = OwnerStatus
    BY <2>1 DEF OwnerStatus
  <2>3. QED BY <2>1, <2>2, NothingMoves DEF Exec!vars
<1>5. QED BY <1>1, <1>2, <1>3, <1>4 DEF Next, Destroyed

\* push, EvalOnMainThread, the workers, wait and ~JobQue together implement the
\* executor: no submitted job is lost or run twice, wait returns only when every
\* job submitted so far has run, and nothing runs after the destructor.
THEOREM ImplementsExecutor == Spec => ExecutorImplemented
<1>1. Spec => Exec!Spec
  BY InitOnce, NextMaps, Invariance, PTL DEF Spec, Exec!Spec
<1>2. QED BY <1>1 DEF ExecutorImplemented

-----------------------------------------------------------------------------
(* The order of the queue.  push gives a job the largest ticket so far and *)
(* inserts it behind every entry of at least its priority; a worker takes  *)
(* the front.  Both keep the order, provided that no job is submitted      *)
(* twice and that the queue holds submitted jobs only.                     *)

TicketIn(s, j) == CHOOSE i \in DOMAIN s : s[i] = j

OrderedBy(q, s) ==
  \A i, k \in DOMAIN q : i < k =>
    \/ Priority[q[i]] > Priority[q[k]]
    \/ Priority[q[i]] = Priority[q[k]] /\ TicketIn(s, q[i]) < TicketIn(s, q[k])

Order ==
  /\ Distinct(submitted)
  /\ OrderedBy(mFifo, submitted)

\* FifoOrdered, with the history as a parameter.
LEMMA OrderIsFifo == OrderedBy(mFifo, submitted) <=> FifoOrdered
BY DEF OrderedBy, FifoOrdered, Ticket, TicketIn

-----------------------------------------------------------------------------
(* Tickets.                                                                *)

\* In a history without repetition the ticket of a job is its position.
LEMMA TicketIsPosition ==
  ASSUME NEW s, Distinct(s), NEW i \in DOMAIN s
  PROVE  TicketIn(s, s[i]) = i
<1>1. \E k \in DOMAIN s : s[k] = s[i]
  OBVIOUS
<1>2. TicketIn(s, s[i]) \in DOMAIN s /\ s[TicketIn(s, s[i])] = s[i]
  BY <1>1 DEF TicketIn
<1>3. QED BY <1>2 DEF Distinct

\* A new submission gets a larger ticket than all before, and these keep theirs.
LEMMA TicketsGrow ==
  ASSUME NEW s \in Seq(Jobs), NEW j \in Jobs, Distinct(s), j \notin ToSet(s)
  PROVE  /\ Distinct(Append(s, j))
         /\ \A x \in ToSet(s) :
              /\ TicketIn(Append(s, j), x) = TicketIn(s, x)
              /\ TicketIn(s, x) \in Nat
              /\ TicketIn(Append(s, j), x) < TicketIn(Append(s, j), j)
<1> DEFINE n == Len(s)
           r == Append(s, j)
<1>1. Distinct(r)
  BY AppendDistinct
<1>2. n \in Nat /\ DOMAIN s = 1..n /\ DOMAIN r = 1..(n + 1)
  OBVIOUS
<1>3. r[n + 1] = j /\ \A i \in 1..n : r[i] = s[i]
  OBVIOUS
<1> HIDE DEF n, r
<1>4. TicketIn(r, j) = n + 1
  <2>1. n + 1 \in DOMAIN r
    BY <1>2
  <2>2. TicketIn(r, r[n + 1]) = n + 1
    BY <2>1, <1>1, TicketIsPosition
  <2>3. QED BY <2>2, <1>3
<1>5. ASSUME NEW x \in ToSet(s)
      PROVE  /\ TicketIn(r, x) = TicketIn(s, x) /\ TicketIn(s, x) \in Nat
             /\ TicketIn(r, x) < TicketIn(r, j)
  <2>1. PICK i \in 1..n : x = s[i]
    BY <1>2 DEF ToSet
  <2>2. TicketIn(s, x) = i
    BY <2>1, <1>2, TicketIsPosition
  <2>3. i \in DOMAIN r /\ x = r[i]
    BY <2>1, <1>2, <1>3
  <2>4. TicketIn(r, x) = i
    BY <2>3, <1>1, TicketIsPosition
  <2>5. QED BY <2>2, <2>4, <1>4, <1>2
<1>6. QED BY <1>1, <1>5 DEF r

-----------------------------------------------------------------------------
(* push, the only step that adds to the queue.                             *)

\* emplace at the partition point keeps the order.
LEMMA InsertKeepsOrder ==
  ASSUME NEW q \in Seq(Jobs), NEW j \in Jobs, NEW p \in 0..Len(q), NEW r, NEW s, NEW t,
         Inserted(Jobs, q, p, j, r), PartitionPoint(q, Priority[j], p), OrderedBy(q, s),
         \A x \in ToSet(q) : TicketIn(t, x) = TicketIn(s, x) /\ TicketIn(t, x) < TicketIn(t, j)
  PROVE  OrderedBy(r, t)
<1> DEFINE n == Len(q)
           Before(a, b) == \/ Priority[a] > Priority[b]
                           \/ Priority[a] = Priority[b] /\ TicketIn(t, a) < TicketIn(t, b)
<1>1. n \in Nat /\ p \in Nat /\ p <= n /\ DOMAIN q = 1..n /\ DOMAIN r = 1..(n + 1)
  BY DEF Inserted
<1>2. /\ \A i \in 1..p : r[i] = q[i]
      /\ r[p + 1] = j
      /\ \A i \in (p + 1)..n : r[i + 1] = q[i]
  BY DEF Inserted
<1>3. \A i \in 1..n : q[i] \in ToSet(q) /\ Priority[q[i]] \in Int
  <2>1. \A i \in 1..n : q[i] \in Jobs
    OBVIOUS
  <2>2. \A x \in Jobs : Priority[x] \in Int
    BY JobQueAssumption
  <2>3. \A i \in 1..n : q[i] \in ToSet(q)
    BY <1>1 DEF ToSet
  <2>4. QED BY <2>1, <2>2, <2>3
<1>4. Priority[j] \in Int
  BY JobQueAssumption
<1>5. \A i, k \in 1..n : i < k => Before(q[i], q[k])
  BY <1>1, <1>3 DEF OrderedBy
<1>6. \A i \in 1..p : Before(q[i], j)
  <2>1. ASSUME NEW i \in 1..p PROVE Before(q[i], j)
    <3>1. i \in 1..n
      BY <1>1
    <3>2. Priority[q[i]] >= Priority[j]
      BY DEF PartitionPoint
    <3>3. TicketIn(t, q[i]) < TicketIn(t, j)
      BY <3>1, <1>3
    <3>4. QED BY <3>1, <3>2, <3>3, <1>3, <1>4
  <2>2. QED BY <2>1
<1>7. \A k \in (p + 1)..n : Before(j, q[k])
  <2>1. ASSUME NEW k \in (p + 1)..n PROVE Before(j, q[k])
    <3>1. k \in 1..n /\ Priority[q[k]] < Priority[j]
      BY <1>1 DEF PartitionPoint
    <3>2. QED BY <3>1, <1>3, <1>4
  <2>2. QED BY <2>1
<1> HIDE DEF n, Before
<1>8. ASSUME NEW i \in 1..(n + 1), NEW k \in 1..(n + 1), i < k
      PROVE  Before(r[i], r[k])
  <2>1. CASE k <= p
    <3>1. i \in 1..p /\ k \in 1..p /\ i \in 1..n /\ k \in 1..n
      BY <1>1, <1>8, <2>1
    <3>2. QED BY <3>1, <1>2, <1>5, <1>8
  <2>2. CASE k = p + 1
    <3>1. i \in 1..p
      BY <1>1, <1>8, <2>2
    <3>2. QED BY <3>1, <2>2, <1>2, <1>6
  <2>3. CASE k > p + 1
    <3>1. k - 1 \in (p + 1)..n /\ (k - 1) + 1 = k /\ k - 1 \in 1..n
      BY <1>1, <2>3
    <3>2. r[k] = q[k - 1]
      BY <3>1, <1>2
    <3>3. CASE i <= p
      <4>1. i \in 1..p /\ i \in 1..n /\ i < k - 1
        BY <1>1, <2>3, <3>3
      <4>2. QED BY <4>1, <3>1, <3>2, <1>2, <1>5
    <3>4. CASE i = p + 1
      BY <3>4, <3>1, <3>2, <1>2, <1>7
    <3>5. CASE i > p + 1
      <4>1. i - 1 \in (p + 1)..n /\ (i - 1) + 1 = i /\ i - 1 \in 1..n /\ i - 1 < k - 1
        BY <1>1, <1>8, <3>5
      <4>2. r[i] = q[i - 1]
        BY <4>1, <1>2
      <4>3. QED BY <4>1, <4>2, <3>1, <3>2, <1>5
    <3>6. QED BY <1>1, <3>3, <3>4, <3>5
  <2>4. QED BY <1>1, <2>1, <2>2, <2>3
<1>9. \A i, k \in DOMAIN r : i < k => Before(r[i], r[k])
  BY <1>1, <1>8
<1>10. QED BY <1>9 DEF OrderedBy, Before

\* The order of the jobs that stay is not changed by what is taken or submitted.
LEMMA OrderKept ==
  ASSUME NEW q, NEW s, NEW t, OrderedBy(q, s),
         \A x \in ToSet(q) : TicketIn(t, x) = TicketIn(s, x)
  PROVE  OrderedBy(q, t)
<1>1. \A i \in DOMAIN q : q[i] \in ToSet(q)
  BY DEF ToSet
<1>2. QED BY <1>1 DEF OrderedBy

LEMMA SubmitKeepsOrder ==
  ASSUME IInv, Order, NEW t \in Threads, NEW j \in Jobs, push(t, j) \/ EvalOnMainThread(t, j)
  PROVE  Order'
<1>1. submitted \in Seq(Jobs) /\ mFifo \in Seq(Jobs) /\ ToSet(mFifo) \subseteq ToSet(submitted)
  BY DEF IInv, TypeOK, Placed
<1>2. submitted' = Append(submitted, j) /\ j \notin ToSet(submitted)
  BY DEF push, EvalOnMainThread, Fresh
<1>3. /\ Distinct(submitted')
      /\ \A x \in ToSet(submitted) :
           /\ TicketIn(submitted', x) = TicketIn(submitted, x)
           /\ TicketIn(submitted', x) < TicketIn(submitted', j)
  BY <1>1, <1>2, TicketsGrow DEF Order
<1>4. OrderedBy(mFifo', submitted')
  <2>1. CASE push(t, j)
    <3>1. PICK p \in 0..Len(mFifo) :
            PartitionPoint(mFifo, Priority[j], p) /\ mFifo' = InsertAt(mFifo, p + 1, j)
      BY <2>1 DEF push, submit
    <3>2. Inserted(Jobs, mFifo, p, j, mFifo')
      BY <3>1, <1>1, InsertAtEntries
    <3>3. \A x \in ToSet(mFifo) : /\ TicketIn(submitted', x) = TicketIn(submitted, x)
                                  /\ TicketIn(submitted', x) < TicketIn(submitted', j)
      BY <1>1, <1>3
    <3>4. QED BY <3>1, <3>2, <3>3, <1>1, InsertKeepsOrder DEF Order
  <2>2. CASE EvalOnMainThread(t, j)
    <3>1. mFifo' = mFifo
      BY <2>2 DEF EvalOnMainThread, queueVars
    <3>2. \A x \in ToSet(mFifo) : TicketIn(submitted', x) = TicketIn(submitted, x)
      BY <1>1, <1>3
    <3>3. QED BY <3>1, <3>2, OrderKept DEF Order
  <2>3. QED BY <2>1, <2>2
<1>5. QED BY <1>3, <1>4 DEF Order

\* A worker takes the front: the others move up by one.
LEMMA FetchKeepsOrder ==
  ASSUME IInv, Order, NEW w \in Workers, Fetch(w)
  PROVE  Order'
<1>1. /\ mFifo \in Seq(Jobs) /\ mFifo # <<>> /\ mFifo' = Tail(mFifo)
      /\ submitted' = submitted
  BY DEF IInv, TypeOK, Fetch, histVars
<1> DEFINE n == Len(mFifo)
<1>2. /\ n \in Nat \ {0} /\ DOMAIN mFifo = 1..n /\ DOMAIN mFifo' = 1..(n - 1)
      /\ \A i \in 1..(n - 1) : mFifo'[i] = mFifo[i + 1]
  BY <1>1
<1> HIDE DEF n
<1>3. \A i \in 1..(n - 1) : i + 1 \in 1..n
  BY <1>2
<1>4. \A i, k \in 1..(n - 1) : i < k => i + 1 < k + 1
  BY <1>2
<1>5. OrderedBy(mFifo', submitted)
  <2>1. \A i, k \in 1..n : i < k =>
          \/ Priority[mFifo[i]] > Priority[mFifo[k]]
          \/ /\ Priority[mFifo[i]] = Priority[mFifo[k]]
             /\ TicketIn(submitted, mFifo[i]) < TicketIn(submitted, mFifo[k])
    BY <1>2 DEF Order, OrderedBy
  <2>2. ASSUME NEW i \in 1..(n - 1), NEW k \in 1..(n - 1), i < k
        PROVE  \/ Priority[mFifo'[i]] > Priority[mFifo'[k]]
               \/ /\ Priority[mFifo'[i]] = Priority[mFifo'[k]]
                  /\ TicketIn(submitted, mFifo'[i]) < TicketIn(submitted, mFifo'[k])
    <3>1. /\ i + 1 \in 1..n /\ k + 1 \in 1..n /\ i + 1 < k + 1
          /\ mFifo'[i] = mFifo[i + 1] /\ mFifo'[k] = mFifo[k + 1]
      BY <2>2, <1>2, <1>3, <1>4
    <3>2. QED BY <3>1, <2>1
  <2>3. QED BY <2>2, <1>2 DEF OrderedBy
<1>6. QED BY <1>1, <1>5 DEF Order

\* All other steps leave the queue and the history alone.
LEMMA OthersKeepQueue ==
  ASSUME [Next]_vars, ~Submit, \A w \in Workers : ~Fetch(w)
  PROVE  UNCHANGED <<mFifo, submitted>>
<1>1. CASE \E w \in Workers : WorkerStep(w)
  <2>1. PICK w \in Workers : LoopTest(w) \/ FetchTimeout(w) \/ JobEnd(w) \/ Retire(w) \/ Leave(w)
    BY <1>1 DEF WorkerStep
  <2>2. QED BY <2>1 DEF LoopTest, FetchTimeout, JobEnd, Retire, Leave, queueVars, histVars
<1>2. CASE MainStep
  BY <1>2 DEF MainStep, WaitOuter, WaitInner, WaitReturn, EvalSwap, EvalJob, EvalJobEnd,
              EvalReturn, JoinEnd, queueVars, histVars
<1>3. CASE MainCall
  BY <1>3 DEF MainCall, CallEvalMainThreadJobs, CallWait, JoinBegin, queueVars, histVars
<1>4. CASE UNCHANGED vars
  BY <1>4 DEF vars, queueVars, histVars
<1>5. QED BY <1>1, <1>2, <1>3, <1>4 DEF Next, Destroyed

LEMMA NextOrder == IInv /\ Order /\ [Next]_vars => Order'
<1> SUFFICES ASSUME IInv, Order, [Next]_vars PROVE Order'
  OBVIOUS
<1>1. CASE Submit
  BY <1>1, SubmitKeepsOrder DEF Submit
<1>2. CASE \E w \in Workers : Fetch(w)
  BY <1>2, FetchKeepsOrder
<1>3. CASE ~Submit /\ \A w \in Workers : ~Fetch(w)
  <2>1. UNCHANGED <<mFifo, submitted>>
    BY <1>3, OthersKeepQueue
  <2>2. QED BY <2>1 DEF Order, OrderedBy, TicketIn, Distinct
<1>4. QED BY <1>1, <1>2, <1>3

LEMMA InitOrder == Init => Order
BY DEF Init, Order, Distinct, OrderedBy

\* submit keeps mFifo sorted by priority and stable: the front is always the oldest
\* job of the highest priority waiting.
THEOREM QueueIsOrdered == Spec => []FifoOrdered
<1>1. Order => FifoOrdered
  BY OrderIsFifo DEF Order
<1>2. QED BY <1>1, InitOrder, NextOrder, Invariance, PTL DEF Spec

=============================================================================
