-------------------------- MODULE WithJobQueProofs --------------------------
(***************************************************************************)
(* What the global queue outlives, for any number of threads, jobs, scopes *)
(* and panics.                                                             *)
(*                                                                         *)
(* A queue whose destructor has not ended is referenced, or is being       *)
(* joined by exactly one actor and referenced by nobody (Owned, Joined).   *)
(* While the global pointer holds a queue, somebody is still on the way to *)
(* the last section of with_job_que and will reset it, unless a panic has  *)
(* left a reference behind (Witness).  Whoever is inside of new_job goes   *)
(* on running (Forks).                                                     *)
(*                                                                         *)
(* That holds whoever opens scopes.  The queue new_job has read is live    *)
(* when only Main opens them (Solo), and the count of threads is final     *)
(* when no job does (Past).                                                *)
(***************************************************************************)
EXTENDS WithJobQue, FiniteSetTheorems, TLAPS

Phases == {"out", "create", "created", "copy", "block", "dropped", "final", "reset"}
JobStates == {"new", "forked", "queued", "running", "finished", "dropped"}
ThreadStates == {"new", "run", "teardown", "ended"}

TypeOK ==
  /\ g_jobQue \in Queues \cup {Nil}
  /\ g_jobQueMutex \in Actors \cup {Nil}
  /\ g_jobQueTotalThreads \in Int
  /\ created \in Nat /\ created <= MaxQueues
  /\ live \subseteq 1..created
  /\ pc \in [Actors -> Phases]
  /\ jq \in [Actors -> Queues \cup {Nil}]
  /\ joining \in [Actors -> Queues \cup {Nil}]
  /\ leaked \in [Queues -> Nat]
  /\ job \in [Jobs -> [state : JobStates, que : Queues \cup {Nil}]]
  /\ thread \in [Spawned -> ThreadStates]
  /\ module \in {"loaded", "waiting", "counted", "reset", "gone"}
  /\ fork \in [Actors -> Jobs \cup {Nil}]
  /\ callee \in [Actors -> Queues \cup {Nil}]
  /\ crashed \in BOOLEAN

\* Only the script of a running actor is inside with_job_que, and what it holds goes
\* with where it is.
Inside ==
  /\ \A a \in Actors : pc[a] # "out" => Runs(a) /\ a \in ScopeUsers
  /\ \A a \in Actors : jq[a] # Nil => pc[a] = "block"
  /\ \A a \in Actors : joining[a] # Nil =>
       pc[a] \in {"created", "dropped", "reset"} \/ (a = Main /\ module = "reset")

Locked ==
  /\ \A a \in Actors : pc[a] \in {"created", "reset"} => g_jobQueMutex = a
  /\ module = "reset" => g_jobQueMutex = Main

\* A reference keeps its queue.
Referenced ==
  /\ g_jobQue # Nil => g_jobQue \in live
  /\ \A a \in Actors : jq[a] # Nil => jq[a] \in live
  /\ \A q \in Queues : leaked[q] > 0 => q \in live
  /\ \A j \in Jobs : job[j].state \in {"queued", "running"} => job[j].que \in live
  /\ \A j \in Jobs : job[j].que # Nil => job[j].que \in 1..created

\* A queue is joined by one actor, when nobody refers to it any more.
Joined ==
  \A a \in Actors : joining[a] # Nil =>
    /\ joining[a] \in live
    /\ g_jobQue # joining[a] /\ leaked[joining[a]] = 0
    /\ \A b \in Actors : jq[b] # joining[a]
    /\ \A b \in Actors : joining[b] = joining[a] => b = a

\* No queue is forgotten.
Owned ==
  \A q \in live :
    \/ g_jobQue = q
    \/ leaked[q] > 0
    \/ \E a \in Actors : jq[a] = q \/ joining[a] = q

RunningThreads == {t \in Spawned : thread[t] = "run"}

Counted == g_jobQueTotalThreads = Cardinality(RunningThreads)

\* Whoever is inside of new_job makes a job of its own, and its script goes on running.
Forks ==
  /\ \A a \in Actors : fork[a] # Nil =>
       Runs(a) /\ job[fork[a]].state = "forked" /\ (pc[a] = "block" \/ a \in Jobs)
  /\ \A a, b \in Actors : fork[a] # Nil /\ fork[a] = fork[b] => a = b
  /\ \A a \in Actors : callee[a] # Nil => fork[a] # Nil

Leaks == \E q \in Queues : leaked[q] > 0

\* The actor will drop a queue and pass the last section.
Leaving(a) ==
  \/ pc[a] \in {"created", "dropped", "final"}
  \/ pc[a] = "block" /\ jq[a] # Nil

\* A job does not run on the queue it has created and not yet copied.
NotItsOwn(a) == a \in Jobs => job[a].que # g_jobQue

Witness ==
  /\ g_jobQue # Nil =>
       \/ Leaks
       \/ \E a \in Actors : Leaving(a) \/ (pc[a] = "copy" /\ NotItsOwn(a))
  /\ \A a \in Actors : pc[a] = "created" => g_jobQue # Nil /\ NotItsOwn(a)

Inv ==
  /\ TypeOK /\ Inside /\ Locked
  /\ Referenced /\ Joined /\ Owned
  /\ Counted /\ Witness /\ Forks

-----------------------------------------------------------------------------
(* use_count, and what goes with a reference.                              *)

LEMMA NilIsNoQueue == Nil \notin Queues /\ Nil \notin Actors
BY WithJobQueAssumption

LEMMA ActorsFinite == IsFiniteSet(Actors)
<1>1. IsFiniteSet({Main}) /\ IsFiniteSet(Spawned) /\ IsFiniteSet(Jobs)
  BY WithJobQueAssumption, FS_Singleton
<1>2. QED BY <1>1, FS_Union DEF Actors

Holders(q) == {a \in Actors : jq[a] = q}

LEMMA HoldersCounted ==
  ASSUME NEW q
  PROVE  /\ IsFiniteSet(Holders(q)) /\ Cardinality(Holders(q)) \in Nat
         /\ Cardinality(Holders(q)) = 0 <=> Holders(q) = {}
<1>1. IsFiniteSet(Holders(q))
  BY ActorsFinite, FS_Subset DEF Holders
<1>2. QED BY <1>1, FS_CardinalityType, FS_EmptySet

\* The global pointer is reset: nobody else has the queue, or it stays.
LEMMA DropGlobal ==
  ASSUME TypeOK, g_jobQue # Nil
  PROVE  \/ /\ Dropped(g_jobQue) = g_jobQue
            /\ leaked[g_jobQue] = 0
            /\ \A b \in Actors : jq[b] # g_jobQue
         \/ /\ Dropped(g_jobQue) = Nil
            /\ leaked[g_jobQue] > 0 \/ \E b \in Actors : jq[b] = g_jobQue
<1> DEFINE n == Cardinality(Holders(g_jobQue))
           k == leaked[g_jobQue]
<1>1. n \in Nat /\ k \in Nat
  BY HoldersCounted DEF TypeOK
<1>2. use_count(g_jobQue) = 1 + n + k
  BY DEF use_count, Holders
<1>3. n = 0 <=> \A b \in Actors : jq[b] # g_jobQue
  BY HoldersCounted DEF Holders
<1> HIDE DEF n
<1>4. CASE n = 0 /\ k = 0
  BY <1>2, <1>3, <1>4 DEF Dropped
<1>5. CASE ~(n = 0 /\ k = 0)
  <2>1. use_count(g_jobQue) # 1
    BY <1>1, <1>2, <1>5
  <2>2. k > 0 \/ ~(n = 0)
    BY <1>1, <1>5
  <2>3. QED BY <2>1, <2>2, <1>3 DEF Dropped
<1>6. QED BY <1>4, <1>5

\* The jq of a scope is destroyed: nobody else has the queue, or it stays.
LEMMA DropLocal ==
  ASSUME TypeOK, NEW a \in Actors, jq[a] # Nil
  PROVE  \/ /\ Dropped(jq[a]) = jq[a]
            /\ g_jobQue # jq[a] /\ leaked[jq[a]] = 0
            /\ \A b \in Actors : b # a => jq[b] # jq[a]
         \/ /\ Dropped(jq[a]) = Nil
            /\ \/ g_jobQue = jq[a]
               \/ leaked[jq[a]] > 0
               \/ \E b \in Actors : b # a /\ jq[b] = jq[a]
<1> DEFINE q == jq[a]
           H == Holders(q)
           R == H \ {a}
           n == Cardinality(R)
           k == leaked[q]
           g == IF g_jobQue = q THEN 1 ELSE 0
<1>1. IsFiniteSet(H) /\ a \in H
  BY HoldersCounted DEF Holders
<1>2. IsFiniteSet(R) /\ n \in Nat /\ Cardinality(H) = n + 1
  <2>1. Cardinality(R) = Cardinality(H) - 1 /\ IsFiniteSet(R)
    BY <1>1, FS_RemoveElement
  <2>2. Cardinality(H) \in Nat /\ Cardinality(R) \in Nat
    BY <1>1, <2>1, FS_CardinalityType
  <2>3. QED BY <2>1, <2>2
<1>3. n = 0 <=> R = {}
  BY <1>2, FS_EmptySet
<1>4. R = {} <=> \A b \in Actors : b # a => jq[b] # q
  BY DEF Holders
<1>5. k \in Nat /\ g \in Nat /\ (g = 0 <=> g_jobQue # q)
  BY DEF TypeOK
<1>6. use_count(q) = g + (n + 1) + k
  BY <1>2 DEF use_count, Holders
<1> HIDE DEF n, g, R, k
<1>7. CASE g = 0 /\ n = 0 /\ k = 0
  <2>1. use_count(q) = 1
    BY <1>6, <1>7
  <2>2. QED BY <2>1, <1>3, <1>4, <1>5, <1>7 DEF Dropped, k
<1>8. CASE ~(g = 0 /\ n = 0 /\ k = 0)
  <2>1. use_count(q) # 1
    BY <1>2, <1>5, <1>6, <1>8
  <2>2. k > 0 \/ g # 0 \/ n # 0
    BY <1>2, <1>5, <1>8
  <2>3. QED BY <2>1, <2>2, <1>3, <1>4, <1>5 DEF Dropped, k
<1>9. QED BY <1>7, <1>8

LEMMA DropNothing == Dropped(Nil) = Nil
BY DEF Dropped

LEMMA LiveQueues ==
  ASSUME TypeOK
  PROVE  live \subseteq Queues /\ Nil \notin live
<1>1. MaxQueues \in Nat
  BY WithJobQueAssumption
<1>2. live \subseteq Queues
  BY <1>1 DEF TypeOK, Queues
<1>3. QED BY <1>2, NilIsNoQueue

LEMMA WhoRuns ==
  /\ Runs(Main) <=> module = "loaded"
  /\ \A t \in Spawned : Runs(t) <=> thread[t] = "run"
  /\ \A j \in Jobs : Runs(j) <=> job[j].state = "running"
<1>1. Main \notin Spawned /\ Main \notin Jobs /\ Spawned \cap Jobs = {}
  BY WithJobQueAssumption
<1>2. QED BY <1>1 DEF Runs

\* A script goes on running.
LEMMA RunsOn ==
  ASSUME NEW a \in Actors, Runs(a), module = "loaded" => module' = "loaded",
         \A t \in Spawned : thread[t] = "run" => thread'[t] = "run",
         \A j \in Jobs : job[j].state = "running" => job'[j].state = "running"
  PROVE  Runs(a)'
<1>1. Main \notin Spawned /\ Main \notin Jobs /\ Spawned \cap Jobs = {}
  BY WithJobQueAssumption
<1>2. CASE a = Main
  BY <1>1, <1>2 DEF Runs
<1>3. CASE a \in Spawned
  BY <1>1, <1>3 DEF Runs
<1>4. CASE a \in Jobs
  BY <1>1, <1>4 DEF Runs
<1>5. QED BY <1>2, <1>3, <1>4 DEF Actors

\* A step outside of new_job that ends no script and no block of a caller of new_job.
LEMMA ForksKept ==
  ASSUME Inv, UNCHANGED <<fork, callee>>,
         module = "loaded" => module' = "loaded",
         \A t \in Spawned : thread[t] = "run" => thread'[t] = "run",
         \A j \in Jobs : job[j].state \in {"running", "forked"} => job'[j].state = job[j].state,
         \A a \in Actors : fork[a] # Nil /\ pc[a] = "block" => pc'[a] = "block"
  PROVE  Forks'
<1>1. \A a \in Actors : Runs(a) => Runs(a)'
  BY RunsOn
<1>2. \A a \in Actors : fork[a] # Nil => fork[a] \in Jobs
  BY DEF Inv, TypeOK
<1>3. QED BY <1>1, <1>2 DEF Inv, Forks

\* Who holds the mutex is not Nil.
LEMMA MutexFree ==
  ASSUME Inv, g_jobQueMutex = Nil
  PROVE  module # "reset" /\ \A a \in Actors : pc[a] \notin {"created", "reset"}
BY NilIsNoQueue DEF Inv, Locked, Actors

LEMMA JoinsNothing ==
  ASSUME Inv, NEW a \in Actors, pc[a] \notin {"created", "dropped", "reset"},
         module # "reset"
  PROVE  joining[a] = Nil
BY DEF Inv, Inside

-----------------------------------------------------------------------------
(* with_job_que.                                                           *)

LEMMA EnterInv ==
  ASSUME Inv, NEW a \in Actors, Enter(a)
  PROVE  Inv'
<1> USE DEF Inv, Enter, queueVars, threadVars, restVars, newJobVars
<1>1. TypeOK'
  BY DEF TypeOK, Phases
<1>2. Inside' /\ Locked'
  BY DEF TypeOK, Inside, Locked, Runs
<1>3. Referenced' /\ Joined' /\ Owned' /\ Counted'
  BY DEF Referenced, Joined, Owned, Counted, RunningThreads
<1>4. Witness'
  BY DEF TypeOK, Witness, Leaks, Leaving, NotItsOwn
<1>5. Forks'
  <2>1. \A b \in Actors : pc[b] = "block" => pc'[b] = "block"
    BY DEF TypeOK
  <2>2. QED BY <2>1, ForksKept
<1>6. QED BY <1>1, <1>2, <1>3, <1>4, <1>5

LEMMA CreateInv ==
  ASSUME Inv, NEW a \in Actors, Create(a)
  PROVE  Inv'
<1> DEFINE new == created + 1
<1>1. /\ new \in Queues /\ new # Nil /\ new \notin live /\ new \notin 1..created
      /\ live' = live \cup {new} /\ g_jobQue' = new
      /\ created \in Nat /\ created' = new /\ new <= MaxQueues /\ live' \subseteq 1..new
      /\ 1..created \subseteq 1..new
  BY WithJobQueAssumption DEF Inv, Create, TypeOK, Queues
<1> HIDE DEF new
<1>2. jq' = jq /\ leaked' = leaked /\ job' = job /\ module' = module
      /\ UNCHANGED <<g_jobQueTotalThreads, thread, fork, callee, crashed>>
  BY DEF Create, threadVars, restVars, newJobVars
<1>3. \A b \in Actors : b # a => joining'[b] = joining[b] /\ pc'[b] = pc[b]
  BY DEF Create, TypeOK, Inv
<1>4. pc'[a] = "created" /\ joining'[a] = Dropped(g_jobQue) /\ pc[a] = "create"
  BY DEF Create, TypeOK, Inv
<1>5. \/ Dropped(g_jobQue) = Nil
      \/ Dropped(g_jobQue) = g_jobQue /\ g_jobQue # Nil /\ leaked[g_jobQue] = 0
         /\ \A b \in Actors : jq[b] # g_jobQue
  BY DropGlobal, DropNothing DEF Inv
<1>6. g_jobQueMutex = Nil /\ g_jobQueMutex' = a
  BY DEF Create
<1>7. module # "reset" /\ \A b \in Actors : pc[b] \notin {"created", "reset"}
  BY <1>6, MutexFree
<1>8. joining[a] = Nil
  BY <1>4, <1>7, JoinsNothing
<1>9. TypeOK'
  BY <1>1, <1>2, <1>5, <1>6 DEF Create, TypeOK, Phases, Inv
<1>10. Inside'
  BY <1>2, <1>3, <1>4, <1>7 DEF Inside, Runs, Inv
<1>11. Locked'
  BY <1>2, <1>3, <1>4, <1>6, <1>7 DEF Locked, Inv
<1>12. Referenced'
  BY <1>1, <1>2 DEF Referenced, TypeOK, Inv
<1>13. Joined'
  <2>1. \A q \in live : q # new
    BY <1>1
  <2>2. \A b \in Actors : joining[b] # Nil =>
          joining[b] \in live /\ joining[b] # g_jobQue /\ leaked[joining[b]] = 0
          /\ \A c \in Actors : jq[c] # joining[b] /\ (joining[c] = joining[b] => c = b)
    BY DEF Joined, Inv
  <2>3. g_jobQue # Nil => g_jobQue \in live
    BY DEF Referenced, Inv
  <2>4. ASSUME NEW b \in Actors, joining'[b] # Nil
        PROVE  /\ joining'[b] \in live /\ leaked[joining'[b]] = 0
               /\ \A c \in Actors : jq[c] # joining'[b]
               /\ \A c \in Actors : joining'[c] = joining'[b] => c = b
    <3>1. CASE b = a
      BY <3>1, <2>2, <2>3, <2>4, <1>3, <1>4, <1>5
    <3>2. CASE b # a
      BY <3>2, <2>2, <2>4, <1>3, <1>4, <1>5
    <3>3. QED BY <3>1, <3>2
  <2>5. QED BY <2>1, <2>4, <1>1, <1>2 DEF Joined
<1>14. Owned'
  <2>1. ASSUME NEW q \in live, g_jobQue = q, Dropped(q) = Nil
        PROVE  leaked[q] > 0 \/ \E b \in Actors : jq[b] = q
    BY <2>1, DropGlobal, LiveQueues DEF Inv
  <2>2. ASSUME NEW q \in live
        PROVE  leaked[q] > 0 \/ \E b \in Actors : jq[b] = q \/ joining'[b] = q
    <3>1. CASE g_jobQue = q
      BY <3>1, <2>1, <1>4, <1>5, LiveQueues
    <3>2. CASE g_jobQue # q
      BY <3>2, <1>3, <1>8, LiveQueues DEF Owned, Inv
    <3>3. QED BY <3>1, <3>2
  <2>3. QED BY <2>2, <1>1, <1>2 DEF Owned
<1>15. Counted'
  BY <1>2 DEF Counted, RunningThreads, Inv
<1>16. Witness'
  <2>1. a \in Jobs => job[a].que # new
    BY <1>1 DEF Referenced, Inv
  <2>2. Leaving(a)' /\ NotItsOwn(a)' /\ g_jobQue' # Nil
    BY <2>1, <1>1, <1>2, <1>4 DEF Leaving, NotItsOwn
  <2>3. \A b \in Actors : pc'[b] = "created" => b = a
    BY <1>3, <1>7
  <2>4. QED BY <2>2, <2>3, <1>2, <1>7 DEF Witness
<1>17. Forks'
  BY <1>2, <1>3, <1>4, ForksKept
<1>18. QED BY <1>9, <1>10, <1>11, <1>12, <1>13, <1>14, <1>15, <1>16, <1>17 DEF Inv

LEMMA CopyInv ==
  ASSUME Inv, NEW a \in Actors, Copy(a)
  PROVE  Inv'
<1> USE DEF Inv
<1>1. /\ UNCHANGED <<g_jobQue, created, live, g_jobQueMutex, joining, leaked, job, thread,
                     g_jobQueTotalThreads, module>>
      /\ pc[a] = "copy" /\ pc'[a] = "block" /\ jq'[a] = g_jobQue
      /\ \A b \in Actors : b # a => jq'[b] = jq[b] /\ pc'[b] = pc[b]
      /\ jq[a] = Nil /\ UNCHANGED <<fork, callee, crashed>>
  BY DEF Copy, TypeOK, queueVars, threadVars, restVars, newJobVars, Inside
<1>2. TypeOK'
  BY <1>1 DEF TypeOK, Phases, Copy
<1>3. Inside' /\ Locked'
  BY <1>1 DEF Inside, Locked, Runs
<1>4. Referenced' /\ Counted'
  BY <1>1 DEF Referenced, Counted, RunningThreads
<1>5. Joined'
  BY <1>1 DEF Joined
<1>6. Owned'
  <2>1. ASSUME NEW q \in live, NEW b \in Actors, jq[b] = q PROVE jq'[b] = q
    BY <2>1, <1>1, LiveQueues
  <2>2. QED BY <2>1, <1>1 DEF Owned
<1>7. Witness'
  <2>1. g_jobQue # Nil => Leaving(a)'
    BY <1>1 DEF Leaving
  <2>2. ASSUME NEW b \in Actors, Leaving(b) PROVE Leaving(b)'
    BY <2>2, <1>1 DEF Leaving
  <2>3. QED BY <2>1, <2>2, <1>1 DEF Witness, Leaks, NotItsOwn
<1>8. Forks'
  BY <1>1, ForksKept
<1>9. QED BY <1>2, <1>3, <1>4, <1>5, <1>6, <1>7, <1>8

LEMMA BlockEndInv ==
  ASSUME Inv, NEW a \in Actors, BlockEnd(a)
  PROVE  Inv'
<1> DEFINE q == jq[a]
<1>1. /\ UNCHANGED <<g_jobQue, created, live, g_jobQueMutex, leaked, job, thread,
                     g_jobQueTotalThreads, module>>
      /\ pc[a] = "block" /\ pc'[a] = "dropped" /\ jq'[a] = Nil /\ joining'[a] = Dropped(q)
      /\ \A b \in Actors : b # a => jq'[b] = jq[b] /\ pc'[b] = pc[b] /\ joining'[b] = joining[b]
      /\ UNCHANGED <<fork, callee, crashed>> /\ fork[a] = Nil
  BY DEF BlockEnd, Free, TypeOK, queueVars, threadVars, restVars, newJobVars, Inv
<1>2. q \in Queues \cup {Nil} /\ (q # Nil => q \in live)
  BY DEF Inv, TypeOK, Referenced
<1>3. joining[a] = Nil
  <2>1. a = Main => module # "reset"
    BY <1>1, WhoRuns DEF Inv, Inside
  <2>2. QED BY <2>1, <1>1 DEF Inv, Inside
<1>4. \/ Dropped(q) = Nil
      \/ /\ Dropped(q) = q /\ q # Nil /\ g_jobQue # q /\ leaked[q] = 0
         /\ \A b \in Actors : b # a => jq[b] # q
  BY DropLocal, DropNothing DEF Inv
<1>5. TypeOK'
  BY <1>1, <1>2, <1>4 DEF TypeOK, Phases, BlockEnd, Inv
<1>6. Inside'
  BY <1>1, <1>3 DEF Inside, Runs, Inv
<1>7. Locked' /\ Referenced' /\ Counted'
  BY <1>1 DEF Locked, Referenced, Counted, RunningThreads, Inv
<1>8. Joined'
  <2>1. \A b \in Actors : joining[b] # Nil =>
          joining[b] \in live /\ joining[b] # g_jobQue /\ leaked[joining[b]] = 0
          /\ \A c \in Actors : jq[c] # joining[b] /\ (joining[c] = joining[b] => c = b)
    BY DEF Joined, Inv
  <2>2. ASSUME NEW b \in Actors, joining'[b] # Nil
        PROVE  /\ joining'[b] \in live /\ g_jobQue # joining'[b] /\ leaked[joining'[b]] = 0
               /\ \A c \in Actors : jq'[c] # joining'[b]
               /\ \A c \in Actors : joining'[c] = joining'[b] => c = b
    <3>1. CASE b = a
      BY <3>1, <2>1, <2>2, <1>1, <1>2, <1>4
    <3>2. CASE b # a
      BY <3>2, <2>1, <2>2, <1>1, <1>2, <1>4
    <3>3. QED BY <3>1, <3>2
  <2>3. QED BY <2>2, <1>1 DEF Joined
<1>9. Owned'
  <2>1. ASSUME NEW r \in live
        PROVE  g_jobQue = r \/ leaked[r] > 0 \/ \E b \in Actors : jq'[b] = r \/ joining'[b] = r
    <3>1. r # Nil
      BY LiveQueues DEF Inv
    <3>2. CASE r = q /\ Dropped(q) = q
      BY <3>2, <1>1
    <3>3. CASE r = q /\ Dropped(q) = Nil
      BY <3>1, <3>3, <1>1, DropLocal DEF Inv
    <3>4. CASE r # q
      BY <3>4, <3>1, <1>1, <1>3 DEF Owned, Inv
    <3>5. QED BY <3>2, <3>3, <3>4, <1>4
  <2>2. QED BY <2>1, <1>1 DEF Owned
<1>10. Witness'
  <2>1. ASSUME NEW b \in Actors, Leaving(b) PROVE Leaving(b)'
    BY <2>1, <1>1 DEF Leaving
  <2>2. ASSUME NEW b \in Actors, pc[b] = "copy" PROVE pc'[b] = "copy"
    BY <2>2, <1>1
  <2>3. QED BY <2>1, <2>2, <1>1 DEF Witness, Leaks, NotItsOwn, Inv
<1>11. Forks'
  BY <1>1, ForksKept
<1>12. QED BY <1>5, <1>6, <1>7, <1>8, <1>9, <1>10, <1>11 DEF Inv

\* What Abandon leaves behind when the join of a returns.
LEMMA JoinEnds ==
  ASSUME Inv, NEW a \in Actors, JoinReturns(joining[a]), Abandon(joining[a]),
         joining' = [joining EXCEPT ![a] = Nil], UNCHANGED <<g_jobQue, created, jq, leaked>>
  PROVE  /\ live' \subseteq 1..created
         /\ job' \in [Jobs -> [state : JobStates, que : Queues \cup {Nil}]]
         /\ joining' \in [Actors -> Queues \cup {Nil}]
         /\ \A j \in Jobs : job[j].state \in {"running", "forked"} => job'[j].state = job[j].state
         /\ \A j \in Jobs : job'[j].que = job[j].que
         /\ Referenced' /\ Joined' /\ Owned'
<1> DEFINE q == joining[a]
<1>1. live' = live \ {q} /\ joining'[a] = Nil
      /\ \A b \in Actors : b # a => joining'[b] = joining[b]
  BY DEF Abandon, Inv, TypeOK
<1>2. ASSUME NEW j \in Jobs
      PROVE  /\ job'[j] \in [state : JobStates, que : Queues \cup {Nil}]
             /\ job'[j].que = job[j].que
             /\ job'[j].state = IF q # Nil /\ job[j].que = q /\ job[j].state = "queued"
                                THEN "dropped" ELSE job[j].state
  <2>1. job[j] \in [state : JobStates, que : Queues \cup {Nil}]
    BY DEF Inv, TypeOK
  <2>2. job'[j] = IF q # Nil /\ job[j].que = q /\ job[j].state = "queued"
                  THEN [job[j] EXCEPT !.state = "dropped"] ELSE job[j]
    BY DEF Abandon
  <2> HIDE DEF q
  <2>3. CASE q # Nil /\ job[j].que = q /\ job[j].state = "queued"
    BY <2>1, <2>2, <2>3 DEF JobStates
  <2>4. CASE ~(q # Nil /\ job[j].que = q /\ job[j].state = "queued")
    BY <2>1, <2>2, <2>4
  <2>5. QED BY <2>3, <2>4
<1>3. job' \in [Jobs -> [state : JobStates, que : Queues \cup {Nil}]]
  BY <1>2 DEF Abandon
<1>4. \A j \in Jobs : job[j].state \in {"running", "forked"} => job'[j].state = job[j].state
  BY <1>2
<1>5. joining' \in [Actors -> Queues \cup {Nil}] /\ live' \subseteq 1..created
  BY <1>1 DEF Inv, TypeOK
<1>6. Referenced'
  <2>1. g_jobQue # Nil => g_jobQue \in live'
    BY <1>1 DEF Inv, Referenced, Joined
  <2>2. \A b \in Actors : jq[b] # Nil => jq[b] \in live'
    BY <1>1 DEF Inv, Referenced, Joined
  <2>3. ASSUME NEW r \in Queues, leaked[r] > 0 PROVE r \in live'
    <3>1. r \in live
      BY <2>3 DEF Inv, Referenced
    <3>2. q # Nil => leaked[q] = 0
      BY DEF Inv, Joined
    <3>3. r # q
      BY <2>3, <3>2, NilIsNoQueue
    <3>4. QED BY <3>1, <3>3, <1>1
  <2>4. ASSUME NEW j \in Jobs, job'[j].state \in {"queued", "running"}
        PROVE  job'[j].que \in live'
    <3>1. job[j].state \in {"queued", "running"} /\ job[j].que \in live
      BY <2>4, <1>2 DEF Inv, Referenced
    <3>2. job[j].que # q
      BY <3>1, <2>4, <1>2, LiveQueues DEF Inv, JoinReturns
    <3>3. QED BY <3>1, <3>2, <1>1, <1>2
  <2>5. QED BY <2>1, <2>2, <2>3, <2>4, <1>2, <1>3 DEF Inv, Referenced
<1>7. Joined'
  BY <1>1 DEF Inv, Joined
<1>8. Owned'
  BY <1>1 DEF Inv, Owned
<1>9. QED BY <1>2, <1>3, <1>4, <1>5, <1>6, <1>7, <1>8
LEMMA CreatedInv ==
  ASSUME Inv, NEW a \in Actors, Created(a)
  PROVE  Inv'
<1>1. /\ UNCHANGED <<g_jobQue, created, jq, leaked, thread, g_jobQueTotalThreads, module,
                     fork, callee, crashed>>
      /\ pc[a] = "created" /\ pc'[a] = "copy" /\ joining'[a] = Nil
      /\ \A b \in Actors : b # a => pc'[b] = pc[b] /\ joining'[b] = joining[b]
      /\ g_jobQueMutex' = Nil
  BY DEF Created, TypeOK, threadVars, restVars, newJobVars, Inv
<1>2. /\ live' \subseteq 1..created
      /\ job' \in [Jobs -> [state : JobStates, que : Queues \cup {Nil}]]
      /\ joining' \in [Actors -> Queues \cup {Nil}]
      /\ \A j \in Jobs : job[j].state \in {"running", "forked"} => job'[j].state = job[j].state
      /\ \A j \in Jobs : job'[j].que = job[j].que
      /\ Referenced' /\ Joined' /\ Owned'
  BY JoinEnds DEF Created
<1>3. TypeOK'
  BY <1>1, <1>2 DEF TypeOK, Phases, Created, Inv
<1>4. Inside'
  <2>1. \A b \in Actors : Runs(b) => Runs(b)'
    BY <1>1, <1>2, RunsOn
  <2>2. jq[a] = Nil
    BY <1>1 DEF Inv, Inside
  <2>3. QED BY <2>1, <2>2, <1>1 DEF Inside, Inv
<1>5. Locked' /\ Counted'
  <2>1. \A b \in Actors : b # a => pc'[b] \notin {"created", "reset"}
    BY <1>1 DEF Inv, Locked
  <2>2. module # "reset"
    BY <1>1, WhoRuns DEF Inv, Locked, Inside
  <2>3. Locked'
    BY <2>1, <2>2, <1>1 DEF Locked
  <2>4. Counted'
    BY <1>1 DEF Counted, RunningThreads, Inv
  <2>5. QED BY <2>3, <2>4
<1>6. Witness'
  <2>1. g_jobQue # Nil /\ NotItsOwn(a)
    BY <1>1 DEF Inv, Witness
  <2>2. NotItsOwn(a)'
    BY <2>1, <1>1, <1>2 DEF NotItsOwn
  <2>3. \A b \in Actors : b # a => pc'[b] # "created"
    BY <1>1 DEF Inv, Locked
  <2>4. QED BY <2>1, <2>2, <2>3, <1>1 DEF Witness
<1>7. Forks'
  BY <1>1, <1>2, ForksKept
<1>8. QED BY <1>2, <1>3, <1>4, <1>5, <1>6, <1>7 DEF Inv

LEMMA DropEndInv ==
  ASSUME Inv, NEW a \in Actors, DropEnd(a)
  PROVE  Inv'
<1>1. /\ UNCHANGED <<g_jobQue, created, jq, leaked, thread, g_jobQueTotalThreads, module,
                     fork, callee, crashed>>
      /\ pc[a] = "dropped" /\ pc'[a] = "final" /\ joining'[a] = Nil
      /\ \A b \in Actors : b # a => pc'[b] = pc[b] /\ joining'[b] = joining[b]
      /\ UNCHANGED g_jobQueMutex
  BY DEF DropEnd, TypeOK, threadVars, restVars, newJobVars, Inv
<1>2. /\ live' \subseteq 1..created
      /\ job' \in [Jobs -> [state : JobStates, que : Queues \cup {Nil}]]
      /\ joining' \in [Actors -> Queues \cup {Nil}]
      /\ \A j \in Jobs : job[j].state \in {"running", "forked"} => job'[j].state = job[j].state
      /\ \A j \in Jobs : job'[j].que = job[j].que
      /\ Referenced' /\ Joined' /\ Owned'
  BY JoinEnds DEF DropEnd
<1>3. TypeOK'
  BY <1>1, <1>2 DEF TypeOK, Phases, DropEnd, Inv
<1>4. Inside'
  <2>1. \A b \in Actors : Runs(b) => Runs(b)'
    BY <1>1, <1>2, RunsOn
  <2>2. jq[a] = Nil
    BY <1>1 DEF Inv, Inside
  <2>3. QED BY <2>1, <2>2, <1>1 DEF Inside, Inv
<1>5. Locked' /\ Counted'
  BY <1>1 DEF Locked, Counted, RunningThreads, Inv
<1>6. Witness'
  <2>1. ASSUME NEW b \in Actors, Leaving(b) PROVE Leaving(b)'
    BY <2>1, <1>1 DEF Leaving
  <2>2. ASSUME NEW b \in Actors PROVE NotItsOwn(b) => NotItsOwn(b)'
    BY <1>1, <1>2 DEF NotItsOwn
  <2>3. ASSUME NEW b \in Actors, pc[b] = "copy" PROVE pc'[b] = "copy"
    BY <2>3, <1>1
  <2>4. ASSUME NEW b \in Actors, pc'[b] = "created" PROVE pc[b] = "created"
    BY <2>4, <1>1
  <2>5. QED BY <2>1, <2>2, <2>3, <2>4, <1>1 DEF Witness, Leaks, Inv
<1>7. Forks'
  BY <1>1, <1>2, ForksKept
<1>8. QED BY <1>2, <1>3, <1>4, <1>5, <1>6, <1>7 DEF Inv

LEMMA FinalEndInv ==
  ASSUME Inv, NEW a \in Actors, FinalEnd(a)
  PROVE  Inv'
<1>1. /\ UNCHANGED <<g_jobQue, created, jq, leaked, thread, g_jobQueTotalThreads, module,
                     fork, callee, crashed>>
      /\ pc[a] = "reset" /\ pc'[a] = "out" /\ joining'[a] = Nil
      /\ \A b \in Actors : b # a => pc'[b] = pc[b] /\ joining'[b] = joining[b]
      /\ g_jobQueMutex' = Nil
  BY DEF FinalEnd, TypeOK, threadVars, restVars, newJobVars, Inv
<1>2. /\ live' \subseteq 1..created
      /\ job' \in [Jobs -> [state : JobStates, que : Queues \cup {Nil}]]
      /\ joining' \in [Actors -> Queues \cup {Nil}]
      /\ \A j \in Jobs : job[j].state \in {"running", "forked"} => job'[j].state = job[j].state
      /\ \A j \in Jobs : job'[j].que = job[j].que
      /\ Referenced' /\ Joined' /\ Owned'
  BY JoinEnds DEF FinalEnd
<1>3. TypeOK'
  BY <1>1, <1>2 DEF TypeOK, Phases, FinalEnd, Inv
<1>4. Inside'
  <2>1. \A b \in Actors : Runs(b) => Runs(b)'
    BY <1>1, <1>2, RunsOn
  <2>2. jq[a] = Nil
    BY <1>1 DEF Inv, Inside
  <2>3. QED BY <2>1, <2>2, <1>1 DEF Inside, Inv
<1>5. Locked' /\ Counted'
  <2>1. \A b \in Actors : b # a => pc'[b] \notin {"created", "reset"}
    BY <1>1 DEF Inv, Locked
  <2>2. module # "reset"
    BY <1>1, WhoRuns DEF Inv, Locked, Inside
  <2>3. Locked'
    BY <2>1, <2>2, <1>1 DEF Locked
  <2>4. Counted'
    BY <1>1 DEF Counted, RunningThreads, Inv
  <2>5. QED BY <2>3, <2>4
<1>6. Witness'
  <2>1. ASSUME NEW b \in Actors, Leaving(b) PROVE Leaving(b)'
    BY <2>1, <1>1 DEF Leaving
  <2>2. ASSUME NEW b \in Actors PROVE NotItsOwn(b) => NotItsOwn(b)'
    BY <1>1, <1>2 DEF NotItsOwn
  <2>3. ASSUME NEW b \in Actors, pc[b] = "copy" PROVE pc'[b] = "copy"
    BY <2>3, <1>1
  <2>4. ASSUME NEW b \in Actors, pc'[b] = "created" PROVE pc[b] = "created"
    BY <2>4, <1>1
  <2>5. QED BY <2>1, <2>2, <2>3, <2>4, <1>1 DEF Witness, Leaks, Inv
<1>7. Forks'
  BY <1>1, <1>2, ForksKept
<1>8. QED BY <1>2, <1>3, <1>4, <1>5, <1>6, <1>7 DEF Inv

LEMMA PanicInv ==
  ASSUME Inv, NEW a \in Actors, Panic(a)
  PROVE  Inv'
<1> DEFINE q == jq[a]
<1>1. /\ UNCHANGED <<g_jobQue, created, live, g_jobQueMutex, joining, job, thread,
                     g_jobQueTotalThreads, module>>
      /\ pc[a] = "block" /\ pc'[a] = "out" /\ jq'[a] = Nil
      /\ \A b \in Actors : b # a => jq'[b] = jq[b] /\ pc'[b] = pc[b]
      /\ UNCHANGED <<fork, callee, crashed>> /\ fork[a] = Nil
  BY DEF Panic, Free, TypeOK, queueVars, threadVars, restVars, newJobVars, Inv
<1>2. /\ q = Nil => leaked' = leaked
      /\ q # Nil => leaked'[q] > 0 /\ q \in Queues /\ \A r \in Queues : r # q => leaked'[r] = leaked[r]
      /\ leaked' \in [Queues -> Nat]
  BY DEF Panic, Inv, TypeOK
<1>3. q # Nil => q \in live
  BY DEF Inv, Referenced
<1>4. TypeOK'
  BY <1>1, <1>2 DEF TypeOK, Phases, Panic, Inv
<1>5. Inside'
  BY <1>1 DEF Inside, Runs, Inv
<1>6. Locked' /\ Counted'
  BY <1>1 DEF Locked, Counted, RunningThreads, Inv
<1>7. Referenced'
  <2>1. \A r \in Queues : leaked'[r] > 0 => r \in live
    BY <1>2, <1>3 DEF Referenced, Inv
  <2>2. QED BY <2>1, <1>1 DEF Referenced, Inv
<1>8. Joined'
  <2>1. ASSUME NEW b \in Actors, joining[b] # Nil PROVE leaked'[joining[b]] = 0
    BY <2>1, <1>2 DEF Joined, Inv, TypeOK
  <2>2. QED BY <2>1, <1>1, NilIsNoQueue DEF Joined, Inv
<1>9. Owned'
  <2>1. ASSUME NEW r \in live
        PROVE  g_jobQue = r \/ leaked'[r] > 0 \/ \E b \in Actors : jq'[b] = r \/ joining[b] = r
    <3>1. r # Nil /\ r \in Queues
      BY LiveQueues DEF Inv
    <3>2. CASE r = q
      BY <3>1, <3>2, <1>2
    <3>3. CASE r # q
      <4>1. leaked'[r] = leaked[r]
        BY <3>1, <3>3, <1>2
      <4>2. \A b \in Actors : jq[b] = r => jq'[b] = r
        BY <3>3, <1>1
      <4>3. QED BY <4>1, <4>2 DEF Owned, Inv
    <3>4. QED BY <3>2, <3>3
  <2>2. QED BY <2>1, <1>1 DEF Owned
<1>10. Witness'
  <2>1. CASE q # Nil
    <3>1. Leaks'
      BY <2>1, <1>2 DEF Leaks
    <3>2. \A b \in Actors : pc'[b] = "created" => g_jobQue # Nil /\ NotItsOwn(b)'
      BY <1>1 DEF Witness, Inv, NotItsOwn
    <3>3. QED BY <3>1, <3>2, <1>1 DEF Witness
  <2>2. CASE q = Nil
    <3>1. ASSUME NEW b \in Actors, Leaving(b) PROVE Leaving(b)'
      BY <2>2, <3>1, <1>1 DEF Leaving
    <3>2. QED BY <2>2, <3>1, <1>1, <1>2 DEF Witness, Leaks, NotItsOwn, Inv
  <2>3. QED BY <2>1, <2>2
<1>11. Forks'
  BY <1>1, ForksKept
<1>12. QED BY <1>4, <1>5, <1>6, <1>7, <1>8, <1>9, <1>10, <1>11 DEF Inv

LEMMA FinalInv ==
  ASSUME Inv, NEW a \in Actors, Final(a)
  PROVE  Inv'
<1> DEFINE g == g_jobQue
<1>1. /\ UNCHANGED <<created, live, jq, leaked, job, thread, g_jobQueTotalThreads, module>>
      /\ pc[a] = "final" /\ pc'[a] = "reset" /\ joining'[a] = Dropped(g)
      /\ \A b \in Actors : b # a => pc'[b] = pc[b] /\ joining'[b] = joining[b]
      /\ g_jobQueMutex = Nil /\ g_jobQueMutex' = a
      /\ g_jobQue' = IF Dropped(g) = Nil THEN g ELSE Nil
      /\ UNCHANGED <<fork, callee, crashed>>
  BY DEF Final, TypeOK, threadVars, restVars, newJobVars, Inv
<1>2. module # "reset" /\ \A b \in Actors : pc[b] \notin {"created", "reset"}
  BY <1>1, MutexFree
<1>3. joining[a] = Nil /\ jq[a] = Nil
  BY <1>1, <1>2, JoinsNothing DEF Inv, Inside
<1>4. \/ /\ Dropped(g) = g /\ g # Nil /\ g_jobQue' = Nil
         /\ leaked[g] = 0 /\ \A b \in Actors : jq[b] # g
      \/ /\ Dropped(g) = Nil /\ g # Nil /\ g_jobQue' = g
         /\ leaked[g] > 0 \/ \E b \in Actors : jq[b] = g
      \/ Dropped(g) = Nil /\ g = Nil /\ g_jobQue' = Nil
  BY <1>1, DropGlobal, DropNothing DEF Inv
<1>5. g \in Queues \cup {Nil} /\ (g # Nil => g \in live)
  BY DEF Inv, TypeOK, Referenced
<1>6. TypeOK'
  BY <1>1, <1>4, <1>5 DEF TypeOK, Phases, Final, Inv
<1>7. Inside' /\ Counted'
  BY <1>1 DEF Inside, Runs, Counted, RunningThreads, Inv
<1>8. Locked'
  BY <1>1, <1>2 DEF Locked, Inv
<1>9. Referenced'
  BY <1>1, <1>4 DEF Referenced, Inv
<1>10. Joined'
  <2>1. \A b \in Actors : joining[b] # Nil =>
          joining[b] \in live /\ joining[b] # g /\ leaked[joining[b]] = 0
          /\ \A c \in Actors : jq[c] # joining[b] /\ (joining[c] = joining[b] => c = b)
    BY DEF Joined, Inv
  <2>2. ASSUME NEW b \in Actors, joining'[b] # Nil
        PROVE  /\ joining'[b] \in live /\ g_jobQue' # joining'[b] /\ leaked[joining'[b]] = 0
               /\ \A c \in Actors : jq[c] # joining'[b]
               /\ \A c \in Actors : joining'[c] = joining'[b] => c = b
    <3>1. CASE b = a
      BY <3>1, <2>1, <2>2, <1>1, <1>4, <1>5
    <3>2. CASE b # a
      BY <3>2, <2>1, <2>2, <1>1, <1>4, <1>5
    <3>3. QED BY <3>1, <3>2
  <2>3. QED BY <2>2, <1>1 DEF Joined
<1>11. Owned'
  <2>1. ASSUME NEW r \in live
        PROVE  g_jobQue' = r \/ leaked[r] > 0 \/ \E b \in Actors : jq[b] = r \/ joining'[b] = r
    <3>1. r # Nil
      BY LiveQueues DEF Inv
    <3>2. CASE r = g
      BY <3>1, <3>2, <1>1, <1>4
    <3>3. CASE r # g
      BY <3>3, <3>1, <1>1, <1>3 DEF Owned, Inv
    <3>4. QED BY <3>2, <3>3
  <2>2. QED BY <2>1, <1>1 DEF Owned
<1>12. Witness'
  <2>1. ASSUME g_jobQue' # Nil
        PROVE  Leaks' \/ \E b \in Actors : Leaving(b)'
    <3>1. g # Nil /\ (leaked[g] > 0 \/ \E b \in Actors : jq[b] = g)
      BY <2>1, <1>4
    <3>2. CASE leaked[g] > 0
      BY <3>1, <3>2, <1>1, <1>5 DEF Leaks
    <3>3. ASSUME NEW b \in Actors, jq[b] = g PROVE Leaving(b)'
      BY <3>1, <3>3, <1>1, <1>3 DEF Leaving, Inv, Inside
    <3>4. QED BY <3>1, <3>2, <3>3
  <2>2. \A b \in Actors : pc'[b] # "created"
    BY <1>1, <1>2
  <2>3. QED BY <2>1, <2>2, <1>1, <1>2 DEF Witness
<1>13. Forks'
  BY <1>1, ForksKept
<1>14. QED BY <1>6, <1>7, <1>8, <1>9, <1>10, <1>11, <1>12, <1>13 DEF Inv

-----------------------------------------------------------------------------
(* Jobs, threads and the module.                                           *)

\* A step of the jobs or of the threads: nothing in with_job_que moves.
LEMMA OutsideInv ==
  ASSUME Inv, UNCHANGED <<queueVars, g_jobQueMutex, scopeVars>>, TypeOK', Counted', Forks',
         \A a \in Actors : pc[a] # "out" => Runs(a)',
         module # "reset" => module' # "reset", module = "reset" => module' = "reset",
         \A j \in Jobs : job'[j].state \in {"queued", "running"} => job'[j].que \in live,
         \A j \in Jobs : job'[j].que # Nil => job'[j].que \in 1..created,
         \A a \in Actors : pc[a] # "out" /\ a \in Jobs => job'[a].que = job[a].que
  PROVE  Inv'
<1> USE DEF Inv, queueVars, scopeVars
<1>1. Inside' /\ Locked' /\ Referenced' /\ Joined' /\ Owned'
  BY DEF Inside, Locked, Referenced, Joined, Owned
<1>2. Witness'
  BY DEF Witness, Leaks, Leaving, NotItsOwn
<1>3. QED BY <1>1, <1>2

\* The state of one job changes.
LEMMA JobMoves ==
  ASSUME Inv, NEW j \in Jobs, NEW state \in JobStates, NEW q \in Queues \cup {Nil},
         job' = [job EXCEPT ![j] = [state |-> state, que |-> q]],
         UNCHANGED <<queueVars, g_jobQueMutex, scopeVars, threadVars, module>>,
         fork' \in [Actors -> Jobs \cup {Nil}], callee' \in [Actors -> Queues \cup {Nil}],
         crashed' \in BOOLEAN, Forks',
         state \in {"queued", "running"} => q \in live,
         q # Nil => q \in 1..created,
         pc[j] # "out" => q = job[j].que /\ state = "running"
  PROVE  Inv'
<1>1. /\ job'[j] = [state |-> state, que |-> q]
      /\ \A k \in Jobs : k # j => job'[k] = job[k]
      /\ job' \in [Jobs -> [state : JobStates, que : Queues \cup {Nil}]]
  BY DEF Inv, TypeOK
<1>2. TypeOK' /\ Counted'
  BY <1>1 DEF Inv, TypeOK, Counted, RunningThreads, queueVars, scopeVars, threadVars
<1>3. ASSUME NEW a \in Actors, pc[a] # "out" PROVE Runs(a)'
  <2>1. Runs(a)
    BY <1>3 DEF Inv, Inside
  <2>2. Main \notin Jobs /\ Spawned \cap Jobs = {} /\ Main \notin Spawned
    BY WithJobQueAssumption
  <2>3. CASE a = j
    BY <2>2, <2>3, <1>1, <1>3 DEF Runs
  <2>4. CASE a # j
    BY <2>1, <2>2, <2>4, <1>1 DEF Runs, threadVars, Actors
  <2>5. QED BY <2>3, <2>4
<1>4. \A k \in Jobs : job'[k].state \in {"queued", "running"} => job'[k].que \in live
  BY <1>1 DEF Inv, Referenced
<1>5. \A k \in Jobs : job'[k].que # Nil => job'[k].que \in 1..created
  BY <1>1 DEF Inv, Referenced
<1>6. \A a \in Actors : pc[a] # "out" /\ a \in Jobs => job'[a].que = job[a].que
  BY <1>1
<1>7. QED BY <1>2, <1>3, <1>4, <1>5, <1>6, OutsideInv

LEMMA OneJob ==
  ASSUME Inv, NEW j \in Jobs
  PROVE  /\ job[j] \in [state : JobStates, que : Queues \cup {Nil}] /\ j \in Actors /\ j # Nil
         /\ pc[j] # "out" => job[j].state = "running"
         /\ job[j].state \in {"queued", "running"} => job[j].que \in live
         /\ job[j].que # Nil => job[j].que \in 1..created
         /\ \A state \in JobStates : [job[j] EXCEPT !.state = state] = [state |-> state, que |-> job[j].que]
<1>1. job[j] \in [state : JobStates, que : Queues \cup {Nil}] /\ j \in Actors
  BY DEF Inv, TypeOK, Actors
<1>2. pc[j] # "out" => job[j].state = "running"
  BY <1>1, WhoRuns DEF Inv, Inside
<1>3. /\ job[j].state \in {"queued", "running"} => job[j].que \in live
      /\ job[j].que # Nil => job[j].que \in 1..created
  BY DEF Inv, Referenced
<1>4. QED BY <1>1, <1>2, <1>3, NilIsNoQueue

\* The state of one job that does not run changes: the scripts go on running.
LEMMA OthersRunOn ==
  ASSUME Inv, NEW j \in Jobs, job[j].state # "running", UNCHANGED <<module, threadVars>>,
         \A k \in Jobs : k # j => job'[k] = job[k]
  PROVE  \A a \in Actors : Runs(a) => Runs(a)'
BY RunsOn DEF threadVars

LEMMA InvokeInv ==
  ASSUME Inv, NEW a \in Actors, NEW j \in Jobs, new_job_invoke(a, j)
  PROVE  Inv'
<1>1. UNCHANGED <<queueVars, g_jobQueMutex, scopeVars, threadVars, module, callee, crashed>>
      /\ job[j].state = "new" /\ fork' = [fork EXCEPT ![a] = j]
      /\ job' = [job EXCEPT ![j] = [job[j] EXCEPT !.state = "forked"]]
      /\ Runs(a) /\ fork[a] = Nil /\ (pc[a] = "block" \/ a \in Jobs)
  BY WithJobQueAssumption DEF new_job_invoke, MayCallNewJob, Free
<1>2. fork' \in [Actors -> Jobs \cup {Nil}] /\ fork'[a] = j
      /\ \A b \in Actors : b # a => fork'[b] = fork[b]
  BY <1>1 DEF Inv, TypeOK
<1>3. "forked" \in JobStates /\ job[j].que \in Queues \cup {Nil}
  BY OneJob DEF JobStates
<1>4. job' = [job EXCEPT ![j] = [state |-> "forked", que |-> job[j].que]]
  BY <1>1, <1>3, OneJob
<1>5. job'[j].state = "forked" /\ \A k \in Jobs : k # j => job'[k] = job[k]
  BY <1>4 DEF Inv, TypeOK
<1>6. Forks'
  <2>1. \A b \in Actors : Runs(b) => Runs(b)'
    BY <1>1, <1>5, OthersRunOn
  <2>2. \A b \in Actors : fork[b] # Nil => fork[b] \in Jobs
    BY DEF Inv, TypeOK
  <2>3. /\ \A b \in Actors : fork[b] # Nil =>
             Runs(b) /\ job[fork[b]].state = "forked" /\ (pc[b] = "block" \/ b \in Jobs)
        /\ \A b, c \in Actors : fork[b] # Nil /\ fork[b] = fork[c] => b = c
        /\ \A b \in Actors : callee[b] # Nil => fork[b] # Nil
    BY DEF Inv, Forks
  <2>4. \A b \in Actors : fork[b] # j
    BY <2>3, <1>1, OneJob
  <2>5. pc' = pc /\ callee' = callee
    BY <1>1 DEF scopeVars
  <2>6. j # Nil
    BY OneJob
  <2>7. ASSUME NEW b \in Actors, fork'[b] # Nil
        PROVE  Runs(b)' /\ job'[fork'[b]].state = "forked" /\ (pc'[b] = "block" \/ b \in Jobs)
    <3>1. CASE b = a
      BY <3>1, <2>1, <2>5, <1>1, <1>2, <1>5
    <3>2. CASE b # a
      BY <3>2, <2>7, <2>1, <2>2, <2>3, <2>4, <2>5, <1>2, <1>5
    <3>3. QED BY <3>1, <3>2
  <2>8. \A b, c \in Actors : fork'[b] # Nil /\ fork'[b] = fork'[c] => b = c
    BY <2>3, <2>4, <1>2
  <2>9. \A b \in Actors : callee'[b] # Nil => fork'[b] # Nil
    BY <2>3, <2>5, <2>6, <1>2
  <2>10. QED BY <2>7, <2>8, <2>9 DEF Forks
<1>7. callee' \in [Actors -> Queues \cup {Nil}] /\ crashed' \in BOOLEAN
  BY <1>1 DEF Inv, TypeOK
<1>8. /\ pc[j] = "out" /\ (job[j].que # Nil => job[j].que \in 1..created)
      /\ "forked" \notin {"queued", "running"}
  BY <1>1, OneJob
<1>9. UNCHANGED <<queueVars, g_jobQueMutex, scopeVars, threadVars, module>>
  BY <1>1
<1>10. QED BY <1>2, <1>3, <1>4, <1>6, <1>7, <1>8, <1>9, JobMoves

LEMMA ReadInv ==
  ASSUME Inv, NEW a \in Actors, new_job_read(a)
  PROVE  Inv'
<1>1. UNCHANGED <<queueVars, g_jobQueMutex, scopeVars, job, threadVars, module, fork>>
      /\ fork[a] # Nil /\ callee' = [callee EXCEPT ![a] = g_jobQue] /\ crashed' \in BOOLEAN
  BY DEF new_job_read
<1>2. callee' \in [Actors -> Queues \cup {Nil}] /\ \A b \in Actors : b # a => callee'[b] = callee[b]
  BY <1>1 DEF Inv, TypeOK
<1>3. \A b \in Actors : Runs(b) => Runs(b)'
  BY <1>1, RunsOn DEF threadVars
<1>4. TypeOK' /\ Counted'
  BY <1>1, <1>2 DEF Inv, TypeOK, Counted, RunningThreads, queueVars, scopeVars, threadVars
<1>5. Forks'
  BY <1>1, <1>2, <1>3 DEF Forks, Inv, scopeVars
<1>6. \A b \in Actors : pc[b] # "out" => Runs(b)'
  BY <1>3 DEF Inv, Inside
<1>7. /\ \A j \in Jobs : job'[j].state \in {"queued", "running"} => job'[j].que \in live
      /\ \A j \in Jobs : job'[j].que # Nil => job'[j].que \in 1..created
  BY <1>1 DEF Inv, Referenced
<1>8. QED BY <1>1, <1>4, <1>5, <1>6, <1>7, OutsideInv

LEMMA PushInv ==
  ASSUME Inv, NEW a \in Actors, new_job_push(a)
  PROVE  Inv'
<1> DEFINE j == fork[a]
           c == callee[a]
<1>1. /\ UNCHANGED <<queueVars, g_jobQueMutex, scopeVars, threadVars, module>>
      /\ c # Nil /\ crashed' \in BOOLEAN
      /\ fork' = [fork EXCEPT ![a] = Nil] /\ callee' = [callee EXCEPT ![a] = Nil]
      /\ \/ c \in live /\ job' = [job EXCEPT ![j] = [state |-> "queued", que |-> c]]
         \/ c \notin live /\ job' = [job EXCEPT ![j] = [job[j] EXCEPT !.state = "dropped"]]
  BY DEF new_job_push
<1>2. /\ fork' \in [Actors -> Jobs \cup {Nil}] /\ callee' \in [Actors -> Queues \cup {Nil}]
      /\ fork'[a] = Nil /\ callee'[a] = Nil
      /\ \A b \in Actors : b # a => fork'[b] = fork[b] /\ callee'[b] = callee[b]
  BY <1>1 DEF Inv, TypeOK
<1>3. /\ j # Nil /\ j \in Jobs /\ job[j].state = "forked"
      /\ c \in Queues /\ (c \in live => c \in 1..created)
  BY <1>1 DEF Inv, TypeOK, Forks
<1> HIDE DEF j, c
<1>4. /\ \A k \in Jobs : k # j => job'[k] = job[k]
      /\ {"queued", "dropped"} \subseteq JobStates /\ pc[j] = "out"
      /\ job[j].que \in Queues \cup {Nil}
  BY <1>1, <1>3, OneJob DEF Inv, TypeOK, JobStates
<1>5. Forks'
  <2>1. \A b \in Actors : Runs(b) => Runs(b)'
    BY <1>1, <1>3, <1>4, OthersRunOn
  <2>2. /\ \A b \in Actors : fork[b] # Nil =>
             fork[b] \in Jobs /\ Runs(b) /\ job[fork[b]].state = "forked"
             /\ (pc[b] = "block" \/ b \in Jobs)
        /\ \A b, d \in Actors : fork[b] # Nil /\ fork[b] = fork[d] => b = d
        /\ \A b \in Actors : callee[b] # Nil => fork[b] # Nil
    BY DEF Inv, Forks, TypeOK
  <2>3. pc' = pc
    BY <1>1 DEF scopeVars
  <2>4. \A b \in Actors : b # a => fork[b] # j
    BY <2>2, <1>3 DEF j
  <2>5. ASSUME NEW b \in Actors, fork'[b] # Nil
        PROVE  Runs(b)' /\ job'[fork'[b]].state = "forked" /\ (pc'[b] = "block" \/ b \in Jobs)
    BY <2>5, <2>1, <2>2, <2>3, <2>4, <1>2, <1>4
  <2>6. \A b, d \in Actors : fork'[b] # Nil /\ fork'[b] = fork'[d] => b = d
    BY <2>2, <1>2
  <2>7. \A b \in Actors : callee'[b] # Nil => fork'[b] # Nil
    BY <2>2, <1>2
  <2>8. QED BY <2>5, <2>6, <2>7 DEF Forks
<1>6. CASE c \in live
  <2>1. job' = [job EXCEPT ![j] = [state |-> "queued", que |-> c]]
    BY <1>1, <1>6
  <2>2. QED BY <2>1, <1>1, <1>2, <1>3, <1>4, <1>5, <1>6, JobMoves
<1>7. CASE c \notin live
  <2>1. job' = [job EXCEPT ![j] = [state |-> "dropped", que |-> job[j].que]]
    BY <1>1, <1>3, <1>4, <1>7, OneJob
  <2>2. job[j].que # Nil => job[j].que \in 1..created
    BY <1>3, OneJob
  <2>3. /\ UNCHANGED <<queueVars, g_jobQueMutex, scopeVars, threadVars, module>>
        /\ crashed' \in BOOLEAN /\ "dropped" \in JobStates /\ "dropped" \notin {"queued", "running"}
        /\ pc[j] = "out" /\ job[j].que \in Queues \cup {Nil} /\ j \in Jobs
    BY <1>1, <1>3, <1>4
  <2>4. QED BY <2>1, <2>2, <2>3, <1>2, <1>5, JobMoves
<1>8. QED BY <1>6, <1>7

LEMMA JobInv ==
  ASSUME Inv, NEW j \in Jobs, JobStep(j)
  PROVE  Inv'
<1>1. /\ job[j] \in [state : JobStates, que : Queues \cup {Nil}]
      /\ {"running", "finished"} \subseteq JobStates
      /\ job[j].que \in Queues \cup {Nil}
  BY OneJob DEF JobStates
<1>2. UNCHANGED <<queueVars, g_jobQueMutex, scopeVars, threadVars, module, fork, callee, crashed>>
  BY DEF JobStep, JobStart, JobEnd, restVars, newJobVars
<1>3. /\ fork' \in [Actors -> Jobs \cup {Nil}] /\ callee' \in [Actors -> Queues \cup {Nil}]
      /\ crashed' \in BOOLEAN
  BY <1>2 DEF Inv, TypeOK
<1>4. CASE JobStart(j)
  <2>1. job' = [job EXCEPT ![j] = [state |-> "running", que |-> job[j].que]]
        /\ job[j].state = "queued"
    BY <1>4, <1>1, OneJob DEF JobStart
  <2>2. \A k \in Jobs : job[k].state \in {"running", "forked"} => job'[k].state = job[k].state
    BY <2>1 DEF Inv, TypeOK
  <2>3. Forks'
    BY <2>2, <1>2, ForksKept DEF threadVars, scopeVars
  <2>4. QED BY <2>1, <2>3, <1>1, <1>2, <1>3, OneJob, JobMoves
<1>5. CASE JobEnd(j)
  <2>1. job' = [job EXCEPT ![j] = [state |-> "finished", que |-> job[j].que]]
        /\ job[j].state = "running" /\ pc[j] = "out" /\ fork[j] = Nil
    BY <1>5, <1>1, OneJob DEF JobEnd, Free
  <2>2. \A k \in Jobs : k # j => job'[k] = job[k]
    BY <2>1 DEF Inv, TypeOK
  <2>3. Forks'
    <3>1. ASSUME NEW b \in Actors, Runs(b), b # j PROVE Runs(b)'
      BY <3>1, <2>2, <1>2, WithJobQueAssumption DEF Runs, Actors, threadVars
    <3>2. /\ \A b \in Actors : fork[b] # Nil =>
               fork[b] \in Jobs /\ Runs(b) /\ job[fork[b]].state = "forked"
               /\ (pc[b] = "block" \/ b \in Jobs)
          /\ \A b, d \in Actors : fork[b] # Nil /\ fork[b] = fork[d] => b = d
          /\ \A b \in Actors : callee[b] # Nil => fork[b] # Nil
      BY DEF Inv, Forks, TypeOK
    <3>3. ASSUME NEW b \in Actors, fork[b] # Nil PROVE Runs(b)' /\ job'[fork[b]].state = "forked"
      <4>1. b # j /\ fork[b] # j
        BY <3>2, <3>3, <2>1
      <4>2. QED BY <4>1, <3>1, <3>2, <3>3, <2>2
    <3>4. pc' = pc /\ fork' = fork /\ callee' = callee
      BY <1>2 DEF scopeVars
    <3>5. QED BY <3>2, <3>3, <3>4 DEF Forks
  <2>4. QED BY <2>1, <2>3, <1>1, <1>2, <1>3, OneJob, JobMoves
<1>6. QED BY <1>4, <1>5 DEF JobStep

LEMMA ThreadInv ==
  ASSUME Inv, NEW t \in Spawned, ThreadStep(t) \/ \E a \in Actors : new_thread_invoke(a, t)
  PROVE  Inv'
<1> DEFINE T == RunningThreads
<1>1. UNCHANGED <<queueVars, g_jobQueMutex, scopeVars, job, module, fork, callee, crashed>>
  BY DEF new_thread_invoke, ThreadStep, ThreadEnd, ThreadTeardown, newJobVars
<1>2. IsFiniteSet(T) /\ Cardinality(T) \in Nat
  BY WithJobQueAssumption, FS_Subset, FS_CardinalityType DEF RunningThreads
<1>3. Main \notin Jobs /\ Spawned \cap Jobs = {} /\ Main \notin Spawned /\ t \in Actors
  BY WithJobQueAssumption DEF Actors
<1>4. /\ \A u \in Spawned : u # t => thread'[u] = thread[u]
      /\ thread' \in [Spawned -> ThreadStates]
      /\ thread'[t] = "run" \/ (pc[t] = "out" /\ fork[t] = Nil) \/ thread[t] # "run"
  BY DEF new_thread_invoke, ThreadStep, ThreadEnd, ThreadTeardown, Inv, TypeOK, ThreadStates, Free
<1>5. Counted' /\ g_jobQueTotalThreads' \in Int
  <2>1. CASE \E a \in Actors : new_thread_invoke(a, t)
    <3>1. t \notin T /\ thread' = [thread EXCEPT ![t] = "run"]
          /\ g_jobQueTotalThreads' = g_jobQueTotalThreads + 1
      BY <2>1 DEF new_thread_invoke, RunningThreads
    <3>2. RunningThreads' = T \cup {t}
      BY <3>1 DEF RunningThreads, Inv, TypeOK
    <3>3. Cardinality(T \cup {t}) = Cardinality(T) + 1
      BY <3>1, <1>2, FS_AddElement
    <3>4. QED BY <3>1, <3>2, <3>3, <1>2 DEF Counted, Inv
  <2>2. CASE ThreadEnd(t)
    <3>1. t \in T /\ thread' = [thread EXCEPT ![t] = "teardown"]
          /\ g_jobQueTotalThreads' = g_jobQueTotalThreads - 1
      BY <2>2 DEF ThreadEnd, RunningThreads
    <3>2. RunningThreads' = T \ {t}
      BY <3>1 DEF RunningThreads, Inv, TypeOK
    <3>3. Cardinality(T \ {t}) = Cardinality(T) - 1
      BY <3>1, <1>2, FS_RemoveElement
    <3>4. QED BY <3>1, <3>2, <3>3, <1>2 DEF Counted, Inv
  <2>3. CASE ThreadTeardown(t)
    <3>1. RunningThreads' = T
      BY <2>3 DEF ThreadTeardown, RunningThreads, Inv, TypeOK
    <3>2. QED BY <3>1, <2>3 DEF ThreadTeardown, Counted, Inv, TypeOK
  <2>4. QED BY <2>1, <2>2, <2>3 DEF ThreadStep
<1>6. TypeOK'
  BY <1>1, <1>4, <1>5 DEF Inv, TypeOK, queueVars, scopeVars
<1>7. ASSUME NEW a \in Actors, pc[a] # "out" PROVE Runs(a)'
  <2>1. Runs(a)
    BY <1>7 DEF Inv, Inside
  <2>2. QED BY <2>1, <1>1, <1>3, <1>4, <1>7 DEF Runs, Actors
<1>8. /\ \A j \in Jobs : job'[j].state \in {"queued", "running"} => job'[j].que \in live
      /\ \A j \in Jobs : job'[j].que # Nil => job'[j].que \in 1..created
  BY <1>1 DEF Inv, Referenced
<1>9. Forks'
  <2>1. /\ \A a \in Actors : fork[a] # Nil =>
             Runs(a) /\ job[fork[a]].state = "forked" /\ (pc[a] = "block" \/ a \in Jobs)
        /\ \A a, b \in Actors : fork[a] # Nil /\ fork[a] = fork[b] => a = b
        /\ \A a \in Actors : callee[a] # Nil => fork[a] # Nil
    BY DEF Inv, Forks
  <2>2. ASSUME NEW a \in Actors, fork[a] # Nil PROVE Runs(a)'
    <3>1. Runs(a) /\ (pc[a] = "block" \/ a \in Jobs)
      BY <2>1, <2>2
    <3>2. CASE a = t
      <4>1. thread[t] = "run" /\ thread'[t] = "run"
        BY <3>1, <3>2, <2>2, <1>3, <1>4 DEF Runs
      <4>2. QED BY <4>1, <3>2, <1>3 DEF Runs
    <3>3. CASE a # t
      <4>1. a \in Spawned => thread'[a] = thread[a]
        BY <3>3, <1>4
      <4>2. QED BY <4>1, <3>1, <1>1, <1>3 DEF Runs, Actors
    <3>4. QED BY <3>2, <3>3
  <2>3. QED BY <2>1, <2>2, <1>1 DEF Forks, scopeVars
<1>10. QED BY <1>1, <1>5, <1>6, <1>7, <1>8, <1>9, OutsideInv

LEMMA ModuleShutdownInv ==
  ASSUME Inv, ModuleShutdown
  PROVE  Inv'
<1>1. UNCHANGED <<queueVars, g_jobQueMutex, scopeVars, job, threadVars, fork, callee, crashed>>
      /\ module = "loaded" /\ module' = "waiting" /\ pc[Main] = "out"
  BY DEF ModuleShutdown, newJobVars
<1>2. TypeOK' /\ Counted'
  BY <1>1 DEF Inv, TypeOK, Counted, RunningThreads, queueVars, scopeVars, threadVars
<1>3. \A a \in Actors : pc[a] # "out" => Runs(a)'
  <2>1. Main \notin Jobs /\ Spawned \cap Jobs = {} /\ Main \notin Spawned
    BY WithJobQueAssumption
  <2>2. QED BY <2>1, <1>1 DEF Inv, Inside, Runs, threadVars, Actors
<1>4. /\ \A j \in Jobs : job'[j].state \in {"queued", "running"} => job'[j].que \in live
      /\ \A j \in Jobs : job'[j].que # Nil => job'[j].que \in 1..created
  BY <1>1 DEF Inv, Referenced
<1>5. Forks'
  <2>1. /\ \A a \in Actors : fork[a] # Nil =>
             Runs(a) /\ job[fork[a]].state = "forked" /\ (pc[a] = "block" \/ a \in Jobs)
        /\ \A a, b \in Actors : fork[a] # Nil /\ fork[a] = fork[b] => a = b
        /\ \A a \in Actors : callee[a] # Nil => fork[a] # Nil
    BY DEF Inv, Forks
  <2>2. Main \notin Jobs /\ Spawned \cap Jobs = {} /\ Main \notin Spawned
    BY WithJobQueAssumption
  <2>3. ASSUME NEW a \in Actors, fork[a] # Nil PROVE Runs(a)'
    <3>1. a # Main
      BY <2>1, <2>2, <2>3, <1>1
    <3>2. QED BY <3>1, <2>1, <2>2, <2>3, <1>1 DEF Runs, Actors, threadVars
  <2>4. QED BY <2>1, <2>3, <1>1 DEF Forks, scopeVars
<1>6. QED BY <1>1, <1>2, <1>3, <1>4, <1>5, OutsideInv

LEMMA ModuleCountedInv ==
  ASSUME Inv, ModuleCounted
  PROVE  Inv'
<1>1. UNCHANGED <<queueVars, g_jobQueMutex, scopeVars, job, threadVars, fork, callee, crashed>>
      /\ module = "waiting" /\ module' = "counted"
  BY DEF ModuleCounted, newJobVars
<1>2. TypeOK' /\ Counted'
  BY <1>1 DEF Inv, TypeOK, Counted, RunningThreads, queueVars, scopeVars, threadVars
<1>3. \A a \in Actors : Runs(a) => Runs(a)'
  BY <1>1, RunsOn DEF threadVars
<1>4. \A a \in Actors : pc[a] # "out" => Runs(a)'
  BY <1>3 DEF Inv, Inside
<1>5. /\ \A j \in Jobs : job'[j].state \in {"queued", "running"} => job'[j].que \in live
      /\ \A j \in Jobs : job'[j].que # Nil => job'[j].que \in 1..created
  BY <1>1 DEF Inv, Referenced
<1>6. Forks'
  BY <1>1, <1>3 DEF Inv, Forks, scopeVars
<1>7. QED BY <1>1, <1>2, <1>4, <1>5, <1>6, OutsideInv

\* The module drops the global pointer.
LEMMA ModuleResetInv ==
  ASSUME Inv, ModuleReset
  PROVE  Inv'
<1> DEFINE g == g_jobQue
<1>1. /\ UNCHANGED <<created, live, pc, jq, leaked, job, threadVars, fork, callee, crashed>>
      /\ module = "counted" /\ module' = "reset"
      /\ g_jobQueMutex = Nil /\ g_jobQueMutex' = Main /\ g_jobQue' = Nil
      /\ Main \in Actors /\ joining'[Main] = Dropped(g)
      /\ \A b \in Actors : b # Main => joining'[b] = joining[b]
  BY DEF ModuleReset, Inv, TypeOK, Actors, newJobVars
<1>2. \A b \in Actors : pc[b] \notin {"created", "reset"}
  BY <1>1, MutexFree
<1>3. pc[Main] = "out" /\ jq[Main] = Nil /\ joining[Main] = Nil
  BY <1>1, WhoRuns DEF Inv, Inside
<1>4. \/ /\ Dropped(g) = g /\ g # Nil
         /\ leaked[g] = 0 /\ \A b \in Actors : jq[b] # g
      \/ /\ Dropped(g) = Nil /\ g # Nil
         /\ leaked[g] > 0 \/ \E b \in Actors : jq[b] = g
      \/ Dropped(g) = Nil /\ g = Nil
  BY DropGlobal, DropNothing DEF Inv
<1>5. g \in Queues \cup {Nil} /\ (g # Nil => g \in live)
  BY DEF Inv, TypeOK, Referenced
<1>6. TypeOK'
  BY <1>1, <1>4, <1>5 DEF TypeOK, ModuleReset, Inv, threadVars
<1>7. Inside'
  <2>1. \A b \in Actors : Runs(b) => Runs(b)'
    BY <1>1, RunsOn DEF threadVars
  <2>2. QED BY <2>1, <1>1, <1>3 DEF Inside, Inv
<1>8. Locked'
  BY <1>1, <1>2 DEF Locked
<1>9. Referenced'
  BY <1>1 DEF Referenced, Inv
<1>10. Joined'
  <2>1. \A b \in Actors : joining[b] # Nil =>
          joining[b] \in live /\ joining[b] # g /\ leaked[joining[b]] = 0
          /\ \A c \in Actors : jq[c] # joining[b] /\ (joining[c] = joining[b] => c = b)
    BY DEF Joined, Inv
  <2>2. ASSUME NEW b \in Actors, joining'[b] # Nil
        PROVE  /\ joining'[b] \in live /\ leaked[joining'[b]] = 0
               /\ \A c \in Actors : jq[c] # joining'[b]
               /\ \A c \in Actors : joining'[c] = joining'[b] => c = b
    <3>1. CASE b = Main
      BY <3>1, <2>1, <2>2, <1>1, <1>4, <1>5
    <3>2. CASE b # Main
      BY <3>2, <2>1, <2>2, <1>1, <1>4, <1>5
    <3>3. QED BY <3>1, <3>2
  <2>3. QED BY <2>2, <1>1 DEF Joined
<1>11. Owned'
  <2>1. ASSUME NEW r \in live
        PROVE  leaked[r] > 0 \/ \E b \in Actors : jq[b] = r \/ joining'[b] = r
    <3>1. r # Nil
      BY LiveQueues DEF Inv
    <3>2. CASE r = g
      BY <3>1, <3>2, <1>1, <1>4
    <3>3. CASE r # g
      BY <3>3, <3>1, <1>1, <1>3 DEF Owned, Inv
    <3>4. QED BY <3>2, <3>3
  <2>2. QED BY <2>1, <1>1 DEF Owned
<1>12. Counted'
  BY <1>1 DEF Counted, RunningThreads, Inv, threadVars
<1>13. Witness'
  BY <1>1, <1>2 DEF Witness
<1>14. Forks'
  BY <1>1, ForksKept DEF threadVars
<1>15. QED BY <1>6, <1>7, <1>8, <1>9, <1>10, <1>11, <1>12, <1>13, <1>14 DEF Inv

LEMMA ModuleGoneInv ==
  ASSUME Inv, ModuleGone
  PROVE  Inv'
<1>1. /\ UNCHANGED <<g_jobQue, created, jq, leaked, pc, thread, g_jobQueTotalThreads>>
      /\ UNCHANGED <<fork, callee, crashed>>
      /\ module = "reset" /\ module' = "gone" /\ g_jobQueMutex = Main /\ g_jobQueMutex' = Nil
      /\ Main \in Actors /\ joining'[Main] = Nil
      /\ \A b \in Actors : b # Main => joining'[b] = joining[b]
  BY DEF ModuleGone, TypeOK, threadVars, newJobVars, Inv, Locked, Actors
<1>2. /\ live' \subseteq 1..created
      /\ job' \in [Jobs -> [state : JobStates, que : Queues \cup {Nil}]]
      /\ joining' \in [Actors -> Queues \cup {Nil}]
      /\ \A j \in Jobs : job[j].state \in {"running", "forked"} => job'[j].state = job[j].state
      /\ \A j \in Jobs : job'[j].que = job[j].que
      /\ Referenced' /\ Joined' /\ Owned'
  BY <1>1, JoinEnds DEF ModuleGone
<1>3. TypeOK'
  BY <1>1, <1>2 DEF TypeOK, ModuleGone, Inv
<1>4. pc[Main] = "out"
  BY <1>1, WhoRuns DEF Inv, Inside
<1>5. Inside'
  <2>1. \A b \in Actors : Runs(b) => Runs(b)'
    BY <1>1, <1>2, RunsOn
  <2>2. QED BY <2>1, <1>1 DEF Inside, Inv
<1>6. \A b \in Actors : pc[b] \notin {"created", "reset"}
  BY <1>1, <1>4 DEF Inv, Locked
<1>7. Locked' /\ Counted'
  BY <1>1, <1>6 DEF Locked, Counted, RunningThreads, Inv
<1>8. Witness'
  <2>1. ASSUME NEW b \in Actors PROVE (Leaving(b) => Leaving(b)') /\ (NotItsOwn(b) => NotItsOwn(b)')
    BY <1>1, <1>2 DEF Leaving, NotItsOwn
  <2>2. QED BY <2>1, <1>1, <1>6 DEF Witness, Leaks, Inv
<1>9. Forks'
  BY <1>1, <1>2, ForksKept
<1>10. QED BY <1>2, <1>3, <1>5, <1>7, <1>8, <1>9 DEF Inv

-----------------------------------------------------------------------------
(* The invariant.                                                          *)

LEMMA InitInv == Init => Inv
<1> SUFFICES ASSUME Init PROVE Inv
  OBVIOUS
<1>1. TypeOK
  <2>1. /\ g_jobQue \in Queues \cup {Nil} /\ g_jobQueMutex \in Actors \cup {Nil}
        /\ g_jobQueTotalThreads \in Int
        /\ created \in Nat /\ created <= MaxQueues /\ live \subseteq 1..created
    BY WithJobQueAssumption DEF Init
  <2>2. /\ pc \in [Actors -> Phases]
        /\ jq \in [Actors -> Queues \cup {Nil}]
        /\ joining \in [Actors -> Queues \cup {Nil}]
        /\ leaked \in [Queues -> Nat]
    BY DEF Init, Phases
  <2>3. /\ job \in [Jobs -> [state : JobStates, que : Queues \cup {Nil}]]
        /\ thread \in [Spawned -> ThreadStates]
        /\ module \in {"loaded", "waiting", "counted", "reset", "gone"}
    BY DEF Init, JobStates, ThreadStates
  <2>4. /\ fork \in [Actors -> Jobs \cup {Nil}]
        /\ callee \in [Actors -> Queues \cup {Nil}]
        /\ crashed \in BOOLEAN
    BY DEF Init
  <2>5. QED BY <2>1, <2>2, <2>3, <2>4 DEF TypeOK
<1>2. RunningThreads = {} /\ Cardinality({}) = 0
  BY FS_EmptySet DEF Init, RunningThreads
<1>3. Inside /\ Locked /\ Referenced /\ Joined /\ Owned
  BY DEF Init, Inside, Locked, Referenced, Joined, Owned, Actors
<1>4. Counted /\ Witness /\ Forks
  BY <1>2 DEF Init, Counted, Witness, Forks, Actors
<1>5. QED BY <1>1, <1>3, <1>4 DEF Inv

LEMMA InvSame ==
  ASSUME Inv, UNCHANGED <<g_jobQue, g_jobQueMutex, g_jobQueTotalThreads, created, live, pc, jq,
                          joining, leaked, job, thread, module, fork, callee, crashed>>
  PROVE  Inv'
<1>1. TypeOK'
  BY DEF Inv, TypeOK
<1>2. Inside' /\ Locked' /\ Referenced' /\ Joined' /\ Owned'
  BY DEF Inv, Inside, Locked, Referenced, Joined, Owned, Runs
<1>3. Counted' /\ Witness' /\ Forks'
  BY DEF Inv, Counted, RunningThreads, Witness, Leaks, Leaving, NotItsOwn, Forks, Runs
<1>4. QED BY <1>1, <1>2, <1>3 DEF Inv

LEMMA NextInv == Inv /\ [Next]_vars => Inv'
<1> SUFFICES ASSUME Inv, [Next]_vars PROVE Inv'
  OBVIOUS
<1>1. ASSUME NEW a \in Actors, Enter(a) \/ ScopeStep(a) \/ Panic(a) PROVE Inv'
  BY <1>1, EnterInv, CreateInv, CreatedInv, CopyInv, BlockEndInv, DropEndInv, FinalInv,
     FinalEndInv, PanicInv DEF ScopeStep
<1>2. ASSUME NEW a \in Actors, new_job_refused(a) PROVE Inv'
  <2>1. UNCHANGED <<queueVars, g_jobQueMutex, scopeVars, job, threadVars, module, newJobVars>>
    BY <1>2 DEF new_job_refused
  <2>2. QED BY <2>1, InvSame DEF queueVars, scopeVars, threadVars, newJobVars
<1>3. ASSUME NEW a \in Actors, NewJobStep(a) \/ \E j \in Jobs : new_job_invoke(a, j) PROVE Inv'
  BY <1>3, InvokeInv, ReadInv, PushInv DEF NewJobStep
<1>4. ASSUME NEW j \in Jobs, JobStep(j) PROVE Inv'
  BY <1>4, JobInv
<1>5. ASSUME NEW t \in Spawned, ThreadStep(t) \/ \E a \in Actors : new_thread_invoke(a, t)
      PROVE  Inv'
  BY <1>5, ThreadInv
<1>6. CASE ModuleShutdown \/ ModuleStep
  BY <1>6, ModuleShutdownInv, ModuleCountedInv, ModuleResetInv, ModuleGoneInv DEF ModuleStep
<1>7. CASE UNCHANGED vars
  BY <1>7, InvSame DEF vars
<1>8. QED BY <1>1, <1>2, <1>3, <1>4, <1>5, <1>6, <1>7 DEF Next, Stopped

LEMMA Invariant == Spec => []Inv
BY InitInv, NextInv, PTL DEF Spec

-----------------------------------------------------------------------------
(* What it means, whoever opens scopes.                                    *)

\* Whoever leaves with_job_que last resets the pointer, and the reset waits for the
\* running jobs, and so for those of them that are inside of new_job: nobody is left to
\* do it only after a panic, or while the module resets it.
THEOREM NothingStaysBehind == Spec => []NothingLeftBehind
<1>1. Inv => NothingLeftBehind
  <2> SUFFICES ASSUME Inv, \A a \in Actors : pc[a] = "out", module # "reset",
                      \A q \in Queues : leaked[q] = 0
               PROVE  /\ g_jobQue = Nil /\ live = {}
                      /\ \A a \in Actors : fork[a] = Nil
                      /\ \A j \in Jobs : job[j].state \notin {"queued", "running"}
    BY DEF NothingLeftBehind
  <2>1. ~Leaks /\ \A a \in Actors : ~Leaving(a)
    BY DEF Leaks, Leaving
  <2>2. g_jobQue = Nil
    BY <2>1 DEF Inv, Witness
  <2>3. \A a \in Actors : jq[a] = Nil /\ joining[a] = Nil
    BY DEF Inv, Inside
  <2>4. live = {}
    BY <2>2, <2>3, LiveQueues DEF Inv, Owned
  <2>5. \A j \in Jobs : job[j].state \notin {"queued", "running"}
    BY <2>4 DEF Inv, Referenced
  <2>6. ASSUME NEW a \in Actors PROVE fork[a] = Nil
    <3>1. fork[a] # Nil => a \in Jobs /\ Runs(a)
      BY DEF Inv, Forks
    <3>2. QED BY <3>1, <2>5, WhoRuns
  <2>7. QED BY <2>2, <2>4, <2>5, <2>6
<1>2. QED BY <1>1, Invariant, PTL

-----------------------------------------------------------------------------
(* No job opens a scope of its own.                                        *)

NoJobOpensAScope == ScopeUsers \cap Jobs = {}

Counting == module \in {"counted", "reset", "gone"}

\* Once the threads are counted out, no queue is left whose jobs could start another.
Past == Counting => Leaks \/ (RunningThreads = {} /\ joining[Main] = Nil)

\* Nobody is left to open a scope then, and nobody is inside of one.
LEMMA Quiet ==
  ASSUME NoJobOpensAScope, Inv, Counting, RunningThreads = {}
  PROVE  \A a \in Actors : pc[a] = "out" /\ (Runs(a) => a \in Jobs /\ a \notin ScopeUsers)
<1>1. \A a \in Actors : Runs(a) => a \in Jobs
  BY WhoRuns DEF Actors, RunningThreads, Counting
<1>2. QED BY <1>1 DEF NoJobOpensAScope, Inv, Inside

\* ... so no job runs, unless a queue was left behind.
LEMMA NoJobRuns ==
  ASSUME NoJobOpensAScope, Inv, Counting, RunningThreads = {}, joining[Main] = Nil, ~Leaks
  PROVE  g_jobQue = Nil /\ \A a \in Actors : ~Runs(a)
<1>1. \A a \in Actors : pc[a] = "out" /\ (Runs(a) => a \in Jobs)
  BY Quiet
<1>2. g_jobQue = Nil
  BY <1>1 DEF Inv, Witness, Leaving
<1>3. \A a \in Actors : jq[a] = Nil /\ joining[a] = Nil
  BY <1>1 DEF Inv, Inside
<1>4. live = {}
  <2>1. \A q \in live : q \in Queues /\ q # Nil
    BY LiveQueues DEF Inv
  <2>2. QED BY <2>1, <1>2, <1>3 DEF Inv, Owned, Leaks
<1>5. \A j \in Jobs : job[j].state # "running"
  BY <1>4 DEF Inv, Referenced
<1>6. QED BY <1>1, <1>2, <1>5, WhoRuns

\* A reference that a panic has left behind stays.
LEMMA LeaksStay ==
  ASSUME TypeOK, [Next]_vars, Leaks
  PROVE  Leaks'
<1>1. CASE leaked' = leaked
  BY <1>1 DEF Leaks
<1>2. ASSUME NEW a \in Actors, Panic(a) PROVE Leaks'
  <2>1. PICK q \in Queues : leaked[q] > 0
    BY DEF Leaks
  <2>2. leaked' = leaked \/ (jq[a] \in Queues /\ leaked' = [leaked EXCEPT ![jq[a]] = @ + 1])
    BY <1>2 DEF Panic, TypeOK
  <2>3. leaked'[q] > 0
    BY <2>1, <2>2 DEF TypeOK
  <2>4. QED BY <2>3 DEF Leaks
<1>3. ASSUME NEW a \in Actors, Enter(a) \/ ScopeStep(a) \/ NewJobStep(a) \/ new_job_refused(a)
      PROVE  leaked' = leaked
  BY <1>3 DEF Enter, ScopeStep, Create, Created, Copy, BlockEnd, DropEnd, Final, FinalEnd,
              NewJobStep, new_job_read, new_job_push, new_job_refused, scopeVars
<1>4. ASSUME NEW a \in Actors, NEW j \in Jobs, new_job_invoke(a, j) PROVE leaked' = leaked
  BY <1>4 DEF new_job_invoke, scopeVars
<1>5. ASSUME NEW j \in Jobs, JobStep(j) PROVE leaked' = leaked
  BY <1>5 DEF JobStep, JobStart, JobEnd, scopeVars
<1>6. ASSUME NEW t \in Spawned, ThreadStep(t) \/ \E a \in Actors : new_thread_invoke(a, t)
      PROVE  leaked' = leaked
  BY <1>6 DEF new_thread_invoke, ThreadStep, ThreadEnd, ThreadTeardown, scopeVars
<1>7. ModuleShutdown \/ ModuleStep \/ UNCHANGED vars => leaked' = leaked
  BY DEF ModuleShutdown, ModuleStep, ModuleCounted, ModuleReset, ModuleGone, scopeVars, vars
<1>8. QED BY <1>1, <1>2, <1>3, <1>4, <1>5, <1>6, <1>7 DEF Next, Stopped

LEMMA NextPast ==
  ASSUME NoJobOpensAScope, Inv, Past, [Next]_vars
  PROVE  Past'
<1>1. CASE Leaks
  BY <1>1, LeaksStay DEF Inv, Past
<1>2. CASE ~Leaks /\ ~Counting
  <2>1. CASE ModuleCounted
    <3>1. IsFiniteSet(RunningThreads)
      BY WithJobQueAssumption, FS_Subset DEF RunningThreads
    <3>2. Cardinality(RunningThreads) = 0
      BY <2>1 DEF ModuleCounted, Counted, Inv
    <3>3. RunningThreads = {}
      BY <3>1, <3>2, FS_EmptySet
    <3>4. module = "waiting" /\ UNCHANGED <<joining, thread>>
      BY <2>1 DEF ModuleCounted, scopeVars, threadVars
    <3>5. joining[Main] = Nil
      BY <3>4, WhoRuns DEF Inv, Inside, Actors
    <3>6. QED BY <3>3, <3>4, <3>5 DEF Past, RunningThreads
  <2>2. CASE ~ModuleCounted
    <3>1. module \in {"loaded", "waiting"}
      BY <1>2 DEF Counting, Inv, TypeOK
    <3>2. ASSUME NEW a \in Actors,
                 Enter(a) \/ ScopeStep(a) \/ Panic(a) \/ NewJobStep(a) \/ new_job_refused(a)
                 \/ (\E j \in Jobs : new_job_invoke(a, j))
                 \/ (\E t \in Spawned : new_thread_invoke(a, t))
          PROVE  module' = module
      BY <3>2 DEF Enter, ScopeStep, Create, Created, Copy, BlockEnd, DropEnd, Final, FinalEnd,
                  Panic, NewJobStep, new_job_read, new_job_push, new_job_refused,
                  new_job_invoke, new_thread_invoke, restVars
    <3>3. ASSUME NEW j \in Jobs, JobStep(j) PROVE module' = module
      BY <3>3 DEF JobStep, JobStart, JobEnd, restVars
    <3>4. ASSUME NEW t \in Spawned, ThreadStep(t) PROVE module' = module
      BY <3>4 DEF ThreadStep, ThreadEnd, ThreadTeardown
    <3>5. ModuleReset \/ ModuleGone => FALSE
      BY <3>1 DEF ModuleReset, ModuleGone
    <3>6. ModuleShutdown => module' = "waiting"
      BY DEF ModuleShutdown
    <3>7. module' = module \/ module' = "waiting"
      BY <2>2, <3>2, <3>3, <3>4, <3>5, <3>6 DEF Next, Stopped, ModuleStep, vars
    <3>8. QED BY <3>1, <3>7 DEF Past, Counting
  <2>3. QED BY <2>1, <2>2
<1>3. CASE ~Leaks /\ Counting
  <2>1. RunningThreads = {} /\ joining[Main] = Nil
    BY <1>3 DEF Past
  <2>2. g_jobQue = Nil /\ \A a \in Actors : ~Runs(a) /\ pc[a] = "out"
    BY <1>3, <2>1, NoJobRuns, Quiet
  <2>3. ASSUME NEW a \in Actors,
               Enter(a) \/ ScopeStep(a) \/ Panic(a) \/ new_job_refused(a)
               \/ (\E j \in Jobs : new_job_invoke(a, j))
               \/ (\E t \in Spawned : new_thread_invoke(a, t))
        PROVE  FALSE
    BY <2>2, <2>3 DEF Enter, ScopeStep, Create, Created, Copy, BlockEnd, DropEnd, Final, FinalEnd,
                Panic, new_job_refused, new_job_invoke, MayCallNewJob, new_thread_invoke
  <2>4. ASSUME NEW a \in Actors, NewJobStep(a) PROVE UNCHANGED <<joining, thread>>
    BY <2>4 DEF NewJobStep, new_job_read, new_job_push, scopeVars, threadVars
  <2>5. ASSUME NEW j \in Jobs, JobStep(j) PROVE UNCHANGED <<joining, thread>>
    BY <2>5 DEF JobStep, JobStart, JobEnd, scopeVars, restVars, threadVars
  <2>6. ASSUME NEW t \in Spawned, ThreadStep(t)
        PROVE  joining' = joining /\ RunningThreads' = {}
    <3>1. thread[t] # "run"
      BY <2>1 DEF RunningThreads
    <3>2. thread' = [thread EXCEPT ![t] = "ended"] /\ joining' = joining
      BY <2>6, <3>1 DEF ThreadStep, ThreadEnd, ThreadTeardown, scopeVars
    <3>3. QED BY <2>1, <3>2 DEF RunningThreads, Inv, TypeOK
  <2>8. CASE ModuleReset
    <3>1. joining'[Main] = Nil /\ thread' = thread
      BY <2>2, <2>8, DropNothing DEF ModuleReset, threadVars, Inv, TypeOK, Actors
    <3>2. QED BY <3>1, <2>1 DEF Past, RunningThreads
  <2>9. CASE ModuleGone
    <3>1. joining'[Main] = Nil /\ thread' = thread
      BY <2>9 DEF ModuleGone, threadVars, Inv, TypeOK, Actors
    <3>2. QED BY <3>1, <2>1 DEF Past, RunningThreads
  <2>10. CASE UNCHANGED <<joining, thread>>
    BY <2>1, <2>10 DEF Past, RunningThreads
  <2>11. CASE joining' = joining /\ RunningThreads' = {}
    BY <2>1, <2>11 DEF Past
  <2>12. ModuleShutdown \/ ModuleCounted \/ UNCHANGED vars => UNCHANGED <<joining, thread>>
    BY DEF ModuleShutdown, ModuleCounted, vars, scopeVars, threadVars
  <2>13. QED BY <2>3, <2>4, <2>5, <2>6, <2>8, <2>9, <2>10, <2>11, <2>12
             DEF Next, Stopped, ModuleStep
<1>4. QED BY <1>1, <1>2, <1>3

\* g_jobQueTotalThreads counts the lambdas of new_thread that run.  When the module has
\* seen it at zero, and no job opens scopes, no scope is open and no queue is left whose
\* jobs could start another thread, unless a panic has left one behind.
THEOREM ModuleIsLast == ASSUME NoJobOpensAScope PROVE Spec => []ModuleOutlivesThreads
<1>1. Init => Past
  BY DEF Init, Past, Counting
<1>2. Inv /\ Past /\ [Next]_vars => Past'
  BY NextPast
<1>3. Past => ModuleOutlivesThreads
  BY DEF Past, Counting, Leaks, RunningThreads, ModuleOutlivesThreads
<1>4. QED BY <1>1, <1>2, <1>3, Invariant, PTL DEF Spec

-----------------------------------------------------------------------------
(* Only Main opens scopes.                                                 *)

OnlyMainOpensScopes == ScopeUsers \subseteq {Main}

\* There is one queue at a time.  The scope holds it and the global pointer does, and
\* after a panic they go on with the queue that was left behind.
Solo ==
  /\ pc[Main] \in {"created", "copy", "block"} => g_jobQue # Nil
  /\ pc[Main] = "block" => jq[Main] = g_jobQue
  /\ pc[Main] = "create" => live = {}
  /\ \A q, r \in live : q = r
  /\ module \notin {"reset", "gone"} => \A q \in Queues : leaked[q] > 0 => g_jobQue = q
  /\ \A a \in Actors : callee[a] # Nil => callee[a] \in live

\* Nobody else is in a scope.
LEMMA Alone ==
  ASSUME OnlyMainOpensScopes, Inv
  PROVE  /\ Main \in Actors
         /\ \A a \in Actors : a # Main => pc[a] = "out" /\ jq[a] = Nil /\ joining[a] = Nil
         /\ \A a \in Actors : callee[a] # Nil => Runs(a) /\ (pc[a] = "block" \/ a \in Jobs)
         /\ pc[Main] # "out" => module = "loaded"
BY WhoRuns DEF OnlyMainOpensScopes, Actors, Inv, Inside, Forks

\* A queue is joined while nobody is about to push to it: such a caller is a job that runs.
LEMMA CalleesStay ==
  ASSUME OnlyMainOpensScopes, Inv, Solo, NEW a \in Actors, pc[a] # "block" \/ a # Main,
         pc[Main] # "block", JoinReturns(joining[a]), live' = live \ {joining[a]},
         callee' = callee
  PROVE  \A b \in Actors : callee'[b] # Nil => callee'[b] \in live'
<1> SUFFICES ASSUME NEW b \in Actors, callee[b] # Nil, joining[a] # Nil
             PROVE  callee[b] # joining[a]
  BY LiveQueues DEF Solo, Inv
<1>1. b \in Jobs /\ job[b].state = "running"
  BY Alone, WhoRuns
<1>2. job[b].que \in live /\ joining[a] \in live
  BY <1>1 DEF Inv, Referenced, Joined
<1>3. job[b].que = joining[a]
  BY <1>2 DEF Solo
<1>4. QED BY <1>1, <1>3 DEF JoinReturns

LEMMA ScopeSolo ==
  ASSUME OnlyMainOpensScopes, Inv, Solo, Enter(Main) \/ ScopeStep(Main) \/ Panic(Main)
  PROVE  Solo'
<1>1. /\ Main \in Actors
      /\ \A a \in Actors : a # Main => pc[a] = "out" /\ jq[a] = Nil /\ joining[a] = Nil
      /\ pc[Main] # "out" => module = "loaded"
      /\ pc \in [Actors -> Phases] /\ jq \in [Actors -> Queues \cup {Nil}]
      /\ leaked \in [Queues -> Nat] /\ live \subseteq Queues /\ Nil \notin live
  BY Alone, LiveQueues DEF Inv, TypeOK
<1>2. /\ pc[Main] \in {"created", "copy", "block"} => g_jobQue # Nil
      /\ pc[Main] = "block" => jq[Main] = g_jobQue
      /\ pc[Main] = "create" => live = {}
      /\ \A q, r \in live : q = r
      /\ module \notin {"reset", "gone"} => \A q \in Queues : leaked[q] > 0 => g_jobQue = q
      /\ \A a \in Actors : callee[a] # Nil => callee[a] \in live
  BY DEF Solo
<1>3. CASE Enter(Main)
  <2>1. pc[Main] = "out" /\ module = "loaded" /\ pc'[Main] = (IF g_jobQue = Nil THEN "create" ELSE "copy")
        /\ UNCHANGED <<g_jobQue, live, jq, leaked, callee, module>>
    BY <1>1, <1>3, WhoRuns DEF Enter, queueVars, restVars, newJobVars
  <2>2. ASSUME g_jobQue = Nil PROVE live = {}
    <3>1. \A b \in Actors : jq[b] = Nil /\ joining[b] = Nil
      BY <1>1, <2>1 DEF Inv, Inside
    <3>2. QED BY <3>1, <2>1, <2>2, <1>1, <1>2 DEF Inv, Owned
  <2>3. QED BY <2>1, <2>2, <1>2 DEF Solo
<1>4. CASE Create(Main)
  <2>1. /\ pc[Main] = "create" /\ pc'[Main] = "created" /\ g_jobQue' = created + 1
        /\ live' = live \cup {created + 1} /\ UNCHANGED <<leaked, callee, module>>
        /\ created + 1 \in Queues /\ created + 1 # Nil
    BY <1>1, <1>4, NilIsNoQueue, WithJobQueAssumption
       DEF Create, restVars, newJobVars, Inv, TypeOK, Queues
  <2>2. live' = {created + 1} /\ \A q \in Queues : ~(leaked[q] > 0)
    BY <2>1, <1>2 DEF Inv, Referenced
  <2>3. QED BY <2>1, <2>2, <1>2 DEF Solo
<1>5. CASE Created(Main) \/ DropEnd(Main) \/ FinalEnd(Main)
  <2>1. /\ pc[Main] # "block" /\ pc'[Main] \notin {"create", "created", "block"}
        /\ pc'[Main] = "copy" => pc[Main] = "created"
        /\ JoinReturns(joining[Main]) /\ live' = live \ {joining[Main]}
        /\ UNCHANGED <<g_jobQue, leaked, callee, module>>
    BY <1>1, <1>5 DEF Created, DropEnd, FinalEnd, Abandon, restVars, newJobVars
  <2>2. \A b \in Actors : callee'[b] # Nil => callee'[b] \in live'
    BY <2>1, <1>1, CalleesStay
  <2>3. QED BY <2>1, <2>2, <1>2 DEF Solo
<1>6. CASE Copy(Main) \/ BlockEnd(Main)
  <2>1. /\ pc'[Main] \in {"block", "dropped"}
        /\ pc'[Main] = "block" => pc[Main] = "copy" /\ jq'[Main] = g_jobQue
        /\ UNCHANGED <<g_jobQue, live, leaked, callee, module>>
    BY <1>1, <1>6 DEF Copy, BlockEnd, queueVars, restVars, newJobVars
  <2>2. QED BY <2>1, <1>2 DEF Solo
<1>7. CASE Final(Main)
  <2>1. /\ pc'[Main] = "reset"
        /\ g_jobQue' = g_jobQue \/ (Dropped(g_jobQue) # Nil /\ g_jobQue' = Nil)
        /\ UNCHANGED <<live, leaked, callee, module>>
    BY <1>1, <1>7 DEF Final, restVars, newJobVars
  <2>2. Dropped(g_jobQue) # Nil => g_jobQue # Nil /\ leaked[g_jobQue] = 0
    BY DropGlobal, DropNothing DEF Inv
  <2>3. module \notin {"reset", "gone"} => \A q \in Queues : leaked[q] > 0 => g_jobQue' = q
    BY <2>1, <2>2, <1>2
  <2>4. QED BY <2>1, <2>3, <1>2 DEF Solo
<1>8. CASE Panic(Main)
  <2>1. /\ pc'[Main] = "out" /\ pc[Main] = "block" /\ jq[Main] = g_jobQue /\ g_jobQue # Nil
        /\ g_jobQue \in Queues /\ leaked' = [leaked EXCEPT ![g_jobQue] = @ + 1]
        /\ UNCHANGED <<g_jobQue, live, callee, module>>
    BY <1>1, <1>2, <1>8 DEF Panic, queueVars, restVars, newJobVars
  <2>2. module' \notin {"reset", "gone"} => \A q \in Queues : leaked'[q] > 0 => g_jobQue' = q
    BY <2>1, <1>1, <1>2
  <2>3. QED BY <2>1, <2>2, <1>2 DEF Solo
<1>9. QED BY <1>3, <1>4, <1>5, <1>6, <1>7, <1>8 DEF ScopeStep

LEMMA NextSolo ==
  ASSUME OnlyMainOpensScopes, Inv, Solo, [Next]_vars
  PROVE  Solo'
<1>1. ASSUME NEW a \in Actors, Enter(a) \/ ScopeStep(a) \/ Panic(a) PROVE Solo'
  <2>1. a = Main
    BY <1>1, Alone DEF OnlyMainOpensScopes, Enter, ScopeStep, Create, Created, Copy, BlockEnd,
                       DropEnd, Final, FinalEnd, Panic
  <2>2. QED BY <1>1, <2>1, ScopeSolo
<1>2. ASSUME NEW a \in Actors, NewJobStep(a) PROVE Solo'
  <2>1. UNCHANGED <<g_jobQue, live, pc, jq, leaked, module>>
    BY <1>2 DEF NewJobStep, new_job_read, new_job_push, queueVars, scopeVars
  <2>2. callee' = [callee EXCEPT ![a] = g_jobQue] \/ callee' = [callee EXCEPT ![a] = Nil]
    BY <1>2 DEF NewJobStep, new_job_read, new_job_push
  <2>3. \A b \in Actors : callee'[b] # Nil => callee'[b] = callee[b] \/ callee'[b] = g_jobQue
    BY <2>2 DEF Inv, TypeOK
  <2>4. \A b \in Actors : callee'[b] # Nil => callee'[b] \in live
    BY <2>3 DEF Solo, Inv, Referenced
  <2>5. QED BY <2>1, <2>4 DEF Solo
<1>3. CASE ModuleReset
  <2>1. /\ pc[Main] = "out" /\ module' = "reset"
        /\ UNCHANGED <<live, pc, callee>>
    BY <1>3, Alone DEF ModuleReset, newJobVars
  <2>2. QED BY <2>1 DEF Solo
<1>4. CASE ModuleGone
  <2>1. /\ pc[Main] = "out" /\ module' = "gone" /\ Main \in Actors
        /\ JoinReturns(joining[Main]) /\ live' = live \ {joining[Main]}
        /\ UNCHANGED <<pc, callee>>
    BY <1>4, Alone DEF ModuleGone, Abandon, newJobVars
  <2>2. \A b \in Actors : callee'[b] # Nil => callee'[b] \in live'
    BY <2>1, CalleesStay
  <2>3. QED BY <2>1, <2>2 DEF Solo
<1>5. CASE UNCHANGED <<g_jobQue, live, pc, jq, leaked, callee>> /\ module \notin {"reset", "gone"}
  BY <1>5 DEF Solo
<1>6. CASE UNCHANGED <<g_jobQue, live, pc, jq, leaked, callee, module>>
  BY <1>6 DEF Solo
<1>7. ASSUME NEW a \in Actors, new_job_refused(a) \/ \E j \in Jobs : new_job_invoke(a, j)
      PROVE  UNCHANGED <<g_jobQue, live, pc, jq, leaked, callee, module>>
  BY <1>7 DEF new_job_refused, new_job_invoke, queueVars, scopeVars, newJobVars
<1>8. ASSUME NEW j \in Jobs, JobStep(j)
      PROVE  UNCHANGED <<g_jobQue, live, pc, jq, leaked, callee, module>>
  BY <1>8 DEF JobStep, JobStart, JobEnd, queueVars, scopeVars, restVars, newJobVars
<1>9. ASSUME NEW t \in Spawned, ThreadStep(t) \/ \E a \in Actors : new_thread_invoke(a, t)
      PROVE  UNCHANGED <<g_jobQue, live, pc, jq, leaked, callee, module>>
  BY <1>9 DEF new_thread_invoke, ThreadStep, ThreadEnd, ThreadTeardown, queueVars, scopeVars,
              newJobVars
<1>10. ModuleShutdown \/ ModuleCounted =>
         UNCHANGED <<g_jobQue, live, pc, jq, leaked, callee>> /\ module \notin {"reset", "gone"}
  BY DEF ModuleShutdown, ModuleCounted, queueVars, scopeVars, newJobVars
<1>11. UNCHANGED vars => UNCHANGED <<g_jobQue, live, pc, jq, leaked, callee, module>>
  BY DEF vars
<1>12. QED BY <1>1, <1>2, <1>3, <1>4, <1>5, <1>6, <1>7, <1>8, <1>9, <1>10, <1>11
           DEF Next, Stopped, ModuleStep

\* A queue is used, by the global pointer, by a scope, by a job and by new_job, only
\* while its destructor has not ended, when one thread opens the scopes: the destructor
\* waits for the jobs that run, and so for those that are about to push to the queue.
THEOREM NoQueueDangles == ASSUME OnlyMainOpensScopes PROVE Spec => []NoDanglingQueue
<1>1. Init => Solo
  BY DEF Init, Solo, Actors
<1>2. Inv /\ Solo /\ [Next]_vars => Solo'
  BY NextSolo
<1>3. Inv /\ Solo => NoDanglingQueue
  BY DEF Inv, Referenced, Solo, NoDanglingQueue
<1>4. QED BY <1>1, <1>2, <1>3, Invariant, PTL DEF Spec

\* While one thread uses with_job_que, there is a queue inside of the block.  With two
\* the promise is broken (run scope_two), so the hypothesis is needed.
THEOREM QueueIsThere == ASSUME OnlyMainOpensScopes PROVE Spec => []QueueInsideScope
<1>1. Init => Solo
  BY DEF Init, Solo, Actors
<1>2. Inv /\ Solo /\ [Next]_vars => Solo'
  BY NextSolo
<1>3. Inv /\ Solo => QueueInsideScope
  BY Alone DEF Solo, QueueInsideScope
<1>4. QED BY <1>1, <1>2, <1>3, Invariant, PTL DEF Spec
=============================================================================
