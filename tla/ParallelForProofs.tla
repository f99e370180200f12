-------------------------- MODULE ParallelForProofs --------------------------
(***************************************************************************)
(* EachIndexOnce and NoUseAfterDestroy of ParallelFor, for any workers,    *)
(* ranges, numbers of jobs and nested calls.                               *)
(*                                                                         *)
(* Two invariants of one scope carry the proof.  Counts: the notifications *)
(* and references that are outstanding are those of the jobs in the queue  *)
(* and in the hands of workers, and of the chunks still to be dispatched.  *)
(* Covered: up to a limit every index has been processed once, except for  *)
(* those in the disjoint intervals of jobs that have not run yet.          *)
(***************************************************************************)
EXTENDS ParallelFor, FiniteSetTheorems, FunctionTheorems, TLAPS

-----------------------------------------------------------------------------
(* The partitions.                                                         *)

LEMMA Sizes ==
  ASSUME NEW s \in Scopes, ~nothingToDo(s)
  PROVE  /\ total(s) \in Nat \ {0} /\ range_end[s] = range_begin[s] + total(s)
         /\ actual_jobs(s) \in Nat \ {0} /\ actual_jobs(s) <= total(s)
         /\ range_begin[s] \in Int /\ range_end[s] \in Int
<1>1. range_begin[s] \in Int /\ range_end[s] \in Int /\ num_jobs[s] \in Int
  BY ParallelForAssumption
<1>2. total(s) \in Nat \ {0} /\ range_end[s] = range_begin[s] + total(s) /\ num_jobs[s] > 0
  BY <1>1 DEF nothingToDo, total
<1>3. QED BY <1>1, <1>2 DEF actual_jobs

\* Division as _parallel_for uses it.
LEMMA Division ==
  ASSUME NEW t \in Nat \ {0}, NEW n \in Nat \ {0}, n <= t
  PROVE  /\ t \div n \in Nat \ {0} /\ t % n \in 0 .. n - 1
         /\ n * (t \div n) + (t % n) = t
<1>1. t % n = t - n * (t \div n)
  OBVIOUS
<1>2. t \div n \in Nat
  OBVIOUS
<1>3. t % n \in 0 .. n - 1
  OBVIOUS
<1>4. t \div n # 0
  <2>1. t - n * (t \div n) <= n - 1
    BY <1>1, <1>3
  <2>2. t \div n = 0 => n * (t \div n) = 0
    OBVIOUS
  <2>3. QED BY <2>1, <2>2
<1> DEFINE q == t \div n
           r == t % n
<1>5. r = t - n * q /\ q \in Nat /\ r \in Int
  BY <1>1, <1>2, <1>3
<1> HIDE DEF q, r
<1>6. n * q + r = t
  BY <1>5
<1>7. n * (t \div n) + (t % n) = t
  BY <1>6 DEF q, r
<1>8. QED BY <1>2, <1>3, <1>4, <1>7

\* Where chunk i of a scope begins: the first chunks are one index longer.
OffsetAt(s, i, o) ==
  LET q == total(s) \div actual_jobs(s)
      r == total(s) % actual_jobs(s)
  IN  /\ i <= r => o = range_begin[s] + i * q + i
      /\ i >= r => o = range_begin[s] + i * q + r

LEMMA OffsetFirst ==
  ASSUME NEW s \in Scopes, ~nothingToDo(s)
  PROVE  OffsetAt(s, 0, range_begin[s])
<1> DEFINE q == total(s) \div actual_jobs(s)
           r == total(s) % actual_jobs(s)
<1>1. q \in Nat /\ r \in Nat /\ range_begin[s] \in Int
  BY Sizes, Division
<1> HIDE DEF q, r
<1>2. 0 * q = 0
  BY <1>1
<1>3. QED BY <1>1, <1>2 DEF OffsetAt, q, r

LEMMA OffsetNext ==
  ASSUME NEW s \in Scopes, ~nothingToDo(s), NEW i \in Nat, i < actual_jobs(s),
         NEW o \in Int, OffsetAt(s, i, o)
  PROVE  /\ OffsetAt(s, i + 1, o + this_chunk(s, i))
         /\ this_chunk(s, i) \in Nat \ {0}
<1> DEFINE q == total(s) \div actual_jobs(s)
           r == total(s) % actual_jobs(s)
           c == this_chunk(s, i)
<1>1. q \in Nat \ {0} /\ r \in Nat /\ range_begin[s] \in Int
  BY Sizes, Division
<1>2. /\ i <= r => o = range_begin[s] + i * q + i
      /\ i >= r => o = range_begin[s] + i * q + r
  BY DEF OffsetAt
<1>3. (i < r => c = q + 1) /\ (i >= r => c = q)
  BY <1>1 DEF this_chunk
<1> HIDE DEF q, r, c
<1> DEFINE p == i * q
<1>4. (i + 1) * q = p + q /\ p \in Int
  BY <1>1
<1>5. /\ i <= r => o = range_begin[s] + p + i
      /\ i >= r => o = range_begin[s] + p + r
  BY <1>2
<1> HIDE DEF p
<1>6. /\ i + 1 <= r => o + c = range_begin[s] + (i + 1) * q + (i + 1)
      /\ i + 1 >= r => o + c = range_begin[s] + (i + 1) * q + r
  BY <1>1, <1>3, <1>4, <1>5
<1>7. c \in Nat \ {0}
  BY <1>1, <1>3
<1>8. QED BY <1>6, <1>7 DEF OffsetAt, q, r, c

\* The chunks leave nothing over.
LEMMA OffsetLast ==
  ASSUME NEW s \in Scopes, ~nothingToDo(s), NEW o \in Int, OffsetAt(s, actual_jobs(s), o)
  PROVE  o = range_end[s]
<1> DEFINE n == actual_jobs(s)
           q == total(s) \div n
           r == total(s) % n
<1>1. /\ q \in Nat \ {0} /\ r \in 0 .. n - 1 /\ n * q + r = total(s)
      /\ n \in Nat \ {0} /\ range_begin[s] \in Int /\ range_end[s] = range_begin[s] + total(s)
  BY Sizes, Division
<1>2. n >= r => o = range_begin[s] + n * q + r
  BY DEF OffsetAt
<1> HIDE DEF n, q, r
<1>3. n * q \in Int
  BY <1>1
<1>4. QED BY <1>1, <1>2, <1>3

LEMMA MaxOfTwo ==
  ASSUME NEW a \in Int, NEW b \in Int
  PROVE  Max({a, b}) \in {a, b} /\ Max({a, b}) >= a /\ Max({a, b}) >= b
BY DEF Max

\* JobQue::parallel_for: the chunks of the pool lie inside of the range.
LEMMA NativeSizes ==
  ASSUME NEW s \in Native, ~nothingToDo(s), numChunks(s) > 1
  PROVE  /\ step(s) \in Nat \ {0} /\ onThreads(s) \in Nat
         /\ onThreads(s) * step(s) \in Nat /\ onThreads(s) * step(s) <= total(s)
<1> DEFINE t == total(s)
           k == step(s)
           n == numChunks(s)
           m == mThreadCount
           a == (t + 1) \div num_jobs[s]
           b == (n + m) \div (m + 1)
<1>1. s \in Scopes /\ t \in Nat \ {0} /\ num_jobs[s] \in Nat \ {0} /\ min_step[s] \in Nat \ {0}
  BY Sizes, ParallelForAssumption
<1>2. a \in Int /\ k = Max({a, min_step[s]})
  BY <1>1 DEF step
<1>3. n = (t + k) \div k
  BY DEF numChunks
<1> HIDE DEF a, k, t, n
<1>4. k \in Nat \ {0}
  <2>1. a \in Int /\ min_step[s] \in Int
    BY <1>1, <1>2
  <2>2. Max({a, min_step[s]}) \in {a, min_step[s]} /\ Max({a, min_step[s]}) >= min_step[s]
    BY <2>1, MaxOfTwo
  <2>3. QED BY <1>1, <1>2, <2>2
<1>5. n = t \div k + 1
  BY <1>1, <1>3, <1>4
<1>6. t \div k \in Nat /\ (t \div k) * k <= t
  BY <1>1, <1>4
<1>7. m \in Nat \ {0}
  <2>1. Cardinality(Workers) \in Nat
    BY ParallelForAssumption, FS_CardinalityType
  <2>2. Cardinality(Workers) # 0
    BY ParallelForAssumption, FS_EmptySet
  <2>3. QED BY <2>1, <2>2 DEF mThreadCount
<1>8. n \in Nat /\ n > 1
  BY <1>5, <1>6 DEF n
<1>9. b \in Int /\ b <= n
  BY <1>7, <1>8
<1>10. onMainThread(s) = Max({b, 1})
  BY DEF onMainThread, n
<1>11. onMainThread(s) \in {b, 1} /\ onMainThread(s) >= 1
  BY <1>9, <1>10, MaxOfTwo
<1>12. onThreads(s) \in Nat /\ onThreads(s) <= t \div k
  BY <1>5, <1>6, <1>8, <1>9, <1>11 DEF onThreads, n
<1>13. onThreads(s) * k \in Nat /\ onThreads(s) * k <= (t \div k) * k
  BY <1>4, <1>6, <1>12
<1>14. onThreads(s) * k <= t
  BY <1>1, <1>4, <1>6, <1>13
<1>15. QED BY <1>4, <1>12, <1>13, <1>14 DEF t, k

-----------------------------------------------------------------------------
(* The jobs that have not notified yet: in the queue or in a worker.       *)

At(q, s) == {i \in DOMAIN q : q[i].scope = s}

HeldBy(c, s) == {w \in Workers : c[w] # NoJob /\ c[w].scope = s}

Outstanding(q, c, s) == Cardinality(At(q, s)) + Cardinality(HeldBy(c, s))

LEMMA Finite ==
  ASSUME NEW q \in Seq(JobRecords), NEW c, NEW s
  PROVE  /\ IsFiniteSet(At(q, s)) /\ IsFiniteSet(HeldBy(c, s))
         /\ Cardinality(At(q, s)) \in Nat /\ Cardinality(HeldBy(c, s)) \in Nat
<1>1. IsFiniteSet(DOMAIN q)
  <2>1. DOMAIN q = 1 .. Len(q) /\ Len(q) \in Nat
    OBVIOUS
  <2>2. QED BY <2>1, FS_Interval
<1>2. At(q, s) \subseteq DOMAIN q /\ HeldBy(c, s) \subseteq Workers
  BY DEF At, HeldBy
<1>3. IsFiniteSet(At(q, s)) /\ IsFiniteSet(HeldBy(c, s))
  BY <1>1, <1>2, FS_Subset, ParallelForAssumption
<1>4. QED BY <1>3, FS_CardinalityType

\* A job is pushed.
LEMMA AtAppend ==
  ASSUME NEW q \in Seq(JobRecords), NEW j \in JobRecords, NEW s
  PROVE  /\ s = j.scope => Cardinality(At(Append(q, j), s)) = Cardinality(At(q, s)) + 1
         /\ s # j.scope => At(Append(q, j), s) = At(q, s)
<1> DEFINE r == Append(q, j)
           n == Len(q)
<1>1. n \in Nat /\ DOMAIN q = 1..n /\ DOMAIN r = 1..(n + 1) /\ r[n + 1] = j
      /\ \A i \in 1..n : r[i] = q[i]
  OBVIOUS
<1> HIDE DEF r, n
<1>2. n + 1 \in 1..(n + 1) /\ n + 1 \notin 1..n /\ \A i \in 1..(n + 1) : i \in 1..n \/ i = n + 1
  BY <1>1
<1>3. n + 1 \notin At(q, s)
  BY <1>1, <1>2 DEF At
<1>4. CASE s = j.scope
  <2>1. At(r, s) = At(q, s) \cup {n + 1}
    BY <1>1, <1>2, <1>4 DEF At
  <2>2. Cardinality(At(q, s) \cup {n + 1}) = Cardinality(At(q, s)) + 1
    BY <1>3, Finite, FS_AddElement
  <2>3. QED BY <2>1, <2>2, <1>4 DEF r
<1>5. CASE s # j.scope
  <2>1. At(r, s) = At(q, s)
    BY <1>1, <1>2, <1>5 DEF At
  <2>2. QED BY <2>1, <1>5 DEF r
<1>6. QED BY <1>4, <1>5

\* All jobs of a scope that had none are pushed at once.
LEMMA AtConcat ==
  ASSUME NEW q \in Seq(JobRecords), NEW r \in Seq(JobRecords), NEW t, NEW s,
         \A i \in DOMAIN r : r[i].scope = t, At(q, t) = {}
  PROVE  /\ Cardinality(At(q \o r, t)) = Len(r)
         /\ s # t => At(q \o r, s) = At(q, s)
<1> DEFINE c == q \o r
           n == Len(q)
           m == Len(r)
<1>1. n \in Nat /\ m \in Nat /\ DOMAIN q = 1..n /\ DOMAIN r = 1..m /\ DOMAIN c = 1..(n + m)
  OBVIOUS
<1>2. (\A i \in 1..n : c[i] = q[i]) /\ \A i \in (n + 1)..(n + m) : c[i] = r[i - n]
  OBVIOUS
<1> HIDE DEF c, n, m
<1>3. \A i \in 1..(n + m) : i \in 1..n \/ i \in (n + 1)..(n + m)
  BY <1>1
<1>4. \A i \in (n + 1)..(n + m) : i \in 1..(n + m) /\ i - n \in 1..m
  BY <1>1
<1>5. \A i \in (n + 1)..(n + m) : c[i].scope = t
  BY <1>1, <1>2, <1>4
<1>6. \A i \in 1..n : i \in 1..(n + m)
  BY <1>1
<1>7. At(c, t) = (n + 1)..(n + m)
  <2>1. \A i \in 1..n : c[i].scope # t
    BY <1>1, <1>2 DEF At
  <2>2. QED BY <2>1, <1>1, <1>3, <1>4, <1>5 DEF At
<1>8. Cardinality((n + 1)..(n + m)) = m
  BY <1>1, FS_Interval
<1>9. s # t => At(c, s) = At(q, s)
  BY <1>1, <1>2, <1>3, <1>5, <1>6 DEF At
<1>10. QED BY <1>7, <1>8, <1>9 DEF c, m

\* The front is taken: every other entry moves up by one.
LEMMA AtTail ==
  ASSUME NEW q \in Seq(JobRecords), q # <<>>, NEW s
  PROVE  /\ s = Head(q).scope => Cardinality(At(Tail(q), s)) = Cardinality(At(q, s)) - 1
         /\ s # Head(q).scope => Cardinality(At(Tail(q), s)) = Cardinality(At(q, s))
<1> DEFINE r == Tail(q)
           n == Len(q)
<1>1. n \in Nat \ {0} /\ DOMAIN q = 1..n /\ DOMAIN r = 1..(n - 1) /\ Head(q) = q[1]
      /\ r \in Seq(JobRecords)
  OBVIOUS
<1>2. \A i \in 1..(n - 1) : r[i] = q[i + 1]
  OBVIOUS
<1> HIDE DEF r, n
<1> DEFINE Rest == At(q, s) \ {1}
           f == [i \in At(r, s) |-> i + 1]
<1>3. \A i \in At(r, s) : i \in 1..(n - 1) /\ i + 1 \in Rest
  BY <1>1, <1>2 DEF At
<1>4. \A k \in Rest : k - 1 \in At(r, s) /\ (k - 1) + 1 = k
  <2>1. ASSUME NEW k \in Rest PROVE k - 1 \in At(r, s) /\ (k - 1) + 1 = k
    <3>1. k \in 1..n /\ k # 1 /\ q[k].scope = s
      BY <1>1 DEF At
    <3>2. k - 1 \in 1..(n - 1) /\ (k - 1) + 1 = k
      BY <3>1, <1>1
    <3>3. QED BY <3>1, <3>2, <1>1, <1>2 DEF At
  <2>2. QED BY <2>1
<1>5. f \in Bijection(At(r, s), Rest)
  <2>1. f \in [At(r, s) -> Rest]
    BY <1>3
  <2>2. \A i, k \in At(r, s) : f[i] = f[k] => i = k
    BY <1>3
  <2>3. \A k \in Rest : \E i \in At(r, s) : f[i] = k
    BY <1>4
  <2>4. QED BY <2>1, <2>2, <2>3, Fun_IsBij
<1>6. Cardinality(At(r, s)) = Cardinality(Rest)
  BY <1>1, <1>5, Finite, FS_Bijection, Fun_ExistsBij
<1>7. 1 \in At(q, s) <=> q[1].scope = s
  BY <1>1 DEF At
<1>8. CASE s = Head(q).scope
  BY <1>1, <1>6, <1>7, <1>8, Finite, FS_RemoveElement DEF r
<1>9. CASE s # Head(q).scope
  <2>1. Rest = At(q, s)
    BY <1>1, <1>7, <1>9
  <2>2. QED BY <2>1, <1>6, <1>9 DEF r
<1>10. QED BY <1>8, <1>9

\* A worker takes a job, or lets go of it.
LEMMA HeldTaken ==
  ASSUME NEW c \in [Workers -> JobRecords \cup {NoJob}], NEW w \in Workers, c[w] = NoJob,
         NEW j \in JobRecords, NEW s
  PROVE  LET d == [c EXCEPT ![w] = j] IN
         /\ s = j.scope => Cardinality(HeldBy(d, s)) = Cardinality(HeldBy(c, s)) + 1
         /\ s # j.scope => HeldBy(d, s) = HeldBy(c, s)
<1> DEFINE d == [c EXCEPT ![w] = j]
<1>1. d[w] = j /\ j # NoJob /\ w \notin HeldBy(c, s) /\ \A v \in Workers : v # w => d[v] = c[v]
  BY NoJobAssumption DEF HeldBy
<1> HIDE DEF d
<1>2. CASE s = j.scope
  <2>1. HeldBy(d, s) = HeldBy(c, s) \cup {w}
    BY <1>1, <1>2 DEF HeldBy
  <2>2. IsFiniteSet(HeldBy(c, s))
    BY FS_Subset, ParallelForAssumption DEF HeldBy
  <2>3. QED BY <2>1, <2>2, <1>1, <1>2, FS_AddElement DEF d
<1>3. CASE s # j.scope
  <2>1. HeldBy(d, s) = HeldBy(c, s)
    BY <1>1, <1>3 DEF HeldBy
  <2>2. QED BY <2>1, <1>3 DEF d
<1>4. QED BY <1>2, <1>3

LEMMA HeldDropped ==
  ASSUME NEW c \in [Workers -> JobRecords \cup {NoJob}], NEW w \in Workers, c[w] # NoJob, NEW s
  PROVE  LET d == [c EXCEPT ![w] = NoJob] IN
         /\ s = c[w].scope => Cardinality(HeldBy(d, s)) = Cardinality(HeldBy(c, s)) - 1
         /\ s # c[w].scope => HeldBy(d, s) = HeldBy(c, s)
<1> DEFINE d == [c EXCEPT ![w] = NoJob]
<1>1. d[w] = NoJob /\ \A v \in Workers : v # w => d[v] = c[v]
  OBVIOUS
<1> HIDE DEF d
<1>2. CASE s = c[w].scope
  <2>1. HeldBy(d, s) = HeldBy(c, s) \ {w} /\ w \in HeldBy(c, s)
    BY <1>1, <1>2 DEF HeldBy
  <2>2. IsFiniteSet(HeldBy(c, s))
    BY FS_Subset, ParallelForAssumption DEF HeldBy
  <2>3. QED BY <2>1, <2>2, <1>2, FS_RemoveElement DEF d
<1>3. CASE s # c[w].scope
  <2>1. HeldBy(d, s) = HeldBy(c, s)
    BY <1>1, <1>3 DEF HeldBy
  <2>2. QED BY <2>1, <1>3 DEF d
<1>4. QED BY <1>2, <1>3

-----------------------------------------------------------------------------
(* Types.                                                                  *)

TypeInv ==
  /\ stage \in [Scopes -> Stages]
  /\ next_chunk \in [Scopes -> Nat]
  /\ offset \in [Scopes -> Int]
  /\ mRemaining \in [Scopes -> Int]
  /\ mRef \in [Scopes -> Int]
  /\ visited = [s \in Scopes |-> visited[s]]
  /\ queue \in Seq(JobRecords)
  /\ cur \in [Workers -> JobRecords \cup {NoJob}]
  /\ wpc \in [Workers -> {"idle", "body", "notify", "done"}]
  /\ \A w \in Workers : cur[w] = NoJob <=> wpc[w] = "idle"
  /\ \A s \in Scopes :
       /\ stage[s] \in {"dispatch", "own", "join", "joined"} => ~nothingToDo(s)
       /\ stage[s] = "dispatch" => s \notin Native
       /\ stage[s] = "own" => s \in Native /\ numChunks(s) > 1

LEMMA TypeInit == Init => TypeInv
<1> SUFFICES ASSUME Init PROVE TypeInv
  OBVIOUS
<1>1. range_begin \in [Scopes -> Int]
  BY ParallelForAssumption
<1>2. visited = [s \in Scopes |-> visited[s]]
  BY DEF Init
<1>3. QED BY <1>1, <1>2 DEF Init, TypeInv, Stages

\* The chunk that Dispatch pushes.
LEMMA DispatchedJob ==
  ASSUME TypeInv, NEW s \in Scopes, Dispatch(s)
  PROVE  /\ this_chunk(s, next_chunk[s]) \in Nat
         /\ [scope |-> s, chunk |-> next_chunk[s], job_begin |-> offset[s],
             job_end |-> offset[s] + this_chunk(s, next_chunk[s])] \in JobRecords
<1>1. next_chunk[s] \in Nat /\ offset[s] \in Int
  BY DEF TypeInv
<1> ~nothingToDo(s)
  BY DEF TypeInv, Dispatch
<1>2. total(s) \div actual_jobs(s) \in Nat /\ total(s) % actual_jobs(s) \in Int
  BY Sizes, Division
<1>3. this_chunk(s, next_chunk[s]) \in Nat
  BY <1>1, <1>2 DEF this_chunk
<1>4. QED BY <1>1, <1>3 DEF JobRecords

\* The chunks that Submit pushes.
Batch(s) == [c \in 1 .. onThreads(s) |->
  [scope |-> s, chunk |-> c - 1, job_begin |-> range_begin[s] + (c - 1) * step(s),
   job_end |-> range_begin[s] + c * step(s)]]

LEMMA SubmittedJobs ==
  ASSUME NEW s \in Native, ~nothingToDo(s), numChunks(s) > 1
  PROVE  /\ Batch(s) \in Seq(JobRecords) /\ Len(Batch(s)) = onThreads(s)
         /\ \A c \in 1 .. onThreads(s) :
              /\ Batch(s)[c].scope = s /\ Batch(s)[c].chunk = c - 1
              /\ Batch(s)[c].job_begin = range_begin[s] + (c - 1) * step(s)
              /\ Batch(s)[c].job_end = range_begin[s] + c * step(s)
<1>1. s \in Scopes /\ range_begin[s] \in Int /\ step(s) \in Nat /\ onThreads(s) \in Nat
  BY NativeSizes, ParallelForAssumption
<1>2. \A c \in 1 .. onThreads(s) : Batch(s)[c] \in JobRecords
  <2>1. SUFFICES ASSUME NEW c \in 1 .. onThreads(s) PROVE Batch(s)[c] \in JobRecords
    OBVIOUS
  <2>2. c \in Int /\ c - 1 \in Nat
    BY <1>1
  <2>3. (c - 1) * step(s) \in Int /\ c * step(s) \in Int
    BY <2>2, <1>1
  <2>4. QED BY <1>1, <2>2, <2>3 DEF Batch, JobRecords
<1>3. Batch(s) \in [1 .. onThreads(s) -> JobRecords]
  BY <1>2 DEF Batch
<1>4. Batch(s) \in Seq(JobRecords) /\ Len(Batch(s)) = onThreads(s)
  BY <1>1, <1>3
<1>5. QED BY <1>4 DEF Batch

\* What Process leaves alone.
LEMMA Processed ==
  ASSUME NEW s \in Scopes, NEW from, NEW to, Process(s, from, to),
         visited = [x \in Scopes |-> visited[x]]
  PROVE  /\ visited' = [x \in Scopes |-> visited'[x]]
         /\ visited'[s] = [x \in DOMAIN visited[s] |->
                             IF x \in from .. to - 1 THEN visited[s][x] + 1 ELSE visited[s][x]]
         /\ \A t \in Scopes : t # s => visited'[t] = visited[t]
BY DEF Process

LEMMA TypeStep == TypeInv /\ [Next]_vars => TypeInv'
<1> SUFFICES ASSUME TypeInv, [Next]_vars PROVE TypeInv'
  OBVIOUS
<1> USE DEF callerVars, statusVars, channelVars
<1>1. CASE UNCHANGED vars
  BY <1>1 DEF vars, TypeInv
<1>2. ASSUME NEW s \in Scopes, CallerStep(s) PROVE TypeInv'
  <2>1. CASE EnterNothing(s)
    BY <2>1 DEF EnterNothing, TypeInv, Stages
  <2>2. CASE Enter(s)
    <3>1. actual_jobs(s) \in Int
      BY <2>2, Sizes DEF Enter
    <3>2. QED BY <2>2, <3>1 DEF Enter, TypeInv, Stages
  <2>3. CASE Dispatch(s)
    <3> DEFINE j == [scope |-> s, chunk |-> next_chunk[s], job_begin |-> offset[s],
                     job_end |-> offset[s] + this_chunk(s, next_chunk[s])]
    <3>1. this_chunk(s, next_chunk[s]) \in Nat /\ j \in JobRecords
      BY <2>3, DispatchedJob
    <3>2. /\ queue' = Append(queue, j)
          /\ offset' = [offset EXCEPT ![s] = offset[s] + this_chunk(s, next_chunk[s])]
          /\ next_chunk' = [next_chunk EXCEPT ![s] = next_chunk[s] + 1]
          /\ mRef' = [mRef EXCEPT ![s] = @ + 1]
          /\ UNCHANGED <<stage, mRemaining, visited, cur, wpc>>
      BY <2>3 DEF Dispatch
    <3> HIDE DEF j
    <3>3. queue' \in Seq(JobRecords)
      BY <3>1, <3>2 DEF TypeInv
    <3>4. QED BY <3>1, <3>2, <3>3 DEF TypeInv
  <2>4. CASE Join(s)
    BY <2>4 DEF Join, TypeInv, Stages
  <2>5. CASE RunWhole(s)
    <3>1. visited' = [x \in Scopes |-> visited'[x]]
      BY <2>5, Processed DEF RunWhole, TypeInv
    <3>2. QED BY <2>5, <3>1 DEF RunWhole, TypeInv, Stages
  <2>6. CASE Submit(s)
    <3>1. s \in Native /\ ~nothingToDo(s) /\ numChunks(s) > 1
      BY <2>6 DEF Submit
    <3>2. Batch(s) \in Seq(JobRecords) /\ onThreads(s) \in Int
      BY <3>1, SubmittedJobs, NativeSizes
    <3>3. queue' = queue \o Batch(s)
      BY <2>6 DEF Submit, Batch
    <3>4. queue' \in Seq(JobRecords)
      BY <3>2, <3>3 DEF TypeInv
    <3>5. QED BY <2>6, <3>1, <3>2, <3>4 DEF Submit, TypeInv, Stages
  <2>7. CASE OwnChunk(s)
    <3>1. visited' = [x \in Scopes |-> visited'[x]]
      BY <2>7, Processed DEF OwnChunk, TypeInv
    <3>2. QED BY <2>7, <3>1 DEF OwnChunk, TypeInv, Stages
  <2>8. CASE WaitReturns(s)
    BY <2>8 DEF WaitReturns, TypeInv, Stages
  <2>9. CASE Destroy(s)
    BY <2>9 DEF Destroy, TypeInv, Stages
  <2>10. QED BY <1>2, <2>1, <2>2, <2>3, <2>4, <2>5, <2>6, <2>7, <2>8, <2>9 DEF CallerStep
<1>3. ASSUME NEW w \in Workers, WorkerStep(w) PROVE TypeInv'
  <2>1. CASE Start(w)
    <3>1. Head(queue) \in JobRecords /\ Tail(queue) \in Seq(JobRecords) /\ Head(queue) # NoJob
      BY <2>1, NoJobAssumption DEF Start, TypeInv
    <3>2. QED BY <2>1, <3>1 DEF Start, TypeInv
  <2>2. CASE Body(w)
    <3>1. cur[w] \in JobRecords
      BY <2>2 DEF Body, TypeInv
    <3>2. cur[w].scope \in Scopes
      BY <3>1 DEF JobRecords
    <3>3. visited' = [x \in Scopes |-> visited'[x]]
      BY <2>2, <3>2, Processed DEF Body, TypeInv
    <3>4. QED BY <2>2, <3>3 DEF Body, TypeInv
  <2>3. CASE NotifyChannel(w)
    BY <2>3 DEF NotifyChannel, TypeInv
  <2>4. CASE NotifyAndRelease(w)
    <3>1. cur[w] \in JobRecords /\ cur[w].scope \in Scopes
      BY <2>4 DEF NotifyAndRelease, TypeInv, JobRecords
    <3>2. mRemaining' \in [Scopes -> Int] /\ mRef' \in [Scopes -> Int]
      BY <2>4, <3>1 DEF NotifyAndRelease, TypeInv
    <3>3. /\ cur' \in [Workers -> JobRecords \cup {NoJob}]
          /\ wpc' \in [Workers -> {"idle", "body", "notify", "done"}]
          /\ \A v \in Workers : cur'[v] = NoJob <=> wpc'[v] = "idle"
      BY <2>4 DEF NotifyAndRelease, TypeInv
    <3>4. UNCHANGED <<stage, next_chunk, offset, visited, queue>>
      BY <2>4 DEF NotifyAndRelease
    <3>5. QED BY <3>2, <3>3, <3>4 DEF TypeInv
  <2>5. CASE Notify(w)
    <3>1. cur[w] \in JobRecords /\ cur[w].scope \in Scopes
      BY <2>5 DEF Notify, TypeInv, JobRecords
    <3>2. mRemaining' \in [Scopes -> Int] /\ mRef' \in [Scopes -> Int]
      BY <2>5, <3>1 DEF Notify, TypeInv
    <3>3. /\ cur' \in [Workers -> JobRecords \cup {NoJob}]
          /\ wpc' \in [Workers -> {"idle", "body", "notify", "done"}]
          /\ \A v \in Workers : cur'[v] = NoJob <=> wpc'[v] = "idle"
      BY <2>5 DEF Notify, TypeInv
    <3>4. UNCHANGED <<stage, next_chunk, offset, visited, queue>>
      BY <2>5 DEF Notify
    <3>5. QED BY <3>2, <3>3, <3>4 DEF TypeInv
  <2>6. QED BY <1>3, <2>1, <2>2, <2>3, <2>4, <2>5 DEF WorkerStep
<1>4. CASE ConsumerEnds
  BY <1>4 DEF ConsumerEnds, TypeInv
<1>5. QED BY <1>1, <1>2, <1>3, <1>4 DEF Next, Finished

-----------------------------------------------------------------------------
(* The status of a scope knows its jobs.                                   *)

\* The scope's stage, its status and its loop variable against the number of its
\* jobs that are outstanding.
Counts(s, st, rem, ref, nxt, out) ==
  /\ st = "new" => out = 0 /\ ref = 0 /\ nxt = 0
  /\ st = "dispatch" => /\ nxt <= actual_jobs(s)
                        /\ rem = out + actual_jobs(s) - nxt
                        /\ ref = 1 + out
  /\ st = "own" => rem = out /\ ref = 0
  /\ st = "join" => rem = out
  /\ st = "joined" => out = 0
  /\ st \in {"join", "joined"} => /\ s \in Native => ref = 0
                                  /\ s \notin Native => ref = 1 + out
  /\ st = "gone" => out = 0

CountsInv ==
  \A s \in Scopes :
    Counts(s, stage[s], mRemaining[s], mRef[s], next_chunk[s], Outstanding(queue, cur, s))

\* A step that leaves the scope alone.
SameCounts(s) ==
  /\ stage'[s] = stage[s] /\ mRemaining'[s] = mRemaining[s] /\ mRef'[s] = mRef[s]
  /\ next_chunk'[s] = next_chunk[s]
  /\ Outstanding(queue', cur', s) = Outstanding(queue, cur, s)

LEMMA CountsFrame ==
  ASSUME CountsInv, NEW s \in Scopes, SameCounts(s)
  PROVE  Counts(s, stage'[s], mRemaining'[s], mRef'[s], next_chunk'[s],
                Outstanding(queue', cur', s))
BY DEF CountsInv, SameCounts

\* A step of scope s that leaves the other scopes alone.
LEMMA CountsFrom ==
  ASSUME CountsInv, NEW s \in Scopes, \A t \in Scopes : t # s => SameCounts(t),
         Counts(s, stage'[s], mRemaining'[s], mRef'[s], next_chunk'[s],
                Outstanding(queue', cur', s))
  PROVE  CountsInv'
BY CountsFrame DEF CountsInv

LEMMA CountsInit == Init => CountsInv
<1> SUFFICES ASSUME Init, NEW s \in Scopes
             PROVE  Counts(s, stage[s], mRemaining[s], mRef[s], next_chunk[s],
                           Outstanding(queue, cur, s))
  BY DEF CountsInv
<1>1. At(queue, s) = {} /\ HeldBy(cur, s) = {}
  BY DEF Init, At, HeldBy
<1>2. Outstanding(queue, cur, s) = 0
  BY <1>1, FS_EmptySet DEF Outstanding
<1>3. QED BY <1>2 DEF Init, Counts

\* The steps of a caller that move no job.
LEMMA CountsQuiet ==
  ASSUME TypeInv, CountsInv, NEW s \in Scopes,
         \/ EnterNothing(s) \/ Enter(s) \/ Join(s) \/ RunWhole(s) \/ OwnChunk(s)
         \/ WaitReturns(s) \/ Destroy(s)
  PROVE  CountsInv'
<1> DEFINE out == Outstanding(queue, cur, s)
<1>1. queue' = queue /\ cur' = cur
  BY DEF EnterNothing, Enter, Join, RunWhole, OwnChunk, WaitReturns, Destroy
<1>2. \A t \in Scopes : Outstanding(queue', cur', t) = Outstanding(queue, cur, t)
  BY <1>1
<1>3. out \in Nat
  BY Finite DEF Outstanding, TypeInv
<1>4. Counts(s, stage[s], mRemaining[s], mRef[s], next_chunk[s], out)
  BY DEF CountsInv
<1>5. Outstanding(queue', cur', s) = out
  BY <1>2
<1> HIDE DEF out
<1> USE DEF TypeInv, statusVars, callerVars
<1>6. ASSUME NEW t \in Scopes, t # s PROVE SameCounts(t)
  BY <1>2, <1>6
  DEF SameCounts, EnterNothing, Enter, Join, RunWhole, OwnChunk, WaitReturns, Destroy
<1>7. Counts(s, stage'[s], mRemaining'[s], mRef'[s], next_chunk'[s], out)
  <2>1. CASE EnterNothing(s)
    BY <1>3, <1>4, <2>1 DEF Counts, EnterNothing
  <2>2. CASE Enter(s)
    <3>1. actual_jobs(s) \in Nat
      BY <2>2, Sizes DEF Enter
    <3>2. QED BY <1>3, <1>4, <2>2, <3>1 DEF Counts, Enter
  <2>3. CASE Join(s)
    <3>1. actual_jobs(s) \in Nat
      BY <2>3, Sizes DEF Join
    <3>2. QED BY <1>3, <1>4, <2>3, <3>1 DEF Counts, Join
  <2>4. CASE RunWhole(s)
    BY <1>3, <1>4, <2>4 DEF Counts, RunWhole
  <2>5. CASE OwnChunk(s)
    BY <1>3, <1>4, <2>5 DEF Counts, OwnChunk
  <2>6. CASE WaitReturns(s)
    BY <1>3, <1>4, <2>6 DEF Counts, WaitReturns
  <2>7. CASE Destroy(s)
    BY <1>3, <1>4, <2>7 DEF Counts, Destroy
  <2>8. QED BY <2>1, <2>2, <2>3, <2>4, <2>5, <2>6, <2>7
<1>8. QED BY <1>5, <1>6, <1>7, CountsFrom

LEMMA CountsDispatch ==
  ASSUME TypeInv, CountsInv, NEW s \in Scopes, Dispatch(s)
  PROVE  CountsInv'
<1> DEFINE out == Outstanding(queue, cur, s)
           j == [scope |-> s, chunk |-> next_chunk[s], job_begin |-> offset[s],
                 job_end |-> offset[s] + this_chunk(s, next_chunk[s])]
<1>1. j \in JobRecords /\ j.scope = s
  BY DispatchedJob
<1>2. queue' = Append(queue, j) /\ cur' = cur
  BY DEF Dispatch
<1> HIDE DEF j
<1>3. Outstanding(queue', cur', s) = out + 1 /\ out \in Nat
  <2>1. Cardinality(At(queue', s)) = Cardinality(At(queue, s)) + 1
    BY <1>1, <1>2, AtAppend DEF TypeInv
  <2>2. Cardinality(At(queue, s)) \in Nat /\ Cardinality(HeldBy(cur, s)) \in Nat
    BY Finite DEF TypeInv
  <2>3. HeldBy(cur', s) = HeldBy(cur, s)
    BY <1>2
  <2>4. Outstanding(queue', cur', s) = Cardinality(At(queue, s)) + 1 + Cardinality(HeldBy(cur, s))
    BY <2>1, <2>3 DEF Outstanding
  <2>5. QED BY <2>2, <2>4 DEF Outstanding
<1>4. \A t \in Scopes : t # s => Outstanding(queue', cur', t) = Outstanding(queue, cur, t)
  <2>1. \A t \in Scopes : t # s => At(queue', t) = At(queue, t)
    BY <1>1, <1>2, AtAppend DEF TypeInv
  <2>2. QED BY <1>2, <2>1 DEF Outstanding
<1>5. Counts(s, stage[s], mRemaining[s], mRef[s], next_chunk[s], out)
  BY DEF CountsInv
<1> HIDE DEF out
<1>6. ASSUME NEW t \in Scopes, t # s PROVE SameCounts(t)
  BY <1>4, <1>6 DEF SameCounts, Dispatch, TypeInv
<1>7. /\ stage[s] = "dispatch" /\ stage'[s] = "dispatch" /\ mRemaining'[s] = mRemaining[s]
      /\ mRef'[s] = mRef[s] + 1 /\ next_chunk'[s] = next_chunk[s] + 1
      /\ next_chunk[s] < actual_jobs(s) /\ next_chunk[s] \in Nat
      /\ mRemaining[s] \in Int /\ mRef[s] \in Int
  BY DEF Dispatch, TypeInv
<1>8. actual_jobs(s) \in Nat
  BY <1>7, Sizes DEF TypeInv
<1>9. Counts(s, stage'[s], mRemaining'[s], mRef'[s], next_chunk'[s], out + 1)
  BY <1>3, <1>5, <1>7, <1>8 DEF Counts
<1>10. QED BY <1>3, <1>6, <1>9, CountsFrom

LEMMA CountsSubmit ==
  ASSUME TypeInv, CountsInv, NEW s \in Scopes, Submit(s)
  PROVE  CountsInv'
<1>1. s \in Native /\ ~nothingToDo(s) /\ numChunks(s) > 1 /\ stage[s] = "new"
  BY DEF Submit
<1>2. queue' = queue \o Batch(s) /\ cur' = cur
  BY DEF Submit, Batch
<1>3. /\ Batch(s) \in Seq(JobRecords) /\ Len(Batch(s)) = onThreads(s)
      /\ \A i \in DOMAIN Batch(s) : Batch(s)[i].scope = s
      /\ onThreads(s) \in Nat
  BY <1>1, SubmittedJobs, NativeSizes DEF Batch
<1>4. Outstanding(queue, cur, s) = 0 /\ mRef[s] = 0 /\ next_chunk[s] = 0
  BY <1>1 DEF CountsInv, Counts
<1>5. Cardinality(At(queue, s)) = 0 /\ Cardinality(HeldBy(cur, s)) = 0
  BY <1>4, Finite DEF Outstanding, TypeInv
<1>6. At(queue, s) = {}
  BY <1>5, Finite, FS_EmptySet DEF TypeInv
<1>7. Outstanding(queue', cur', s) = onThreads(s)
  <2>1. Cardinality(At(queue', s)) = onThreads(s)
    BY <1>2, <1>3, <1>6, AtConcat DEF TypeInv
  <2>2. QED BY <1>2, <1>3, <1>5, <2>1 DEF Outstanding
<1>8. \A t \in Scopes : t # s => Outstanding(queue', cur', t) = Outstanding(queue, cur, t)
  <2>1. \A t \in Scopes : t # s => At(queue', t) = At(queue, t)
    <3>1. queue \in Seq(JobRecords)
      BY DEF TypeInv
    <3>2. \A t : t # s => At(queue \o Batch(s), t) = At(queue, t)
      BY <1>3, <1>6, <3>1, AtConcat
    <3>3. QED BY <1>2, <3>2
  <2>2. QED BY <1>2, <2>1 DEF Outstanding
<1>9. ASSUME NEW t \in Scopes, t # s PROVE SameCounts(t)
  BY <1>8, <1>9 DEF SameCounts, Submit, TypeInv
<1>10. Counts(s, stage'[s], mRemaining'[s], mRef'[s], next_chunk'[s], onThreads(s))
  BY <1>4 DEF Counts, Submit, TypeInv
<1>11. QED BY <1>7, <1>9, <1>10, CountsFrom

LEMMA CountsStart ==
  ASSUME TypeInv, CountsInv, NEW w \in Workers, Start(w)
  PROVE  CountsInv'
<1>1. /\ queue # <<>> /\ cur[w] = NoJob /\ Head(queue) \in JobRecords
      /\ queue' = Tail(queue) /\ cur' = [cur EXCEPT ![w] = Head(queue)]
      /\ queue \in Seq(JobRecords) /\ cur \in [Workers -> JobRecords \cup {NoJob}]
  BY DEF Start, TypeInv
<1>2. ASSUME NEW t \in Scopes PROVE SameCounts(t)
  <2>1. Cardinality(At(queue, t)) \in Nat /\ Cardinality(HeldBy(cur, t)) \in Nat
    BY <1>1, Finite
  <2>2. CASE t = Head(queue).scope
    <3>1. Cardinality(At(queue', t)) = Cardinality(At(queue, t)) - 1
      BY <1>1, <2>2, AtTail
    <3>2. Cardinality(HeldBy(cur', t)) = Cardinality(HeldBy(cur, t)) + 1
      BY <1>1, <2>2, HeldTaken
    <3>3. Outstanding(queue', cur', t) = Outstanding(queue, cur, t)
      BY <2>1, <3>1, <3>2 DEF Outstanding
    <3>4. QED BY <3>3 DEF SameCounts, Start, callerVars, statusVars
  <2>3. CASE t # Head(queue).scope
    <3>1. Cardinality(At(queue', t)) = Cardinality(At(queue, t))
      BY <1>1, <2>3, AtTail
    <3>2. HeldBy(cur', t) = HeldBy(cur, t)
      BY <1>1, <2>3, HeldTaken
    <3>3. Outstanding(queue', cur', t) = Outstanding(queue, cur, t)
      BY <3>1, <3>2 DEF Outstanding
    <3>4. QED BY <3>3 DEF SameCounts, Start, callerVars, statusVars
  <2>4. QED BY <2>2, <2>3
<1>3. QED BY <1>2, CountsFrame DEF CountsInv

LEMMA CountsEnd ==
  ASSUME TypeInv, CountsInv, NEW w \in Workers, NotifyAndRelease(w) \/ Notify(w)
  PROVE  CountsInv'
<1> DEFINE s == cur[w].scope
           out == Outstanding(queue, cur, s)
<1>1. /\ cur[w] \in JobRecords /\ cur[w] # NoJob /\ queue' = queue
      /\ cur' = [cur EXCEPT ![w] = NoJob] /\ cur \in [Workers -> JobRecords \cup {NoJob}]
  BY DEF NotifyAndRelease, Notify, TypeInv
<1>2. s \in Scopes
  BY <1>1 DEF JobRecords
<1>3. Outstanding(queue', cur', s) = out - 1 /\ out \in Nat \ {0}
  <2>1. Cardinality(HeldBy(cur', s)) = Cardinality(HeldBy(cur, s)) - 1
    BY <1>1, HeldDropped
  <2>2. Cardinality(At(queue, s)) \in Nat /\ Cardinality(HeldBy(cur, s)) \in Nat
    BY Finite DEF TypeInv
  <2>3. Cardinality(HeldBy(cur, s)) # 0
    <3>1. w \in HeldBy(cur, s)
      BY <1>1 DEF HeldBy
    <3>2. IsFiniteSet(HeldBy(cur, s))
      BY Finite DEF TypeInv
    <3>3. QED BY <3>1, <3>2, FS_EmptySet
  <2>4. QED BY <1>1, <2>1, <2>2, <2>3 DEF Outstanding
<1>4. \A t \in Scopes : t # s => Outstanding(queue', cur', t) = Outstanding(queue, cur, t)
  BY <1>1, HeldDropped DEF Outstanding
<1>5. Counts(s, stage[s], mRemaining[s], mRef[s], next_chunk[s], out)
  BY <1>2 DEF CountsInv
<1>6. /\ stage'[s] = stage[s] /\ next_chunk'[s] = next_chunk[s]
      /\ mRemaining'[s] = mRemaining[s] - 1 /\ mRemaining[s] \in Int /\ mRef[s] \in Int
      /\ s \in Native => mRef'[s] = mRef[s]
      /\ s \notin Native => mRef'[s] = mRef[s] - 1
      /\ stage[s] \in Stages /\ next_chunk[s] \in Nat
  BY <1>2 DEF NotifyAndRelease, Notify, TypeInv, callerVars
<1>7. ASSUME NEW t \in Scopes, t # s PROVE SameCounts(t)
  BY <1>4, <1>7 DEF SameCounts, NotifyAndRelease, Notify, TypeInv, callerVars
<1>8. /\ stage[s] = "dispatch" => actual_jobs(s) \in Nat /\ s \notin Native
      /\ stage[s] = "own" => s \in Native
  BY <1>2, Sizes DEF TypeInv
<1> HIDE DEF s, out
<1>9. Counts(s, stage'[s], mRemaining'[s], mRef'[s], next_chunk'[s], out - 1)
  BY <1>3, <1>5, <1>6, <1>8 DEF Counts, Stages
<1>10. QED BY <1>2, <1>3, <1>7, <1>9, CountsFrom

LEMMA CountsStep == TypeInv /\ CountsInv /\ [Next]_vars => CountsInv'
<1> SUFFICES ASSUME TypeInv, CountsInv, [Next]_vars PROVE CountsInv'
  OBVIOUS
<1>1. CASE UNCHANGED vars
  BY <1>1 DEF vars, CountsInv
<1>2. ASSUME NEW s \in Scopes, CallerStep(s) PROVE CountsInv'
  BY <1>2, CountsQuiet, CountsDispatch, CountsSubmit DEF CallerStep
<1>3. ASSUME NEW w \in Workers, WorkerStep(w) PROVE CountsInv'
  <2>1. CASE Body(w) \/ NotifyChannel(w)
    BY <2>1 DEF Body, NotifyChannel, CountsInv, callerVars, statusVars
  <2>2. QED BY <1>3, <2>1, CountsStart, CountsEnd DEF WorkerStep
<1>4. CASE ConsumerEnds
  BY <1>4 DEF ConsumerEnds, CountsInv, callerVars, statusVars
<1>5. QED BY <1>1, <1>2, <1>3, <1>4 DEF Next, Finished

\* No job uses a scope without outstanding jobs.
LEMMA NoUsers ==
  ASSUME TypeInv, NEW s \in Scopes, Outstanding(queue, cur, s) = 0
  PROVE  At(queue, s) = {} /\ HeldBy(cur, s) = {}
<1>1. Cardinality(At(queue, s)) = 0 /\ Cardinality(HeldBy(cur, s)) = 0
  BY Finite DEF Outstanding, TypeInv
<1>2. QED BY <1>1, Finite, FS_EmptySet DEF TypeInv

\* No job touches a JobStatus of a parallel_for that has returned, and the guard of
\* with_wait_group (the destructor of a native call's status) finds no reference of
\* a job: withJobStatus and ~JobStatus never see one that is still used.
THEOREM StatusOutlivesJobs == Spec => []NoUseAfterDestroy
<1>1. TypeInv /\ CountsInv => NoUseAfterDestroy
  <2> SUFFICES ASSUME TypeInv, CountsInv, NEW s \in Scopes
               PROVE  /\ stage[s] = "joined" => mRef[s] = IF s \in Native THEN 0 ELSE 1
                      /\ stage[s] = "gone" => Users(s) = {}
    BY DEF NoUseAfterDestroy
  <2>1. Counts(s, stage[s], mRemaining[s], mRef[s], next_chunk[s], Outstanding(queue, cur, s))
    BY DEF CountsInv
  <2>2. stage[s] = "joined" => mRef[s] = IF s \in Native THEN 0 ELSE 1
    BY <2>1 DEF Counts
  <2>3. ASSUME stage[s] = "gone" PROVE Users(s) = {}
    <3>1. At(queue, s) = {} /\ HeldBy(cur, s) = {}
      BY <2>1, <2>3, NoUsers DEF Counts
    <3>2. Users(s) = HeldBy(cur, s) \cup At(queue, s)
      BY DEF Users, HeldBy, At
    <3>3. QED BY <3>1, <3>2
  <2>4. QED BY <2>2, <2>3
<1>2. QED BY TypeInit, TypeStep, CountsInit, CountsStep, <1>1, PTL DEF Spec

-----------------------------------------------------------------------------
(* The jobs that have not run yet: no two are equal, and each step adds or *)
(* takes away the jobs one expects.                                        *)

Waiting(c, p, s) == {w \in HeldBy(c, s) : p[w] = "body"}

Pending(q, c, p, s) == {q[i] : i \in At(q, s)} \cup {c[w] : w \in Waiting(c, p, s)}

Unique(q, c, p) ==
  /\ \A i, k \in DOMAIN q : q[i] = q[k] => i = k
  /\ \A i \in DOMAIN q : \A w \in Workers : p[w] = "body" => q[i] # c[w]
  /\ \A v, w \in Workers : p[v] = "body" /\ p[w] = "body" /\ c[v] = c[w] => v = w

LEMMA PendingAppend ==
  ASSUME NEW q \in Seq(JobRecords), NEW c \in [Workers -> JobRecords \cup {NoJob}], NEW p,
         \A w \in Workers : p[w] = "body" => c[w] # NoJob,
         Unique(q, c, p), NEW j \in JobRecords, NEW t, j.scope = t, j \notin Pending(q, c, p, t)
  PROVE  /\ Unique(Append(q, j), c, p)
         /\ \A x : x \in Pending(Append(q, j), c, p, t) <=> x \in Pending(q, c, p, t) \/ x = j
         /\ \A s : s # t => Pending(Append(q, j), c, p, s) = Pending(q, c, p, s)
<1> DEFINE r == Append(q, j)
           n == Len(q)
<1>1. n \in Nat /\ DOMAIN q = 1..n /\ DOMAIN r = 1..(n + 1) /\ r[n + 1] = j
      /\ \A i \in 1..n : r[i] = q[i]
  OBVIOUS
<1> HIDE DEF r, n
<1>2. \A i \in 1..(n + 1) : i \in 1..n \/ i = n + 1
  BY <1>1
<1>3. n + 1 \in 1..(n + 1) /\ \A i \in 1..n : i \in 1..(n + 1)
  BY <1>1
<1>4. \A i \in 1..n : q[i] # j
  BY <1>1 DEF Pending, At
<1>5. \A w \in Workers : p[w] = "body" => c[w] # j
  BY DEF Pending, Waiting, HeldBy
<1>6. Unique(r, c, p)
  <2>1. \A i, k \in DOMAIN r : r[i] = r[k] => i = k
    BY <1>1, <1>2, <1>4 DEF Unique
  <2>2. \A i \in DOMAIN r : \A w \in Workers : p[w] = "body" => r[i] # c[w]
    BY <1>1, <1>2, <1>5 DEF Unique
  <2>3. QED BY <2>1, <2>2 DEF Unique
<1>7. ASSUME NEW s PROVE {r[i] : i \in At(r, s)} = {q[i] : i \in At(q, s)} \cup
                                                   (IF s = t THEN {j} ELSE {})
  <2>1. \A i \in At(r, s) : i \in At(q, s) \/ (i = n + 1 /\ s = t)
    BY <1>1, <1>2 DEF At
  <2>2. \A i \in At(q, s) : i \in At(r, s) /\ r[i] = q[i]
    BY <1>1, <1>3 DEF At
  <2>3. s = t => n + 1 \in At(r, s)
    BY <1>1, <1>3 DEF At
  <2>4. \A i \in At(q, s) : i \in 1..n
    BY <1>1 DEF At
  <2>5. QED BY <1>1, <2>1, <2>2, <2>3, <2>4
<1>8. QED BY <1>6, <1>7 DEF Pending, r

LEMMA PendingStart ==
  ASSUME NEW q \in Seq(JobRecords), q # <<>>, NEW c \in [Workers -> JobRecords \cup {NoJob}],
         NEW p \in [Workers -> {"idle", "body", "notify", "done"}],
         \A v \in Workers : p[v] = "body" => c[v] # NoJob,
         Unique(q, c, p), NEW w \in Workers, p[w] = "idle", c[w] = NoJob
  PROVE  LET d == [c EXCEPT ![w] = Head(q)]
             o == [p EXCEPT ![w] = "body"]
         IN  /\ Unique(Tail(q), d, o)
             /\ \A s : Pending(Tail(q), d, o, s) = Pending(q, c, p, s)
<1> DEFINE r == Tail(q)
           n == Len(q)
           d == [c EXCEPT ![w] = Head(q)]
           o == [p EXCEPT ![w] = "body"]
<1>1. n \in Nat \ {0} /\ DOMAIN q = 1..n /\ DOMAIN r = 1..(n - 1) /\ Head(q) = q[1]
      /\ \A i \in 1..(n - 1) : r[i] = q[i + 1]
  OBVIOUS
<1>2. Head(q) # NoJob
  BY NoJobAssumption
<1>3. d[w] = q[1] /\ o[w] = "body" /\ q[1] # NoJob
      /\ \A v \in Workers : v # w => d[v] = c[v] /\ o[v] = p[v]
  BY <1>1, <1>2
<1> HIDE DEF r, n, d, o
<1>4. 1 \in 1..n /\ \A i \in 1..(n - 1) : i + 1 \in 1..n /\ i + 1 # 1
  BY <1>1
<1>5. \A k \in 1..n : k = 1 \/ (k - 1 \in 1..(n - 1) /\ (k - 1) + 1 = k)
  BY <1>1
<1>6. Unique(r, d, o)
  <2>1. ASSUME NEW i \in DOMAIN r, NEW k \in DOMAIN r, r[i] = r[k] PROVE i = k
    <3>1. i \in Int /\ k \in Int /\ q[i + 1] = q[k + 1] /\ i + 1 \in DOMAIN q /\ k + 1 \in DOMAIN q
      BY <1>1, <1>4, <2>1
    <3>2. i + 1 = k + 1
      BY <3>1 DEF Unique
    <3>3. QED BY <3>1, <3>2
  <2>2. ASSUME NEW i \in DOMAIN r, NEW v \in Workers, o[v] = "body" PROVE r[i] # d[v]
    <3>1. r[i] = q[i + 1] /\ i + 1 \in DOMAIN q /\ i + 1 # 1 /\ 1 \in DOMAIN q
      BY <1>1, <1>4
    <3>2. CASE v = w
      BY <1>3, <3>1, <3>2 DEF Unique
    <3>3. CASE v # w
      BY <1>3, <2>2, <3>1, <3>3 DEF Unique
    <3>4. QED BY <3>2, <3>3
  <2>3. ASSUME NEW u \in Workers, NEW v \in Workers, o[u] = "body", o[v] = "body", d[u] = d[v]
        PROVE  u = v
    <3>1. 1 \in DOMAIN q
      BY <1>1, <1>4
    <3>2. QED BY <1>3, <2>3, <3>1 DEF Unique
  <2>4. QED BY <2>1, <2>2, <2>3 DEF Unique
<1>7. ASSUME NEW s PROVE Pending(r, d, o, s) = Pending(q, c, p, s)
  <2>1. ASSUME NEW i \in At(r, s) PROVE r[i] \in Pending(q, c, p, s)
    <3>1. i + 1 \in At(q, s) /\ r[i] = q[i + 1]
      BY <1>1, <1>4 DEF At
    <3>2. QED BY <3>1 DEF Pending
  <2>2. ASSUME NEW v \in Waiting(d, o, s) PROVE d[v] \in Pending(q, c, p, s)
    <3>1. CASE v = w
      <4>1. 1 \in At(q, s) /\ d[v] = q[1]
        BY <1>1, <1>3, <1>4, <3>1 DEF Waiting, HeldBy, At
      <4>2. QED BY <4>1 DEF Pending
    <3>2. CASE v # w
      <4>1. v \in Waiting(c, p, s) /\ d[v] = c[v]
        BY <1>3, <3>2 DEF Waiting, HeldBy
      <4>2. QED BY <4>1 DEF Pending
    <3>3. QED BY <3>1, <3>2
  <2>3. ASSUME NEW k \in At(q, s) PROVE q[k] \in Pending(r, d, o, s)
    <3>1. k \in 1..n /\ q[k].scope = s
      BY <1>1 DEF At
    <3>2. CASE k = 1
      <4>1. w \in Waiting(d, o, s) /\ d[w] = q[k]
        BY <1>3, <3>1, <3>2 DEF Waiting, HeldBy
      <4>2. QED BY <4>1 DEF Pending
    <3>3. CASE k - 1 \in 1..(n - 1) /\ (k - 1) + 1 = k
      <4>1. k - 1 \in At(r, s) /\ r[k - 1] = q[k]
        BY <1>1, <3>1, <3>3 DEF At
      <4>2. QED BY <4>1 DEF Pending
    <3>4. QED BY <1>5, <3>1, <3>2, <3>3
  <2>4. ASSUME NEW v \in Waiting(c, p, s) PROVE c[v] \in Pending(r, d, o, s)
    <3>1. v \in Waiting(d, o, s) /\ d[v] = c[v]
      BY <1>3 DEF Waiting, HeldBy
    <3>2. QED BY <3>1 DEF Pending
  <2>5. QED BY <2>1, <2>2, <2>3, <2>4 DEF Pending
<1>8. QED BY <1>6, <1>7 DEF r, d, o

LEMMA PendingOther ==
  ASSUME NEW q, NEW c, NEW p, NEW o, NEW w \in Workers, NEW s, c[w].scope # s,
         \A v \in Workers : v # w => o[v] = p[v]
  PROVE  Pending(q, c, o, s) = Pending(q, c, p, s)
<1>1. Waiting(c, o, s) = Waiting(c, p, s)
  BY DEF Waiting, HeldBy
<1>2. QED BY <1>1 DEF Pending

\* A worker that has run its job goes on without touching what is pending.
LEMMA PendingSame ==
  ASSUME NEW q, NEW c, NEW d, NEW p, NEW o, NEW t,
         \A v \in Workers : (o[v] = "body") <=> (p[v] = "body"),
         \A v \in Workers : p[v] = "body" => d[v] = c[v]
  PROVE  /\ Unique(q, c, p) => Unique(q, d, o)
         /\ Pending(q, d, o, t) = Pending(q, c, p, t)
<1>1. \A s : Waiting(d, o, s) = Waiting(c, p, s)
  BY DEF Waiting, HeldBy
<1>2. \A s : \A v \in Waiting(c, p, s) : d[v] = c[v]
  BY DEF Waiting, HeldBy
<1>3. \A s : Pending(q, d, o, s) = Pending(q, c, p, s)
  BY <1>1, <1>2 DEF Pending
<1>4. Unique(q, c, p) => Unique(q, d, o)
  BY DEF Unique
<1>5. QED BY <1>3, <1>4

LEMMA PendingConcat ==
  ASSUME NEW q \in Seq(JobRecords), NEW c \in [Workers -> JobRecords \cup {NoJob}], NEW p,
         \A w \in Workers : p[w] = "body" => c[w] # NoJob,
         Unique(q, c, p), NEW r \in Seq(JobRecords), NEW t,
         \A i \in DOMAIN r : r[i].scope = t, \A i, k \in DOMAIN r : r[i] = r[k] => i = k,
         Pending(q, c, p, t) = {}
  PROVE  /\ Unique(q \o r, c, p)
         /\ Pending(q \o r, c, p, t) = {r[i] : i \in DOMAIN r}
<1> DEFINE a == q \o r
           n == Len(q)
           m == Len(r)
<1>1. n \in Nat /\ m \in Nat /\ DOMAIN q = 1..n /\ DOMAIN r = 1..m /\ DOMAIN a = 1..(n + m)
  OBVIOUS
<1>2. (\A i \in 1..n : a[i] = q[i]) /\ \A i \in (n + 1)..(n + m) : a[i] = r[i - n]
  OBVIOUS
<1> HIDE DEF a, n, m
<1>3. \A i \in 1..(n + m) : i \in 1..n \/ (i \in (n + 1)..(n + m) /\ i - n \in 1..m)
  BY <1>1
<1>4. \A i \in 1..n : i \in 1..(n + m)
  BY <1>1
<1>5. \A i \in 1..m : /\ n + i \in (n + 1)..(n + m) /\ n + i \in 1..(n + m)
                      /\ (n + i) - n = i
  BY <1>1
<1>6. \A i \in 1..m : a[n + i] = r[i]
  BY <1>2, <1>5
<1>7. At(q, t) = {} /\ Waiting(c, p, t) = {}
  <2>1. \A i \in At(q, t) : q[i] \in Pending(q, c, p, t)
    BY DEF Pending
  <2>2. \A w \in Waiting(c, p, t) : c[w] \in Pending(q, c, p, t)
    BY DEF Pending
  <2>3. QED BY <2>1, <2>2
<1>8. \A i \in 1..n : q[i].scope # t
  BY <1>1, <1>7 DEF At
<1>9. \A w \in Workers : p[w] = "body" => c[w].scope # t
  BY <1>7 DEF Waiting, HeldBy
<1>10. Unique(a, c, p)
  <2>1. ASSUME NEW i \in DOMAIN a, NEW k \in DOMAIN a, a[i] = a[k] PROVE i = k
    <3>1. CASE i \in 1..n /\ k \in 1..n
      BY <1>1, <1>2, <2>1, <3>1 DEF Unique
    <3>2. CASE i \in (n + 1)..(n + m) /\ k \in (n + 1)..(n + m)
      <4>1. i \in Int /\ k \in Int /\ i - n \in DOMAIN r /\ k - n \in DOMAIN r /\ r[i - n] = r[k - n]
        BY <1>1, <1>2, <2>1, <3>2
      <4>2. i - n = k - n
        BY <4>1
      <4>3. QED BY <1>1, <4>1, <4>2
    <3>3. CASE i \in 1..n /\ k \in (n + 1)..(n + m) /\ k - n \in 1..m
      BY <1>1, <1>2, <1>8, <2>1, <3>3
    <3>4. CASE k \in 1..n /\ i \in (n + 1)..(n + m) /\ i - n \in 1..m
      BY <1>1, <1>2, <1>8, <2>1, <3>4
    <3>5. QED BY <1>1, <1>3, <3>1, <3>2, <3>3, <3>4
  <2>2. ASSUME NEW i \in DOMAIN a, NEW w \in Workers, p[w] = "body" PROVE a[i] # c[w]
    <3>1. CASE i \in 1..n
      BY <1>1, <1>2, <2>2, <3>1 DEF Unique
    <3>2. CASE i \in (n + 1)..(n + m) /\ i - n \in 1..m
      BY <1>1, <1>2, <1>9, <2>2, <3>2
    <3>3. QED BY <1>1, <1>3, <3>1, <3>2
  <2>3. \A v, w \in Workers : p[v] = "body" /\ p[w] = "body" /\ c[v] = c[w] => v = w
    BY DEF Unique
  <2>4. QED BY <2>1, <2>2, <2>3 DEF Unique
<1>11. Pending(a, c, p, t) = {r[i] : i \in DOMAIN r}
  <2>1. ASSUME NEW i \in At(a, t) PROVE i - n \in 1..m /\ a[i] = r[i - n]
    <3>1. i \in 1..(n + m) /\ a[i].scope = t
      BY <1>1 DEF At
    <3>2. i \notin 1..n
      BY <1>2, <1>8, <3>1
    <3>3. QED BY <1>2, <1>3, <3>1, <3>2
  <2>2. \A i \in 1..m : n + i \in At(a, t)
    BY <1>1, <1>5, <1>6 DEF At
  <2>3. {a[i] : i \in At(a, t)} = {r[i] : i \in 1..m}
    BY <1>6, <2>1, <2>2
  <2>4. QED BY <1>1, <1>7, <2>3 DEF Pending
<1>12. QED BY <1>10, <1>11 DEF a

LEMMA ConcatOther ==
  ASSUME NEW q \in Seq(JobRecords), NEW c, NEW p, NEW r \in Seq(JobRecords), NEW s,
         \A i \in DOMAIN r : r[i].scope # s
  PROVE  Pending(q \o r, c, p, s) = Pending(q, c, p, s)
<1> DEFINE a == q \o r
           n == Len(q)
           m == Len(r)
<1>1. n \in Nat /\ m \in Nat /\ DOMAIN q = 1..n /\ DOMAIN r = 1..m /\ DOMAIN a = 1..(n + m)
  OBVIOUS
<1>2. (\A i \in 1..n : a[i] = q[i]) /\ \A i \in (n + 1)..(n + m) : a[i] = r[i - n]
  OBVIOUS
<1> HIDE DEF a, n, m
<1>3. \A i \in 1..(n + m) : i \in 1..n \/ (i \in (n + 1)..(n + m) /\ i - n \in 1..m)
  BY <1>1
<1>4. \A i \in 1..n : i \in 1..(n + m)
  BY <1>1
<1>5. ASSUME NEW i \in At(a, s) PROVE i \in At(q, s) /\ a[i] = q[i]
  <2>1. i \in 1..(n + m) /\ a[i].scope = s
    BY <1>1 DEF At
  <2>2. ~(i \in (n + 1)..(n + m) /\ i - n \in 1..m)
    <3>1. SUFFICES ASSUME i \in (n + 1)..(n + m), i - n \in 1..m PROVE FALSE
      OBVIOUS
    <3>2. a[i] = r[i - n] /\ r[i - n].scope # s
      BY <1>1, <1>2, <3>1
    <3>3. QED BY <2>1, <3>2
  <2>3. QED BY <1>1, <1>2, <1>3, <2>1, <2>2 DEF At
<1>6. \A i \in At(q, s) : i \in At(a, s) /\ a[i] = q[i]
  BY <1>1, <1>2, <1>4 DEF At
<1>7. {a[i] : i \in At(a, s)} = {q[i] : i \in At(q, s)}
  BY <1>5, <1>6
<1>8. QED BY <1>7 DEF Pending, a

-----------------------------------------------------------------------------
(* The indices below a limit are processed once, except those of the jobs  *)
(* that have not run; the jobs are disjoint intervals of them.             *)

Inside(x, job) == job.job_begin <= x /\ x < job.job_end

Covered(s, limit, jobs, v) ==
  /\ \A a \in jobs : /\ a \in JobRecords /\ range_begin[s] <= a.job_begin
                     /\ a.job_begin < a.job_end /\ a.job_end <= limit
  /\ \A a, b \in jobs : a = b \/ a.job_end <= b.job_begin \/ b.job_end <= a.job_begin
  /\ v \in [Window(s) -> Nat]
  /\ \A x \in Window(s) :
       LET once == range_begin[s] <= x /\ x < limit /\ \A a \in jobs : ~Inside(x, a)
       IN  (once => v[x] = 1) /\ (~once => v[x] = 0)

Add(v, from, to) == [x \in DOMAIN v |-> IF x \in from .. to - 1 THEN v[x] + 1 ELSE v[x]]

\* The chunk that is dispatched begins at the limit and moves it to its end.
LEMMA CoveredMore ==
  ASSUME NEW s \in Scopes, NEW limit \in Int, NEW jobs, NEW v, Covered(s, limit, jobs, v),
         NEW j \in JobRecords, j.job_begin = limit, limit < j.job_end,
         range_begin[s] <= limit
  PROVE  Covered(s, j.job_end, jobs \cup {j}, v) /\ j \notin jobs
<1>1. j.job_end \in Int /\ range_begin[s] \in Int
      /\ \A a \in jobs : a.job_begin \in Int /\ a.job_end \in Int
  BY ParallelForAssumption DEF JobRecords, Covered
<1>2. j \notin jobs
  BY <1>1 DEF Covered
<1>3. ASSUME NEW x \in Window(s)
      PROVE  LET once == /\ range_begin[s] <= x /\ x < j.job_end
                         /\ \A a \in jobs \cup {j} : ~Inside(x, a)
             IN  (once => v[x] = 1) /\ (~once => v[x] = 0)
  <2>1. x \in Int
    BY <1>1, ParallelForAssumption DEF Window
  <2>2. CASE x < limit
    <3>1. ~Inside(x, j)
      BY <1>1, <2>1, <2>2 DEF Inside
    <3>2. x < j.job_end
      BY <1>1, <2>1, <2>2
    <3>3. QED BY <2>2, <3>1, <3>2 DEF Covered
  <2>3. CASE ~(x < limit)
    <3>1. v[x] = 0
      BY <2>3 DEF Covered
    <3>2. x < j.job_end => Inside(x, j)
      BY <1>1, <2>1, <2>3 DEF Inside
    <3>3. QED BY <3>1, <3>2
  <2>4. QED BY <2>2, <2>3
<1>4. \A a \in jobs \cup {j} : /\ a \in JobRecords /\ range_begin[s] <= a.job_begin
                               /\ a.job_begin < a.job_end /\ a.job_end <= j.job_end
  BY <1>1 DEF Covered
<1>5. \A a, b \in jobs \cup {j} : a = b \/ a.job_end <= b.job_begin \/ b.job_end <= a.job_begin
  BY DEF Covered
<1>6. v \in [Window(s) -> Nat]
  BY DEF Covered
<1>7. Covered(s, j.job_end, jobs \cup {j}, v)
  BY <1>3, <1>4, <1>5, <1>6 DEF Covered
<1>8. QED BY <1>2, <1>7

\* A job runs.
LEMMA CoveredRun ==
  ASSUME NEW s \in Scopes, NEW limit \in Int, NEW jobs, NEW v, Covered(s, limit, jobs, v),
         NEW j \in jobs
  PROVE  Covered(s, limit, jobs \ {j}, Add(v, j.job_begin, j.job_end))
<1> DEFINE u == Add(v, j.job_begin, j.job_end)
<1>1. range_begin[s] \in Int /\ \A a \in jobs : a.job_begin \in Int /\ a.job_end \in Int
  BY ParallelForAssumption DEF JobRecords, Covered
<1>2. v \in [Window(s) -> Nat] /\ \A x \in Window(s) : x \in Int
  BY ParallelForAssumption DEF Window, Covered
<1>3. u \in [Window(s) -> Nat]
  BY <1>2 DEF Add
<1>4. ASSUME NEW x \in Window(s)
      PROVE  /\ Inside(x, j) => u[x] = v[x] + 1
             /\ ~Inside(x, j) => u[x] = v[x]
  <2>1. x \in Int /\ j.job_begin \in Int /\ j.job_end \in Int
    BY <1>1, <1>2
  <2>2. x \in j.job_begin .. j.job_end - 1 <=> Inside(x, j)
    BY <2>1 DEF Inside
  <2>3. x \in DOMAIN v
    BY <1>2
  <2>4. u[x] = IF x \in j.job_begin .. j.job_end - 1 THEN v[x] + 1 ELSE v[x]
    BY <2>3 DEF Add
  <2>5. QED BY <2>2, <2>4
<1> HIDE DEF u
<1>5. ASSUME NEW x \in Window(s)
      PROVE  LET once == range_begin[s] <= x /\ x < limit /\ \A a \in jobs \ {j} : ~Inside(x, a)
             IN  (once => u[x] = 1) /\ (~once => u[x] = 0)
  <2>1. x \in Int
    BY <1>2
  <2>2. CASE Inside(x, j)
    <3>1. v[x] = 0
      BY <2>2 DEF Covered
    <3>2. u[x] = 1
      BY <1>4, <2>2, <3>1
    <3>3. range_begin[s] <= j.job_begin /\ j.job_end <= limit
      BY DEF Covered
    <3>4. range_begin[s] <= x /\ x < limit
      BY <1>1, <2>1, <2>2, <3>3 DEF Inside
    <3>5. \A a \in jobs \ {j} : ~Inside(x, a)
      <4>1. SUFFICES ASSUME NEW a \in jobs, a # j PROVE ~Inside(x, a)
        OBVIOUS
      <4>2. a.job_end <= j.job_begin \/ j.job_end <= a.job_begin
        BY <4>1 DEF Covered
      <4>3. QED BY <1>1, <2>1, <2>2, <4>2 DEF Inside
    <3>6. QED BY <3>2, <3>4, <3>5
  <2>3. CASE ~Inside(x, j)
    <3>1. u[x] = v[x]
      BY <1>4, <2>3
    <3>2. (\A a \in jobs \ {j} : ~Inside(x, a)) <=> (\A a \in jobs : ~Inside(x, a))
      BY <2>3
    <3>3. QED BY <3>1, <3>2 DEF Covered
  <2>4. QED BY <2>2, <2>3
<1>6. /\ \A a \in jobs \ {j} : /\ a \in JobRecords /\ range_begin[s] <= a.job_begin
                               /\ a.job_begin < a.job_end /\ a.job_end <= limit
      /\ \A a, b \in jobs \ {j} : a = b \/ a.job_end <= b.job_begin \/ b.job_end <= a.job_begin
  BY DEF Covered
<1>7. Covered(s, limit, jobs \ {j}, u)
  BY <1>3, <1>5, <1>6 DEF Covered
<1>8. QED BY <1>7 DEF u

\* The caller of a native parallel_for processes what lies above the limit.
LEMMA CoveredOwn ==
  ASSUME NEW s \in Scopes, NEW limit \in Int, NEW jobs, NEW v, Covered(s, limit, jobs, v),
         NEW to \in Int, limit <= to, range_begin[s] <= limit
  PROVE  Covered(s, to, jobs, Add(v, limit, to))
<1> DEFINE u == Add(v, limit, to)
<1>1. range_begin[s] \in Int /\ \A a \in jobs : a.job_begin \in Int /\ a.job_end \in Int
  BY ParallelForAssumption DEF JobRecords, Covered
<1>2. v \in [Window(s) -> Nat] /\ \A x \in Window(s) : x \in Int
  BY ParallelForAssumption DEF Window, Covered
<1>3. u \in [Window(s) -> Nat]
  BY <1>2 DEF Add
<1>4. ASSUME NEW x \in Window(s)
      PROVE  /\ limit <= x /\ x < to => u[x] = v[x] + 1
             /\ ~(limit <= x /\ x < to) => u[x] = v[x]
  BY <1>2 DEF Add
<1> HIDE DEF u
<1>5. ASSUME NEW x \in Window(s)
      PROVE  LET once == range_begin[s] <= x /\ x < to /\ \A a \in jobs : ~Inside(x, a)
             IN  (once => u[x] = 1) /\ (~once => u[x] = 0)
  <2>1. x \in Int
    BY <1>2
  <2>2. CASE x < limit
    <3>1. u[x] = v[x] /\ x < to
      BY <1>4, <2>1, <2>2
    <3>2. QED BY <2>2, <3>1 DEF Covered
  <2>3. CASE ~(x < limit)
    <3>1. v[x] = 0
      BY <2>3 DEF Covered
    <3>2. ASSUME NEW a \in jobs PROVE ~Inside(x, a)
      <4>1. a.job_end <= limit
        BY DEF Covered
      <4>2. QED BY <1>1, <2>1, <2>3, <4>1 DEF Inside
    <3>3. range_begin[s] <= x /\ limit <= x
      BY <1>1, <2>1, <2>3
    <3>4. CASE x < to
      BY <1>4, <3>1, <3>2, <3>3, <3>4
    <3>5. CASE ~(x < to)
      BY <1>4, <3>1, <3>5
    <3>6. QED BY <3>4, <3>5
  <2>4. QED BY <2>2, <2>3
<1>6. \A a \in jobs : /\ a \in JobRecords /\ range_begin[s] <= a.job_begin
                      /\ a.job_begin < a.job_end /\ a.job_end <= to
  <2>1. SUFFICES ASSUME NEW a \in jobs PROVE /\ a \in JobRecords /\ range_begin[s] <= a.job_begin
                                             /\ a.job_begin < a.job_end /\ a.job_end <= to
    OBVIOUS
  <2>2. /\ a \in JobRecords /\ range_begin[s] <= a.job_begin
        /\ a.job_begin < a.job_end /\ a.job_end <= limit
    BY DEF Covered
  <2>3. QED BY <1>1, <2>2
<1>7. \A a, b \in jobs : a = b \/ a.job_end <= b.job_begin \/ b.job_end <= a.job_begin
  BY DEF Covered
<1>8. Covered(s, to, jobs, u)
  BY <1>3, <1>5, <1>6, <1>7 DEF Covered
<1>9. QED BY <1>8 DEF u

\* Chunks of equal size, one after the other.
LEMMA Chunks ==
  ASSUME NEW k \in Nat \ {0}, NEW n \in Nat
  PROVE  /\ \A c \in 1..n : 0 <= (c - 1) * k /\ (c - 1) * k < c * k /\ c * k <= n * k
         /\ \A c, d \in 1..n : c < d => c * k <= (d - 1) * k
         /\ \A y \in Nat : y < n * k =>
              \E c \in 1..n : (c - 1) * k <= y /\ y < c * k
<1>1. ASSUME NEW c \in 1..n PROVE 0 <= (c - 1) * k /\ (c - 1) * k < c * k /\ c * k <= n * k
  <2>1. c * k = (c - 1) * k + k /\ c - 1 \in Nat
    OBVIOUS
  <2>2. (c - 1) * k \in Nat
    BY <2>1
  <2>3. n * k = c * k + (n - c) * k /\ n - c \in Nat
    OBVIOUS
  <2>4. (n - c) * k \in Nat /\ c * k \in Int
    BY <2>3
  <2>5. QED BY <2>1, <2>2, <2>3, <2>4
<1>2. ASSUME NEW c \in 1..n, NEW d \in 1..n, c < d PROVE c * k <= (d - 1) * k
  <2>1. (d - 1) * k = c * k + (d - 1 - c) * k /\ d - 1 - c \in Nat
    BY <1>2
  <2>2. (d - 1 - c) * k \in Nat /\ c * k \in Int
    BY <2>1
  <2>3. QED BY <2>1, <2>2
<1>3. ASSUME NEW y \in Nat, y < n * k PROVE \E c \in 1..n : (c - 1) * k <= y /\ y < c * k
  <2> DEFINE e == y \div k
             p == e * k
  <2>1. e \in Nat /\ p <= y /\ y < p + k /\ p \in Int
    OBVIOUS
  <2>2. (e + 1) * k = p + k /\ e + 1 \in Nat \ {0} /\ (e + 1) - 1 = e
    BY <2>1
  <2>3. e < n
    <3>1. SUFFICES ASSUME n <= e PROVE FALSE
      BY <2>1
    <3>2. p = n * k + (e - n) * k /\ e - n \in Nat
      BY <2>1, <3>1
    <3> HIDE DEF p
    <3>3. (e - n) * k \in Nat /\ n * k \in Int
      BY <3>2
    <3>4. QED BY <1>3, <2>1, <3>2, <3>3
  <2>4. e + 1 \in 1..n
    BY <2>1, <2>3
  <2>5. ((e + 1) - 1) * k <= y /\ y < (e + 1) * k
    BY <2>1, <2>2
  <2> HIDE DEF e, p
  <2>6. QED BY <2>4, <2>5
<1>4. QED BY <1>1, <1>2, <1>3

\* The batch of a native parallel_for moves the limit to the begin of the caller's chunk.
LEMMA CoveredBatch ==
  ASSUME NEW s \in Native, ~nothingToDo(s), numChunks(s) > 1,
         NEW v, Covered(s, range_begin[s], {}, v)
  PROVE  /\ Covered(s, range_begin[s] + onThreads(s) * step(s),
                    {Batch(s)[c] : c \in DOMAIN Batch(s)}, v)
         /\ \A c, d \in DOMAIN Batch(s) : Batch(s)[c] = Batch(s)[d] => c = d
<1> DEFINE b == Batch(s)
           n == onThreads(s)
           k == step(s)
           from == range_begin[s]
           limit == from + n * k
           jobs == {b[c] : c \in 1..n}
<1>1. from \in Int /\ k \in Nat \ {0} /\ n \in Nat /\ n * k \in Nat
  BY NativeSizes, ParallelForAssumption
<1>2. DOMAIN b = 1..n
  BY DEF Batch
<1>3. \A c \in 1..n : /\ b[c] \in JobRecords /\ b[c].chunk = c - 1
                      /\ b[c].job_begin = from + (c - 1) * k /\ b[c].job_end = from + c * k
  <2>1. b \in Seq(JobRecords) /\ Len(b) = n
    BY SubmittedJobs
  <2>2. \A c \in 1..n : b[c] \in JobRecords
    BY <2>1, <1>2
  <2>3. QED BY <2>2, SubmittedJobs
<1>4. v \in [Window(s) -> Nat] /\ \A x \in Window(s) : x \in Int /\ v[x] = 0
  <2>1. v \in [Window(s) -> Nat] /\ \A x \in Window(s) : x \in Int
    BY ParallelForAssumption DEF Window, Covered
  <2>2. \A x \in Window(s) : ~(from <= x /\ x < from)
    BY <1>1, <2>1
  <2>3. QED BY <2>1, <2>2 DEF Covered
<1> HIDE DEF b, n, k, from
<1>5. \A c, d \in 1..n : b[c] = b[d] => c = d
  <2>1. \A c, d \in 1..n : b[c] = b[d] => c - 1 = d - 1
    BY <1>3
  <2>2. \A c \in 1..n : c \in Int
    BY <1>1
  <2>3. QED BY <2>1, <2>2
<1>6. \A c \in 1..n : (c - 1) * k \in Int /\ c * k \in Int
  BY <1>1
<1>7. \A c \in 1..n : /\ from <= b[c].job_begin /\ b[c].job_begin < b[c].job_end
                      /\ b[c].job_end <= limit
  <2>1. \A c \in 1..n : 0 <= (c - 1) * k /\ (c - 1) * k < c * k /\ c * k <= n * k
    BY <1>1, Chunks
  <2>2. QED BY <1>1, <1>3, <1>6, <2>1
<1>8. ASSUME NEW c \in 1..n, NEW d \in 1..n, c # d
      PROVE  b[c].job_end <= b[d].job_begin \/ b[d].job_end <= b[c].job_begin
  <2>1. c \in Int /\ d \in Int
    BY <1>1
  <2>2. c < d => c * k <= (d - 1) * k
    BY <1>1, Chunks
  <2>3. d < c => d * k <= (c - 1) * k
    BY <1>1, Chunks
  <2>4. QED BY <1>1, <1>3, <1>6, <1>8, <2>1, <2>2, <2>3
<1>9. ASSUME NEW x \in Window(s), from <= x, x < limit PROVE \E c \in 1..n : Inside(x, b[c])
  <2>1. x - from \in Nat /\ x - from < n * k
    BY <1>1, <1>4, <1>9
  <2>2. PICK c \in 1..n : (c - 1) * k <= x - from /\ x - from < c * k
    BY <1>1, <2>1, Chunks
  <2>3. Inside(x, b[c])
    BY <1>1, <1>3, <1>4, <1>6, <2>2 DEF Inside
  <2>4. QED BY <2>3
<1>10. Covered(s, limit, jobs, v)
  <2>1. \A a \in jobs : /\ a \in JobRecords /\ range_begin[s] <= a.job_begin
                        /\ a.job_begin < a.job_end /\ a.job_end <= limit
    BY <1>3, <1>7 DEF from
  <2>2. \A a, d \in jobs : a = d \/ a.job_end <= d.job_begin \/ d.job_end <= a.job_begin
    BY <1>8
  <2>3. \A x \in Window(s) :
          ~(range_begin[s] <= x /\ x < limit /\ \A a \in jobs : ~Inside(x, a))
    BY <1>9 DEF from
  <2> HIDE DEF jobs, limit
  <2>4. QED BY <1>4, <2>1, <2>2, <2>3 DEF Covered
<1>11. QED BY <1>2, <1>5, <1>10 DEF b, n, k, from

-----------------------------------------------------------------------------
(* The invariant of the partition.                                         *)

\* The indices that the caller has handed out or processed are those below.
Limit(s, st, o) ==
  IF st = "new" \/ nothingToDo(s) THEN range_begin[s]
  ELSE IF st = "dispatch" THEN o
  ELSE IF st = "own" THEN range_begin[s] + onThreads(s) * step(s)
  ELSE range_end[s]

Covers(s, st, nxt, o, jobs, v) ==
  /\ st = "new" => o = range_begin[s]
  /\ st = "dispatch" => OffsetAt(s, nxt, o) /\ range_begin[s] <= o
  /\ Covered(s, Limit(s, st, o), jobs, v)

CoverInv ==
  /\ Unique(queue, cur, wpc)
  /\ \A s \in Scopes :
       Covers(s, stage[s], next_chunk[s], offset[s], Pending(queue, cur, wpc, s), visited[s])

\* A step that leaves the scope alone.
SameCover(s) ==
  /\ stage'[s] = stage[s] /\ next_chunk'[s] = next_chunk[s] /\ offset'[s] = offset[s]
  /\ Pending(queue', cur', wpc', s) = Pending(queue, cur, wpc, s)
  /\ visited'[s] = visited[s]

LEMMA CoverFrame ==
  ASSUME CoverInv, NEW s \in Scopes, SameCover(s)
  PROVE  Covers(s, stage'[s], next_chunk'[s], offset'[s],
                Pending(queue', cur', wpc', s), visited'[s])
BY DEF CoverInv, SameCover

LEMMA CoverFrom ==
  ASSUME CoverInv, NEW s \in Scopes, \A t \in Scopes : t # s => SameCover(t),
         Unique(queue', cur', wpc'),
         Covers(s, stage'[s], next_chunk'[s], offset'[s],
                Pending(queue', cur', wpc', s), visited'[s])
  PROVE  CoverInv'
BY CoverFrame DEF CoverInv

LEMMA CoverInit == Init => CoverInv
<1> SUFFICES ASSUME Init PROVE CoverInv
  OBVIOUS
<1>1. Unique(queue, cur, wpc)
  BY DEF Init, Unique
<1>2. ASSUME NEW s \in Scopes
      PROVE  Covers(s, stage[s], next_chunk[s], offset[s], Pending(queue, cur, wpc, s), visited[s])
  <2>1. At(queue, s) = {} /\ Waiting(cur, wpc, s) = {}
    BY DEF Init, At, HeldBy, Waiting
  <2>2. Pending(queue, cur, wpc, s) = {}
    BY <2>1 DEF Pending
  <2>3. stage[s] = "new" /\ offset[s] = range_begin[s] /\ visited[s] = [x \in Window(s) |-> 0]
    BY DEF Init
  <2>4. range_begin[s] \in Int /\ \A x \in Window(s) : x \in Int
    BY ParallelForAssumption DEF Window
  <2>5. \A x \in Window(s) : ~(range_begin[s] <= x /\ x < range_begin[s])
    BY <2>4
  <2>6. Covered(s, range_begin[s], {}, visited[s])
    BY <2>3, <2>5 DEF Covered
  <2>7. QED BY <2>2, <2>3, <2>6 DEF Covers, Limit
<1>3. QED BY <1>1, <1>2 DEF CoverInv

\* The steps of a caller that process no index and move no job.
LEMMA CoverQuiet ==
  ASSUME TypeInv, CountsInv, CoverInv, NEW s \in Scopes,
         EnterNothing(s) \/ Enter(s) \/ Join(s) \/ WaitReturns(s) \/ Destroy(s)
  PROVE  CoverInv'
<1> DEFINE jobs == Pending(queue, cur, wpc, s)
           v == visited[s]
<1>1. UNCHANGED <<queue, cur, wpc, visited, next_chunk, offset>>
  BY DEF EnterNothing, Enter, Join, WaitReturns, Destroy
<1>2. Unique(queue', cur', wpc')
  BY <1>1 DEF CoverInv
<1>3. \A t \in Scopes : t # s => SameCover(t)
  BY <1>1 DEF SameCover, EnterNothing, Enter, Join, WaitReturns, Destroy, TypeInv
<1>4. Covers(s, stage[s], next_chunk[s], offset[s], jobs, v)
  BY DEF CoverInv
<1>5. range_begin[s] \in Int /\ next_chunk[s] \in Nat /\ offset[s] \in Int
  BY ParallelForAssumption DEF TypeInv
<1> HIDE DEF jobs, v
<1>6. Covers(s, stage'[s], next_chunk[s], offset[s], jobs, v)
  <2>1. CASE EnterNothing(s)
    <3>1. stage[s] = "new" /\ stage'[s] = "gone" /\ nothingToDo(s)
      BY <2>1 DEF EnterNothing, TypeInv
    <3>2. QED BY <1>4, <3>1 DEF Covers, Limit
  <2>2. CASE Enter(s)
    <3>1. stage[s] = "new" /\ stage'[s] = "dispatch" /\ ~nothingToDo(s)
      BY <2>2 DEF Enter, TypeInv
    <3>2. next_chunk[s] = 0 /\ offset[s] = range_begin[s]
      BY <1>4, <3>1 DEF CountsInv, Counts, Covers
    <3>3. OffsetAt(s, next_chunk[s], offset[s]) /\ range_begin[s] <= offset[s]
      BY <1>5, <3>1, <3>2, OffsetFirst
    <3>4. Limit(s, stage'[s], offset[s]) = Limit(s, stage[s], offset[s])
      BY <3>1, <3>2 DEF Limit
    <3>5. QED BY <1>4, <3>1, <3>3, <3>4 DEF Covers
  <2>3. CASE Join(s)
    <3>1. /\ stage[s] = "dispatch" /\ stage'[s] = "join" /\ ~nothingToDo(s)
          /\ next_chunk[s] = actual_jobs(s)
      BY <2>3 DEF Join, TypeInv
    <3>2. offset[s] = range_end[s]
      BY <1>4, <1>5, <3>1, OffsetLast DEF Covers
    <3>3. Limit(s, stage'[s], offset[s]) = Limit(s, stage[s], offset[s])
      BY <3>1, <3>2 DEF Limit
    <3>4. QED BY <1>4, <3>1, <3>3 DEF Covers
  <2>4. CASE WaitReturns(s)
    <3>1. stage[s] = "join" /\ stage'[s] = "joined"
      BY <2>4 DEF WaitReturns, TypeInv
    <3>2. QED BY <1>4, <3>1 DEF Covers, Limit
  <2>5. CASE Destroy(s)
    <3>1. stage[s] = "joined" /\ stage'[s] = "gone"
      BY <2>5 DEF Destroy, TypeInv
    <3>2. QED BY <1>4, <3>1 DEF Covers, Limit
  <2>6. QED BY <2>1, <2>2, <2>3, <2>4, <2>5
<1>7. Covers(s, stage'[s], next_chunk'[s], offset'[s],
             Pending(queue', cur', wpc', s), visited'[s])
  BY <1>1, <1>6 DEF jobs, v
<1>8. QED BY <1>2, <1>3, <1>7, CoverFrom

\* The caller of a native parallel_for processes indices itself.
LEMMA CoverCaller ==
  ASSUME TypeInv, CoverInv, NEW s \in Scopes, RunWhole(s) \/ OwnChunk(s)
  PROVE  CoverInv'
<1> DEFINE jobs == Pending(queue, cur, wpc, s)
           limit == Limit(s, stage[s], offset[s])
           v == visited[s]
<1>1. UNCHANGED <<queue, cur, wpc, next_chunk, offset>>
  BY DEF RunWhole, OwnChunk
<1>2. Unique(queue', cur', wpc')
  BY <1>1 DEF CoverInv
<1>3. Covered(s, limit, jobs, v)
  BY DEF CoverInv, Covers
<1>4. s \in Native /\ ~nothingToDo(s)
  BY DEF RunWhole, OwnChunk, TypeInv
<1>5. /\ range_begin[s] \in Int /\ range_end[s] \in Int
      /\ range_end[s] = range_begin[s] + total(s) /\ total(s) \in Nat
  BY <1>4, Sizes
<1>6. /\ limit \in Int /\ range_begin[s] <= limit /\ limit <= range_end[s]
      /\ Process(s, limit, range_end[s])
  <2>1. CASE RunWhole(s)
    <3>1. limit = range_begin[s]
      BY <2>1 DEF RunWhole, Limit
    <3>2. Process(s, range_begin[s], range_end[s])
      BY <2>1 DEF RunWhole
    <3>3. QED BY <1>5, <3>1, <3>2
  <2>2. CASE OwnChunk(s)
    <3>1. stage[s] = "own" /\ numChunks(s) > 1
      BY <2>2 DEF OwnChunk, TypeInv
    <3>2. limit = range_begin[s] + onThreads(s) * step(s)
      BY <1>4, <3>1 DEF Limit
    <3>3. onThreads(s) * step(s) \in Nat /\ onThreads(s) * step(s) <= total(s)
      BY <1>4, <3>1, NativeSizes
    <3>4. Process(s, range_begin[s] + onThreads(s) * step(s), range_end[s])
      BY <2>2 DEF OwnChunk
    <3> HIDE DEF limit
    <3>5. QED BY <1>5, <3>2, <3>3, <3>4
  <2>3. QED BY <2>1, <2>2
<1> HIDE DEF limit
<1>7. /\ visited'[s] = Add(v, limit, range_end[s])
      /\ \A t \in Scopes : t # s => visited'[t] = visited[t]
  <2>1. visited = [x \in Scopes |-> visited[x]]
    BY DEF TypeInv
  <2>2. /\ visited'[s] = [x \in DOMAIN visited[s] |->
                           IF x \in limit .. range_end[s] - 1 THEN visited[s][x] + 1
                                                             ELSE visited[s][x]]
        /\ \A t \in Scopes : t # s => visited'[t] = visited[t]
    BY <1>6, <2>1, Processed
  <2>3. QED BY <2>2 DEF Add
<1> HIDE DEF jobs, v
<1>8. Covered(s, range_end[s], jobs, visited'[s])
  BY <1>3, <1>5, <1>6, <1>7, CoveredOwn
<1>9. \A t \in Scopes : t # s => SameCover(t)
  BY <1>1, <1>7 DEF SameCover, RunWhole, OwnChunk, TypeInv
<1>10. stage'[s] \in {"gone", "join"}
  BY DEF RunWhole, OwnChunk, TypeInv
<1>11. Limit(s, stage'[s], offset[s]) = range_end[s]
  BY <1>4, <1>10 DEF Limit
<1>12. Covers(s, stage'[s], next_chunk'[s], offset'[s],
             Pending(queue', cur', wpc', s), visited'[s])
  BY <1>1, <1>8, <1>10, <1>11 DEF Covers, jobs
<1>13. QED BY <1>2, <1>9, <1>12, CoverFrom

LEMMA CoverDispatch ==
  ASSUME TypeInv, CountsInv, CoverInv, NEW s \in Scopes, Dispatch(s)
  PROVE  CoverInv'
<1> DEFINE i == next_chunk[s]
           jobs == Pending(queue, cur, wpc, s)
           j == [scope |-> s, chunk |-> i, job_begin |-> offset[s],
                 job_end |-> offset[s] + this_chunk(s, i)]
<1>1. /\ j \in JobRecords /\ j.scope = s
      /\ j.job_begin = offset[s] /\ j.job_end = offset[s] + this_chunk(s, i)
  BY DispatchedJob
<1>2. /\ queue' = Append(queue, j) /\ offset'[s] = offset[s] + this_chunk(s, i)
      /\ next_chunk'[s] = i + 1 /\ stage[s] = "dispatch"
      /\ UNCHANGED <<stage, visited, cur, wpc>>
      /\ \A t \in Scopes : t # s => offset'[t] = offset[t] /\ next_chunk'[t] = next_chunk[t]
  BY DEF Dispatch, TypeInv
<1>3. /\ i \in Nat /\ i < actual_jobs(s) /\ offset[s] \in Int /\ ~nothingToDo(s)
      /\ range_begin[s] \in Int
  BY ParallelForAssumption DEF Dispatch, TypeInv
<1> HIDE DEF j
<1>4. OffsetAt(s, i, offset[s]) /\ range_begin[s] <= offset[s] /\ Covered(s, offset[s], jobs, visited[s])
  BY <1>2, <1>3 DEF CoverInv, Covers, Limit
<1>5. OffsetAt(s, i + 1, offset'[s]) /\ this_chunk(s, i) \in Nat \ {0}
  BY <1>2, <1>3, <1>4, OffsetNext
<1>6. /\ offset[s] < j.job_end /\ j.job_end = offset'[s] /\ range_begin[s] <= offset'[s]
      /\ offset'[s] \in Int
  BY <1>1, <1>2, <1>3, <1>4, <1>5
<1>7. Covered(s, offset'[s], jobs \cup {j}, visited[s]) /\ j \notin jobs
  BY <1>1, <1>3, <1>4, <1>6, CoveredMore
<1>8. /\ Unique(queue', cur, wpc)
      /\ Pending(queue', cur, wpc, s) = jobs \cup {j}
      /\ \A t : t # s => Pending(queue', cur, wpc, t) = Pending(queue, cur, wpc, t)
  <2>1. queue \in Seq(JobRecords) /\ cur \in [Workers -> JobRecords \cup {NoJob}]
        /\ Unique(queue, cur, wpc)
    BY DEF TypeInv, CoverInv
  <2>2. \A w \in Workers : wpc[w] = "body" => cur[w] # NoJob
    BY DEF TypeInv
  <2>3. j \notin Pending(queue, cur, wpc, s)
    BY <1>7
  <2> HIDE DEF jobs
  <2>4. Unique(Append(queue, j), cur, wpc)
    BY <1>1, <2>1, <2>2, <2>3, PendingAppend
  <2>5. \A x : x \in Pending(Append(queue, j), cur, wpc, s)
                <=> x \in Pending(queue, cur, wpc, s) \/ x = j
    BY <1>1, <2>1, <2>2, <2>3, PendingAppend
  <2>6. \A t : t # s => Pending(Append(queue, j), cur, wpc, t) = Pending(queue, cur, wpc, t)
    BY <1>1, <2>1, <2>2, <2>3, PendingAppend
  <2>7. QED BY <1>2, <2>4, <2>5, <2>6 DEF jobs
<1> HIDE DEF jobs
<1>9. \A t \in Scopes : t # s => SameCover(t)
  BY <1>2, <1>8 DEF SameCover
<1>10. Limit(s, stage'[s], offset'[s]) = offset'[s]
  BY <1>2, <1>3 DEF Limit
<1>11. Covers(s, stage'[s], next_chunk'[s], offset'[s],
             Pending(queue', cur', wpc', s), visited'[s])
  BY <1>2, <1>5, <1>6, <1>7, <1>8, <1>10 DEF Covers
<1>12. QED BY <1>2, <1>8, <1>9, <1>11, CoverFrom

LEMMA CoverSubmit ==
  ASSUME TypeInv, CountsInv, CoverInv, NEW s \in Scopes, Submit(s)
  PROVE  CoverInv'
<1> DEFINE limit == range_begin[s] + onThreads(s) * step(s)
           jobs == {Batch(s)[c] : c \in DOMAIN Batch(s)}
           q == queue \o Batch(s)
<1>1. s \in Native /\ ~nothingToDo(s) /\ numChunks(s) > 1 /\ stage[s] = "new"
  BY DEF Submit
<1>2. /\ queue' = q /\ stage'[s] = "own"
      /\ \A t \in Scopes : t # s => stage'[t] = stage[t]
      /\ UNCHANGED <<next_chunk, offset, visited, cur, wpc>>
  BY DEF Submit, Batch, TypeInv
<1>3. /\ Batch(s) \in Seq(JobRecords)
      /\ \A i \in DOMAIN Batch(s) : Batch(s)[i].scope = s
  BY <1>1, SubmittedJobs DEF Batch
<1>4. Pending(queue, cur, wpc, s) = {}
  <2>1. Outstanding(queue, cur, s) = 0
    BY <1>1 DEF CountsInv, Counts
  <2>2. At(queue, s) = {} /\ HeldBy(cur, s) = {}
    BY <2>1, NoUsers
  <2>3. QED BY <2>2 DEF Pending, Waiting
<1>5. Covered(s, range_begin[s], {}, visited[s])
  BY <1>1, <1>4 DEF CoverInv, Covers, Limit
<1>6. Covered(s, limit, jobs, visited[s])
      /\ \A i, k \in DOMAIN Batch(s) : Batch(s)[i] = Batch(s)[k] => i = k
  BY <1>1, <1>5, CoveredBatch
<1>7. /\ Unique(q, cur, wpc)
      /\ Pending(q, cur, wpc, s) = jobs
      /\ \A t : t # s => Pending(q, cur, wpc, t) = Pending(queue, cur, wpc, t)
  <2>1. queue \in Seq(JobRecords) /\ cur \in [Workers -> JobRecords \cup {NoJob}]
        /\ Unique(queue, cur, wpc)
    BY DEF TypeInv, CoverInv
  <2>2. \A w \in Workers : wpc[w] = "body" => cur[w] # NoJob
    BY DEF TypeInv
  <2>3. Unique(q, cur, wpc)
    BY <1>3, <1>4, <1>6, <2>1, <2>2, PendingConcat
  <2>4. Pending(q, cur, wpc, s) = jobs
    BY <1>3, <1>4, <1>6, <2>1, <2>2, PendingConcat
  <2>5. ASSUME NEW t, t # s PROVE Pending(q, cur, wpc, t) = Pending(queue, cur, wpc, t)
    <3>1. \A i \in DOMAIN Batch(s) : Batch(s)[i].scope # t
      BY <1>3, <2>5
    <3>2. QED BY <1>3, <2>1, <3>1, ConcatOther
  <2>6. QED BY <2>3, <2>4, <2>5
<1> HIDE DEF jobs, q
<1>8. \A t \in Scopes : t # s => SameCover(t)
  BY <1>2, <1>7 DEF SameCover
<1>9. Limit(s, stage'[s], offset'[s]) = limit
  BY <1>1, <1>2 DEF Limit
<1> HIDE DEF limit
<1>10. Covers(s, stage'[s], next_chunk'[s], offset'[s],
              Pending(queue', cur', wpc', s), visited'[s])
  BY <1>2, <1>6, <1>7, <1>9 DEF Covers
<1>11. QED BY <1>2, <1>7, <1>8, <1>10, CoverFrom

LEMMA CoverStart ==
  ASSUME TypeInv, CoverInv, NEW w \in Workers, Start(w)
  PROVE  CoverInv'
<1> DEFINE d == [cur EXCEPT ![w] = Head(queue)]
           o == [wpc EXCEPT ![w] = "body"]
<1>1. /\ queue # <<>> /\ wpc[w] = "idle" /\ cur[w] = NoJob
      /\ queue' = Tail(queue) /\ cur' = d /\ wpc' = o
      /\ UNCHANGED <<stage, next_chunk, offset, visited>>
  BY DEF Start, TypeInv, callerVars
<1>2. /\ queue \in Seq(JobRecords) /\ cur \in [Workers -> JobRecords \cup {NoJob}]
      /\ wpc \in [Workers -> {"idle", "body", "notify", "done"}]
      /\ \A v \in Workers : wpc[v] = "body" => cur[v] # NoJob
      /\ Unique(queue, cur, wpc)
  BY DEF TypeInv, CoverInv
<1>3. Unique(Tail(queue), d, o)
  BY <1>1, <1>2, PendingStart
<1>4. \A t : Pending(Tail(queue), d, o, t) = Pending(queue, cur, wpc, t)
  BY <1>1, <1>2, PendingStart
<1> HIDE DEF d, o
<1>5. \A t \in Scopes : SameCover(t)
  BY <1>1, <1>4 DEF SameCover
<1>6. QED BY <1>1, <1>3, <1>5, CoverFrame DEF CoverInv

LEMMA CoverBody ==
  ASSUME TypeInv, CoverInv, NEW w \in Workers, Body(w)
  PROVE  CoverInv'
<1> DEFINE j == cur[w]
           s == j.scope
           next == IF s = Root THEN "notify" ELSE "done"
           o == [wpc EXCEPT ![w] = next]
           jobs == Pending(queue, cur, wpc, s)
           limit == Limit(s, stage[s], offset[s])
<1>1. /\ wpc[w] = "body" /\ j \in JobRecords /\ j # NoJob /\ s \in Scopes
      /\ next \in {"notify", "done"} /\ wpc' = o
      /\ UNCHANGED <<stage, next_chunk, offset, queue, cur>>
      /\ Process(s, j.job_begin, j.job_end)
  BY DEF Body, TypeInv, JobRecords, callerVars
<1>2. /\ queue \in Seq(JobRecords) /\ cur \in [Workers -> JobRecords \cup {NoJob}]
      /\ wpc \in [Workers -> {"idle", "body", "notify", "done"}]
      /\ visited = [x \in Scopes |-> visited[x]]
      /\ Unique(queue, cur, wpc)
  BY DEF TypeInv, CoverInv
<1> HIDE DEF next
<1>3. o[w] # "body" /\ \A v \in Workers : v # w => o[v] = wpc[v]
  BY <1>1, <1>2
<1> HIDE DEF j, s, o, jobs
<1>4. cur[w] = j /\ j.scope = s /\ jobs = Pending(queue, cur, wpc, s)
  BY DEF j, s, jobs
<1>5. Unique(queue, cur, o) /\ j \in jobs /\ Pending(queue, cur, o, s) = jobs \ {j}
  <2>1. Unique(queue, cur, o)
    BY <1>2, <1>3 DEF Unique
  <2>2. w \in Waiting(cur, wpc, s) /\ Waiting(cur, o, s) = Waiting(cur, wpc, s) \ {w}
    BY <1>1, <1>3, <1>4 DEF Waiting, HeldBy
  <2>3. \A i \in At(queue, s) : queue[i] # j
    BY <1>1, <1>2, <1>4 DEF Unique, At
  <2>4. \A v \in Waiting(cur, wpc, s) : v # w => cur[v] # j
    BY <1>1, <1>2, <1>4 DEF Unique, Waiting, HeldBy
  <2>5. QED BY <1>4, <2>1, <2>2, <2>3, <2>4 DEF Pending
<1>6. ASSUME NEW t, t # s PROVE Pending(queue, cur, o, t) = Pending(queue, cur, wpc, t)
  BY <1>3, <1>4, <1>6, PendingOther
<1>7. Covers(s, stage[s], next_chunk[s], offset[s], jobs, visited[s])
  BY <1>1, <1>4 DEF CoverInv
<1>8. limit \in Int
  <2>1. offset[s] \in Int /\ range_begin[s] \in Int /\ range_end[s] \in Int
    BY <1>1, ParallelForAssumption DEF TypeInv
  <2>2. stage[s] = "own" => onThreads(s) * step(s) \in Int
    BY <1>1, NativeSizes DEF TypeInv
  <2>3. QED BY <2>1, <2>2 DEF Limit
<1>9. /\ visited'[s] = Add(visited[s], j.job_begin, j.job_end)
      /\ \A t \in Scopes : t # s => visited'[t] = visited[t]
  <2>1. /\ visited'[s] = [x \in DOMAIN visited[s] |->
                           IF x \in j.job_begin .. j.job_end - 1 THEN visited[s][x] + 1
                                                                 ELSE visited[s][x]]
        /\ \A t \in Scopes : t # s => visited'[t] = visited[t]
    <3> DEFINE from == j.job_begin
               to == j.job_end
    <3>1. Process(s, from, to) /\ s \in Scopes
      BY <1>1
    <3> HIDE DEF from, to
    <3>2. /\ visited'[s] = [x \in DOMAIN visited[s] |->
                             IF x \in from .. to - 1 THEN visited[s][x] + 1 ELSE visited[s][x]]
          /\ \A t \in Scopes : t # s => visited'[t] = visited[t]
      BY <1>2, <3>1, Processed
    <3>3. QED BY <3>2 DEF from, to
  <2>2. QED BY <2>1 DEF Add
<1> HIDE DEF limit
<1>10. Covered(s, limit, jobs, visited[s])
  BY <1>7 DEF Covers, limit
<1>11. Covered(s, limit, jobs \ {j}, visited'[s])
  BY <1>1, <1>5, <1>8, <1>9, <1>10, CoveredRun
<1>12. \A t \in Scopes : t # s => SameCover(t)
  BY <1>1, <1>6, <1>9 DEF SameCover
<1>13. Covers(s, stage'[s], next_chunk'[s], offset'[s],
              Pending(queue', cur', wpc', s), visited'[s])
  BY <1>1, <1>5, <1>7, <1>11 DEF Covers, limit
<1>14. QED BY <1>1, <1>5, <1>12, <1>13, CoverFrom

\* A worker that has run its job.
LEMMA CoverDone ==
  ASSUME TypeInv, CoverInv, NEW w \in Workers,
         NotifyChannel(w) \/ NotifyAndRelease(w) \/ Notify(w)
  PROVE  CoverInv'
<1>1. UNCHANGED <<stage, next_chunk, offset, visited, queue>>
  BY DEF NotifyChannel, NotifyAndRelease, Notify, callerVars
<1>2. \A v \in Workers : (wpc'[v] = "body") <=> (wpc[v] = "body")
  BY DEF NotifyChannel, NotifyAndRelease, Notify, TypeInv
<1>3. \A v \in Workers : wpc[v] = "body" => cur'[v] = cur[v]
  BY DEF NotifyChannel, NotifyAndRelease, Notify, TypeInv
<1>4. Unique(queue, cur, wpc) => Unique(queue, cur', wpc')
  BY <1>2, <1>3, PendingSame
<1>5. ASSUME NEW t PROVE Pending(queue, cur', wpc', t) = Pending(queue, cur, wpc, t)
  BY <1>2, <1>3, PendingSame
<1>6. \A t \in Scopes : SameCover(t)
  BY <1>1, <1>5 DEF SameCover
<1>7. QED BY <1>1, <1>4, <1>6, CoverFrame DEF CoverInv

LEMMA CoverStep == TypeInv /\ CountsInv /\ CoverInv /\ [Next]_vars => CoverInv'
<1> SUFFICES ASSUME TypeInv, CountsInv, CoverInv, [Next]_vars PROVE CoverInv'
  OBVIOUS
<1>1. CASE UNCHANGED vars
  BY <1>1 DEF vars, CoverInv
<1>2. ASSUME NEW s \in Scopes, CallerStep(s) PROVE CoverInv'
  BY <1>2, CoverQuiet, CoverCaller, CoverDispatch, CoverSubmit DEF CallerStep
<1>3. ASSUME NEW w \in Workers, WorkerStep(w) PROVE CoverInv'
  BY <1>3, CoverStart, CoverBody, CoverDone DEF WorkerStep
<1>4. CASE ConsumerEnds
  BY <1>4 DEF ConsumerEnds, CoverInv, callerVars
<1>5. QED BY <1>1, <1>2, <1>3, <1>4 DEF Next, Finished

\* When parallel_for has joined, the partition of _parallel_for (JobQue::parallel_for
\* for a native call) has visited every index of the range exactly once and no other,
\* whatever the range, the number of jobs and the number of threads.
THEOREM PartitionIsExact == Spec => []EachIndexOnce
<1>1. TypeInv /\ CountsInv /\ CoverInv => EachIndexOnce
  <2> SUFFICES ASSUME TypeInv, CountsInv, CoverInv, NEW s \in Scopes,
                      stage[s] \in {"joined", "gone"}, NEW x \in Window(s)
               PROVE  visited[s][x] =
                        IF ~nothingToDo(s) /\ x \in range_begin[s] .. range_end[s] - 1
                        THEN 1 ELSE 0
    BY DEF EachIndexOnce
  <2>1. Outstanding(queue, cur, s) = 0
    BY DEF CountsInv, Counts
  <2>2. At(queue, s) = {} /\ HeldBy(cur, s) = {}
    BY <2>1, NoUsers
  <2>3. Pending(queue, cur, wpc, s) = {}
    BY <2>2 DEF Pending, Waiting
  <2>4. Covered(s, Limit(s, stage[s], offset[s]), {}, visited[s])
    BY <2>3 DEF CoverInv, Covers
  <2>5. x \in Int /\ range_begin[s] \in Int /\ range_end[s] \in Int
    BY ParallelForAssumption DEF Window
  <2>6. CASE nothingToDo(s)
    <3>1. Limit(s, stage[s], offset[s]) = range_begin[s]
      BY <2>6 DEF Limit
    <3>2. ~(range_begin[s] <= x /\ x < range_begin[s])
      BY <2>5
    <3>3. QED BY <2>4, <2>6, <3>1, <3>2 DEF Covered
  <2>7. CASE ~nothingToDo(s)
    <3>1. Limit(s, stage[s], offset[s]) = range_end[s]
      BY <2>7 DEF Limit
    <3>2. range_begin[s] <= x /\ x < range_end[s] <=> x \in range_begin[s] .. range_end[s] - 1
      BY <2>5
    <3>3. QED BY <2>4, <2>7, <3>1, <3>2 DEF Covered
  <2>8. QED BY <2>6, <2>7
<1>2. QED BY TypeInit, TypeStep, CountsInit, CountsStep, CoverInit, CoverStep, <1>1, PTL DEF Spec
=============================================================================
