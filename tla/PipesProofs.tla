----------------------------- MODULE PipesProofs -----------------------------
(***************************************************************************)
(* The safety of channels and of streams, for any jobs, consumers, items   *)
(* and operations.                                                         *)
(*                                                                         *)
(* For DataAlive the invariant relates every Feature to the push it comes  *)
(* from: the context it names (none for the owner's items) is the one that *)
(* allocated the data.  Since no item is pushed twice, Allocator then      *)
(* finds that very context, and the Feature keeps it.                      *)
(***************************************************************************)
EXTENDS MCPipes, FiniteSetTheorems, SequenceTheorems, TLAPS

Features == [data : Items, from : Jobs \cup {Null}]

\* The push a Feature comes from.
PushOf(f) == <<f.data, itOwner(f)>>

Inv ==
  /\ pipe \in Seq(Features) /\ forwarded \in Seq(Features)
  /\ pushed \in Seq(Items \X Producers)
  /\ \A f \in ToSet(pipe) : PushOf(f) \in ToSet(pushed)
  /\ \A f \in ToSet(forwarded) : PushOf(f) \in ToSet(pushed)
  /\ tail = NoFeature \/ PushOf(tail) \in ToSet(pushed)
  /\ \A x, y \in ToSet(pushed) : x[1] = y[1] => x = y

-----------------------------------------------------------------------------
(* Entries of sequences.                                                   *)

LEMMA AppendEntries ==
  ASSUME NEW S, NEW q \in Seq(S), NEW e \in S
  PROVE  ToSet(Append(q, e)) = ToSet(q) \cup {e} /\ Append(q, e) \in Seq(S)
<1> DEFINE r == Append(q, e)
           n == Len(q)
<1>1. n \in Nat /\ DOMAIN q = 1..n /\ DOMAIN r = 1..(n + 1) /\ r \in Seq(S)
  OBVIOUS
<1>2. r[n + 1] = e /\ \A i \in 1..n : r[i] = q[i]
  OBVIOUS
<1> HIDE DEF n, r
<1>3. ASSUME NEW x \in ToSet(r) PROVE x \in ToSet(q) \cup {e}
  <2>1. PICK i \in 1..(n + 1) : x = r[i]
    BY <1>1 DEF ToSet
  <2>2. i \in 1..n \/ i = n + 1
    BY <1>1
  <2>3. QED BY <2>1, <2>2, <1>1, <1>2 DEF ToSet
<1>4. ASSUME NEW x \in ToSet(q) \cup {e} PROVE x \in ToSet(r)
  <2>1. CASE x = e
    <3>1. n + 1 \in 1..(n + 1)
      BY <1>1
    <3>2. QED BY <2>1, <3>1, <1>1, <1>2 DEF ToSet
  <2>2. CASE x \in ToSet(q)
    <3>1. PICK i \in 1..n : x = q[i]
      BY <2>2, <1>1 DEF ToSet
    <3>2. i \in 1..(n + 1)
      BY <1>1
    <3>3. QED BY <3>1, <3>2, <1>1, <1>2 DEF ToSet
  <2>3. QED BY <2>1, <2>2
<1>5. QED BY <1>1, <1>3, <1>4 DEF r

LEMMA TwoAppends ==
  ASSUME NEW S, NEW q \in Seq(S), NEW a \in S, NEW b \in S
  PROVE  q \o <<a, b>> = Append(Append(q, a), b) /\ Append(q, a) \in Seq(S)
OBVIOUS

LEMMA AppendTwo ==
  ASSUME NEW S, NEW q \in Seq(S), NEW a \in S, NEW b \in S
  PROVE  ToSet(q \o <<a, b>>) = ToSet(q) \cup {a, b} /\ q \o <<a, b>> \in Seq(S)
<1>1. q \o <<a, b>> = Append(Append(q, a), b)
  BY TwoAppends
<1>2. ToSet(Append(q, a)) = ToSet(q) \cup {a} /\ Append(q, a) \in Seq(S)
  BY AppendEntries
<1>3. /\ ToSet(Append(Append(q, a), b)) = ToSet(Append(q, a)) \cup {b}
      /\ Append(Append(q, a), b) \in Seq(S)
  BY <1>2, AppendEntries
<1>4. QED BY <1>1, <1>2, <1>3

LEMMA ConcatEntries ==
  ASSUME NEW S, NEW q \in Seq(S), NEW r \in Seq(S)
  PROVE  ToSet(q \o r) \subseteq ToSet(q) \cup ToSet(r) /\ q \o r \in Seq(S)
<1> DEFINE c == q \o r
           n == Len(q)
           m == Len(r)
<1>1. n \in Nat /\ m \in Nat /\ DOMAIN q = 1..n /\ DOMAIN r = 1..m /\ DOMAIN c = 1..(n + m)
      /\ c \in Seq(S)
  OBVIOUS
<1>2. \A i \in 1..n : c[i] = q[i]
  OBVIOUS
<1>3. \A i \in (n + 1)..(n + m) : c[i] = r[i - n]
  OBVIOUS
<1> HIDE DEF n, m, c
<1>4. ASSUME NEW x \in ToSet(c) PROVE x \in ToSet(q) \cup ToSet(r)
  <2>1. PICK i \in 1..(n + m) : x = c[i]
    BY <1>1 DEF ToSet
  <2>2. CASE i \in 1..n
    BY <2>1, <2>2, <1>1, <1>2 DEF ToSet
  <2>3. CASE i \in (n + 1)..(n + m)
    <3>1. i - n \in 1..m
      BY <1>1, <2>3
    <3>2. QED BY <3>1, <2>1, <2>3, <1>1, <1>3 DEF ToSet
  <2>4. QED BY <1>1, <2>2, <2>3
<1>5. QED BY <1>1, <1>4 DEF c

LEMMA HeadAndTail ==
  ASSUME NEW S, NEW q \in Seq(S), q # <<>>
  PROVE  Head(q) \in ToSet(q) /\ Tail(q) \in Seq(S) /\ ToSet(Tail(q)) \subseteq ToSet(q)
<1> DEFINE r == Tail(q)
           n == Len(q)
<1>1. n \in Nat \ {0} /\ DOMAIN q = 1..n /\ DOMAIN r = 1..(n - 1) /\ r \in Seq(S)
  OBVIOUS
<1>2. Head(q) = q[1] /\ \A i \in 1..(n - 1) : r[i] = q[i + 1]
  OBVIOUS
<1> HIDE DEF n, r
<1>3. 1 \in 1..n /\ \A i \in 1..(n - 1) : i + 1 \in 1..n
  BY <1>1
<1>4. Head(q) \in ToSet(q) /\ ToSet(r) \subseteq ToSet(q)
  BY <1>1, <1>2, <1>3 DEF ToSet
<1>5. QED BY <1>1, <1>4 DEF r

\* erase keeps some of the entries.
LEMMA InOrderEntries ==
  ASSUME NEW S, NEW q \in Seq(S), NEW I \in SUBSET DOMAIN q, IsFiniteSet(I),
         NEW r \in InOrder(q, I)
  PROVE  r \in Seq(S) /\ ToSet(r) \subseteq ToSet(q)
<1>1. PICK f \in [1 .. Cardinality(I) -> I] : r = [i \in DOMAIN f |-> q[f[i]]]
  BY DEF InOrder
<1>2. Cardinality(I) \in Nat
  BY FS_CardinalityType
<1>3. \A i \in 1 .. Cardinality(I) : f[i] \in DOMAIN q /\ q[f[i]] \in S /\ r[i] = q[f[i]]
  <2>1. \A k \in DOMAIN q : q[k] \in S
    OBVIOUS
  <2>2. QED BY <1>1, <2>1
<1>4. DOMAIN r = 1 .. Cardinality(I) /\ r \in [1 .. Cardinality(I) -> S]
  BY <1>1, <1>3
<1>5. QED BY <1>2, <1>3, <1>4, IsASeq DEF ToSet

-----------------------------------------------------------------------------
(* Pushes.                                                                 *)

\* The context push gives to a Feature is the one that pushes.
LEMMA MadeBy ==
  ASSUME NEW p \in Producers, NEW d \in Items
  PROVE  MakeFeature(p, d) \in Features /\ PushOf(MakeFeature(p, d)) = <<d, p>>
BY ChannelAssumption DEF MakeFeature, PushOf, itOwner, Features, Producers

\* With one push for each item, Allocator finds it.
LEMMA AllocatorPushed ==
  ASSUME Inv, NEW d, NEW p, <<d, p>> \in ToSet(pushed)
  PROVE  Allocator(d) = p
<1> DEFINE i == CHOOSE k \in DOMAIN pushed : pushed[k][1] = d
<1>1. \E k \in DOMAIN pushed : pushed[k][1] = d
  BY DEF ToSet
<1>2. i \in DOMAIN pushed /\ pushed[i][1] = d
  BY <1>1
<1>3. pushed[i] = <<d, p>>
  BY <1>2 DEF Inv, ToSet
<1>4. QED BY <1>3 DEF Allocator

LEMMA NewItem ==
  ASSUME Inv, NEW d, d \notin PushedItems, NEW x \in ToSet(pushed)
  PROVE  x[1] # d
BY DEF PushedItems, ToSet

-----------------------------------------------------------------------------
(* One lemma for each kind of step.                                        *)

LEMMA InitInv == Init => Inv
<1> SUFFICES ASSUME Init PROVE Inv
  OBVIOUS
<1>1. ToSet(<<>>) = {}
  BY DEF ToSet
<1>2. \A S : <<>> \in Seq(S)
  OBVIOUS
<1>3. QED BY <1>1, <1>2 DEF Init, Inv

LEMMA PushInv ==
  ASSUME Inv, NEW p \in Producers, NEW d \in Items, push(p, d)
  PROVE  Inv'
<1>1. /\ d \notin PushedItems
      /\ pipe' = Append(pipe, MakeFeature(p, d)) /\ pushed' = Append(pushed, <<d, p>>)
      /\ UNCHANGED <<forwarded, tail>>
  BY DEF push
<1>2. pipe \in Seq(Features) /\ pushed \in Seq(Items \X Producers)
  BY DEF Inv
<1>3. /\ ToSet(pipe') = ToSet(pipe) \cup {MakeFeature(p, d)} /\ pipe' \in Seq(Features)
      /\ PushOf(MakeFeature(p, d)) = <<d, p>>
  BY <1>1, <1>2, MadeBy, AppendEntries
<1>4. ToSet(pushed') = ToSet(pushed) \cup {<<d, p>>} /\ pushed' \in Seq(Items \X Producers)
  BY <1>1, <1>2, AppendEntries
<1>5. \A x, y \in ToSet(pushed') : x[1] = y[1] => x = y
  BY <1>1, <1>4, NewItem DEF Inv
<1>6. \A f \in ToSet(pipe') : PushOf(f) \in ToSet(pushed')
  BY <1>3, <1>4 DEF Inv
<1>7. \A f \in ToSet(forwarded) : PushOf(f) \in ToSet(pushed')
  BY <1>4 DEF Inv
<1>8. tail = NoFeature \/ PushOf(tail) \in ToSet(pushed')
  BY <1>4 DEF Inv
<1>9. QED BY <1>1, <1>3, <1>4, <1>5, <1>6, <1>7, <1>8 DEF Inv, PushOf, itOwner

\* A batch is two pushes in one critical section.
LEMMA PushBatchInv ==
  ASSUME Inv, NEW p \in Producers, NEW d \in Items, NEW e \in Items, pushBatch(p, d, e)
  PROVE  Inv'
<1>1. /\ d # e /\ d \notin PushedItems /\ e \notin PushedItems
      /\ pipe' = pipe \o <<MakeFeature(p, d), MakeFeature(p, e)>>
      /\ pushed' = pushed \o <<<<d, p>>, <<e, p>>>>
      /\ UNCHANGED <<forwarded, tail>>
  BY DEF pushBatch
<1>2. pipe \in Seq(Features) /\ pushed \in Seq(Items \X Producers)
  BY DEF Inv
<1> DEFINE fd == MakeFeature(p, d)
           fe == MakeFeature(p, e)
           xd == <<d, p>>
           xe == <<e, p>>
<1>3. /\ fd \in Features /\ fe \in Features
      /\ PushOf(fd) = xd /\ PushOf(fe) = xe
      /\ xd \in Items \X Producers /\ xe \in Items \X Producers
      /\ xd[1] = d /\ xe[1] = e
  BY MadeBy
<1> HIDE DEF fd, fe, xd, xe
<1>4. pipe' = pipe \o <<fd, fe>>
  BY <1>1 DEF fd, fe
<1>5. pushed' = pushed \o <<xd, xe>>
  BY <1>1 DEF xd, xe
<1>6. ToSet(pipe') = ToSet(pipe) \cup {fd, fe} /\ pipe' \in Seq(Features)
  <2>1. pipe \in Seq(Features) /\ fd \in Features /\ fe \in Features
    BY <1>2, <1>3
  <2>2. ToSet(pipe \o <<fd, fe>>) = ToSet(pipe) \cup {fd, fe} /\ pipe \o <<fd, fe>> \in Seq(Features)
    BY <2>1, AppendTwo
  <2>3. QED BY <2>2, <1>4
<1>7. ToSet(pushed') = ToSet(pushed) \cup {xd, xe} /\ pushed' \in Seq(Items \X Producers)
  <2> DEFINE P == Items \X Producers
  <2>1. pushed \in Seq(P) /\ xd \in P /\ xe \in P
    BY <1>2, <1>3
  <2> HIDE DEF P
  <2>2. ToSet(pushed \o <<xd, xe>>) = ToSet(pushed) \cup {xd, xe} /\ pushed \o <<xd, xe>> \in Seq(P)
    BY <2>1, AppendTwo
  <2>3. QED BY <2>2, <1>5 DEF P
<1>8. \A x, y \in ToSet(pushed') : x[1] = y[1] => x = y
  <2>1. \A x \in ToSet(pushed) : x[1] # d /\ x[1] # e
    BY <1>1, NewItem
  <2>2. \A x, y \in ToSet(pushed) : x[1] = y[1] => x = y
    BY DEF Inv
  <2>3. d # e /\ xd[1] = d /\ xe[1] = e
    BY <1>1, <1>3
  <2>4. QED BY <2>1, <2>2, <2>3, <1>7
<1>9. \A f \in ToSet(pipe') : PushOf(f) \in ToSet(pushed')
  BY <1>3, <1>6, <1>7 DEF Inv
<1>10. \A f \in ToSet(forwarded) : PushOf(f) \in ToSet(pushed')
  BY <1>7 DEF Inv
<1>11. tail = NoFeature \/ PushOf(tail) \in ToSet(pushed')
  BY <1>7 DEF Inv
<1>12. QED BY <1>1, <1>6, <1>7, <1>8, <1>9, <1>10, <1>11 DEF Inv, PushOf, itOwner

\* pop and try_pop move the front Feature to tail.
LEMMA TakeInv ==
  ASSUME Inv, pipe # <<>>, TakeFront, UNCHANGED <<forwarded, pushed>>
  PROVE  Inv'
<1>1. tail' = Head(pipe) /\ pipe' = Tail(pipe)
  BY DEF TakeFront
<1>2. Head(pipe) \in ToSet(pipe) /\ pipe' \in Seq(Features) /\ ToSet(pipe') \subseteq ToSet(pipe)
  BY <1>1, HeadAndTail DEF Inv
<1>3. PushOf(tail') \in ToSet(pushed)
  BY <1>1, <1>2 DEF Inv
<1>4. \A f \in ToSet(pipe') : PushOf(f) \in ToSet(pushed)
  BY <1>2 DEF Inv
<1>5. QED BY <1>2, <1>3, <1>4 DEF Inv, PushOf, itOwner

\* gather, gather_ex and gather_and_forward: Features leave the pipe, and go nowhere or
\* to the other channel.
LEMMA GatherInv ==
  ASSUME Inv, pipe' \in Seq(Features), ToSet(pipe') \subseteq ToSet(pipe),
         forwarded' = forwarded \/ forwarded' = forwarded \o pipe, UNCHANGED <<tail, pushed>>
  PROVE  Inv'
<1>1. ToSet(forwarded') \subseteq ToSet(forwarded) \cup ToSet(pipe) /\ forwarded' \in Seq(Features)
  <2>1. pipe \in Seq(Features) /\ forwarded \in Seq(Features)
    BY DEF Inv
  <2>2. CASE forwarded' = forwarded
    BY <2>1, <2>2
  <2>3. CASE forwarded' = forwarded \o pipe
    BY <2>1, <2>3, ConcatEntries
  <2>4. QED BY <2>2, <2>3
<1>2. \A f \in ToSet(forwarded') : PushOf(f) \in ToSet(pushed)
  BY <1>1 DEF Inv
<1>3. \A f \in ToSet(pipe') : PushOf(f) \in ToSet(pushed)
  BY DEF Inv
<1>4. QED BY <1>1, <1>2, <1>3 DEF Inv, PushOf, itOwner

LEMMA GatherExInv ==
  ASSUME Inv, NEW p \in Producers, gatherEx(p)
  PROVE  Inv'
<1> DEFINE mine == {i \in DOMAIN pipe : itOwner(pipe[i]) = p}
           others == DOMAIN pipe \ mine
<1>1. pipe' \in InOrder(pipe, others) /\ UNCHANGED <<forwarded, tail, pushed>>
  BY DEF gatherEx
<1>2. pipe \in Seq(Features) /\ others \in SUBSET DOMAIN pipe
  BY DEF Inv
<1>3. IsFiniteSet(others)
  <2>1. DOMAIN pipe = 1 .. Len(pipe) /\ Len(pipe) \in Nat
    BY <1>2
  <2>2. IsFiniteSet(DOMAIN pipe)
    BY <2>1, FS_Interval
  <2>3. QED BY <1>2, <2>2, FS_Subset
<1> HIDE DEF others
<1>4. pipe' \in Seq(Features) /\ ToSet(pipe') \subseteq ToSet(pipe)
  BY <1>1, <1>2, <1>3, InOrderEntries
<1>5. QED BY <1>1, <1>4, GatherInv

LEMMA ProducerInv ==
  ASSUME Inv, NEW p \in Producers, ProducerStep(p) \/ Notify(p) \/ JobReturns(p)
  PROVE  Inv'
<1>1. CASE \E d \in Items : push(p, d)
  BY <1>1, PushInv
<1>2. CASE \E d, e \in Items : pushBatch(p, d, e)
  BY <1>2, PushBatchInv
<1>3. CASE gatherEx(p)
  BY <1>3, GatherExInv
<1>4. CASE Notify(p) \/ JobReturns(p)
  BY <1>4 DEF Notify, JobReturns, Inv, PushOf, itOwner
<1>5. QED BY <1>1, <1>2, <1>3, <1>4 DEF ProducerStep

LEMMA ConsumerInv ==
  ASSUME Inv, NEW c \in Consumers, ConsumerCall(c) \/ LoopStep(c)
  PROVE  Inv'
<1>1. CASE PopTake(c)
  BY <1>1, TakeInv DEF PopTake
<1>2. CASE tryPop(c)
  BY <1>2, TakeInv DEF tryPop
<1>3. CASE gather(c) \/ gather_and_forward(c)
  <2>1. pipe' = <<>> /\ UNCHANGED <<tail, pushed>>
        /\ (forwarded' = forwarded \/ forwarded' = forwarded \o pipe)
    BY <1>3 DEF gather, gather_and_forward
  <2>2. pipe' \in Seq(Features) /\ ToSet(pipe') \subseteq ToSet(pipe)
    BY <2>1 DEF ToSet
  <2>3. QED BY <2>1, <2>2, GatherInv
<1>4. CASE PopNothing(c)
  BY <1>4 DEF PopNothing, Inv, PushOf, itOwner
<1>5. CASE ForEach(c) \/ PopWait(c) \/ UseEnd(c)
  BY <1>5 DEF ForEach, PopWait, UseEnd, Inv, PushOf, itOwner
<1>6. QED BY <1>1, <1>2, <1>3, <1>4, <1>5 DEF ConsumerCall, LoopStep

LEMMA NextInv == Inv /\ [Next]_vars => Inv'
<1> SUFFICES ASSUME Inv, [Next]_vars PROVE Inv'
  OBVIOUS
<1>1. CASE \E p \in Producers : ProducerStep(p) \/ Notify(p) \/ JobReturns(p)
  BY <1>1, ProducerInv
<1>2. CASE \E c \in Consumers : ConsumerCall(c) \/ LoopStep(c)
  BY <1>2, ConsumerInv
<1>3. CASE \E p \in Jobs : append(p)
  BY <1>3 DEF append, Inv, PushOf, itOwner
<1>4. CASE UNCHANGED vars
  BY <1>4 DEF vars, Inv, PushOf, itOwner
<1>5. QED BY <1>1, <1>2, <1>3, <1>4 DEF Next, Finished

LEMMA Invariant == Spec => []Inv
BY InitInv, NextInv, PTL DEF Spec

\* push makes the Feature keep the context that allocated the data, and pop, try_pop and
\* gather_and_forward hand that Feature on: what waits in a pipe is in memory that still
\* exists, and what a consumer has the address of is so until anybody takes the next item.
THEOREM DataIsAlive == Spec => []DataAlive
<1>1. Inv => DataAlive
  <2> SUFFICES ASSUME Inv PROVE DataAlive
    OBVIOUS
  <2>1. ASSUME NEW f, f \in ToSet(pipe) \cup ToSet(forwarded) \cup {tail},
               PushOf(f) \in ToSet(pushed)
        PROVE  Alive(Allocator(f.data))
    <3>1. Allocator(f.data) = itOwner(f)
      BY <2>1, AllocatorPushed DEF PushOf
    <3>2. QED BY <2>1, <3>1 DEF Alive, itOwner
  <2>2. \A f \in ToSet(pipe) \cup ToSet(forwarded) : Alive(Allocator(f.data))
    BY <2>1 DEF Inv
  <2>3. ASSUME NEW c \in Consumers, held[c] # Null, held[c] = tail.data
        PROVE  Alive(Allocator(held[c]))
    <3>1. PushOf(tail) \in ToSet(pushed)
      BY <2>3 DEF Inv, NoFeature
    <3>2. QED BY <2>1, <2>3, <3>1
  <2>4. QED BY <2>2, <2>3 DEF DataAlive
<1>2. QED BY <1>1, Invariant, PTL

-----------------------------------------------------------------------------
(* The end of the loops.                                                   *)
(*                                                                         *)
(* A consumer that has been woken may find the pipe empty and stop while   *)
(* producers are still at work; but then another one has taken the item,   *)
(* and that one will look again.                                           *)

Working == {p \in Producers : producer[p] = "run"}

\* The consumer will still look into the pipe, with a fresh look at mRemaining.
Attends(c) == pc[c] \in {"idle", "pop", "use"}

Attended ==
  /\ mRemaining # 0 /\ pipe = <<>> => \E c \in Consumers : Attends(c)
  /\ pipe # <<>> => \E c \in Consumers : pc[c] # "stopped"

LoopInv ==
  /\ producer \in [Producers -> {"new", "run", "notified", "done"}]
  /\ pc \in [Consumers -> {"idle", "pop", "woken", "use", "stopped"}]
  /\ mRemaining = Cardinality(Working)
  /\ ~drains /\ Consumers # {} => Attended

LEMMA WorkingCounted ==
  /\ IsFiniteSet(Working) /\ Cardinality(Working) \in Nat
  /\ Cardinality(Working) = 0 <=> Working = {}
<1>1. IsFiniteSet(Producers)
  BY ChannelAssumption, FS_AddElement DEF Producers
<1>2. IsFiniteSet(Working)
  BY <1>1, FS_Subset DEF Working
<1>3. QED BY <1>2, FS_CardinalityType, FS_EmptySet

LEMMA InitLoop == Init => LoopInv
<1> SUFFICES ASSUME Init PROVE LoopInv
  OBVIOUS
<1>1. Working = Started \cup {Owner}
  BY ChannelAssumption DEF Init, Working, Producers
<1>2. Cardinality(Started \cup {Owner}) = Cardinality(Started) + 1
  <2>1. IsFiniteSet(Started) /\ Owner \notin Started
    BY ChannelAssumption, FS_Subset
  <2>2. QED BY <2>1, FS_AddElement
<1>3. QED BY <1>1, <1>2 DEF Init, LoopInv, Attended, Attends

\* A running producer may push at any time, so it is counted.
LEMMA PushAttended ==
  ASSUME LoopInv, NEW p \in Producers, producer[p] = "run",
         UNCHANGED <<drains, mRemaining, producer, pc>>, pipe' # <<>>
  PROVE  LoopInv'
<1>1. mRemaining # 0
  BY WorkingCounted DEF LoopInv, Working
<1>2. drains \/ Consumers = {} \/ \E c \in Consumers : pc[c] # "stopped"
  BY <1>1 DEF LoopInv, Attended, Attends
<1>3. QED BY <1>2 DEF LoopInv, Attended, Attends, Working

LEMMA ProducerLoop ==
  ASSUME Inv, LoopInv, NEW p \in Producers, ProducerStep(p) \/ Notify(p) \/ JobReturns(p)
  PROVE  LoopInv'
<1>1. CASE \E d \in Items : push(p, d)
  <2>1. pipe' # <<>>
    BY <1>1 DEF push, Inv
  <2>2. QED BY <1>1, <2>1, PushAttended DEF push
<1>2. CASE \E d, e \in Items : pushBatch(p, d, e)
  <2>1. PICK d \in Items, e \in Items : pushBatch(p, d, e)
    BY <1>2
  <2>2. MakeFeature(p, d) \in Features /\ MakeFeature(p, e) \in Features /\ pipe \in Seq(Features)
    BY MadeBy DEF Inv
  <2>3. pipe \o <<MakeFeature(p, d), MakeFeature(p, e)>> # <<>>
    BY <2>2
  <2>4. QED BY <2>1, <2>3, PushAttended DEF pushBatch
<1>3. CASE gatherEx(p)
  BY <1>3 DEF gatherEx, LoopInv, Working
<1>4. CASE Notify(p)
  <2>1. p \in Working /\ Working' = Working \ {p}
    BY <1>4 DEF Notify, Working, LoopInv
  <2>2. Cardinality(Working \ {p}) = Cardinality(Working) - 1
    BY <2>1, WorkingCounted, FS_RemoveElement
  <2>3. mRemaining' = Cardinality(Working')
    BY <1>4, <2>1, <2>2 DEF Notify, LoopInv
  <2>4. mRemaining \in Nat /\ mRemaining # 0 /\ UNCHANGED <<drains, pipe, pc>>
    BY <1>4, WorkingCounted DEF Notify, LoopInv
  <2>5. producer' \in [Producers -> {"new", "run", "notified", "done"}]
    BY <1>4 DEF Notify, LoopInv
  <2>6. QED BY <2>3, <2>4, <2>5 DEF LoopInv, Attended, Attends
<1>5. CASE JobReturns(p)
  <2>1. Working' = Working
    BY <1>5 DEF JobReturns, Working, LoopInv
  <2>2. QED BY <1>5, <2>1 DEF JobReturns, LoopInv, Attended, Attends
<1>6. QED BY <1>1, <1>2, <1>3, <1>4, <1>5 DEF ProducerStep

LEMMA AppendLoop ==
  ASSUME LoopInv, NEW p \in Jobs, append(p)
  PROVE  LoopInv'
<1>1. p \in Producers /\ Owner \in Working
  BY DEF append, Producers, Working
<1>2. p \notin Working /\ Working' = Working \cup {p}
  BY <1>1 DEF append, Working, LoopInv
<1>3. Cardinality(Working \cup {p}) = Cardinality(Working) + 1
  BY <1>2, WorkingCounted, FS_AddElement
<1>4. mRemaining' = Cardinality(Working')
  BY <1>2, <1>3 DEF append, LoopInv
<1>5. mRemaining # 0
  BY <1>1, WorkingCounted DEF LoopInv
<1>6. producer' \in [Producers -> {"new", "run", "notified", "done"}] /\ UNCHANGED <<drains, pipe, pc>>
  BY <1>1 DEF append, LoopInv
<1>7. QED BY <1>4, <1>5, <1>6 DEF LoopInv, Attended, Attends

\* Whoever takes an item out looks again.
LEMMA ConsumerLoop ==
  ASSUME LoopInv, NEW c \in Consumers, ConsumerCall(c) \/ LoopStep(c)
  PROVE  LoopInv'
<1>1. CASE ForEach(c) \/ UseEnd(c) \/ PopTake(c) \/ tryPop(c) \/ gather(c) \/ gather_and_forward(c)
  <2>1. /\ UNCHANGED <<drains, mRemaining, producer>>
        /\ pc' \in [Consumers -> {"idle", "pop", "woken", "use", "stopped"}]
        /\ Attends(c)'
    BY <1>1 DEF ForEach, UseEnd, PopTake, tryPop, gather, gather_and_forward, LoopInv, Attends
  <2>2. QED BY <2>1 DEF LoopInv, Attended, Attends, Working
<1>2. CASE PopWait(c)
  <2>1. /\ UNCHANGED <<drains, mRemaining, producer, pipe>>
        /\ pc' = [pc EXCEPT ![c] = "woken"] /\ ~(mRemaining > 0 /\ pipe = <<>>)
    BY <1>2 DEF PopWait
  <2>2. ~(mRemaining # 0 /\ pipe = <<>>)
    BY <2>1, WorkingCounted DEF LoopInv
  <2>3. QED BY <2>1, <2>2 DEF LoopInv, Attended, Working
<1>3. CASE PopNothing(c)
  <2>1. /\ UNCHANGED <<drains, mRemaining, producer, pipe>> /\ pipe = <<>>
        /\ pc' = [pc EXCEPT ![c] = "stopped"] /\ pc[c] = "woken"
    BY <1>3 DEF PopNothing
  <2>2. \A b \in Consumers : Attends(b) => Attends(b)'
    BY <2>1 DEF LoopInv, Attends
  <2>3. QED BY <2>1, <2>2 DEF LoopInv, Attended, Working
<1>4. QED BY <1>1, <1>2, <1>3 DEF ConsumerCall, LoopStep

LEMMA NextLoop == Inv /\ LoopInv /\ [Next]_vars => LoopInv'
<1> SUFFICES ASSUME Inv, LoopInv, [Next]_vars PROVE LoopInv'
  OBVIOUS
<1>1. CASE \E p \in Producers : ProducerStep(p) \/ Notify(p) \/ JobReturns(p)
  BY <1>1, ProducerLoop
<1>2. CASE \E c \in Consumers : ConsumerCall(c) \/ LoopStep(c)
  BY <1>2, ConsumerLoop
<1>3. CASE \E p \in Jobs : append(p)
  BY <1>3, AppendLoop
<1>4. CASE UNCHANGED vars
  BY <1>4 DEF vars, LoopInv, Attended, Attends, Working
<1>5. QED BY <1>1, <1>2, <1>3, <1>4 DEF Next, Finished

\* pop releases the mutex between waiting and taking, so a woken consumer may stop with
\* producers left; but when the last loop has stopped the channel is depleted.
THEOREM NothingIsStranded == Spec => []NothingStranded
<1>1. LoopInv => NothingStranded
  BY DEF LoopInv, Attended, Attends, NothingStranded
<1>2. QED BY <1>1, InitLoop, NextLoop, Invariant, PTL DEF Spec

-----------------------------------------------------------------------------
(* The order of the items.                                                 *)
(*                                                                         *)
(* Every operation leaves Out as it is or appends to it, but for gather_ex *)
(* which moves the items of one context before those of the others and     *)
(* keeps the order among them: a permutation that is monotone on the items *)
(* of each context.                                                        *)

\* PerContextFifo, with the sequence and the history as parameters.
Fifo(out, s) ==
  /\ ToSet(out) = {s[i][1] : i \in DOMAIN s} /\ IsInjective(out)
  /\ \A i, k \in DOMAIN s : i < k /\ s[i][2] = s[k][2] => Before(out, s[i][1], s[k][1])

LEMMA FifoIsPerContext == Fifo(Out, pushed) <=> PerContextFifo
BY DEF Fifo, PerContextFifo, PushedItems

OrderInv == taken \in Seq(Items) /\ Fifo(Out, pushed)

LEMMA DataOf ==
  ASSUME NEW q \in Seq(Features)
  PROVE  /\ Data(q) \in Seq(Items) /\ Len(Data(q)) = Len(q)
         /\ \A i \in 1..Len(q) : Data(q)[i] = q[i].data
<1>1. DOMAIN q = 1..Len(q) /\ Len(q) \in Nat
  OBVIOUS
<1>2. \A i \in 1..Len(q) : q[i] \in Features
  OBVIOUS
<1>3. Data(q) \in [1..Len(q) -> Items]
  BY <1>1, <1>2 DEF Data, Features
<1>4. Data(q) \in Seq(Items) /\ Len(Data(q)) = Len(q)
  BY <1>1, <1>3
<1>5. QED BY <1>1, <1>4 DEF Data

\* Taking the front item moves it from Data(pipe) to taken.
LEMMA OutAfterTake ==
  ASSUME taken \in Seq(Items), pipe \in Seq(Features), pipe # <<>>
  PROVE  /\ Append(taken, Head(pipe).data) \in Seq(Items)
         /\ Append(taken, Head(pipe).data) \o Data(Tail(pipe)) = taken \o Data(pipe)
<1> DEFINE h == Head(pipe).data
           d == Data(Tail(pipe))
           e == Data(pipe)
           m == Len(pipe)
<1>1. /\ Tail(pipe) \in Seq(Features) /\ Head(pipe) \in Features
      /\ Len(Tail(pipe)) = m - 1 /\ \A i \in 1..Len(Tail(pipe)) : Tail(pipe)[i] = pipe[i + 1]
  BY HeadTailProperties
<1>2. Head(pipe) = pipe[1] /\ m \in Nat \ {0}
  BY EmptySeq
<1>3. h \in Items
  BY <1>1 DEF Features
<1>4. d \in Seq(Items) /\ Len(d) = m - 1 /\ \A i \in 1..(m - 1) : d[i] = pipe[i + 1].data
  BY <1>1, DataOf
<1>5. e \in Seq(Items) /\ Len(e) = m /\ \A i \in 1..m : e[i] = pipe[i].data
  BY DataOf
<1>6. <<h>> \in Seq(Items) /\ Len(<<h>>) = 1 /\ <<h>>[1] = pipe[1].data
  BY <1>3, <1>2
<1> HIDE DEF h, d, e, m
<1>7. <<h>> \o d = e
  <2>1. /\ <<h>> \o d \in Seq(Items) /\ Len(<<h>> \o d) = 1 + (m - 1)
        /\ \A i \in 1..(1 + (m - 1)) : (<<h>> \o d)[i] = IF i <= 1 THEN <<h>>[i] ELSE d[i - 1]
    BY <1>4, <1>6, ConcatProperties
  <2>2. ASSUME NEW i \in 1..m PROVE (<<h>> \o d)[i] = e[i]
    <3>1. CASE i = 1
      BY <3>1, <2>1, <1>2, <1>5, <1>6
    <3>2. CASE i # 1
      <4>1. i - 1 \in 1..(m - 1) /\ (i - 1) + 1 = i /\ i \in 1..(1 + (m - 1)) /\ ~(i <= 1)
        BY <3>2, <1>2
      <4>2. QED BY <4>1, <2>1, <1>4, <1>5
    <3>3. QED BY <3>1, <3>2
  <2>3. 1 + (m - 1) = m
    BY <1>2
  <2>4. QED BY <2>1, <2>2, <2>3, <1>5, SeqEqual
<1>8. Append(taken, h) = taken \o <<h>> /\ Append(taken, h) \in Seq(Items)
  BY <1>3, AppendIsConcat, AppendProperties
<1>9. (taken \o <<h>>) \o d = taken \o (<<h>> \o d)
  BY <1>4, <1>6, ConcatAssociative
<1>10. QED BY <1>7, <1>8, <1>9 DEF h, d, e

LEMMA DataAppend ==
  ASSUME NEW q \in Seq(Features), NEW f \in Features
  PROVE  /\ Data(q) \in Seq(Items) /\ f.data \in Items
         /\ Data(Append(q, f)) = Append(Data(q), f.data)
<1> DEFINE t == Append(q, f)
           m == Len(q)
           r == Append(Data(q), f.data)
<1>1. t \in Seq(Features) /\ Len(t) = m + 1 /\ m \in Nat /\ t[m + 1] = f
      /\ \A i \in 1..m : t[i] = q[i]
  OBVIOUS
<1>2. Data(t) \in Seq(Items) /\ Len(Data(t)) = m + 1 /\ \A i \in 1..(m + 1) : Data(t)[i] = t[i].data
  BY <1>1, DataOf
<1>3. Data(q) \in Seq(Items) /\ Len(Data(q)) = m /\ \A i \in 1..m : Data(q)[i] = q[i].data
  BY DataOf
<1>4. f.data \in Items
  BY DEF Features
<1> HIDE DEF t, m
<1>5. r \in Seq(Items) /\ Len(r) = m + 1 /\ r[m + 1] = f.data
      /\ \A i \in 1..m : r[i] = Data(q)[i]
  BY <1>1, <1>3, <1>4
<1> HIDE DEF r
<1>6. \A i \in 1..(m + 1) : i \in 1..m \/ i = m + 1
  BY <1>1
<1>7. \A i \in 1..(m + 1) : Data(t)[i] = r[i]
  BY <1>1, <1>2, <1>3, <1>5, <1>6
<1>8. Data(t) = r
  BY <1>2, <1>5, <1>7, SeqEqual
<1>9. QED BY <1>3, <1>4, <1>8 DEF t, r

LEMMA ConcatAppend ==
  ASSUME NEW S, NEW q \in Seq(S), NEW r \in Seq(S), NEW e \in S
  PROVE  q \o Append(r, e) = Append(q \o r, e)
<1>1. Append(r, e) = r \o <<e>> /\ <<e>> \in Seq(S)
  BY AppendIsConcat
<1>2. q \o r \in Seq(S)
  BY ConcatProperties
<1>3. Append(q \o r, e) = (q \o r) \o <<e>>
  BY <1>2, AppendIsConcat
<1>4. QED BY <1>1, <1>3, ConcatAssociative

\* Pushing appends the data to Out.
LEMMA OutAfterPush ==
  ASSUME taken \in Seq(Items), pipe \in Seq(Features), NEW f \in Features
  PROVE  taken \o Data(Append(pipe, f)) = Append(taken \o Data(pipe), f.data)
<1>1. Data(pipe) \in Seq(Items) /\ f.data \in Items /\ Data(Append(pipe, f)) = Append(Data(pipe), f.data)
  BY DataAppend
<1> DEFINE r == Data(pipe)
           d == f.data
<1>2. r \in Seq(Items) /\ d \in Items
  BY <1>1
<1> HIDE DEF r, d
<1>3. taken \o Append(r, d) = Append(taken \o r, d)
  BY <1>2, ConcatAppend
<1>4. QED BY <1>1, <1>3 DEF r, d

\* A new item at the end of both.
LEMMA FifoAppend ==
  ASSUME NEW out \in Seq(Items), NEW s \in Seq(Items \X Producers), Fifo(out, s),
         NEW d \in Items, NEW p \in Producers, d \notin {s[i][1] : i \in DOMAIN s}
  PROVE  Fifo(Append(out, d), Append(s, <<d, p>>))
<1> DEFINE o == Append(out, d)
           t == Append(s, <<d, p>>)
           n == Len(out)
           m == Len(s)
<1>1. /\ n \in Nat /\ DOMAIN out = 1..n /\ DOMAIN o = 1..(n + 1)
      /\ \A i \in 1..n : o[i] = out[i]
  OBVIOUS
<1>2. o[n + 1] = d
  OBVIOUS
<1>3. /\ m \in Nat /\ DOMAIN s = 1..m /\ DOMAIN t = 1..(m + 1)
      /\ \A i \in 1..m : t[i] = s[i]
  OBVIOUS
<1>4. t[m + 1] = <<d, p>> /\ t[m + 1][1] = d
  OBVIOUS
<1>5. ToSet(o) = ToSet(out) \cup {d}
  BY AppendEntries
<1> HIDE DEF o, t, n, m
<1>6. \A i \in 1..(n + 1) : i \in 1..n \/ i = n + 1
  BY <1>1
<1>7. \A i \in 1..(m + 1) : i \in 1..m \/ i = m + 1
  BY <1>3
<1>8. 1..n \subseteq 1..(n + 1) /\ 1..m \subseteq 1..(m + 1) /\ n + 1 \in 1..(n + 1)
      /\ m + 1 \in 1..(m + 1)
  BY <1>1, <1>3
<1>9. {t[i][1] : i \in DOMAIN t} = {s[i][1] : i \in DOMAIN s} \cup {d}
  <2>1. ASSUME NEW i \in 1..(m + 1) PROVE t[i][1] \in {s[k][1] : k \in 1..m} \cup {d}
    BY <1>3, <1>4, <1>7
  <2>2. ASSUME NEW i \in 1..m PROVE s[i][1] \in {t[k][1] : k \in 1..(m + 1)}
    <3>1. i \in 1..(m + 1) /\ t[i][1] = s[i][1]
      BY <1>3, <1>8
    <3>2. QED BY <3>1
  <2>3. d \in {t[k][1] : k \in 1..(m + 1)}
    BY <1>4, <1>8
  <2>4. DOMAIN s = 1..m /\ DOMAIN t = 1..(m + 1)
    BY <1>3
  <2>5. QED BY <2>1, <2>2, <2>3, <2>4
<1>10. ToSet(out) = {s[i][1] : i \in DOMAIN s} /\ d \notin ToSet(out)
  BY DEF Fifo
<1>11. \A i \in 1..n : out[i] \in ToSet(out)
  BY <1>1 DEF ToSet
<1>12. IsInjective(o)
  <2>1. \A i, k \in 1..n : out[i] = out[k] => i = k
    BY <1>1 DEF Fifo, IsInjective
  <2>2. QED BY <2>1, <1>1, <1>2, <1>6, <1>10, <1>11 DEF IsInjective
<1>13. ASSUME NEW i \in DOMAIN t, NEW k \in DOMAIN t, i < k, t[i][2] = t[k][2]
       PROVE  Before(o, t[i][1], t[k][1])
  <2>1. i \in 1..m /\ t[i] = s[i]
    BY <1>13, <1>3, <1>7
  <2>2. CASE k \in 1..m
    <3>1. Before(out, s[i][1], s[k][1])
      BY <1>13, <2>1, <2>2, <1>3 DEF Fifo
    <3>2. PICK x, y \in 1..n : x < y /\ out[x] = s[i][1] /\ out[y] = s[k][1]
      BY <3>1, <1>1 DEF Before
    <3>3. x \in DOMAIN o /\ y \in DOMAIN o /\ o[x] = t[i][1] /\ o[y] = t[k][1]
      BY <3>2, <2>1, <2>2, <1>1, <1>3, <1>8
    <3>4. QED BY <3>2, <3>3 DEF Before
  <2>3. CASE k = m + 1
    <3>1. s[i][1] \in ToSet(out)
      BY <2>1, <1>3, <1>10
    <3>2. PICK x \in 1..n : out[x] = s[i][1]
      BY <3>1, <1>1 DEF ToSet
    <3>3. x < n + 1 /\ o[x] = t[i][1] /\ o[n + 1] = t[k][1]
      BY <3>2, <2>1, <2>3, <1>1, <1>2, <1>4
    <3>4. QED BY <3>3, <1>1, <1>8 DEF Before
  <2>4. QED BY <1>13, <1>3, <1>7, <2>2, <2>3
<1>14. QED BY <1>5, <1>9, <1>10, <1>12, <1>13 DEF Fifo, o, t

\* Two entries of s made by the same context.
Together(s, x, y) ==
  \E i, k \in DOMAIN s : s[i][1] = x /\ s[k][1] = y /\ s[i][2] = s[k][2]

\* A permutation that keeps the order of the items of each context.
LEMMA FifoPermute ==
  ASSUME NEW out \in Seq(Items), NEW s, Fifo(out, s), NEW o \in Seq(Items),
         NEW n \in Nat, Len(out) = n, Len(o) = n, NEW m \in [1..n -> 1..n],
         \A i, k \in 1..n : m[i] = m[k] => i = k,
         \A a \in 1..n : \E i \in 1..n : m[i] = a,
         \A i \in 1..n : o[i] = out[m[i]],
         \A i, k \in 1..n : m[i] < m[k] /\ Together(s, o[i], o[k]) => i < k
  PROVE  Fifo(o, s)
<1>1. DOMAIN out = 1..n /\ DOMAIN o = 1..n
  OBVIOUS
<1>2. ToSet(o) = ToSet(out)
  BY <1>1 DEF ToSet
<1>3. IsInjective(o)
  <2>1. \A a, b \in 1..n : out[a] = out[b] => a = b
    BY <1>1 DEF Fifo, IsInjective
  <2>2. ASSUME NEW i \in 1..n, NEW k \in 1..n, o[i] = o[k] PROVE i = k
    <3>1. m[i] = m[k]
      BY <2>1, <2>2
    <3>2. QED BY <3>1
  <2>3. QED BY <2>2, <1>1 DEF IsInjective
<1>4. ASSUME NEW j \in DOMAIN s, NEW l \in DOMAIN s, j < l, s[j][2] = s[l][2]
      PROVE  Before(o, s[j][1], s[l][1])
  <2>1. Before(out, s[j][1], s[l][1])
    BY <1>4 DEF Fifo
  <2>2. PICK a, b \in 1..n : a < b /\ out[a] = s[j][1] /\ out[b] = s[l][1]
    BY <2>1, <1>1 DEF Before
  <2>3. PICK i \in 1..n : m[i] = a
    OBVIOUS
  <2>4. PICK k \in 1..n : m[k] = b
    OBVIOUS
  <2>5. o[i] = s[j][1] /\ o[k] = s[l][1]
    BY <2>2, <2>3, <2>4
  <2>6. Together(s, o[i], o[k])
    BY <2>5, <1>4 DEF Together
  <2>7. i < k
    BY <2>2, <2>3, <2>4, <2>6
  <2>8. QED BY <2>5, <2>7, <1>1 DEF Before
<1>5. QED BY <1>2, <1>3, <1>4 DEF Fifo

\* f lists the c numbers in I in ascending order.
Lists(f, c, I) ==
  /\ f \in [1..c -> I]
  /\ \A i, k \in 1..c : i < k => f[i] < f[k]
  /\ \A a \in I : \E i \in 1..c : f[i] = a

\* The entries at the positions in I, one by one.
LEMMA InOrderOnto ==
  ASSUME NEW S, NEW q \in Seq(S), NEW I \in SUBSET (1..Len(q)), NEW r \in InOrder(q, I)
  PROVE  /\ r \in Seq(S) /\ Len(r) = Cardinality(I)
         /\ \E f : Lists(f, Cardinality(I), I) /\ \A i \in 1..Len(r) : r[i] = q[f[i]]
<1> DEFINE c == Cardinality(I)
<1>1. IsFiniteSet(1..Len(q))
  BY FS_Interval
<1>2. IsFiniteSet(I) /\ c \in Nat
  BY <1>1, FS_Subset, FS_CardinalityType
<1>3. PICK f \in [1..c -> I] : /\ \A i, k \in DOMAIN f : i < k => f[i] < f[k]
                               /\ r = [i \in DOMAIN f |-> q[f[i]]]
  BY DEF InOrder
<1>4. IsFiniteSet(1..c) /\ Cardinality(1..c) = c
  BY <1>2, FS_Interval
<1> HIDE DEF c
<1>5. DOMAIN f = 1..c
  OBVIOUS
<1>6. \A i, k \in 1..c : f[i] = f[k] => i = k
  <2>1. \A i \in 1..c : f[i] \in Int
    <3>1. I \subseteq Int
      OBVIOUS
    <3>2. QED BY <3>1
  <2>2. \A i, k \in 1..c : i < k \/ i = k \/ k < i
    BY <1>2
  <2>3. QED BY <1>3, <1>5, <2>1, <2>2
<1>7. f \in Injection(1..c, I)
  BY <1>5, <1>6 DEF Injection, IsInjective
<1>8. f \in Surjection(1..c, I)
  BY <1>2, <1>4, <1>7, FS_Injection DEF c
<1>9. \A a \in I : \E i \in 1..c : f[i] = a
  BY <1>8, <1>5 DEF Surjection
<1>10. r \in [1..c -> S]
  <2>1. \A a \in I : q[a] \in S
    OBVIOUS
  <2>2. \A i \in 1..c : q[f[i]] \in S
    BY <2>1
  <2>3. QED BY <1>3, <1>5, <2>2
<1>11. r \in Seq(S) /\ Len(r) = c
  BY <1>10, <1>2
<1>12. \A i \in 1..c : r[i] = q[f[i]]
  BY <1>3, <1>5
<1>13. Lists(f, c, I)
  BY <1>3, <1>5, <1>9 DEF Lists
<1>14. QED BY <1>11, <1>12, <1>13 DEF c

\* The positions after gather_ex, as positions before: T items taken, then the P of A,
\* then the K others.
Regroups(m, T, P, f, K, g) ==
  /\ \A i \in 1..T : m[i] = i
  /\ \A i \in 1..P : m[T + i] = T + f[i]
  /\ \A i \in 1..K : m[(T + P) + i] = T + g[i]

Permutes(m, n) ==
  /\ m \in [1..n -> 1..n]
  /\ \A a \in 1..n : \E i \in 1..n : m[i] = a
  /\ \A i, k \in 1..n : m[i] = m[k] => i = k

\* Only items on different sides of A change their order.
Crosses(a, b, T, A) == a > T /\ b > T /\ a - T \notin A /\ b - T \in A

LEMMA Regroup ==
  ASSUME NEW T \in Nat, NEW P \in Nat, NEW K \in Nat, NEW n \in Nat, P + K = n,
         NEW A \in SUBSET (1..n), NEW f, Lists(f, P, A), NEW g, Lists(g, K, (1..n) \ A)
  PROVE  \E m : /\ Permutes(m, T + n) /\ Regroups(m, T, P, f, K, g)
                /\ \A i, k \in 1..(T + n) : m[i] < m[k] /\ ~(i < k) => Crosses(m[i], m[k], T, A)
<1> DEFINE m == [i \in 1..(T + n) |->
                   IF i <= T THEN i ELSE IF i <= T + P THEN T + f[i - T] ELSE T + g[i - (T + P)]]
<1> USE DEF Lists
<1>1. A \subseteq 1..n /\ \A i \in 1..P : f[i] \in A /\ f[i] \in 1..n
  OBVIOUS
<1>2. \A i \in 1..K : g[i] \in 1..n /\ g[i] \notin A
  OBVIOUS
<1>3. ASSUME NEW i \in 1..T PROVE i \in 1..(T + n) /\ m[i] = i
  OBVIOUS
<1>4. ASSUME NEW i \in 1..P PROVE T + i \in 1..(T + n) /\ m[T + i] = T + f[i]
  <2>1. T + i \in 1..(T + n) /\ ~(T + i <= T) /\ T + i <= T + P /\ (T + i) - T = i
    OBVIOUS
  <2>2. QED BY <2>1
<1>5. ASSUME NEW i \in 1..K
      PROVE  (T + P) + i \in 1..(T + n) /\ m[(T + P) + i] = T + g[i]
  <2>1. /\ (T + P) + i \in 1..(T + n) /\ ~((T + P) + i <= T) /\ ~((T + P) + i <= T + P)
        /\ ((T + P) + i) - (T + P) = i
    OBVIOUS
  <2>2. QED BY <2>1
<1> HIDE DEF m
<1>6. ASSUME NEW i \in 1..(T + n)
      PROVE  \/ i \in 1..T
             \/ i > T /\ \E x \in 1..P : i = T + x
             \/ i > T + P /\ \E x \in 1..K : i = (T + P) + x
  <2>1. CASE i <= T
    BY <2>1
  <2>2. CASE i > T /\ i <= T + P
    <3>1. i - T \in 1..P /\ i = T + (i - T)
      BY <2>2
    <3>2. QED BY <3>1, <2>2
  <2>3. CASE i > T + P
    <3>1. i - (T + P) \in 1..K /\ i = (T + P) + (i - (T + P))
      BY <2>3
    <3>2. QED BY <3>1, <2>3
  <2>4. QED BY <2>1, <2>2, <2>3
<1>7. m \in [1..(T + n) -> 1..(T + n)]
  <2>1. ASSUME NEW i \in 1..(T + n) PROVE m[i] \in 1..(T + n)
    <3>1. CASE i \in 1..T
      BY <3>1, <1>3
    <3>2. ASSUME NEW x \in 1..P, i = T + x PROVE m[i] \in 1..(T + n)
      <4>1. m[i] = T + f[x] /\ f[x] \in 1..n
        BY <3>2, <1>1, <1>4
      <4>2. QED BY <4>1
    <3>3. ASSUME NEW x \in 1..K, i = (T + P) + x PROVE m[i] \in 1..(T + n)
      <4>1. m[i] = T + g[x] /\ g[x] \in 1..n
        BY <3>3, <1>2, <1>5
      <4>2. QED BY <4>1
    <3>4. QED BY <1>6, <3>1, <3>2, <3>3
  <2>2. m = [i \in 1..(T + n) |-> m[i]]
    BY DEF m
  <2>3. QED BY <2>1, <2>2
<1>8. ASSUME NEW a \in 1..(T + n) PROVE \E i \in 1..(T + n) : m[i] = a
  <2>1. CASE a <= T
    BY <2>1, <1>3
  <2>2. CASE a > T
    <3>1. a - T \in 1..n /\ T + (a - T) = a
      BY <2>2
    <3>2. CASE a - T \in A
      <4>1. PICK i \in 1..P : f[i] = a - T
        BY <3>2
      <4>2. QED BY <4>1, <3>1, <1>4
    <3>3. CASE a - T \notin A
      <4>1. PICK i \in 1..K : g[i] = a - T
        BY <3>1, <3>3
      <4>2. QED BY <4>1, <3>1, <1>5
    <3>4. QED BY <3>2, <3>3
  <2>3. QED BY <2>1, <2>2
<1>9. ASSUME NEW x \in 1..P, NEW y \in 1..P, ~(x < y) PROVE f[y] < f[x] \/ x = y
  <2>1. y < x \/ x = y
    BY <1>9
  <2>2. QED BY <2>1
<1>10. ASSUME NEW x \in 1..K, NEW y \in 1..K, ~(x < y) PROVE g[y] < g[x] \/ x = y
  <2>1. y < x \/ x = y
    BY <1>10
  <2>2. QED BY <2>1
<1>11. ASSUME NEW i \in 1..(T + n), NEW k \in 1..(T + n), ~(i < k), i # k, ~(m[k] < m[i])
       PROVE  m[i] > T /\ m[k] > T /\ m[i] - T \notin A /\ m[k] - T \in A /\ m[i] < m[k]
  <2>1. k < i /\ m[i] <= m[k]
    BY <1>7, <1>11
  <2>2. CASE k \in 1..T
    <3>1. m[k] = k /\ ~(i \in 1..T)
      <4>1. i \in 1..T => m[i] = i
        BY <1>3
      <4>2. m[k] = k
        BY <2>2, <1>3
      <4>3. QED BY <2>1, <2>2, <4>1, <4>2
    <3>2. ASSUME NEW x \in 1..P, i = T + x PROVE m[i] > T
      <4>1. m[i] = T + f[x] /\ f[x] \in 1..n
        BY <3>2, <1>1, <1>4
      <4>2. QED BY <4>1
    <3>3. ASSUME NEW x \in 1..K, i = (T + P) + x PROVE m[i] > T
      <4>1. m[i] = T + g[x] /\ g[x] \in 1..n
        BY <3>3, <1>2, <1>5
      <4>2. QED BY <4>1
    <3>4. m[i] > T
      BY <1>6, <3>1, <3>2, <3>3
    <3>5. QED BY <2>1, <2>2, <3>1, <3>4, <1>7
  <2>3. ASSUME NEW y \in 1..P, k = T + y
        PROVE  m[i] > T /\ m[k] > T /\ m[i] - T \notin A /\ m[k] - T \in A /\ m[i] < m[k]
    <3>1. m[k] = T + f[y] /\ f[y] \in 1..n /\ f[y] \in A
      BY <2>3, <1>1, <1>4
    <3>2. ~(i \in 1..T)
      BY <2>1, <2>3
    <3>3. ASSUME NEW x \in 1..P, i = T + x PROVE FALSE
      <4>1. m[i] = T + f[x] /\ f[x] \in 1..n
        BY <3>3, <1>1, <1>4
      <4>2. ~(x < y) /\ x # y
        BY <2>1, <2>3, <3>3
      <4>3. f[y] < f[x]
        BY <4>2, <1>9
      <4>4. QED BY <2>1, <3>1, <4>1, <4>3
    <3>4. PICK x \in 1..K : i = (T + P) + x
      BY <1>6, <3>2, <3>3
    <3>5. m[i] = T + g[x] /\ g[x] \in 1..n /\ g[x] \notin A
      BY <3>4, <1>2, <1>5
    <3>6. m[i] > T /\ m[k] > T /\ m[i] - T = g[x] /\ m[k] - T = f[y]
      BY <3>1, <3>5
    <3>7. m[i] # m[k]
      BY <3>1, <3>5, <3>6
    <3>8. m[i] < m[k]
      BY <2>1, <3>7, <1>7
    <3>9. QED BY <3>1, <3>5, <3>6, <3>8
  <2>4. ASSUME NEW y \in 1..K, k = (T + P) + y PROVE FALSE
    <3>1. m[k] = T + g[y] /\ g[y] \in 1..n
      BY <2>4, <1>2, <1>5
    <3>2. ~(i \in 1..T)
      BY <2>1, <2>4
    <3>3. ~(\E x \in 1..P : i = T + x)
      BY <2>1, <2>4
    <3>4. PICK x \in 1..K : i = (T + P) + x
      BY <1>6, <3>2, <3>3
    <3>5. m[i] = T + g[x] /\ g[x] \in 1..n
      BY <3>4, <1>2, <1>5
    <3>6. ~(x < y) /\ x # y
      BY <2>1, <2>4, <3>4
    <3>7. g[y] < g[x]
      BY <3>6, <1>10
    <3>8. QED BY <2>1, <3>1, <3>5, <3>7
  <2>5. QED BY <1>6, <2>2, <2>3, <2>4
<1>12. ASSUME NEW i \in 1..(T + n), NEW k \in 1..(T + n), m[i] = m[k] PROVE i = k
  <2>1. ~(m[k] < m[i]) /\ ~(m[i] < m[k])
    BY <1>7, <1>12
  <2>2. ~(i < k) \/ ~(k < i)
    OBVIOUS
  <2>3. QED BY <2>1, <2>2, <1>11
<1>13. ASSUME NEW i \in 1..(T + n), NEW k \in 1..(T + n), m[i] < m[k], ~(i < k)
       PROVE  m[i] > T /\ m[k] > T /\ m[i] - T \notin A /\ m[k] - T \in A
  <2>1. m[i] \in Int /\ m[k] \in Int
    BY <1>7
  <2>2. ~(m[k] < m[i])
    BY <2>1, <1>13
  <2>3. m[i] # m[k]
    BY <2>1, <1>13
  <2>4. QED BY <2>2, <2>3, <1>11, <1>13
<1>14. Permutes(m, T + n) /\ Regroups(m, T, P, f, K, g)
  BY <1>3, <1>4, <1>5, <1>7, <1>8, <1>12 DEF Permutes, Regroups
<1>15. \A i, k \in 1..(T + n) : m[i] < m[k] /\ ~(i < k) => Crosses(m[i], m[k], T, A)
  BY <1>13 DEF Crosses
<1>16. QED BY <1>14, <1>15

LEMMA SplitCount ==
  ASSUME NEW n \in Nat, NEW A \in SUBSET (1..n)
  PROVE  /\ Cardinality(A) \in Nat /\ Cardinality((1..n) \ A) \in Nat
         /\ Cardinality(A) + Cardinality((1..n) \ A) = n
<1>1. IsFiniteSet(1..n) /\ Cardinality(1..n) = n
  BY FS_Interval
<1>2. (1..n) \cap A = A
  OBVIOUS
<1>3. Cardinality((1..n) \ A) = n - Cardinality(A)
  <2>1. Cardinality((1..n) \ A) = Cardinality(1..n) - Cardinality((1..n) \cap A)
    BY <1>1, FS_Difference
  <2>2. Cardinality((1..n) \cap A) = Cardinality(A)
    BY <1>2, Zenon
  <2>3. QED BY <1>1, <2>1, <2>2
<1>4. IsFiniteSet(A) /\ IsFiniteSet((1..n) \ A)
  BY <1>1, FS_Subset, FS_Difference
<1>5. Cardinality(A) \in Nat /\ Cardinality((1..n) \ A) \in Nat
  BY <1>4, FS_CardinalityType
<1>6. QED BY <1>3, <1>5

\* Items pushed by one context have one itOwner.
LEMMA OneOwner ==
  ASSUME Inv, NEW f \in ToSet(pipe), NEW g \in ToSet(pipe), Together(pushed, f.data, g.data)
  PROVE  itOwner(f) = itOwner(g)
<1>1. PICK i, k \in DOMAIN pushed :
        pushed[i][1] = f.data /\ pushed[k][1] = g.data /\ pushed[i][2] = pushed[k][2]
  BY DEF Together
<1>2. pushed[i] \in ToSet(pushed) /\ pushed[k] \in ToSet(pushed)
  BY DEF ToSet
<1>3. PushOf(f) \in ToSet(pushed) /\ PushOf(g) \in ToSet(pushed)
  BY DEF Inv
<1>4. PushOf(f)[1] = f.data /\ PushOf(f)[2] = itOwner(f)
      /\ PushOf(g)[1] = g.data /\ PushOf(g)[2] = itOwner(g)
  BY DEF PushOf
<1>5. pushed[i] = PushOf(f) /\ pushed[k] = PushOf(g)
  BY <1>1, <1>2, <1>3, <1>4 DEF Inv
<1>6. QED BY <1>1, <1>4, <1>5

LEMMA GatherExOrder ==
  ASSUME Inv, OrderInv, NEW p \in Producers, gatherEx(p)
  PROVE  OrderInv'
<1> DEFINE n == Len(pipe)
           T == Len(taken)
           A == {i \in DOMAIN pipe : itOwner(pipe[i]) = p}
           B == (1..n) \ A
           P == Cardinality(A)
           K == Cardinality(B)
           d == Data(pipe)
           out == taken \o d
<1>1. pipe \in Seq(Features) /\ taken \in Seq(Items) /\ DOMAIN pipe = 1..n
  BY DEF Inv, OrderInv
<1>2. n \in Nat /\ T \in Nat
  BY <1>1
<1>3. PICK r \in InOrder(pipe, A) : taken' = taken \o Data(r)
  BY DEF gatherEx
<1>4. pipe' \in InOrder(pipe, B) /\ pushed' = pushed
  BY <1>1 DEF gatherEx
<1>5. A \in SUBSET (1..n) /\ B \in SUBSET (1..n)
  BY <1>1
<1>6. \A i \in 1..n : pipe[i] \in ToSet(pipe) /\ (i \in A <=> itOwner(pipe[i]) = p)
  BY <1>1 DEF ToSet
<1> HIDE DEF A
<1>7. P \in Nat /\ K \in Nat /\ P + K = n
  BY <1>2, <1>5, SplitCount
<1> HIDE DEF P, K, B
<1>8. /\ r \in Seq(Features) /\ Len(r) = P
      /\ \E f : Lists(f, P, A) /\ \A i \in 1..Len(r) : r[i] = pipe[f[i]]
  <2>1. r \in InOrder(pipe, A) /\ A \in SUBSET (1..Len(pipe))
    BY <1>3, <1>5
  <2> DEFINE q == pipe
  <2>2. q \in Seq(Features) /\ r \in InOrder(q, A) /\ A \in SUBSET (1..Len(q))
    BY <1>1, <2>1
  <2> HIDE DEF q
  <2>3. /\ r \in Seq(Features) /\ Len(r) = Cardinality(A)
        /\ \E f : Lists(f, Cardinality(A), A) /\ \A i \in 1..Len(r) : r[i] = q[f[i]]
    BY <2>2, InOrderOnto
  <2>4. QED BY <2>3 DEF P, q
<1>9. /\ pipe' \in Seq(Features) /\ Len(pipe') = K
      /\ \E g : Lists(g, K, B) /\ \A i \in 1..Len(pipe') : pipe'[i] = pipe[g[i]]
  BY <1>1, <1>4, <1>5, InOrderOnto DEF K
<1> HIDE DEF n, T
<1>10. PICK f : Lists(f, P, A) /\ \A i \in 1..Len(r) : r[i] = pipe[f[i]]
  BY <1>8
<1>11. PICK g : Lists(g, K, B) /\ \A i \in 1..Len(pipe') : pipe'[i] = pipe[g[i]]
  BY <1>9
<1>12. PICK m : /\ Permutes(m, T + n) /\ Regroups(m, T, P, f, K, g)
                /\ \A i, k \in 1..(T + n) : m[i] < m[k] /\ ~(i < k) => Crosses(m[i], m[k], T, A)
  <2>1. Lists(g, K, (1..n) \ A)
    BY <1>11 DEF B
  <2>2. Lists(f, P, A)
    BY <1>10
  <2>3. QED BY <1>2, <1>5, <1>7, <2>1, <2>2, Regroup
\* the two sequences, entry by entry
<1>13. d \in Seq(Items) /\ Len(d) = n /\ \A i \in 1..n : d[i] = pipe[i].data
  BY <1>1, DataOf DEF n
<1>14. /\ Data(r) \in Seq(Items) /\ Len(Data(r)) = P
       /\ \A i \in 1..P : Data(r)[i] = pipe[f[i]].data
  BY <1>8, <1>10, DataOf
<1>15. /\ Data(pipe') \in Seq(Items) /\ Len(Data(pipe')) = K
       /\ \A i \in 1..K : Data(pipe')[i] = pipe[g[i]].data
  BY <1>9, <1>11, DataOf
<1> DEFINE b == Data(r)
           c == Data(pipe')
           o == (taken \o b) \o c
<1> HIDE DEF b, c, d
<1>16. /\ out \in Seq(Items) /\ Len(out) = T + n
       /\ \A i \in 1..(T + n) : out[i] = IF i <= T THEN taken[i] ELSE d[i - T]
  BY <1>1, <1>13, ConcatProperties DEF T
<1>17. /\ taken \o b \in Seq(Items) /\ Len(taken \o b) = T + P
       /\ \A i \in 1..(T + P) : (taken \o b)[i] = IF i <= T THEN taken[i] ELSE b[i - T]
  BY <1>1, <1>14, ConcatProperties DEF T, b
<1>18. (T + P) + K = T + n
  BY <1>2, <1>7
<1>19. /\ o \in Seq(Items) /\ Len(o) = T + n
       /\ \A i \in 1..(T + n) :
             o[i] = IF i <= T + P THEN (taken \o b)[i] ELSE c[i - (T + P)]
  <2>1. c \in Seq(Items) /\ Len(c) = K
    BY <1>15 DEF c
  <2> DEFINE a == taken \o b
  <2>2. a \in Seq(Items) /\ Len(a) = T + P
    BY <1>17
  <2> HIDE DEF a
  <2>3. /\ a \o c \in Seq(Items) /\ Len(a \o c) = (T + P) + K
        /\ \A i \in 1..((T + P) + K) :
             (a \o c)[i] = IF i <= T + P THEN a[i] ELSE c[i - (T + P)]
    <3>1. /\ a \o c \in Seq(Items) /\ Len(a \o c) = Len(a) + Len(c)
          /\ \A i \in 1..(Len(a) + Len(c)) :
               (a \o c)[i] = IF i <= Len(a) THEN a[i] ELSE c[i - Len(a)]
      BY <2>1, <2>2, ConcatProperties
    <3>2. QED BY <2>1, <2>2, <3>1
  <2>4. QED BY <1>18, <2>3 DEF a
<1> HIDE DEF out, o
<1>20. ASSUME NEW i \in 1..n PROVE T + i \in 1..(T + n) /\ out[T + i] = pipe[i].data
  <2>1. T + i \in 1..(T + n) /\ ~(T + i <= T) /\ (T + i) - T = i
    BY <1>2
  <2>2. QED BY <2>1, <1>13, <1>16
<1>21. /\ \A i \in 1..P : f[i] \in 1..n
       /\ \A i \in 1..K : g[i] \in 1..n
  BY <1>5, <1>10, <1>11 DEF Lists
<1>22. ASSUME NEW i \in 1..(T + n) PROVE o[i] = out[m[i]]
  <2>1. CASE i <= T
    <3>1. i \in 1..T /\ i \in 1..(T + P) /\ i <= T + P
      BY <2>1, <1>2, <1>7
    <3>2. o[i] = taken[i]
      BY <3>1, <2>1, <1>17, <1>19
    <3>3. m[i] = i
      BY <3>1, <1>12 DEF Regroups
    <3>4. out[i] = taken[i]
      BY <2>1, <1>16
    <3>5. QED BY <3>2, <3>3, <3>4
  <2>2. CASE i > T /\ i <= T + P
    <3>1. i - T \in 1..P /\ T + (i - T) = i /\ i \in 1..(T + P) /\ ~(i <= T)
      BY <2>2, <1>2, <1>7
    <3>2. o[i] = b[i - T]
      BY <3>1, <2>2, <1>17, <1>19
    <3>3. b[i - T] = pipe[f[i - T]].data
      BY <3>1, <1>14 DEF b
    <3>4. f[i - T] \in 1..n
      BY <3>1, <1>21
    <3>5. m[T + (i - T)] = T + f[i - T]
      BY <3>1, <1>12 DEF Regroups
    <3>6. QED BY <3>1, <3>2, <3>3, <3>4, <3>5, <1>20
  <2>3. CASE i > T + P
    <3>1. i - (T + P) \in 1..K /\ (T + P) + (i - (T + P)) = i /\ ~(i <= T + P)
      BY <2>3, <1>2, <1>7
    <3>2. o[i] = c[i - (T + P)]
      BY <3>1, <1>19
    <3>3. c[i - (T + P)] = pipe[g[i - (T + P)]].data
      BY <3>1, <1>15 DEF c
    <3>4. g[i - (T + P)] \in 1..n
      BY <3>1, <1>21
    <3>5. m[(T + P) + (i - (T + P))] = T + g[i - (T + P)]
      BY <3>1, <1>12 DEF Regroups
    <3>6. QED BY <3>1, <3>2, <3>3, <3>4, <3>5, <1>20
  <2>4. QED BY <2>1, <2>2, <2>3, <1>2, <1>7
<1>23. ASSUME NEW i \in 1..(T + n), NEW k \in 1..(T + n), m[i] < m[k],
              Together(pushed, o[i], o[k])
       PROVE  i < k
  <2> SUFFICES ASSUME ~(i < k) PROVE FALSE
    OBVIOUS
  <2>1. m[i] > T /\ m[k] > T /\ m[i] - T \notin A /\ m[k] - T \in A
    BY <1>12, <1>23 DEF Crosses
  <2>2. m[i] \in 1..(T + n) /\ m[k] \in 1..(T + n)
    BY <1>12 DEF Permutes
  <2>3. /\ m[i] - T \in 1..n /\ T + (m[i] - T) = m[i]
        /\ m[k] - T \in 1..n /\ T + (m[k] - T) = m[k]
    BY <2>1, <2>2, <1>2
  <2>4. o[i] = pipe[m[i] - T].data /\ o[k] = pipe[m[k] - T].data
    BY <2>3, <1>20, <1>22
  <2>5. itOwner(pipe[m[i] - T]) = itOwner(pipe[m[k] - T])
    BY <2>3, <2>4, <1>6, <1>23, OneOwner
  <2>6. QED BY <2>1, <2>3, <2>5, <1>6
<1>24. Fifo(out, pushed)
  BY DEF OrderInv, Out, out, d
<1>25. Fifo(o, pushed)
  <2>1. T + n \in Nat
    BY <1>2
  <2> DEFINE N == T + n
  <2>2. /\ m \in [1..N -> 1..N]
        /\ \A i, k \in 1..N : m[i] = m[k] => i = k
        /\ \A a \in 1..N : \E i \in 1..N : m[i] = a
    BY <1>12 DEF Permutes
  <2>3. /\ \A i \in 1..N : o[i] = out[m[i]]
        /\ \A i, k \in 1..N : m[i] < m[k] /\ Together(pushed, o[i], o[k]) => i < k
    BY <1>22, <1>23
  <2>4. out \in Seq(Items) /\ Len(out) = N /\ o \in Seq(Items) /\ Len(o) = N
    BY <1>16, <1>19
  <2> HIDE DEF N
  <2>5. QED BY <2>1, <2>2, <2>3, <2>4, <1>24, FifoPermute DEF N
<1>26. taken' \in Seq(Items) /\ Out' = o
  BY <1>3, <1>17 DEF Out, Data, o, b, c
<1>27. QED BY <1>4, <1>25, <1>26 DEF OrderInv

LEMMA InitOrder == Init => OrderInv
<1> SUFFICES ASSUME Init PROVE OrderInv
  OBVIOUS
<1>1. pipe = <<>> /\ pushed = <<>> /\ taken = <<>>
  BY DEF Init
<1>2. DOMAIN pipe = {} /\ DOMAIN pushed = {}
  BY <1>1
<1>3. <<>> \in Seq(Features)
  OBVIOUS
<1>4. Data(pipe) \in Seq(Items) /\ Len(Data(pipe)) = 0
  BY <1>1, <1>3, DataOf
<1>5. Data(pipe) = <<>>
  BY <1>4, EmptySeq
<1>6. taken \in Seq(Items) /\ Out = <<>> \o <<>>
  BY <1>1, <1>5 DEF Out
<1>7. Out = <<>> /\ DOMAIN Out = {}
  BY <1>6
<1>8. QED BY <1>2, <1>6, <1>7 DEF OrderInv, Fifo, ToSet, IsInjective

\* What a step does to Out and pushed decides.
LEMMA SameOrder ==
  ASSUME OrderInv, taken' \in Seq(Items), Out' = Out, pushed' = pushed
  PROVE  OrderInv'
BY DEF OrderInv

LEMMA OutSeq == Inv /\ OrderInv => Out \in Seq(Items)
<1> SUFFICES ASSUME Inv, OrderInv PROVE Out \in Seq(Items)
  OBVIOUS
<1>1. Data(pipe) \in Seq(Items)
  BY DataOf DEF Inv
<1>2. QED BY <1>1, ConcatProperties DEF OrderInv, Out

LEMMA PushOrder ==
  ASSUME Inv, OrderInv, NEW p \in Producers, NEW d \in Items, push(p, d)
  PROVE  OrderInv'
<1> DEFINE f == MakeFeature(p, d)
<1>1. /\ pipe' = Append(pipe, f) /\ pushed' = Append(pushed, <<d, p>>) /\ taken' = taken
      /\ d \notin {pushed[i][1] : i \in DOMAIN pushed}
  BY DEF push, PushedItems
<1>2. f \in Features /\ f.data = d
  BY MadeBy DEF MakeFeature
<1> HIDE DEF f
<1>3. pipe \in Seq(Features) /\ pushed \in Seq(Items \X Producers) /\ taken \in Seq(Items)
      /\ Fifo(Out, pushed)
  BY DEF Inv, OrderInv
<1>4. taken \o Data(Append(pipe, f)) = Append(taken \o Data(pipe), f.data)
  BY <1>2, <1>3, OutAfterPush
<1>5. Out' = Append(Out, d)
  BY <1>1, <1>2, <1>4 DEF Out, Data
<1>6. Out \in Seq(Items)
  BY OutSeq
<1>7. Fifo(Append(Out, d), Append(pushed, <<d, p>>))
  BY <1>1, <1>3, <1>6, FifoAppend
<1>8. QED BY <1>1, <1>3, <1>5, <1>7 DEF OrderInv

LEMMA PushBatchOrder ==
  ASSUME Inv, OrderInv, NEW p \in Producers, NEW d \in Items, NEW e \in Items, pushBatch(p, d, e)
  PROVE  OrderInv'
<1> DEFINE f == MakeFeature(p, d)
           g == MakeFeature(p, e)
           s == Append(pushed, <<d, p>>)
<1>1. /\ pipe' = pipe \o <<f, g>> /\ pushed' = pushed \o <<<<d, p>>, <<e, p>>>> /\ taken' = taken
      /\ d # e /\ d \notin PushedItems /\ e \notin PushedItems
  BY DEF pushBatch
<1>2. f \in Features /\ f.data = d /\ g \in Features /\ g.data = e
  BY MadeBy DEF MakeFeature
<1> HIDE DEF f, g
<1>3. pipe \in Seq(Features) /\ pushed \in Seq(Items \X Producers) /\ taken \in Seq(Items)
      /\ Fifo(Out, pushed)
  BY DEF Inv, OrderInv
<1>4. <<d, p>> \in Items \X Producers /\ <<e, p>> \in Items \X Producers
  OBVIOUS
<1>5. pipe' = Append(Append(pipe, f), g) /\ Append(pipe, f) \in Seq(Features)
  BY <1>1, <1>2, <1>3
<1>6. pushed' = Append(s, <<e, p>>) /\ s \in Seq(Items \X Producers)
  <2> DEFINE x == <<d, p>>
             y == <<e, p>>
  <2>1. x \in Items \X Producers /\ y \in Items \X Producers
    BY <1>4
  <2>2. pushed' = pushed \o <<x, y>> /\ s = Append(pushed, x)
    BY <1>1
  <2> HIDE DEF x
  <2>3. pushed \o <<x, y>> = Append(Append(pushed, x), y) /\ Append(pushed, x) \in Seq(Items \X Producers)
    BY <1>3, <2>1, TwoAppends
  <2>4. QED BY <2>2, <2>3
<1>7. Out \in Seq(Items)
  BY OutSeq
<1>8. taken \o Data(Append(pipe, f)) = Append(Out, d)
  BY <1>2, <1>3, OutAfterPush DEF Out
<1>9. Fifo(Append(Out, d), s)
  BY <1>1, <1>3, <1>7, FifoAppend DEF PushedItems
<1>10. e \notin {s[i][1] : i \in DOMAIN s}
  <2>1. ToSet(s) = ToSet(pushed) \cup {<<d, p>>}
    BY <1>3, <1>4, AppendEntries
  <2>2. \A i \in DOMAIN s : s[i] \in ToSet(s)
    BY DEF ToSet
  <2>3. \A x \in ToSet(s) : x[1] # e
    BY <2>1, <1>1 DEF PushedItems, ToSet
  <2>4. QED BY <2>2, <2>3
<1> HIDE DEF s
<1>11. Append(Out, d) \in Seq(Items)
  BY <1>7
<1>12. Fifo(Append(Append(Out, d), e), pushed')
  BY <1>6, <1>9, <1>10, <1>11, FifoAppend
<1>13. Out' = Append(Append(Out, d), e)
  <2> DEFINE q == Append(pipe, f)
             n == Len(pipe)
  <2>1. Data(q) \in Seq(Items) /\ Data(Append(q, g)) = Append(Data(q), e)
    <3>1. q \in Seq(Features) /\ Len(q) \in Nat
      BY <1>5
    <3> HIDE DEF q
    <3>2. QED BY <3>1, <1>2, DataAppend
  <2>2. taken \o Append(Data(q), e) = Append(taken \o Data(q), e)
    BY <2>1, <1>3, ConcatAppend
  <2>3. QED BY <2>1, <2>2, <1>1, <1>5, <1>8 DEF Out, Data
<1>14. QED BY <1>1, <1>3, <1>12, <1>13 DEF OrderInv

LEMMA TakeOrder ==
  ASSUME Inv, OrderInv, TakeFront, pipe # <<>>, pushed' = pushed
  PROVE  OrderInv'
<1>1. taken' = Append(taken, Head(pipe).data) /\ pipe' = Tail(pipe)
  BY DEF TakeFront
<1>2. /\ Append(taken, Head(pipe).data) \in Seq(Items)
      /\ Append(taken, Head(pipe).data) \o Data(Tail(pipe)) = taken \o Data(pipe)
  BY OutAfterTake DEF Inv, OrderInv
<1>3. Out' = Out
  BY <1>1, <1>2 DEF Out, Data
<1>4. QED BY <1>1, <1>2, <1>3, SameOrder

LEMMA GatherOrder ==
  ASSUME Inv, OrderInv, taken' = taken \o Data(pipe), pipe' = <<>>, pushed' = pushed
  PROVE  OrderInv'
<1>1. Out \in Seq(Items)
  BY OutSeq
<1>2. <<>> \in Seq(Features)
  OBVIOUS
<1>3. Data(<<>>) \in Seq(Items) /\ Len(Data(<<>>)) = 0
  BY <1>2, DataOf
<1>4. Data(<<>>) = <<>>
  BY <1>3, EmptySeq
<1>5. Out \o <<>> = Out
  BY <1>1, ConcatEmptySeq
<1>6. taken' = Out /\ Data(pipe)' = Data(<<>>)
  BY DEF Out, Data
<1>7. Out' = Out
  BY <1>4, <1>5, <1>6 DEF Out
<1>8. QED BY <1>1, <1>6, <1>7, SameOrder

LEMMA NextOrder == Inv /\ OrderInv /\ [Next]_vars => OrderInv'
<1> SUFFICES ASSUME Inv, OrderInv, [Next]_vars PROVE OrderInv'
  OBVIOUS
<1>1. ASSUME UNCHANGED <<pipe, taken, pushed>> PROVE OrderInv'
  BY <1>1 DEF OrderInv, Out, Data
<1>2. CASE \E p \in Producers : ProducerStep(p)
  BY <1>2, PushOrder, PushBatchOrder, GatherExOrder DEF ProducerStep
<1>3. CASE \E p \in Producers : Notify(p) \/ JobReturns(p)
  BY <1>1, <1>3 DEF Notify, JobReturns
<1>4. CASE \E p \in Jobs : append(p)
  BY <1>1, <1>4 DEF append
<1>5. ASSUME NEW c \in Consumers, ForEach(c) \/ PopWait(c) \/ PopNothing(c) \/ UseEnd(c)
      PROVE  OrderInv'
  BY <1>1, <1>5 DEF ForEach, PopWait, PopNothing, UseEnd
<1>6. ASSUME NEW c \in Consumers, PopTake(c) \/ tryPop(c) PROVE OrderInv'
  BY <1>6, TakeOrder DEF PopTake, tryPop
<1>7. ASSUME NEW c \in Consumers, gather(c) \/ gather_and_forward(c) PROVE OrderInv'
  BY <1>7, GatherOrder DEF gather, gather_and_forward
<1>8. CASE UNCHANGED vars
  BY <1>1, <1>8 DEF vars
<1>9. QED BY <1>2, <1>3, <1>4, <1>5, <1>6, <1>7, <1>8
             DEF Next, ConsumerCall, LoopStep, Finished

\* Whoever takes the items and by whichever operation, also gather_ex, which takes them
\* out of the middle of the pipe: those of one context come out in the order of their
\* pushes, each once.
THEOREM ItemsInOrder == Spec => []PerContextFifo
<1>1. OrderInv => PerContextFifo
  BY FifoIsPerContext DEF OrderInv
<1>2. QED BY <1>1, InitOrder, NextOrder, Invariant, PTL DEF Spec

-----------------------------------------------------------------------------
(* The stream.                                                             *)
(*                                                                         *)
(* Blobs are copies, in the pipe and in the local variables of pop, so     *)
(* what a block reads does not depend on the producers' arrays; the blobs  *)
(* popped and not yet read are those of the consumers in their block.      *)

Blobs == [copy : Nat, of : {Null}]

Copies(q) == [i \in DOMAIN q |-> q[i].copy]

Blocked == {c \in Popping : spc[c] \in {"block", "tryBlock"}}

StreamInv ==
  /\ blobs \in Seq(Blobs) /\ item \in [Popping -> Blobs]
  /\ bytes \in [Producing -> Nat] /\ saved \in Nat
  /\ spc \in [Popping -> {"idle", "pop", "woken", "block", "tryBlock", "stopped"}]
  /\ popped \in Seq(Nat) /\ seen \in Seq(Nat)
  /\ sent = popped \o Copies(blobs)
  /\ IsFiniteSet(Blocked) /\ Len(popped) = Len(seen) + Cardinality(Blocked)
  /\ ToSet(popped) = ToSet(seen) \cup {item[c].copy : c \in Blocked}

LEMMA CopiesOf ==
  ASSUME NEW q \in Seq(Blobs)
  PROVE  /\ Copies(q) \in Seq(Nat) /\ Len(Copies(q)) = Len(q)
         /\ \A i \in 1..Len(q) : Copies(q)[i] = q[i].copy
<1>1. DOMAIN q = 1..Len(q) /\ Len(q) \in Nat
  OBVIOUS
<1>2. \A i \in 1..Len(q) : q[i] \in Blobs
  OBVIOUS
<1>3. Copies(q) \in [1..Len(q) -> Nat]
  BY <1>1, <1>2 DEF Copies, Blobs
<1>4. Copies(q) \in Seq(Nat) /\ Len(Copies(q)) = Len(q)
  BY <1>1, <1>3
<1>5. QED BY <1>1, <1>4 DEF Copies

LEMMA CopiesAppend ==
  ASSUME NEW q \in Seq(Blobs), NEW f \in Blobs
  PROVE  Copies(Append(q, f)) = Append(Copies(q), f.copy)
<1> DEFINE t == Append(q, f)
           m == Len(q)
           r == Append(Copies(q), f.copy)
<1>1. t \in Seq(Blobs) /\ Len(t) = m + 1 /\ m \in Nat /\ t[m + 1] = f
      /\ \A i \in 1..m : t[i] = q[i]
  OBVIOUS
<1>2. Copies(t) \in Seq(Nat) /\ Len(Copies(t)) = m + 1
      /\ \A i \in 1..(m + 1) : Copies(t)[i] = t[i].copy
  BY <1>1, CopiesOf
<1>3. Copies(q) \in Seq(Nat) /\ Len(Copies(q)) = m /\ \A i \in 1..m : Copies(q)[i] = q[i].copy
  BY CopiesOf
<1>4. f.copy \in Nat
  BY DEF Blobs
<1> HIDE DEF t, m
<1>5. r \in Seq(Nat) /\ Len(r) = m + 1 /\ r[m + 1] = f.copy
      /\ \A i \in 1..m : r[i] = Copies(q)[i]
  BY <1>1, <1>3, <1>4
<1> HIDE DEF r
<1>6. \A i \in 1..(m + 1) : i \in 1..m \/ i = m + 1
  BY <1>1
<1>7. \A i \in 1..(m + 1) : Copies(t)[i] = r[i]
  BY <1>1, <1>2, <1>3, <1>5, <1>6
<1>8. Copies(t) = r
  BY <1>2, <1>5, <1>7, SeqEqual
<1>9. QED BY <1>8 DEF t, r

LEMMA CopiesTail ==
  ASSUME NEW q \in Seq(Blobs), q # <<>>
  PROVE  Copies(q) = <<Head(q).copy>> \o Copies(Tail(q))
<1> DEFINE m == Len(q)
           h == <<Head(q).copy>>
           d == Copies(Tail(q))
<1>1. /\ Tail(q) \in Seq(Blobs) /\ Head(q) \in Blobs /\ Len(Tail(q)) = m - 1
      /\ \A i \in 1..Len(Tail(q)) : Tail(q)[i] = q[i + 1]
  BY HeadTailProperties
<1>2. Head(q) = q[1] /\ m \in Nat \ {0}
  BY EmptySeq
<1>3. Head(q).copy \in Nat
  BY <1>1 DEF Blobs
<1>4. h \in Seq(Nat) /\ Len(h) = 1 /\ h[1] = q[1].copy
  BY <1>2, <1>3
<1>5. d \in Seq(Nat) /\ Len(d) = m - 1 /\ \A i \in 1..(m - 1) : d[i] = q[i + 1].copy
  BY <1>1, CopiesOf
<1>6. Copies(q) \in Seq(Nat) /\ Len(Copies(q)) = m /\ \A i \in 1..m : Copies(q)[i] = q[i].copy
  BY CopiesOf
<1> HIDE DEF h, d, m
<1>7. h \o d \in Seq(Nat) /\ Len(h \o d) = 1 + (m - 1)
      /\ \A i \in 1..(1 + (m - 1)) : (h \o d)[i] = IF i <= 1 THEN h[i] ELSE d[i - 1]
  <2>1. /\ h \o d \in Seq(Nat) /\ Len(h \o d) = Len(h) + Len(d)
        /\ \A i \in 1..(Len(h) + Len(d)) : (h \o d)[i] = IF i <= Len(h) THEN h[i] ELSE d[i - Len(h)]
    BY <1>4, <1>5, ConcatProperties
  <2>2. QED BY <2>1, <1>4, <1>5
<1>8. ASSUME NEW i \in 1..m PROVE (h \o d)[i] = Copies(q)[i]
  <2>1. CASE i = 1
    BY <2>1, <1>2, <1>4, <1>6, <1>7
  <2>2. CASE i # 1
    <3>1. i - 1 \in 1..(m - 1) /\ (i - 1) + 1 = i /\ i \in 1..(1 + (m - 1)) /\ ~(i <= 1)
      BY <2>2, <1>2
    <3>2. QED BY <3>1, <1>5, <1>6, <1>7
  <2>3. QED BY <2>1, <2>2
<1>9. 1 + (m - 1) = m
  BY <1>2
<1>10. h \o d = Copies(q)
  BY <1>6, <1>7, <1>8, <1>9, SeqEqual
<1>11. QED BY <1>10 DEF h, d

LEMMA ContentIsCopy ==
  ASSUME NEW b \in Blobs
  PROVE  Bytes!content(b) = b.copy /\ b.copy \in Nat
BY DEF Bytes!content, Blobs

LEMMA ContentsAreCopies ==
  ASSUME NEW q \in Seq(Blobs)
  PROVE  Bytes!Contents(q) = Copies(q)
<1>1. \A i \in DOMAIN q : q[i] \in Blobs
  OBVIOUS
<1>2. \A i \in DOMAIN q : Bytes!content(q[i]) = q[i].copy
  BY <1>1, ContentIsCopy
<1>3. QED BY <1>2 DEF Bytes!Contents, Copies

LEMMA ReadFollows == StreamInv => ReadAsPushed
<1> SUFFICES ASSUME StreamInv PROVE ReadAsPushed
  OBVIOUS
<1>1. sent = popped \o Bytes!Contents(blobs)
  BY ContentsAreCopies DEF StreamInv
<1>2. Bytes!InBlock = Blocked
  BY DEF Bytes!InBlock, Blocked
<1>3. Bytes!Cardinality(Blocked) = Cardinality(Blocked)
  BY DEF Bytes!Cardinality, Cardinality
<1>4. Len(popped) = Len(seen) + Bytes!Cardinality(Bytes!InBlock)
  <2>1. Len(popped) = Len(seen) + Cardinality(Blocked)
    BY DEF StreamInv
  <2>2. QED BY <2>1, <1>2, <1>3, Zenon
<1>5. {Bytes!content(item[c]) : c \in Bytes!InBlock} = {item[c].copy : c \in Blocked}
  <2>1. \A c \in Blocked : Bytes!content(item[c]) = item[c].copy
    BY ContentIsCopy DEF StreamInv, Blocked
  <2>2. QED BY <2>1, <1>2
<1>6. ToSet(popped) = ToSet(seen) \cup {Bytes!content(item[c]) : c \in Bytes!InBlock}
  BY <1>5 DEF StreamInv
<1>7. Bytes!ToSet(popped) = ToSet(popped) /\ Bytes!ToSet(seen) = ToSet(seen)
  BY DEF Bytes!ToSet, ToSet
<1>8. QED BY <1>1, <1>4, <1>6, <1>7 DEF ReadAsPushed, Bytes!ReadAsPushed

LEMMA InitStream == Bytes!Init => StreamInv
<1> SUFFICES ASSUME Bytes!Init PROVE StreamInv
  OBVIOUS
<1>1. /\ blobs = <<>> /\ sent = <<>> /\ popped = <<>> /\ seen = <<>> /\ saved = 0
      /\ bytes = [p \in Producing |-> 0] /\ item = [c \in Popping |-> [copy |-> 0, of |-> Null]]
      /\ spc = [c \in Popping |-> "idle"]
  BY DEF Bytes!Init, Bytes!NoBlob
<1>2. [copy |-> 0, of |-> Null] \in Blobs
  BY DEF Blobs
<1>3. item \in [Popping -> Blobs] /\ bytes \in [Producing -> Nat]
  BY <1>1, <1>2
<1>4. Blocked = {}
  BY <1>1 DEF Blocked
<1>5. IsFiniteSet(Blocked) /\ Cardinality(Blocked) = 0
  BY <1>4, FS_EmptySet
<1>6. blobs \in Seq(Blobs) /\ popped \in Seq(Nat) /\ seen \in Seq(Nat) /\ Len(popped) = 0 /\ Len(seen) = 0
  BY <1>1
<1>7. Copies(blobs) = <<>>
  <2>1. Copies(blobs) \in Seq(Nat) /\ Len(Copies(blobs)) = 0
    BY <1>1, <1>6, CopiesOf
  <2>2. QED BY <2>1, EmptySeq
<1>8. sent = popped \o Copies(blobs)
  BY <1>1, <1>7
<1>9. ToSet(popped) = ToSet(seen) \cup {item[c].copy : c \in Blocked}
  BY <1>1, <1>4
<1>10. QED BY <1>1, <1>3, <1>5, <1>6, <1>8, <1>9 DEF StreamInv

\* A blob at the end of the pipe.
LEMMA SentGrows ==
  ASSUME NEW q \in Seq(Blobs), NEW f \in Blobs, NEW s \in Seq(Nat)
  PROVE  /\ Append(q, f) \in Seq(Blobs)
         /\ s \o Copies(Append(q, f)) = Append(s \o Copies(q), f.copy)
<1>1. Copies(Append(q, f)) = Append(Copies(q), f.copy)
  BY CopiesAppend
<1>2. f.copy \in Nat /\ Copies(q) \in Seq(Nat)
  BY CopiesOf DEF Blobs
<1>3. s \o Append(Copies(q), f.copy) = Append(s \o Copies(q), f.copy)
  BY <1>2, ConcatAppend
<1>4. QED BY <1>1, <1>3

LEMMA ProducerStream ==
  ASSUME StreamInv, NEW p \in Producing,
         Bytes!save(p) \/ Bytes!pushBatch(p) \/ Bytes!ProducerEnds(p)
  PROVE  StreamInv'
<1>1. ASSUME UNCHANGED <<blobs, item, spc, popped, seen, sent>>, saved' \in Nat,
             bytes' \in [Producing -> Nat]
      PROVE  StreamInv'
  BY <1>1 DEF StreamInv, Blocked, Copies
<1>2. bytes[p] \in Nat /\ saved \in Nat /\ bytes \in [Producing -> Nat]
  BY DEF StreamInv
<1>3. CASE Bytes!save(p)
  <2>1. /\ saved' = saved + 1 /\ bytes' = [bytes EXCEPT ![p] = saved + 1]
        /\ UNCHANGED <<blobs, item, spc, popped, seen, sent>>
    BY <1>3 DEF Bytes!save
  <2>2. QED BY <2>1, <1>1, <1>2
<1>4. CASE Bytes!deleteBytes(p)
  <2>1. /\ bytes' = [bytes EXCEPT ![p] = 0] /\ saved' = saved
        /\ UNCHANGED <<blobs, item, spc, popped, seen, sent>>
    BY <1>4 DEF Bytes!deleteBytes
  <2>2. QED BY <2>1, <1>1, <1>2
<1>5. CASE Bytes!Notify(p)
  BY <1>1, <1>2, <1>5 DEF Bytes!Notify
<1>6. ASSUME blobs' \in Seq(Blobs), sent' = popped \o Copies(blobs'), saved' \in Nat, bytes' = bytes,
             UNCHANGED <<item, spc, popped, seen>>
      PROVE  StreamInv'
  BY <1>6 DEF StreamInv, Blocked, Copies
<1>7. blobs \in Seq(Blobs) /\ popped \in Seq(Nat) /\ sent = popped \o Copies(blobs)
  BY DEF StreamInv
<1>8. CASE Bytes!push(p)
  <2> DEFINE f == [copy |-> bytes[p], of |-> Null]
  <2>1. /\ blobs' = Append(blobs, f) /\ sent' = Append(sent, bytes[p])
        /\ UNCHANGED <<item, spc, popped, seen, saved, bytes>>
    BY <1>8 DEF Bytes!push, Bytes!Copy
  <2>2. f \in Blobs /\ f.copy = bytes[p]
    BY <1>2 DEF Blobs
  <2> HIDE DEF f
  <2>3. /\ Append(blobs, f) \in Seq(Blobs)
        /\ popped \o Copies(Append(blobs, f)) = Append(popped \o Copies(blobs), f.copy)
    BY <1>7, <2>2, SentGrows
  <2>4. sent' = popped \o Copies(blobs')
    BY <2>1, <2>2, <2>3, <1>7
  <2>5. QED BY <2>1, <2>3, <2>4, <1>2, <1>6
<1>9. CASE Bytes!pushBatch(p)
  <2> DEFINE f == [copy |-> saved + 1, of |-> Null]
             g == [copy |-> saved + 2, of |-> Null]
  <2>1. /\ blobs' = blobs \o <<f, g>> /\ sent' = sent \o <<saved + 1, saved + 2>>
        /\ saved' = saved + 2 /\ UNCHANGED <<item, spc, popped, seen, bytes>>
    BY <1>9 DEF Bytes!pushBatch, Bytes!Batch
  <2>2. f \in Blobs /\ f.copy = saved + 1 /\ g \in Blobs /\ g.copy = saved + 2
    BY <1>2 DEF Blobs
  <2> HIDE DEF f, g
  <2>3. blobs \o <<f, g>> = Append(Append(blobs, f), g)
    BY <1>7, <2>2, TwoAppends
  <2>4. /\ Append(blobs, f) \in Seq(Blobs)
        /\ popped \o Copies(Append(blobs, f)) = Append(sent, saved + 1)
    BY <1>7, <2>2, SentGrows
  <2>5. /\ Append(Append(blobs, f), g) \in Seq(Blobs)
        /\ popped \o Copies(Append(Append(blobs, f), g))
             = Append(popped \o Copies(Append(blobs, f)), saved + 2)
    BY <1>7, <2>2, <2>4, SentGrows
  <2>6. sent \in Seq(Nat)
    BY <1>7, CopiesOf, ConcatProperties
  <2>7. sent \o <<saved + 1, saved + 2>> = Append(Append(sent, saved + 1), saved + 2)
    <3>1. saved + 1 \in Nat /\ saved + 2 \in Nat
      BY <1>2
    <3>2. QED BY <2>6, <3>1, TwoAppends
  <2>8. sent' = popped \o Copies(blobs') /\ blobs' \in Seq(Blobs)
    BY <2>1, <2>3, <2>4, <2>5, <2>7
  <2>9. saved' \in Nat
    BY <2>1, <1>2
  <2>10. QED BY <2>1, <2>8, <2>9, <1>6
<1>10. QED BY <1>3, <1>4, <1>5, <1>8, <1>9 DEF Bytes!ProducerEnds

\* A consumer takes the blob at the front and goes into its block.
LEMMA TakeStream ==
  ASSUME StreamInv, NEW c \in Popping, Bytes!popTake(c) \/ Bytes!tryPop(c)
  PROVE  StreamInv'
<1> DEFINE h == Head(blobs)
           t == Tail(blobs)
<1>1. /\ spc[c] \in {"woken", "idle"} /\ blobs # <<>>
      /\ item' = [item EXCEPT ![c] = h] /\ blobs' = t
      /\ popped' = Append(popped, Bytes!content(h))
      /\ \E s \in {"block", "tryBlock"} : spc' = [spc EXCEPT ![c] = s]
      /\ UNCHANGED <<bytes, saved, sent, seen>>
  BY DEF Bytes!popTake, Bytes!tryPop, Bytes!takeFront, Bytes!producerVars
<1>2. /\ blobs \in Seq(Blobs) /\ item \in [Popping -> Blobs] /\ popped \in Seq(Nat)
      /\ seen \in Seq(Nat) /\ sent = popped \o Copies(blobs)
      /\ spc \in [Popping -> {"idle", "pop", "woken", "block", "tryBlock", "stopped"}]
      /\ IsFiniteSet(Blocked) /\ Len(popped) = Len(seen) + Cardinality(Blocked)
      /\ ToSet(popped) = ToSet(seen) \cup {item[k].copy : k \in Blocked}
  BY DEF StreamInv
<1>3. h \in Blobs /\ t \in Seq(Blobs)
  BY <1>1, <1>2, HeadTailProperties
<1>4. Copies(blobs) = <<h.copy>> \o Copies(t)
  BY <1>1, <1>2, CopiesTail
<1> HIDE DEF h, t
<1>5. Bytes!content(h) = h.copy /\ h.copy \in Nat
  BY <1>3, ContentIsCopy
<1>6. popped' = Append(popped, h.copy) /\ popped' \in Seq(Nat)
      /\ Len(popped') = Len(popped) + 1 /\ ToSet(popped') = ToSet(popped) \cup {h.copy}
  <2>1. popped' = Append(popped, h.copy)
    BY <1>1, <1>5
  <2> DEFINE x == h.copy
             r == Append(popped, x)
  <2> HIDE DEF x
  <2>2. ToSet(r) = ToSet(popped) \cup {x} /\ r \in Seq(Nat)
    BY <1>2, <1>5, AppendEntries DEF x
  <2>3. Len(r) = Len(popped) + 1
    BY <1>2
  <2>4. QED BY <2>1, <2>2, <2>3 DEF x
<1>7. sent' = popped' \o Copies(blobs')
  <2>1. <<h.copy>> \in Seq(Nat) /\ Copies(t) \in Seq(Nat)
    BY <1>3, <1>5, CopiesOf
  <2>2. (popped \o <<h.copy>>) \o Copies(t) = popped \o (<<h.copy>> \o Copies(t))
    BY <1>2, <2>1, ConcatAssociative
  <2>3. Append(popped, h.copy) = popped \o <<h.copy>>
    BY <1>2, <1>5, AppendIsConcat
  <2>4. QED BY <1>1, <1>2, <1>4, <1>6, <2>2, <2>3
<1>8. Blocked' = Blocked \cup {c} /\ c \notin Blocked
  BY <1>1, <1>2 DEF Blocked
<1>9. IsFiniteSet(Blocked') /\ Cardinality(Blocked') = Cardinality(Blocked) + 1
      /\ Cardinality(Blocked) \in Nat
  BY <1>2, <1>8, FS_AddElement, FS_CardinalityType
<1>10. Len(popped') = Len(seen') + Cardinality(Blocked')
  <2>1. Len(seen) \in Nat /\ seen' = seen
    BY <1>1, <1>2
  <2>2. QED BY <2>1, <1>2, <1>6, <1>9
<1>11. {item'[k].copy : k \in Blocked'} = {item[k].copy : k \in Blocked} \cup {h.copy}
  <2>1. item'[c] = h /\ \A k \in Blocked : item'[k] = item[k]
    BY <1>1, <1>2, <1>8 DEF Blocked
  <2>2. QED BY <2>1, <1>8
<1>12. ToSet(popped') = ToSet(seen') \cup {item'[k].copy : k \in Blocked'}
  BY <1>1, <1>2, <1>6, <1>11
<1>13. item' \in [Popping -> Blobs]
       /\ spc' \in [Popping -> {"idle", "pop", "woken", "block", "tryBlock", "stopped"}]
  BY <1>1, <1>2, <1>3
<1>14. blobs' \in Seq(Blobs) /\ seen' \in Seq(Nat) /\ bytes' \in [Producing -> Nat] /\ saved' \in Nat
  BY <1>1, <1>2, <1>3 DEF StreamInv
<1>15. QED BY <1>6, <1>7, <1>9, <1>10, <1>12, <1>13, <1>14 DEF StreamInv, Copies, ToSet

\* A block reads the local blob and pop returns.
LEMMA BlockStream ==
  ASSUME StreamInv, NEW c \in Popping, Bytes!Block(c)
  PROVE  StreamInv'
<1> DEFINE x == item[c].copy
<1>1. /\ spc[c] \in {"block", "tryBlock"}
      /\ seen' = Append(seen, Bytes!content(item[c]))
      /\ item' = [item EXCEPT ![c] = [copy |-> 0, of |-> Null]]
      /\ \E s \in {"pop", "idle"} : spc' = [spc EXCEPT ![c] = s]
      /\ UNCHANGED <<blobs, bytes, saved, sent, popped>>
  BY DEF Bytes!Block, Bytes!NoBlob, Bytes!producerVars
<1>2. /\ blobs \in Seq(Blobs) /\ item \in [Popping -> Blobs] /\ popped \in Seq(Nat)
      /\ seen \in Seq(Nat) /\ sent = popped \o Copies(blobs)
      /\ spc \in [Popping -> {"idle", "pop", "woken", "block", "tryBlock", "stopped"}]
      /\ IsFiniteSet(Blocked) /\ Len(popped) = Len(seen) + Cardinality(Blocked)
      /\ ToSet(popped) = ToSet(seen) \cup {item[k].copy : k \in Blocked}
  BY DEF StreamInv
<1>3. Bytes!content(item[c]) = x /\ x \in Nat
  BY <1>2, ContentIsCopy
<1>4. c \in Blocked /\ Blocked' = Blocked \ {c}
  BY <1>1, <1>2 DEF Blocked
<1>5. {item[k].copy : k \in Blocked} = {item[k].copy : k \in Blocked'} \cup {x}
  BY <1>4
<1>6. {item'[k].copy : k \in Blocked'} = {item[k].copy : k \in Blocked'}
  <2>1. \A k \in Blocked' : item'[k] = item[k]
    BY <1>1, <1>2, <1>4 DEF Blocked
  <2>2. QED BY <2>1
<1> HIDE DEF x
<1>7. seen' = Append(seen, x)
  BY <1>1, <1>3
<1>8. ToSet(seen') = ToSet(seen) \cup {x} /\ seen' \in Seq(Nat) /\ Len(seen') = Len(seen) + 1
  <2>1. ToSet(Append(seen, x)) = ToSet(seen) \cup {x} /\ Append(seen, x) \in Seq(Nat)
    BY <1>2, <1>3, AppendEntries
  <2>2. Len(Append(seen, x)) = Len(seen) + 1
    BY <1>2
  <2>3. QED BY <1>7, <2>1, <2>2
<1>9. IsFiniteSet(Blocked') /\ Cardinality(Blocked') = Cardinality(Blocked) - 1
      /\ Cardinality(Blocked) \in Nat
  BY <1>2, <1>4, FS_RemoveElement, FS_CardinalityType
<1>10. Len(popped') = Len(seen') + Cardinality(Blocked')
  <2>1. Len(seen) \in Nat /\ popped' = popped
    BY <1>1, <1>2
  <2>2. QED BY <2>1, <1>2, <1>8, <1>9
<1>11. ToSet(popped') = ToSet(seen') \cup {item'[k].copy : k \in Blocked'}
  BY <1>1, <1>2, <1>5, <1>6, <1>8
<1>12. [copy |-> 0, of |-> Null] \in Blobs
  BY DEF Blobs
<1>13. item' \in [Popping -> Blobs]
       /\ spc' \in [Popping -> {"idle", "pop", "woken", "block", "tryBlock", "stopped"}]
  BY <1>1, <1>2, <1>12
<1>14. sent' = popped' \o Copies(blobs')
  BY <1>1, <1>2
<1>15. /\ blobs' \in Seq(Blobs) /\ popped' \in Seq(Nat)
       /\ bytes' \in [Producing -> Nat] /\ saved' \in Nat
  BY <1>1, <1>2 DEF StreamInv
<1>16. QED BY <1>8, <1>9, <1>10, <1>11, <1>13, <1>14, <1>15 DEF StreamInv, Copies, ToSet

LEMMA GatherStream ==
  ASSUME StreamInv, NEW c \in Popping, Bytes!gather(c)
  PROVE  StreamInv'
<1> DEFINE d == Copies(blobs)
<1>1. /\ seen' = seen \o Bytes!Contents(blobs) /\ popped' = popped \o Bytes!Contents(blobs)
      /\ blobs' = <<>> /\ UNCHANGED <<item, spc, bytes, saved, sent>>
  BY DEF Bytes!gather, Bytes!producerVars
<1>2. /\ blobs \in Seq(Blobs) /\ item \in [Popping -> Blobs] /\ popped \in Seq(Nat)
      /\ seen \in Seq(Nat) /\ sent = popped \o d
      /\ IsFiniteSet(Blocked) /\ Len(popped) = Len(seen) + Cardinality(Blocked)
      /\ ToSet(popped) = ToSet(seen) \cup {item[k].copy : k \in Blocked}
  BY DEF StreamInv
<1>3. Bytes!Contents(blobs) = d /\ d \in Seq(Nat) /\ Len(d) \in Nat
  BY <1>2, ContentsAreCopies, CopiesOf
<1> HIDE DEF d
<1>4. seen' = seen \o d /\ popped' = popped \o d
  BY <1>1, <1>3
<1>5. seen \o d \in Seq(Nat) /\ Len(seen \o d) = Len(seen) + Len(d)
  BY <1>2, <1>3, ConcatProperties
<1>6. popped \o d \in Seq(Nat) /\ Len(popped \o d) = Len(popped) + Len(d)
  BY <1>2, <1>3, ConcatProperties
<1>7. Range(seen \o d) = Range(seen) \cup Range(d) /\ Range(popped \o d) = Range(popped) \cup Range(d)
  BY <1>2, <1>3, RangeConcatenation
<1>8. Blocked' = Blocked /\ {item'[k].copy : k \in Blocked'} = {item[k].copy : k \in Blocked}
  BY <1>1 DEF Blocked
<1>9. ToSet(popped') = ToSet(seen') \cup {item'[k].copy : k \in Blocked'}
  <2>1. \A q : ToSet(q) = Range(q)
    BY DEF ToSet, Range
  <2>2. /\ ToSet(popped') = ToSet(popped) \cup ToSet(d)
        /\ ToSet(seen') = ToSet(seen) \cup ToSet(d)
    BY <2>1, <1>4, <1>7
  <2>3. QED BY <2>2, <1>2, <1>8
<1>10. Len(popped') = Len(seen') + Cardinality(Blocked')
  <2>1. Len(seen) \in Nat /\ Cardinality(Blocked) \in Nat
    BY <1>2, FS_CardinalityType
  <2>2. QED BY <2>1, <1>2, <1>3, <1>4, <1>5, <1>6, <1>8
<1>11. sent' = popped' \o Copies(blobs')
  <2>1. blobs' \in Seq(Blobs) /\ Len(blobs') = 0
    BY <1>1
  <2>2. Copies(blobs') \in Seq(Nat) /\ Len(Copies(blobs')) = 0
    BY <2>1, CopiesOf
  <2>3. Copies(blobs') = <<>>
    BY <2>2, EmptySeq
  <2>4. popped' \o <<>> = popped'
    BY <1>4, <1>6, ConcatEmptySeq
  <2>5. QED BY <1>1, <1>2, <1>4, <2>3, <2>4
<1>12. blobs' \in Seq(Blobs) /\ seen' \in Seq(Nat) /\ popped' \in Seq(Nat)
  BY <1>1, <1>4, <1>5, <1>6
<1>13. QED BY <1>1, <1>2, <1>8, <1>9, <1>10, <1>11, <1>12 DEF StreamInv, Copies, ToSet

\* The consumer only moves outside of its block.
LEMMA WaitStream ==
  ASSUME StreamInv, NEW c \in Popping,
         Bytes!Loop(c) \/ Bytes!popWait(c) \/ Bytes!popNothing(c)
  PROVE  StreamInv'
<1>1. /\ spc[c] \notin {"block", "tryBlock"}
      /\ \E s \in {"pop", "woken", "stopped"} : spc' = [spc EXCEPT ![c] = s]
      /\ UNCHANGED <<blobs, item, bytes, saved, sent, popped, seen>>
  BY DEF Bytes!Loop, Bytes!popWait, Bytes!popNothing, Bytes!producerVars
<1>2. spc' \in [Popping -> {"idle", "pop", "woken", "block", "tryBlock", "stopped"}]
      /\ Blocked' = Blocked
  BY <1>1 DEF StreamInv, Blocked
<1>3. QED BY <1>1, <1>2 DEF StreamInv, Copies

LEMMA NextStream == StreamInv /\ [Bytes!Next]_(Bytes!vars) => StreamInv'
<1> SUFFICES ASSUME StreamInv, [Bytes!Next]_(Bytes!vars) PROVE StreamInv'
  OBVIOUS
<1>1. CASE \E p \in Producing : Bytes!save(p) \/ Bytes!pushBatch(p) \/ Bytes!ProducerEnds(p)
  BY <1>1, ProducerStream
<1>2. CASE \E c \in Popping : Bytes!popTake(c) \/ Bytes!tryPop(c)
  BY <1>2, TakeStream
<1>3. CASE \E c \in Popping : Bytes!Block(c)
  BY <1>3, BlockStream
<1>4. CASE \E c \in Popping : Bytes!gather(c)
  BY <1>4, GatherStream
<1>5. CASE \E c \in Popping : Bytes!Loop(c) \/ Bytes!popWait(c) \/ Bytes!popNothing(c)
  BY <1>5, WaitStream
<1>6. CASE UNCHANGED Bytes!vars
  BY <1>6 DEF Bytes!vars, StreamInv, Blocked, Copies
<1>7. QED BY <1>1, <1>2, <1>3, <1>4, <1>5, <1>6 DEF Bytes!Next, Bytes!LoopStep, Bytes!Finished

\* Blobs leave in the order of the pushes, each is read once, and as it was pushed,
\* although blocks run without the mutex and producers delete their arrays.
THEOREM StreamReadsAsPushed == Bytes!Spec => []ReadAsPushed
BY InitStream, NextStream, ReadFollows, PTL DEF Bytes!Spec

\* Every behaviour the runs check is one of Channel and one of Stream, so it has all of
\* these properties.
THEOREM PipesAreSafe ==
  MCSpec => [](DataAlive /\ NothingStranded /\ PerContextFifo /\ ReadAsPushed)
<1>1. MCInit => Init /\ Bytes!Init
  BY DEF MCInit
<1>2. [MCNext]_allVars => [Next]_vars
  BY DEF MCNext, AsChannel, AsStream, allVars
<1>3. [MCNext]_allVars => [Bytes!Next]_(Bytes!vars)
  BY DEF MCNext, AsChannel, AsStream, allVars, streamVars, Bytes!vars
<1>4. MCSpec => Spec /\ Bytes!Spec
  BY <1>1, <1>2, <1>3, PTL DEF MCSpec, Spec, Bytes!Spec
<1>5. QED BY <1>4, DataIsAlive, NothingIsStranded, ItemsInOrder, StreamReadsAsPushed, PTL

=============================================================================
