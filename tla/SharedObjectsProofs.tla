------------------------- MODULE SharedObjectsProofs ------------------------
(***************************************************************************)
(* The two ways a script holds an object of C++.                           *)
(*                                                                         *)
(* HandleRegistry, for every number of slots, every width of the           *)
(* generation and every history of acquires and releases.                  *)
(* StaleFindsNothing is not inductive: that a released handle differs from *)
(* the slot now says nothing of the slot later.  StaleInv says more: while *)
(* the generation of the slot has not wrapped it is larger than that of    *)
(* the handle, and it only grows.  LiveInv ties every live handle to its   *)
(* slot, and FreeListSound is inductive as it stands.                      *)
(*                                                                         *)
(* SharedStatus, for any set of jobs, any of them notifying, a creator     *)
(* that joins or does not, that removes the object or releases it, and any *)
(* number of failed removes (SharedStatusAssumption only).                 *)
(***************************************************************************)
EXTENDS MCSharedObjects, FiniteSetTheorems, TLAPS

-----------------------------------------------------------------------------
(* Handles.                                                                *)

SlotType == [ptr : Objects \cup {Null}, generation : Nat, next_free : Nat, in_use : BOOLEAN]
HandleType == [idx : Nat, gen : Nat, wraps : Nat, ptr : Objects]

TypeInv ==
  /\ slots \in Seq(SlotType)
  /\ wraps \in Seq(Nat)
  /\ Len(wraps) = Len(slots)
  /\ free_head \in Nat
  /\ live \subseteq HandleType
  /\ stale \subseteq HandleType

LiveInv ==
  /\ \A h \in live :
       /\ h.idx \in 1..Len(slots)
       /\ slots[h.idx].in_use
       /\ slots[h.idx].generation = h.gen
       /\ slots[h.idx].ptr = h.ptr
       /\ wraps[h.idx] = h.wraps
  /\ \A i \in InUse : \E h \in live : h.idx = i

StaleInv ==
  \A h \in stale :
    /\ h.idx \in 1..Len(slots)
    /\ h.wraps <= wraps[h.idx]
    /\ wraps[h.idx] = h.wraps => h.gen < slots[h.idx].generation

IInv == TypeInv /\ LiveInv /\ StaleInv /\ FreeListSound

-----------------------------------------------------------------------------

\* What Occupy does to the slots: slot i changes, the others stay.
LEMMA OccupyChanges ==
  ASSUME NEW all \in Seq(SlotType), NEW i \in 1..Len(all), NEW p \in Objects,
         Occupy(all, i, p)
  PROVE  /\ slots' \in Seq(SlotType)
         /\ Len(slots') = Len(all)
         /\ slots'[i] = [ptr |-> p, generation |-> all[i].generation,
                         next_free |-> 0, in_use |-> TRUE]
         /\ \A j \in 1..Len(all) : j # i => slots'[j] = all[j]
<1> DEFINE r == [ptr |-> p, generation |-> all[i].generation, next_free |-> 0, in_use |-> TRUE]
<1>1. all[i] \in SlotType
  OBVIOUS
<1>2. r \in SlotType
  BY <1>1 DEF SlotType
<1>3. slots' = [all EXCEPT ![i] = r]
  BY DEF Occupy
<1> HIDE DEF r
<1>4. slots' \in Seq(SlotType) /\ Len(slots') = Len(all)
  BY <1>2, <1>3
<1>5. slots'[i] = r /\ \A j \in 1..Len(all) : j # i => slots'[j] = all[j]
  BY <1>3
<1>6. QED
  BY <1>4, <1>5 DEF r

\* Taking the head of the free list.
LEMMA AcquireFreeStep ==
  ASSUME IInv, NEW p \in Objects, AcquireFree(p)
  PROVE  IInv'
<1> DEFINE i == free_head
<1> USE DEF IInv, FreeListSound
<1>1. /\ i \in 1..Len(slots) /\ ~slots[i].in_use
      /\ wraps' = wraps /\ free_head' = slots[i].next_free
      /\ stale' = stale
      /\ Occupy(slots, i, p)
  BY DEF AcquireFree, Occupy, FreeListLinked, FreeSlots, InUse
<1>2. /\ slots' \in Seq(SlotType)
      /\ Len(slots') = Len(slots)
      /\ slots'[i] = [ptr |-> p, generation |-> slots[i].generation,
                      next_free |-> 0, in_use |-> TRUE]
      /\ \A j \in 1..Len(slots) : j # i => slots'[j] = slots[j]
  BY <1>1, OccupyChanges DEF TypeInv
<1> DEFINE h0 == [idx |-> i, gen |-> slots[i].generation, wraps |-> wraps[i], ptr |-> p]
<1>3. live' = live \cup {h0}
  BY <1>1 DEF Occupy
<1>4. slots[i] \in SlotType /\ wraps[i] \in Nat
  BY <1>1 DEF TypeInv
<1>5. h0 \in HandleType
  BY <1>1, <1>4 DEF HandleType, SlotType
<1>6. free_head' \in Nat
  BY <1>1, <1>4 DEF SlotType
<1>7. TypeInv'
  BY <1>1, <1>2, <1>3, <1>5, <1>6 DEF TypeInv
<1>8. \A h \in live : h.idx # i
  BY <1>1 DEF LiveInv
<1>9. LiveInv'
  <2>1. ASSUME NEW h \in live'
        PROVE  /\ h.idx \in 1..Len(slots')
               /\ slots'[h.idx].in_use
               /\ slots'[h.idx].generation = h.gen
               /\ slots'[h.idx].ptr = h.ptr
               /\ wraps'[h.idx] = h.wraps
    <3>1. CASE h \in live
      BY <3>1, <1>1, <1>2, <1>8 DEF LiveInv
    <3>2. CASE h = h0
      BY <3>2, <1>1, <1>2
    <3>3. QED
      BY <3>1, <3>2, <1>3, <2>1
  <2>2. ASSUME NEW j \in InUse'
        PROVE  \E h \in live' : h.idx = j
    <3>1. CASE j = i
      <4>1. h0 \in live' /\ h0.idx = i
        BY <1>3
      <4>2. QED
        BY <3>1, <4>1
    <3>2. CASE j # i
      BY <3>2, <1>2, <1>3 DEF LiveInv, InUse
    <3>3. QED
      BY <3>1, <3>2
  <2>3. QED
    BY <2>1, <2>2 DEF LiveInv
<1>10. StaleInv'
  BY <1>1, <1>2 DEF StaleInv
<1>11. FreeListLinked'
  <2>1. InUse' = InUse \cup {i}
    BY <1>1, <1>2 DEF InUse
  <2>2. 1..Len(slots') \ InUse' = (1..Len(slots) \ InUse) \ {i}
    BY <2>1, <1>2
  <2> DEFINE F == 1..Len(slots) \ InUse
  <2>3. \A j \in F \ {i} : slots'[j] = slots[j] /\ slots[j].next_free # i
    BY <1>1, <1>2 DEF FreeListLinked, FreeSlots, InUse
  <2>4. i \in F
    BY <1>1 DEF InUse
  <2>5. slots[i].next_free # i
    BY <1>1, <2>4 DEF FreeListLinked, FreeSlots
  <2>6. free_head' # 0 => free_head' \in F \ {i}
    BY <1>1, <2>4, <2>5 DEF FreeListLinked, FreeSlots
  <2>7. ASSUME NEW j \in F \ {i}
        PROVE  /\ slots[j].next_free # 0 => slots[j].next_free \in F \ {i}
               /\ slots[j].next_free # 0 => slots[j].next_free # free_head'
               /\ j # free_head' => \E k \in F \ {i} : slots[k].next_free = j
    BY <1>1, <2>3, <2>4 DEF FreeListLinked, FreeSlots
  <2>8. \A j, k \in F \ {i} :
          slots[j].next_free = slots[k].next_free /\ slots[j].next_free # 0 => j = k
    BY DEF FreeListLinked, FreeSlots
  <2> HIDE DEF F
  <2>9. 1..Len(slots') \ InUse' = F \ {i}
    BY <2>2 DEF F
  <2>10. QED
    BY <2>3, <2>6, <2>7, <2>8, <2>9 DEF FreeListLinked, FreeSlots
<1>12. FreeListEnds'
  <2>1. \A j \in FreeSlots' : j \in FreeSlots /\ slots'[j] = slots[j]
    BY <1>1, <1>2 DEF FreeSlots, InUse
  <2>2. QED
    BY <2>1 DEF FreeListEnds
<1>13. QED
  BY <1>7, <1>9, <1>10, <1>11, <1>12

\* Appending a slot.
LEMMA AcquireNewStep ==
  ASSUME IInv, NEW p \in Objects, AcquireNew(p)
  PROVE  IInv'
<1> DEFINE n == Len(slots) + 1
           all == Append(slots, Slot)
<1> USE DEF IInv, FreeListSound
<1>1. Slot \in SlotType
  BY DEF Slot, SlotType
<1>2. /\ all \in Seq(SlotType) /\ Len(all) = n /\ n \in 1..n
      /\ all[n] = Slot /\ \A j \in 1..Len(slots) : all[j] = slots[j]
  BY <1>1 DEF TypeInv
<1>3. /\ wraps' \in Seq(Nat) /\ Len(wraps') = n
      /\ wraps'[n] = 0 /\ \A j \in 1..Len(slots) : wraps'[j] = wraps[j]
  BY DEF TypeInv, AcquireNew
<1>4. free_head = 0 /\ free_head' = 0 /\ stale' = stale /\ Occupy(all, n, p)
  BY DEF AcquireNew, Occupy
<1> HIDE DEF all
<1>5. /\ slots' \in Seq(SlotType)
      /\ Len(slots') = n
      /\ slots'[n] = [ptr |-> p, generation |-> 1, next_free |-> 0, in_use |-> TRUE]
      /\ \A j \in 1..n : j # n => slots'[j] = all[j]
  BY <1>2, <1>4, OccupyChanges DEF Slot
<1> DEFINE h0 == [idx |-> n, gen |-> 1, wraps |-> 0, ptr |-> p]
<1>6. live' = live \cup {h0}
  BY <1>2, <1>3, <1>4 DEF Occupy, Slot
<1>7. n \in Nat /\ 1..n = 1..Len(slots) \cup {n} /\ n \notin 1..Len(slots)
  BY DEF TypeInv
<1>8. \A j \in 1..Len(slots) : slots'[j] = slots[j]
  BY <1>2, <1>5, <1>7
<1> HIDE DEF n
<1>9. h0 \in HandleType
  BY <1>7 DEF HandleType
<1>10. TypeInv'
  BY <1>3, <1>4, <1>5, <1>6, <1>9 DEF TypeInv
<1>11. LiveInv'
  <2>1. ASSUME NEW h \in live'
        PROVE  /\ h.idx \in 1..Len(slots')
               /\ slots'[h.idx].in_use
               /\ slots'[h.idx].generation = h.gen
               /\ slots'[h.idx].ptr = h.ptr
               /\ wraps'[h.idx] = h.wraps
    <3>1. CASE h \in live
      BY <3>1, <1>3, <1>5, <1>7, <1>8 DEF LiveInv
    <3>2. CASE h = h0
      BY <3>2, <1>3, <1>5, <1>7
    <3>3. QED
      BY <3>1, <3>2, <1>6, <2>1
  <2>2. ASSUME NEW j \in InUse'
        PROVE  \E h \in live' : h.idx = j
    <3>1. CASE j = n
      <4>1. h0 \in live' /\ h0.idx = n
        BY <1>6
      <4>2. QED
        BY <3>1, <4>1
    <3>2. CASE j # n
      BY <3>2, <1>5, <1>6, <1>7, <1>8 DEF LiveInv, InUse
    <3>3. QED
      BY <3>1, <3>2
  <2>3. QED
    BY <2>1, <2>2 DEF LiveInv
<1>12. StaleInv'
  BY <1>3, <1>4, <1>5, <1>7, <1>8 DEF StaleInv
<1>13. FreeListLinked'
  <2>1. InUse' = InUse \cup {n}
    BY <1>5, <1>7, <1>8 DEF InUse
  <2>2. 1..Len(slots') \ InUse' = 1..Len(slots) \ InUse
    BY <2>1, <1>5, <1>7
  <2> DEFINE F == 1..Len(slots) \ InUse
  <2>3. \A j \in F : slots'[j] = slots[j]
    BY <1>8
  <2>4. /\ \A j \in F : LET next == slots[j].next_free
                       IN /\ next # 0 => next \in F
                          /\ j # free_head => \E k \in F : slots[k].next_free = j
        /\ \A j, k \in F :
             slots[j].next_free = slots[k].next_free /\ slots[j].next_free # 0 => j = k
    BY DEF FreeListLinked, FreeSlots
  <2>5. 1..Len(slots') \ InUse' = F
    BY <2>2
  <2> HIDE DEF F
  <2>6. QED
    <3>1. \A j \in F : /\ slots'[j].next_free # 0 => slots'[j].next_free \in F
                       /\ j # 0 => \E k \in F : slots'[k].next_free = j
      BY <1>4, <2>3, <2>4
    <3>2. \A j, k \in F :
            slots'[j].next_free = slots'[k].next_free /\ slots'[j].next_free # 0 => j = k
      BY <2>3, <2>4
    <3>3. free_head' = 0
      BY <1>4
    <3>4. QED
      BY <2>5, <3>1, <3>2, <3>3 DEF FreeListLinked, FreeSlots
<1>14. FreeListEnds'
  <2>1. \A j \in FreeSlots' : j \in FreeSlots /\ slots'[j] = slots[j]
    BY <1>5, <1>7, <1>8 DEF FreeSlots, InUse
  <2>2. QED
    BY <2>1 DEF FreeListEnds
<1>15. QED
  BY <1>10, <1>11, <1>12, <1>13, <1>14

\* A release that finds the slot of the handle.
LEMMA ReleaseStep ==
  ASSUME IInv, NEW h \in live \cup stale, Release(h), is_alive(h.idx, h.gen)
  PROVE  IInv'
<1> DEFINE i == h.idx
           next == NextGeneration(h.gen)
           gone == {x \in live : x.idx = h.idx /\ x.gen = h.gen}
           r == [ptr |-> Null, generation |-> next, next_free |-> free_head, in_use |-> FALSE]
           w == IF next = 0 THEN wraps[i] + 1 ELSE wraps[i]
<1> USE DEF IInv, FreeListSound
<1>1. i \in 1..Len(slots) /\ slots[i].in_use /\ slots[i].generation = h.gen
  BY DEF is_alive
<1>2. /\ slots' = [slots EXCEPT ![i] = r]
      /\ free_head' = i
      /\ wraps' = [wraps EXCEPT ![i] = w]
      /\ live' = live \ gone /\ stale' = stale \cup gone
  BY DEF Release, PushedBefore
<1>3. h \in HandleType
  BY DEF TypeInv
<1>4. next \in Nat /\ (next # 0 => next = h.gen + 1)
  BY <1>3 DEF NextGeneration, HandleType
<1>5. r \in SlotType
  BY <1>4 DEF SlotType, TypeInv
<1>6. i \in 1..Len(wraps) /\ wraps[i] \in Nat
  BY <1>1 DEF TypeInv
<1>7. w \in Nat /\ wraps[i] <= w /\ (next = 0 => w = wraps[i] + 1) /\ (next # 0 => w = wraps[i])
  BY <1>6
<1> HIDE DEF next, w
<1>8. /\ slots' \in Seq(SlotType) /\ Len(slots') = Len(slots)
      /\ slots'[i] = r /\ \A j \in 1..Len(slots) : j # i => slots'[j] = slots[j]
  BY <1>1, <1>2, <1>5 DEF TypeInv
<1>9. /\ wraps' \in Seq(Nat) /\ Len(wraps') = Len(wraps)
      /\ wraps'[i] = w /\ \A j \in 1..Len(slots) : j # i => wraps'[j] = wraps[j]
  BY <1>1, <1>2, <1>6, <1>7 DEF TypeInv
<1>10. gone = {x \in live : x.idx = i}
  BY <1>1 DEF LiveInv
<1> HIDE DEF gone
<1>11. TypeInv'
  <2>1. live' \subseteq HandleType /\ stale' \subseteq HandleType
    BY <1>2, <1>10 DEF TypeInv
  <2>2. free_head' \in Nat
    BY <1>1, <1>2 DEF TypeInv
  <2>3. QED
    BY <1>8, <1>9, <2>1, <2>2 DEF TypeInv
<1>12. LiveInv'
  <2>1. \A x \in live' : x \in live /\ x.idx # i
    BY <1>2, <1>10
  <2>2. \A j \in InUse' : j \in InUse /\ j # i
    BY <1>8 DEF InUse
  <2>3. \A j \in InUse' : \E x \in live' : x.idx = j
    BY <2>2, <1>2, <1>10 DEF LiveInv
  <2>4. QED
    BY <2>1, <2>3, <1>8, <1>9 DEF LiveInv
<1>13. StaleInv'
  <2> SUFFICES ASSUME NEW x \in stale'
               PROVE  /\ x.idx \in 1..Len(slots')
                      /\ x.wraps <= wraps'[x.idx]
                      /\ wraps'[x.idx] = x.wraps => x.gen < slots'[x.idx].generation
    BY DEF StaleInv
  <2>1. CASE x \in stale /\ x.idx # i
    BY <2>1, <1>8, <1>9 DEF StaleInv
  <2>2. CASE x \in stale /\ x.idx = i
    <3>1. x.wraps <= wraps[i] /\ (wraps[i] = x.wraps => x.gen < h.gen)
      BY <2>2, <1>1 DEF StaleInv
    <3>2. x.wraps \in Nat /\ x.gen \in Nat /\ h.gen \in Nat
      BY <2>2, <1>3 DEF TypeInv, HandleType
    <3>3. slots'[i].generation = next /\ wraps'[i] = w
      BY <1>8, <1>9
    <3>4. x.wraps <= w /\ (w = x.wraps => x.gen < next)
      BY <3>1, <3>2, <1>4, <1>6, <1>7
    <3>5. QED
      BY <3>3, <3>4, <2>2, <1>1, <1>8
  <2>3. CASE x \in gone
    <3>1. x.idx = i /\ x.wraps = wraps[i] /\ x.gen = h.gen
      BY <2>3, <1>1, <1>10 DEF LiveInv
    <3>2. h.gen \in Nat
      BY <1>3 DEF HandleType
    <3>3. slots'[i].generation = next /\ wraps'[i] = w
      BY <1>8, <1>9
    <3>4. x.wraps <= w /\ (w = x.wraps => x.gen < next)
      BY <3>1, <3>2, <1>4, <1>6, <1>7
    <3>5. QED
      BY <3>1, <3>3, <3>4, <1>1, <1>8
  <2>4. QED
    BY <2>1, <2>2, <2>3, <1>2
<1>14. FreeListLinked'
  <2> DEFINE F == 1..Len(slots) \ InUse
  <2>1. 1..Len(slots') \ InUse' = F \cup {i} /\ i \notin F
    BY <1>1, <1>8 DEF InUse
  <2>2. slots'[i].next_free = free_head /\ \A j \in F : slots'[j] = slots[j]
    BY <1>8, <2>1
  <2>3. /\ free_head # 0 => free_head \in F
        /\ \A j \in F : /\ slots[j].next_free # 0 => slots[j].next_free \in F
                        /\ slots[j].next_free # 0 => slots[j].next_free # free_head
                        /\ j # free_head => \E k \in F : slots[k].next_free = j
        /\ \A j, k \in F :
             slots[j].next_free = slots[k].next_free /\ slots[j].next_free # 0 => j = k
    BY DEF FreeListLinked, FreeSlots
  <2>4. i # 0 /\ 0 \notin F
    BY <1>1
  <2> HIDE DEF F
  <2>5. \A j \in F \cup {i} :
          LET to == slots'[j].next_free
          IN /\ to # 0 => to \in F \cup {i}
             /\ to # 0 => to # i
             /\ j # i => \E k \in F \cup {i} : slots'[k].next_free = j
    BY <2>1, <2>2, <2>3
  <2>6. \A j, k \in F \cup {i} :
          slots'[j].next_free = slots'[k].next_free /\ slots'[j].next_free # 0 => j = k
    BY <2>1, <2>2, <2>3
  <2>7. QED
    BY <1>2, <2>1, <2>4, <2>5, <2>6 DEF FreeListLinked, FreeSlots
<1>15. FreeListEnds'
  <2> SUFFICES ASSUME NEW S \in SUBSET FreeSlots', S # {}
               PROVE  \E j \in S : slots'[j].next_free \notin S
    BY DEF FreeListEnds
  <2>1. FreeSlots' = FreeSlots \cup {i} /\ i \notin FreeSlots
    BY <1>1, <1>8 DEF FreeSlots, InUse
  <2>2. slots'[i].next_free # i /\ \A j \in FreeSlots : slots'[j] = slots[j]
    BY <1>1, <1>8, <2>1 DEF FreeListLinked, FreeSlots
  <2>3. \A j \in FreeSlots : slots[j].next_free # i
    BY <1>1, <2>1 DEF FreeListLinked, FreeSlots
  <2>4. CASE S \ {i} = {}
    BY <2>2, <2>4
  <2>5. CASE S \ {i} # {}
    <3>1. PICK j \in S \ {i} : slots[j].next_free \notin S \ {i}
      BY <2>1, <2>5 DEF FreeListEnds
    <3>2. QED
      BY <2>1, <2>2, <2>3, <3>1
  <2>6. QED
    BY <2>4, <2>5
<1>16. QED
  BY <1>11, <1>12, <1>13, <1>14, <1>15

LEMMA Inductive == IInv /\ [Next]_vars => IInv'
<1> SUFFICES ASSUME IInv, [Next]_vars
             PROVE  IInv'
  OBVIOUS
<1>1. CASE UNCHANGED vars
  <2>1. TypeInv' /\ LiveInv' /\ StaleInv'
    BY <1>1 DEF vars, IInv, TypeInv, LiveInv, StaleInv, InUse
  <2>2. FreeSlots' = FreeSlots
    BY <1>1 DEF vars, FreeSlots, InUse
  <2>3. FreeListLinked'
    BY <1>1, <2>2 DEF vars, IInv, FreeListSound, FreeListLinked
  <2>4. FreeListEnds'
    BY <1>1, <2>2 DEF vars, IInv, FreeListSound, FreeListEnds
  <2>5. QED
    BY <2>1, <2>3, <2>4 DEF IInv, FreeListSound
<1>2. ASSUME NEW p \in Objects, AcquireFree(p)
      PROVE  IInv'
  BY <1>2, AcquireFreeStep
<1>3. ASSUME NEW p \in Objects, AcquireNew(p)
      PROVE  IInv'
  BY <1>3, AcquireNewStep
<1>4. ASSUME NEW h \in live \cup stale, Release(h)
      PROVE  IInv'
  <2>1. CASE is_alive(h.idx, h.gen)
    BY <2>1, <1>4, ReleaseStep
  <2>2. CASE ~is_alive(h.idx, h.gen)
    BY <2>2, <1>1, <1>4 DEF Release
  <2>3. QED
    BY <2>1, <2>2
<1>5. QED
  BY <1>1, <1>2, <1>3, <1>4 DEF Next

LEMMA Initial == Init => IInv
<1> SUFFICES ASSUME Init
             PROVE  IInv
  OBVIOUS
<1>1. TypeInv /\ LiveInv /\ StaleInv
  BY DEF Init, TypeInv, LiveInv, StaleInv, InUse
<1>2. FreeSlots = {}
  BY DEF Init, FreeSlots, InUse
<1>3. FreeListLinked
  BY <1>2 DEF Init, FreeListLinked
<1>4. FreeListEnds
  BY <1>2 DEF FreeListEnds
<1>5. QED
  BY <1>1, <1>3, <1>4 DEF IInv, FreeListSound

LEMMA Invariance == Spec => []IInv
  BY Initial, Inductive, PTL DEF Spec

\* A released handle finds nothing until the generation of its slot has wrapped,
\* for every width of the generation and every history of the slot.
THEOREM StaleHandlesFindNothing == Spec => []StaleFindsNothing
<1>1. IInv => StaleFindsNothing
  BY DEF IInv, TypeInv, HandleType, StaleInv, StaleFindsNothing, lookup, is_alive
<1>2. QED
  BY <1>1, Invariance, PTL

\* A handle finds its own object until it is released, and live_count counts the
\* handles that were not.
THEOREM LiveHandlesFindTheirObjects == Spec => []LiveFindsItsObject
<1>1. IInv => LiveFindsItsObject
  <2> SUFFICES ASSUME IInv
               PROVE  LiveFindsItsObject
    OBVIOUS
  <2>1. \A h \in live : lookup(h.idx, h.gen) = h.ptr
    BY DEF IInv, LiveInv, lookup, is_alive
  <2>2. ASSUME NEW g \in live, NEW h \in live, g.idx = h.idx
        PROVE  g = h
    <3>1. g \in HandleType /\ h \in HandleType
      BY DEF IInv, TypeInv
    <3>2. g.gen = h.gen /\ g.wraps = h.wraps /\ g.ptr = h.ptr
      BY <2>2 DEF IInv, LiveInv
    <3>3. QED
      BY <2>2, <3>1, <3>2 DEF HandleType
  <2>3. QED
    BY <2>1, <2>2 DEF IInv, LiveInv, LiveFindsItsObject
<1>2. QED
  BY <1>1, Invariance, PTL

\* acquire never takes a slot in use, no slot is on the free list twice, and none is lost.
THEOREM FreeListIsSound == Spec => []FreeListSound
<1>1. IInv => FreeListSound
  BY DEF IInv
<1>2. QED
  BY <1>1, Invariance, PTL

-----------------------------------------------------------------------------
(* Counted pointers.                                                       *)

Pointing(S) == {h \in S : ptr[h] = "set"}

Inv ==
  /\ object \in {"none", "live", "deleted"}
  /\ mRef \in Int /\ mRemaining \in Nat /\ failures \in Nat
  /\ ptr \in [Counted!Holders -> {"unset", "set", "null"}]
  /\ mRef = Cardinality(Pointing(Counted!Holders)) - failures
  /\ mRemaining = Cardinality(Pointing(Notifying))
  /\ joined => Pointing(Notifying) = {}
  /\ object = "none" => failures = 0 /\ mRef = 0 /\ Pointing(Counted!Holders) = {}
  /\ object = "deleted" => ptr[Creator] # "set" /\ mRef = 0

-----------------------------------------------------------------------------
(* Counting pointers.                                                      *)

LEMMA HoldersFinite ==
  /\ IsFiniteSet(Counted!Holders) /\ IsFiniteSet(Notifying)
  /\ Notifying \subseteq Jobs /\ Creator \notin Jobs
  /\ Counted!Holders = Jobs \cup {Creator}
<1>1. IsFiniteSet(Jobs \cup {Creator})
  BY SharedStatusAssumption, FS_AddElement
<1>2. IsFiniteSet(Notifying)
  BY SharedStatusAssumption, FS_Subset
<1>3. QED BY <1>1, <1>2, SharedStatusAssumption DEF Counted!Holders

\* The pointer of x starts to point to the object.
LEMMA OneMore ==
  ASSUME NEW S, IsFiniteSet(S), NEW x, ptr[x] # "set",
         ptr'[x] = "set", \A h \in S : h # x => ptr'[h] = ptr[h]
  PROVE  /\ Cardinality(Pointing(S)) \in Nat
         /\ x \in S => Cardinality(Pointing(S)') = Cardinality(Pointing(S)) + 1
         /\ x \notin S => Pointing(S)' = Pointing(S)
<1>1. Pointing(S) \subseteq S
  BY DEF Pointing
<1>2. IsFiniteSet(Pointing(S)) /\ Cardinality(Pointing(S)) \in Nat
  BY <1>1, FS_Subset, FS_CardinalityType
<1>3. CASE x \in S
  <2>1. Pointing(S)' = Pointing(S) \cup {x} /\ x \notin Pointing(S)
    BY <1>3 DEF Pointing
  <2>2. Cardinality(Pointing(S) \cup {x}) = Cardinality(Pointing(S)) + 1
    BY <1>2, <2>1, FS_AddElement
  <2>3. QED BY <1>2, <1>3, <2>1, <2>2
<1>4. CASE x \notin S
  <2>1. Pointing(S)' = Pointing(S)
    BY <1>4 DEF Pointing
  <2>2. QED BY <1>2, <1>4, <2>1
<1>5. QED BY <1>3, <1>4

\* The pointer of x is set to null.
LEMMA OneLess ==
  ASSUME NEW S, IsFiniteSet(S), NEW x, ptr[x] = "set",
         ptr'[x] # "set", \A h \in S : h # x => ptr'[h] = ptr[h]
  PROVE  /\ Cardinality(Pointing(S)) \in Nat
         /\ x \in S => Cardinality(Pointing(S)') = Cardinality(Pointing(S)) - 1
         /\ x \notin S => Pointing(S)' = Pointing(S)
         /\ Pointing(S)' \subseteq Pointing(S)
         /\ IsFiniteSet(Pointing(S)')
<1>1. Pointing(S) \subseteq S
  BY DEF Pointing
<1>2. IsFiniteSet(Pointing(S)) /\ Cardinality(Pointing(S)) \in Nat
  BY <1>1, FS_Subset, FS_CardinalityType
<1>3. Pointing(S)' = Pointing(S) \ {x}
  BY DEF Pointing
<1>4. IsFiniteSet(Pointing(S) \ {x})
  BY <1>2, FS_RemoveElement
<1>5. CASE x \in S
  <2>1. x \in Pointing(S)
    BY <1>5 DEF Pointing
  <2>2. Cardinality(Pointing(S) \ {x}) = Cardinality(Pointing(S)) - 1
    BY <1>2, <2>1, FS_RemoveElement
  <2>3. QED BY <1>2, <1>3, <1>4, <1>5, <2>2
<1>6. CASE x \notin S
  BY <1>1, <1>2, <1>3, <1>4, <1>6
<1>7. QED BY <1>5, <1>6

-----------------------------------------------------------------------------
LEMMA InitInv == Counted!Init => Inv
<1> SUFFICES ASSUME Counted!Init PROVE Inv
  OBVIOUS
<1>1. Pointing(Counted!Holders) = {}
  BY DEF Counted!Init, Pointing
<1>2. Pointing(Notifying) = {}
  BY HoldersFinite DEF Counted!Init, Pointing, Counted!Holders
<1>3. Cardinality({}) = 0
  BY FS_EmptySet
<1>4. QED BY <1>1, <1>2, <1>3 DEF Counted!Init, Inv

LEMMA CreateInv == ASSUME Inv, Counted!create PROVE Inv'
<1>1. /\ object = "none" /\ object' = "live" /\ mRef' = 1
      /\ ptr' = [ptr EXCEPT ![Creator] = "set"]
      /\ UNCHANGED <<mRemaining, joined, failures>>
  BY DEF Counted!create
<1>2. /\ ptr \in [Counted!Holders -> {"unset", "set", "null"}] /\ Creator \in Counted!Holders
      /\ failures = 0 /\ mRef = 0 /\ Pointing(Counted!Holders) = {}
  BY <1>1, HoldersFinite DEF Inv
<1>3. ptr[Creator] # "set" /\ ptr'[Creator] = "set"
      /\ \A h \in Counted!Holders : h # Creator => ptr'[h] = ptr[h]
  BY <1>1, <1>2 DEF Pointing
<1>4. Cardinality(Pointing(Counted!Holders)') = 1
  <2>1. Cardinality(Pointing(Counted!Holders)) = 0
    BY <1>2, FS_EmptySet
  <2>2. Cardinality(Pointing(Counted!Holders)') = Cardinality(Pointing(Counted!Holders)) + 1
    BY <1>2, <1>3, HoldersFinite, OneMore
  <2>3. QED BY <2>1, <2>2
<1>5. Pointing(Notifying)' = Pointing(Notifying)
  BY <1>3, HoldersFinite DEF Pointing
<1>6. ptr' \in [Counted!Holders -> {"unset", "set", "null"}]
  BY <1>1, <1>2
<1>7. QED BY <1>1, <1>2, <1>3, <1>4, <1>5, <1>6 DEF Inv

LEMMA CaptureInv == ASSUME Inv, NEW j \in Jobs, Counted!capture(j) PROVE Inv'
<1>1. /\ ptr[Creator] = "set" /\ ptr[j] = "unset"
      /\ mRef' = mRef + 1 /\ ptr' = [ptr EXCEPT ![j] = "set"] /\ joined' = FALSE
      /\ UNCHANGED <<object, failures>>
  BY DEF Counted!capture
<1>2. mRemaining' = IF j \in Notifying THEN mRemaining + 1 ELSE mRemaining
  BY DEF Counted!capture
<1>3. /\ ptr \in [Counted!Holders -> {"unset", "set", "null"}]
      /\ j \in Counted!Holders /\ Creator \in Counted!Holders /\ j # Creator
  BY HoldersFinite DEF Inv
<1>4. ptr[j] # "set" /\ ptr'[j] = "set" /\ ptr'[Creator] = "set"
      /\ \A h \in Counted!Holders : h # j => ptr'[h] = ptr[h]
  BY <1>1, <1>3
<1>5. Cardinality(Pointing(Counted!Holders)') = Cardinality(Pointing(Counted!Holders)) + 1
  BY <1>3, <1>4, HoldersFinite, OneMore
<1>6. mRemaining' = Cardinality(Pointing(Notifying)')
  <2>1. \A h \in Notifying : h # j => ptr'[h] = ptr[h]
    BY <1>4, HoldersFinite
  <2>2. /\ j \in Notifying => Cardinality(Pointing(Notifying)') = Cardinality(Pointing(Notifying)) + 1
        /\ j \notin Notifying => Pointing(Notifying)' = Pointing(Notifying)
    BY <1>4, <2>1, HoldersFinite, OneMore
  <2>3. QED BY <1>2, <2>2 DEF Inv
<1>7. Creator \in Pointing(Counted!Holders)
  BY <1>1, <1>3 DEF Pointing
<1>8. object = "live"
  BY <1>1, <1>7 DEF Inv
<1>9. ptr' \in [Counted!Holders -> {"unset", "set", "null"}]
  BY <1>1, <1>3
<1>10. mRemaining' \in Nat
  BY <1>2 DEF Inv
<1>11. Cardinality(Pointing(Counted!Holders)) \in Nat
  BY <1>3, <1>4, HoldersFinite, OneMore
<1>12. mRef' = Cardinality(Pointing(Counted!Holders)') - failures'
  BY <1>1, <1>5, <1>11 DEF Inv
<1>13. QED BY <1>1, <1>4, <1>6, <1>8, <1>9, <1>10, <1>12 DEF Inv

\* notify_and_release and release: somebody gives up its pointer.
LEMMA ReleaseInv ==
  ASSUME Inv, NEW j \in Counted!Holders, Counted!NotifyAndRelease(j) \/ Counted!release(j)
  PROVE  Inv'
<1>1. /\ ptr[j] = "set" /\ object = "live" /\ mRef' = mRef - 1
      /\ ptr' = [ptr EXCEPT ![j] = "null"]
      /\ UNCHANGED <<object, joined, failures>>
  BY DEF Counted!NotifyAndRelease, Counted!release
<1>2. /\ j \in Notifying => mRemaining' = mRemaining - 1 /\ mRemaining # 0
      /\ j \notin Notifying => mRemaining' = mRemaining
  BY DEF Counted!NotifyAndRelease, Counted!release
<1>3. /\ ptr \in [Counted!Holders -> {"unset", "set", "null"}]
      /\ j \in Counted!Holders
  BY HoldersFinite DEF Inv
<1>4. ptr'[j] # "set"
      /\ \A h \in Counted!Holders : h # j => ptr'[h] = ptr[h]
  BY <1>1, <1>3
<1>5. /\ Cardinality(Pointing(Counted!Holders)) \in Nat
      /\ Cardinality(Pointing(Counted!Holders)') = Cardinality(Pointing(Counted!Holders)) - 1
  BY <1>1, <1>3, <1>4, HoldersFinite, OneLess
<1>6. \A h \in Notifying : h # j => ptr'[h] = ptr[h]
  BY <1>4, HoldersFinite
<1>7. /\ Pointing(Notifying)' \subseteq Pointing(Notifying)
      /\ j \in Notifying => Cardinality(Pointing(Notifying)') = Cardinality(Pointing(Notifying)) - 1
      /\ j \notin Notifying => Pointing(Notifying)' = Pointing(Notifying)
  BY <1>1, <1>4, <1>6, HoldersFinite, OneLess
<1>8. mRemaining' = Cardinality(Pointing(Notifying)') /\ mRemaining' \in Nat
  BY <1>2, <1>7 DEF Inv
<1>9. ptr' \in [Counted!Holders -> {"unset", "set", "null"}]
  BY <1>1, <1>3
<1>10. mRef' = Cardinality(Pointing(Counted!Holders)') - failures' /\ mRef' \in Int
  BY <1>1, <1>5 DEF Inv
<1>11. joined' => Pointing(Notifying)' = {}
  BY <1>1, <1>7 DEF Inv
<1>12. QED BY <1>1, <1>4, <1>8, <1>9, <1>10, <1>11 DEF Inv

LEMMA JoinInv == ASSUME Inv, Counted!join PROVE Inv'
<1>1. mRemaining = 0 /\ joined' = TRUE /\ UNCHANGED <<object, mRef, mRemaining, ptr, failures>>
  BY DEF Counted!join
<1>2. Pointing(Notifying) = {}
  <2>1. IsFiniteSet(Pointing(Notifying))
    BY HoldersFinite, FS_Subset DEF Pointing
  <2>2. Cardinality(Pointing(Notifying)) = 0
    BY <1>1 DEF Inv
  <2>3. QED BY <2>1, <2>2, FS_EmptySet
<1>3. \A S : Pointing(S)' = Pointing(S)
  BY <1>1 DEF Pointing
<1>4. QED BY <1>1, <1>2, <1>3 DEF Inv

\* The creator's remove deletes the object with the count at zero.
LEMMA RemoveInv == ASSUME Inv, Counted!remove PROVE Inv'
<1>1. /\ ptr[Creator] = "set" /\ mRef - 1 = 0 /\ mRef' = 0 /\ object' = "deleted"
      /\ ptr' = [ptr EXCEPT ![Creator] = "null"]
      /\ UNCHANGED <<mRemaining, joined, failures>>
  BY DEF Counted!remove, Counted!CallsRemove
<1>2. /\ ptr \in [Counted!Holders -> {"unset", "set", "null"}]
      /\ Creator \in Counted!Holders /\ mRef \in Int /\ failures \in Nat
      /\ mRef = Cardinality(Pointing(Counted!Holders)) - failures
  BY HoldersFinite DEF Inv
<1>3. ptr'[Creator] # "set" /\ \A h \in Counted!Holders : h # Creator => ptr'[h] = ptr[h]
  BY <1>1, <1>2
<1>4. /\ Cardinality(Pointing(Counted!Holders)) \in Nat
      /\ Cardinality(Pointing(Counted!Holders)') = Cardinality(Pointing(Counted!Holders)) - 1
      /\ IsFiniteSet(Pointing(Counted!Holders)')
  BY <1>1, <1>2, <1>3, HoldersFinite, OneLess
<1>5. Pointing(Notifying)' = Pointing(Notifying)
  BY <1>3, HoldersFinite DEF Pointing
<1>6. ptr' \in [Counted!Holders -> {"unset", "set", "null"}]
  BY <1>1, <1>2
<1>7. mRef' = Cardinality(Pointing(Counted!Holders)') - failures'
  BY <1>1, <1>2, <1>4
<1>8. QED BY <1>1, <1>3, <1>5, <1>6, <1>7 DEF Inv

LEMMA RemoveFailsInv == ASSUME Inv, Counted!removeFails PROVE Inv'
<1>1. /\ ptr[Creator] = "set" /\ mRef' = mRef - 1 /\ failures' = failures + 1
      /\ UNCHANGED <<object, mRemaining, ptr, joined>>
  BY DEF Counted!removeFails, Counted!CallsRemove
<1>2. \A S : Pointing(S)' = Pointing(S)
  BY <1>1 DEF Pointing
<1>3. Creator \in Pointing(Counted!Holders)
  BY <1>1, HoldersFinite DEF Pointing
<1>4. Cardinality(Pointing(Counted!Holders)) \in Nat
  <2>1. IsFiniteSet(Pointing(Counted!Holders))
    BY HoldersFinite, FS_Subset DEF Pointing
  <2>2. QED BY <2>1, FS_CardinalityType
<1>5. failures' \in Nat /\ failures' # 0 /\ mRef' \in Int
      /\ mRef' = Cardinality(Pointing(Counted!Holders)) - failures'
  BY <1>1, <1>4 DEF Inv
<1>6. object # "none"
  BY <1>3 DEF Inv
<1>7. QED BY <1>1, <1>2, <1>5, <1>6 DEF Inv

LEMMA NextInv == Inv /\ [Counted!Next]_(Counted!vars) => Inv'
<1> SUFFICES ASSUME Inv, [Counted!Next]_(Counted!vars) PROVE Inv'
  OBVIOUS
<1>1. CASE UNCHANGED Counted!vars
  <2>1. UNCHANGED <<object, mRef, mRemaining, ptr, joined, failures>>
    BY <1>1 DEF Counted!vars
  <2>2. \A S : Pointing(S)' = Pointing(S)
    BY <2>1 DEF Pointing
  <2>3. QED BY <2>1, <2>2 DEF Inv
<1>2. CASE Counted!create \/ Counted!join \/ Counted!remove \/ Counted!removeFails
  BY <1>2, CreateInv, JoinInv, RemoveInv, RemoveFailsInv
<1>3. CASE \E j \in Jobs : Counted!capture(j)
  BY <1>3, CaptureInv
<1>4. CASE \E h \in Counted!Holders : Counted!NotifyAndRelease(h) \/ Counted!release(h)
  BY <1>4, ReleaseInv
<1>5. Jobs \subseteq Counted!Holders
  BY DEF Counted!Holders
<1>6. QED BY <1>1, <1>2, <1>3, <1>4, <1>5 DEF Counted!Next, Counted!Idle

LEMMA Invariant == Counted!Spec => []Inv
BY InitInv, NextInv, PTL DEF Counted!Spec

\* notify_and_release takes back both counts in one step: when the creator's join has
\* returned, no job that notifies has a pointer to the object any more.  A job that only
\* releases may still have one, and makes remove fail.
THEOREM JoinedCreatorIsLast == Counted!Spec => []JoinedIsLast
<1>1. Inv => JoinedIsLast
  BY DEF Inv, JoinedIsLast, Counted!JoinedIsLast, Pointing
<1>2. QED BY <1>1, Invariant, PTL

\* add_ref, release and *_remove: the count is exact, however often remove has failed;
\* the object is deleted under as many holders as removes have failed; and an object
\* whose creator called release is never deleted.
THEOREM LastHolderDeletes == Counted!Spec => DeletedByTheLast
<1>1. Inv => Counted!RefExact /\ Counted!DeletedUnderFailures
  <2> SUFFICES ASSUME Inv PROVE Counted!RefExact /\ Counted!DeletedUnderFailures
    OBVIOUS
  <2>1. Counted!Holding = Pointing(Counted!Holders)
    BY DEF Counted!Holding, Pointing
  <2>2. \A S : Counted!Cardinality(S) = Cardinality(S)
    BY DEF Counted!Cardinality, Cardinality
  <2>3. Cardinality(Pointing(Counted!Holders)) \in Nat
    <3>1. IsFiniteSet(Pointing(Counted!Holders))
      BY HoldersFinite, FS_Subset DEF Pointing
    <3>2. QED BY <3>1, FS_CardinalityType
  <2>4. mRef = Cardinality(Pointing(Counted!Holders)) - failures /\ failures \in Nat
    BY DEF Inv
  <2>5. object = "deleted" => Cardinality(Pointing(Counted!Holders)) = failures
    BY <2>3, <2>4 DEF Inv
  <2>6. Counted!RefExact
    BY <2>1, <2>2, <2>4 DEF Counted!RefExact
  <2>7. Counted!DeletedUnderFailures
    BY <2>1, <2>2, <2>5 DEF Counted!DeletedUnderFailures
  <2>8. QED BY <2>6, <2>7
<1>2. [Counted!Next]_(Counted!vars)
        => [object = "live" /\ ptr[Creator] = "null" => object' = "live"]_(Counted!vars)
  BY DEF Counted!Next, Counted!create, Counted!capture, Counted!NotifyAndRelease,
     Counted!release, Counted!join, Counted!CallsRemove, Counted!remove,
     Counted!removeFails, Counted!Idle, Counted!vars
<1>3. QED
  BY <1>1, <1>2, Invariant, PTL
  DEF DeletedByTheLast, Counted!DeletedByTheLast, Counted!ReleasedIsLeaked, Counted!Spec

-----------------------------------------------------------------------------
(* Both.                                                                   *)

\* Whichever way a script holds its objects, what it holds is there and is its own:
\* handles and counted pointers side by side, as MCSharedObjects puts them.
THEOREM SharedObjectsAreSafe ==
  MCSpec => /\ [](/\ StaleFindsNothing /\ LiveFindsItsObject /\ FreeListSound
                  /\ JoinedIsLast)
            /\ DeletedByTheLast
<1>1. MCInit => Init /\ Counted!Init
  BY DEF MCInit
<1>2. [MCNext]_allVars => [Next]_vars
  BY DEF MCNext, AsHandle, AsPointer, AsBox, allVars, vars
<1>3. [MCNext]_allVars => [Counted!Next]_(Counted!vars)
  BY DEF MCNext, AsHandle, AsPointer, AsBox, allVars, statusVars, Counted!vars
<1>4. MCSpec => Spec /\ Counted!Spec
  BY <1>1, <1>2, <1>3, PTL DEF MCSpec, Spec, Counted!Spec
<1>5. QED
  BY <1>4, StaleHandlesFindNothing, LiveHandlesFindTheirObjects, FreeListIsSound,
     JoinedCreatorIsLast, LastHolderDeletes, PTL

=============================================================================
