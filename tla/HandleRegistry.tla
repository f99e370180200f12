--------------------------- MODULE HandleRegistry ---------------------------
(***************************************************************************)
(* HandleRegistry of misc/handle_registry.h: C++ objects a script holds as *)
(* plain numbers.  A handle is the number of a slot and the generation the *)
(* slot had; a released slot goes to a free list with its generation moved *)
(* on, so that old handles find nothing.  Every operation runs under one   *)
(* mutex and is atomic; what is hard is which of the handles still around  *)
(* in scripts mean something.                                              *)
(*                                                                         *)
(* Slots are numbered from 1, as in a handle: 0 is none.  The generation   *)
(* is a uint32_t, scaled to GenerationMod; a ghost counts how often the    *)
(* generation of a slot has wrapped, and a handle remembers the count.     *)
(***************************************************************************)
EXTENDS Integers, Sequences, FiniteSets

CONSTANTS
  Objects,        \* the objects there are
  Null,           \* the empty shared_ptr
  GenerationMod,  \* 2^32
  MaxSlots,       \* bound of the model: slots of the vector
  MaxWraps        \* bound of the model: times a generation wraps

VARIABLES
  slots,      \* sequence of [ptr, generation, next_free, in_use]
  free_head,  \* number of the first free slot
  wraps,      \* ghost: for each slot, how often its generation has wrapped
  live,       \* ghost: handles that were acquired and not released
  stale       \* ghost: handles that were released

vars == <<slots, free_head, wraps, live, stale>>

Init == slots = <<>> /\ free_head = 0 /\ wraps = <<>> /\ live = {} /\ stale = {}

\* A fresh slot of the vector.
Slot == [ptr |-> Null, generation |-> 1, next_free |-> 0, in_use |-> FALSE]

\* Fault: a slot keeps its generation.
SameGeneration(g) == g

NextGeneration(g) == IF g + 1 = GenerationMod THEN 0 ELSE g + 1

\* Fault: a lookup does not ask whether the generation is the one of the handle.
AliveByUse(idx, gen) == idx \in 1..Len(slots) /\ slots[idx].in_use

is_alive(idx, gen) ==
  idx \in 1..Len(slots) /\ slots[idx].in_use /\ slots[idx].generation = gen

lookup(idx, gen) == IF is_alive(idx, gen) THEN slots[idx].ptr ELSE Null

\* live_count, and what for_each_live visits
InUse == {i \in 1..Len(slots) : slots[i].in_use}

\* Slot i, as it is or as it has just been appended, is given to p.
Occupy(all, i, p) ==
  /\ slots' = [all EXCEPT ![i] =
       [ptr |-> p, generation |-> @.generation, next_free |-> 0, in_use |-> TRUE]]
  /\ live' = live \cup {[idx |-> i, gen |-> all[i].generation, wraps |-> wraps'[i], ptr |-> p]}
  /\ UNCHANGED stale

AcquireFree(p) ==
  /\ free_head # 0
  /\ free_head' = slots[free_head].next_free
  /\ wraps' = wraps
  /\ Occupy(slots, free_head, p)

AcquireNew(p) ==
  /\ free_head = 0 /\ Len(slots) < MaxSlots
  /\ wraps' = Append(wraps, 0)
  /\ Occupy(Append(slots, Slot), Len(slots) + 1, p)
  /\ UNCHANGED free_head

\* Fault: the released slot becomes the head and forgets the rest of the list.
ForgetsTheRest(head) == 0

PushedBefore(head) == head

\* release of any handle a script may still have
Release(h) ==
  IF is_alive(h.idx, h.gen)
  THEN LET next == NextGeneration(h.gen)
           gone == {x \in live : x.idx = h.idx /\ x.gen = h.gen}
       IN /\ next = 0 => wraps[h.idx] < MaxWraps
          /\ slots' = [slots EXCEPT ![h.idx] =
               [ptr |-> Null, generation |-> next, next_free |-> PushedBefore(free_head),
                in_use |-> FALSE]]
          /\ free_head' = h.idx
          /\ wraps' = [wraps EXCEPT ![h.idx] = IF next = 0 THEN @ + 1 ELSE @]
          /\ live' = live \ gone /\ stale' = stale \cup gone
  ELSE UNCHANGED vars

Next ==
  \/ \E p \in Objects : AcquireFree(p) \/ AcquireNew(p)
  \/ \E h \in live \cup stale : Release(h)

Spec == Init /\ [][Next]_vars

-----------------------------------------------------------------------------
(* Properties.                                                             *)

\* A handle that was released finds nothing, however often its slot has been
\* given to other objects since, until the generation of the slot wraps.
StaleFindsNothing ==
  \A h \in stale : wraps[h.idx] = h.wraps => lookup(h.idx, h.gen) = Null

\* A handle finds the object it was acquired for until it is released, no two
\* of them are equal, and live_count (the leak report) counts each of them.
LiveFindsItsObject ==
  /\ \A h \in live : lookup(h.idx, h.gen) = h.ptr
  /\ \A g, h \in live : g.idx = h.idx => g = h
  /\ \A i \in InUse : \E h \in live : h.idx = i

FreeSlots == 1..Len(slots) \ InUse

\* Every free slot is the head or the successor of one other free slot, never of two.
FreeListLinked ==
  /\ free_head # 0 => free_head \in FreeSlots
  /\ \A i \in FreeSlots :
       LET next == slots[i].next_free
       IN /\ next # 0 => next \in FreeSlots
          /\ next # 0 => next # free_head
          /\ i # free_head => \E j \in FreeSlots : slots[j].next_free = i
  /\ \A i, j \in FreeSlots :
       slots[i].next_free = slots[j].next_free /\ slots[i].next_free # 0 => i = j

\* No free slots follow each other in a circle.
FreeListEnds ==
  \A S \in SUBSET FreeSlots : S # {} => \E i \in S : slots[i].next_free \notin S

\* Following the list from its head one meets free slots only, each of them once,
\* and comes to an end: acquire neither gives a slot out twice nor loses one.
FreeListSound == FreeListLinked /\ FreeListEnds
=============================================================================
