--------------------------- MODULE LockBoxProofs ---------------------------
(***************************************************************************)
(* Proofs about the instance of LockBox in MCSharedObjects, for any set of *)
(* threads, any objects and any number of calls: Inv is inductive, and the *)
(* safety properties follow.                                               *)
(***************************************************************************)
EXTENDS MCSharedObjects, TLAPS

USE DEF Box!Boxes, Box!Threads

\* LockBox::set preserves the invariant.
LEMMA SetPreserves ==
  ASSUME Box!Inv, NEW t \in Box!Threads, NEW o \in Addresses, Box!set(t, o)
  PROVE  Box!Inv'
<1>1. Box!TypeOK'
  BY LockBoxAssumption DEF Box!Inv, Box!TypeOK, Box!Feature, Box!set, Box!CanCall, Box!New,
     Box!setFeature, Box!handoffVars
<1>2. Box!MutexInv'
  BY LockBoxAssumption DEF Box!Inv, Box!TypeOK, Box!MutexInv, Box!HandoffInv, Box!set,
     Box!CanCall, Box!New, Box!setFeature, Box!handoffVars
<1>3. Box!SharedInv'
  BY LockBoxAssumption DEF Box!Inv, Box!TypeOK, Box!Feature, Box!MutexInv, Box!SharedInv,
     Box!set, Box!CanCall, Box!New, Box!setFeature, Box!handoffVars
<1>4. Box!HandoffInv'
  BY LockBoxAssumption DEF Box!Inv, Box!TypeOK, Box!HandoffInv, Box!set, Box!CanCall, Box!New,
     Box!setFeature, Box!handoffVars
<1>5. QED
  BY <1>1, <1>2, <1>3, <1>4 DEF Box!Inv

\* LockBox::update up to its block preserves the invariant.
LEMMA UpdateBeginPreserves ==
  ASSUME Box!Inv, NEW t \in Box!Threads, Box!updateBegin(t)
  PROVE  Box!Inv'
<1>1. Box!TypeOK'
  BY LockBoxAssumption DEF Box!Inv, Box!TypeOK, Box!Feature, Box!SharedInv, Box!updateBegin,
     Box!CanCall, Box!handoffVars
<1>2. Box!MutexInv'
  BY LockBoxAssumption DEF Box!Inv, Box!TypeOK, Box!MutexInv, Box!HandoffInv, Box!updateBegin,
     Box!CanCall, Box!handoffVars
<1>3. Box!SharedInv'
  BY LockBoxAssumption DEF Box!Inv, Box!TypeOK, Box!Feature, Box!MutexInv, Box!SharedInv,
     Box!updateBegin, Box!CanCall, Box!handoffVars
<1>4. Box!HandoffInv'
  BY LockBoxAssumption DEF Box!Inv, Box!TypeOK, Box!HandoffInv, Box!updateBegin, Box!CanCall,
     Box!handoffVars
<1>5. QED
  BY <1>1, <1>2, <1>3, <1>4 DEF Box!Inv

\* LockBox::update after its block preserves the invariant.
LEMMA UpdateEndPreserves ==
  ASSUME Box!Inv, NEW t \in Box!Threads, Box!updateEnd(t)
  PROVE  Box!Inv'
<1>1. Box!TypeOK'
  <2>1. CASE box[Shared].data # Null
    BY <2>1, LockBoxAssumption DEF Box!Inv, Box!TypeOK, Box!Feature, Box!updateEnd, Box!New,
       Box!setFeature, Box!handoffVars
  <2>2. CASE box[Shared].data = Null
    <3>1. PICK o \in Addresses :
            Box!New(t, o, read[t] + 1) /\ box' = [box EXCEPT ![Shared] = Box!setFeature(o, t)]
      BY <2>2 DEF Box!updateEnd
    <3>2. box' \in [Box!Boxes -> Box!Feature]
      BY <3>1 DEF Box!Inv, Box!TypeOK, Box!Feature, Box!setFeature
    <3>3. allocatedBy' \in [Addresses -> Box!Threads \cup {Null}] /\ value' \in [Addresses -> Nat]
      BY <3>1 DEF Box!Inv, Box!TypeOK, Box!New
    <3>4. QED
      BY <3>2, <3>3 DEF Box!Inv, Box!TypeOK, Box!updateEnd, Box!handoffVars
  <2>3. QED
    BY <2>1, <2>2
<1>2. Box!MutexInv'
  BY LockBoxAssumption DEF Box!Inv, Box!TypeOK, Box!MutexInv, Box!HandoffInv, Box!updateEnd,
     Box!New, Box!setFeature, Box!handoffVars
<1>3. Box!SharedInv'
  BY LockBoxAssumption DEF Box!Inv, Box!TypeOK, Box!Feature, Box!MutexInv, Box!SharedInv,
     Box!updateEnd, Box!New, Box!setFeature, Box!handoffVars
<1>4. Box!HandoffInv'
  BY LockBoxAssumption DEF Box!Inv, Box!TypeOK, Box!HandoffInv, Box!updateEnd, Box!New,
     Box!setFeature, Box!handoffVars
<1>5. QED
  BY <1>1, <1>2, <1>3, <1>4 DEF Box!Inv

\* Clear preserves the invariant.
LEMMA ClearPreserves ==
  ASSUME Box!Inv, NEW t \in Box!Threads, Box!clear(t)
  PROVE  Box!Inv'
<1>1. Box!TypeOK'
  BY LockBoxAssumption DEF Box!Inv, Box!TypeOK, Box!Feature, Box!SharedInv, Box!clear,
     Box!CanCall, Box!setFeature, Box!handoffVars
<1>2. Box!MutexInv'
  BY LockBoxAssumption DEF Box!Inv, Box!TypeOK, Box!MutexInv, Box!HandoffInv, Box!clear,
     Box!CanCall, Box!setFeature, Box!handoffVars
<1>3. Box!SharedInv'
  BY LockBoxAssumption DEF Box!Inv, Box!TypeOK, Box!Feature, Box!MutexInv, Box!SharedInv,
     Box!clear, Box!CanCall, Box!setFeature, Box!handoffVars
<1>4. Box!HandoffInv'
  BY LockBoxAssumption DEF Box!Inv, Box!TypeOK, Box!HandoffInv, Box!clear, Box!CanCall,
     Box!setFeature, Box!handoffVars
<1>5. QED
  BY <1>1, <1>2, <1>3, <1>4 DEF Box!Inv

\* LockBox::get up to its block preserves the invariant.
LEMMA GetBeginPreserves ==
  ASSUME Box!Inv, NEW t \in Box!Threads, Box!getBegin(t)
  PROVE  Box!Inv'
<1>1. Box!TypeOK'
  BY LockBoxAssumption DEF Box!Inv, Box!TypeOK, Box!Feature, Box!SharedInv, Box!getBegin,
     Box!CanCall, Box!handoffVars
<1>2. Box!MutexInv'
  BY LockBoxAssumption DEF Box!Inv, Box!TypeOK, Box!MutexInv, Box!HandoffInv, Box!getBegin,
     Box!CanCall, Box!handoffVars
<1>3. Box!SharedInv'
  BY LockBoxAssumption DEF Box!Inv, Box!TypeOK, Box!Feature, Box!MutexInv, Box!SharedInv,
     Box!getBegin, Box!CanCall, Box!handoffVars
<1>4. Box!HandoffInv'
  BY LockBoxAssumption DEF Box!Inv, Box!TypeOK, Box!HandoffInv, Box!getBegin, Box!CanCall,
     Box!handoffVars
<1>5. QED
  BY <1>1, <1>2, <1>3, <1>4 DEF Box!Inv

\* The end of LockBox::get preserves the invariant.
LEMMA GetEndPreserves ==
  ASSUME Box!Inv, NEW t \in Box!Threads, Box!getEnd(t)
  PROVE  Box!Inv'
<1>1. Box!TypeOK'
  BY LockBoxAssumption DEF Box!Inv, Box!TypeOK, Box!Feature, Box!getEnd, Box!sharedVars,
     Box!handoffVars
<1>2. Box!MutexInv'
  BY LockBoxAssumption DEF Box!Inv, Box!TypeOK, Box!MutexInv, Box!HandoffInv, Box!getEnd,
     Box!sharedVars, Box!handoffVars
<1>3. Box!SharedInv'
  BY LockBoxAssumption DEF Box!Inv, Box!TypeOK, Box!Feature, Box!MutexInv, Box!SharedInv,
     Box!getEnd, Box!sharedVars, Box!handoffVars
<1>4. Box!HandoffInv'
  BY LockBoxAssumption DEF Box!Inv, Box!TypeOK, Box!HandoffInv, Box!getEnd, Box!sharedVars,
     Box!handoffVars
<1>5. QED
  BY <1>1, <1>2, <1>3, <1>4 DEF Box!Inv

\* A successful isReady preserves the invariant.
LEMMA IsReadyPreserves ==
  ASSUME Box!Inv, Box!isReady
  PROVE  Box!Inv'
<1>1. Box!TypeOK'
  BY LockBoxAssumption DEF Box!Inv, Box!TypeOK, Box!Feature, Box!isReady, Box!sharedVars
<1>2. Box!MutexInv'
  BY LockBoxAssumption DEF Box!Inv, Box!TypeOK, Box!MutexInv, Box!HandoffInv, Box!isReady,
     Box!sharedVars
<1>3. Box!SharedInv'
  BY LockBoxAssumption DEF Box!Inv, Box!TypeOK, Box!Feature, Box!MutexInv, Box!SharedInv,
     Box!isReady, Box!sharedVars
<1>4. Box!HandoffInv'
  BY LockBoxAssumption DEF Box!Inv, Box!TypeOK, Box!MutexInv, Box!HandoffInv, Box!isReady,
     Box!sharedVars
<1>5. QED
  BY <1>1, <1>2, <1>3, <1>4 DEF Box!Inv

\* LockBox::fill preserves the invariant.
LEMMA FillPreserves ==
  ASSUME Box!Inv, Box!fill
  PROVE  Box!Inv'
<1>1. Box!TypeOK'
  BY LockBoxAssumption DEF Box!Inv, Box!TypeOK, Box!Feature, Box!HandoffInv, Box!fill,
     Box!sharedVars
<1>2. Box!MutexInv'
  BY LockBoxAssumption DEF Box!Inv, Box!TypeOK, Box!MutexInv, Box!HandoffInv, Box!fill,
     Box!sharedVars
<1>3. Box!SharedInv'
  BY LockBoxAssumption DEF Box!Inv, Box!TypeOK, Box!Feature, Box!MutexInv, Box!SharedInv,
     Box!fill, Box!sharedVars
<1>4. Box!HandoffInv'
  BY LockBoxAssumption DEF Box!Inv, Box!TypeOK, Box!MutexInv, Box!HandoffInv, Box!fill,
     Box!sharedVars
<1>5. QED
  BY <1>1, <1>2, <1>3, <1>4 DEF Box!Inv

\* The return of join preserves the invariant.
LEMMA JoinPreserves ==
  ASSUME Box!Inv, Box!join
  PROVE  Box!Inv'
<1>1. Box!TypeOK'
  BY LockBoxAssumption DEF Box!Inv, Box!TypeOK, Box!Feature, Box!join, Box!sharedVars
<1>2. Box!MutexInv'
  BY LockBoxAssumption DEF Box!Inv, Box!TypeOK, Box!MutexInv, Box!HandoffInv, Box!join,
     Box!sharedVars
<1>3. Box!SharedInv'
  BY LockBoxAssumption DEF Box!Inv, Box!TypeOK, Box!Feature, Box!MutexInv, Box!SharedInv,
     Box!join, Box!sharedVars
<1>4. Box!HandoffInv'
  BY LockBoxAssumption DEF Box!Inv, Box!TypeOK, Box!MutexInv, Box!HandoffInv, Box!join,
     Box!sharedVars
<1>5. QED
  BY <1>1, <1>2, <1>3, <1>4 DEF Box!Inv

\* LockBox::grab up to its block preserves the invariant.
LEMMA GrabBeginPreserves ==
  ASSUME Box!Inv, NEW g \in Grabbers, Box!grabBegin(g)
  PROVE  Box!Inv'
<1>1. Box!TypeOK'
  BY LockBoxAssumption DEF Box!Inv, Box!TypeOK, Box!Feature, Box!grabBegin, Box!sharedVars,
     Box!handoffVars
<1>2. Box!MutexInv'
  BY LockBoxAssumption DEF Box!Inv, Box!TypeOK, Box!MutexInv, Box!HandoffInv, Box!grabBegin,
     Box!sharedVars, Box!handoffVars
<1>3. Box!SharedInv'
  BY LockBoxAssumption DEF Box!Inv, Box!TypeOK, Box!Feature, Box!MutexInv, Box!SharedInv,
     Box!grabBegin, Box!sharedVars, Box!handoffVars
<1>4. Box!HandoffInv'
  BY LockBoxAssumption DEF Box!Inv, Box!TypeOK, Box!MutexInv, Box!HandoffInv, Box!grabBegin,
     Box!sharedVars, Box!handoffVars
<1>5. QED
  BY <1>1, <1>2, <1>3, <1>4 DEF Box!Inv

\* LockBox::grab after its block preserves the invariant.
LEMMA GrabEndPreserves ==
  ASSUME Box!Inv, NEW g \in Grabbers, Box!grabEnd(g)
  PROVE  Box!Inv'
<1>1. Box!TypeOK'
  BY LockBoxAssumption DEF Box!Inv, Box!TypeOK, Box!Feature, Box!grabEnd, Box!NoFeature,
     Box!sharedVars
<1>2. Box!MutexInv'
  BY LockBoxAssumption DEF Box!Inv, Box!TypeOK, Box!MutexInv, Box!HandoffInv, Box!grabEnd,
     Box!NoFeature, Box!sharedVars
<1>3. Box!SharedInv'
  BY LockBoxAssumption DEF Box!Inv, Box!TypeOK, Box!Feature, Box!MutexInv, Box!SharedInv,
     Box!grabEnd, Box!NoFeature, Box!sharedVars
<1>4. Box!HandoffInv'
  BY LockBoxAssumption DEF Box!Inv, Box!TypeOK, Box!MutexInv, Box!HandoffInv, Box!grabEnd,
     Box!NoFeature, Box!sharedVars
<1>5. QED
  BY <1>1, <1>2, <1>3, <1>4 DEF Box!Inv

\* The end of a thread preserves the invariant.
LEMMA ThreadEndsPreserves ==
  ASSUME Box!Inv, NEW t \in Others \cup {Filler}, Box!ThreadEnds(t)
  PROVE  Box!Inv'
<1>1. Box!TypeOK'
  BY LockBoxAssumption DEF Box!Inv, Box!TypeOK, Box!Feature, Box!ThreadEnds, Box!sharedVars,
     Box!handoffVars
<1>2. Box!MutexInv'
  BY LockBoxAssumption DEF Box!Inv, Box!TypeOK, Box!MutexInv, Box!HandoffInv, Box!ThreadEnds,
     Box!sharedVars, Box!handoffVars
<1>3. Box!SharedInv'
  BY LockBoxAssumption DEF Box!Inv, Box!TypeOK, Box!Feature, Box!MutexInv, Box!SharedInv,
     Box!ThreadEnds, Box!sharedVars, Box!handoffVars
<1>4. Box!HandoffInv'
  BY LockBoxAssumption DEF Box!Inv, Box!TypeOK, Box!MutexInv, Box!HandoffInv, Box!ThreadEnds,
     Box!sharedVars, Box!handoffVars
<1>5. QED
  BY <1>1, <1>2, <1>3, <1>4 DEF Box!Inv

\* A step that changes nothing preserves the invariant.
LEMMA StutterPreserves ==
  ASSUME Box!Inv, UNCHANGED Box!vars
  PROVE  Box!Inv'
BY DEF Box!Inv, Box!TypeOK, Box!MutexInv, Box!SharedInv, Box!HandoffInv, Box!vars

\* Lock boxes: the invariant holds of every reachable state, however many threads call
\* however often.
THEOREM Invariance == Box!Spec => []Box!Inv
<1>1. Box!Init => Box!Inv
  BY LockBoxAssumption DEF Box!Init, Box!Inv, Box!TypeOK, Box!Feature, Box!NoFeature,
     Box!MutexInv, Box!SharedInv, Box!HandoffInv
<1>2. Box!Inv /\ [Box!Next]_(Box!vars) => Box!Inv'
  <2> SUFFICES ASSUME Box!Inv, [Box!Next]_(Box!vars) PROVE Box!Inv'
    OBVIOUS
  <2>1. CASE \E t \in Box!Threads : Box!SharedStep(t)
    BY <2>1, SetPreserves, UpdateBeginPreserves, ClearPreserves,
       GetBeginPreserves DEF Box!SharedStep
  <2>2. CASE \E t \in Box!Threads : Box!BlockEnds(t)
    BY <2>2, UpdateEndPreserves, GetEndPreserves DEF Box!BlockEnds
  <2>3. CASE Box!FillerStep
    BY <2>3, IsReadyPreserves, FillPreserves, JoinPreserves DEF Box!FillerStep
  <2>4. CASE \E g \in Grabbers : Box!GrabberStep(g)
    BY <2>4, GrabBeginPreserves, GrabEndPreserves DEF Box!GrabberStep
  <2>5. CASE \E t \in Others \cup {Filler} : Box!ThreadEnds(t)
    BY <2>5, ThreadEndsPreserves
  <2>6. CASE Box!Finished \/ UNCHANGED Box!vars
    BY <2>6, StutterPreserves DEF Box!Finished
  <2>7. QED
    BY <2>1, <2>2, <2>3, <2>4, <2>5, <2>6 DEF Box!Next
<1>3. QED
  BY <1>1, <1>2, PTL DEF Box!Spec

\* LockBox::update: no update of the shared object is lost.
THEOREM UpdatesAreKept == Box!Spec => []NoLostUpdate
<1>1. Box!Inv => NoLostUpdate
  BY DEF Box!Inv, Box!SharedInv, NoLostUpdate, Box!NoLostUpdate
<1>2. QED
  BY <1>1, Invariance, PTL

\* LockBox::get and update: the object is stable while a block looks at it.
THEOREM BlocksAreExclusive == Box!Spec => []Box!ObjectStableInBlock
<1>1. Box!Inv => Box!ObjectStableInBlock
  BY DEF Box!Inv, Box!SharedInv, Box!ObjectStableInBlock
<1>2. QED
  BY <1>1, Invariance, PTL

\* Feature::setFrom: the shared object is in the heap of a context that is kept alive.
THEOREM SharedDataIsAlive == Box!Spec => []SharedDataAlive
<1>1. Box!Inv => SharedDataAlive
  BY DEF Box!Inv, Box!SharedInv, SharedDataAlive, Box!SharedDataAlive, Box!Alive
<1>2. QED
  BY <1>1, Invariance, PTL

\* LockBox::fill and grab: every buffer is read once, whole and in order.
THEOREM GrabsAreInOrder == Box!Spec => []GrabsInOrder
<1>1. Box!Inv => GrabsInOrder
  BY DEF Box!Inv, Box!HandoffInv, GrabsInOrder, Box!GrabsInOrder
<1>2. QED
  BY <1>1, Invariance, PTL

\* JobStatus::Wait on a lock box: after join the buffer is out of everybody's hands.
THEOREM BufferMayBeFreed == Box!Spec => []JoinIsSafe
<1>1. Box!Inv => JoinIsSafe
  BY LockBoxAssumption DEF Box!Inv, Box!TypeOK, Box!HandoffInv, JoinIsSafe, Box!JoinIsSafe
<1>2. QED
  BY <1>1, Invariance, PTL
=============================================================================
