--------------------------- MODULE MCSharedObjects --------------------------
(***************************************************************************)
(* The three ways a script holds an object of C++, or another context's    *)
(* data, side by side: by a handle (HandleRegistry), by a counted pointer  *)
(* (SharedStatus) and in a lock box (LockBox).  They share no state, so a  *)
(* behaviour is about one of them, chosen at the start, and the others do  *)
(* not move.                                                               *)
(***************************************************************************)
EXTENDS HandleRegistry

CONSTANTS
  Creator, Jobs, Joins, Notifying, MaxFailures,
  Shared, Handoff, Filler, Grabbers, Others, Addresses, Buffer, MaxUpdates, MaxFills

ASSUME SharedStatusAssumption ==
  /\ Creator \notin Jobs /\ IsFiniteSet(Jobs)
  /\ Joins \in BOOLEAN /\ Notifying \subseteq Jobs /\ MaxFailures \in Nat

VARIABLES
  by, object, mRef, mRemaining, ptr, joined, failures,
  box, full, holder, pc, read, allocatedBy, value, buffer, filled, grabbed, updates, calls

statusVars == <<object, mRef, mRemaining, ptr, joined, failures>>
boxVars == <<box, full, holder, pc, read, allocatedBy, value, buffer, filled, grabbed,
             updates, calls>>
allVars == <<by, vars, statusVars, boxVars>>

Counted == INSTANCE SharedStatus
Box == INSTANCE LockBox WITH Objects <- Addresses, mRemaining <- full

ASSUME LockBoxAssumption ==
  /\ Shared # Handoff /\ Filler \notin Grabbers \cup Others /\ Grabbers \cap Others = {}
  /\ Buffer \notin Addresses /\ Null \notin Addresses \cup {Buffer}
  /\ Null \notin Grabbers \cup Others \cup {Filler}
  /\ MaxUpdates \in Nat /\ MaxFills \in Nat

AsHandle(step)  == by = "handle" /\ step /\ UNCHANGED <<by, statusVars, boxVars>>
AsPointer(step) == by = "pointer" /\ step /\ UNCHANGED <<by, vars, boxVars>>
AsBox(step)     == by = "box" /\ step /\ UNCHANGED <<by, vars, statusVars>>

MCInit == by \in {"handle", "pointer", "box"} /\ Init /\ Counted!Init /\ Box!Init

MCNext == AsHandle(Next) \/ AsPointer(Counted!Next) \/ AsBox(Box!Next)

\* The fairness of LockBox; the others promise safety only.
MCSpec ==
  /\ MCInit /\ [][MCNext]_allVars
  /\ \A t \in Box!Threads : WF_allVars(AsBox(Box!BlockEnds(t)))
  /\ WF_allVars(AsBox(Box!FillerStep))
  /\ \A g \in Grabbers : WF_allVars(AsBox(Box!GrabberStep(g)))

\* See SharedStatus: no job that notifies holds the object after join.
JoinedIsLast == Counted!JoinedIsLast

\* See SharedStatus: the count is exact, and who is left when the object is deleted.
DeletedByTheLast == Counted!DeletedByTheLast

\* See LockBox: the shared object shows every update.
NoLostUpdate == Box!NoLostUpdate

\* See LockBox: the shared object is in the heap of a context that exists.
SharedDataAlive == Box!SharedDataAlive

\* See LockBox: every buffer is grabbed once, in order and whole.
GrabsInOrder == Box!GrabsInOrder

\* See LockBox: after join nobody has the address of the buffer.
JoinIsSafe == Box!JoinIsSafe

\* See LockBox: what is filled is eventually grabbed, until all buffers have been.
HandoffCompletes == Box!HandoffCompletes
=============================================================================
