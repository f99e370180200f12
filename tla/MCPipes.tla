------------------------------ MODULE MCPipes -------------------------------
(***************************************************************************)
(* The two pipes of the job queue module, a channel of shared data and a   *)
(* stream of copied bytes.  They share no state, so a behaviour is about   *)
(* one of them, chosen at the start, and the other does not move.          *)
(***************************************************************************)
EXTENDS Channel

CONSTANTS Producing, Popping, Polling, MaxBlobs

VARIABLES which, blobs, left, bytes, pp, spc, item, saved, sent, popped, seen

streamVars == <<blobs, left, bytes, pp, spc, item, saved, sent, popped, seen>>

Bytes == INSTANCE Stream WITH
  Producers <- Producing, Consumers <- Popping, Callers <- Polling,
  pipe <- blobs, mRemaining <- left, pc <- spc, pushed <- sent, taken <- popped

AsChannel(step) == which = "channel" /\ step /\ UNCHANGED <<which, streamVars>>
AsStream(step)  == which = "stream" /\ step /\ UNCHANGED <<which, vars>>

MCInit == which \in {"channel", "stream"} /\ Init /\ Bytes!Init

MCNext == AsChannel(Next) \/ AsStream(Bytes!Next)

allVars == <<which, vars, streamVars>>

\* The fairness of Channel and of Stream.
MCSpec ==
  /\ MCInit /\ [][MCNext]_allVars
  /\ \A p \in Producers : WF_allVars(AsChannel(Notify(p) \/ JobReturns(p)))
  /\ \A c \in Consumers : WF_allVars(AsChannel(LoopStep(c)))
  /\ \A p \in Producing : WF_allVars(AsStream(Bytes!ProducerEnds(p)))
  /\ \A c \in Popping : WF_allVars(AsStream(Bytes!LoopStep(c)))

\* See Stream: blobs are taken in order, and read as they were pushed.
ReadAsPushed == Bytes!ReadAsPushed

\* See Stream: once every consumer pops in a loop, everything is read.
EverythingRead == Bytes!EverythingRead
=============================================================================
