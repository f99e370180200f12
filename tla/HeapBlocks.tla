----------------------------- MODULE HeapBlocks -----------------------------
(***************************************************************************)
(* What a context's heap promises the program that runs in it: a set of    *)
(* blocks in use.  A request gets memory that is in no other block, a free *)
(* takes that block and no other, and a collection keeps what the program  *)
(* can still reach and nothing else.                                       *)
(***************************************************************************)
EXTENDS Naturals

VARIABLES
  blocks,   \* the addresses of the blocks in use
  ret       \* the outcome of the last operation and the addresses it is about

vars == <<blocks, ret>>

Init == blocks = {} /\ ret = <<"none", {}>>

Outcome(what) == ret'[1] = what

\* A block of its own.
Give ==
  /\ Outcome("block")
  /\ ret'[2] \cap blocks = {}
  /\ blocks' = blocks \cup ret'[2]

\* An equal string that is in use already.
Share == Outcome("shared") /\ ret'[2] \subseteq blocks /\ UNCHANGED blocks

Refuse == ret' \in {<<"null", {}>>, <<"out of memory", {}>>} /\ UNCHANGED blocks

Take == Outcome("freed") /\ ret'[2] \subseteq blocks /\ blocks' = blocks \ ret'[2]

\* reallocate: one more block, one fewer.
Move ==
  /\ Outcome("moved")
  /\ ret'[2] \cap blocks = {}
  /\ \E old \in blocks : blocks' = (blocks \ {old}) \cup ret'[2]

Keep == Outcome("kept") /\ ret'[2] \subseteq blocks /\ blocks' = ret'[2]

Nothing == ret' = <<"none", {}>> /\ UNCHANGED blocks

Next == Give \/ Share \/ Refuse \/ Take \/ Move \/ Keep \/ Nothing

Spec == Init /\ [][Next]_vars
=============================================================================
