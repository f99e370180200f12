------------------------------- MODULE MCHeap -------------------------------
(* An instance of Heap: words of 2 bits, two size classes and blocks above   *)
(* them; the first deck of a class has one word, the next one is twice that. *)
EXTENDS Heap

MCTextSize == [a |-> 2, c |-> 18]
=============================================================================
