------------------------------ MODULE MCJobQue ------------------------------
(***************************************************************************)
(* Small instances of JobQue: two priorities and two categories, so that   *)
(* overtaking and ties both happen.                                        *)
(***************************************************************************)
EXTENDS JobQue, TLC

CONSTANTS j1, j2, j3, w1, w2

MCPriority == (j1 :> 0) @@ (j2 :> 1) @@ (j3 :> 0)
MCCategory == (j1 :> 0) @@ (j2 :> 1) @@ (j3 :> 1)
=============================================================================
