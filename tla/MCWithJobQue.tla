---------------------------- MODULE MCWithJobQue ----------------------------
(***************************************************************************)
(* Small instances of WithJobQue: one thread that opens scopes, with jobs  *)
(* that submit jobs and start threads, two threads that open scopes at the *)
(* same time, or a job that submits another while its scope ends.          *)
(***************************************************************************)
EXTENDS WithJobQue
=============================================================================
