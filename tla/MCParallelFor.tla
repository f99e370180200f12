--------------------------- MODULE MCParallelFor ---------------------------
(***************************************************************************)
(* Small instances of ParallelFor.                                         *)
(***************************************************************************)
EXTENDS ParallelFor

CONSTANTS inner, empty, pool, whole

\* Values for Root, inner, empty, pool and whole, in that order.  The main thread
\* splits 3 indices in 4 jobs, of which there are then 3.  The first one calls
\* parallel_for for an empty range and then asks for 2 jobs for 3 indices.  The third
\* calls JobQue::parallel_for twice: 2 indices with a step of 4 (a single chunk), then 5
\* indices from -2 with chunk_count 3 (step 2, three chunks, the last one short).
By(root, in, no, po, wh) ==
  [s \in Scopes |-> CASE s = Root -> root [] s = inner -> in [] s = empty -> no
                      [] s = pool -> po [] s = whole -> wh]

MCHostChunk == By(0, 0, 0, 2, 2)
MCEarlier == By({}, {empty}, {}, {whole}, {})
MCBegin == By(2, 0, 5, -2, 1)
MCEnd == By(5, 3, 5, 3, 3)
MCJobs == By(4, 2, 2, 3, 1)
MCStep == By(1, 1, 1, 1, 4)
=============================================================================
