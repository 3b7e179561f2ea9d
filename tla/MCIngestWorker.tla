--------------------------- MODULE MCIngestWorker ---------------------------
(* IngestWorker on a small instance. *)
EXTENDS JobServiceRefinement, TLC

Symmetric == Permutations(Job)
=============================================================================
