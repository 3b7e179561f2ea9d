------------------------ MODULE JobServiceRefinement ------------------------
(* The abstract service that IngestWorker implements. *)
EXTENDS IngestWorker

Service == INSTANCE JobService
    WITH phase <- status, batch <- entities, order <- arrival

\* A poller of the worker sees no more than the abstract service allows: every
\* step of the queue, the consumer, stop() and eviction is a step of JobService
\* or leaves what the poller and the graph's readers see unchanged.
ImplementsService == Service!Spec
=============================================================================
