-------------------------- MODULE MCReasoningLoop --------------------------
(* ReasoningLoop with the retrievals folded in in the order of their names. *)
EXTENDS ReasoningLoop

ByName == <<"fetch_mcp", "retrieve_vectors", "search_graph">>
=============================================================================
