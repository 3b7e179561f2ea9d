--------------------------- MODULE MCQueryClient ---------------------------
(* QueryClient with little of everything at once. *)
EXTENDS QueryClient

Plans == {[queries |-> 1, tokens |-> 3, news |-> 1, reloads |-> 1],
          [queries |-> 2, tokens |-> 1, news |-> 0, reloads |-> 0]}

VARIABLE plan

MCInit == Init /\ plan \in Plans
\* Nothing is claimed of queries after they ran over each other.
MCNext ==
    /\ Next
    /\ ~crossed
    /\ \A q \in Queries : q > plan.queries => pc'[q] = "idle"
    /\ \A q \in Queries : Len(got'[q]) <= plan.tokens
    /\ news' <= plan.news /\ reloads' <= plan.reloads
    /\ UNCHANGED plan
MCSpec == MCInit /\ [][MCNext]_<<vars, plan>> /\ Fairness
=============================================================================
