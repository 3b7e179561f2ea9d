---------------------------- MODULE MCQueryRoute ----------------------------
(* QueryRoute with three requests in all. *)
EXTENDS QueryRoute, FiniteSets

Plans == {[requests |-> 3, passes |-> 1, keys |-> 1, stream |-> {TRUE}],
          [requests |-> 2, passes |-> 2, keys |-> 1, stream |-> {TRUE}],
          [requests |-> 2, passes |-> 1, keys |-> 2, stream |-> {TRUE, FALSE}]}

VARIABLE plan

Taken == {h \in Handlers : handler'[h] # NoHandler}
MCInit == Init /\ plan \in Plans
MCNext ==
    /\ Next
    /\ Cardinality(Taken) <= plan.requests
    /\ Cardinality({handler'[h].key : h \in Taken}) <= plan.keys
    /\ \A h \in Taken : handler'[h].stream \in plan.stream
    /\ \A h \in Taken : handler'[h].pass <= plan.passes
    /\ UNCHANGED plan
MCSpec == MCInit /\ [][MCNext]_<<vars, plan>> /\ Fairness
=============================================================================
