--------------------------- MODULE MCSessionPool ---------------------------
(* SessionPool with two callers. *)
EXTENDS SessionPool, TLC

Plans == {[sessions |-> 1, requests |-> 3, version |-> 2, wants |-> {"list"}, shutdown |-> FALSE],
          [sessions |-> 2, requests |-> 4, version |-> 1, wants |-> {"tool"}, shutdown |-> FALSE],
          [sessions |-> 3, requests |-> 3, version |-> 1, wants |-> {"tool"}, shutdown |-> FALSE],
          [sessions |-> 2, requests |-> 2, version |-> 1, wants |-> {"tool"}, shutdown |-> TRUE]}

VARIABLE plan

MCInit == Init /\ plan \in Plans
MCNext ==
    /\ Next
    /\ \A s \in Sessions : s > plan.sessions => client'[s] = Unborn
    /\ requests' <= plan.requests /\ version' <= plan.version
    /\ \A c \in Callers : call'[c].want \in {"none"} \cup plan.wants
    /\ plan.shutdown \/ closing' = NoSession
    /\ UNCHANGED plan
MCSpec == MCInit /\ [][MCNext]_<<vars, plan>>

Symmetric == Permutations(Callers)
=============================================================================
