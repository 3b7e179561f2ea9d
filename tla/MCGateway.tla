----------------------------- MODULE MCGateway -----------------------------
(* Gateway with two concurrent requests. *)
EXTENDS Gateway

CONSTANTS q, f
TheKeys == {q, f}

\* How much of each a behaviour may see.  Cache and limiter share nothing but the
\* link to Redis, so much of one goes with little of the other.
Plans == {[writes |-> 2, asks |-> 0, restarts |-> 0, routes |-> {"direct"}],
          [writes |-> 1, asks |-> 0, restarts |-> 1, routes |-> {"direct"}],
          [writes |-> 0, asks |-> 3, restarts |-> 1, routes |-> {"query"}],
          [writes |-> 1, asks |-> 1, restarts |-> 0, routes |-> {"query", "read"}],
          [writes |-> 1, asks |-> 0, restarts |-> 0, routes |-> {"rate", "rated"}]}

VARIABLE plan

\* Old values and encryption are left to the behaviours about them.
MCInit ==
    /\ Init
    /\ plan \in Plans
    /\ plan.restarts = 0 \/ plan.asks > 0 => cipher = Plain
    /\ plan.asks > 0 => \A p \in Places : redis[p] = Nothing
MCNext ==
    /\ Next
    /\ writes' <= plan.writes /\ asks' <= plan.asks /\ restarts' <= plan.restarts
    /\ IF plan.asks > 0 THEN cipher' = Plain ELSE UNCHANGED bucket
    /\ \A c \in Callers : call[c] = Idle /\ call'[c] # Idle => call'[c].route \in plan.routes
    /\ UNCHANGED plan
MCSpec == MCInit /\ [][MCNext]_<<vars, plan>>

Symmetric == Permutations(Callers)
=============================================================================
