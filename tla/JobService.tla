----------------------------- MODULE JobService -----------------------------
(***************************************************************************)
(* What the background ingest promises to a caller that polls its job: an  *)
(* abstract service with one phase per job and the graph, no queue, no     *)
(* consumer task and no clock.  IngestWorker implements it.                *)
(***************************************************************************)
EXTENDS Integers, FiniteSets

CONSTANTS Job, Entity, NoJob

VARIABLES phase,     \* what a poller of the job reads
          batch,     \* the entities the job is to write
          order,     \* when the job was accepted, 0 if it never was
          graph      \* the job that wrote each entity last

vars == <<phase, batch, order, graph>>

Init ==
    /\ phase = [j \in Job |-> "absent"]
    /\ batch = [j \in Job |-> {}]
    /\ order = [j \in Job |-> 0]
    /\ graph = [e \in Entity |-> NoJob]

Accept(j) ==
    /\ phase[j] = "absent" /\ order[j] = 0
    /\ phase' = [phase EXCEPT ![j] = "queued"]
    /\ order' = [order EXCEPT ![j] = Cardinality({k \in Job : order[k] # 0}) + 1]
    /\ \E b \in SUBSET Entity : batch' = [batch EXCEPT ![j] = b]
    /\ UNCHANGED graph

Refuse(j) ==
    /\ phase[j] = "absent" /\ order[j] = 0
    /\ phase' = [phase EXCEPT ![j] = "failed"]
    /\ \E b \in SUBSET Entity : batch' = [batch EXCEPT ![j] = b]
    /\ UNCHANGED <<order, graph>>

\* One job at a time, first come first served.
Begin(j) ==
    /\ phase[j] = "queued"
    /\ \A k \in Job : phase[k] # "running"
    /\ \A k \in Job : phase[k] = "queued" => order[j] <= order[k]
    /\ phase' = [phase EXCEPT ![j] = "running"]
    /\ UNCHANGED <<batch, order, graph>>

Prepare(j) ==
    /\ phase[j] = "running"
    /\ \E b \in SUBSET Entity : batch' = [batch EXCEPT ![j] = b]
    /\ UNCHANGED <<phase, order, graph>>

Stored(j) == [e \in Entity |-> IF e \in batch[j] THEN j ELSE graph[e]]

\* A write whose answer is lost.
Write(j) ==
    /\ phase[j] = "running"
    /\ graph' = Stored(j)
    /\ UNCHANGED <<phase, batch, order>>

\* Outcomes of jobs that ended earlier may be forgotten as this one ends; a
\* refused job is never forgotten.
End(j, outcome) ==
    /\ phase[j] = "running"
    /\ \E gone \in SUBSET {k \in Job : phase[k] \in {"done", "failed"} /\ order[k] # 0} :
         phase' = [k \in Job |-> IF k \in gone THEN "absent"
                                 ELSE IF k = j THEN outcome ELSE phase[k]]
    /\ UNCHANGED <<batch, order>>

Complete(j) == End(j, "done") /\ graph' = Stored(j)

Fail(j) == End(j, "failed") /\ graph' \in {graph, Stored(j)}

Next ==
    \E j \in Job :
        \/ Accept(j) \/ Refuse(j)
        \/ Begin(j) \/ Prepare(j) \/ Write(j)
        \/ Complete(j) \/ Fail(j)

Spec == Init /\ [][Next]_vars
=============================================================================
