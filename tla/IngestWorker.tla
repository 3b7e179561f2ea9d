---------------------------- MODULE IngestWorker ----------------------------
(***************************************************************************)
(* The background ingest worker (aim/workers/ingest_worker.py): HTTP       *)
(* handlers put jobs on a bounded asyncio.Queue, one consumer task takes   *)
(* them, extracts entities from text jobs, writes every batch to Neo4j in  *)
(* one transaction with a few attempts, and keeps the outcome for pollers  *)
(* until the retention window has passed.  aim/main.py starts the task     *)
(* before it serves requests and stops it after the last one.              *)
(*                                                                         *)
(* The event loop runs one coroutine at a time, so an action is the code   *)
(* between two awaits.                                                     *)
(***************************************************************************)
EXTENDS Integers, Sequences, FiniteSets

CONSTANTS Job,          \* the jobs callers ever submit (their uuids)
          Entity,       \* the graph entities a batch may hold
          MaxSize,      \* IngestWorker(maxsize=200)
          MaxRetries,   \* _MAX_RETRIES = 3
          Retention,    \* _JOB_RETENTION_SECONDS
          MaxTime,      \* bound of the model: the clock stops here
          NoJob         \* no job: the entity was never written, nothing is held

ASSUME ConstantsAssumption ==
    /\ MaxSize \in Nat \ {0}
    /\ MaxRetries \in Nat \ {0}
    /\ Retention \in Nat
    /\ MaxTime \in Nat
    /\ NoJob \notin Job

VARIABLES
    status,        \* job.status, "absent" when _jobs has no such key
    kind,          \* job.kind
    entities,      \* job.entities
    retries,       \* job.retries
    created_at,    \* job.created_at
    completed_at,  \* job.completed_at, NoTime for None
    queue,         \* _queue
    task,          \* _task: none, running, done (returned) or cancelled
    draining,      \* _draining
    pc,            \* the await the consumer is suspended at
    cur,           \* the local `job` of _run_loop
    attempt,       \* the local `attempt` of _run_loop
    stopper,       \* the lifespan's call of stop(): none, waiting, returned
    graph,         \* Neo4j: the job that wrote each entity last
    now,           \* time.monotonic()
    arrival,       \* history: when a job was accepted, 0 if it never was
    arrivals,      \* history: number of accepted jobs
    ended_at       \* history: when a job reached DONE or FAILED

jobVars   == <<status, kind, entities, retries, created_at, completed_at>>
loopVars  == <<task, pc, cur, attempt>>
stopVars  == <<draining, stopper>>
history   == <<arrival, arrivals, ended_at>>
vars == <<jobVars, queue, loopVars, stopVars, graph, now, history>>

NoTime   == -1
Terminal == {"done", "failed"}

\* The jobs, the queue and the consumer of one worker.
TypeOK ==
    /\ status \in [Job -> {"absent", "queued", "running"} \cup Terminal]
    /\ kind \in [Job -> {"ingest", "extraction"}]
    /\ entities \in [Job -> SUBSET Entity]
    /\ retries \in [Job -> 0..MaxRetries]
    /\ created_at \in [Job -> Nat]
    /\ completed_at \in [Job -> Nat \cup {NoTime}]
    /\ queue \in Seq(Job)
    /\ Len(queue) <= MaxSize
    /\ task \in {"none", "running", "done", "cancelled"}
    /\ draining \in BOOLEAN
    /\ pc \in {"top", "waiting", "extracting", "ingesting", "sleeping"}
    /\ cur \in Job \cup {NoJob}
    /\ attempt \in 1..MaxRetries
    /\ stopper \in {"none", "waiting", "returned"}
    /\ graph \in [Entity -> Job \cup {NoJob}]
    /\ now \in Nat
    /\ arrival \in [Job -> Nat]
    /\ arrivals \in Nat
    /\ ended_at \in [Job -> Nat \cup {NoTime}]

Init ==
    /\ status = [j \in Job |-> "absent"]
    /\ kind = [j \in Job |-> "ingest"]
    /\ entities = [j \in Job |-> {}]
    /\ retries = [j \in Job |-> 0]
    /\ created_at = [j \in Job |-> 0]
    /\ completed_at = [j \in Job |-> NoTime]
    /\ queue = <<>>
    /\ task = "none"
    /\ draining = FALSE
    /\ pc = "top"
    /\ cur = NoJob
    /\ attempt = 1
    /\ stopper = "none"
    /\ graph = [e \in Entity |-> NoJob]
    /\ now = 0
    /\ arrival = [j \in Job |-> 0]
    /\ arrivals = 0
    /\ ended_at = [j \in Job |-> NoTime]

-----------------------------------------------------------------------------
(* Callers: the HTTP handlers, and the pollers that read get_job.          *)

\* A uuid that no earlier call drew.
Fresh(j) == status[j] = "absent" /\ ended_at[j] = NoTime

\* The job object enters _jobs before the queue is tried, and stays there.
Register(j, k, batch) ==
    /\ Fresh(j)
    /\ stopper = "none"
    /\ kind' = [kind EXCEPT ![j] = k]
    /\ entities' = [entities EXCEPT ![j] = batch]
    /\ created_at' = [created_at EXCEPT ![j] = now]

\* put_nowait found room: the caller gets the job_id.
Accept(j, k, batch) ==
    /\ Register(j, k, batch)
    /\ Len(queue) < MaxSize
    /\ status' = [status EXCEPT ![j] = "queued"]
    /\ queue' = Append(queue, j)
    /\ arrivals' = arrivals + 1
    /\ arrival' = [arrival EXCEPT ![j] = arrivals + 1]
    /\ UNCHANGED <<retries, completed_at, loopVars, stopVars, graph, now, ended_at>>

\* Mutant of Refuse: the job keeps its initial status.
RefuseStillQueued(j, k, batch) ==
    /\ Register(j, k, batch)
    /\ Len(queue) >= MaxSize
    /\ status' = [status EXCEPT ![j] = "queued"]
    /\ ended_at' = [ended_at EXCEPT ![j] = now]
    /\ UNCHANGED <<retries, completed_at, queue, loopVars, stopVars, graph, now,
                   arrival, arrivals>>

\* put_nowait raised QueueFull: the job is FAILED, completed_at stays None,
\* and the caller gets a RuntimeError.
Refuse(j, k, batch) ==
    /\ Register(j, k, batch)
    /\ Len(queue) >= MaxSize
    /\ status' = [status EXCEPT ![j] = "failed"]
    /\ ended_at' = [ended_at EXCEPT ![j] = now]
    /\ UNCHANGED <<retries, completed_at, queue, loopVars, stopVars, graph, now,
                   arrival, arrivals>>

\* POST /graph/ingest/async: a batch of entities.
Enqueue(j) ==
    \E batch \in SUBSET Entity \ {{}} :
        Accept(j, "ingest", batch) \/ Refuse(j, "ingest", batch)

\* A webhook: text, whose entities the worker extracts later.
EnqueueExtraction(j) == Accept(j, "extraction", {}) \/ Refuse(j, "extraction", {})

-----------------------------------------------------------------------------
(* The lifespan of the process.                                            *)

Start ==
    /\ task = "none"
    /\ stopper = "none"
    /\ draining' = FALSE
    /\ task' = "running"
    /\ UNCHANGED <<jobVars, queue, pc, cur, attempt, stopper, graph, now, history>>

StopCalled ==
    /\ stopper = "none"
    /\ task # "none"
    /\ draining' = TRUE
    /\ stopper' = IF task = "running" THEN "waiting" ELSE "returned"
    /\ UNCHANGED <<jobVars, queue, loopVars, graph, now, history>>

\* wait_for(self._task) saw the task return.
StopJoined ==
    /\ stopper = "waiting"
    /\ task = "done"
    /\ stopper' = "returned"
    /\ UNCHANGED <<jobVars, queue, loopVars, draining, graph, now, history>>

\* Neo4j applies the batch of job j: every entity in one transaction.
Written(j) == [e \in Entity |-> IF e \in entities[j] THEN j ELSE graph[e]]

\* drain_timeout passed: the task is cancelled at its await and what it was
\* doing is abandoned.  A commit already sent may or may not have landed.
StopTimedOut ==
    /\ stopper = "waiting"
    /\ task = "running"
    /\ task' = "cancelled"
    /\ stopper' = "returned"
    /\ \/ graph' = graph
       \/ pc = "ingesting" /\ graph' = Written(cur)
    /\ UNCHANGED <<jobVars, queue, pc, cur, attempt, draining, now, history>>

-----------------------------------------------------------------------------
(* The consumer task, _run_loop.                                           *)

At(label) == task = "running" /\ pc = label

\* Mutant of Take: the newest job first.
TakeNewest ==
    /\ task = "running"
    /\ pc \in {"top", "waiting"}
    /\ queue # <<>>
    /\ LET j == queue[Len(queue)] IN
         /\ cur' = j
         /\ status' = [status EXCEPT ![j] = "running"]
         /\ pc' = IF kind[j] = "extraction" THEN "extracting" ELSE "ingesting"
    /\ queue' = SubSeq(queue, 1, Len(queue) - 1)
    /\ attempt' = 1
    /\ UNCHANGED <<kind, entities, retries, created_at, completed_at, task,
                   stopVars, graph, now, history>>

\* queue.get() returned a job.
Take ==
    /\ task = "running"
    /\ pc \in {"top", "waiting"}
    /\ queue # <<>>
    /\ LET j == Head(queue) IN
         /\ cur' = j
         /\ status' = [status EXCEPT ![j] = "running"]
         /\ pc' = IF kind[j] = "extraction" THEN "extracting" ELSE "ingesting"
    /\ queue' = Tail(queue)
    /\ attempt' = 1
    /\ UNCHANGED <<kind, entities, retries, created_at, completed_at, task,
                   stopVars, graph, now, history>>

\* The queue is empty: wait in get() for at most one second.
Wait ==
    /\ At("top")
    /\ queue = <<>>
    /\ ~draining
    /\ pc' = "waiting"
    /\ UNCHANGED <<jobVars, queue, task, cur, attempt, stopVars, graph, now, history>>

\* Mutant of GetTimedOut: the loop returns whether it drains or not.
GetTimedOutReturns ==
    /\ At("waiting")
    /\ pc' = "top"
    /\ task' = "done"
    /\ UNCHANGED <<jobVars, queue, cur, attempt, stopVars, graph, now, history>>

\* The second passed.  An item that arrives at that moment stays queued.
GetTimedOut ==
    /\ At("waiting")
    /\ pc' = "top"
    /\ task' = IF draining THEN "done" ELSE "running"
    /\ UNCHANGED <<jobVars, queue, cur, attempt, stopVars, graph, now, history>>

\* Draining, and nothing is queued.
DrainedExit ==
    /\ At("top")
    /\ draining
    /\ queue = <<>>
    /\ task' = "done"
    /\ UNCHANGED <<jobVars, queue, pc, cur, attempt, stopVars, graph, now, history>>

\* extract, deduplicate and augment gave a batch, possibly empty.
ExtractionDone ==
    /\ At("extracting")
    /\ \E batch \in SUBSET Entity : entities' = [entities EXCEPT ![cur] = batch]
    /\ pc' = "ingesting"
    /\ UNCHANGED <<status, kind, retries, created_at, completed_at, queue, task,
                   cur, attempt, stopVars, graph, now, history>>

\* Mutant of Stale: the age counts from created_at.
StaleByCreation(st, done) ==
    {j \in Job : st[j] \in Terminal /\ done[j] # NoTime /\ created_at[j] < now - Retention}

\* _evict_old_jobs, run on the jobs as they are once st and done are set.
Stale(st, done) ==
    {j \in Job : st[j] \in Terminal /\ done[j] # NoTime /\ done[j] < now - Retention}

\* The current job ends with status s, then old jobs are dropped and the loop
\* goes round.
Finish(s) ==
    LET st   == [status EXCEPT ![cur] = s]
        done == [completed_at EXCEPT ![cur] = now]
    IN  /\ status' = [j \in Job |-> IF j \in Stale(st, done) THEN "absent" ELSE st[j]]
        /\ completed_at' = done
        /\ ended_at' = [ended_at EXCEPT ![cur] = now]
        /\ pc' = "top"
        /\ cur' = NoJob
        /\ UNCHANGED <<kind, entities, created_at, queue, task, attempt, stopVars,
                       now, arrival, arrivals>>

ExtractionFailed ==
    /\ At("extracting")
    /\ Finish("failed")
    /\ UNCHANGED <<retries, graph>>

\* Mutant of IngestDone: the transaction is never committed.
IngestDoneUncommitted ==
    /\ At("ingesting")
    /\ Finish("done")
    /\ UNCHANGED <<retries, graph>>

\* ingest_batch committed and returned its counts.
IngestDone ==
    /\ At("ingesting")
    /\ graph' = Written(cur)
    /\ Finish("done")
    /\ UNCHANGED retries

\* Mutant of IngestRaised: one attempt too few.
IngestRaisedGivesUpEarly ==
    /\ At("ingesting")
    /\ graph' \in {graph, Written(cur)}
    /\ retries' = [retries EXCEPT ![cur] = attempt]
    /\ IF attempt < MaxRetries - 1
         THEN /\ pc' = "sleeping"
              /\ UNCHANGED <<status, kind, entities, created_at, completed_at, queue,
                             task, cur, attempt, stopVars, now, history>>
         ELSE Finish("failed")

\* ingest_batch raised: rolled back, or committed with the answer lost.
IngestRaised ==
    /\ At("ingesting")
    /\ graph' \in {graph, Written(cur)}
    /\ retries' = [retries EXCEPT ![cur] = attempt]
    /\ IF attempt < MaxRetries
         THEN /\ pc' = "sleeping"
              /\ UNCHANGED <<status, kind, entities, created_at, completed_at, queue,
                             task, cur, attempt, stopVars, now, history>>
         ELSE Finish("failed")

\* Mutant of Retry: the job goes back to the queue.
RetryRequeues ==
    /\ At("sleeping")
    /\ Len(queue) < MaxSize
    /\ status' = [status EXCEPT ![cur] = "queued"]
    /\ queue' = Append(queue, cur)
    /\ cur' = NoJob
    /\ pc' = "top"
    /\ UNCHANGED <<kind, entities, retries, created_at, completed_at, task, attempt,
                   stopVars, graph, now, history>>

\* The back-off is over: next attempt.
Retry ==
    /\ At("sleeping")
    /\ attempt' = attempt + 1
    /\ pc' = "ingesting"
    /\ UNCHANGED <<jobVars, queue, task, cur, stopVars, graph, now, history>>

-----------------------------------------------------------------------------
Tick ==
    /\ now < MaxTime
    /\ now' = now + 1
    /\ UNCHANGED <<jobVars, queue, loopVars, stopVars, graph, history>>

\* The loop and the awaits it makes: each one has a timeout of its own.
Consumer ==
    \/ Take \/ Wait \/ GetTimedOut \/ DrainedExit
    \/ ExtractionDone \/ ExtractionFailed
    \/ IngestDone \/ IngestRaised \/ Retry

Lifespan == Start \/ StopCalled \/ StopJoined \/ StopTimedOut

Next ==
    \/ \E j \in Job : Enqueue(j) \/ EnqueueExtraction(j)
    \/ Lifespan
    \/ Consumer
    \/ Tick

Spec == Init /\ [][Next]_vars

\* The consumer task is scheduled whenever it can run, the lifespan starts it,
\* and a stop() under way is ended by its own timeout.  Callers are free, and
\* nothing forces the process to stop.
Fairness ==
    /\ WF_vars(Consumer)
    /\ WF_vars(Start)
    /\ WF_vars(StopJoined \/ StopTimedOut)

FairSpec == Spec /\ Fairness

-----------------------------------------------------------------------------
Queued == {queue[i] : i \in 1..Len(queue)}

\* A job a poller sees as QUEUED is in the queue exactly once, and the queue
\* holds nothing else: no job is stranded, none is processed twice.
QueueMatchesStatus ==
    /\ \A j \in Job : status[j] = "queued" <=> j \in Queued
    /\ \A m, n \in 1..Len(queue) : m # n => queue[m] # queue[n]

\* A job is RUNNING only in the consumer's hands: it is the one the loop holds,
\* or held when it was cancelled.
RunningIsHeld ==
    \A j \in Job : status[j] = "running" <=> j = cur

\* What a DONE status promises the poller: each entity of the batch is in the
\* graph, as this job or one accepted later left it.
DoneIsStored ==
    \A j \in Job : status[j] = "done" =>
        \A e \in entities[j] : graph[e] # NoJob /\ arrival[graph[e]] >= arrival[j]

\* A job fails only when every attempt failed, the extraction failed, or the
\* queue refused it (ingest_worker.py:9-11).
FailureIsEarned ==
    \A j \in Job : status[j] = "failed" =>
        \/ retries[j] = MaxRetries
        \/ retries[j] = 0 /\ kind[j] = "extraction"
        \/ arrival[j] = 0

\* A retried or abandoned batch never overwrites what a job accepted later
\* wrote: entities change hands in the order of acceptance.
LatestWins ==
    [][\A e \in Entity : graph'[e] # graph[e] =>
          graph[e] = NoJob \/ arrival[graph[e]] < arrival[graph'[e]]]_vars

\* A job leaves _jobs only when its outcome has been readable for longer than
\* the retention window, however long it was queued or running before.
OutcomeRetained ==
    [][\A j \in Job : status[j] # "absent" /\ status'[j] = "absent" =>
          status[j] \in Terminal /\ now - ended_at[j] > Retention]_vars

\* Every accepted job is settled, unless the process stops first.
EventuallySettled ==
    \A j \in Job : status[j] = "queued" ~>
        (status[j] \in Terminal \cup {"absent"} \/ stopper = "returned")

\* stop() returns, whatever the consumer is doing.
StopReturns == stopper = "waiting" ~> stopper = "returned"

\* Status, queue and consumer agree: a job that reads QUEUED is in the queue once, one
\* that reads RUNNING is the one the consumer holds, whoever enqueues, evicts or stops.
JobsConsistent == TypeOK /\ QueueMatchesStatus /\ RunningIsHeld

\* The consumer and stop() both get there, each against the other: neither an empty
\* queue nor a batch under way keeps a job or the shutdown waiting for ever.
WorkerProgresses == EventuallySettled /\ StopReturns
=============================================================================
