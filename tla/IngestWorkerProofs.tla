------------------------- MODULE IngestWorkerProofs -------------------------
(* Theorems of IngestWorker, for every set of jobs, size and bound: its invariants,
   and that it implements JobService. *)
EXTENDS JobServiceRefinement, FiniteSetTheorems, TLAPS

\* The loop holds a job exactly while it is past get(), and sleeps only when
\* an attempt is left.
LoopOK ==
    /\ cur # NoJob <=> pc \in {"extracting", "ingesting", "sleeping"}
    /\ pc = "sleeping" => attempt < MaxRetries

\* A uuid carries its place in the order of acceptance from Accept on.
FreshIsUnordered ==
    \A j \in Job : arrival[j] # 0 => status[j] # "absent" \/ ended_at[j] # NoTime

\* completed_at, where the code sets it, is the moment the job ended.
EndedOK ==
    \A j \in Job :
        /\ status[j] \in Terminal => ended_at[j] # NoTime
        /\ completed_at[j] # NoTime => completed_at[j] = ended_at[j]

\* The accepted jobs stand in one line: those that wrote an entity, then the
\* one the loop holds, then the queue in its order.
InLine ==
    /\ \A j \in Job : arrival[j] <= arrivals
    /\ \A m \in 1..Len(queue) : arrival[queue[m]] > 0
    /\ \A m, n \in 1..Len(queue) : m < n => arrival[queue[m]] < arrival[queue[n]]
    /\ cur # NoJob => /\ arrival[cur] > 0
                      /\ \A m \in 1..Len(queue) : arrival[cur] < arrival[queue[m]]
    /\ \A e \in Entity : graph[e] # NoJob =>
          /\ arrival[graph[e]] > 0
          /\ \A m \in 1..Len(queue) : arrival[graph[e]] < arrival[queue[m]]
          /\ cur # NoJob => graph[e] = cur \/ arrival[graph[e]] < arrival[cur]

Inv ==
    /\ TypeOK
    /\ LoopOK
    /\ QueueMatchesStatus
    /\ RunningIsHeld
    /\ EndedOK
    /\ FreshIsUnordered
    /\ InLine

USE ConstantsAssumption

-----------------------------------------------------------------------------
\* What a step can be, with the callers' choices named.
LEMMA StepCases ==
    ASSUME [Next]_vars
    PROVE  \/ \E j \in Job, k \in {"ingest", "extraction"}, b \in SUBSET Entity :
                 Accept(j, k, b) \/ Refuse(j, k, b)
           \/ Start \/ StopCalled \/ StopJoined \/ StopTimedOut
           \/ Take \/ Wait \/ GetTimedOut \/ DrainedExit
           \/ ExtractionDone \/ ExtractionFailed
           \/ IngestDone \/ IngestRaised \/ Retry
           \/ Tick \/ UNCHANGED vars
BY DEF Next, Enqueue, EnqueueExtraction, Lifespan, Consumer

\* Every variable keeps its type.
LEMMA TypeStep ==
    ASSUME TypeOK, LoopOK, [Next]_vars
    PROVE  TypeOK'
<1>1. ASSUME NEW j \in Job, NEW k \in {"ingest", "extraction"}, NEW b \in SUBSET Entity,
             Accept(j, k, b)
      PROVE  TypeOK'
  BY <1>1 DEF TypeOK, Accept, Register, loopVars, stopVars
<1>2. ASSUME NEW j \in Job, NEW k \in {"ingest", "extraction"}, NEW b \in SUBSET Entity,
             Refuse(j, k, b)
      PROVE  TypeOK'
  BY <1>2 DEF TypeOK, Refuse, Register, loopVars, stopVars, Terminal
<1>3. CASE Start \/ StopCalled \/ StopJoined
  BY <1>3 DEF TypeOK, Start, StopCalled, StopJoined, jobVars, loopVars, history
<1>4. CASE StopTimedOut
  BY <1>4 DEF TypeOK, LoopOK, StopTimedOut, Written, jobVars, history
<1>5. CASE Take
  <2>1. queue \in Seq(Job) /\ queue # <<>>
    BY <1>5 DEF TypeOK, Take
  <2>2. Head(queue) \in Job /\ Tail(queue) \in Seq(Job) /\ Len(Tail(queue)) = Len(queue) - 1
    BY <2>1
  <2>3. queue' \in Seq(Job) /\ Len(queue') <= MaxSize
    BY <1>5, <2>2 DEF TypeOK, Take
  <2>4. /\ cur' \in Job \cup {NoJob}
        /\ pc' \in {"top", "waiting", "extracting", "ingesting", "sleeping"}
        /\ attempt' \in 1..MaxRetries
    BY <1>5, <2>2 DEF Take
  <2>5. status' \in [Job -> {"absent", "queued", "running"} \cup Terminal]
    BY <1>5 DEF TypeOK, Take
  <2>6. UNCHANGED <<kind, entities, retries, created_at, completed_at, task,
                    stopVars, graph, now, history>>
    BY <1>5 DEF Take
  <2> QED BY <2>3, <2>4, <2>5, <2>6 DEF TypeOK, stopVars, history
<1>6. CASE Wait \/ GetTimedOut \/ DrainedExit
  BY <1>6 DEF TypeOK, Wait, GetTimedOut, DrainedExit, jobVars, stopVars, history
<1>6a. CASE Retry
  <2>1. attempt' \in 1..MaxRetries
    BY <1>6a DEF TypeOK, LoopOK, Retry, At
  <2> QED BY <1>6a, <2>1 DEF TypeOK, Retry, jobVars, stopVars, history
<1>7. CASE ExtractionDone
  <2>1. entities' \in [Job -> SUBSET Entity]
    BY <1>7 DEF TypeOK, ExtractionDone
  <2>2. pc' \in {"top", "waiting", "extracting", "ingesting", "sleeping"}
    BY <1>7 DEF ExtractionDone
  <2> QED BY <1>7, <2>1, <2>2 DEF TypeOK, ExtractionDone, stopVars, history
<1>8. ASSUME NEW s \in Terminal, Finish(s), retries' \in [Job -> 0..MaxRetries],
             graph' \in {graph, Written(cur)}, cur \in Job
      PROVE  TypeOK'
  BY <1>8 DEF TypeOK, Finish, Stale, Written, Terminal, stopVars
<1>9. CASE ExtractionFailed
  BY <1>9, <1>8 DEF TypeOK, LoopOK, ExtractionFailed, At, Terminal
<1>10. CASE IngestDone
  BY <1>10, <1>8 DEF TypeOK, LoopOK, IngestDone, At, Terminal
<1>11. CASE IngestRaised
  <2>1. cur \in Job /\ retries' \in [Job -> 0..MaxRetries]
    BY <1>11 DEF TypeOK, LoopOK, IngestRaised, At
  <2>2. CASE attempt < MaxRetries
    BY <1>11, <2>1, <2>2 DEF TypeOK, IngestRaised, Written, stopVars, history
  <2>3. CASE ~ attempt < MaxRetries
    BY <1>11, <2>1, <2>3, <1>8 DEF IngestRaised, Terminal
  <2> QED BY <2>2, <2>3
<1>12. CASE Tick
  BY <1>12 DEF TypeOK, Tick, jobVars, loopVars, stopVars, history
<1>13. CASE UNCHANGED vars
  BY <1>13 DEF TypeOK, vars, jobVars, loopVars, stopVars, history
<1> QED
  BY StepCases, <1>1, <1>2, <1>3, <1>4, <1>5, <1>6, <1>6a, <1>7, <1>9, <1>10, <1>11, <1>12, <1>13

-----------------------------------------------------------------------------
\* The loop's bookkeeping: a job in hand exactly between get() and its outcome.
LEMMA LoopStep ==
    ASSUME TypeOK, LoopOK, [Next]_vars
    PROVE  LoopOK'
<1>1. ASSUME NEW j \in Job, NEW k \in {"ingest", "extraction"}, NEW b \in SUBSET Entity,
             Accept(j, k, b) \/ Refuse(j, k, b)
      PROVE  LoopOK'
  BY <1>1 DEF LoopOK, Accept, Refuse, loopVars
<1>2. CASE Start \/ StopCalled \/ StopJoined \/ StopTimedOut \/ Tick \/ UNCHANGED vars
  BY <1>2 DEF LoopOK, Start, StopCalled, StopJoined, StopTimedOut, Tick, vars, loopVars
<1>3. CASE Take
  <2>1. Head(queue) \in Job
    BY <1>3 DEF TypeOK, Take
  <2> QED BY <1>3, <2>1 DEF LoopOK, Take
<1>4. CASE Wait \/ GetTimedOut \/ DrainedExit \/ ExtractionDone \/ Retry
  BY <1>4 DEF LoopOK, At, Wait, GetTimedOut, DrainedExit, ExtractionDone, Retry
<1>5. CASE ExtractionFailed \/ IngestDone \/ IngestRaised
  BY <1>5 DEF LoopOK, At, ExtractionFailed, IngestDone, IngestRaised, Finish
<1> QED
  BY StepCases, <1>1, <1>2, <1>3, <1>4, <1>5

\* The two ends of the queue.
LEMMA AppendFacts ==
    ASSUME NEW S, NEW q \in Seq(S), NEW x \in S
    PROVE  /\ Len(Append(q, x)) = Len(q) + 1
           /\ \A m \in 1..Len(q) : Append(q, x)[m] = q[m]
           /\ Append(q, x)[Len(q) + 1] = x
           /\ \A m \in 1..Len(q) : q[m] \in S
OBVIOUS

LEMMA TailFacts ==
    ASSUME NEW S, NEW q \in Seq(S), q # <<>>
    PROVE  /\ Len(q) \in Nat \ {0}
           /\ Len(Tail(q)) = Len(q) - 1
           /\ \A m \in 1..Len(q) - 1 : Tail(q)[m] = q[m + 1]
           /\ Head(q) = q[1]
           /\ \A m \in 1..Len(q) : q[m] \in S
OBVIOUS

\* The statuses a poller reads match the queue and the loop after every step.
LEMMA StatusStep ==
    ASSUME TypeOK, LoopOK, QueueMatchesStatus, RunningIsHeld, [Next]_vars
    PROVE  QueueMatchesStatus' /\ RunningIsHeld'
<1>1. ASSUME NEW j \in Job, NEW k \in {"ingest", "extraction"}, NEW b \in SUBSET Entity,
             Accept(j, k, b)
      PROVE  QueueMatchesStatus' /\ RunningIsHeld'
  <2>1. /\ status' = [status EXCEPT ![j] = "queued"] /\ queue' = Append(queue, j)
        /\ cur' = cur /\ status[j] = "absent"
    BY <1>1 DEF Accept, Register, Fresh, loopVars
  <2>2. /\ Len(queue') = Len(queue) + 1
        /\ \A m \in 1..Len(queue) : queue'[m] = queue[m]
        /\ queue'[Len(queue) + 1] = j
        /\ Len(queue) \in Nat
    BY <2>1, AppendFacts DEF TypeOK
  <2>3. \A m \in 1..Len(queue) : queue[m] # j
    BY <2>1 DEF QueueMatchesStatus, Queued
  <2>4. Queued' = Queued \cup {j}
    BY <2>2 DEF Queued
  <2>5. QueueMatchesStatus'
    <3>1. \A i \in Job : status'[i] = IF i = j THEN "queued" ELSE status[i]
      BY <2>1 DEF TypeOK
    <3>2. \A i \in Job : status'[i] = "queued" <=> i \in Queued'
      BY <2>4, <3>1 DEF QueueMatchesStatus
    <3>3. ASSUME NEW m \in 1..Len(queue'), NEW n \in 1..Len(queue'), m # n
          PROVE  queue'[m] # queue'[n]
      BY <2>2, <2>3, <3>3 DEF QueueMatchesStatus
    <3> QED BY <3>2, <3>3 DEF QueueMatchesStatus
  <2>6. RunningIsHeld'
    BY <2>1 DEF RunningIsHeld, TypeOK
  <2> QED BY <2>5, <2>6
<1>2. ASSUME NEW j \in Job, NEW k \in {"ingest", "extraction"}, NEW b \in SUBSET Entity,
             Refuse(j, k, b)
      PROVE  QueueMatchesStatus' /\ RunningIsHeld'
  BY <1>2 DEF QueueMatchesStatus, Queued, RunningIsHeld, TypeOK, Refuse, Register, Fresh,
              loopVars
<1>3. CASE Take
  <2>1. /\ queue # <<>> /\ queue \in Seq(Job) /\ queue' = Tail(queue)
        /\ status' = [status EXCEPT ![Head(queue)] = "running"]
        /\ cur' = Head(queue) /\ cur = NoJob
    BY <1>3 DEF Take, TypeOK, LoopOK
  <2>2. /\ Len(queue) \in Nat \ {0} /\ Len(queue') = Len(queue) - 1
        /\ \A m \in 1..Len(queue) - 1 : queue'[m] = queue[m + 1]
        /\ Head(queue) = queue[1] /\ Head(queue) \in Job
    BY <2>1, TailFacts
  <2>3. Queued = Queued' \cup {Head(queue)} /\ Head(queue) \notin Queued'
    <3>1. Queued \subseteq Queued' \cup {Head(queue)}
      <4> SUFFICES ASSUME NEW m \in 1..Len(queue), m # 1
                   PROVE  queue[m] \in Queued'
        BY <2>2 DEF Queued
      <4>1. m - 1 \in 1..Len(queue') /\ queue'[m - 1] = queue[m]
        BY <2>2
      <4> QED BY <4>1 DEF Queued
    <3>2. Queued' \cup {Head(queue)} \subseteq Queued
      BY <2>2 DEF Queued
    <3>3. Head(queue) \notin Queued'
      BY <2>2 DEF Queued, QueueMatchesStatus
    <3> QED BY <3>1, <3>2, <3>3
  <2>4. QueueMatchesStatus'
    BY <2>1, <2>2, <2>3 DEF QueueMatchesStatus, TypeOK
  <2>5. RunningIsHeld'
    BY <2>1, <2>2 DEF RunningIsHeld, TypeOK
  <2> QED BY <2>4, <2>5
<1>4. ASSUME NEW s \in Terminal, Finish(s), cur \in Job
      PROVE  QueueMatchesStatus' /\ RunningIsHeld'
  <2>1. queue' = queue /\ cur' = NoJob
    BY <1>4 DEF Finish
  <2>1a. ASSUME NEW j \in Job
         PROVE  \/ status'[j] = status[j] /\ j # cur
                \/ status'[j] = "absent" /\ (status[j] \in Terminal \/ j = cur)
                \/ j = cur /\ status'[j] = s
    <3>1. [status EXCEPT ![cur] = s][j] = IF j = cur THEN s ELSE status[j]
      BY DEF TypeOK
    <3>2. status'[j] \in {"absent", [status EXCEPT ![cur] = s][j]}
      BY <1>4 DEF Finish
    <3>3. status'[j] # [status EXCEPT ![cur] = s][j] =>
             [status EXCEPT ![cur] = s][j] \in Terminal
      BY <1>4 DEF Finish, Stale
    <3>4. CASE j = cur
      BY <3>1, <3>2, <3>4
    <3>5. CASE j # cur
      BY <3>1, <3>2, <3>3, <3>5
    <3> QED BY <3>4, <3>5
  <2>2. status[cur] = "running"
    BY <1>4 DEF RunningIsHeld
  <2>3. \A j \in Job : status'[j] = "queued" <=> status[j] = "queued"
    BY <1>4, <2>1a, <2>2 DEF Terminal
  <2>4. \A j \in Job : status'[j] # "running"
    BY <1>4, <2>1a, <2>2 DEF Terminal, RunningIsHeld
  <2>5. cur' \notin Job
    BY <2>1
  <2> QED BY <2>1, <2>3, <2>4, <2>5 DEF QueueMatchesStatus, RunningIsHeld, Queued
<1>5. CASE ExtractionFailed \/ IngestDone \/ IngestRaised
  <2>1. cur \in Job
    BY <1>5 DEF ExtractionFailed, IngestDone, IngestRaised, At, LoopOK, TypeOK
  <2>2. CASE \E s \in Terminal : Finish(s)
    BY <2>1, <2>2, <1>4
  <2>3. CASE UNCHANGED <<status, queue, cur>>
    BY <2>3 DEF QueueMatchesStatus, RunningIsHeld, Queued
  <2> QED BY <1>5, <2>2, <2>3 DEF ExtractionFailed, IngestDone, IngestRaised, Terminal
<1>6. CASE \/ Start \/ StopCalled \/ StopJoined \/ StopTimedOut \/ Tick \/ UNCHANGED vars
           \/ Wait \/ GetTimedOut \/ DrainedExit \/ ExtractionDone \/ Retry
  <2>1. UNCHANGED <<status, queue, cur>>
    BY <1>6 DEF Start, StopCalled, StopJoined, StopTimedOut, Tick, vars, Wait, GetTimedOut,
                DrainedExit, ExtractionDone, Retry, jobVars, loopVars
  <2> QED BY <2>1 DEF QueueMatchesStatus, RunningIsHeld, Queued
<1> QED
  BY StepCases, <1>1, <1>2, <1>3, <1>5, <1>6

-----------------------------------------------------------------------------
\* The times a job carries agree, and a uuid that was used is not fresh.
LEMMA EndedStep ==
    ASSUME TypeOK, LoopOK, EndedOK, FreshIsUnordered, QueueMatchesStatus, RunningIsHeld,
           [Next]_vars
    PROVE  EndedOK' /\ FreshIsUnordered'
<1>1. ASSUME NEW j \in Job, NEW k \in {"ingest", "extraction"}, NEW b \in SUBSET Entity,
             Accept(j, k, b) \/ Refuse(j, k, b)
      PROVE  EndedOK' /\ FreshIsUnordered'
  <2>1. status[j] = "absent" /\ ended_at[j] = NoTime /\ completed_at' = completed_at
    BY <1>1 DEF Accept, Refuse, Register, Fresh
  <2>2. completed_at[j] = NoTime /\ arrival[j] = 0
    BY <2>1 DEF EndedOK, FreshIsUnordered
  <2>3. CASE Accept(j, k, b)
    <3>1. /\ \A i \in Job : status'[i] = IF i = j THEN "queued" ELSE status[i]
          /\ \A i \in Job : i # j => arrival'[i] = arrival[i]
          /\ ended_at' = ended_at
      BY <2>3 DEF Accept, TypeOK
    <3> QED BY <2>1, <3>1 DEF EndedOK, FreshIsUnordered, Terminal
  <2>4. CASE Refuse(j, k, b)
    <3>1. /\ \A i \in Job : status'[i] = IF i = j THEN "failed" ELSE status[i]
          /\ \A i \in Job : ended_at'[i] = IF i = j THEN now ELSE ended_at[i]
          /\ arrival' = arrival /\ now # NoTime
      BY <2>4 DEF Refuse, TypeOK, NoTime
    <3> QED BY <2>1, <2>2, <3>1 DEF EndedOK, FreshIsUnordered, Terminal
  <2> QED BY <1>1, <2>3, <2>4
<1>2. CASE Take
  <2>1. Head(queue) \in Job
    BY <1>2 DEF Take, TypeOK
  <2>2. /\ \A i \in Job : status'[i] = IF i = Head(queue) THEN "running" ELSE status[i]
        /\ UNCHANGED <<completed_at, ended_at, arrival>>
    BY <1>2, <2>1 DEF Take, TypeOK, history
  <2> QED BY <2>2 DEF EndedOK, FreshIsUnordered, Terminal
<1>3. ASSUME NEW s \in Terminal, Finish(s), cur \in Job
      PROVE  EndedOK' /\ FreshIsUnordered'
  <2>1. /\ \A i \in Job : completed_at'[i] = IF i = cur THEN now ELSE completed_at[i]
        /\ \A i \in Job : ended_at'[i] = IF i = cur THEN now ELSE ended_at[i]
        /\ arrival' = arrival /\ now # NoTime
    BY <1>3 DEF Finish, TypeOK, NoTime
  <2>2. \A i \in Job : i # cur => status'[i] \in {status[i], "absent"}
    BY <1>3 DEF Finish, TypeOK
  <2>3. \A i \in Job : i # cur /\ status'[i] # status[i] => status[i] \in Terminal
    BY <1>3 DEF Finish, Stale, TypeOK
  <2> QED BY <2>1, <2>2, <2>3 DEF EndedOK, FreshIsUnordered, Terminal
<1>4. CASE ExtractionFailed \/ IngestDone \/ IngestRaised
  <2>1. cur \in Job
    BY <1>4 DEF ExtractionFailed, IngestDone, IngestRaised, At, LoopOK, TypeOK
  <2>2. CASE \E s \in Terminal : Finish(s)
    BY <2>1, <2>2, <1>3
  <2>3. CASE UNCHANGED <<status, completed_at, history>>
    BY <2>3 DEF EndedOK, FreshIsUnordered, history
  <2> QED BY <1>4, <2>2, <2>3 DEF ExtractionFailed, IngestDone, IngestRaised, Terminal
<1>5. CASE \/ Start \/ StopCalled \/ StopJoined \/ StopTimedOut \/ Tick \/ UNCHANGED vars
           \/ Wait \/ GetTimedOut \/ DrainedExit \/ ExtractionDone \/ Retry
  <2>1. UNCHANGED <<status, completed_at, ended_at, arrival>>
    BY <1>5 DEF Start, StopCalled, StopJoined, StopTimedOut, Tick, vars, Wait, GetTimedOut,
                DrainedExit, ExtractionDone, Retry, jobVars, history
  <2> QED BY <2>1 DEF EndedOK, FreshIsUnordered
<1> QED
  BY StepCases, <1>1, <1>2, <1>4, <1>5

-----------------------------------------------------------------------------
\* Steps that leave the line of jobs alone, or only end the current one.
LEMMA LineKept ==
    ASSUME InLine, UNCHANGED <<arrival, arrivals, queue, graph>>, cur' \in {cur, NoJob}
    PROVE  InLine'
BY DEF InLine

\* Writing the current batch keeps every writer ahead of the queue.
LEMMA LineWritten ==
    ASSUME TypeOK, InLine, cur \in Job, UNCHANGED <<arrival, arrivals, queue>>,
           cur' \in {cur, NoJob}, graph' \in {graph, Written(cur)}
    PROVE  InLine'
<1>1. \A e \in Entity : graph'[e] \in {graph[e], cur}
  BY DEF TypeOK, Written
<1> QED BY <1>1 DEF InLine

\* The line of accepted jobs stays in order.
LEMMA LineStep ==
    ASSUME Inv, [Next]_vars
    PROVE  InLine'
<1> USE DEF Inv
<1>1. ASSUME NEW j \in Job, NEW k \in {"ingest", "extraction"}, NEW b \in SUBSET Entity,
             Accept(j, k, b)
      PROVE  InLine'
  <2>1. /\ queue' = Append(queue, j) /\ cur' = cur /\ graph' = graph
        /\ arrivals' = arrivals + 1 /\ arrivals \in Nat
        /\ \A i \in Job : arrival'[i] = IF i = j THEN arrivals + 1 ELSE arrival[i]
        /\ status[j] = "absent" /\ arrival[j] = 0
    BY <1>1 DEF Accept, Register, Fresh, FreshIsUnordered, loopVars, TypeOK
  <2>2. /\ Len(queue') = Len(queue) + 1 /\ Len(queue) \in Nat
        /\ \A m \in 1..Len(queue) : queue'[m] = queue[m] /\ queue[m] \in Job
        /\ queue'[Len(queue) + 1] = j
    BY <2>1, AppendFacts DEF TypeOK
  <2>3. \A i \in Job : arrival[i] <= arrivals /\ arrival[i] \in Nat
    BY DEF InLine, TypeOK
  <2>4. \A m \in 1..Len(queue) : queue[m] # j
    BY <2>1, <2>2 DEF InLine
  <2>5. \A i \in Job : arrival'[i] <= arrivals'
    BY <2>1, <2>3
  <2>6. \A m \in 1..Len(queue') : arrival'[queue'[m]] > 0
    BY <2>1, <2>2, <2>4 DEF InLine
  <2>7. ASSUME NEW m \in 1..Len(queue'), NEW n \in 1..Len(queue'), m < n
        PROVE  arrival'[queue'[m]] < arrival'[queue'[n]]
    <3>1. m \in 1..Len(queue) /\ arrival'[queue'[m]] = arrival[queue[m]]
      BY <2>1, <2>2, <2>4, <2>7
    <3>2. CASE n = Len(queue) + 1
      BY <2>1, <2>2, <2>3, <3>1, <3>2
    <3>3. CASE n \in 1..Len(queue)
      BY <2>1, <2>2, <2>4, <2>7, <3>1, <3>3 DEF InLine
    <3> QED BY <2>2, <3>2, <3>3
  <2>8. ASSUME NEW i \in Job, arrival[i] > 0,
               \A m \in 1..Len(queue) : arrival[i] < arrival[queue[m]]
        PROVE  arrival'[i] > 0 /\ \A m \in 1..Len(queue') : arrival'[i] < arrival'[queue'[m]]
    <3>1. arrival'[i] = arrival[i]
      BY <2>1, <2>8
    <3>2. \A m \in 1..Len(queue) : arrival'[queue'[m]] = arrival[queue[m]]
      BY <2>1, <2>2, <2>4
    <3>3. arrival'[queue'[Len(queue) + 1]] = arrivals + 1
      BY <2>1, <2>2
    <3>4. arrival[i] < arrivals + 1
      BY <2>1, <2>3
    <3> QED BY <2>2, <2>8, <3>1, <3>2, <3>3, <3>4
  <2>9. cur' # NoJob => /\ arrival'[cur'] > 0
                        /\ \A m \in 1..Len(queue') : arrival'[cur'] < arrival'[queue'[m]]
    BY <2>1, <2>8 DEF InLine, TypeOK
  <2>10. ASSUME NEW e \in Entity, graph'[e] # NoJob
         PROVE  /\ arrival'[graph'[e]] > 0
                /\ \A m \in 1..Len(queue') : arrival'[graph'[e]] < arrival'[queue'[m]]
                /\ cur' # NoJob => graph'[e] = cur' \/ arrival'[graph'[e]] < arrival'[cur']
    <3>1. graph[e] \in Job /\ graph[e] # j /\ cur # j
      BY <2>1, <2>10 DEF InLine, TypeOK
    <3>2. arrival[graph[e]] > 0 /\ \A m \in 1..Len(queue) : arrival[graph[e]] < arrival[queue[m]]
      BY <2>1, <2>10 DEF InLine
    <3>3. cur # NoJob => graph[e] = cur \/ arrival[graph[e]] < arrival[cur]
      BY <2>1, <2>10 DEF InLine
    <3> QED BY <2>1, <2>8, <3>1, <3>2, <3>3 DEF TypeOK
  <2> QED BY <2>5, <2>6, <2>7, <2>9, <2>10 DEF InLine
<1>2. ASSUME NEW j \in Job, NEW k \in {"ingest", "extraction"}, NEW b \in SUBSET Entity,
             Refuse(j, k, b)
      PROVE  InLine'
  BY <1>2, LineKept DEF Refuse, loopVars
<1>3. CASE Take
  <2>1. /\ queue # <<>> /\ queue \in Seq(Job) /\ queue' = Tail(queue)
        /\ cur' = Head(queue) /\ UNCHANGED <<arrival, arrivals, graph>>
    BY <1>3 DEF Take, TypeOK, history
  <2>2. /\ Len(queue) \in Nat \ {0} /\ Len(queue') = Len(queue) - 1
        /\ \A m \in 1..Len(queue) - 1 : queue'[m] = queue[m + 1]
        /\ Head(queue) = queue[1] /\ Head(queue) \in Job
    BY <2>1, TailFacts
  <2>3. \A m \in 1..Len(queue') : m + 1 \in 1..Len(queue) /\ queue'[m] = queue[m + 1]
    BY <2>2
  <2>4. arrival'[cur'] > 0 /\ \A m \in 1..Len(queue') : arrival'[cur'] < arrival'[queue'[m]]
    BY <2>1, <2>2, <2>3 DEF InLine
  <2>5. \A m, n \in 1..Len(queue') : m < n => arrival'[queue'[m]] < arrival'[queue'[n]]
    BY <2>1, <2>3 DEF InLine
  <2>6. ASSUME NEW e \in Entity, graph'[e] # NoJob
        PROVE  /\ arrival'[graph'[e]] > 0
               /\ \A m \in 1..Len(queue') : arrival'[graph'[e]] < arrival'[queue'[m]]
               /\ arrival'[graph'[e]] < arrival'[cur']
    BY <2>1, <2>2, <2>3, <2>6 DEF InLine
  <2> QED BY <2>1, <2>3, <2>4, <2>5, <2>6 DEF InLine
<1>4. CASE StopTimedOut
  <2>1. UNCHANGED <<arrival, arrivals, queue, cur>>
    BY <1>4 DEF StopTimedOut, history
  <2>2. CASE graph' = graph
    BY <2>1, <2>2, LineKept
  <2>3. CASE pc = "ingesting" /\ graph' = Written(cur)
    BY <2>1, <2>3, LineWritten DEF LoopOK, TypeOK
  <2> QED BY <1>4, <2>2, <2>3 DEF StopTimedOut
<1>5. CASE ExtractionFailed \/ IngestDone \/ IngestRaised
  <2>1. cur \in Job
    BY <1>5 DEF ExtractionFailed, IngestDone, IngestRaised, At, LoopOK, TypeOK
  <2>2. UNCHANGED <<arrival, arrivals, queue>> /\ cur' \in {cur, NoJob}
    BY <1>5 DEF ExtractionFailed, IngestDone, IngestRaised, Finish, history
  <2>3. graph' \in {graph, Written(cur)}
    BY <1>5 DEF ExtractionFailed, IngestDone, IngestRaised
  <2> QED BY <2>1, <2>2, <2>3, LineWritten
<1>6. CASE \/ Start \/ StopCalled \/ StopJoined \/ Tick \/ UNCHANGED vars
           \/ Wait \/ GetTimedOut \/ DrainedExit \/ ExtractionDone \/ Retry
  <2>1. UNCHANGED <<arrival, arrivals, queue, graph, cur>>
    BY <1>6 DEF Start, StopCalled, StopJoined, Tick, vars, Wait, GetTimedOut,
                DrainedExit, ExtractionDone, Retry, loopVars, history
  <2> QED BY <2>1, LineKept
<1> QED
  BY StepCases, <1>1, <1>2, <1>3, <1>4, <1>5, <1>6

-----------------------------------------------------------------------------
\* The inductive invariant holds throughout.
THEOREM Invariance == Spec => []Inv
<1>1. ASSUME Init PROVE Inv
  <2>1. TypeOK
    <3>1. queue \in Seq(Job) /\ Len(queue) <= MaxSize
      BY <1>1 DEF Init
    <3>2. 0 \in 0..MaxRetries /\ 1 \in 1..MaxRetries
      OBVIOUS
    <3> QED BY <1>1, <3>1, <3>2 DEF Init, TypeOK, NoTime
  <2>2. Len(queue) = 0 /\ Queued = {}
    BY <1>1 DEF Init, Queued
  <2>3. LoopOK /\ EndedOK /\ FreshIsUnordered /\ RunningIsHeld
    BY <1>1 DEF Init, LoopOK, EndedOK, FreshIsUnordered, RunningIsHeld, Terminal
  <2>4. QueueMatchesStatus /\ InLine
    BY <1>1, <2>2 DEF Init, QueueMatchesStatus, InLine
  <2> QED BY <2>1, <2>3, <2>4 DEF Inv
<1>2. Inv /\ [Next]_vars => Inv'
  BY TypeStep, LoopStep, StatusStep, EndedStep, LineStep DEF Inv
<1> QED BY <1>1, <1>2, PTL DEF Spec

\* Every variable of the worker keeps its type, and the queue its bound.
THEOREM TypeCorrect == Spec => []TypeOK
BY Invariance, PTL DEF Inv

\* No job is stranded or queued twice: what a poller reads as QUEUED is in the
\* queue once, and what it reads as RUNNING is in the consumer's hands.
THEOREM NoJobStranded == Spec => []JobsConsistent
BY Invariance, PTL DEF Inv, JobsConsistent

\* A batch written by a retry or by an attempt whose answer was lost never
\* replaces what a job accepted later wrote.
THEOREM WritesInOrder == Spec => LatestWins
<1>1. ASSUME Inv, [Next]_vars, NEW e \in Entity, graph'[e] # graph[e]
      PROVE  graph[e] = NoJob \/ arrival[graph[e]] < arrival[graph'[e]]
  <2>1. CASE StopTimedOut \/ IngestDone \/ IngestRaised
    <3>1. cur \in Job /\ graph'[e] \in {graph[e], cur}
      BY <1>1, <2>1 DEF StopTimedOut, IngestDone, IngestRaised, Written, At, Inv, LoopOK, TypeOK
    <3> QED BY <1>1, <3>1 DEF Inv, InLine, TypeOK
  <2>2. CASE graph' = graph
    BY <1>1, <2>2
  <2> QED
    BY <1>1, <2>1, <2>2, StepCases DEF Accept, Refuse, Start, StopCalled, StopJoined, Take, Wait,
       GetTimedOut, DrainedExit, ExtractionDone, ExtractionFailed, Retry, Tick, vars
<1>2. Inv /\ [Next]_vars =>
        [\A e \in Entity : graph'[e] # graph[e] =>
            graph[e] = NoJob \/ arrival[graph[e]] < arrival[graph'[e]]]_vars
  BY <1>1
<1> QED BY <1>2, Invariance, PTL DEF Spec, LatestWins

\* A job can be polled for more than the retention window after it ended.
THEOREM OutcomesStayReadable == Spec => OutcomeRetained
<1>1. ASSUME Inv, [Next]_vars, NEW j \in Job, status[j] # "absent", status'[j] = "absent"
      PROVE  status[j] \in Terminal /\ now - ended_at[j] > Retention
  <2>1. CASE cur \in Job /\ \E s \in Terminal : Finish(s)
    <3>1. PICK s \in Terminal : Finish(s)
      BY <2>1
    <3>2. j \in Stale([status EXCEPT ![cur] = s], [completed_at EXCEPT ![cur] = now])
      BY <1>1, <3>1 DEF Finish, Inv, TypeOK, Terminal
    <3>3. j # cur
      BY <1>1, <2>1, <3>2 DEF Stale, Inv, TypeOK
    <3>4. status[j] \in Terminal /\ completed_at[j] # NoTime /\ completed_at[j] < now - Retention
      BY <3>2, <3>3 DEF Stale, Inv, TypeOK
    <3> QED BY <1>1, <3>4 DEF Inv, EndedOK, TypeOK, NoTime
  <2>2. CASE status' = status
    BY <1>1, <2>2
  <2>3. CASE Take
    BY <1>1, <2>3 DEF Take, Inv, TypeOK
  <2>4. ASSUME NEW i \in Job, NEW k \in {"ingest", "extraction"}, NEW b \in SUBSET Entity,
               Accept(i, k, b) \/ Refuse(i, k, b)
        PROVE  FALSE
    BY <1>1, <2>4 DEF Accept, Refuse, Inv, TypeOK
  <2>5. CASE ExtractionFailed \/ IngestDone \/ IngestRaised
    <3>1. cur \in Job
      BY <1>1, <2>5 DEF ExtractionFailed, IngestDone, IngestRaised, At, Inv, LoopOK, TypeOK
    <3> QED BY <2>1, <2>2, <2>5, <3>1 DEF ExtractionFailed, IngestDone, IngestRaised, Terminal
  <2> QED
    BY <1>1, <2>2, <2>3, <2>4, <2>5, StepCases DEF Start, StopCalled, StopJoined, StopTimedOut,
       Wait, GetTimedOut, DrainedExit, ExtractionDone, Retry, Tick, vars, jobVars
<1>2. Inv /\ [Next]_vars =>
        [\A j \in Job : status[j] # "absent" /\ status'[j] = "absent" =>
            status[j] \in Terminal /\ now - ended_at[j] > Retention]_vars
  BY <1>1
<1> QED BY <1>2, Invariance, PTL DEF Spec, OutcomeRetained

-----------------------------------------------------------------------------
\* A write of the current batch, or none, keeps what DONE jobs were promised:
\* the current job is the latest that ever wrote.
LEMMA DoneKept ==
    ASSUME Inv, DoneIsStored, UNCHANGED arrival,
           \/ graph' = graph
           \/ cur \in Job /\ graph' = Written(cur),
           NEW j \in Job, status[j] = "done", NEW e \in entities[j]
    PROVE  graph'[e] # NoJob /\ arrival'[graph'[e]] >= arrival'[j]
<1>1. e \in Entity /\ graph[e] # NoJob /\ arrival[graph[e]] >= arrival[j]
  BY DEF DoneIsStored, Inv, TypeOK
<1>2. CASE graph' = graph
  BY <1>1, <1>2
<1>3. CASE cur \in Job /\ graph' = Written(cur)
  <2>1. graph'[e] \in {graph[e], cur} /\ cur # NoJob /\ graph[e] \in Job
    BY <1>1, <1>3 DEF Written, Inv, TypeOK
  <2>2. graph[e] = cur \/ arrival[graph[e]] < arrival[cur]
    BY <1>1, <2>1 DEF Inv, InLine
  <2>3. arrival[cur] \in Nat /\ arrival[j] \in Nat /\ arrival[graph[e]] \in Nat
    BY <1>3, <2>1 DEF Inv, TypeOK
  <2> QED BY <1>1, <2>1, <2>2, <2>3
<1> QED BY <1>2, <1>3

\* The promise of a DONE status survives every step.
LEMMA DoneStep ==
    ASSUME Inv, DoneIsStored, [Next]_vars
    PROVE  DoneIsStored'
<1> SUFFICES ASSUME NEW j \in Job, status'[j] = "done", NEW e \in entities'[j]
             PROVE  graph'[e] # NoJob /\ arrival'[graph'[e]] >= arrival'[j]
  BY DEF DoneIsStored
<1>1. ASSUME NEW i \in Job, NEW k \in {"ingest", "extraction"}, NEW b \in SUBSET Entity,
             Accept(i, k, b) \/ Refuse(i, k, b)
      PROVE  graph'[e] # NoJob /\ arrival'[graph'[e]] >= arrival'[j]
  <2>1. i # j /\ status[j] = "done" /\ e \in entities[j] /\ graph' = graph
    BY <1>1 DEF Accept, Refuse, Register, Inv, TypeOK
  <2>2. e \in Entity /\ graph[e] \in Job /\ arrival[graph[e]] >= arrival[j]
    BY <2>1 DEF DoneIsStored, Inv, TypeOK
  <2>3. arrival'[j] = arrival[j]
    BY <1>1, <2>1 DEF Accept, Refuse, Inv, TypeOK
  <2>4. /\ arrival[graph[e]] \in Nat /\ arrival[j] \in Nat /\ arrivals \in Nat
        /\ arrival[graph[e]] <= arrivals
    BY <2>2 DEF Inv, InLine, TypeOK
  <2>5. arrival'[graph[e]] \in {arrival[graph[e]], arrivals + 1}
    BY <1>1, <2>2 DEF Accept, Refuse, Inv, TypeOK
  <2> QED BY <2>1, <2>2, <2>3, <2>4, <2>5
<1>2. CASE IngestDone \/ IngestRaised \/ ExtractionFailed
  <2>1. cur \in Job /\ graph' \in {graph, Written(cur)} /\ arrival' = arrival
        /\ entities' = entities
    BY <1>2 DEF IngestDone, IngestRaised, ExtractionFailed, Finish, At, Inv, LoopOK, TypeOK, history
  <2>2. CASE status[j] = "done"
    BY <2>1, <2>2, DoneKept
  <2>3. CASE status[j] # "done"
    <3>1. j = cur /\ graph' = Written(cur)
      <4>1. CASE IngestRaised \/ ExtractionFailed
        BY <2>3, <4>1 DEF IngestRaised, ExtractionFailed, Finish, Inv, TypeOK
      <4>2. CASE IngestDone
        BY <2>3, <4>2 DEF IngestDone, Finish, Inv, TypeOK
      <4> QED BY <1>2, <4>1, <4>2
    <3>2. graph'[e] = j /\ arrival[j] \in Nat
      BY <2>1, <3>1 DEF Written, Inv, TypeOK
    <3> QED BY <2>1, <3>2
  <2> QED BY <2>2, <2>3
<1>3. CASE StopTimedOut
  BY <1>3, DoneKept DEF StopTimedOut, jobVars, history, Inv, LoopOK, TypeOK
<1>4. CASE Take
  <2>1. status[j] = "done" /\ entities' = entities /\ graph' = graph /\ arrival' = arrival
    BY <1>4 DEF Take, Inv, TypeOK, history
  <2> QED BY <2>1, DoneKept
<1>5. CASE ExtractionDone
  <2>1. status[j] = "done" /\ graph' = graph /\ arrival' = arrival
    BY <1>5 DEF ExtractionDone, history
  <2>2. status[cur] = "running" /\ cur \in Job
    BY <1>5 DEF ExtractionDone, At, Inv, LoopOK, RunningIsHeld, TypeOK
  <2>3. entities'[j] = entities[j]
    BY <1>5, <2>1, <2>2 DEF ExtractionDone, Inv, TypeOK
  <2> QED BY <2>1, <2>3, DoneKept
<1>6. CASE UNCHANGED <<status, entities, graph, arrival>>
  BY <1>6, DoneKept
<1> QED
  BY <1>1, <1>2, <1>3, <1>4, <1>5, <1>6, StepCases DEF Start, StopCalled, StopJoined, Wait,
     GetTimedOut, DrainedExit, Retry, Tick, vars, jobVars, history

\* A DONE answer is never taken back: the batch of a DONE job is in the graph,
\* as that job or a later one left it.
THEOREM DoneMeansStored == Spec => []DoneIsStored
<1>1. Init => DoneIsStored
  BY DEF Init, DoneIsStored
<1> QED BY <1>1, DoneStep, Invariance, PTL DEF Spec

-----------------------------------------------------------------------------
\* Attempts are counted only while a job is written, and only text is extracted.
AttemptsOK ==
    /\ \A j \in Job : arrival[j] = 0 \/ status[j] = "queued" => retries[j] = 0
    /\ pc = "extracting" => kind[cur] = "extraction" /\ retries[cur] = 0

\* A failed job earned it, and no step makes that untrue.
LEMMA EarnedStep ==
    ASSUME Inv, AttemptsOK, FailureIsEarned, [Next]_vars
    PROVE  AttemptsOK' /\ FailureIsEarned'
<1> USE DEF Inv
<1>1. ASSUME NEW j \in Job, NEW k \in {"ingest", "extraction"}, NEW b \in SUBSET Entity,
             Accept(j, k, b) \/ Refuse(j, k, b)
      PROVE  AttemptsOK' /\ FailureIsEarned'
  <2>1. /\ status[j] = "absent" /\ arrival[j] = 0 /\ cur # j
        /\ UNCHANGED <<retries, pc, cur>>
    BY <1>1 DEF Accept, Refuse, Register, Fresh, FreshIsUnordered, RunningIsHeld, loopVars
  <2>2. /\ \A i \in Job : i # j => /\ status'[i] = status[i] /\ kind'[i] = kind[i]
                                   /\ arrival'[i] = arrival[i]
        /\ status'[j] # "failed" \/ arrival'[j] = 0
    BY <1>1, <2>1 DEF Accept, Refuse, Register, TypeOK
  <2>3. pc = "extracting" => cur \in Job
    BY DEF LoopOK, TypeOK
  <2> QED BY <2>1, <2>2, <2>3 DEF AttemptsOK, FailureIsEarned
<1>2. CASE Take
  <2>1. /\ queue \in Seq(Job) /\ queue # <<>>
        /\ cur' = Head(queue) /\ status' = [status EXCEPT ![Head(queue)] = "running"]
        /\ UNCHANGED <<kind, retries, arrival>>
        /\ pc' = IF kind[Head(queue)] = "extraction" THEN "extracting" ELSE "ingesting"
    BY <1>2 DEF Take, TypeOK, history
  <2>2. Head(queue) \in Job /\ status[Head(queue)] = "queued"
    BY <2>1, TailFacts DEF QueueMatchesStatus, Queued
  <2>3. \A i \in Job : status'[i] = IF i = Head(queue) THEN "running" ELSE status[i]
    BY <2>1, <2>2 DEF TypeOK
  <2> QED BY <2>1, <2>2, <2>3 DEF AttemptsOK, FailureIsEarned
<1>3. ASSUME ExtractionFailed \/ IngestDone \/ IngestRaised
      PROVE  AttemptsOK' /\ FailureIsEarned'
  <2>1. cur \in Job /\ status[cur] = "running" /\ arrival[cur] # 0
    BY <1>3 DEF ExtractionFailed, IngestDone, IngestRaised, At, LoopOK, RunningIsHeld, InLine, TypeOK
  <2>2. /\ UNCHANGED <<kind, arrival>>
        /\ \A i \in Job : i # cur => retries'[i] = retries[i]
    BY <1>3 DEF ExtractionFailed, IngestDone, IngestRaised, Finish, TypeOK, history
  <2>3. ASSUME NEW i \in Job, i # cur
        PROVE  status'[i] \in {status[i], "absent"}
    BY <1>3, <2>3 DEF ExtractionFailed, IngestDone, IngestRaised, Finish, TypeOK
  <2>4. status'[cur] # "queued" /\ pc' # "extracting"
    BY <1>3, <2>1 DEF ExtractionFailed, IngestDone, IngestRaised, Finish, TypeOK
  <2>5. status'[cur] = "failed" =>
           retries'[cur] = MaxRetries \/ (retries'[cur] = 0 /\ kind[cur] = "extraction")
    <3>1. CASE ExtractionFailed
      BY <3>1 DEF ExtractionFailed, At, AttemptsOK
    <3>2. CASE IngestDone
      BY <2>1, <3>2 DEF IngestDone, Finish, TypeOK
    <3>3. CASE IngestRaised
      <4>1. retries'[cur] = attempt
        BY <2>1, <3>3 DEF IngestRaised, TypeOK
      <4>2. CASE attempt < MaxRetries
        BY <2>1, <3>3, <4>2 DEF IngestRaised
      <4>3. CASE ~ attempt < MaxRetries
        BY <4>1, <4>3 DEF TypeOK
      <4> QED BY <4>2, <4>3
    <3> QED BY <1>3, <3>1, <3>2, <3>3
  <2>6. AttemptsOK'
    BY <2>1, <2>2, <2>3, <2>4 DEF AttemptsOK
  <2>7. FailureIsEarned'
    BY <2>2, <2>3, <2>5 DEF FailureIsEarned
  <2> QED BY <2>6, <2>7
<1>4. CASE \/ Start \/ StopCalled \/ StopJoined \/ StopTimedOut \/ Tick \/ UNCHANGED vars
           \/ Wait \/ GetTimedOut \/ DrainedExit \/ ExtractionDone \/ Retry
  <2>1. UNCHANGED <<status, kind, retries, arrival, cur>> /\ pc' \in {pc, "waiting", "top", "ingesting"}
    BY <1>4 DEF Start, StopCalled, StopJoined, StopTimedOut, Tick, vars, Wait, GetTimedOut,
                DrainedExit, ExtractionDone, Retry, jobVars, loopVars, history
  <2> QED BY <2>1 DEF AttemptsOK, FailureIsEarned
<1> QED
  BY StepCases, <1>1, <1>2, <1>3, <1>4

\* A caller reads FAILED only of a job that had all its attempts, whose text could
\* not be extracted, or that the queue refused: stop, eviction and later jobs never
\* fail a job.
THEOREM FailuresAreEarned == Spec => []FailureIsEarned
<1>1. Init => AttemptsOK /\ FailureIsEarned
  BY DEF Init, AttemptsOK, FailureIsEarned
<1>2. Inv /\ AttemptsOK /\ FailureIsEarned /\ [Next]_vars => AttemptsOK' /\ FailureIsEarned'
  BY EarnedStep
<1> QED BY <1>1, <1>2, Invariance, PTL DEF Spec

(***************************************************************************)
(* The worker implements the abstract service.                             *)
(***************************************************************************)
Accepted == {k \in Job : arrival[k] # 0}

\* arrivals counts the accepted jobs.
Counted == IsFiniteSet(Accepted) /\ arrivals = Cardinality(Accepted)

\* Only a job that was accepted is run, so only such a job has a completed_at.
CompletedWasAccepted == \A j \in Job : completed_at[j] # NoTime => arrival[j] # 0

RInv == Inv /\ Counted /\ CompletedWasAccepted

\* A uuid nobody used has no place in the order.
LEMMA FreshIsNew ==
    ASSUME Inv, NEW j \in Job, NEW k, NEW b, Register(j, k, b)
    PROVE  status[j] = "absent" /\ arrival[j] = 0
BY DEF Register, Fresh, Inv, FreshIsUnordered, TypeOK

LEMMA CountedStep ==
    ASSUME RInv, [Next]_vars
    PROVE  Counted'
<1>1. ASSUME NEW j \in Job, NEW k \in {"ingest", "extraction"}, NEW b \in SUBSET Entity,
             Accept(j, k, b)
      PROVE  Counted'
  <2>1. arrival[j] = 0 /\ arrival' = [arrival EXCEPT ![j] = arrivals + 1]
        /\ arrivals' = arrivals + 1 /\ arrivals \in Nat
    BY <1>1, FreshIsNew DEF Accept, RInv, Inv, TypeOK
  <2>2. Accepted' = Accepted \cup {j} /\ j \notin Accepted
    BY <2>1 DEF Accepted, RInv, Inv, TypeOK
  <2>3. IsFiniteSet(Accepted \cup {j}) /\ Cardinality(Accepted \cup {j}) = Cardinality(Accepted) + 1
    BY <2>2, FS_AddElement DEF RInv, Counted
  <2> QED BY <2>1, <2>2, <2>3 DEF RInv, Counted
<1>2. CASE UNCHANGED <<arrival, arrivals>>
  BY <1>2 DEF RInv, Counted, Accepted
<1> QED
  BY <1>1, <1>2, StepCases DEF Refuse, Start, StopCalled, StopJoined, StopTimedOut, Take, Wait,
     GetTimedOut, DrainedExit, ExtractionDone, ExtractionFailed, IngestDone, IngestRaised, Finish,
     Retry, Tick, vars, history

LEMMA CompletedStep ==
    ASSUME RInv, [Next]_vars
    PROVE  CompletedWasAccepted'
<1> USE DEF RInv, Inv
<1>1. ASSUME NEW j \in Job, NEW k \in {"ingest", "extraction"}, NEW b \in SUBSET Entity,
             Accept(j, k, b)
      PROVE  CompletedWasAccepted'
  <2>1. completed_at' = completed_at /\ arrivals \in Nat
        /\ \A i \in Job : arrival'[i] = IF i = j THEN arrivals + 1 ELSE arrival[i]
    BY <1>1 DEF Accept, TypeOK
  <2> QED BY <2>1 DEF CompletedWasAccepted
<1>2. CASE ExtractionFailed \/ IngestDone \/ IngestRaised
  <2>1. cur \in Job /\ arrival[cur] # 0
    BY <1>2 DEF ExtractionFailed, IngestDone, IngestRaised, At, LoopOK, TypeOK, InLine
  <2>2. arrival' = arrival /\ \A i \in Job : i # cur => completed_at'[i] = completed_at[i]
    BY <1>2 DEF ExtractionFailed, IngestDone, IngestRaised, Finish, TypeOK, history
  <2> QED BY <2>1, <2>2 DEF CompletedWasAccepted
<1>3. CASE UNCHANGED <<completed_at, arrival>>
  BY <1>3 DEF CompletedWasAccepted
<1> QED
  BY <1>1, <1>2, <1>3, StepCases DEF Refuse, Start, StopCalled, StopJoined, StopTimedOut, Take,
     Wait, GetTimedOut, DrainedExit, ExtractionDone, Retry, Tick, vars, history, jobVars

\* What the steps of the queue are to a poller.
LEMMA AcceptImplements ==
    ASSUME RInv, NEW j \in Job, NEW kd, NEW b \in SUBSET Entity, Accept(j, kd, b)
    PROVE  Service!Accept(j)
<1>1. status[j] = "absent" /\ arrival[j] = 0
  BY FreshIsNew DEF Accept, RInv
<1>2. arrival' = [arrival EXCEPT ![j] = Cardinality({i \in Job : arrival[i] # 0}) + 1]
  BY DEF Accept, RInv, Counted, Accepted
<1>3. status' = [status EXCEPT ![j] = "queued"] /\ graph' = graph
  BY DEF Accept
<1>4. entities' = [entities EXCEPT ![j] = b]
  BY DEF Accept, Register
<1>5. \E c \in SUBSET Entity : entities' = [entities EXCEPT ![j] = c]
  BY <1>4
<1>6. Cardinality({k \in Job : arrival[k] # 0}) = Service!Cardinality({k \in Job : arrival[k] # 0})
  BY Zenon DEF Cardinality, Service!Cardinality
<1> QED BY <1>1, <1>2, <1>3, <1>5, <1>6, Zenon DEF Service!Accept

LEMMA RefuseImplements ==
    ASSUME RInv, NEW j \in Job, NEW k, NEW b \in SUBSET Entity, Refuse(j, k, b)
    PROVE  Service!Refuse(j)
<1>1. status[j] = "absent" /\ arrival[j] = 0
  BY FreshIsNew DEF Refuse, RInv
<1> QED BY <1>1 DEF Refuse, Register, Service!Refuse

\* The head of the queue is the job that was accepted first.
LEMMA TakeImplements ==
    ASSUME RInv, Take
    PROVE  \E j \in Job : Service!Begin(j)
<1> DEFINE j == Head(queue)
<1> USE DEF RInv, Inv
<1>1. queue \in Seq(Job) /\ queue # <<>>
  BY DEF Take, TypeOK
<1>2. /\ Len(queue) \in Nat \ {0} /\ j = queue[1]
      /\ \A m \in 1..Len(queue) : queue[m] \in Job
  BY <1>1, TailFacts
<1>3. j \in Job /\ status[j] = "queued"
  BY <1>2 DEF QueueMatchesStatus, Queued
<1>4. \A i \in Job : status[i] # "running"
  BY DEF Take, LoopOK, RunningIsHeld
<1>5. ASSUME NEW i \in Job, status[i] = "queued"
      PROVE  arrival[j] <= arrival[i]
  <2>1. PICK m \in 1..Len(queue) : i = queue[m]
    BY <1>5 DEF QueueMatchesStatus, Queued
  <2>2. CASE m = 1
    BY <1>2, <1>3, <2>1, <2>2 DEF TypeOK
  <2>3. CASE m # 1
    <3>1. 1 \in 1..Len(queue) /\ 1 < m
      BY <1>2, <2>1, <2>3
    <3>2. arrival[queue[1]] < arrival[queue[m]]
      BY <2>1, <3>1 DEF InLine
    <3> QED BY <1>2, <1>3, <2>1, <3>2 DEF TypeOK
  <2> QED BY <2>2, <2>3
<1>6. status' = [status EXCEPT ![j] = "running"] /\ UNCHANGED <<entities, arrival, graph>>
  BY DEF Take, history
<1> QED BY <1>3, <1>4, <1>5, <1>6 DEF Service!Begin

\* What the loop holds is running.
LEMMA HeldIsRunning ==
    ASSUME RInv, pc \in {"extracting", "ingesting", "sleeping"}
    PROVE  cur \in Job /\ status[cur] = "running"
BY DEF RInv, Inv, LoopOK, RunningIsHeld, TypeOK

\* A job ends and older outcomes are evicted, none of which was refused.
LEMMA FinishImplements ==
    ASSUME RInv, NEW s \in Terminal, Finish(s), cur \in Job, status[cur] = "running"
    PROVE  Service!End(cur, s)
<1> DEFINE st == [status EXCEPT ![cur] = s]
           done == [completed_at EXCEPT ![cur] = now]
           gone == Stale(st, done)
<1> USE DEF RInv, Inv
<1>1. cur \notin gone
  BY DEF Stale, TypeOK
<1>2. \A i \in Job : i # cur => st[i] = status[i] /\ done[i] = completed_at[i]
  BY DEF TypeOK
<1>3. gone \subseteq {i \in Job : status[i] \in {"done", "failed"} /\ completed_at[i] # NoTime}
  BY <1>1, <1>2 DEF Stale, Terminal
<1>3a. gone \subseteq {i \in Job : status[i] \in {"done", "failed"} /\ arrival[i] # 0}
  BY <1>3 DEF CompletedWasAccepted
<1>4. status' = [i \in Job |-> IF i \in gone THEN "absent" ELSE IF i = cur THEN s ELSE status[i]]
  BY <1>1 DEF Finish, TypeOK
<1>5. UNCHANGED <<entities, arrival>>
  BY DEF Finish
<1> HIDE DEF gone
<1> QED BY <1>3a, <1>4, <1>5 DEF Service!End

\* What the steps of the consumer are to a poller.
LEMMA ConsumerImplements ==
    ASSUME RInv, ExtractionDone \/ ExtractionFailed \/ IngestDone \/ IngestRaised
    PROVE  Service!Next \/ UNCHANGED Service!vars
<1>1. cur \in Job /\ status[cur] = "running"
  BY HeldIsRunning DEF ExtractionDone, ExtractionFailed, IngestDone, IngestRaised, At
<1>2. Written(cur) = Service!Stored(cur)
  BY DEF Written, Service!Stored
<1>3. CASE ExtractionDone
  <2>1. Service!Prepare(cur)
    BY <1>1, <1>3 DEF ExtractionDone, Service!Prepare, history
  <2> QED BY <1>1, <2>1 DEF Service!Next
<1>4. CASE ExtractionFailed
  <2>1. Service!End(cur, "failed")
    BY <1>1, <1>4, FinishImplements DEF ExtractionFailed, Terminal
  <2>2. Service!Fail(cur)
    BY <1>4, <2>1 DEF ExtractionFailed, Service!Fail
  <2> QED BY <1>1, <2>2 DEF Service!Next
<1>5. CASE IngestDone
  <2>1. Service!End(cur, "done")
    BY <1>1, <1>5, FinishImplements DEF IngestDone, Terminal
  <2>2. Service!Complete(cur)
    BY <1>2, <1>5, <2>1 DEF IngestDone, Service!Complete
  <2> QED BY <1>1, <2>2 DEF Service!Next
<1>6. CASE IngestRaised
  <2>1. graph' \in {graph, Service!Stored(cur)}
    BY <1>2, <1>6 DEF IngestRaised
  <2>2. CASE attempt < MaxRetries
    <3>1. UNCHANGED <<status, entities, arrival>>
      BY <1>6, <2>2 DEF IngestRaised, history
    <3>2. CASE graph' = graph
      BY <3>1, <3>2 DEF Service!vars
    <3>3. CASE graph' = Service!Stored(cur)
      BY <1>1, <3>1, <3>3 DEF Service!Write, Service!Next
    <3> QED BY <2>1, <3>2, <3>3
  <2>3. CASE ~ attempt < MaxRetries
    <3>1. Service!End(cur, "failed")
      BY <1>1, <1>6, <2>3, FinishImplements DEF IngestRaised, Terminal
    <3> QED BY <1>1, <2>1, <3>1 DEF Service!Fail, Service!Next
  <2> QED BY <2>2, <2>3
<1> QED BY <1>3, <1>4, <1>5, <1>6

\* A stop that abandons the loop may have let its last write through.
LEMMA StopImplements ==
    ASSUME RInv, StopTimedOut
    PROVE  Service!Next \/ UNCHANGED Service!vars
<1>1. UNCHANGED <<status, entities, arrival>>
  BY DEF StopTimedOut, jobVars, history
<1>2. CASE graph' = graph
  BY <1>1, <1>2 DEF Service!vars
<1>3. CASE pc = "ingesting" /\ graph' = Written(cur)
  <2>1. cur \in Job /\ status[cur] = "running"
    BY <1>3, HeldIsRunning
  <2>2. graph' = Service!Stored(cur)
    BY <1>3 DEF Written, Service!Stored
  <2> QED BY <1>1, <2>1, <2>2 DEF Service!Write, Service!Next
<1> QED BY <1>2, <1>3 DEF StopTimedOut

\* Every step of the worker is a step of the service, or none.
LEMMA StepImplements ==
    ASSUME RInv, [Next]_vars
    PROVE  [Service!Next]_Service!vars
<1>1. ASSUME NEW j \in Job, NEW k \in {"ingest", "extraction"}, NEW b \in SUBSET Entity,
             Accept(j, k, b) \/ Refuse(j, k, b)
      PROVE  Service!Next
  BY <1>1, AcceptImplements, RefuseImplements DEF Service!Next
<1>2. CASE Take
  BY <1>2, TakeImplements DEF Service!Next
<1>3. CASE \/ Start \/ StopCalled \/ StopJoined \/ Wait \/ GetTimedOut \/ DrainedExit
           \/ Retry \/ Tick \/ UNCHANGED vars
  BY <1>3 DEF Start, StopCalled, StopJoined, Wait, GetTimedOut, DrainedExit, Retry, Tick, vars,
     jobVars, history, Service!vars
<1> QED BY <1>1, <1>2, <1>3, ConsumerImplements, StopImplements, StepCases

\* What a poller of the worker and a reader of the graph see is what the service
\* without queue, task and clock may show: whatever callers, the consumer's
\* retries, eviction and stop() do, at any await.
THEOREM WorkerImplementsService == Spec => ImplementsService
<1>1. Init => Counted /\ CompletedWasAccepted
  <2>1. ASSUME Init PROVE Accepted = {} /\ arrivals = 0 /\ CompletedWasAccepted
    BY <2>1 DEF Init, Accepted, CompletedWasAccepted
  <2> QED BY <2>1, FS_EmptySet DEF Counted
<1>2. Spec => []RInv
  <2>1. RInv /\ [Next]_vars => Counted' /\ CompletedWasAccepted'
    BY CountedStep, CompletedStep
  <2> QED BY <1>1, <2>1, Invariance, PTL DEF Spec, RInv
<1>3. Init => Service!Init
  BY DEF Init, Service!Init
<1>4. RInv /\ [Next]_vars => [Service!Next]_Service!vars
  BY StepImplements
<1> QED BY <1>2, <1>3, <1>4, PTL DEF Spec, ImplementsService, Service!Spec
=============================================================================
