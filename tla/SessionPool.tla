---------------------------- MODULE SessionPool ----------------------------
(***************************************************************************)
(* MCP over a subprocess: the stdio client (aim/mcp/client/stdio_client.py)*)
(* with its reader task, sessions on top of it and the pool that keeps one *)
(* session per provider (aim/mcp/client/session.py), for one provider.     *)
(*                                                                         *)
(* Callers are tasks of one event loop; they interleave at their awaits:   *)
(* the stop of an old session, the spawn, the drain of the pipe, the wait  *)
(* for the answer.  A caller may be cancelled at any of them: the provider *)
(* timeout of MCPHandler is shorter than that of a request.                *)
(***************************************************************************)
EXTENDS Naturals, Sequences, FiniteSets

CONSTANTS
    Callers,
    MaxRespawns,    \* _MAX_RESPAWNS
    MaxSessions,    \* bound: sessions ever started
    MaxRequests,    \* bound: requests ever sent
    MaxVersion      \* bound: states of the server's resources

ASSUME PoolAssumption ==
    /\ MaxRespawns \in Nat /\ MaxSessions \in Nat /\ MaxRequests \in Nat
    /\ MaxVersion \in Nat \ {0}

Sessions == 1..MaxSessions
Requests == 1..MaxRequests
NoSession == 0
Nothing == 0     \* no cache, no request
Failure == 0     \* the answer that is an error

VARIABLES
    pool,       \* _sessions[provider]
    respawns,   \* the respawn counter
    client,     \* the client of each session, with its process
    version,    \* of the server's resources, which all its processes serve
    call,       \* the callers
    requests,   \* _request_id
    closing,    \* the session that shutdown is stopping
    late,       \* history: requests sent when the reader was gone
    abandoned,  \* history: sessions whose starter was cancelled
    replaced,   \* history: sessions that a start begun before they were in the pool put out of it
    overtaken   \* history: a listing that arrived before a change and was stored after it

vars == <<pool, respawns, client, version, call, requests, closing, late, abandoned, replaced,
          overtaken>>

Open == [open |-> TRUE]
Answer(v) == [open |-> FALSE, as |-> "answer", value |-> v]
Broken == [open |-> FALSE, as |-> "error"]
Cancelled == [open |-> FALSE, as |-> "cancelled"]
Futures == {Open, Broken, Cancelled} \cup {Answer(v) : v \in 0..MaxVersion}

Unborn == [started |-> FALSE, process |-> "none", reader |-> "none", pending |-> {}, inbox |-> {},
           outbox |-> <<>>, handler |-> FALSE, cache |-> Nothing]
Idle == [pc |-> "idle", want |-> "none", s |-> NoSession, req |-> Nothing, future |-> Open,
         count |-> 0, seen |-> NoSession]   \* seen: history, the session get_session found
Notification == [req |-> Nothing, value |-> Nothing]
Line == [req : {Nothing} \cup Requests, value : 0..MaxVersion]

\* Callers, sessions, processes and what the server has sent.
TypeOK ==
    /\ pool \in {NoSession} \cup Sessions
    /\ respawns \in 0..MaxRespawns
    /\ client \in [Sessions ->
          [started : BOOLEAN, process : {"none", "up", "dead"}, reader : {"none", "run", "end"},
           pending : SUBSET Requests, inbox : SUBSET Requests, outbox : Seq(Line),
           handler : BOOLEAN, cache : 0..MaxVersion]]
    /\ version \in 1..MaxVersion
    /\ call \in [Callers ->
          [pc : {"idle", "stopping", "spawning", "sending", "waiting", "notifying", "failing"},
           want : {"none", "tool", "list"}, s : {NoSession} \cup Sessions,
           req : {Nothing} \cup Requests, future : Futures, count : 0..MaxRespawns, seen : {NoSession} \cup Sessions]]
    /\ requests \in 0..MaxRequests
    /\ closing \in {NoSession} \cup Sessions
    /\ late \subseteq Requests
    /\ {s \in Sessions : client[s].handler} \subseteq {s \in Sessions : client[s].process # "none"}

Init ==
    /\ pool = NoSession /\ respawns = 0
    /\ client = [s \in Sessions |-> Unborn]
    /\ version = 1
    /\ call = [c \in Callers |-> Idle]
    /\ requests = 0 /\ closing = NoSession
    /\ late = {} /\ abandoned = {} /\ replaced = {} /\ overtaken = {}

Alive(s) == s # NoSession /\ client[s].started /\ client[s].process = "up"

(***************************************************************************)
(* The client.                                                             *)
(***************************************************************************)
\* What the owners of the requests R find in their futures.
Resolved(calls, R, f) ==
    [c \in Callers |-> IF calls[c].req \in R /\ calls[c].future = Open
                       THEN [calls[c] EXCEPT !.future = f] ELSE calls[c]]

\* stop up to its first await: the reader is told, who waits is cancelled.
StoppedClient(s) ==
    [client EXCEPT ![s].started = FALSE, ![s].pending = {}, ![s].outbox = <<>>,
                   ![s].reader = IF @ = "run" THEN "end" ELSE @]
Stopping(s, calls) ==
    IF client[s].started
    THEN /\ client' = StoppedClient(s)
         /\ call' = Resolved(calls, client[s].pending, Cancelled)
    ELSE UNCHANGED client /\ call' = calls
\* The rest of stop.
Gone(cl, s) == [cl EXCEPT ![s].process = "dead", ![s].inbox = {}]
Terminated(s) == client' = Gone(client, s)

\* send: the request is known before it is written.
Sent(cl, s, r) == [cl EXCEPT ![s].pending = @ \cup {r}, ![s].inbox = @ \cup {r}]
Sends(c, cl, s, record) ==
    LET r == requests + 1 IN
    /\ requests < MaxRequests /\ requests' = r
    /\ client' = Sent(cl, s, r)
    /\ call' = [call EXCEPT ![c] = [record EXCEPT !.pc = "sending", !.s = s, !.req = r,
                                                  !.future = Open]]
    /\ late' = IF cl[s].reader = "run" THEN late ELSE late \cup {r}

Ended(c) == call' = [call EXCEPT ![c] = Idle]

(***************************************************************************)
(* The use of a session: call_tool, list_resources.                        *)
(***************************************************************************)
Use(c, k, s, cl) ==
    \/ /\ cl[s].started /\ cl[s].process = "up"
       /\ ~(k = "list" /\ cl[s].cache # Nothing)
       /\ Sends(c, cl, s, [Idle EXCEPT !.want = k])
    \/ /\ ~(cl[s].started /\ cl[s].process = "up") \/ (k = "list" /\ cl[s].cache # Nothing)
       /\ client' = cl /\ Ended(c) /\ UNCHANGED <<requests, late>>

\* get_session, up to its first await.
Get(c, k) ==
    /\ call[c].pc = "idle"
    /\ \/ /\ pool # NoSession /\ Alive(pool)
          /\ Use(c, k, pool, client)
       \/ /\ pool # NoSession /\ ~Alive(pool) /\ respawns < MaxRespawns
          /\ Stopping(pool, [call EXCEPT ![c] =
                [Idle EXCEPT !.pc = "stopping", !.want = k, !.s = pool, !.count = respawns, !.seen = pool]])
          /\ UNCHANGED <<requests, late>>
       \/ /\ pool = NoSession \/ (~Alive(pool) /\ respawns = MaxRespawns)
          /\ call' = [call EXCEPT ![c] = [Idle EXCEPT !.pc = "spawning", !.want = k,
                                                         !.seen = pool]]
          /\ UNCHANGED <<client, requests, late>>
    /\ UNCHANGED <<pool, respawns, version, closing, abandoned, replaced, overtaken>>

\* The count that was read before the stop is written after it.
Stopped(c) ==
    /\ call[c].pc = "stopping"
    /\ Terminated(call[c].s)
    /\ respawns' = call[c].count + 1
    /\ call' = [call EXCEPT ![c].pc = "spawning", ![c].s = NoSession]
    /\ UNCHANGED <<pool, version, requests, closing, late, abandoned, replaced, overtaken>>

\* The subprocess runs; initialize is sent.
Spawned(c) ==
    \E s \in Sessions :
        /\ call[c].pc = "spawning"
        /\ client[s] = Unborn /\ \A t \in Sessions : t < s => client[t] # Unborn
        /\ Sends(c, [client EXCEPT ![s] = [Unborn EXCEPT !.started = TRUE, !.process = "up",
                                                         !.reader = "run"]], s, call[c])
        /\ UNCHANGED <<pool, respawns, version, closing, abandoned, replaced, overtaken>>

SpawnFails(c) ==
    /\ call[c].pc = "spawning"
    /\ Ended(c)
    /\ UNCHANGED <<pool, respawns, client, version, requests, closing, late, abandoned, replaced,
                   overtaken>>

\* The pipe takes the line.
Drained(c) ==
    /\ call[c].pc = "sending"
    /\ call' = [call EXCEPT ![c].pc = "waiting"]
    /\ UNCHANGED <<pool, respawns, client, version, requests, closing, late, abandoned, replaced,
                   overtaken>>

\* An exception reaches the caller, and start if the request was initialize.
Raised(c, cl) ==
    /\ IF call[c].s = pool \/ client[call[c].s].handler
       THEN Ended(c)
       ELSE call' = [call EXCEPT ![c].pc = "failing", ![c].req = Nothing]
    /\ client' = cl
    /\ UNCHANGED <<pool, respawns, version, requests, closing, late, abandoned, replaced, overtaken>>

\* The pipe is broken: the request stays in the table.
DrainFails(c) == call[c].pc = "sending" /\ client[call[c].s].process = "dead" /\ Raised(c, client)

Forgotten(c) == [client EXCEPT ![call[c].s].pending = @ \ {call[c].req}]

RequestTimesOut(c) ==
    /\ call[c].pc = "waiting" /\ call[c].future = Open
    /\ Raised(c, Forgotten(c))

\* Mutant: the exception is raised without the stop.
FailsWithoutStop(c) ==
    /\ call[c].pc = "failing"
    /\ UNCHANGED client
    /\ Ended(c)
    /\ UNCHANGED <<pool, respawns, version, requests, closing, late, abandoned, replaced, overtaken>>

\* start's except: stop, then raise.
Fails(c) ==
    LET s == call[c].s IN
    /\ call[c].pc = "failing"
    /\ client' = Gone(StoppedClient(s), s)
    /\ Ended(c)
    /\ UNCHANGED <<pool, respawns, version, requests, closing, late, abandoned, replaced, overtaken>>

\* The caller goes on with what its future holds.
Resume(c) ==
    LET f == call[c].future
        s == call[c].s
        started == s = pool \/ client[s].handler
    IN /\ call[c].pc = "waiting" /\ f # Open
       /\ \/ /\ f \in {Broken, Answer(Failure)}
             /\ Raised(c, Forgotten(c))
          \/ /\ f = Cancelled
             /\ Ended(c)
             /\ abandoned' = IF started THEN abandoned ELSE abandoned \cup {s}
             /\ UNCHANGED <<pool, respawns, client, version, requests, closing, late, replaced,
                            overtaken>>
          \/ /\ f \notin {Broken, Answer(Failure), Cancelled}
             /\ IF started
                THEN /\ Ended(c)
                     /\ client' = IF call[c].want = "list"
                                  THEN [client EXCEPT ![s].cache = f.value] ELSE client
                ELSE call' = [call EXCEPT ![c].pc = "notifying", ![c].req = Nothing]
                     /\ UNCHANGED client
             /\ UNCHANGED <<pool, respawns, version, requests, closing, late, abandoned, replaced,
                            overtaken>>

\* Mutant: no handler for the notification.
RegisterUnsubscribed(c) ==
    LET s == call[c].s IN
    /\ call[c].pc = "notifying"
    /\ respawns' = 0
    /\ pool' = s
    /\ replaced' = IF pool # call[c].seen THEN replaced \cup {pool} ELSE replaced
    /\ Use(c, call[c].want, s, client)
    /\ UNCHANGED <<version, closing, abandoned, overtaken>>

\* notifications/initialized is out, or failed; the session goes into the pool.
Register(c) ==
    LET s == call[c].s IN
    /\ call[c].pc = "notifying"
    /\ respawns' = 0
    /\ pool' = s
    /\ replaced' = IF pool # call[c].seen THEN replaced \cup {pool} ELSE replaced
    /\ Use(c, call[c].want, s, [client EXCEPT ![s].handler = TRUE])
    /\ UNCHANGED <<version, closing, abandoned, overtaken>>

\* CancelledError passes the handlers of Exception; only the wait cleans up.
Cancel(c) ==
    LET s == call[c].s
        own == call[c].pc \in {"sending", "waiting", "notifying", "failing"}
    IN /\ call[c].pc # "idle"
       /\ client' = IF call[c].pc = "waiting" THEN Forgotten(c) ELSE client
       /\ Ended(c)
       /\ abandoned' = IF own /\ s # pool /\ ~client[s].handler
                       THEN abandoned \cup {s} ELSE abandoned
       /\ UNCHANGED <<pool, respawns, version, requests, closing, late, replaced, overtaken>>

(***************************************************************************)
(* The reader task.                                                        *)
(***************************************************************************)
Read(s) ==
    LET line == Head(client[s].outbox)
        rest == [client EXCEPT ![s].outbox = Tail(@)]
    IN /\ client[s].reader = "run" /\ client[s].outbox # <<>>
       /\ \/ /\ line.req \in client[s].pending
             /\ client' = [rest EXCEPT ![s].pending = @ \ {line.req}]
             /\ call' = Resolved(call, {line.req}, Answer(line.value))
             /\ UNCHANGED overtaken
          \/ /\ line = Notification
             /\ client' = IF client[s].handler THEN [rest EXCEPT ![s].cache = Nothing] ELSE rest
             /\ overtaken' = IF \E c \in Callers : /\ call[c].s = s /\ call[c].want = "list"
                                                   /\ call[c].future # Open
                             THEN overtaken \cup {s} ELSE overtaken
             /\ UNCHANGED call
          \/ /\ line # Notification /\ line.req \notin client[s].pending
             /\ client' = rest
             /\ UNCHANGED <<call, overtaken>>
       /\ UNCHANGED <<pool, respawns, version, requests, closing, late, abandoned, replaced>>

\* Mutants: who waits is forgotten; is cancelled.
ReaderEndsQuietly(s) ==
    /\ client[s].reader = "run"
    /\ client' = [client EXCEPT ![s].reader = "end", ![s].pending = {}, ![s].outbox = <<>>]
    /\ UNCHANGED call
    /\ UNCHANGED <<pool, respawns, version, requests, closing, late, abandoned, replaced, overtaken>>

\* End of the output, or an exception: everybody who waits is told.
ReaderEnds(s) ==
    /\ client[s].reader = "run"
    /\ client' = [client EXCEPT ![s].reader = "end", ![s].pending = {}, ![s].outbox = <<>>]
    /\ call' = Resolved(call, client[s].pending, Broken)
    /\ UNCHANGED <<pool, respawns, version, requests, closing, late, abandoned, replaced, overtaken>>

(***************************************************************************)
(* shutdown.                                                               *)
(***************************************************************************)
Shutdown ==
    /\ pool # NoSession /\ closing = NoSession
    /\ closing' = pool
    /\ Stopping(pool, call)
    /\ UNCHANGED <<pool, respawns, version, requests, late, abandoned, replaced, overtaken>>
\* The sessions of the moment are cleared, whichever they are.
ShutDown ==
    /\ closing # NoSession
    /\ Terminated(closing)
    /\ pool' = NoSession /\ closing' = NoSession
    /\ abandoned' = IF pool # closing THEN abandoned \cup ({pool} \ {NoSession}) ELSE abandoned
    /\ UNCHANGED <<respawns, version, call, requests, late, replaced, overtaken>>

(***************************************************************************)
(* The server (external): it answers or not, changes, exits.  What it      *)
(* writes is kept as long as there is a reader for it.                     *)
(***************************************************************************)
Listened(s) == client[s].process = "up" /\ client[s].reader = "run"

Serve(s, r) ==
    /\ Listened(s) /\ r \in client[s].inbox
    /\ \E v \in {Failure, version} :
        client' = [client EXCEPT ![s].inbox = @ \ {r},
                                 ![s].outbox = Append(@, [req |-> r, value |-> v])]
    /\ UNCHANGED <<pool, respawns, version, call, requests, closing, late, abandoned, replaced,
                   overtaken>>

\* The resources change: every process that runs says so.
Change ==
    /\ version < MaxVersion /\ version' = version + 1
    /\ client' = [s \in Sessions |->
          IF Listened(s) THEN [client[s] EXCEPT !.outbox = Append(@, Notification)]
          ELSE client[s]]
    /\ UNCHANGED <<pool, respawns, call, requests, closing, late, abandoned, replaced, overtaken>>

\* What it wrote can still be read; a child of it may hold the pipe open.
Exit(s) ==
    /\ client[s].process = "up"
    /\ Terminated(s)
    /\ UNCHANGED <<pool, respawns, version, call, requests, closing, late, abandoned, replaced,
                   overtaken>>

Act(c) ==
    \/ \E k \in {"tool", "list"} : Get(c, k)
    \/ Stopped(c) \/ Spawned(c) \/ SpawnFails(c) \/ Drained(c) \/ DrainFails(c)
    \/ RequestTimesOut(c) \/ Fails(c) \/ Resume(c) \/ Register(c) \/ Cancel(c)

Next ==
    \/ \E c \in Callers : Act(c)
    \/ \E s \in Sessions : Read(s) \/ ReaderEnds(s) \/ Exit(s) \/ \E r \in Requests : Serve(s, r)
    \/ Change \/ Shutdown \/ ShutDown

Spec == Init /\ [][Next]_vars

(***************************************************************************)
(* Properties.                                                             *)
(***************************************************************************)
\* A request whose answer is awaited is in the table its reader answers from, or
\* clears when it ends; only a request sent to a reader that was already gone waits
\* for nobody (send, the finally of _read_loop).
NobodyWaitsInVain ==
    \A c \in Callers : call[c].pc \in {"sending", "waiting"} /\ call[c].future = Open =>
        /\ call[c].req \in client[call[c].s].pending
        /\ client[call[c].s].reader = "run" \/ call[c].req \in late

\* A cached listing is what the server has, or the notification is still to be
\* read; unless the reader is gone, or took listing and notification in one go,
\* before the task that stores the listing ran (invalidate_resource_cache).
CacheFresh ==
    \A s \in Sessions :
        (client[s].cache # Nothing /\ client[s].cache # version /\ client[s].process = "up")
            => \/ \E i \in DOMAIN client[s].outbox : client[s].outbox[i] = Notification
               \/ client[s].reader = "end" \/ s \in overtaken

\* A server process that runs is the pool's, or somebody is starting or stopping
\* it; unless two callers started one each, or the caller that started it was
\* cancelled, which start's except does not see.
NoOrphans ==
    \A s \in Sessions : client[s].process = "up" =>
        \/ s \in {pool, closing} \/ \E c \in Callers : call[c].pc # "idle" /\ call[c].s = s
        \/ s \in replaced \/ s \in abandoned

\* The stop of a session cancels callers only when its process is gone, or the
\* pool shuts down (get_session stops dead sessions only).
CancelsOnlyTheDead ==
    \A c \in Callers : call[c].future = Cancelled =>
        client[call[c].s].process = "dead" \/ closing = call[c].s

\* Every request in flight ends with its caller told: by the reader, by the reader's
\* end, or by a stop of a process that is gone.
CallersAreTold == TypeOK /\ NobodyWaitsInVain /\ CancelsOnlyTheDead
=============================================================================
