------------------------------ MODULE Gateway ------------------------------
(***************************************************************************)
(* What stands before and behind the cache in the API: the rate limiter    *)
(* (aim/api/deps.py, and sliding_window_rate_limit), the route that caches *)
(* a response, the one that reads it back (aim/api/routes/query.py) and    *)
(* the two of feedback (aim/api/routes/feedback.py).                       *)
(*                                                                         *)
(* Time passes in ticks, Window of them to the minute of the limiter.      *)
(* Tokens are counted in parts: a request costs Window, a tick refills     *)
(* Limit.                                                                  *)
(***************************************************************************)
EXTENDS ResponseCache

CONSTANTS
    Query, Feedback,    \* the two keys of one query id
    Limit, Window,      \* rate_limit_per_minute, and the minute in ticks
    MaxAsks,            \* bound: requests that meet the limiter
    MaxDelay            \* bound: ticks a pipeline takes from the reading of the clock

ASSUME GatewayAssumption ==
    /\ Keys = {Query, Feedback} /\ Query # Feedback
    /\ Limit \in Nat \ {0} /\ Window \in Nat \ {0} /\ MaxAsks \in Nat /\ MaxDelay \in Nat

VARIABLES
    gate,       \* how far its limiter has come, and how long ago it read the clock
    members,    \* aim:{tenant}:rl, the sorted set: who asked, and how old the score is
    keyAge,     \* of each tenant, the ticks since the TTL of that key was set
    bucket,     \* the token bucket of each tenant, and the ticks since its refill
    granted,    \* history: requests let pass that read the clock in the last Window
    asks        \* history: requests so far, the member of the next one

limiterVars == <<gate, members, keyAge, bucket, granted, asks>>
vars == <<cacheVars, limiterVars>>

\* The cache under the limiter, the buckets and the grants.
TypeOK ==
    /\ CacheTypeOK
    /\ gate \in [Callers -> [pc : {"none", "ping", "pipeline", "undo", "granted"},
                             id : 0..MaxAsks, by : Tenants, age : 0..MaxDelay]]
    /\ members \subseteq [id : 1..MaxAsks, age : 0..Window + MaxDelay, by : Tenants]
    /\ keyAge \in [Tenants -> 0..Window]
    /\ bucket \in [Tenants -> [tokens : 0..Limit * Window, idle : 0..Window]]
    /\ granted \subseteq [id : 1..MaxAsks, age : 0..Window, by : Tenants, via : Stores]
    /\ asks \in 0..MaxAsks

NoGate == [pc |-> "none", id |-> 0, by |-> CHOOSE t \in Tenants : TRUE, age |-> 0]
FullBucket == [tokens |-> Limit * Window, idle |-> 0]

Init ==
    /\ CacheInit
    /\ gate = [c \in Callers |-> NoGate]
    /\ members = {} /\ granted = {} /\ asks = 0
    /\ keyAge = [t \in Tenants |-> Window]
    /\ bucket = [t \in Tenants |-> FullBucket]

(***************************************************************************)
(* The limiter.                                                            *)
(***************************************************************************)
Tokens(t) ==
    LET filled == bucket[t].tokens + bucket[t].idle * Limit
    IN IF filled > Limit * Window THEN Limit * Window ELSE filled
Refilled(t, tokens) == [bucket EXCEPT ![t] = [tokens |-> tokens, idle |-> 0]]

Recently(set) == {x \in set : x.age < Window}

\* Request g passes, its clock read age ticks ago.
Grant(c, g, via, age) ==
    /\ gate' = [gate EXCEPT ![c] = [g EXCEPT !.pc = "granted", !.age = 0]]
    /\ granted' = granted \cup Recently({[id |-> g.id, age |-> age, by |-> g.by, via |-> via]})

Refuse(c) ==
    /\ gate' = [gate EXCEPT ![c] = NoGate]
    /\ UNCHANGED granted

Await(c, g, pc) ==
    /\ gate' = [gate EXCEPT ![c] = [g EXCEPT !.pc = pc, !.age = 0]]
    /\ UNCHANGED granted

\* _in_process_allow: the bucket of this process, when Redis gave no verdict.
InProcess(c, g) ==
    \/ /\ Tokens(g.by) >= Window
       /\ bucket' = Refilled(g.by, Tokens(g.by) - Window)
       /\ Grant(c, g, "memory", 0)
    \/ /\ Tokens(g.by) < Window
       /\ bucket' = Refilled(g.by, Tokens(g.by))
       /\ Refuse(c)

Free(c) == call[c].op = "none" /\ gate[c].pc = "none"

cacheButLink == <<cipher, redis, lru, call, writes, newest, unretired, restarts>>

AskQuery(c, t) ==
    LET g == [pc |-> "none", id |-> asks + 1, by |-> t, age |-> 0] IN
    /\ Free(c) /\ asks < MaxAsks
    /\ asks' = asks + 1
    /\ \/ ok /\ Await(c, g, "pipeline") /\ UNCHANGED <<due, bucket>>
       \/ ~ok /\ due /\ due' = FALSE /\ Await(c, g, "ping") /\ UNCHANGED bucket
       \/ ~ok /\ ~due /\ InProcess(c, g) /\ UNCHANGED due
    /\ UNCHANGED <<ok, members, keyAge, cacheButLink>>

GatePing(c) ==
    /\ gate[c].pc = "ping"
    /\ \/ ok' = TRUE /\ Await(c, gate[c], "pipeline") /\ UNCHANGED bucket
       \/ ok /\ Await(c, gate[c], "pipeline") /\ UNCHANGED <<ok, bucket>>
       \/ ~ok /\ InProcess(c, gate[c]) /\ UNCHANGED ok
    /\ UNCHANGED <<due, members, keyAge, asks, cacheButLink>>

\* What the sorted set holds after the pipeline of request g: its clock, read g.age
\* ticks ago, says what is evicted and is its score.
Entered(g) ==
    {m \in members : m.age < Window + g.age \/ m.by # g.by}
        \cup {[id |-> g.id, age |-> g.age, by |-> g.by]}
Enter(g) == members' = Entered(g) /\ keyAge' = [keyAge EXCEPT ![g.by] = 0]
Count(set, t) == Cardinality({m \in set : m.by = t})
ExceedsBeforeAdding(count) == count - 1 > Limit
Exceeds(count) == count > Limit

\* zremrangebyscore, zadd, zcard and expire, a transaction some time after the reading
\* of the clock (AskQuery or GatePing, with Tick in between).
Pipeline(c) ==
    LET g == gate[c] IN
    /\ g.pc = "pipeline"
    /\ Enter(g)
    /\ \/ Exceeds(Count(Entered(g), g.by)) /\ Await(c, g, "undo")
       \/ ~Exceeds(Count(Entered(g), g.by)) /\ Grant(c, g, "redis", g.age)
    /\ UNCHANGED <<cacheVars, bucket, asks>>

\* The round trip fails, or only its answer is lost: the bucket decides, and the
\* link is not given up.
PipelineFails(c) ==
    /\ gate[c].pc = "pipeline"
    /\ Enter(gate[c]) \/ UNCHANGED <<members, keyAge>>
    /\ InProcess(c, gate[c])
    /\ UNCHANGED <<cacheVars, asks>>

\* zrem of a refused request, best effort.
Undo(c) ==
    /\ gate[c].pc = "undo"
    /\ members' \in {members, {m \in members : m.id # gate[c].id}}
    /\ Refuse(c)
    /\ UNCHANGED <<cacheVars, keyAge, bucket, asks>>

\* The key expires window + 1 seconds after the last pipeline of its tenant.
KeyExpires(t) ==
    /\ keyAge[t] = Window /\ \E m \in members : m.by = t
    /\ members' = {m \in members : m.by # t}
    /\ UNCHANGED <<cacheVars, gate, keyAge, bucket, granted, asks>>

\* Members of Window + MaxDelay ticks grow no older: any pipeline evicts them.
Older(set) == {[m EXCEPT !.age = @ + 1] : m \in set}
Evicted(m) == m.age = Window + MaxDelay
UnderWay(g) == g.pc = "pipeline"
Tick ==
    /\ \A c \in Callers : UnderWay(gate[c]) => gate[c].age < MaxDelay
    /\ gate' = [c \in Callers |->
                  IF UnderWay(gate[c]) THEN [gate[c] EXCEPT !.age = @ + 1] ELSE gate[c]]
    /\ members' = Older({m \in members : ~Evicted(m)}) \cup {m \in members : Evicted(m)}
    /\ keyAge' = [t \in Tenants |-> IF keyAge[t] = Window THEN Window ELSE keyAge[t] + 1]
    /\ granted' = Older({g \in granted : g.age + 1 < Window})
    /\ bucket' = [t \in Tenants |->
                    [bucket[t] EXCEPT !.idle = IF @ = Window THEN @ ELSE @ + 1]]
    /\ UNCHANGED <<cacheVars, asks>>

(***************************************************************************)
(* The routes.                                                             *)
(***************************************************************************)
\* query() caches the response under the caller's tenant and returns it.
CacheResponse(c) ==
    LET t == gate[c].by IN
    /\ gate[c].pc = "granted"
    /\ Begin(c, Request("set", <<t, Query>>, t, "query"))
    /\ gate' = [gate EXCEPT ![c] = NoGate]
    /\ UNCHANGED <<members, keyAge, bucket, granted, asks>>

\* The reasoning timed out or failed: 504 or 500, and nothing is cached.
QueryFails(c) ==
    /\ gate[c].pc = "granted"
    /\ gate' = [gate EXCEPT ![c] = NoGate]
    /\ UNCHANGED <<cacheVars, members, keyAge, bucket, granted, asks>>

Look(c, name, t, key) ==
    /\ Free(c)
    /\ Begin(c, Request("get", <<t, key>>, t, name))
    /\ UNCHANGED limiterVars

AskRead(c, t) == Look(c, "read", t, Query)
AskRate(c, t) == Look(c, "rate", t, Query)
AskRated(c, t) == Look(c, "rated", t, Feedback)

\* The methods of the cache called directly; those without a tenant no route calls.
UseDirectly(c, op, place) ==
    /\ Free(c)
    /\ Begin(c, Request(op, place, CHOOSE t \in Tenants : place[1] \in {t, Legacy}, "direct"))
    /\ UNCHANGED limiterVars

\* Feedback is stored for a query whose response was found.
StoreRating(c) ==
    LET t == call[c].by IN
    /\ call[c].route = "rate" /\ call[c].pc = "done"
    /\ ~call[c].answer.raised /\ call[c].answer.value # Nothing
    /\ Begin(c, Request("set", <<t, Feedback>>, t, "direct"))
    /\ UNCHANGED limiterVars

\* The route answers: 404 for nothing, 403 for another owner's, or what it found.
Respond(c) ==
    /\ call[c].pc = "done"
    /\ ~(call[c].route = "rate" /\ ~call[c].answer.raised /\ call[c].answer.value # Nothing)
    /\ call' = [call EXCEPT ![c] = Idle]
    /\ UNCHANGED <<ok, due, cipher, redis, lru, writes, newest, unretired, restarts, limiterVars>>

\* The window in Redis outlives the process; its callers and buckets do not.
RestartAll ==
    /\ Restart
    /\ gate' = [c \in Callers |-> NoGate]
    /\ bucket' = [t \in Tenants |-> FullBucket]
    /\ UNCHANGED <<members, keyAge, granted, asks>>

Next ==
    \/ \E c \in Callers :
        \/ GatePing(c) \/ Pipeline(c) \/ PipelineFails(c) \/ Undo(c)
        \/ CacheResponse(c) \/ QueryFails(c) \/ StoreRating(c) \/ Respond(c)
        \/ CallStep(c) /\ UNCHANGED limiterVars
        \/ \E t \in Tenants : AskQuery(c, t) \/ AskRead(c, t) \/ AskRate(c, t) \/ AskRated(c, t)
        \/ \E op \in {"get", "set", "delete"}, t \in Tenants \cup {Legacy} :
              UseDirectly(c, op, <<t, Query>>)
    \/ Surroundings /\ UNCHANGED limiterVars
    \/ \E t \in Tenants : KeyExpires(t)
    \/ Tick
    \/ RestartAll

Spec == Init /\ [][Next]_vars

(***************************************************************************)
(* The limit.                                                              *)
(***************************************************************************)
By(t, via) == {g \in granted : g.by = t /\ g.via = via}

\* Of the requests that read the clock in the last window Redis has let no more than
\* the limit pass, however they interleave, however late a pipeline follows its reading,
\* however often the undo of a refusal fails or the key expires, and across restarts.
\* The window is that of the readings: a pipeline late by d gives a place that is free
\* again d sooner after its answer (sliding_window_rate_limit).
RedisKeepsLimit == \A t \in Tenants : Cardinality(By(t, "redis")) <= Limit

\* "Rate limit exceeded: {rpm} requests/minute" is not what a flapping Redis gives:
\* a full bucket, what it refills, and one more bucket per restart come on top, and
\* no more than that (make_rate_limiter, _TokenBucket.consume).
GrantsBounded ==
    \A t \in Tenants :
        Cardinality(By(t, "redis")) + Cardinality(By(t, "memory"))
            <= Limit + (1 + restarts) * Limit + ((Window - 1) * Limit) \div Window

\* What a get answers is what a caller may rely on, in Redis, in the fallback and
\* across the changes between them (ResponseCache).
CacheConsistent == TypeOK /\ ReadsNewest /\ RaisesOnlyInOutage

\* The limiter's two backends keep a limit each, and together a bound that says how
\* much a flapping Redis gives away (make_rate_limiter).
LimitHolds == RedisKeepsLimit /\ GrantsBounded
=============================================================================
