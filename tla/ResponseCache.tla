--------------------------- MODULE ResponseCache ---------------------------
(***************************************************************************)
(* The response cache (aim/utils/cache.py): Redis first, an LRU in memory  *)
(* while Redis fails.  Calls of several requests interleave at the awaits  *)
(* of one process: the ping of a reconnect, and each Redis command.        *)
(*                                                                         *)
(* A location is a tenant and a key; Legacy stands for the locations       *)
(* without a tenant, which the methods without _tenanted use and which the *)
(* others read as a second choice and retire.  A value is the number of    *)
(* the write, the API key it belongs to, and what it was encrypted with.   *)
(***************************************************************************)
EXTENDS Naturals, Sequences, SequencesExt, FiniteSets

CONSTANTS
    Callers,    \* requests of this process
    Tenants,    \* tenant ids, one per API key
    Keys,       \* logical keys: a query id, feedback:<query id>
    Ciphers,    \* encryption settings; Plain means off
    OldKeys,    \* keys under which Redis may hold a value from before the tenants
    Capacity,   \* _maxsize of the LRU
    MaxWrites,  \* bound: effects of writes and deletes on a store
    MaxRestarts \* bound

Plain == "plain"
Legacy == "legacy"
Nothing == [n |-> 0, by |-> "nobody", cipher |-> Plain]
Stores == {"redis", "memory"}
Routes == {"direct", "query", "read", "rate", "rated"}  \* who calls the cache
Places == (Tenants \cup {Legacy}) \X Keys

ASSUME CacheAssumption ==
    /\ Plain \in Ciphers /\ Tenants # {} /\ Legacy \notin Tenants /\ OldKeys \subseteq Keys
    /\ Capacity \in Nat \ {0} /\ MaxWrites \in Nat /\ MaxRestarts \in Nat

VARIABLES
    ok,         \* _redis_ok
    due,        \* _RECONNECT_INTERVAL has passed since the last attempt
    cipher,     \* the encryption setting the process runs with
    redis,      \* aim:{tenant}:{key} and aim:{key}
    lru,        \* _fallback._store, least recently used first
    call,       \* each caller's call: op, place, pc and answer
    writes,     \* history: effects of writes and deletes so far
    newest,     \* history: the newest of them at a place, and the stores it reached
    unretired,  \* history: places whose legacy copy in Redis a write left behind
    restarts    \* history

cacheVars == <<ok, due, cipher, redis, lru, call, writes, newest, unretired, restarts>>

Value == [n : 0..MaxWrites, by : Tenants, cipher : Ciphers]
Answer == [value : Value \cup {Nothing}, from : Stores, old : BOOLEAN, raised : BOOLEAN]
NoAnswer == [value |-> Nothing, from |-> "memory", old |-> FALSE, raised |-> FALSE]
Call == [op : {"none", "get", "set", "delete"}, place : Places, by : Tenants, route : Routes,
         pc : {"idle", "ping", "redis", "legacy", "retire", "done"}, answer : Answer,
         floor : [n : 0..MaxWrites, stores : SUBSET Stores]]

CacheTypeOK ==
    /\ ok \in BOOLEAN /\ due \in BOOLEAN /\ cipher \in Ciphers
    /\ redis \in [Places -> Value \cup {Nothing}]
    /\ lru \in Seq([place : Places, value : Value, live : BOOLEAN])
    /\ Len(lru) <= Capacity
    /\ \A i, j \in DOMAIN lru : lru[i].place = lru[j].place => i = j
    /\ call \in [Callers -> Call]
    /\ writes \in 0..MaxWrites
    /\ newest \in [Places -> [n : 0..MaxWrites, stores : SUBSET Stores]]
    /\ unretired \subseteq Places
    /\ restarts \in 0..MaxRestarts

LegacyOf(place) == <<Legacy, place[2]>>
Tenanted(place) == place[1] # Legacy
Request(op, place, by, route) ==
    [op |-> op, place |-> place, by |-> by, route |-> route, pc |-> "idle",
     answer |-> NoAnswer, floor |-> newest[place]]
Idle == [op |-> "none", place |-> CHOOSE p \in Places : TRUE, by |-> CHOOSE t \in Tenants : TRUE,
         route |-> "direct", pc |-> "idle", answer |-> NoAnswer,
         floor |-> [n |-> 0, stores |-> {}]]

\* connect() at the start of the process: the ping succeeds or not.
CacheInit ==
    /\ ok \in BOOLEAN /\ due = TRUE /\ cipher \in Ciphers
    /\ \E old \in [OldKeys -> {Nothing} \cup [n : {0}, by : Tenants, cipher : {Plain}]] :
          redis = [p \in Places |-> IF ~Tenanted(p) /\ p[2] \in OldKeys THEN old[p[2]] ELSE Nothing]
    /\ lru = <<>>
    /\ call = [c \in Callers |-> Idle]
    /\ writes = 0 /\ restarts = 0 /\ unretired = {}
    /\ newest = [p \in Places |-> [n |-> 0, stores |-> Stores]]

\* _decrypt hands on what it cannot decrypt, and orjson parses plain text only.
Readable(value) == value.cipher \in {cipher, Plain}

(***************************************************************************)
(* _MemoryLRU.  An entry whose ttl has run out stays until it is read,     *)
(* reaped or pushed out.                                                   *)
(***************************************************************************)
At(store, place) == CHOOSE i \in DOMAIN store : store[i].place = place
Hit(place) == \E i \in DOMAIN lru : lru[i].place = place /\ lru[i].live
Held(place) == lru[At(lru, place)]
Dropped(store, place) ==
    IF \E i \in DOMAIN store : store[i].place = place
    THEN RemoveAt(store, At(store, place)) ELSE store
Touched(store, place) ==
    IF Hit(place) THEN Append(Dropped(store, place), Held(place)) ELSE Dropped(store, place)
Trimmed(store) == IF Len(store) > Capacity THEN Tail(store) ELSE store
Stored(place, value) ==
    Trimmed(Append(Dropped(lru, place), [place |-> place, value |-> value, live |-> TRUE]))

Encoded(r) == [n |-> writes + 1, by |-> r.by, cipher |-> cipher]

\* A write has its effect on these stores.
Effect(place, stores) ==
    /\ writes < MaxWrites
    /\ writes' = writes + 1
    /\ newest' = [newest EXCEPT ![place] = [n |-> writes + 1, stores |-> stores]]

Answered(r, value, from, old, raised) ==
    [r EXCEPT !.pc = "done",
              !.answer = [value |-> value, from |-> from, old |-> old, raised |-> raised]]

(***************************************************************************)
(* The rest of a call without Redis: no await, hence one step.  get parses *)
(* what the LRU holds without decrypting it.                               *)
(***************************************************************************)
Probe(place) == IF Hit(place) \/ ~Tenanted(place) THEN place ELSE LegacyOf(place)

LocalGet(c, r) ==
    LET p == Probe(r.place)
        value == IF Hit(p) THEN Held(p).value ELSE Nothing
    IN /\ r.op = "get"
       /\ call' = [call EXCEPT ![c] =
                     Answered(r, value, "memory", Hit(p) /\ p # r.place,
                              Hit(p) /\ value.cipher # Plain)]
       /\ lru' = IF p = r.place THEN Touched(lru, p) ELSE Touched(Dropped(lru, r.place), p)
       /\ UNCHANGED <<writes, newest>>

LocalSet(c, r) ==
    /\ r.op = "set"
    /\ lru' = IF Tenanted(r.place) THEN Dropped(Stored(r.place, Encoded(r)), LegacyOf(r.place))
              ELSE Stored(r.place, Encoded(r))
    /\ Effect(r.place, {"memory"})
    /\ call' = [call EXCEPT ![c] = Idle]

LocalDelete(c, r) ==
    /\ r.op = "delete"
    /\ lru' = Dropped(Dropped(lru, r.place), LegacyOf(r.place))
    /\ Effect(r.place, {"memory"})
    /\ call' = [call EXCEPT ![c] = Idle]

Local(c, r) == LocalGet(c, r) \/ LocalSet(c, r) \/ LocalDelete(c, r)

(***************************************************************************)
(* A call begins: it goes to Redis, pings Redis first, or makes do without *)
(* it.  delete() never tries to reconnect.                                 *)
(***************************************************************************)
Begin(c, r) ==
    /\ \/ /\ ok
          /\ call' = [call EXCEPT ![c] = [r EXCEPT !.pc = "redis"]]
          /\ UNCHANGED <<lru, due, writes, newest>>
       \/ /\ ~ok /\ due /\ r.op # "delete"
          /\ due' = FALSE
          /\ call' = [call EXCEPT ![c] = [r EXCEPT !.pc = "ping"]]
          /\ UNCHANGED <<lru, writes, newest>>
       \/ /\ ~ok /\ (~due \/ r.op = "delete")
          /\ Local(c, r)
          /\ UNCHANGED due
    /\ UNCHANGED <<ok, cipher, redis, unretired, restarts>>

PingAnswered(c) ==
    /\ call[c].pc = "ping"
    /\ ok' = TRUE
    /\ call' = [call EXCEPT ![c].pc = "redis"]
    /\ UNCHANGED <<due, cipher, redis, lru, writes, newest, unretired, restarts>>

\* Another call may have found Redis again in the meantime.
PingFailed(c) ==
    /\ call[c].pc = "ping"
    /\ \/ ok /\ call' = [call EXCEPT ![c].pc = "redis"] /\ UNCHANGED <<lru, writes, newest>>
       \/ ~ok /\ Local(c, call[c])
    /\ UNCHANGED <<ok, due, cipher, redis, unretired, restarts>>

\* What Redis answered is parsed inside the try: an entry under another key
\* counts as a failure of Redis.
Parsed(c, value, old) ==
    IF Readable(value)
    THEN /\ call' = [call EXCEPT ![c] = Answered(call[c], value, "redis", old, FALSE)]
         /\ UNCHANGED <<ok, lru, writes, newest>>
    ELSE ok' = FALSE /\ Local(c, call[c])

\* A miss in Redis is followed by a look into the LRU.
RedisGet(c) ==
    LET value == redis[call[c].place] IN
    /\ call[c].pc = "redis" /\ call[c].op = "get"
    /\ \/ value # Nothing /\ Parsed(c, value, FALSE)
       \/ /\ value = Nothing /\ Tenanted(call[c].place)
          /\ call' = [call EXCEPT ![c].pc = "legacy"]
          /\ UNCHANGED <<ok, lru, writes, newest>>
       \/ value = Nothing /\ ~Tenanted(call[c].place) /\ Local(c, call[c]) /\ UNCHANGED ok
    /\ UNCHANGED <<due, cipher, redis, unretired, restarts>>

RedisGetLegacy(c) ==
    LET value == redis[LegacyOf(call[c].place)] IN
    /\ call[c].pc = "legacy"
    /\ \/ value # Nothing /\ Parsed(c, value, TRUE)
       \/ value = Nothing /\ Local(c, call[c]) /\ UNCHANGED ok
    /\ UNCHANGED <<due, cipher, redis, unretired, restarts>>

RedisSetKeepsLegacy(c) ==
    LET r == call[c] IN
    /\ r.pc = "redis" /\ r.op = "set"
    /\ redis' = [redis EXCEPT ![r.place] = Encoded(r)]
    /\ Effect(r.place, {"redis"})
    /\ call' = [call EXCEPT ![c] = Idle]
    /\ UNCHANGED <<ok, due, cipher, lru, unretired, restarts>>
RedisSet(c) ==
    LET r == call[c] IN
    /\ r.pc = "redis" /\ r.op = "set"
    /\ redis' = [redis EXCEPT ![r.place] = Encoded(r)]
    /\ Effect(r.place, {"redis"})
    /\ unretired' = IF redis[LegacyOf(r.place)] # Nothing THEN unretired \cup {r.place}
                    ELSE unretired
    /\ call' = [call EXCEPT ![c] = IF Tenanted(r.place) THEN [r EXCEPT !.pc = "retire"] ELSE Idle]
    /\ UNCHANGED <<ok, due, cipher, lru, restarts>>

\* Retiring the legacy copy is best effort.
Retire(c) ==
    LET old == LegacyOf(call[c].place) IN
    /\ call[c].pc = "retire"
    /\ \/ /\ redis' = [redis EXCEPT ![old] = Nothing]
          /\ unretired' = {p \in unretired : p[2] # old[2]}
       \/ UNCHANGED <<redis, unretired>>
    /\ call' = [call EXCEPT ![c] = Idle]
    /\ UNCHANGED <<ok, due, cipher, lru, writes, newest, restarts>>

RedisDeleteInRedisOnly(c) ==
    LET r == call[c] IN
    /\ r.pc = "redis" /\ r.op = "delete"
    /\ redis' = [redis EXCEPT ![r.place] = Nothing, ![LegacyOf(r.place)] = Nothing]
    /\ Effect(r.place, Stores)
    /\ call' = [call EXCEPT ![c] = Idle]
    /\ UNCHANGED <<ok, due, cipher, lru, unretired, restarts>>
\* The LRU is cleared whatever Redis said, and a failure changes no state.
RedisDelete(c) ==
    LET r == call[c] IN
    /\ r.pc = "redis" /\ r.op = "delete"
    /\ \/ /\ redis' = [redis EXCEPT ![r.place] = Nothing, ![LegacyOf(r.place)] = Nothing]
          /\ Effect(r.place, Stores)
       \/ /\ UNCHANGED redis
          /\ Effect(r.place, {"memory"})
    /\ lru' = Dropped(Dropped(lru, r.place), LegacyOf(r.place))
    /\ call' = [call EXCEPT ![c] = Idle]
    /\ UNCHANGED <<ok, due, cipher, unretired, restarts>>

\* A command fails, or a SETEX works and its answer is lost; the call goes on
\* without Redis.
RedisFails(c) ==
    /\ call[c].pc \in {"redis", "legacy"} /\ call[c].op \in {"get", "set"}
    /\ ok' = FALSE
    /\ Local(c, call[c])
    /\ \/ UNCHANGED redis
       \/ call[c].op = "set" /\ redis' = [redis EXCEPT ![call[c].place] = Encoded(call[c])]
    /\ UNCHANGED <<due, cipher, unretired, restarts>>

(***************************************************************************)
(* The rest of the process, and time.                                      *)
(***************************************************************************)
HealthCheckFails ==
    /\ ok /\ ok' = FALSE
    /\ UNCHANGED <<due, cipher, redis, lru, call, writes, newest, unretired, restarts>>

IntervalPasses ==
    /\ ~due /\ due' = TRUE
    /\ UNCHANGED <<ok, cipher, redis, lru, call, writes, newest, unretired, restarts>>

ExpireInRedis(p) ==
    /\ redis[p] # Nothing
    /\ redis' = [redis EXCEPT ![p] = Nothing]
    /\ UNCHANGED <<ok, due, cipher, lru, call, writes, newest, unretired, restarts>>

ExpireInMemory(i) ==
    /\ lru[i].live
    /\ lru' = [lru EXCEPT ![i].live = FALSE]
    /\ UNCHANGED <<ok, due, cipher, redis, call, writes, newest, unretired, restarts>>

\* What is left keeps its order.
PurgeExpired ==
    /\ \E n \in 0..Len(lru) : \E kept \in [1..n -> DOMAIN lru] :
          /\ {kept[k] : k \in 1..n} = {i \in DOMAIN lru : lru[i].live}
          /\ \A j, k \in 1..n : j < k => kept[j] < kept[k]
          /\ lru' = [k \in 1..n |-> lru[kept[k]]]
    /\ UNCHANGED <<ok, due, cipher, redis, call, writes, newest, unretired, restarts>>

\* A new process, perhaps with another encryption key, finds Redis as it was.
Restart ==
    /\ restarts < MaxRestarts
    /\ restarts' = restarts + 1
    /\ ok' \in BOOLEAN /\ due' = TRUE /\ cipher' \in Ciphers
    /\ lru' = <<>>
    /\ call' = [c \in Callers |-> Idle]
    /\ UNCHANGED <<redis, writes, newest, unretired>>

(***************************************************************************)
(* What a caller may rely on, and how far.                                 *)
(***************************************************************************)
\* A get never answers a value older than the newest write or delete it could
\* know of, unless that one went to the other store (an outage, or a Redis that
\* came back, in between), and never misses one its store still holds
\* (get_tenanted, set_tenanted_with_ttl, delete_tenanted).
ReadsNewest ==
    \A c \in Callers :
        LET r == call[c] IN
        (r.pc = "done" /\ r.op = "get" /\ ~r.answer.old) =>
            IF r.answer.value = Nothing
            THEN "memory" \in r.floor.stores =>
                    ~\E i \in DOMAIN lru : /\ lru[i].place = r.place /\ lru[i].live
                                          /\ lru[i].value.n = r.floor.n
            ELSE r.answer.value.n >= r.floor.n \/ r.answer.from \notin r.floor.stores

\* The copy of before the tenant keys never comes back over a tenant's own later
\* write, unless Redis refused to retire it or the write went to the other store
\* ("stale zombies", set_tenanted_with_ttl).
LegacyRetired ==
    [][\A c \in Callers :
        LET r == call'[c] IN
        (call[c].pc # "done" /\ r.pc = "done" /\ r.op = "get" /\ r.answer.old) =>
            \/ r.answer.value.n >= r.floor.n
            \/ r.answer.from \notin r.floor.stores
            \/ r.place \in unretired]_cacheVars

\* A get raises only on what the process itself encrypted and put into the LRU
\* during an outage; unreadable entries of Redis count as an outage instead.
RaisesOnlyInOutage ==
    \A c \in Callers :
        call[c].answer.raised => /\ call[c].answer.from = "memory"
                                 /\ call[c].answer.value.cipher = cipher
                                 /\ cipher # Plain

CallStep(c) ==
    \/ PingAnswered(c) \/ PingFailed(c)
    \/ RedisGet(c) \/ RedisGetLegacy(c) \/ RedisSet(c) \/ Retire(c) \/ RedisDelete(c)
    \/ RedisFails(c)

Surroundings ==
    \/ HealthCheckFails \/ IntervalPasses \/ PurgeExpired
    \/ \E p \in Places : ExpireInRedis(p)
    \/ \E i \in DOMAIN lru : ExpireInMemory(i)
=============================================================================
