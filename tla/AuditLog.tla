------------------------------ MODULE AuditLog ------------------------------
(***************************************************************************)
(* The audit log of calls to external services (aim/utils/audit_log.py),   *)
(* over the calls logged in one process.  A call is a tenant, a time (no   *)
(* two at once), whether Redis can be had, and the command that fails.     *)
(***************************************************************************)
EXTENDS Integers, Sequences, FiniteSets, SequencesExt

\* Redis holds an entry of its own for each call, and an index per tenant; a
\* handle once obtained is kept, and only with it are the settings read.
Started == [handle |-> FALSE, enabled |-> TRUE, entries |-> {}, index |-> {}]
GetRedis(log, redis, setting) ==
    IF log.handle THEN log ELSE [log EXCEPT !.handle = redis, !.enabled = setting]

Trimmed(index, call, ttl) == {k \in index : k.tenant = call.tenant => k.time > call.time - ttl}
Store(log, call, setting, ttl) ==
    LET got == GetRedis(log, call.redis, setting)
        key == [tenant |-> call.tenant, time |-> call.time]
        entries == IF call.fails = "setex" THEN got.entries ELSE got.entries \cup {key}
        index == IF call.fails \in {"setex", "zadd"} THEN got.index ELSE got.index \cup {key}
    IN  IF ~log.enabled THEN log
        ELSE IF ~got.handle THEN got
        ELSE [got EXCEPT !.entries = entries,
                         !.index = IF call.fails = "none" THEN Trimmed(index, call, ttl) ELSE index]
Logged(calls, setting, ttl) == FoldLeft(LAMBDA log, call : Store(log, call, setting, ttl), Started, calls)

Newest(keys, limit) ==
    SetToSortSeq({k \in keys : Cardinality({l \in keys : l.time > k.time}) < limit}, LAMBDA k, l : k.time > l.time)
GetRecentOfAll(log, tenant, limit, now, ttl) ==
    SelectSeq(Newest(log.index, limit), LAMBDA k : k.tenant = tenant /\ k \in log.entries /\ now < k.time + ttl)
\* The newest of the tenant's index that have not expired.
GetRecent(log, tenant, limit, now, ttl) ==
    IF ~log.handle THEN <<>>
    ELSE SelectSeq(Newest({k \in log.index : k.tenant = tenant}, limit),
                   LAMBDA k : k \in log.entries /\ now < k.time + ttl)

\* An auditor sees the newest calls of the tenant, newest first, none of another
\* tenant's: all those that reached Redis and its index and are not too old.  A
\* log switched off keeps no call but the first, made before the switch is read.
AuditIsComplete(calls, setting, tenant, limit, now, ttl) ==
    LET seen == GetRecent(Logged(calls, setting, ttl), tenant, limit, now, ttl)
        handle(i) == \E j \in 1..i : calls[j].redis
        kept == {i \in DOMAIN calls :
                    /\ handle(i) /\ calls[i].fails \in {"none", "trim"} /\ now < calls[i].time + ttl
                    /\ setting \/ i = 1
                    /\ calls[i].tenant = tenant}
        wanted == {i \in kept : Cardinality({j \in kept : j > i}) < limit}
    IN  seen = SetToSortSeq({[tenant |-> tenant, time |-> calls[i].time] : i \in wanted},
                            LAMBDA k, l : k.time > l.time)
=============================================================================
