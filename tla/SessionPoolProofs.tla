-------------------------- MODULE SessionPoolProofs --------------------------
(* Theorems of SessionPool, for any callers, sessions, requests and versions. *)
EXTENDS SessionPool, TLAPS

USE PoolAssumption

InFlight == {"sending", "waiting"}
InUse == InFlight \cup {"notifying", "failing"}

\* A process belongs to one client for good: it is born with a reader, its client
\* stops only when it is dead or the pool shuts down, and only a registered session,
\* one with a handler, caches or is in the pool.
SessionsOK ==
    /\ \A s \in Sessions :
        LET k == client[s] IN
        /\ k.process = "none" => k = Unborn
        /\ k.pending \subseteq 1..requests
        /\ k.process = "up" => k.reader # "none" /\ (k.started \/ closing = s)
        /\ k.handler \/ k.cache = Nothing
    /\ \A s \in {pool, closing} \ {NoSession} : client[s].handler

\* What a caller holds at each await.
CallerOK(x) ==
    /\ x.pc = "idle" => x = Idle
    /\ x.pc \in {"stopping", "spawning"} => x.req = Nothing /\ x.future = Open
    /\ x.pc = "stopping" => x.s # NoSession /\ client[x.s].handler /\ x.count < MaxRespawns
    /\ x.pc = "spawning" => x.s = NoSession
    /\ x.pc \in InUse => x.s # NoSession /\ client[x.s].process # "none"
    /\ x.pc \in InFlight => x.req \in 1..requests
    /\ x.pc \in {"notifying", "failing"} => x.req = Nothing /\ ~client[x.s].handler
    /\ x.seen # NoSession => client[x.seen].process = "dead" \/ closing = x.seen

CallersOK == \A c \in Callers : CallerOK(call[c])

\* Until it is registered a session is its starter's; a request is one caller's, and
\* in the table of that caller's session or in none.
NothingShared ==
    /\ \A c, d \in Callers :
        (call[c].pc \in InUse /\ call[d].pc \in InUse /\ c # d) =>
            /\ call[c].s = call[d].s => client[call[c].s].handler
            /\ call[c].pc \in InFlight /\ call[d].pc \in InFlight => call[c].req # call[d].req
    /\ \A c \in Callers, s \in Sessions :
        call[c].pc \in InFlight /\ call[c].req \in client[s].pending => call[c].s = s

\* Whose a process is that runs.
Kept ==
    \A s \in Sessions : client[s].process = "up" =>
        \/ s \in replaced \/ s \in abandoned
        \/ client[s].handler /\ s \in {pool, closing}
        \/ ~client[s].handler /\ \E c \in Callers : call[c].pc \in InUse /\ call[c].s = s

\* An old listing has a notification behind it, on its whole way from the server's
\* output into the cache.
Stale(v) == v \notin {Failure, version}
Announced(s) ==
    \/ \E i \in DOMAIN client[s].outbox : client[s].outbox[i] = Notification
    \/ client[s].reader = "end" \/ s \in overtaken
StaleIsAnnounced ==
    /\ \A s \in Sessions :
        client[s].process = "up" /\ client[s].reader = "run" =>
            \A i \in DOMAIN client[s].outbox :
                client[s].outbox[i].req # Nothing /\ Stale(client[s].outbox[i].value) =>
                    \E j \in DOMAIN client[s].outbox : j > i /\ client[s].outbox[j] = Notification
    /\ \A c \in Callers, v \in 0..MaxVersion :
        (/\ call[c].pc \in InFlight /\ call[c].want = "list" /\ call[c].future = Answer(v) /\ Stale(v)
         /\ client[call[c].s].handler /\ client[call[c].s].process = "up") => Announced(call[c].s)
    /\ \A s \in Sessions :
        (client[s].cache # Nothing /\ Stale(client[s].cache) /\ client[s].process = "up") => Announced(s)

Inv ==
    /\ TypeOK /\ SessionsOK /\ CallersOK /\ NothingShared
    /\ NobodyWaitsInVain /\ CancelsOnlyTheDead /\ Kept /\ StaleIsAnnounced

(***************************************************************************)
(* Futures, and the fields of callers and clients.                         *)
(***************************************************************************)
LEMMA FuturesDiffer ==
    /\ Open # Broken /\ Open # Cancelled /\ Broken # Cancelled
    /\ \A v : Answer(v) # Open /\ Answer(v) # Broken /\ Answer(v) # Cancelled
    /\ \A v, w : Answer(v) = Answer(w) => v = w
<1>1. Open.open = TRUE /\ Broken.open = FALSE /\ Cancelled.open = FALSE /\ \A v : Answer(v).open = FALSE
  BY DEF Open, Broken, Cancelled, Answer
<1>2. Broken.as = "error" /\ Cancelled.as = "cancelled" /\ \A v : Answer(v).as = "answer"
  BY DEF Broken, Cancelled, Answer
<1>3. \A v : Answer(v).value = v
  BY DEF Answer
<1> QED BY <1>1, <1>2, <1>3

CallerType ==
    [pc : {"idle", "stopping", "spawning", "sending", "waiting", "notifying", "failing"},
     want : {"none", "tool", "list"}, s : {NoSession} \cup Sessions,
     req : {Nothing} \cup Requests, future : Futures, count : 0..MaxRespawns,
     seen : {NoSession} \cup Sessions]
ClientType ==
    [started : BOOLEAN, process : {"none", "up", "dead"}, reader : {"none", "run", "end"},
     pending : SUBSET Requests, inbox : SUBSET Requests, outbox : Seq(Line),
     handler : BOOLEAN, cache : 0..MaxVersion]

\* A caller without a request awaits none, and a future that is done has an owner.
LEMMA CallerFacts ==
    ASSUME Inv, NEW c \in Callers
    PROVE  /\ call[c] \in CallerType
           /\ call[c].pc \notin InFlight => call[c].req = Nothing
           /\ call[c].future # Open => call[c].pc \in InUse
           /\ call[c].pc \in InUse => call[c].s \in Sessions
           /\ call[c].pc \in InFlight => call[c].req \in Requests
<1>1. call[c] \in CallerType
  BY DEF Inv, TypeOK, CallerType
<1>2. CallerOK(call[c])
  BY DEF Inv, CallersOK
<1>3. Idle.req = Nothing /\ Idle.future = Open
  BY DEF Idle
<1>4. call[c].pc \in {"idle", "stopping", "spawning"} \cup InUse
  BY <1>1 DEF CallerType, InUse, InFlight
<1>5. requests \in 0..MaxRequests
  BY DEF Inv, TypeOK
<1> QED BY <1>1, <1>2, <1>3, <1>4, <1>5 DEF CallerOK, CallerType, InUse, InFlight, NoSession, Requests

\* What is left of a session that runs, seen from outside: a request may be struck
\* from its table, and a listing stored that is not older than it may be.
Tidied(t, r) ==
    LET k == client[t]
        l == client'[t]
    IN /\ <<l.started, l.process, l.reader, l.handler, l.outbox>>
              = <<k.started, k.process, k.reader, k.handler, k.outbox>>
       /\ l.pending \subseteq k.pending /\ k.pending \ {r} \subseteq l.pending
       /\ \/ l.cache = k.cache
          \/ k.handler /\ (k.process = "up" /\ Stale(l.cache) => Announced(t))
       /\ k.process = "none" => l = Unborn

\* A caller that moves on, and at most tidies up behind it.
LEMMA MovesOn ==
    ASSUME Inv, NEW c \in Callers, NEW x \in CallerType, call' = [call EXCEPT ![c] = x],
           client' \in [Sessions -> ClientType],
           \A t \in Sessions : Tidied(t, call[c].req),
           (\A t \in Sessions : client'[t].pending = client[t].pending) \/ x.pc \notin InFlight,
           respawns' \in 0..MaxRespawns, abandoned \subseteq abandoned',
           UNCHANGED <<pool, version, requests, closing, late, replaced, overtaken>>,
           CallerOK(x),
           x.pc \in InUse => call[c].pc \in InUse /\ x.s = call[c].s,
           x.pc \in InFlight => /\ call[c].pc \in InFlight
                                /\ <<x.req, x.future, x.want>> = <<call[c].req, call[c].future, call[c].want>>,
           x.future \in {Open, call[c].future} /\ (x.future = Cancelled => x.s = call[c].s),
           (call[c].pc \in InUse /\ x.pc \notin InUse /\ ~client[call[c].s].handler)
               => call[c].s \in abandoned'
    PROVE  Inv'
<1> USE DEF Inv, InFlight, InUse
<1>1. call[c] \in CallerType
  BY DEF TypeOK, CallerType
<1>2. \A d \in Callers : call'[d] = IF d = c THEN x ELSE call[d]
  BY DEF TypeOK
<1>3. \A t \in Sessions :
          /\ client'[t].process = client[t].process /\ client'[t].started = client[t].started
          /\ client'[t].reader = client[t].reader /\ client'[t].handler = client[t].handler
          /\ client'[t].outbox = client[t].outbox
          /\ client'[t].pending \subseteq client[t].pending
          /\ client[t].pending \ {call[c].req} \subseteq client'[t].pending
          /\ client'[t].process = "none" => client'[t] = Unborn
          /\ \/ client'[t].cache = client[t].cache
             \/ /\ client[t].handler
                /\ client[t].process = "up" /\ Stale(client'[t].cache) => Announced(t)
  BY DEF Tidied
<1>4. \A d \in Callers : call[d].s \in {NoSession} \cup Sessions /\ call[d].seen \in {NoSession} \cup Sessions
  BY DEF TypeOK
<1>5. TypeOK'
  <2>1. call' \in [Callers -> CallerType]
    BY DEF TypeOK, CallerType
  <2>2. {s \in Sessions : client'[s].handler} \subseteq {s \in Sessions : client'[s].process # "none"}
    BY <1>3 DEF TypeOK
  <2> QED BY <2>1, <2>2 DEF TypeOK, CallerType, ClientType
<1>6. SessionsOK'
  BY <1>3 DEF SessionsOK, TypeOK
<1>7. CallersOK'
  BY <1>2, <1>3, <1>4 DEF CallersOK, CallerOK, CallerType
<1>8. NothingShared'
  <2>1. \A d \in Callers : call'[d].pc \in InUse => call[d].pc \in InUse /\ call'[d].s = call[d].s
    BY <1>2
  <2>2. \A d \in Callers : call'[d].pc \in InFlight => call[d].pc \in InFlight /\ call'[d].req = call[d].req
    BY <1>2
  <2>3. \A d \in Callers : call[d].pc \in InUse => call[d].s \in Sessions
    BY <1>4 DEF CallersOK, CallerOK
  <2> QED BY <1>3, <2>1, <2>2, <2>3 DEF NothingShared
<1>9. NobodyWaitsInVain'
  <2> SUFFICES ASSUME NEW d \in Callers, call'[d].pc \in {"sending", "waiting"}, call'[d].future = Open
               PROVE  /\ call'[d].req \in client'[call'[d].s].pending
                      /\ client'[call'[d].s].reader = "run" \/ call'[d].req \in late
    BY DEF NobodyWaitsInVain
  <2>1. call[d].pc \in InFlight /\ call'[d].req = call[d].req /\ call'[d].future = call[d].future
        /\ call'[d].s = call[d].s /\ call[d].s \in Sessions
    BY <1>2, <1>4 DEF CallersOK, CallerOK
  <2>2. call[d].req \in client[call[d].s].pending /\ (client[call[d].s].reader = "run" \/ call[d].req \in late)
    BY <2>1 DEF NobodyWaitsInVain
  <2>3. CASE d = c
    BY <1>2, <1>3, <2>1, <2>2, <2>3
  <2>4. CASE d # c
    <3>1. call[c].req # call[d].req
      <4>1. call[d].req # Nothing
        BY <2>1 DEF CallersOK, CallerOK, Nothing
      <4> QED BY <2>1, <2>4, <4>1, CallerFacts DEF NothingShared
    <3> QED BY <1>3, <2>1, <2>2, <3>1
  <2> QED BY <2>3, <2>4
<1>10. CancelsOnlyTheDead'
  <2> SUFFICES ASSUME NEW d \in Callers, call'[d].future = Cancelled
               PROVE  client'[call'[d].s].process = "dead" \/ closing = call'[d].s
    BY DEF CancelsOnlyTheDead
  <2>1. call[d].future = Cancelled /\ call'[d].s = call[d].s
    BY <1>2, FuturesDiffer
  <2>2. call[d].s \in Sessions
    BY <2>1, CallerFacts, FuturesDiffer
  <2> QED BY <1>3, <2>1, <2>2 DEF CancelsOnlyTheDead
<1>11. Kept'
  BY <1>2, <1>3, <1>4 DEF Kept
<1>12. StaleIsAnnounced'
  <2>1. \A t \in Sessions : Announced(t)' <=> Announced(t)
    BY <1>3 DEF Announced
  <2>2. \A d \in Callers : call'[d].pc \in InFlight =>
            /\ call[d].pc \in InFlight /\ call'[d].want = call[d].want
            /\ call'[d].future = call[d].future /\ call'[d].s = call[d].s /\ call[d].s \in Sessions
    BY <1>2, <1>4 DEF CallersOK, CallerOK
  <2>3. \A v : Stale(v)' <=> Stale(v)
    BY DEF Stale
  <2> QED BY <1>3, <2>1, <2>2, <2>3 DEF StaleIsAnnounced
<1> QED BY <1>5, <1>6, <1>7, <1>8, <1>9, <1>10, <1>11, <1>12

\* A caller uses a registered session, or has registered it just now: it ends, or
\* sends a request of its own.
LEMMA Uses ==
    ASSUME Inv, NEW c \in Callers, NEW s \in Sessions, NEW k \in {"none", "tool", "list"},
           \/ call[c].pc = "idle" /\ s = pool
           \/ call[c].pc = "notifying" /\ s = call[c].s,
           Use(c, k, s, [client EXCEPT ![s].handler = TRUE]),
           pool' = s, respawns' \in 0..MaxRespawns, replaced \subseteq replaced',
           pool \in {NoSession, s, call[c].seen} \cup replaced',
           UNCHANGED <<version, closing, abandoned, overtaken>>
    PROVE  Inv'
<1> USE DEF Inv, InFlight, InUse
<1> DEFINE cl == [client EXCEPT ![s].handler = TRUE]
           r == requests + 1
           y == [[Idle EXCEPT !.want = k] EXCEPT !.pc = "sending", !.s = s, !.req = r, !.future = Open]
           sends == /\ requests < MaxRequests /\ requests' = r /\ client' = Sent(cl, s, r)
                    /\ call' = [call EXCEPT ![c] = y]
                    /\ late' = (IF cl[s].reader = "run" THEN late ELSE late \cup {r})
                    /\ client[s].started /\ client[s].process = "up"
           ends == client' = cl /\ call' = [call EXCEPT ![c] = Idle] /\ UNCHANGED <<requests, late>>
<1>1. sends \/ ends
  BY DEF Use, Sends, Ended, TypeOK
<1>2. client \in [Sessions -> ClientType] /\ call \in [Callers -> CallerType]
      /\ requests \in 0..MaxRequests /\ late \subseteq Requests
  BY DEF TypeOK, ClientType, CallerType
<1>3. client[s].process # "none"
  <2>1. CASE s = pool
    <3>1. client[s].handler
      BY <2>1 DEF SessionsOK, NoSession, Sessions
    <3> QED BY <3>1 DEF TypeOK
  <2>2. CASE call[c].pc = "notifying" /\ s = call[c].s
    BY <2>2 DEF CallersOK, CallerOK
  <2> QED BY <2>1, <2>2
<1>4. \A t \in Sessions : t # s => client'[t] = client[t]
  BY <1>1, <1>2 DEF Sent
<1>5. /\ client'[s].handler = TRUE /\ client'[s].process = client[s].process
      /\ client'[s].started = client[s].started /\ client'[s].reader = client[s].reader
      /\ client'[s].outbox = client[s].outbox /\ client'[s].cache = client[s].cache
      /\ client'[s].pending = IF sends THEN client[s].pending \cup {r} ELSE client[s].pending
      /\ client' \in [Sessions -> ClientType]
  <2> DEFINE m == [client[s] EXCEPT !.handler = TRUE]
  <2>a. cl \in [Sessions -> ClientType] /\ cl[s] = m /\ m \in ClientType
    BY <1>2 DEF ClientType
  <2>b. m = [client[s] EXCEPT !.handler = TRUE]
    OBVIOUS
  <2>1. CASE sends
    <3>1. r \in Requests
      BY <1>2, <2>1 DEF Requests
    <3>2. client' = Sent(cl, s, r)
      BY <2>1
    <3>c. client[s] \in ClientType
      BY <1>2
    <3> HIDE DEF cl, sends, m, r
    <3> DEFINE l == [m EXCEPT !.pending = @ \cup {r}, !.inbox = @ \cup {r}]
    <3>3. l \in ClientType
      BY <2>a, <3>1 DEF ClientType
    <3>4. client' \in [Sessions -> ClientType]
      BY <2>a, <3>1, <3>2 DEF ClientType, Sent
    <3>5. client'[s] = l
      BY <2>a, <3>1, <3>2 DEF ClientType, Sent
    <3>6. /\ client'[s].handler = TRUE /\ client'[s].process = client[s].process
          /\ client'[s].started = client[s].started /\ client'[s].reader = client[s].reader
          /\ client'[s].outbox = client[s].outbox /\ client'[s].cache = client[s].cache
          /\ client'[s].pending = client[s].pending \cup {r}
      BY <2>b, <3>5, <3>c DEF ClientType
    <3> QED BY <2>1, <3>4, <3>6
  <2>2. CASE ends /\ ~sends
    <3> DEFINE l == [client[s] EXCEPT !.handler = TRUE]
    <3>1. client' = [client EXCEPT ![s] = l] /\ l \in ClientType
      BY <1>2, <2>2 DEF ClientType
    <3>2. ~sends /\ client'[s] = l /\ client' \in [Sessions -> ClientType]
      BY <1>2, <2>2, <3>1
    <3>3. client[s] \in ClientType
      BY <1>2
    <3> HIDE DEF sends, ends, cl
    <3> QED BY <3>2, <3>3 DEF ClientType
  <2> QED BY <1>1, <2>1, <2>2
<1>6. \A d \in Callers : d # c => call'[d] = call[d]
  BY <1>1, <1>2
<1>7. \/ ends /\ call'[c] = Idle
      \/ /\ sends /\ call'[c] = y /\ y.pc = "sending" /\ y.s = s /\ y.req = r /\ y.future = Open
         /\ y.want = k /\ y.seen = NoSession
  BY <1>1, <1>2 DEF Idle
<1>8. Idle \in CallerType /\ (sends => y \in CallerType)
  <2>1. Open \in Futures /\ 0 \in 0..MaxRespawns
    BY DEF Futures
  <2>2. Idle \in CallerType
    BY <2>1, Zenon DEF Idle, CallerType
  <2>3. sends => r \in Requests
    BY <1>2 DEF Requests
  <2> QED BY <2>1, <2>2, <2>3 DEF CallerType
<1>9. /\ requests' \in 0..MaxRequests /\ requests <= requests' /\ late \subseteq late' /\ late' \subseteq Requests
      /\ sends => requests' = r
  BY <1>1, <1>2 DEF Requests
<1>10. Idle.pc = "idle" /\ Idle.s = NoSession /\ Idle.seen = NoSession /\ Idle.future = Open
  BY DEF Idle
<1> HIDE DEF y, cl
<1>11. TypeOK'
  <2>1. call' \in [Callers -> CallerType]
    BY <1>1, <1>2, <1>8
  <2>2. {t \in Sessions : client'[t].handler} \subseteq {t \in Sessions : client'[t].process # "none"}
    BY <1>3, <1>4, <1>5 DEF TypeOK
  <2> QED BY <1>5, <1>9, <2>1, <2>2 DEF TypeOK, CallerType, ClientType
<1>12. SessionsOK'
  <2>1. client'[s].pending \subseteq 1..requests'
    BY <1>2, <1>5, <1>9 DEF SessionsOK
  <2>2. \A t \in Sessions : client[t].pending \subseteq 1..requests'
    BY <1>2, <1>9 DEF SessionsOK
  <2>3. closing \in Sessions => client'[closing].handler
    BY <1>4, <1>5 DEF SessionsOK, NoSession, Sessions
  <2>4. closing \in {NoSession} \cup Sessions /\ closing' = closing
    BY DEF TypeOK
  <2>5. \A t \in Sessions : 
           /\ client'[t].process = "none" => client'[t] = Unborn
           /\ client'[t].pending \subseteq 1..requests'
           /\ client'[t].process = "up" => client'[t].reader # "none" /\ (client'[t].started \/ closing' = t)
           /\ client'[t].handler \/ client'[t].cache = Nothing
    BY <1>3, <1>4, <1>5, <2>1, <2>2, <2>4 DEF SessionsOK
  <2> QED BY <1>5, <2>3, <2>4, <2>5 DEF SessionsOK
<1>13. CallersOK'
  <2> SUFFICES ASSUME NEW d \in Callers PROVE CallerOK(call[d])'
    BY DEF CallersOK
  <2>1. CASE d = c
    <3>1. CASE call'[c] = Idle
      BY <1>10, <2>1, <3>1 DEF CallerOK, InFlight, InUse
    <3>2. CASE sends /\ call'[c] = y
      <4>1. y.req \in 1..requests'
        BY <1>2, <1>7, <1>9, <1>10, <3>2
      <4>2. y.pc = "sending" /\ y.s = s /\ y.seen = NoSession /\ s # NoSession
        BY DEF y, Idle, NoSession, Sessions
      <4> QED BY <1>3, <1>5, <2>1, <3>2, <4>1, <4>2 DEF CallerOK
    <3> QED BY <1>7, <3>1, <3>2
  <2>2. CASE d # c
    <3>1. call'[d] = call[d] /\ CallerOK(call[d])
      BY <1>6, <2>2 DEF CallersOK
    <3>2. call[d].pc \in {"notifying", "failing"} => call[d].s # s
      BY <2>2, <3>1 DEF CallerOK, NothingShared, SessionsOK, NoSession
    <3> QED BY <1>2, <1>4, <1>5, <1>9, <3>1, <3>2 DEF CallerOK, CallerType
  <2> QED BY <2>1, <2>2
<1>14. NothingShared'
  <2>1. \A d \in Callers : call[d].pc \in InFlight => call[d].req \in 1..requests
    BY DEF CallersOK, CallerOK
  <2>2. \A t \in Sessions : client[t].pending \subseteq 1..requests
    BY DEF SessionsOK
  <2>3. \A d \in Callers : (d # c /\ call[d].pc \in InUse /\ call[d].s \in Sessions) => 
            (client[call[d].s].handler => client'[call[d].s].handler)
    BY <1>4, <1>5
  <2>4. \A d \in Callers : call[d].pc \in InUse => call[d].s \in Sessions
    BY CallerFacts
  <2>5. \A d \in Callers, e \in Callers :
        (call'[d].pc \in InUse /\ call'[e].pc \in InUse /\ d # e) =>
            /\ call'[d].s = call'[e].s => client'[call'[d].s].handler
            /\ call'[d].pc \in InFlight /\ call'[e].pc \in InFlight => call'[d].req # call'[e].req
    BY <1>2, <1>5, <1>6, <1>7, <1>10, <2>1, <2>3, <2>4 DEF NothingShared
  <2>6. \A d \in Callers, t \in Sessions :
        call'[d].pc \in InFlight /\ call'[d].req \in client'[t].pending => call'[d].s = t
    BY <1>2, <1>4, <1>5, <1>6, <1>7, <1>10, <2>1, <2>2 DEF NothingShared
  <2> QED BY <2>5, <2>6 DEF NothingShared
<1>15. NobodyWaitsInVain'
  <2> SUFFICES ASSUME NEW d \in Callers, call'[d].pc \in {"sending", "waiting"}, call'[d].future = Open
               PROVE  /\ call'[d].req \in client'[call'[d].s].pending
                      /\ client'[call'[d].s].reader = "run" \/ call'[d].req \in late'
    BY DEF NobodyWaitsInVain
  <2>1. CASE d = c
    BY <1>5, <1>7, <1>10, <2>1 DEF cl
  <2>2. CASE d # c
    BY <1>4, <1>5, <1>6, <1>9, <2>2, CallerFacts DEF NobodyWaitsInVain
  <2> QED BY <2>1, <2>2
<1>16. CancelsOnlyTheDead'
  <2> SUFFICES ASSUME NEW d \in Callers, call'[d].future = Cancelled
               PROVE  client'[call'[d].s].process = "dead" \/ closing = call'[d].s
    BY DEF CancelsOnlyTheDead
  <2>1. d # c
    BY <1>7, <1>10, FuturesDiffer
  <2>2. call'[d] = call[d] /\ call[d].s \in Sessions
    BY <1>6, <2>1, CallerFacts, FuturesDiffer
  <2> QED BY <1>4, <1>5, <2>2 DEF CancelsOnlyTheDead
<1>17. Kept'
  <2> SUFFICES ASSUME NEW t \in Sessions, client'[t].process = "up"
               PROVE  \/ t \in replaced' \/ t \in abandoned
                      \/ client'[t].handler /\ t \in {s, closing}
                      \/ ~client'[t].handler /\ \E d \in Callers : call'[d].pc \in InUse /\ call'[d].s = t
    BY DEF Kept
  <2>1. CASE t = s
    BY <1>5, <2>1
  <2>2. CASE t # s
    <3>1. client'[t] = client[t]
      BY <1>4, <2>2
    <3>2. t = pool => t \in replaced' \/ t = closing
      BY <2>2, <3>1 DEF CallersOK, CallerOK, NoSession, Sessions
    <3>3. ASSUME ~client[t].handler, NEW d \in Callers, call[d].pc \in InUse, call[d].s = t
          PROVE  call'[d].pc \in InUse /\ call'[d].s = t
      <4>1. d # c
        BY <2>2, <3>3
      <4> QED BY <1>6, <3>3, <4>1
    <3> QED BY <3>1, <3>2, <3>3 DEF Kept
  <2> QED BY <2>1, <2>2
<1>18. StaleIsAnnounced'
  <2>1. \A t \in Sessions : client'[t].outbox = client[t].outbox /\ client'[t].reader = client[t].reader
            /\ client'[t].process = client[t].process /\ client'[t].cache = client[t].cache
    BY <1>4, <1>5
  <2>2. \A t \in Sessions : Announced(t)' <=> Announced(t)
    BY <2>1 DEF Announced
  <2>3. \A v : Stale(v)' <=> Stale(v)
    BY DEF Stale
  <2>4. ASSUME NEW d \in Callers, NEW v \in 0..MaxVersion,
               call'[d].pc \in InFlight, call'[d].want = "list", call'[d].future = Answer(v),
               Stale(v), client'[call'[d].s].handler, client'[call'[d].s].process = "up"
        PROVE  Announced(call'[d].s)
    <3>1. d # c
      BY <1>7, <1>10, <2>4, FuturesDiffer
    <3>2. call'[d] = call[d] /\ call[d].s \in Sessions
      BY <1>6, <2>4, <3>1, CallerFacts
    <3>3. client[call[d].s].handler
      <4>1. CASE call[d].s # s
        BY <1>4, <2>4, <3>2, <4>1
      <4>2. CASE call[d].s = s /\ s = pool
        BY <4>2 DEF SessionsOK, NoSession, Sessions
      <4>3. CASE call[d].s = s /\ call[c].pc = "notifying" /\ s = call[c].s
        BY <2>4, <3>1, <3>2, <4>3 DEF NothingShared
      <4> QED BY <4>1, <4>2, <4>3
    <3> QED BY <2>1, <2>4, <3>2, <3>3 DEF StaleIsAnnounced
  <2>5. \A t \in Sessions : Announced(t)' = Announced(t)
    BY <2>2 DEF Announced
  <2>6. \A d \in Callers : call'[d].pc \in InFlight => call'[d].s \in Sessions
    BY <1>6, <1>7, <1>10, CallerFacts
  <2>7. \A t \in Sessions :
        client'[t].process = "up" /\ client'[t].reader = "run" =>
            \A i \in DOMAIN client'[t].outbox :
                client'[t].outbox[i].req # Nothing /\ Stale(client[t].outbox[i].value)' =>
                    \E j \in DOMAIN client'[t].outbox : j > i /\ client'[t].outbox[j] = Notification
    <3> SUFFICES ASSUME NEW t \in Sessions, client'[t].process = "up", client'[t].reader = "run",
                        NEW i \in DOMAIN client'[t].outbox, client'[t].outbox[i].req # Nothing,
                        Stale(client[t].outbox[i].value)'
                 PROVE  \E j \in DOMAIN client'[t].outbox : j > i /\ client'[t].outbox[j] = Notification
      OBVIOUS
    <3>1. client'[t].outbox = client[t].outbox /\ Stale(client[t].outbox[i].value)
      BY <2>1 DEF Stale
    <3> QED BY <2>1, <3>1 DEF StaleIsAnnounced
  <2>8. \A t \in Sessions :
        (client'[t].cache # Nothing /\ Stale(client[t].cache)' /\ client'[t].process = "up") => Announced(t)'
    <3> SUFFICES ASSUME NEW t \in Sessions, client'[t].cache # Nothing, Stale(client[t].cache)',
                        client'[t].process = "up"
                 PROVE  Announced(t)'
      OBVIOUS
    <3>1. client'[t].cache = client[t].cache /\ Stale(client[t].cache)
      BY <2>1 DEF Stale
    <3> QED BY <2>1, <2>2, <3>1 DEF StaleIsAnnounced
  <2>9. ASSUME NEW d \in Callers, NEW v \in 0..MaxVersion,
               call'[d].pc \in InFlight, call'[d].want = "list", call'[d].future = Answer(v), Stale(v)',
               client'[call'[d].s].handler, client'[call'[d].s].process = "up"
        PROVE  Announced(call[d].s)'
    <3>1. Stale(v)
      BY <2>9 DEF Stale
    <3> QED BY <2>2, <2>4, <2>6, <2>9, <3>1
  <2>10. \A d \in Callers, v \in 0..MaxVersion :
        (/\ call'[d].pc \in InFlight /\ call'[d].want = "list" /\ call'[d].future = Answer(v) /\ Stale(v)'
         /\ client'[call'[d].s].handler /\ client'[call'[d].s].process = "up") => Announced(call[d].s)'
    BY <2>9
  <2> QED BY <2>7, <2>8, <2>10 DEF StaleIsAnnounced
<1> QED BY <1>11, <1>12, <1>13, <1>14, <1>15, <1>16, <1>17, <1>18

\* The pool's session has its handler.
LEMMA PoolIsRegistered ==
    ASSUME Inv, pool # NoSession
    PROVE  pool \in Sessions /\ client[pool].handler
BY DEF Inv, TypeOK, SessionsOK

LEMMA IdleIsOK == Idle \in CallerType /\ CallerOK(Idle) /\ Idle.pc = "idle" /\ Idle.future = Open
<1>1. Open \in Futures /\ 0 \in 0..MaxRespawns
  BY DEF Futures
<1>2. Idle \in CallerType
  BY <1>1, Zenon DEF Idle, CallerType
<1>3. Idle.pc = "idle" /\ Idle.future = Open /\ Idle.seen = NoSession
  BY DEF Idle
<1> QED BY <1>2, <1>3 DEF CallerOK, InUse, InFlight

\* What a caller leaves of its session when it gives its request up.
LEMMA Forgets ==
    ASSUME Inv, NEW c \in Callers,
           client' = client \/ (call[c].pc \in InUse /\ client' = Forgotten(c))
    PROVE  client' \in [Sessions -> ClientType] /\ \A t \in Sessions : Tidied(t, call[c].req)
<1>1. client \in [Sessions -> ClientType] /\ \A t \in Sessions : client[t].process = "none" => client[t] = Unborn
  BY DEF Inv, TypeOK, SessionsOK, ClientType
<1>2. CASE client' = client
  BY <1>1, <1>2 DEF Tidied
<1>3. CASE call[c].pc \in InUse /\ client' = Forgotten(c)
  <2> DEFINE s == call[c].s
             l == [client[s] EXCEPT !.pending = @ \ {call[c].req}]
  <2>1. s \in Sessions /\ client[s].process # "none"
    BY <1>3, CallerFacts DEF Inv, CallersOK, CallerOK
  <2>2. client[s] \in ClientType /\ l \in ClientType
    <3>1. client[s] \in ClientType
      BY <1>1, <2>1
    <3> HIDE DEF s
    <3> QED BY <3>1 DEF ClientType
  <2>3. client' = [client EXCEPT ![s] = l]
    BY <1>1, <1>3, <2>1 DEF Forgotten, ClientType
  <2>4. client' \in [Sessions -> ClientType] /\ client'[s] = l /\ \A t \in Sessions : t # s => client'[t] = client[t]
    BY <1>1, <2>1, <2>2, <2>3
  <2>5. Tidied(s, call[c].req)
    BY <2>1, <2>2, <2>4 DEF Tidied, ClientType
  <2>6. \A t \in Sessions : t # s => Tidied(t, call[c].req)
    BY <1>1, <2>4 DEF Tidied
  <2> QED BY <2>4, <2>5, <2>6
<1> QED BY <1>2, <1>3

\* A caller that ends is in nobody's way; who gives up a session that is not
\* registered yet is among the abandoned.
LEMMA EndsWell ==
    ASSUME Inv, NEW c \in Callers, Ended(c),
           client' \in [Sessions -> ClientType], \A t \in Sessions : Tidied(t, call[c].req),
           abandoned \subseteq abandoned',
           (call[c].pc \in InUse /\ ~client[call[c].s].handler) => call[c].s \in abandoned',
           UNCHANGED <<pool, respawns, version, requests, closing, late, replaced, overtaken>>
    PROVE  Inv'
<1>1. respawns' \in 0..MaxRespawns
  BY DEF Inv, TypeOK
<1> QED BY <1>1, IdleIsOK, MovesOn, FuturesDiffer DEF Ended, InUse, InFlight

LEMMA SpawnFailsOK == ASSUME Inv, NEW c \in Callers, SpawnFails(c) PROVE Inv'
<1>1. client' = client /\ Ended(c) /\ call[c].pc \notin InUse
  BY DEF SpawnFails, InUse, InFlight
<1>2. client' \in [Sessions -> ClientType] /\ \A t \in Sessions : Tidied(t, call[c].req)
  BY <1>1, Forgets
<1> QED BY <1>1, <1>2, EndsWell DEF SpawnFails

LEMMA CancelOK == ASSUME Inv, NEW c \in Callers, Cancel(c) PROVE Inv'
<1>1. client' = client \/ (call[c].pc \in InUse /\ client' = Forgotten(c))
  BY DEF Cancel, InUse, InFlight
<1>2. client' \in [Sessions -> ClientType] /\ \A t \in Sessions : Tidied(t, call[c].req)
  BY <1>1, Forgets
<1>3. (call[c].pc \in InUse /\ ~client[call[c].s].handler) => call[c].s \in abandoned'
  BY PoolIsRegistered, CallerFacts DEF Cancel, InUse, InFlight, NoSession, Sessions
<1> QED BY <1>2, <1>3, EndsWell DEF Cancel

LEMMA RaisedOK ==
    ASSUME Inv, NEW c \in Callers, call[c].pc \in InFlight, NEW cl \in {client, Forgotten(c)},
           Raised(c, cl)
    PROVE  Inv'
<1>1. client' \in [Sessions -> ClientType] /\ \A t \in Sessions : Tidied(t, call[c].req)
  BY Forgets DEF Raised, InUse
<1>2. CASE client[call[c].s].handler
  BY <1>1, <1>2, EndsWell DEF Raised
<1>3. CASE ~client[call[c].s].handler
  <2> DEFINE x == [call[c] EXCEPT !.pc = "failing", !.req = Nothing]
  <2>1. call[c] \in CallerType /\ CallerOK(call[c]) /\ call[c].s \in Sessions
    BY CallerFacts DEF Inv, CallersOK, InUse
  <2>2. x \in CallerType /\ <<x.pc, x.want, x.s, x.req, x.future, x.count, x.seen>>
           = <<"failing", call[c].want, call[c].s, Nothing, call[c].future, call[c].count, call[c].seen>>
    BY <2>1 DEF CallerType
  <2>3. call' = [call EXCEPT ![c] = x]
    <3>1. ~(call[c].s = pool \/ client[call[c].s].handler)
      BY <1>3, <2>1, PoolIsRegistered DEF NoSession, Sessions
    <3>2. call' = [call EXCEPT ![c].pc = "failing", ![c].req = Nothing]
      BY <3>1 DEF Raised
    <3> QED BY <3>2 DEF Inv, TypeOK
  <2> HIDE DEF x
  <2>4. CallerOK(x)
    BY <1>3, <2>1, <2>2 DEF CallerOK, InUse, InFlight
  <2>5. respawns' \in 0..MaxRespawns
    BY DEF Raised, Inv, TypeOK
  <2> QED BY <1>1, <2>2, <2>3, <2>4, <2>5, MovesOn DEF Raised, InUse, InFlight
<1> QED BY <1>2, <1>3

LEMMA DrainedOK == ASSUME Inv, NEW c \in Callers, Drained(c) PROVE Inv'
<1> DEFINE x == [call[c] EXCEPT !.pc = "waiting"]
<1>1. client' \in [Sessions -> ClientType] /\ \A t \in Sessions : Tidied(t, call[c].req)
  BY Forgets DEF Drained
<1>2. call[c] \in CallerType /\ CallerOK(call[c]) /\ call[c].pc = "sending"
  BY CallerFacts DEF Inv, CallersOK, Drained
<1>3. x \in CallerType /\ <<x.pc, x.want, x.s, x.req, x.future, x.count, x.seen>>
         = <<"waiting", call[c].want, call[c].s, call[c].req, call[c].future, call[c].count, call[c].seen>>
  BY <1>2 DEF CallerType
<1>4. call' = [call EXCEPT ![c] = x]
  BY DEF Drained, Inv, TypeOK
<1> HIDE DEF x
<1>5. CallerOK(x)
  BY <1>2, <1>3 DEF CallerOK, InUse, InFlight
<1>6. respawns' \in 0..MaxRespawns
  BY DEF Drained, Inv, TypeOK
<1> QED BY <1>1, <1>2, <1>3, <1>4, <1>5, <1>6, MovesOn DEF Drained, InUse, InFlight

LEMMA ResumeOK == ASSUME Inv, NEW c \in Callers, Resume(c) PROVE Inv'
<1> DEFINE f == call[c].future
           s == call[c].s
           started == s = pool \/ client[s].handler
           x == [call[c] EXCEPT !.pc = "notifying", !.req = Nothing]
<1>1. call[c].pc = "waiting" /\ f # Open
  BY DEF Resume
<1>2. call[c] \in CallerType /\ CallerOK(call[c]) /\ s \in Sessions /\ client[s].process # "none"
  BY <1>1, CallerFacts DEF Inv, CallersOK, CallerOK, InUse, InFlight
<1>3. started <=> client[s].handler
  BY <1>2, PoolIsRegistered DEF NoSession, Sessions
<1>4. client \in [Sessions -> ClientType] /\ client[s] \in ClientType
  BY <1>2 DEF Inv, TypeOK, ClientType
<1>5. CASE f \in {Broken, Answer(Failure)} /\ Raised(c, Forgotten(c))
  BY <1>1, <1>5, RaisedOK DEF InFlight
<1>6. CASE f = Cancelled /\ Ended(c) /\ abandoned' = (IF started THEN abandoned ELSE abandoned \cup {s})
           /\ UNCHANGED <<pool, respawns, client, version, requests, closing, late, replaced, overtaken>>
  <2>1. client' \in [Sessions -> ClientType] /\ \A t \in Sessions : Tidied(t, call[c].req)
    BY <1>6, Forgets
  <2>2. abandoned \subseteq abandoned' /\ (~client[s].handler => s \in abandoned')
    BY <1>3, <1>6
  <2> QED BY <1>6, <2>1, <2>2, EndsWell
<1>7. CASE /\ f \notin {Broken, Answer(Failure), Cancelled} /\ started /\ Ended(c)
           /\ client' = (IF call[c].want = "list" THEN [client EXCEPT ![s].cache = f.value] ELSE client)
           /\ UNCHANGED <<pool, respawns, version, requests, closing, late, abandoned, replaced, overtaken>>
  <2>1. CASE call[c].want # "list"
    <3>1. client' \in [Sessions -> ClientType] /\ \A t \in Sessions : Tidied(t, call[c].req)
      BY <1>7, <2>1, Forgets
    <3> QED BY <1>3, <1>7, <3>1, EndsWell
  <2>2. CASE call[c].want = "list"
    <3>1. PICK v \in 0..MaxVersion : f = Answer(v)
      BY <1>1, <1>2, <1>7 DEF CallerType, Futures
    <3>2. f.value = v
      BY <3>1 DEF Answer
    <3> DEFINE l == [client[s] EXCEPT !.cache = v]
    <3>3. client' = [client EXCEPT ![s] = l] /\ l \in ClientType
      BY <1>2, <1>4, <1>7, <2>2, <3>2 DEF ClientType
    <3>4. /\ client' \in [Sessions -> ClientType] /\ client'[s] = l
          /\ \A t \in Sessions : t # s => client'[t] = client[t]
      BY <1>2, <1>4, <3>3
    <3>5. client[s].process = "up" /\ Stale(v) => Announced(s)
      BY <1>1, <1>3, <1>7, <2>2, <3>1 DEF Inv, StaleIsAnnounced, InFlight
    <3>6. Tidied(s, call[c].req)
      BY <1>2, <1>3, <1>4, <1>7, <3>4, <3>5 DEF Tidied, ClientType
    <3>7. \A t \in Sessions : t # s => Tidied(t, call[c].req)
      BY <3>4 DEF Tidied, Inv, SessionsOK
    <3> QED BY <1>3, <1>7, <3>4, <3>6, <3>7, EndsWell
  <2> QED BY <2>1, <2>2
<1>8. CASE /\ f \notin {Broken, Answer(Failure), Cancelled} /\ ~started /\ call' = [call EXCEPT ![c] = x]
           /\ UNCHANGED <<pool, respawns, client, version, requests, closing, late, abandoned, replaced, overtaken>>
  <2>1. x \in CallerType /\ <<x.pc, x.want, x.s, x.req, x.future, x.count, x.seen>>
           = <<"notifying", call[c].want, call[c].s, Nothing, call[c].future, call[c].count, call[c].seen>>
    BY <1>2 DEF CallerType
  <2>2. call' = [call EXCEPT ![c] = x]
    BY <1>8
  <2> HIDE DEF x
  <2>3. CallerOK(x)
    BY <1>1, <1>2, <1>3, <1>8, <2>1 DEF CallerOK, InUse, InFlight
  <2>4. respawns' \in 0..MaxRespawns
    BY <1>8 DEF Inv, TypeOK
  <2>5. client' \in [Sessions -> ClientType] /\ \A t \in Sessions : Tidied(t, call[c].req)
    BY <1>8, Forgets
  <2> QED BY <1>1, <1>8, <2>1, <2>2, <2>3, <2>4, <2>5, MovesOn DEF InUse, InFlight
<1>9. call' = [call EXCEPT ![c].pc = "notifying", ![c].req = Nothing] => call' = [call EXCEPT ![c] = x]
  BY DEF Inv, TypeOK
<1> HIDE DEF x, f, s, started
<1> QED BY <1>5, <1>6, <1>7, <1>8, <1>9 DEF Resume, f, s, started

LEMMA DrainFailsOK == ASSUME Inv, NEW c \in Callers, DrainFails(c) PROVE Inv'
BY RaisedOK DEF DrainFails, InFlight

LEMMA RequestTimesOutOK == ASSUME Inv, NEW c \in Callers, RequestTimesOut(c) PROVE Inv'
BY RaisedOK DEF RequestTimesOut, InFlight

LEMMA RegisterOK == ASSUME Inv, NEW c \in Callers, Register(c) PROVE Inv'
<1> DEFINE s == call[c].s
           k == call[c].want
<1>1. call[c].pc = "notifying" /\ Use(c, k, s, [client EXCEPT ![s].handler = TRUE]) /\ pool' = s
  BY DEF Register
<1>2. call[c] \in CallerType /\ s \in Sessions
  BY <1>1, CallerFacts DEF InUse
<1>3. k \in {"none", "tool", "list"}
  BY <1>2 DEF CallerType
<1>4. respawns' \in 0..MaxRespawns
  BY DEF Register
<1> QED BY <1>1, <1>2, <1>3, <1>4, Uses DEF Register

\* The pool's session is not alive: its process is dead, or shutdown has it.
LEMMA NotAlive ==
    ASSUME Inv, pool # NoSession, ~Alive(pool)
    PROVE  client[pool].process = "dead" \/ (closing = pool /\ ~client[pool].started)
BY PoolIsRegistered DEF Alive, Inv, TypeOK, SessionsOK

(***************************************************************************)
(* A client stops, or its reader does: everybody who waits for it is told. *)
(***************************************************************************)
Told(d, s, f) ==
    IF call[d].req \in client[s].pending /\ call[d].future = Open THEN [call[d] EXCEPT !.future = f]
    ELSE call[d]

LEMMA HangsUp ==
    ASSUME Inv, NEW s \in Sessions, NEW f \in {Broken, Cancelled},
           client[s].process # "none", client' \in [Sessions -> ClientType],
           \A t \in Sessions : t # s => client'[t] = client[t],
           <<client'[s].process, client'[s].handler, client'[s].cache, client'[s].pending, client'[s].outbox>>
               = <<client[s].process, client[s].handler, client[s].cache, {}, <<>> >>,
           client'[s].reader = (IF client[s].reader = "run" THEN "end" ELSE client[s].reader),
           client'[s].process = "up" => client'[s].started \/ closing' = s,
           call' \in [Callers -> CallerType],
           \A d \in Callers :
               \/ call'[d] = Told(d, s, f)
               \/ call[d].pc = "idle" /\ call'[d].pc = "stopping" /\ CallerOK(call'[d]),
           f = Cancelled => client[s].process = "dead" \/ closing' = s,
           closing' = closing \/ (closing = NoSession /\ closing' = s /\ client[s].handler),
           UNCHANGED <<pool, respawns, version, requests, late, abandoned, replaced, overtaken>>
    PROVE  Inv'
<1> USE DEF Inv, InFlight, InUse
<1>1. \A t \in Sessions : client'[t].process = client[t].process /\ client'[t].handler = client[t].handler
          /\ client'[t].cache = client[t].cache
          /\ client'[t].pending = IF t = s THEN {} ELSE client[t].pending
  OBVIOUS
<1>2. ASSUME NEW d \in Callers
      PROVE  \/ /\ call'[d].pc = "stopping" /\ call[d].pc = "idle" /\ CallerOK(call'[d])
                /\ call'[d].future = Open
             \/ /\ call'[d].pc = call[d].pc /\ call'[d].want = call[d].want /\ call'[d].s = call[d].s
                /\ call'[d].req = call[d].req /\ call'[d].count = call[d].count /\ call'[d].seen = call[d].seen
                /\ \/ call'[d].future = call[d].future
                      /\ ~(call[d].req \in client[s].pending /\ call[d].future = Open)
                   \/ call'[d].future = f /\ call[d].req \in client[s].pending /\ call[d].pc \in InFlight
                      /\ call[d].s = s
                /\ call[d].pc = "idle" => call'[d] = call[d]
                /\ call[d].pc \notin InFlight => call'[d].future = call[d].future
  <2>1. call[d] \in CallerType /\ (call[d].pc \notin InFlight => call[d].req \notin client[s].pending)
    BY CallerFacts DEF TypeOK, Nothing, Requests
  <2>2. CASE call'[d] = Told(d, s, f)
    <3>1. CASE call[d].req \in client[s].pending /\ call[d].future = Open
      <4>1. call'[d] = [call[d] EXCEPT !.future = f] /\ call[d].s = s /\ call[d].pc \in InFlight
        BY <2>1, <2>2, <3>1 DEF Told, NothingShared
      <4> QED BY <2>1, <3>1, <4>1 DEF CallerType
    <3>2. CASE ~(call[d].req \in client[s].pending /\ call[d].future = Open)
      BY <2>2, <3>2 DEF Told
    <3> QED BY <3>1, <3>2
  <2>3. CASE call[d].pc = "idle" /\ call'[d].pc = "stopping" /\ CallerOK(call'[d])
    BY <2>3 DEF CallerOK
  <2> QED BY <2>2, <2>3
<1>3. \A d \in Callers : call[d].s \in {NoSession} \cup Sessions /\ call[d].seen \in {NoSession} \cup Sessions
          /\ call'[d].s \in {NoSession} \cup Sessions /\ call'[d].seen \in {NoSession} \cup Sessions
  BY DEF TypeOK, CallerType
<1>4. closing' \in {NoSession} \cup Sessions /\ \A t \in Sessions : closing = t => closing' = t
  BY DEF TypeOK, NoSession, Sessions
<1>5. TypeOK'
  <2>1. {t \in Sessions : client'[t].handler} \subseteq {t \in Sessions : client'[t].process # "none"}
    BY <1>1 DEF TypeOK
  <2> QED BY <1>4, <2>1 DEF TypeOK, CallerType, ClientType
<1>6. SessionsOK'
  <2>1. \A t \in {pool, closing'} \ {NoSession} : client'[t].handler
    BY <1>1, <1>4 DEF SessionsOK, TypeOK
  <2>2. \A t \in Sessions :
           /\ client'[t].process = "none" => client'[t] = Unborn
           /\ client'[t].pending \subseteq 1..requests
           /\ client'[t].process = "up" => client'[t].reader # "none" /\ (client'[t].started \/ closing' = t)
           /\ client'[t].handler \/ client'[t].cache = Nothing
    BY <1>1, <1>4 DEF SessionsOK
  <2> QED BY <2>1, <2>2 DEF SessionsOK
<1>7. CallersOK'
  <2> SUFFICES ASSUME NEW d \in Callers PROVE CallerOK(call[d])'
    BY DEF CallersOK
  <2>1. CallerOK(call[d])
    BY DEF CallersOK
  <2> QED BY <1>1, <1>2, <1>3, <1>4, <2>1 DEF CallerOK
<1>8. NothingShared'
  <2>1. \A d \in Callers : call'[d].pc \in InUse => 
           call[d].pc = call'[d].pc /\ call'[d].s = call[d].s /\ call'[d].req = call[d].req /\ call[d].s \in Sessions
    BY <1>2, CallerFacts
  <2> QED BY <1>1, <2>1 DEF NothingShared
<1>9. NobodyWaitsInVain'
  <2> SUFFICES ASSUME NEW d \in Callers, call'[d].pc \in {"sending", "waiting"}, call'[d].future = Open
               PROVE  /\ call'[d].req \in client'[call'[d].s].pending
                      /\ client'[call'[d].s].reader = "run" \/ call'[d].req \in late'
    BY DEF NobodyWaitsInVain
  <2>1. /\ call[d].pc = call'[d].pc /\ call'[d].s = call[d].s /\ call'[d].req = call[d].req
        /\ call[d].s \in Sessions /\ call[d].future = Open /\ call[d].req \notin client[s].pending
    BY <1>2, CallerFacts, FuturesDiffer
  <2> QED BY <2>1 DEF NobodyWaitsInVain
<1>10. CancelsOnlyTheDead'
  <2> SUFFICES ASSUME NEW d \in Callers, call'[d].future = Cancelled
               PROVE  client'[call'[d].s].process = "dead" \/ closing' = call'[d].s
    BY DEF CancelsOnlyTheDead
  <2>0. Open # Cancelled
    BY FuturesDiffer
  <2>1. call'[d].s = call[d].s /\ (call[d].future = Cancelled \/ (call[d].s = s /\ f = Cancelled))
    BY <1>2, <2>0
  <2>2. call[d].s \in Sessions
    BY <2>1, CallerFacts, FuturesDiffer
  <2> QED BY <1>1, <1>4, <2>1, <2>2 DEF CancelsOnlyTheDead
<1>11. Kept'
  <2>1. \A d \in Callers : call[d].pc \in InUse => call'[d].pc \in InUse /\ call'[d].s = call[d].s
    BY <1>2
  <2> QED BY <1>1, <1>4, <2>1 DEF Kept
<1>12. StaleIsAnnounced'
  <2>1. client[s].process = "up" => client'[s].reader = "end"
    BY DEF SessionsOK, TypeOK
  <2>2. \A t \in Sessions : t # s => (Announced(t)' <=> Announced(t))
    BY DEF Announced
  <2>3. client[s].process = "up" => Announced(s)'
    BY <2>1 DEF Announced
  <2>4. \A v : Stale(v)' <=> Stale(v)
    BY DEF Stale
  <2>5. \A t \in Sessions :
        client'[t].process = "up" /\ client'[t].reader = "run" =>
            \A i \in DOMAIN client'[t].outbox :
                client'[t].outbox[i].req # Nothing /\ Stale(client[t].outbox[i].value)' =>
                    \E j \in DOMAIN client'[t].outbox : j > i /\ client'[t].outbox[j] = Notification
    <3> SUFFICES ASSUME NEW t \in Sessions, client'[t].process = "up", client'[t].reader = "run",
                        NEW i \in DOMAIN client'[t].outbox, client'[t].outbox[i].req # Nothing,
                        Stale(client[t].outbox[i].value)'
                 PROVE  \E j \in DOMAIN client'[t].outbox : j > i /\ client'[t].outbox[j] = Notification
      OBVIOUS
    <3>1. t # s
      BY <1>1, <2>1
    <3>2. client'[t] = client[t] /\ Stale(client[t].outbox[i].value)
      BY <3>1 DEF Stale
    <3> QED BY <3>2 DEF StaleIsAnnounced
  <2>6. \A t \in Sessions :
        (client'[t].cache # Nothing /\ Stale(client[t].cache)' /\ client'[t].process = "up") => Announced(t)'
    <3> SUFFICES ASSUME NEW t \in Sessions, client'[t].cache # Nothing, Stale(client[t].cache)',
                        client'[t].process = "up"
                 PROVE  Announced(t)'
      OBVIOUS
    <3>1. client[t].cache # Nothing /\ Stale(client[t].cache) /\ client[t].process = "up"
      BY <1>1 DEF Stale
    <3> QED BY <2>2, <2>3, <3>1 DEF StaleIsAnnounced
  <2>7. ASSUME NEW d \in Callers, NEW v \in 0..MaxVersion,
               call'[d].pc \in InFlight, call'[d].want = "list", call'[d].future = Answer(v), Stale(v)',
               client'[call'[d].s].handler, client'[call'[d].s].process = "up"
        PROVE  Announced(call[d].s)'
    <3>1. Stale(v)
      BY <2>7 DEF Stale
    <3>2. /\ call'[d].pc = call[d].pc /\ call'[d].s = call[d].s /\ call'[d].want = call[d].want
          /\ call[d].future = Answer(v) /\ call[d].s \in Sessions
      BY <1>2, <2>7, CallerFacts, FuturesDiffer
    <3>3. Announced(call[d].s)
      BY <1>1, <2>7, <3>1, <3>2 DEF StaleIsAnnounced
    <3> QED BY <1>1, <2>2, <2>3, <2>7, <3>2, <3>3
  <2>8. \A d \in Callers : call'[d].pc \in InFlight => call'[d].s = call[d].s
    BY <1>2
  <2>9. \A d \in Callers, v \in 0..MaxVersion :
        (/\ call'[d].pc \in InFlight /\ call'[d].want = "list" /\ call'[d].future = Answer(v) /\ Stale(v)'
         /\ client'[call'[d].s].handler /\ client'[call'[d].s].process = "up") => Announced(call[d].s)'
    BY <2>7
  <2> QED BY <2>5, <2>6, <2>8, <2>9 DEF StaleIsAnnounced
<1> QED BY <1>5, <1>6, <1>7, <1>8, <1>9, <1>10, <1>11, <1>12

\* What Resolved makes of one caller.
LEMMA ResolvedIsTold ==
    ASSUME NEW s \in Sessions, NEW f, NEW calls, NEW d \in Callers, calls[d] = call[d]
    PROVE  Resolved(calls, client[s].pending, f)[d] = Told(d, s, f)
BY DEF Resolved, Told

LEMMA StopIsTyped ==
    ASSUME Inv, NEW s \in Sessions, client' = StoppedClient(s)
    PROVE  /\ client' \in [Sessions -> ClientType]
           /\ \A t \in Sessions : t # s => client'[t] = client[t]
           /\ <<client'[s].process, client'[s].handler, client'[s].cache, client'[s].pending, client'[s].outbox>>
                  = <<client[s].process, client[s].handler, client[s].cache, {}, <<>> >>
           /\ client'[s].reader = (IF client[s].reader = "run" THEN "end" ELSE client[s].reader)
<1> DEFINE l == [client[s] EXCEPT !.started = FALSE, !.pending = {}, !.outbox = <<>>,
                                  !.reader = IF @ = "run" THEN "end" ELSE @]
<1>1. client \in [Sessions -> ClientType] /\ client[s] \in ClientType
  BY DEF Inv, TypeOK, ClientType
<1>2. client' = [client EXCEPT ![s] = l] /\ l \in ClientType
  <2>1. client' = [client EXCEPT ![s] = l]
    BY <1>1 DEF StoppedClient
  <2>2. <<>> \in Seq(Line)
    OBVIOUS
  <2>3. l \in ClientType
    BY <1>1, <2>2 DEF ClientType
  <2> QED BY <2>1, <2>3
<1>3. client' \in [Sessions -> ClientType] /\ client'[s] = l /\ \A t \in Sessions : t # s => client'[t] = client[t]
  BY <1>1, <1>2
<1> QED BY <1>1, <1>3 DEF ClientType

\* The futures that are told stay futures.
LEMMA ToldIsTyped ==
    ASSUME Inv, NEW d \in Callers, NEW s \in Sessions, NEW f \in {Broken, Cancelled}
    PROVE  Told(d, s, f) \in CallerType
<1>1. call[d] \in CallerType /\ f \in Futures
  BY CallerFacts DEF Futures
<1> QED BY <1>1 DEF Told, CallerType

LEMMA ReaderEndsOK == ASSUME Inv, NEW s \in Sessions, ReaderEnds(s) PROVE Inv'
<1> DEFINE l == [client[s] EXCEPT !.reader = "end", !.pending = {}, !.outbox = <<>>]
<1>1. client \in [Sessions -> ClientType] /\ client[s] \in ClientType
  BY DEF Inv, TypeOK, ClientType
<1>2. client' = [client EXCEPT ![s] = l] /\ l \in ClientType
  <2>1. client' = [client EXCEPT ![s] = l]
    BY <1>1 DEF ReaderEnds
  <2>2. <<>> \in Seq(Line)
    OBVIOUS
  <2>3. l \in ClientType
    BY <1>1, <2>2 DEF ClientType
  <2> QED BY <2>1, <2>3
<1>3. client' \in [Sessions -> ClientType] /\ client'[s] = l /\ \A t \in Sessions : t # s => client'[t] = client[t]
  BY <1>1, <1>2
<1>4. /\ <<client'[s].process, client'[s].handler, client'[s].cache, client'[s].pending, client'[s].outbox>>
             = <<client[s].process, client[s].handler, client[s].cache, {}, <<>> >>
      /\ client'[s].reader = "end" /\ client'[s].started = client[s].started
  BY <1>1, <1>3 DEF ClientType
<1>5. client[s].reader = "run" /\ client[s].process # "none"
  BY DEF ReaderEnds, Inv, SessionsOK, Unborn
<1>6. client[s].process = "up" => client[s].started \/ closing = s
  BY DEF Inv, SessionsOK
<1>7. \A d \in Callers : call'[d] = Told(d, s, Broken)
  BY ResolvedIsTold DEF ReaderEnds
<1>8. call' \in [Callers -> CallerType]
  <2>1. \A d \in Callers : Told(d, s, Broken) \in CallerType
    BY ToldIsTyped
  <2> QED BY <1>7, <2>1 DEF ReaderEnds, Resolved
<1>9. Broken # Cancelled
  BY FuturesDiffer
<1> HIDE DEF l
<1> QED BY <1>3, <1>4, <1>5, <1>6, <1>7, <1>8, <1>9, HangsUp DEF ReaderEnds

LEMMA ShutdownOK == ASSUME Inv, Shutdown PROVE Inv'
<1>1. pool \in Sessions /\ client[pool].handler /\ client[pool].process # "none" /\ closing = NoSession
  BY PoolIsRegistered DEF Shutdown, Inv, TypeOK
<1>2. CASE client[pool].started
  <2>1. client' = StoppedClient(pool) /\ call' = Resolved(call, client[pool].pending, Cancelled)
    BY <1>2 DEF Shutdown, Stopping
  <2>2. \A d \in Callers : call'[d] = Told(d, pool, Cancelled)
    BY <1>1, <2>1, ResolvedIsTold
  <2>3. call' \in [Callers -> CallerType]
    <3>1. \A d \in Callers : Told(d, pool, Cancelled) \in CallerType
      BY <1>1, ToldIsTyped
    <3> QED BY <2>1, <2>2, <3>1 DEF Resolved
  <2> QED BY <1>1, <2>1, <2>2, <2>3, StopIsTyped, HangsUp DEF Shutdown
<1>3. CASE ~client[pool].started
  <2> USE DEF Inv
  <2>1. UNCHANGED <<client, call>> /\ closing' = pool
    BY <1>3 DEF Shutdown, Stopping
  <2>2. UNCHANGED <<pool, respawns, version, requests, late, abandoned, replaced, overtaken>>
    BY DEF Shutdown
  <2>3. TypeOK'
    BY <1>1, <2>1, <2>2 DEF TypeOK
  <2>4. SessionsOK'
    BY <1>1, <2>1, <2>2 DEF SessionsOK, NoSession, Sessions
  <2>5. CallersOK'
    BY <1>1, <2>1, <2>2 DEF CallersOK, CallerOK
  <2>6. NothingShared' /\ NobodyWaitsInVain'
    BY <2>1, <2>2 DEF NothingShared, NobodyWaitsInVain
  <2>7. CancelsOnlyTheDead'
    <3>1. \A d \in Callers : call[d].future = Cancelled => call[d].s # NoSession
      BY CallerFacts, FuturesDiffer DEF NoSession, Sessions
    <3> QED BY <1>1, <2>1, <2>2, <3>1 DEF CancelsOnlyTheDead
  <2>8. Kept'
    BY <1>1, <2>1, <2>2 DEF Kept, NoSession, Sessions
  <2>9. StaleIsAnnounced'
    BY <2>1, <2>2 DEF StaleIsAnnounced, Stale, Announced
  <2> QED BY <2>3, <2>4, <2>5, <2>6, <2>7, <2>8, <2>9
<1> QED BY <1>2, <1>3

LEMMA GetOK == ASSUME Inv, NEW c \in Callers, NEW k \in {"tool", "list"}, Get(c, k) PROVE Inv'
<1>1. call[c].pc = "idle" /\ UNCHANGED <<pool, respawns, version, closing, abandoned, replaced, overtaken>>
  BY DEF Get
<1>2. respawns \in 0..MaxRespawns /\ client \in [Sessions -> ClientType] /\ call \in [Callers -> CallerType]
  BY DEF Inv, TypeOK, ClientType, CallerType
<1>3. CASE pool # NoSession /\ Alive(pool) /\ Use(c, k, pool, client)
  <2>1. pool \in Sessions /\ client[pool].handler = TRUE
    BY <1>2, <1>3, PoolIsRegistered DEF ClientType
  <2>2. client[pool] = [client[pool] EXCEPT !.handler = TRUE]
    BY <1>2, <2>1 DEF ClientType
  <2>3. client = [client EXCEPT ![pool].handler = TRUE]
    BY <1>2, <2>1, <2>2
  <2>4. Use(c, k, pool, [client EXCEPT ![pool].handler = TRUE])
    BY <1>3, <2>3
  <2> QED BY <1>1, <1>2, <2>1, <2>4, Uses
<1>4. ASSUME NEW x, UNCHANGED client, call' = [call EXCEPT ![c] = x], x \in CallerType, CallerOK(x),
             x.pc \notin InUse, x.future = Open, UNCHANGED <<requests, late>>
      PROVE  Inv'
  <2>1. client' \in [Sessions -> ClientType] /\ \A t \in Sessions : Tidied(t, call[c].req)
    BY <1>4, Forgets
  <2>2. Open # Cancelled /\ call[c].pc \notin InUse
    BY <1>1, FuturesDiffer DEF InUse, InFlight
  <2> QED BY <1>1, <1>2, <1>4, <2>1, <2>2, MovesOn DEF InUse
<1>5. CASE /\ pool # NoSession /\ ~Alive(pool) /\ respawns < MaxRespawns /\ UNCHANGED <<requests, late>>
           /\ Stopping(pool, [call EXCEPT ![c] =
                [Idle EXCEPT !.pc = "stopping", !.want = k, !.s = pool, !.count = respawns, !.seen = pool]])
  <2> DEFINE x == [Idle EXCEPT !.pc = "stopping", !.want = k, !.s = pool, !.count = respawns, !.seen = pool]
  <2>1. pool \in Sessions /\ client[pool].handler /\ client[pool].process # "none"
    BY <1>5, PoolIsRegistered DEF Inv, TypeOK
  <2>2. client[pool].process = "dead" \/ (closing = pool /\ ~client[pool].started)
    BY <1>5, NotAlive
  <2>3. /\ x.pc = "stopping" /\ x.req = Nothing /\ x.future = Open /\ x.s = pool /\ x.count = respawns
        /\ x.seen = pool
    BY DEF Idle
  <2>4. x \in CallerType
    BY <1>2, <2>1, IdleIsOK DEF CallerType
  <2>5. Stopping(pool, [call EXCEPT ![c] = x])
    BY <1>5
  <2> HIDE DEF x
  <2>6. CallerOK(x)
    BY <1>5, <2>1, <2>2, <2>3 DEF CallerOK, InUse, InFlight
  <2>7. CASE ~client[pool].started
    BY <1>4, <1>5, <2>3, <2>4, <2>5, <2>6, <2>7 DEF Stopping, InUse, InFlight
  <2>8. CASE client[pool].started
    <3> DEFINE calls == [call EXCEPT ![c] = x]
    <3>1. client' = StoppedClient(pool) /\ call' = Resolved(calls, client[pool].pending, Cancelled)
      BY <2>5, <2>8 DEF Stopping
    <3>2. \A d \in Callers : d # c => call'[d] = Told(d, pool, Cancelled)
      BY <1>2, <2>1, <3>1, ResolvedIsTold
    <3>3. call'[c] = x
      <4>1. calls[c] = x /\ Nothing \notin client[pool].pending
        BY <1>2, <2>1 DEF ClientType, Nothing, Requests
      <4> QED BY <2>3, <3>1, <4>1 DEF Resolved
    <3>4. call' \in [Callers -> CallerType]
      <4>1. \A d \in Callers : Told(d, pool, Cancelled) \in CallerType
        BY <2>1, ToldIsTyped
      <4> QED BY <2>4, <3>1, <3>2, <3>3, <4>1 DEF Resolved
    <3>5. client[pool].process = "dead"
      BY <2>2, <2>8
    <3> HIDE DEF calls
    <3> QED BY <1>1, <1>5, <2>1, <2>3, <2>6, <3>1, <3>2, <3>3, <3>4, <3>5, StopIsTyped, HangsUp
  <2> QED BY <2>7, <2>8
<1>6. CASE /\ pool = NoSession \/ (~Alive(pool) /\ respawns = MaxRespawns)
           /\ call' = [call EXCEPT ![c] = [Idle EXCEPT !.pc = "spawning", !.want = k, !.seen = pool]]
           /\ UNCHANGED <<client, requests, late>>
  <2> DEFINE x == [Idle EXCEPT !.pc = "spawning", !.want = k, !.seen = pool]
  <2>1. /\ x.pc = "spawning" /\ x.req = Nothing /\ x.future = Open /\ x.s = NoSession /\ x.seen = pool
    BY DEF Idle
  <2>2. x \in CallerType
    BY IdleIsOK DEF CallerType, Inv, TypeOK
  <2>3. call' = [call EXCEPT ![c] = x]
    BY <1>6
  <2> HIDE DEF x
  <2>4. pool # NoSession => client[pool].process = "dead" \/ closing = pool
    BY <1>6, NotAlive
  <2>5. CallerOK(x)
    BY <2>1, <2>4 DEF CallerOK, InUse, InFlight
  <2> QED BY <1>4, <1>6, <2>1, <2>2, <2>3, <2>5 DEF InUse, InFlight
<1> QED BY <1>3, <1>5, <1>6 DEF Get

(***************************************************************************)
(* A process ends.                                                         *)
(***************************************************************************)
LEMMA GoneIsTyped ==
    ASSUME Inv, NEW s \in Sessions, NEW cl \in [Sessions -> ClientType],
           \A t \in Sessions : t # s => cl[t] = client[t], client' = Gone(cl, s)
    PROVE  /\ client' \in [Sessions -> ClientType]
           /\ \A t \in Sessions : t # s => client'[t] = client[t]
           /\ <<client'[s].started, client'[s].process, client'[s].reader, client'[s].pending>>
                  = <<cl[s].started, "dead", cl[s].reader, cl[s].pending>>
           /\ <<client'[s].outbox, client'[s].handler, client'[s].cache>>
                  = <<cl[s].outbox, cl[s].handler, cl[s].cache>>
<1> DEFINE l == [cl[s] EXCEPT !.process = "dead", !.inbox = {}]
<1>1. client' = [cl EXCEPT ![s] = l]
  BY DEF Gone
<1>2. l \in ClientType
  BY DEF ClientType
<1>3. client' \in [Sessions -> ClientType] /\ client'[s] = l /\ \A t \in Sessions : t # s => client'[t] = cl[t]
  BY <1>1, <1>2
<1> QED BY <1>3 DEF ClientType

\* The end of a process takes nothing from its client, and nobody's session with it;
\* the caller that stopped it goes on to a new one, shutdown forgets it.
LEMMA Dies ==
    ASSUME Inv, NEW s \in Sessions, client[s].process # "none", client' = Gone(client, s),
           \/ call' = call
           \/ \E c \in Callers :
                /\ call[c].pc = "stopping"
                /\ call' = [call EXCEPT ![c].pc = "spawning", ![c].s = NoSession],
           respawns' \in 0..MaxRespawns, abandoned \subseteq abandoned',
           pool' = pool \/ (pool' = NoSession /\ pool \in {closing, NoSession} \cup abandoned'),
           closing' = closing \/ (closing' = NoSession /\ closing = s),
           UNCHANGED <<version, requests, late, replaced, overtaken>>
    PROVE  Inv'
<1> USE DEF Inv, InFlight, InUse
<1>1. client \in [Sessions -> ClientType] /\ call \in [Callers -> CallerType]
  BY DEF TypeOK, ClientType, CallerType
<1>2. /\ client' \in [Sessions -> ClientType]
      /\ \A t \in Sessions : t # s => client'[t] = client[t]
      /\ \A t \in Sessions :
            /\ client'[t].process = (IF t = s THEN "dead" ELSE client[t].process)
            /\ client'[t].started = client[t].started /\ client'[t].reader = client[t].reader
            /\ client'[t].pending = client[t].pending /\ client'[t].outbox = client[t].outbox
            /\ client'[t].handler = client[t].handler /\ client'[t].cache = client[t].cache
  BY <1>1, GoneIsTyped
<1>3. ASSUME NEW d \in Callers
      PROVE  \/ call'[d] = call[d]
             \/ /\ call[d].pc = "stopping" /\ call'[d].pc = "spawning" /\ call'[d].s = NoSession
                /\ call'[d].req = call[d].req /\ call'[d].future = call[d].future /\ call'[d].seen = call[d].seen
                /\ call'[d] \in CallerType
  <2>1. CASE call' = call
    BY <2>1
  <2>2. ASSUME NEW c \in Callers, call[c].pc = "stopping",
               call' = [call EXCEPT ![c].pc = "spawning", ![c].s = NoSession], d = c
        PROVE  /\ call[d].pc = "stopping" /\ call'[d].pc = "spawning" /\ call'[d].s = NoSession
               /\ call'[d].req = call[d].req /\ call'[d].future = call[d].future /\ call'[d].seen = call[d].seen
               /\ call'[d] \in CallerType
    <3> DEFINE x == [call[c] EXCEPT !.pc = "spawning", !.s = NoSession]
    <3>1. call'[c] = x /\ call[c] \in CallerType
      BY <1>1, <2>2
    <3>2. x \in CallerType /\ <<x.pc, x.s, x.req, x.future, x.seen>>
             = <<"spawning", NoSession, call[c].req, call[c].future, call[c].seen>>
      BY <3>1 DEF CallerType
    <3> HIDE DEF x
    <3> QED BY <2>2, <3>1, <3>2
  <2> QED BY <1>1, <2>1, <2>2
<1>4. call' \in [Callers -> CallerType]
  <2>1. \A d \in Callers : call'[d] \in CallerType
    BY <1>1, <1>3
  <2>2. \E f : call' = f /\ f = [d \in Callers |-> f[d]]
    BY <1>1
  <2> QED BY <2>1, <2>2
<1>5. closing \in {NoSession} \cup Sessions /\ pool \in {NoSession} \cup Sessions
      /\ closing' \in {NoSession} \cup Sessions /\ pool' \in {NoSession} \cup Sessions
      /\ \A t \in Sessions : t # s => (closing = t <=> closing' = t)
  <2>1. closing \in {NoSession} \cup Sessions /\ pool \in {NoSession} \cup Sessions
    BY DEF TypeOK
  <2>2. \A t \in Sessions : t # NoSession
    BY DEF NoSession, Sessions
  <2> QED BY <2>1, <2>2
<1>6. TypeOK'
  <2>1. {t \in Sessions : client'[t].handler} \subseteq {t \in Sessions : client'[t].process # "none"}
    BY <1>2 DEF TypeOK
  <2> QED BY <1>2, <1>4, <1>5, <2>1 DEF TypeOK, CallerType, ClientType
<1>7. SessionsOK'
  <2>1. \A t \in {pool', closing'} \ {NoSession} : client'[t].handler
    BY <1>2, <1>5 DEF SessionsOK
  <2> QED BY <1>2, <1>5, <2>1 DEF SessionsOK
<1>8. CallersOK'
  <2> SUFFICES ASSUME NEW d \in Callers PROVE CallerOK(call[d])'
    BY DEF CallersOK
  <2>1. CallerOK(call[d]) /\ call[d] \in CallerType
    BY <1>1 DEF CallersOK
  <2>2. call[d].s \in {NoSession} \cup Sessions /\ call[d].seen \in {NoSession} \cup Sessions
    BY <2>1 DEF CallerType
  <2>3. call[d].seen # NoSession => client'[call[d].seen].process = "dead" \/ closing' = call[d].seen
    BY <1>2, <1>5, <2>1, <2>2 DEF CallerOK
  <2>4. CASE call'[d] = call[d]
    BY <1>2, <2>1, <2>2, <2>3, <2>4 DEF CallerOK
  <2>5. CASE call[d].pc = "stopping" /\ call'[d].pc = "spawning" /\ call'[d].s = NoSession
             /\ call'[d].req = call[d].req /\ call'[d].future = call[d].future /\ call'[d].seen = call[d].seen
    BY <2>1, <2>3, <2>5 DEF CallerOK
  <2> QED BY <1>3, <2>4, <2>5
<1>9. \A d \in Callers : (call'[d].pc \in InUse \/ call[d].pc \in InUse) => call'[d] = call[d] /\ call[d].s \in Sessions
  BY <1>3, CallerFacts
<1>10. NothingShared'
  BY <1>2, <1>9 DEF NothingShared
<1>11. NobodyWaitsInVain'
  BY <1>2, <1>9 DEF NobodyWaitsInVain
<1>12. CancelsOnlyTheDead'
  <2> SUFFICES ASSUME NEW d \in Callers, call'[d].future = Cancelled
               PROVE  client'[call'[d].s].process = "dead" \/ closing' = call'[d].s
    BY DEF CancelsOnlyTheDead
  <2>1. call[d].pc \in InUse
    <3>1. call[d].future = Cancelled
      BY <1>3
    <3> QED BY <3>1, CallerFacts, FuturesDiffer
  <2>2. call'[d] = call[d] /\ call[d].s \in Sessions
    BY <1>9, <2>1
  <2> QED BY <1>2, <1>5, <2>2 DEF CancelsOnlyTheDead
<1>13. Kept'
  <2> SUFFICES ASSUME NEW t \in Sessions, client'[t].process = "up"
               PROVE  \/ t \in replaced \/ t \in abandoned'
                      \/ client'[t].handler /\ t \in {pool', closing'}
                      \/ ~client'[t].handler /\ \E d \in Callers : call'[d].pc \in InUse /\ call'[d].s = t
    BY DEF Kept
  <2>1. t # s /\ client'[t] = client[t]
    BY <1>2
  <2>2. t \in {pool, closing} => t \in {pool', closing'} \cup abandoned'
    BY <1>5, <2>1 DEF NoSession, Sessions
  <2>3. \A d \in Callers : call[d].pc \in InUse => call'[d].pc \in InUse /\ call'[d].s = call[d].s
    BY <1>9
  <2> QED BY <2>1, <2>2, <2>3 DEF Kept
<1>14. StaleIsAnnounced'
  <2>1. \A t \in Sessions : Announced(t)' <=> Announced(t)
    BY <1>2 DEF Announced
  <2>2. \A v : Stale(v)' <=> Stale(v)
    BY DEF Stale
  <2>3. \A t \in Sessions : client'[t].process = "up" => client'[t] = client[t]
    BY <1>2
  <2>4. \A d \in Callers : call'[d].pc \in InFlight => call'[d] = call[d] /\ call[d].s \in Sessions
    BY <1>9
  <2> QED BY <2>1, <2>2, <2>3, <2>4 DEF StaleIsAnnounced
<1> QED BY <1>6, <1>7, <1>8, <1>10, <1>11, <1>12, <1>13, <1>14

LEMMA ExitOK == ASSUME Inv, NEW s \in Sessions, Exit(s) PROVE Inv'
<1>1. client[s].process # "none" /\ client' = Gone(client, s) /\ call' = call /\ closing' = closing
      /\ abandoned' = abandoned /\ pool' = pool
  BY DEF Exit, Terminated
<1>2. respawns' \in 0..MaxRespawns
  BY DEF Exit, Inv, TypeOK
<1> QED BY <1>1, <1>2, Dies DEF Exit

LEMMA StoppedOK == ASSUME Inv, NEW c \in Callers, Stopped(c) PROVE Inv'
<1> DEFINE s == call[c].s
<1>1. call[c] \in CallerType /\ CallerOK(call[c]) /\ call[c].pc = "stopping"
  BY CallerFacts DEF Stopped, Inv, CallersOK
<1>2. s \in Sessions /\ client[s].process # "none" /\ call[c].count + 1 \in 0..MaxRespawns
  BY <1>1 DEF CallerOK, CallerType, Inv, TypeOK
<1> QED BY <1>1, <1>2, Dies DEF Stopped, Terminated

LEMMA ShutDownOK == ASSUME Inv, ShutDown PROVE Inv'
<1>1. closing \in Sessions /\ client[closing].process # "none"
  BY DEF ShutDown, Inv, TypeOK, SessionsOK
<1>2. pool \in {closing, NoSession} \cup abandoned' /\ abandoned \subseteq abandoned'
  BY DEF ShutDown
<1>3. respawns' \in 0..MaxRespawns
  BY DEF ShutDown, Inv, TypeOK
<1> QED BY <1>1, <1>2, <1>3, Dies DEF ShutDown, Terminated

\* A start that failed takes its session along: it was its own, and in no table.
LEMMA FailsOK == ASSUME Inv, NEW c \in Callers, Fails(c) PROVE Inv'
<1> USE DEF Inv, InFlight, InUse
<1> DEFINE s == call[c].s
           cl == StoppedClient(s)
<1>1. client \in [Sessions -> ClientType] /\ call \in [Callers -> CallerType]
  BY DEF TypeOK, ClientType, CallerType
<1>2. call[c].pc = "failing" /\ s \in Sessions /\ ~client[s].handler /\ client[s].process # "none"
  BY CallerFacts DEF Fails, CallersOK, CallerOK
<1>3. UNCHANGED <<pool, respawns, version, requests, closing, late, abandoned, replaced, overtaken>>
  BY DEF Fails
<1>4. cl \in [Sessions -> ClientType] /\ cl[s].handler = client[s].handler /\ cl[s].cache = client[s].cache
      /\ cl[s].pending = {} /\ \A t \in Sessions : t # s => cl[t] = client[t]
  <2> DEFINE l == [client[s] EXCEPT !.started = FALSE, !.pending = {}, !.outbox = <<>>,
                                    !.reader = IF @ = "run" THEN "end" ELSE @]
  <2>1. client[s] \in ClientType /\ <<>> \in Seq(Line)
    BY <1>1, <1>2
  <2>2. cl = [client EXCEPT ![s] = l]
    BY <1>1, <1>2 DEF StoppedClient
  <2>3. l \in ClientType
    BY <2>1 DEF ClientType
  <2>4. cl \in [Sessions -> ClientType] /\ cl[s] = l /\ \A t \in Sessions : t # s => cl[t] = client[t]
    BY <1>1, <1>2, <2>2, <2>3
  <2>5. l.handler = client[s].handler /\ l.cache = client[s].cache /\ l.pending = {}
    BY <2>1 DEF ClientType
  <2> QED BY <2>4, <2>5
<1>5. client' = Gone(cl, s) /\ call' = [call EXCEPT ![c] = Idle]
  BY DEF Fails, Ended
<1> HIDE DEF cl
<1>6. /\ client' \in [Sessions -> ClientType]
      /\ \A t \in Sessions : t # s => client'[t] = client[t]
      /\ client'[s].process = "dead" /\ client'[s].handler = client[s].handler
      /\ client'[s].cache = client[s].cache /\ client'[s].pending = {}
  BY <1>2, <1>4, <1>5, GoneIsTyped
<1>7. \A d \in Callers : call'[d] = IF d = c THEN Idle ELSE call[d]
  BY <1>1, <1>5
<1>8. \A d \in Callers : d # c /\ call[d].pc \in InUse => call[d].s # s /\ call[d].s \in Sessions
  BY <1>2, CallerFacts DEF NothingShared
<1>9. Idle.pc = "idle" /\ Idle.future = Open
  BY IdleIsOK
<1>10. TypeOK'
  <2>1. {t \in Sessions : client'[t].handler} \subseteq {t \in Sessions : client'[t].process # "none"}
    BY <1>2, <1>6 DEF TypeOK
  <2>2. call' \in [Callers -> CallerType]
    BY <1>1, <1>5, IdleIsOK
  <2> QED BY <1>3, <1>6, <2>1, <2>2 DEF TypeOK, CallerType, ClientType
<1>11. SessionsOK'
  <2>1. \A t \in {pool, closing} \ {NoSession} : client'[t].handler
    BY <1>2, <1>6 DEF SessionsOK, TypeOK
  <2>2. \A t \in Sessions :
           /\ client'[t].process = "none" => client'[t] = Unborn
           /\ client'[t].pending \subseteq 1..requests
           /\ client'[t].process = "up" => client'[t].reader # "none" /\ (client'[t].started \/ closing = t)
           /\ client'[t].handler \/ client'[t].cache = Nothing
    BY <1>2, <1>6 DEF SessionsOK
  <2> QED BY <1>3, <2>1, <2>2 DEF SessionsOK
<1>12. CallersOK'
  <2> SUFFICES ASSUME NEW d \in Callers PROVE CallerOK(call[d])'
    BY DEF CallersOK
  <2>1. CASE d = c
    <3>1. call'[d] = Idle /\ Idle.seen = NoSession
      BY <1>7, <2>1 DEF Idle
    <3> QED BY <1>9, <3>1 DEF CallerOK
  <2>2. CASE d # c
    <3>1. CallerOK(call[d]) /\ call'[d] = call[d] /\ call[d] \in CallerType
      BY <1>1, <1>7, <2>2 DEF CallersOK
    <3>2. call[d].pc = "stopping" => client'[call[d].s].handler
      BY <1>2, <1>6, <3>1 DEF CallerOK, CallerType
    <3>3. call[d].pc \in InUse => client'[call[d].s] = client[call[d].s]
      BY <1>6, <1>8, <2>2
    <3>4. call[d].seen # NoSession => client'[call[d].seen].process = "dead" \/ closing = call[d].seen
      BY <1>6, <3>1 DEF CallerOK, CallerType
    <3> QED BY <1>3, <3>1, <3>2, <3>3, <3>4 DEF CallerOK
  <2> QED BY <2>1, <2>2
<1>13. NothingShared'
  <2>1. \A d \in Callers : call'[d].pc \in InUse => d # c /\ call'[d] = call[d] /\ client'[call[d].s] = client[call[d].s]
    BY <1>6, <1>7, <1>8, <1>9
  <2>2. \A t \in Sessions : client'[t].pending \subseteq client[t].pending
    BY <1>6
  <2> QED BY <2>1, <2>2 DEF NothingShared
<1>14. NobodyWaitsInVain'
  <2>1. \A d \in Callers : call'[d].pc \in InUse => call'[d] = call[d] /\ client'[call[d].s] = client[call[d].s]
    BY <1>6, <1>7, <1>8, <1>9
  <2> QED BY <1>3, <2>1 DEF NobodyWaitsInVain
<1>15. CancelsOnlyTheDead'
  <2> SUFFICES ASSUME NEW d \in Callers, call'[d].future = Cancelled
               PROVE  client'[call'[d].s].process = "dead" \/ closing' = call'[d].s
    BY DEF CancelsOnlyTheDead
  <2>1. d # c /\ call'[d] = call[d]
    BY <1>7, <1>9, FuturesDiffer
  <2>2. client'[call[d].s] = client[call[d].s]
    BY <1>6, <1>8, <2>1, CallerFacts, FuturesDiffer
  <2> QED BY <1>3, <2>1, <2>2 DEF CancelsOnlyTheDead
<1>16. Kept'
  <2> SUFFICES ASSUME NEW t \in Sessions, client'[t].process = "up"
               PROVE  \/ t \in replaced \/ t \in abandoned
                      \/ client'[t].handler /\ t \in {pool, closing}
                      \/ ~client'[t].handler /\ \E d \in Callers : call'[d].pc \in InUse /\ call'[d].s = t
    BY <1>3 DEF Kept
  <2>1. t # s /\ client'[t] = client[t]
    BY <1>6
  <2>2. \A d \in Callers : call[d].pc \in InUse /\ call[d].s = t => call'[d] = call[d]
    BY <1>7, <2>1
  <2> QED BY <2>1, <2>2 DEF Kept
<1>17. StaleIsAnnounced'
  <2>1. \A t \in Sessions : t # s => (Announced(t)' <=> Announced(t))
    BY <1>3, <1>6 DEF Announced
  <2>2. \A v : Stale(v)' <=> Stale(v)
    BY <1>3 DEF Stale
  <2>3. \A t \in Sessions : client'[t].process = "up" => t # s /\ client'[t] = client[t]
    BY <1>6
  <2>4. \A d \in Callers : call'[d].pc \in InFlight => call'[d] = call[d] /\ call[d].s \in Sessions
    BY <1>7, <1>8, <1>9
  <2> QED BY <2>1, <2>2, <2>3, <2>4 DEF StaleIsAnnounced
<1> QED BY <1>10, <1>11, <1>12, <1>13, <1>14, <1>15, <1>16, <1>17

\* A process is born, with a request of its starter.
LEMMA SpawnedOK == ASSUME Inv, NEW c \in Callers, Spawned(c) PROVE Inv'
<1> USE DEF Inv, InFlight, InUse
<1> DEFINE born == [Unborn EXCEPT !.started = TRUE, !.process = "up", !.reader = "run"]
           r == requests + 1
<1>1. PICK s \in Sessions :
        /\ call[c].pc = "spawning" /\ client[s] = Unborn
        /\ Sends(c, [client EXCEPT ![s] = born], s, call[c])
        /\ UNCHANGED <<pool, respawns, version, closing, abandoned, replaced, overtaken>>
  BY DEF Spawned
<1> DEFINE x == [call[c] EXCEPT !.pc = "sending", !.s = s, !.req = r, !.future = Open]
           l == [born EXCEPT !.pending = @ \cup {r}, !.inbox = @ \cup {r}]
<1>2. client \in [Sessions -> ClientType] /\ call \in [Callers -> CallerType] /\ requests \in 0..MaxRequests
  BY DEF TypeOK, ClientType, CallerType
<1>3. requests' = r /\ r \in 1..MaxRequests /\ call' = [call EXCEPT ![c] = x] /\ late' = late
      /\ client' = Sent([client EXCEPT ![s] = born], s, r)
  BY <1>1, <1>2 DEF Sends, Unborn
<1>4. call[c] \in CallerType /\ CallerOK(call[c])
  BY <1>2 DEF CallersOK
<1>5. x \in CallerType /\ <<x.pc, x.s, x.req, x.future, x.seen, x.want>>
         = <<"sending", s, r, Open, call[c].seen, call[c].want>>
  BY <1>3, <1>4 DEF CallerType, Futures, Requests
<1>6. /\ l.started /\ l.process = "up" /\ l.reader = "run" /\ l.pending = {r} /\ l.outbox = <<>>
      /\ l.handler = FALSE /\ l.cache = Nothing
  BY DEF Unborn
<1>7. l \in ClientType
  <2>1. <<>> \in Seq(Line) /\ r \in Requests
    BY <1>3 DEF Requests
  <2>2. Unborn \in ClientType
    <3>1. Nothing \in 0..MaxVersion
      BY DEF Nothing
    <3> QED BY <2>1, <3>1 DEF Unborn, ClientType
  <2>3. born \in ClientType
    BY <2>2 DEF ClientType
  <2> HIDE DEF born, r
  <2> QED BY <2>1, <2>3 DEF ClientType
<1>8. client' = [client EXCEPT ![s] = l]
  BY <1>2, <1>3 DEF Sent
<1> HIDE DEF x, l, born
<1>9. /\ client' \in [Sessions -> ClientType] /\ client'[s] = l
      /\ \A t \in Sessions : t # s => client'[t] = client[t]
  BY <1>2, <1>7, <1>8
<1>10. \A d \in Callers : call'[d] = IF d = c THEN x ELSE call[d]
  BY <1>2, <1>3
<1>11. client[s].process = "none" /\ client[s].handler = FALSE
  BY <1>1 DEF Unborn
<1>12. \A d \in Callers : call[d].pc \in InUse => d # c /\ call[d].s # s /\ call[d].s \in Sessions
  BY <1>1, <1>11, CallerFacts DEF CallersOK, CallerOK
<1>13. UNCHANGED <<pool, respawns, version, closing, abandoned, replaced, overtaken, late>>
  BY <1>1, <1>3
<1>14. TypeOK'
  <2>1. {t \in Sessions : client'[t].handler} \subseteq {t \in Sessions : client'[t].process # "none"}
    BY <1>6, <1>9 DEF TypeOK
  <2>2. call' \in [Callers -> CallerType] /\ requests' \in 0..MaxRequests
    BY <1>2, <1>3, <1>5
  <2> QED BY <1>9, <1>13, <2>1, <2>2 DEF TypeOK, CallerType, ClientType
<1>15. SessionsOK'
  <2>1. \A t \in {pool, closing} \ {NoSession} : client'[t].handler
    BY <1>9, <1>11 DEF SessionsOK, TypeOK
  <2>2. \A t \in Sessions :
           /\ client'[t].process = "none" => client'[t] = Unborn
           /\ client'[t].pending \subseteq 1..requests'
           /\ client'[t].process = "up" => client'[t].reader # "none" /\ (client'[t].started \/ closing = t)
           /\ client'[t].handler \/ client'[t].cache = Nothing
    <3>1. client'[s].pending \subseteq 1..requests' /\ 1..requests \subseteq 1..requests'
      <4>1. requests' = requests + 1 /\ client'[s].pending = {requests + 1}
        BY <1>3, <1>6, <1>9
      <4> QED BY <1>2, <4>1
    <3> QED BY <1>6, <1>9, <3>1 DEF SessionsOK
  <2> QED BY <1>13, <2>1, <2>2 DEF SessionsOK
<1>16. CallersOK'
  <2> SUFFICES ASSUME NEW d \in Callers PROVE CallerOK(call[d])'
    BY DEF CallersOK
  <2>1. CallerOK(call[d]) /\ call[d] \in CallerType
    BY <1>2 DEF CallersOK
  <2>2. call[d].seen # NoSession => client'[call[d].seen].process = "dead" \/ closing = call[d].seen
    BY <1>9, <1>11, <2>1 DEF CallerOK, CallerType
  <2>3. CASE d = c
    <3>1. call'[d] = x /\ s # NoSession /\ x.req \in 1..requests'
      BY <1>2, <1>3, <1>5, <1>10, <2>3 DEF NoSession, Sessions
    <3> QED BY <1>5, <1>6, <1>9, <1>13, <2>2, <2>3, <3>1 DEF CallerOK
  <2>4. CASE d # c
    <3>1. call'[d] = call[d]
      BY <1>10, <2>4
    <3>2. call[d].pc = "stopping" => client'[call[d].s].handler
      BY <1>9, <1>11, <2>1 DEF CallerOK, CallerType
    <3>3. call[d].pc \in InUse => client'[call[d].s] = client[call[d].s]
      BY <1>9, <1>12
    <3> QED BY <1>2, <1>3, <1>13, <2>1, <2>2, <3>1, <3>2, <3>3 DEF CallerOK
  <2> QED BY <2>3, <2>4
<1>17. NothingShared'
  <2>1. \A d \in Callers : call[d].pc \in InFlight => call[d].req \in 1..requests
    BY DEF CallersOK, CallerOK
  <2>2. \A t \in Sessions : client[t].pending \subseteq 1..requests
    BY DEF SessionsOK
  <2>3. \A d \in Callers : call'[d].pc \in InUse =>
           \/ d = c /\ call'[d].s = s /\ call'[d].req = r
           \/ d # c /\ call'[d] = call[d] /\ call[d].s # s /\ client'[call[d].s] = client[call[d].s]
    BY <1>5, <1>9, <1>10, <1>12
  <2>4. \A t \in Sessions : client'[t].pending = IF t = s THEN {r} ELSE client[t].pending
    BY <1>6, <1>9
  <2>5. r \notin 1..requests
    BY <1>2
  <2> HIDE DEF r
  <2> QED BY <2>1, <2>2, <2>3, <2>4, <2>5 DEF NothingShared
<1>18. NobodyWaitsInVain'
  <2> SUFFICES ASSUME NEW d \in Callers, call'[d].pc \in {"sending", "waiting"}, call'[d].future = Open
               PROVE  /\ call'[d].req \in client'[call'[d].s].pending
                      /\ client'[call'[d].s].reader = "run" \/ call'[d].req \in late'
    BY DEF NobodyWaitsInVain
  <2>1. CASE d = c
    BY <1>5, <1>6, <1>9, <1>10, <2>1
  <2>2. CASE d # c
    BY <1>9, <1>10, <1>12, <1>13, <2>2 DEF NobodyWaitsInVain
  <2> QED BY <2>1, <2>2
<1>19. CancelsOnlyTheDead'
  <2> SUFFICES ASSUME NEW d \in Callers, call'[d].future = Cancelled
               PROVE  client'[call'[d].s].process = "dead" \/ closing' = call'[d].s
    BY DEF CancelsOnlyTheDead
  <2>1. d # c /\ call'[d] = call[d]
    BY <1>5, <1>10, FuturesDiffer
  <2>2. client'[call[d].s] = client[call[d].s]
    BY <1>9, <1>12, <2>1, CallerFacts, FuturesDiffer
  <2> QED BY <1>13, <2>1, <2>2 DEF CancelsOnlyTheDead
<1>20. Kept'
  <2> SUFFICES ASSUME NEW t \in Sessions, client'[t].process = "up"
               PROVE  \/ t \in replaced \/ t \in abandoned
                      \/ client'[t].handler /\ t \in {pool, closing}
                      \/ ~client'[t].handler /\ \E d \in Callers : call'[d].pc \in InUse /\ call'[d].s = t
    BY <1>13 DEF Kept
  <2>1. CASE t = s
    BY <1>5, <1>6, <1>9, <1>10, <2>1
  <2>2. CASE t # s
    <3>1. client'[t] = client[t]
      BY <1>9, <2>2
    <3>2. \A d \in Callers : call[d].pc \in InUse => call'[d] = call[d]
      BY <1>10, <1>12
    <3> QED BY <3>1, <3>2 DEF Kept
  <2> QED BY <2>1, <2>2
<1>21. StaleIsAnnounced'
  <2>1. \A t \in Sessions : t # s => (Announced(t)' <=> Announced(t))
    BY <1>9, <1>13 DEF Announced
  <2>2. \A v : Stale(v)' <=> Stale(v)
    BY <1>13 DEF Stale
  <2>3. \A d \in Callers : call'[d].pc \in InFlight /\ client'[call'[d].s].handler =>
            call'[d] = call[d] /\ call[d].s # s /\ call[d].s \in Sessions
    BY <1>5, <1>6, <1>9, <1>10, <1>12
  <2>4. client'[s].outbox = <<>> /\ client'[s].cache = Nothing
    BY <1>6, <1>9
  <2>5. \A t \in Sessions : t # s => client'[t] = client[t]
    BY <1>9
  <2>6. \A i \in DOMAIN <<>> : FALSE
    OBVIOUS
  <2> QED BY <2>1, <2>2, <2>3, <2>4, <2>5, <2>6 DEF StaleIsAnnounced
<1> QED BY <1>14, <1>15, <1>16, <1>17, <1>18, <1>19, <1>20, <1>21

(***************************************************************************)
(* The server's output.                                                    *)
(***************************************************************************)
LEMMA Appended ==
    ASSUME NEW q \in Seq(Line), NEW e \in Line
    PROVE  /\ Append(q, e) \in Seq(Line) /\ DOMAIN Append(q, e) = 1..Len(q) + 1 /\ DOMAIN q = 1..Len(q)
           /\ Len(q) \in Nat /\ Append(q, e)[Len(q) + 1] = e
           /\ \A i \in 1..Len(q) : Append(q, e)[i] = q[i]
OBVIOUS

LEMMA Dropped ==
    ASSUME NEW q \in Seq(Line), q # <<>>
    PROVE  /\ Tail(q) \in Seq(Line) /\ DOMAIN Tail(q) = 1..Len(q) - 1 /\ DOMAIN q = 1..Len(q)
           /\ Len(q) \in Nat \ {0} /\ Head(q) = q[1] /\ Head(q) \in Line
           /\ \A i \in 1..Len(q) - 1 : Tail(q)[i] = q[i + 1]
OBVIOUS

\* The server writes: nothing but outputs and inboxes changes, and no old listing is
\* written without a notification behind it.
LEMMA Writes ==
    ASSUME Inv, client' \in [Sessions -> ClientType],
           \A t \in Sessions :
              /\ <<client'[t].started, client'[t].process, client'[t].reader, client'[t].pending>>
                    = <<client[t].started, client[t].process, client[t].reader, client[t].pending>>
              /\ <<client'[t].handler, client'[t].cache>> = <<client[t].handler, client[t].cache>>
              /\ client'[t].process = "none" => client'[t] = client[t],
           version' \in 1..MaxVersion,
           UNCHANGED <<pool, respawns, call, requests, closing, late, abandoned, replaced, overtaken>>,
           StaleIsAnnounced'
    PROVE  Inv'
<1> USE DEF Inv
<1>1. \A t \in Sessions :
          /\ client'[t].started = client[t].started /\ client'[t].process = client[t].process
          /\ client'[t].reader = client[t].reader /\ client'[t].pending = client[t].pending
          /\ client'[t].handler = client[t].handler /\ client'[t].cache = client[t].cache
          /\ client'[t].process = "none" => client'[t] = client[t]
  OBVIOUS
<1>2. TypeOK'
  <2>1. {t \in Sessions : client'[t].handler} \subseteq {t \in Sessions : client'[t].process # "none"}
    BY <1>1 DEF TypeOK
  <2> QED BY <2>1 DEF TypeOK, ClientType
<1>3. SessionsOK'
  BY <1>1 DEF SessionsOK, TypeOK
<1>4. \A d \in Callers : call[d].s \in {NoSession} \cup Sessions /\ call[d].seen \in {NoSession} \cup Sessions
  BY DEF TypeOK
<1>5. CallersOK'
  BY <1>1, <1>4 DEF CallersOK, CallerOK, InUse, InFlight
<1>6. \A d \in Callers : call[d].pc \in InUse => call[d].s \in Sessions
  BY CallerFacts
<1>7. NothingShared'
  BY <1>1, <1>6 DEF NothingShared, InUse, InFlight
<1>8. NobodyWaitsInVain'
  BY <1>1, <1>6 DEF NobodyWaitsInVain, InUse, InFlight
<1>9. CancelsOnlyTheDead'
  <2>1. \A d \in Callers : call[d].future = Cancelled => call[d].s \in Sessions
    BY CallerFacts, FuturesDiffer
  <2> QED BY <1>1, <2>1 DEF CancelsOnlyTheDead
<1>10. Kept'
  BY <1>1 DEF Kept
<1> QED BY <1>2, <1>3, <1>5, <1>7, <1>8, <1>9, <1>10

LEMMA ServeOK == ASSUME Inv, NEW s \in Sessions, NEW r \in Requests, Serve(s, r) PROVE Inv'
<1> USE DEF Inv
<1>1. PICK v \in {Failure, version} :
        client' = [client EXCEPT ![s].inbox = @ \ {r}, ![s].outbox = Append(@, [req |-> r, value |-> v])]
  BY DEF Serve
<1> DEFINE e == [req |-> r, value |-> v]
           q == client[s].outbox
           l == [client[s] EXCEPT !.inbox = @ \ {r}, !.outbox = Append(@, e)]
<1>2. client \in [Sessions -> ClientType] /\ client[s] \in ClientType /\ q \in Seq(Line)
      /\ version \in 1..MaxVersion
  BY DEF TypeOK, ClientType
<1>3. e \in Line /\ e.req = r /\ e.value = v /\ r # Nothing /\ ~Stale(v)
  BY <1>2 DEF Line, Failure, Nothing, Requests, Stale
<1>4. Append(q, e) \in Seq(Line)
  BY <1>2, <1>3, Appended
<1>5. client' = [client EXCEPT ![s] = l]
  BY <1>1, <1>2
<1> HIDE DEF e
<1>6. l \in ClientType
  BY <1>2, <1>4 DEF ClientType
<1>7. client' \in [Sessions -> ClientType] /\ client'[s] = l /\ \A t \in Sessions : t # s => client'[t] = client[t]
  BY <1>2, <1>5, <1>6
<1>8. /\ <<client'[s].started, client'[s].process, client'[s].reader, client'[s].pending>>
            = <<client[s].started, client[s].process, client[s].reader, client[s].pending>>
      /\ <<client'[s].handler, client'[s].cache>> = <<client[s].handler, client[s].cache>>
      /\ client'[s].outbox = Append(q, e)
  BY <1>2, <1>7 DEF ClientType
<1>9. client[s].process = "up" /\ UNCHANGED <<pool, respawns, version, call, requests, closing, late, abandoned,
                                                replaced, overtaken>>
  BY DEF Serve, Listened
<1> HIDE DEF l
<1>10. StaleIsAnnounced'
  <2>1. \A t \in Sessions : Announced(t) => Announced(t)'
    <3> SUFFICES ASSUME NEW t \in Sessions, Announced(t) PROVE Announced(t)'
      OBVIOUS
    <3>1. CASE t = s
      BY <1>2, <1>3, <1>8, <1>9, <3>1, Appended DEF Announced
    <3>2. CASE t # s
      BY <1>7, <1>9, <3>2 DEF Announced
    <3> QED BY <3>1, <3>2
  <2>2. \A w : Stale(w)' <=> Stale(w)
    BY <1>9 DEF Stale
  <2>3. ASSUME NEW t \in Sessions, client'[t].process = "up", client'[t].reader = "run",
               NEW i \in DOMAIN client'[t].outbox, client'[t].outbox[i].req # Nothing,
               Stale(client[t].outbox[i].value)'
        PROVE  \E j \in DOMAIN client'[t].outbox : j > i /\ client'[t].outbox[j] = Notification
    <3>0. Stale(client'[t].outbox[i].value)
      BY <1>9, <2>3 DEF Stale
    <3>1. CASE t # s
      BY <1>7, <2>3, <3>0, <3>1 DEF StaleIsAnnounced
    <3>2. CASE t = s
      <4>1. i \in 1..Len(q) /\ client'[s].outbox[i] = q[i]
        <5>1. i # Len(q) + 1
          BY <1>2, <1>3, <1>8, <3>0, <3>2, Appended
        <5> QED BY <1>2, <1>3, <1>8, <2>3, <3>2, <5>1, Appended
      <4>2. PICK j \in DOMAIN q : j > i /\ q[j] = Notification
        <5>1. client[s].reader = "run" /\ i \in DOMAIN client[s].outbox
          BY <1>2, <4>1, Appended DEF Serve, Listened
        <5>2. client[s].outbox[i].req # Nothing /\ Stale(client[s].outbox[i].value)
          BY <2>3, <3>0, <3>2, <4>1
        <5> QED BY <1>9, <5>1, <5>2 DEF StaleIsAnnounced
      <4>3. DOMAIN q = 1..Len(q) /\ Len(q) \in Nat /\ DOMAIN client'[s].outbox = 1..Len(q) + 1
            /\ \A m \in 1..Len(q) : client'[s].outbox[m] = q[m]
        BY <1>2, <1>3, <1>8, Appended
      <4>4. j \in DOMAIN client'[s].outbox /\ client'[s].outbox[j] = Notification
        BY <4>2, <4>3
      <4> QED BY <3>2, <4>2, <4>4
    <3> QED BY <3>1, <3>2
  <2>4. \A t \in Sessions : client'[t].cache = client[t].cache /\ client'[t].process = client[t].process
           /\ client'[t].handler = client[t].handler
    BY <1>7, <1>8
  <2>5. \A d \in Callers : call[d].pc \in InFlight => call[d].s \in Sessions
    BY CallerFacts DEF InUse
  <2>6. \A t \in Sessions :
        client'[t].process = "up" /\ client'[t].reader = "run" =>
            \A i \in DOMAIN client'[t].outbox :
                client'[t].outbox[i].req # Nothing /\ Stale(client[t].outbox[i].value)' =>
                    \E j \in DOMAIN client'[t].outbox : j > i /\ client'[t].outbox[j] = Notification
    BY <2>3
  <2>7. \A t \in Sessions :
        (client'[t].cache # Nothing /\ Stale(client[t].cache)' /\ client'[t].process = "up") => Announced(t)'
    <3> SUFFICES ASSUME NEW t \in Sessions, client'[t].cache # Nothing, Stale(client[t].cache)',
                        client'[t].process = "up"
                 PROVE  Announced(t)'
      OBVIOUS
    <3>1. client[t].cache # Nothing /\ Stale(client[t].cache) /\ client[t].process = "up"
      BY <1>9, <2>4 DEF Stale
    <3> QED BY <2>1, <3>1 DEF StaleIsAnnounced
  <2>8. \A d \in Callers, w \in 0..MaxVersion :
        (/\ call'[d].pc \in InFlight /\ call'[d].want = "list" /\ call'[d].future = Answer(w) /\ Stale(w)'
         /\ client'[call'[d].s].handler /\ client'[call'[d].s].process = "up") => Announced(call[d].s)'
    <3> SUFFICES ASSUME NEW d \in Callers, NEW w \in 0..MaxVersion,
                        call'[d].pc \in InFlight, call'[d].want = "list", call'[d].future = Answer(w), Stale(w)',
                        client'[call'[d].s].handler, client'[call'[d].s].process = "up"
                 PROVE  Announced(call[d].s)'
      OBVIOUS
    <3>1. call' = call /\ Stale(w) /\ call[d].s \in Sessions
      BY <1>9, <2>2, <2>5
    <3> QED BY <2>1, <2>4, <3>1 DEF StaleIsAnnounced
  <2> QED BY <1>9, <2>6, <2>7, <2>8 DEF StaleIsAnnounced
<1>11. version' \in 1..MaxVersion
  BY <1>2, <1>9
<1> QED BY <1>7, <1>8, <1>9, <1>10, <1>11, Writes

LEMMA ChangeOK == ASSUME Inv, Change PROVE Inv'
<1> USE DEF Inv
<1>1. client \in [Sessions -> ClientType] /\ version \in 1..MaxVersion /\ version' = version + 1
      /\ version < MaxVersion
      /\ UNCHANGED <<pool, respawns, call, requests, closing, late, abandoned, replaced, overtaken>>
  BY DEF TypeOK, ClientType, Change
<1>2. Notification \in Line /\ Notification.req = Nothing
  BY <1>1 DEF Notification, Line, Nothing
<1>3. ASSUME NEW t \in Sessions
      PROVE  /\ client'[t] \in ClientType
             /\ <<client'[t].started, client'[t].process, client'[t].reader, client'[t].pending>>
                   = <<client[t].started, client[t].process, client[t].reader, client[t].pending>>
             /\ <<client'[t].handler, client'[t].cache>> = <<client[t].handler, client[t].cache>>
             /\ Listened(t) => client'[t].outbox = Append(client[t].outbox, Notification)
             /\ ~Listened(t) => client'[t] = client[t]
  <2>1. client[t] \in ClientType /\ client[t].outbox \in Seq(Line)
    BY <1>1 DEF ClientType
  <2>2. Append(client[t].outbox, Notification) \in Seq(Line)
    BY <1>2, <2>1, Appended
  <2>3. CASE Listened(t)
    <3> DEFINE l == [client[t] EXCEPT !.outbox = Append(@, Notification)]
    <3>1. client'[t] = l
      BY <2>3 DEF Change
    <3>2. l \in ClientType
      BY <2>1, <2>2 DEF ClientType
    <3> QED BY <2>1, <2>3, <3>1, <3>2 DEF ClientType
  <2>4. CASE ~Listened(t)
    BY <2>1, <2>4 DEF Change
  <2> QED BY <2>3, <2>4
<1>4. client' \in [Sessions -> ClientType]
  BY <1>3 DEF Change
<1>5. \A t \in Sessions : client'[t].process = "none" => client'[t] = client[t]
  BY <1>3 DEF Listened
<1>6. \A t \in Sessions : Listened(t) =>
         LET n == Len(client[t].outbox)
         IN /\ n \in Nat /\ DOMAIN client'[t].outbox = 1..n + 1 /\ client'[t].outbox[n + 1] = Notification
  <2> SUFFICES ASSUME NEW t \in Sessions, Listened(t)
               PROVE LET n == Len(client[t].outbox)
                     IN /\ n \in Nat /\ DOMAIN client'[t].outbox = 1..n + 1
                        /\ client'[t].outbox[n + 1] = Notification
    OBVIOUS
  <2>1. client[t].outbox \in Seq(Line)
    BY <1>1 DEF ClientType
  <2> QED BY <1>2, <1>3, <2>1, Appended
<1>7. \A t \in Sessions : client'[t].process = "up" => Announced(t)'
  <2> SUFFICES ASSUME NEW t \in Sessions, client'[t].process = "up" PROVE Announced(t)'
    OBVIOUS
  <2>1. CASE Listened(t)
    BY <1>6, <2>1 DEF Announced
  <2>2. CASE ~Listened(t)
    <3>1. client'[t] = client[t] /\ client[t].reader \in {"none", "run", "end"} /\ client[t].reader # "none"
      BY <1>1, <1>3, <2>2 DEF ClientType, SessionsOK
    <3> QED BY <2>2, <3>1 DEF Listened, Announced
  <2> QED BY <2>1, <2>2
<1>8. StaleIsAnnounced'
  <2>1. ASSUME NEW t \in Sessions, client'[t].process = "up", client'[t].reader = "run",
               NEW i \in DOMAIN client'[t].outbox, client'[t].outbox[i].req # Nothing
        PROVE  \E j \in DOMAIN client'[t].outbox : j > i /\ client'[t].outbox[j] = Notification
    <3>1. Listened(t)
      BY <1>3, <2>1 DEF Listened
    <3> QED BY <1>2, <1>6, <2>1, <3>1
  <2>2. \A d \in Callers : call'[d].pc \in InFlight => call'[d].s \in Sessions
    BY <1>1, CallerFacts DEF InUse
  <2>3. \A d \in Callers : call'[d].pc \in InFlight /\ client'[call'[d].s].process = "up" => Announced(call[d].s)'
    BY <1>1, <1>7, <2>2
  <2> QED BY <1>7, <2>1, <2>3 DEF StaleIsAnnounced
<1>9. version' \in 1..MaxVersion
  BY <1>1
<1> QED BY <1>1, <1>3, <1>4, <1>5, <1>8, <1>9, Writes

\* A line is read: an answer reaches who waits for it and nobody else, with the
\* notifications that were behind it still to be read; a notification empties the
\* cache, and a listing it overtook is known.
LEMMA ReadOK == ASSUME Inv, NEW s \in Sessions, Read(s) PROVE Inv'
<1> USE DEF Inv, InFlight, InUse
<1> DEFINE q == client[s].outbox
           line == Head(q)
           answers == /\ line.req \in client[s].pending
                      /\ call' = Resolved(call, {line.req}, Answer(line.value))
                      /\ overtaken' = overtaken
           notifies == /\ line = Notification /\ call' = call
                       /\ overtaken' = IF \E c \in Callers : /\ call[c].s = s /\ call[c].want = "list"
                                                             /\ call[c].future # Open
                                       THEN overtaken \cup {s} ELSE overtaken
           drops == line # Notification /\ line.req \notin client[s].pending /\ call' = call /\ overtaken' = overtaken
           l == [client[s] EXCEPT !.outbox = Tail(q),
                                  !.pending = IF answers THEN @ \ {line.req} ELSE @,
                                  !.cache = IF notifies /\ client[s].handler THEN Nothing ELSE @]
<1>1. client \in [Sessions -> ClientType] /\ client[s] \in ClientType /\ q \in Seq(Line)
      /\ call \in [Callers -> CallerType]
  BY DEF TypeOK, ClientType, CallerType
<1>2. q # <<>> /\ client[s].reader = "run"
      /\ UNCHANGED <<pool, respawns, version, requests, closing, late, abandoned, replaced>>
  BY DEF Read
<1>3. /\ Tail(q) \in Seq(Line) /\ DOMAIN Tail(q) = 1..Len(q) - 1 /\ DOMAIN q = 1..Len(q)
      /\ Len(q) \in Nat \ {0} /\ line = q[1] /\ line \in Line
      /\ \A i \in 1..Len(q) - 1 : Tail(q)[i] = q[i + 1]
  BY <1>1, <1>2, Dropped
<1>4. Nothing \notin client[s].pending /\ Notification.req = Nothing
  BY <1>1 DEF ClientType, Notification, Nothing, Requests
<1>5. /\ (answers /\ ~notifies) \/ (notifies /\ ~answers) \/ (drops /\ ~answers /\ ~notifies)
      /\ client' = [client EXCEPT ![s] = l]
  <2> DEFINE rest == [client EXCEPT ![s].outbox = Tail(@)]
  <2>1. rest = [client EXCEPT ![s] = [client[s] EXCEPT !.outbox = Tail(q)]]
    BY <1>1
  <2>2. CASE line.req \in client[s].pending /\ answers /\ client' = [rest EXCEPT ![s].pending = @ \ {line.req}]
    <3>1. line # Notification
      BY <1>4, <2>2
    <3> QED BY <1>1, <2>1, <2>2, <3>1 DEF ClientType
  <2>3. CASE notifies /\ client' = IF client[s].handler THEN [rest EXCEPT ![s].cache = Nothing] ELSE rest
    <3>1. ~answers
      BY <1>4, <2>3
    <3>2. CASE client[s].handler
      <4>1. client' = [rest EXCEPT ![s].cache = Nothing]
        BY <2>3, <3>2
      <4>2. notifies /\ client' = [client EXCEPT ![s] = [client[s] EXCEPT !.outbox = Tail(q), !.cache = Nothing]]
        BY <1>1, <2>1, <2>3, <4>1
      <4> HIDE DEF answers, notifies
      <4> QED BY <1>1, <2>3, <3>1, <3>2, <4>2 DEF ClientType
    <3>3. CASE ~client[s].handler
      <4>1. notifies /\ client' = [client EXCEPT ![s] = [client[s] EXCEPT !.outbox = Tail(q)]]
        BY <1>1, <2>1, <2>3, <3>3
      <4> HIDE DEF answers, notifies
      <4> QED BY <1>1, <2>3, <3>1, <3>3, <4>1 DEF ClientType
    <3> QED BY <3>2, <3>3
  <2>4. CASE drops /\ client' = rest
    <3>1. ~answers /\ ~notifies
      BY <2>4
    <3> QED BY <1>1, <2>1, <2>4, <3>1 DEF ClientType
  <2> QED BY <2>2, <2>3, <2>4 DEF Read
<1>6. l \in ClientType
  <2>1. Nothing \in 0..MaxVersion
    BY DEF Nothing
  <2> HIDE DEF answers, notifies, drops, line
  <2> QED BY <1>1, <1>3, <2>1 DEF ClientType
<1>7. client' \in [Sessions -> ClientType] /\ client'[s] = l /\ \A t \in Sessions : t # s => client'[t] = client[t]
  BY <1>1, <1>5, <1>6
<1>8. /\ client'[s].started = client[s].started /\ client'[s].process = client[s].process
      /\ client'[s].reader = client[s].reader /\ client'[s].handler = client[s].handler
      /\ client'[s].outbox = Tail(q)
      /\ client'[s].pending = (IF answers THEN client[s].pending \ {line.req} ELSE client[s].pending)
      /\ client'[s].cache = (IF notifies /\ client[s].handler THEN Nothing ELSE client[s].cache)
  <2> HIDE DEF answers, notifies, drops, line
  <2> QED BY <1>1, <1>7 DEF ClientType
<1>9. ASSUME NEW d \in Callers
      PROVE  \/ /\ call'[d] = call[d]
                /\ answers => ~(call[d].req = line.req /\ call[d].future = Open)
             \/ /\ answers /\ call[d].req = line.req /\ call[d].future = Open /\ call[d].pc \in InFlight
                /\ call[d].s = s
                /\ call'[d] = [call[d] EXCEPT !.future = Answer(line.value)]
  <2>1. CASE ~answers
    BY <1>5, <2>1
  <2>2. CASE answers /\ ~(call[d].req = line.req /\ call[d].future = Open)
    BY <2>2 DEF Resolved
  <2>3. CASE answers /\ call[d].req = line.req /\ call[d].future = Open
    <3>1. call[d].pc \in InFlight
      BY <1>4, <2>3, CallerFacts
    <3>2. call[d].s = s
      BY <2>3, <3>1 DEF NothingShared
    <3>3. call'[d] = [call[d] EXCEPT !.future = Answer(line.value)]
      BY <2>3 DEF Resolved
    <3> QED BY <2>3, <3>1, <3>2, <3>3
  <2> QED BY <2>1, <2>2, <2>3
<1>10. Answer(line.value) \in Futures /\ line.value \in 0..MaxVersion
  BY <1>3 DEF Futures, Line
<1>11. \A d \in Callers :
          /\ call'[d] \in CallerType
          /\ call'[d].pc = call[d].pc /\ call'[d].want = call[d].want /\ call'[d].s = call[d].s
          /\ call'[d].req = call[d].req /\ call'[d].count = call[d].count /\ call'[d].seen = call[d].seen
          /\ \/ call'[d] = call[d]
                /\ (answers => ~(call[d].req = line.req /\ call[d].future = Open))
             \/ answers /\ call[d].s = s /\ call[d].pc \in InFlight /\ call'[d].future = Answer(line.value)
  <2> SUFFICES ASSUME NEW d \in Callers
               PROVE  /\ call'[d] \in CallerType
                      /\ call'[d].pc = call[d].pc /\ call'[d].want = call[d].want /\ call'[d].s = call[d].s
                      /\ call'[d].req = call[d].req /\ call'[d].count = call[d].count
                      /\ call'[d].seen = call[d].seen
                      /\ \/ call'[d] = call[d]
                            /\ (answers => ~(call[d].req = line.req /\ call[d].future = Open))
                         \/ answers /\ call[d].s = s /\ call[d].pc \in InFlight
                            /\ call'[d].future = Answer(line.value)
    OBVIOUS
  <2> HIDE DEF answers, line
  <2>1. call[d] \in CallerType
    BY <1>1
  <2>2. CASE call'[d] = call[d] /\ (answers => ~(call[d].req = line.req /\ call[d].future = Open))
    BY <2>1, <2>2
  <2>3. CASE /\ answers /\ call[d].pc \in InFlight /\ call[d].s = s
             /\ call'[d] = [call[d] EXCEPT !.future = Answer(line.value)]
    <3> DEFINE x == [call[d] EXCEPT !.future = Answer(line.value)]
    <3>1. x \in CallerType /\ <<x.pc, x.want, x.s, x.req, x.count, x.seen, x.future>>
             = <<call[d].pc, call[d].want, call[d].s, call[d].req, call[d].count, call[d].seen, Answer(line.value)>>
      BY <1>10, <2>1 DEF CallerType
    <3>2. call'[d] = x
      BY <2>3
    <3> HIDE DEF x
    <3> QED BY <2>3, <3>1, <3>2
  <2> QED BY <1>9, <2>2, <2>3
<1>12. overtaken \subseteq overtaken'
  BY <1>5
<1> HIDE DEF l
<1>14. \A t \in Sessions :
          /\ client'[t].started = client[t].started /\ client'[t].process = client[t].process
          /\ client'[t].reader = client[t].reader /\ client'[t].handler = client[t].handler
          /\ client'[t].pending \subseteq client[t].pending
          /\ \/ client'[t].pending = client[t].pending
             \/ answers /\ client[t].pending \ {line.req} \subseteq client'[t].pending
          /\ client'[t].cache \in {client[t].cache, Nothing}
          /\ t = s /\ notifies /\ client[t].handler => client'[t].cache = Nothing
          /\ t # s => client'[t] = client[t]
  <2> HIDE DEF answers, notifies, drops, line
  <2> QED BY <1>7, <1>8
<1>13. TypeOK'
  <2>1. {t \in Sessions : client'[t].handler} \subseteq {t \in Sessions : client'[t].process # "none"}
    BY <1>14 DEF TypeOK
  <2>2. call' \in [Callers -> CallerType]
    <3>1. CASE call' = call
      BY <1>1, <3>1
    <3>2. CASE answers
      BY <1>11, <3>2 DEF Resolved
    <3> QED BY <1>5, <3>1, <3>2
  <2> QED BY <1>2, <1>7, <2>1, <2>2 DEF TypeOK, CallerType, ClientType
<1>15. client[s].process # "none"
  BY <1>2 DEF SessionsOK, Unborn
<1> HIDE DEF answers, notifies, drops, line
<1>16. \A d \in Callers : call[d].s \in {NoSession} \cup Sessions /\ call[d].seen \in {NoSession} \cup Sessions
  BY DEF TypeOK
<1>17. SessionsOK'
  BY <1>2, <1>7, <1>14, <1>15 DEF SessionsOK, TypeOK
<1>18. CallersOK'
  <2> SUFFICES ASSUME NEW d \in Callers PROVE CallerOK(call[d])'
    BY DEF CallersOK
  <2>1. CallerOK(call[d])
    BY DEF CallersOK
  <2>2. call'[d] = call[d] \/ call'[d].pc \in InFlight
    BY <1>11
  <2> QED BY <1>2, <1>11, <1>14, <1>16, <2>1, <2>2 DEF CallerOK
<1>19. \A d \in Callers : call'[d].pc \in InUse =>
          call[d].pc = call'[d].pc /\ call'[d].s = call[d].s /\ call'[d].req = call[d].req /\ call[d].s \in Sessions
  BY <1>11, CallerFacts
<1>20. NothingShared'
  BY <1>14, <1>19 DEF NothingShared
<1>21. NobodyWaitsInVain'
  <2> SUFFICES ASSUME NEW d \in Callers, call'[d].pc \in {"sending", "waiting"}, call'[d].future = Open
               PROVE  /\ call'[d].req \in client'[call'[d].s].pending
                      /\ client'[call'[d].s].reader = "run" \/ call'[d].req \in late'
    BY DEF NobodyWaitsInVain
  <2>1. call'[d] = call[d] /\ (answers => call[d].req # line.req)
    BY <1>11, FuturesDiffer
  <2> QED BY <1>2, <1>14, <1>19, <2>1 DEF NobodyWaitsInVain
<1>22. CancelsOnlyTheDead'
  <2> SUFFICES ASSUME NEW d \in Callers, call'[d].future = Cancelled
               PROVE  client'[call'[d].s].process = "dead" \/ closing' = call'[d].s
    BY DEF CancelsOnlyTheDead
  <2>1. call'[d] = call[d]
    BY <1>11, FuturesDiffer
  <2>2. call[d].s \in Sessions
    BY <2>1, CallerFacts, FuturesDiffer
  <2> QED BY <1>2, <1>14, <2>1, <2>2 DEF CancelsOnlyTheDead
<1>23. Kept'
  <2>1. \A d \in Callers : call[d].pc \in InUse => call'[d].pc \in InUse /\ call'[d].s = call[d].s
    BY <1>11
  <2> QED BY <1>2, <1>14, <2>1 DEF Kept
<1>24. StaleIsAnnounced'
  <2>1. \A i \in DOMAIN Tail(q) : i + 1 \in DOMAIN q /\ Tail(q)[i] = q[i + 1]
    BY <1>3
  <2>2. \A j \in DOMAIN q : j > 1 => j - 1 \in DOMAIN Tail(q) /\ Tail(q)[j - 1] = q[j]
    <3> SUFFICES ASSUME NEW j \in DOMAIN q, j > 1 PROVE j - 1 \in DOMAIN Tail(q) /\ Tail(q)[j - 1] = q[j]
      OBVIOUS
    <3>1. j - 1 \in 1..Len(q) - 1 /\ (j - 1) + 1 = j
      BY <1>3
    <3> QED BY <1>3, <3>1
  <2>3. DOMAIN q \subseteq Nat /\ DOMAIN Tail(q) \subseteq Nat
    BY <1>3
  <2>4. \A v : Stale(v)' <=> Stale(v)
    BY <1>2 DEF Stale
  <2>5. \A t \in Sessions : t # s /\ Announced(t) => Announced(t)'
    BY <1>7, <1>12 DEF Announced
  <2>6. ~notifies /\ Announced(s) => Announced(s)'
    <3> SUFFICES ASSUME ~notifies, Announced(s) PROVE Announced(s)'
      OBVIOUS
    <3>1. line # Notification
      BY <1>4, <1>5 DEF answers, drops
    <3>2. CASE \E j \in DOMAIN q : q[j] = Notification
      <4>1. PICK j \in DOMAIN q : q[j] = Notification
        BY <3>2
      <4>2. j > 1
        BY <1>3, <3>1, <4>1
      <4> QED BY <1>8, <2>2, <4>1, <4>2 DEF Announced
    <3>3. CASE client[s].reader = "end" \/ s \in overtaken
      BY <1>8, <1>12, <3>3 DEF Announced
    <3> QED BY <3>2, <3>3 DEF Announced
  <2>7. ASSUME client[s].process = "up", NEW i \in DOMAIN q, q[i].req # Nothing, Stale(q[i].value)
        PROVE  \E j \in DOMAIN Tail(q) : j > i - 1 /\ Tail(q)[j] = Notification
    <3>1. PICK j \in DOMAIN q : j > i /\ q[j] = Notification
      BY <1>2, <2>7 DEF StaleIsAnnounced
    <3>2. j > 1 /\ j - 1 > i - 1
      BY <1>3, <3>1
    <3> QED BY <2>2, <3>1, <3>2
  <2>8. \A t \in Sessions :
        client'[t].process = "up" /\ client'[t].reader = "run" =>
            \A i \in DOMAIN client'[t].outbox :
                client'[t].outbox[i].req # Nothing /\ Stale(client[t].outbox[i].value)' =>
                    \E j \in DOMAIN client'[t].outbox : j > i /\ client'[t].outbox[j] = Notification
    <3> SUFFICES ASSUME NEW t \in Sessions, client'[t].process = "up", client'[t].reader = "run",
                        NEW i \in DOMAIN client'[t].outbox, client'[t].outbox[i].req # Nothing,
                        Stale(client[t].outbox[i].value)'
                 PROVE  \E j \in DOMAIN client'[t].outbox : j > i /\ client'[t].outbox[j] = Notification
      OBVIOUS
    <3>0. Stale(client'[t].outbox[i].value)
      BY <1>2 DEF Stale
    <3>1. CASE t # s
      BY <1>7, <3>0, <3>1 DEF StaleIsAnnounced
    <3>2. CASE t = s
      <4>1. i \in DOMAIN Tail(q) /\ i \in Nat /\ i + 1 \in DOMAIN q /\ client'[s].outbox[i] = q[i + 1]
        BY <1>8, <2>1, <2>3, <3>2
      <4>2. q[i + 1].req # Nothing /\ Stale(q[i + 1].value) /\ client[s].process = "up"
        BY <1>8, <3>0, <3>2, <4>1
      <4>3. PICK j \in DOMAIN Tail(q) : j > (i + 1) - 1 /\ Tail(q)[j] = Notification
        BY <2>7, <4>1, <4>2
      <4>4. j > i
        BY <2>3, <4>1, <4>3
      <4> QED BY <1>8, <3>2, <4>3, <4>4
    <3> QED BY <3>1, <3>2
  <2>9. \A d \in Callers, v \in 0..MaxVersion :
        (/\ call'[d].pc \in InFlight /\ call'[d].want = "list" /\ call'[d].future = Answer(v) /\ Stale(v)'
         /\ client'[call'[d].s].handler /\ client'[call'[d].s].process = "up") => Announced(call[d].s)'
    <3> SUFFICES ASSUME NEW d \in Callers, NEW v \in 0..MaxVersion,
                        call'[d].pc \in InFlight, call'[d].want = "list", call'[d].future = Answer(v), Stale(v)',
                        client'[call'[d].s].handler, client'[call'[d].s].process = "up"
                 PROVE  Announced(call[d].s)'
      OBVIOUS
    <3>0. call'[d].s = call[d].s /\ call[d].s \in Sessions /\ call[d].pc \in InFlight /\ call[d].want = "list"
          /\ client[call[d].s].handler /\ client[call[d].s].process = "up" /\ Stale(v)
      BY <1>11, <1>14, <1>19, <2>4
    <3>1. CASE call'[d] = call[d]
      <4>1. Announced(call[d].s)
        BY <3>0, <3>1 DEF StaleIsAnnounced
      <4>2. CASE call[d].s = s /\ notifies
        <5>1. call[d].future # Open
          BY <3>1, FuturesDiffer
        <5>2. s \in overtaken'
          BY <3>0, <4>2, <5>1 DEF notifies
        <5>3. Announced(s)'
          BY <5>2 DEF Announced
        <5> QED BY <3>0, <4>2, <5>3
      <4> QED BY <2>5, <2>6, <3>0, <4>1, <4>2
    <3>2. CASE answers /\ call[d].s = s /\ call'[d].future = Answer(line.value)
      <4>1. line.value = v /\ line.req # Nothing
        BY <1>4, <3>2, FuturesDiffer DEF answers
      <4>2. 1 \in DOMAIN q /\ q[1].req # Nothing /\ Stale(q[1].value)
        BY <1>3, <3>0, <4>1
      <4>3. \E j \in DOMAIN Tail(q) : Tail(q)[j] = Notification
        BY <2>7, <3>0, <3>2, <4>2
      <4>4. Announced(s)'
        BY <1>8, <4>3 DEF Announced
      <4> QED BY <3>0, <3>2, <4>4
    <3> QED BY <1>11, <3>1, <3>2
  <2>10. \A t \in Sessions :
        (client'[t].cache # Nothing /\ Stale(client[t].cache)' /\ client'[t].process = "up") => Announced(t)'
    <3> SUFFICES ASSUME NEW t \in Sessions, client'[t].cache # Nothing, Stale(client[t].cache)',
                        client'[t].process = "up"
                 PROVE  Announced(t)'
      OBVIOUS
    <3>1. Stale(client'[t].cache)
      BY <1>2 DEF Stale
    <3>2. ~(t = s /\ notifies)
      BY <1>14 DEF SessionsOK
    <3>3. Announced(t)
      BY <1>14, <3>1, <3>2 DEF StaleIsAnnounced
    <3> QED BY <2>5, <2>6, <3>2, <3>3
  <2>11. \A d \in Callers : call'[d].s = call[d].s
    BY <1>11
  <2> QED BY <2>8, <2>9, <2>10, <2>11 DEF StaleIsAnnounced
<1> QED BY <1>13, <1>17, <1>18, <1>20, <1>21, <1>22, <1>23, <1>24

(***************************************************************************)
(* The theorems.                                                           *)
(***************************************************************************)
LEMMA InitOK == Init => Inv
<1> SUFFICES ASSUME Init PROVE Inv
  OBVIOUS
<1> USE DEF Init
<1>1. Unborn \in ClientType
  <2>1. <<>> \in Seq(Line) /\ Nothing \in 0..MaxVersion
    BY DEF Nothing
  <2> QED BY <2>1 DEF Unborn, ClientType
<1>2. /\ Unborn.process = "none" /\ Unborn.handler = FALSE /\ Unborn.pending = {} /\ Unborn.cache = Nothing
      /\ \A s \in Sessions : client[s] = Unborn
  BY DEF Unborn
<1>3. \A c \in Callers : call[c] = Idle
  OBVIOUS
<1>4. Idle \in CallerType /\ CallerOK(Idle) /\ Idle.pc = "idle" /\ Idle.future = Open
  BY IdleIsOK
<1>5. TypeOK
  <2>1. client \in [Sessions -> ClientType] /\ call \in [Callers -> CallerType]
    BY <1>1, <1>4
  <2>2. {s \in Sessions : client[s].handler} \subseteq {s \in Sessions : client[s].process # "none"}
    BY <1>2
  <2> QED BY <2>1, <2>2 DEF TypeOK, CallerType, ClientType
<1>6. SessionsOK
  BY <1>2 DEF SessionsOK
<1>7. CallersOK
  BY <1>3, <1>4 DEF CallersOK
<1>8. Open # Cancelled
  BY FuturesDiffer
<1>9. NothingShared /\ NobodyWaitsInVain /\ CancelsOnlyTheDead
  BY <1>3, <1>4, <1>8 DEF NothingShared, NobodyWaitsInVain, CancelsOnlyTheDead, InUse, InFlight
<1>10. Kept
  BY <1>2 DEF Kept
<1>11. StaleIsAnnounced
  BY <1>2, <1>3, <1>4 DEF StaleIsAnnounced, InFlight
<1> QED BY <1>5, <1>6, <1>7, <1>9, <1>10, <1>11 DEF Inv

LEMMA StepOK == Inv /\ [Next]_vars => Inv'
<1> SUFFICES ASSUME Inv, [Next]_vars PROVE Inv'
  OBVIOUS
<1>1. ASSUME NEW c \in Callers, Act(c) PROVE Inv'
  BY <1>1, GetOK, StoppedOK, SpawnedOK, SpawnFailsOK, DrainedOK, DrainFailsOK, RequestTimesOutOK, FailsOK,
     ResumeOK, RegisterOK, CancelOK DEF Act
<1>2. ASSUME NEW s \in Sessions, Read(s) \/ ReaderEnds(s) \/ Exit(s) \/ \E r \in Requests : Serve(s, r)
      PROVE  Inv'
  BY <1>2, ReadOK, ReaderEndsOK, ExitOK, ServeOK
<1>3. CASE Change \/ Shutdown \/ ShutDown
  BY <1>3, ChangeOK, ShutdownOK, ShutDownOK
<1>4. CASE UNCHANGED vars
  BY <1>4 DEF vars, Inv, TypeOK, SessionsOK, CallersOK, CallerOK, NothingShared, NobodyWaitsInVain,
              CancelsOnlyTheDead, Kept, StaleIsAnnounced, Stale, Announced, InUse, InFlight
<1> QED BY <1>1, <1>2, <1>3, <1>4 DEF Next

\* The inductive invariant, from the first session on.
THEOREM Invariance == Spec => []Inv
<1> QED BY InitOK, StepOK, PTL DEF Spec

\* Every request in flight ends with its caller told: it is in the table that its
\* session's reader answers from or clears when it ends, unless that reader was gone
\* before it was sent; and only a stop of a dead process, or shutdown, cancels it.
THEOREM CallersStayTold == Spec => []CallersAreTold
<1>1. Inv => CallersAreTold
  BY DEF Inv, CallersAreTold
<1> QED BY <1>1, Invariance, PTL

\* A cached listing is the server's, or the notification of the change is still to be
\* read, the reader is gone, or the listing was overtaken on its way to the cache.
THEOREM ListingsStayFresh == Spec => []CacheFresh
<1>1. Inv => CacheFresh
  BY DEF Inv, StaleIsAnnounced, Stale, Announced, CacheFresh, Failure, Nothing
<1> QED BY <1>1, Invariance, PTL

\* A server process that runs has somebody who will stop it: the pool, shutdown or its
\* starter; unless a second start replaced it or its starter was cancelled.
THEOREM ProcessesStayOwned == Spec => []NoOrphans
<1>1. Inv => NoOrphans
  BY DEF Inv, Kept, NoOrphans, InUse, InFlight
<1> QED BY <1>1, Invariance, PTL
=============================================================================
