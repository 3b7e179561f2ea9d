-------------------------- MODULE QueryRouteProofs --------------------------
(* Theorems of QueryRoute, for any keys, queries, requests and branches, of the
   ReasoningLoop that a pass of a request runs, for any budget, and of the functions
   that decide what a pass may read, send and accept (Governance, Ranking, McpServer),
   for any input. *)
EXTENDS QueryRoute, ReasoningLoop, Governance, Ranking, McpServer, TLAPS

USE RouteAssumption

\* A request that may still save a turn has not failed, has sent done if it is a
\* stream, and looked at the thread as its owner or before there was one, or failed to.
Sound(x, owner) ==
    /\ x.pc # "end" => x.failure = "none"
    /\ x.pc = "answered" => ~x.stream
    /\ x.pc = "save" /\ x.stream => x.done
    /\ x.pc \in {"fast", "work", "answered", "save"} => x.early \/ x.unread \/ x.key \in owner

\* The request behind a turn is over, so nothing that is said of it changes.
Complete(t, x, owner) ==
    /\ x \in Handler /\ x.pc = "end" /\ x.failure = "none" /\ t.text = x.text
    /\ x.stream => x.done /\ t.text # <<>>
    /\ t.key \in owner \/ x.early \/ x.unread

RequestsSound == \A h \in Handlers : handler[h] # NoHandler => Sound(handler[h], thread.owner)
TurnsComplete ==
    \A i \in DOMAIN thread.turns : Complete(thread.turns[i], handler[thread.turns[i].by], thread.owner)

Inv == TypeOK /\ RequestsSound /\ TurnsComplete

\* A request that goes on.
LEMMA Goes ==
    ASSUME Inv, NEW h \in Handlers, handler[h] \in Handler \cup {NoHandler},
           handler[h] # NoHandler => handler[h].pc # "end",
           handler' = [handler EXCEPT ![h] = handler'[h]],
           handler'[h] \in Handler, Sound(handler'[h], thread.owner),
           client' \in [Queries -> [on : {{}} \cup {{g} : g \in Handlers},
                                    saw : {"nothing", "done", "error"}]],
           cache' \subseteq Queries, lost' \subseteq Queries, thread' = thread
    PROVE  Inv'
<1> USE DEF Inv
<1>1. \A g \in Handlers : g # h => handler'[g] = handler[g]
  BY DEF TypeOK
<1>2. TypeOK'
  BY DEF TypeOK
<1>3. RequestsSound'
  BY <1>1 DEF RequestsSound
<1>4. TurnsComplete'
  <2> SUFFICES ASSUME NEW i \in DOMAIN thread.turns
               PROVE  Complete(thread.turns[i], handler'[thread.turns[i].by], thread.owner)
    BY DEF TurnsComplete
  <2>1. thread.turns[i].by \in Handlers
    <3>1. thread.turns \in Seq(Turn)
      BY DEF TypeOK
    <3>2. thread.turns[i] \in Turn
      BY <3>1
    <3> QED BY <3>2 DEF Turn
  <2>2. Complete(thread.turns[i], handler[thread.turns[i].by], thread.owner)
    BY DEF TurnsComplete
  <2>3. handler[thread.turns[i].by].pc = "end" /\ handler[thread.turns[i].by] # NoHandler
    BY <2>2 DEF Complete, NoHandler, Handler
  <2> QED BY <1>1, <2>1, <2>2, <2>3
<1> QED BY <1>2, <1>3, <1>4

Clients == [Queries -> [on : {{}} \cup {{g} : g \in Handlers}, saw : {"nothing", "done", "error"}]]

\* The client that listens is told how its request ends.
LEMMA ToldType ==
    ASSUME TypeOK, NEW h \in Handlers, handler[h] \in Handler, NEW what \in {"done", "error"},
           Told(h, what)
    PROVE  client' \in Clients
<1>1. handler[h].q \in Queries
  BY DEF Handler
<1>2. [on |-> {}, saw |-> what] \in [on : {{}} \cup {{g} : g \in Handlers}, saw : {"nothing", "done", "error"}]
  OBVIOUS
<1> QED BY <1>1, <1>2 DEF Told, TypeOK, Clients

\* A request that fails.
LEMMA FailedKeeps ==
    ASSUME Inv, NEW h \in Handlers, handler[h] \in Handler, handler[h].pc # "end",
           NEW why \in {"timeout", "error", "forbidden"}, Failed(h, why),
           UNCHANGED <<thread, cache, lost>>
    PROVE  Inv'
<1>1. client' \in Clients
  BY ToldType DEF Failed, Inv
<1>2. /\ handler' = [handler EXCEPT ![h] = handler'[h]]
      /\ handler'[h] = [handler[h] EXCEPT !.pc = "end", !.failure = why]
  BY DEF Failed, Inv, TypeOK
<1>3. handler'[h] \in Handler /\ handler'[h].pc = "end"
  BY <1>2 DEF Handler, Steps
<1>4. Sound(handler'[h], thread.owner)
  BY <1>3 DEF Sound
<1> QED BY <1>1, <1>2, <1>3, <1>4, Goes DEF Clients, Inv, TypeOK

\* A request moves on and the stores stay.
LEMMA MovedKeeps ==
    ASSUME Inv, NEW h \in Handlers, handler[h] \in Handler, handler[h].pc # "end",
           NEW x \in Handler, handler' = [handler EXCEPT ![h] = x], Sound(x, thread.owner),
           client' \in Clients, cache' \subseteq Queries, lost' \subseteq Queries, thread' = thread
    PROVE  Inv'
<1>1. handler'[h] = x
  BY DEF Inv, TypeOK
<1> QED BY <1>1, Goes DEF Clients

LEMMA AppendFacts ==
    ASSUME NEW S, NEW q \in Seq(S), NEW v \in S
    PROVE  /\ Append(q, v) \in Seq(S) /\ Append(q, v) # <<>>
           /\ Len(q) \in Nat /\ Len(Append(q, v)) = Len(q) + 1
           /\ DOMAIN q = 1..Len(q) /\ DOMAIN Append(q, v) = 1..(Len(q) + 1)
           /\ Append(q, v)[Len(q) + 1] = v
           /\ \A i \in 1..Len(q) : Append(q, v)[i] = q[i] /\ q[i] \in S
OBVIOUS

\* A request that ends with what it had to say, with its turn or without.
LEMMA SaveKeeps ==
    ASSUME Inv, NEW h \in Handlers, At(h, "save"), Moved(h, "end"),
           client' \in Clients, cache' \subseteq Queries, lost' \subseteq Queries,
           \/ thread' = thread
           \/ /\ thread' = WithTurn(h)
              /\ handler[h].stream => handler[h].text # <<>>
    PROVE  Inv'
<1> DEFINE x == handler[h]
           y == [x EXCEPT !.pc = "end"]
           t == [q |-> x.q, key |-> x.key, by |-> h, text |-> x.text]
<1>1. x \in Handler /\ x # NoHandler
  BY DEF At, Inv, TypeOK, NoHandler
<1>2. y \in Handler /\ handler' = [handler EXCEPT ![h] = y] /\ y.pc = "end"
  BY <1>1 DEF Moved, Handler, Steps
<1>3. x.failure = "none" /\ (x.stream => x.done) /\ (x.early \/ x.unread \/ x.key \in thread.owner)
  BY <1>1 DEF At, Inv, RequestsSound, Sound
<1>4. CASE thread' = thread
  <2>1. Sound(y, thread.owner)
    BY <1>2 DEF Sound
  <2> QED BY <1>1, <1>2, <1>4, <2>1, MovedKeeps DEF At
<1>5. CASE thread' = WithTurn(h) /\ (x.stream => x.text # <<>>)
  <2> DEFINE old == thread.turns
             owner == IF thread = NoThread THEN {x.key} ELSE thread.owner
  <2>1. /\ old \in Seq(Turn) /\ thread.owner \in SUBSET Keys
        /\ (thread.owner = {}) = (old = <<>>)
    BY DEF Inv, TypeOK
  <2>2. t \in Turn /\ x.key \in Keys
    BY <1>1 DEF Turn, Handler
  <2>3. thread' = [owner |-> owner, turns |-> Append(old, t)]
    BY <1>5 DEF WithTurn
  <2>4. /\ thread'.turns = Append(old, t) /\ thread'.owner = owner
        /\ Append(old, t) \in Seq(Turn) /\ Append(old, t) # <<>>
        /\ Len(Append(old, t)) = Len(old) + 1 /\ Len(old) \in Nat
        /\ Append(old, t)[Len(old) + 1] = t
        /\ \A i \in 1..Len(old) : Append(old, t)[i] = old[i] /\ old[i] \in Turn
        /\ DOMAIN Append(old, t) = 1..(Len(old) + 1) /\ DOMAIN old = 1..Len(old)
    <3>1. thread'.turns = Append(old, t) /\ thread'.owner = owner
      BY <2>3
    <3> HIDE DEF old, t
    <3> QED BY <2>1, <2>2, <3>1, AppendFacts
  <2>5. owner # {} /\ owner \in SUBSET Keys /\ thread.owner \subseteq owner
    <3>1. CASE thread = NoThread
      BY <2>2, <3>1 DEF NoThread
    <3>2. CASE thread # NoThread
      <4>1. thread = [owner |-> thread.owner, turns |-> thread.turns]
        BY DEF Inv, TypeOK
      <4>2. thread.owner # {}
        BY <2>1, <3>2, <4>1 DEF NoThread
      <4> QED BY <2>1, <3>2, <4>2
    <3> QED BY <3>1, <3>2
  <2>9. thread = NoThread => x.key \in owner
    OBVIOUS
  <2> HIDE DEF owner
  <2>6. TypeOK'
    <3>1. thread' \in [owner : SUBSET Keys, turns : Seq(Turn)]
      BY <2>3, <2>4, <2>5
    <3>2. (thread'.owner = {}) = (thread'.turns = <<>>)
      BY <2>4, <2>5
    <3>3. handler' \in [Handlers -> Handler \cup {NoHandler}]
      BY <1>2 DEF Inv, TypeOK
    <3> QED BY <3>1, <3>2, <3>3 DEF TypeOK, Clients
  <2>7. RequestsSound'
    <3> SUFFICES ASSUME NEW g \in Handlers, handler'[g] # NoHandler
                 PROVE  Sound(handler'[g], owner)
      BY <2>4 DEF RequestsSound
    <3>1. CASE g = h
      BY <1>2, <3>1 DEF Sound, Inv, TypeOK
    <3>2. CASE g # h
      <4>1. handler'[g] = handler[g]
        BY <1>2, <3>2 DEF Inv, TypeOK
      <4>2. Sound(handler[g], thread.owner)
        BY <4>1 DEF Inv, RequestsSound
      <4> QED BY <2>5, <4>1, <4>2 DEF Sound
    <3> QED BY <3>1, <3>2
  <2>8. TurnsComplete'
    <3> SUFFICES ASSUME NEW i \in 1..(Len(old) + 1)
                 PROVE  Complete(Append(old, t)[i], handler'[Append(old, t)[i].by], owner)
      BY <2>4 DEF TurnsComplete
    <3>1. CASE i = Len(old) + 1
      <4>1. handler'[h] = y /\ Append(old, t)[i] = t /\ t.by = h /\ t.key = x.key /\ t.text = x.text
        BY <1>2, <2>4, <3>1 DEF Inv, TypeOK
      <4>2. y.failure = x.failure /\ y.text = x.text /\ y.stream = x.stream /\ y.done = x.done
            /\ y.early = x.early /\ y.unread = x.unread
        BY <1>1 DEF Handler
      <4>3. t.key \in owner \/ y.early \/ y.unread
        BY <1>3, <2>5, <4>1, <4>2, <2>9
      <4>4. y \in Handler /\ y.pc = "end" /\ y.failure = "none" /\ t.text = y.text
        BY <1>2, <1>3, <4>1, <4>2
      <4>5. y.stream => y.done /\ t.text # <<>>
        BY <1>3, <1>5, <4>1, <4>2
      <4> HIDE DEF x, y, t
      <4>6. Complete(t, y, owner)
        BY <4>3, <4>4, <4>5 DEF Complete
      <4> QED BY <4>1, <4>6
    <3>2. CASE i \in 1..Len(old)
      <4>1. Append(old, t)[i] = old[i] /\ old[i].by \in Handlers
        BY <2>4, <3>2 DEF Turn
      <4>2. Complete(old[i], handler[old[i].by], thread.owner)
        BY <2>4, <3>2 DEF Inv, TurnsComplete
      <4>3. old[i].by # h
        BY <4>2 DEF At, Complete
      <4>4. handler'[old[i].by] = handler[old[i].by]
        BY <1>2, <4>1, <4>3 DEF Inv, TypeOK
      <4> QED BY <2>5, <4>1, <4>2, <4>4 DEF Complete
    <3> QED BY <2>4, <3>1, <3>2
  <2> QED BY <2>6, <2>7, <2>8 DEF Inv
<1> QED BY <1>4, <1>5

LEMMA Busy ==
    ASSUME Inv, NEW h \in Handlers, handler[h].pc \in Steps
    PROVE  handler[h] \in Handler /\ Sound(handler[h], thread.owner)
<1>1. handler[h] # NoHandler
  BY DEF NoHandler, Steps
<1> QED BY <1>1 DEF Inv, TypeOK, RequestsSound

\* The clients' steps.
LEMMA AskKeeps ==
    ASSUME Inv, NEW h \in Handlers, NEW q \in Queries, NEW k \in Keys, NEW s \in BOOLEAN,
           NextFree(h), handler' = [handler EXCEPT ![h] = Fresh(q, k, s)],
           client' = [client EXCEPT ![q].on = {h}], UNCHANGED <<thread, cache, lost>>
    PROVE  Inv'
<1>1. 1 \in 1..MaxPasses /\ <<>> \in Text
  BY RouteAssumption DEF Text
<1>2. [b \in Branches |-> "runs"] \in [Branches -> {"runs", "answer", "silent", "failed"}]
  OBVIOUS
<1>3. Fresh(q, k, s) \in Handler
  BY <1>1, <1>2, Zenon DEF Fresh, Handler, Steps
<1>4. Fresh(q, k, s).pc = "load" /\ Fresh(q, k, s).failure = "none"
  BY DEF Fresh
<1>5. Sound(Fresh(q, k, s), thread.owner)
  BY <1>4 DEF Sound
<1>6. client' \in Clients
  BY DEF Inv, TypeOK, Clients
<1>7. handler'[h] = Fresh(q, k, s)
  BY DEF Inv, TypeOK
<1> QED BY <1>3, <1>5, <1>6, <1>7, Goes DEF NextFree, Clients, Inv, TypeOK

LEMMA LeaveKeeps ==
    ASSUME Inv, NEW q \in Queries, Leave(q)
    PROVE  Inv'
<1>1. client' \in Clients
  <2>1. [on |-> {}, saw |-> "error"] \in [on : {{}} \cup {{g} : g \in Handlers}, saw : {"nothing", "done", "error"}]
    OBVIOUS
  <2> QED BY <2>1 DEF Leave, Inv, TypeOK, Clients
<1>2. UNCHANGED <<thread, cache, handler, lost>>
  BY DEF Leave
<1>3. TypeOK'
  BY <1>1, <1>2 DEF Inv, TypeOK, Clients
<1>4. RequestsSound' /\ TurnsComplete'
  BY <1>2 DEF Inv, RequestsSound, TurnsComplete, Sound, Complete
<1> QED BY <1>3, <1>4 DEF Inv

LEMMA LoadKeeps ==
    ASSUME Inv, NEW h \in Handlers, Load(h)
    PROVE  Inv'
<1>1. handler[h].pc = "load"
  BY DEF Load, At
<1>2. handler[h] \in Handler /\ Sound(handler[h], thread.owner)
  BY <1>1, Busy DEF Steps
<1>3. CASE Failed(h, "forbidden") /\ UNCHANGED <<thread, cache, lost>>
  BY <1>1, <1>2, <1>3, FailedKeeps
<1>5. CASE ~(thread.owner \subseteq {handler[h].key}) /\ ~Failed(h, "forbidden")
  <2>1. PICK pc \in {"fast", "work"} : handler' = [handler EXCEPT ![h].pc = pc, ![h].unread = TRUE]
    BY <1>5 DEF Load
  <2> DEFINE x == [handler[h] EXCEPT !.pc = pc, !.unread = TRUE]
  <2>2. x \in Handler /\ x.pc \in {"fast", "work"} /\ x.failure = "none" /\ x.unread
    BY <1>1, <1>2 DEF Handler, Steps, Sound
  <2>3. Sound(x, thread.owner)
    BY <2>2 DEF Sound
  <2>4. handler' = [handler EXCEPT ![h] = x]
    BY <2>1
  <2>5. UNCHANGED <<thread, cache, client, lost>>
    BY <1>5 DEF Load
  <2> HIDE DEF x
  <2> QED BY <1>1, <1>2, <2>2, <2>3, <2>4, <2>5, MovedKeeps DEF Inv, TypeOK, Clients
<1>4. CASE thread.owner \subseteq {handler[h].key}
  <2>1. PICK pc \in {"fast", "work"} :
            handler' = [handler EXCEPT ![h].pc = pc, ![h].early = (thread = NoThread)]
    BY <1>4 DEF Load
  <2> DEFINE x == [handler[h] EXCEPT !.pc = pc, !.early = (thread = NoThread)]
  <2>2. x \in Handler /\ x.pc \in {"fast", "work"} /\ x.failure = "none" /\ x.key = handler[h].key
    BY <1>1, <1>2 DEF Handler, Steps, Sound
  <2>3. x.early = (thread = NoThread)
    BY <1>2 DEF Handler
  <2>4. thread # NoThread => x.key \in thread.owner
    <3>1. thread = [owner |-> thread.owner, turns |-> thread.turns]
          /\ ((thread.owner = {}) = (thread.turns = <<>>))
      BY DEF Inv, TypeOK
    <3>2. thread # NoThread => thread.owner # {}
      BY <3>1 DEF NoThread
    <3> QED BY <1>4, <2>2, <3>2
  <2>5. Sound(x, thread.owner)
    BY <2>2, <2>3, <2>4 DEF Sound
  <2>6. handler' = [handler EXCEPT ![h] = x]
    BY <2>1
  <2>7. UNCHANGED <<thread, cache, client, lost>>
    BY <1>4 DEF Load
  <2> HIDE DEF x
  <2> QED BY <1>1, <1>2, <2>2, <2>5, <2>6, <2>7, MovedKeeps DEF Inv, TypeOK, Clients
<1> QED BY <1>3, <1>4, <1>5 DEF Load

\* A request that ends without an answer, or answers and keeps no turn, or is given
\* up; the stores' other columns may grow.
LEMMA EndKeeps ==
    ASSUME Inv, NEW h \in Handlers, handler[h] \in Handler, handler[h].pc # "end",
           Sound(handler[h], thread.owner), Moved(h, "end"), client' \in Clients,
           cache' \subseteq Queries, lost' \subseteq Queries, thread' = thread
    PROVE  Inv'
<1> DEFINE x == [handler[h] EXCEPT !.pc = "end"]
<1>1. x \in Handler /\ x.pc = "end" /\ handler' = [handler EXCEPT ![h] = x]
  BY DEF Moved, Handler, Steps
<1>2. Sound(x, thread.owner)
  BY <1>1 DEF Sound
<1> HIDE DEF x
<1> QED BY <1>1, <1>2, MovedKeeps

\* The steps that fail.
LEMMA FailuresKeep ==
    ASSUME Inv, NEW h \in Handlers, FastFails(h) \/ RouteTimeout(h) \/ StreamFails(h)
    PROVE  Inv'
<1>1. handler[h].pc \in {"fast", "work"}
  BY DEF FastFails, RouteTimeout, StreamFails, Streams, At
<1>2. handler[h] \in Handler
  BY <1>1, Busy DEF Steps
<1>3. \E why \in {"timeout", "error", "forbidden"} : Failed(h, why)
  BY DEF FastFails, RouteTimeout, StreamFails
<1>4. UNCHANGED <<thread, cache, lost>>
  BY DEF FastFails, RouteTimeout, StreamFails
<1> QED BY <1>1, <1>2, <1>3, <1>4, FailedKeeps

LEMMA FastAnswerKeeps ==
    ASSUME Inv, NEW h \in Handlers, FastAnswer(h)
    PROVE  Inv'
<1>1. handler[h].pc = "fast"
  BY DEF FastAnswer, At
<1>2. handler[h] \in Handler /\ Sound(handler[h], thread.owner)
  BY <1>1, Busy DEF Steps
<1>3. client' \in Clients
  BY <1>2, ToldType DEF FastAnswer, Inv
<1>4. cache' \subseteq Queries /\ lost' \subseteq Queries
  BY <1>2 DEF FastAnswer, Inv, TypeOK, Handler
<1> QED BY <1>1, <1>2, <1>3, <1>4, EndKeeps DEF FastAnswer

LEMMA BranchEndsKeeps ==
    ASSUME Inv, NEW h \in Handlers, NEW b \in Branches, BranchEnds(h, b)
    PROVE  Inv'
<1>1. handler[h].pc = "work"
  BY DEF BranchEnds, At
<1>2. handler[h] \in Handler /\ Sound(handler[h], thread.owner)
  BY <1>1, Busy DEF Steps
<1>3. PICK how \in {"answer", "silent", "failed"} :
          handler' = [handler EXCEPT ![h].branch[b] = how]
  BY DEF BranchEnds
<1> DEFINE x == [handler[h] EXCEPT !.branch[b] = how]
<1>4. x \in Handler /\ x.pc = "work" /\ x.failure = "none"
      /\ x.early = handler[h].early /\ x.unread = handler[h].unread /\ x.key = handler[h].key
  BY <1>1, <1>2 DEF Handler, Steps, Sound
<1>5. Sound(x, thread.owner)
  BY <1>1, <1>2, <1>4 DEF Sound
<1>6. handler' = [handler EXCEPT ![h] = x]
  BY <1>3
<1>7. UNCHANGED <<thread, cache, client, lost>>
  BY DEF BranchEnds
<1> HIDE DEF x
<1> QED BY <1>1, <1>2, <1>4, <1>5, <1>6, <1>7, MovedKeeps DEF Inv, TypeOK, Clients

LEMMA SelectKeeps ==
    ASSUME Inv, NEW h \in Handlers, Select(h)
    PROVE  Inv'
<1>1. handler[h].pc = "work" /\ ~handler[h].stream /\ UNCHANGED <<thread, cache, lost>>
  BY DEF Select, At
<1>2. handler[h] \in Handler /\ Sound(handler[h], thread.owner)
  BY <1>1, Busy DEF Steps
<1>3. CASE Failed(h, "error")
  BY <1>1, <1>2, <1>3, FailedKeeps
<1>4. CASE /\ handler' = [handler EXCEPT ![h].pc = "answered", ![h].text = <<1>>]
           /\ UNCHANGED client
  <2> DEFINE x == [handler[h] EXCEPT !.pc = "answered", !.text = <<1>>]
  <2>1. <<1>> \in Text
    BY RouteAssumption DEF Text
  <2>2. x \in Handler /\ x.pc = "answered" /\ x.failure = "none" /\ x.stream = handler[h].stream
        /\ x.early = handler[h].early /\ x.unread = handler[h].unread /\ x.key = handler[h].key
    BY <1>1, <1>2, <2>1 DEF Handler, Steps, Sound
  <2>3. Sound(x, thread.owner)
    BY <1>1, <1>2, <2>2 DEF Sound
  <2>4. handler' = [handler EXCEPT ![h] = x]
    BY <1>4
  <2> HIDE DEF x
  <2> QED BY <1>1, <1>2, <1>4, <2>2, <2>3, <2>4, MovedKeeps DEF Inv, TypeOK, Clients
<1> QED BY <1>3, <1>4 DEF Select

\* The steps to "save": a turn is due once the answer is cached or done was sent.
LEMMA CacheKeeps ==
    ASSUME Inv, NEW h \in Handlers, Cache(h)
    PROVE  Inv'
<1>1. handler[h].pc = "answered"
  BY DEF Cache, At
<1>2. handler[h] \in Handler /\ Sound(handler[h], thread.owner)
  BY <1>1, Busy DEF Steps
<1> DEFINE x == [handler[h] EXCEPT !.pc = "save"]
<1>3. x \in Handler /\ x.pc = "save" /\ x.failure = "none" /\ x.stream = handler[h].stream
      /\ x.early = handler[h].early /\ x.unread = handler[h].unread /\ x.key = handler[h].key
  BY <1>1, <1>2 DEF Handler, Steps, Sound
<1>4. Sound(x, thread.owner)
  BY <1>1, <1>2, <1>3 DEF Sound
<1>5. handler' = [handler EXCEPT ![h] = x] /\ UNCHANGED <<thread, client, lost>>
      /\ cache' \subseteq Queries
  BY <1>2 DEF Cache, Moved, Inv, TypeOK, Handler
<1> HIDE DEF x
<1> QED BY <1>1, <1>2, <1>3, <1>4, <1>5, MovedKeeps DEF Inv, TypeOK, Clients

LEMMA TokenKeeps ==
    ASSUME Inv, NEW h \in Handlers, Token(h) \/ Reloop(h)
    PROVE  Inv'
<1>1. handler[h].pc \in {"fast", "work"} /\ UNCHANGED <<thread, cache, client, lost>>
  BY DEF Token, Reloop, Streams, At
<1>2. handler[h] \in Handler /\ Sound(handler[h], thread.owner)
  BY <1>1, Busy DEF Steps
<1>3. PICK x \in Handler : /\ handler' = [handler EXCEPT ![h] = x]
                           /\ x.pc = handler[h].pc /\ x.failure = handler[h].failure
                           /\ x.early = handler[h].early /\ x.unread = handler[h].unread /\ x.key = handler[h].key
  <2>1. CASE Token(h)
    <3> DEFINE x == [handler[h] EXCEPT !.text = Append(@, handler[h].pass)]
    <3>1. Append(handler[h].text, handler[h].pass) \in Text
      BY <1>2 DEF Handler, Text
    <3>2. x \in Handler /\ x.pc = handler[h].pc /\ x.failure = handler[h].failure
          /\ x.early = handler[h].early /\ x.unread = handler[h].unread /\ x.key = handler[h].key
      BY <1>2, <3>1 DEF Handler
    <3>3. handler' = [handler EXCEPT ![h] = x]
      BY <2>1 DEF Token
    <3> HIDE DEF x
    <3> QED BY <3>2, <3>3
  <2>2. CASE Reloop(h)
    <3> DEFINE x == [handler[h] EXCEPT !.pass = @ + 1]
    <3>1. handler[h].pass + 1 \in 1..MaxPasses
      BY <1>2, <2>2, RouteAssumption DEF Handler, Reloop
    <3>2. x \in Handler /\ x.pc = handler[h].pc /\ x.failure = handler[h].failure
          /\ x.early = handler[h].early /\ x.unread = handler[h].unread /\ x.key = handler[h].key
      BY <1>2, <3>1 DEF Handler
    <3>3. handler' = [handler EXCEPT ![h] = x]
      BY <2>2 DEF Reloop
    <3> HIDE DEF x
    <3> QED BY <3>2, <3>3
  <2> QED BY <2>1, <2>2
<1>4. Sound(x, thread.owner)
  BY <1>1, <1>2, <1>3 DEF Sound
<1> QED BY <1>1, <1>2, <1>3, <1>4, MovedKeeps DEF Inv, TypeOK, Clients

LEMMA DoneKeeps ==
    ASSUME Inv, NEW h \in Handlers, Done(h)
    PROVE  Inv'
<1>1. handler[h].pc \in {"fast", "work"} /\ UNCHANGED <<thread, cache, lost>>
  BY DEF Done, Streams, At
<1>2. handler[h] \in Handler /\ Sound(handler[h], thread.owner)
  BY <1>1, Busy DEF Steps
<1> DEFINE x == [handler[h] EXCEPT !.pc = "save", !.done = TRUE]
<1>3. x \in Handler /\ x.pc = "save" /\ x.done /\ x.failure = "none"
      /\ x.early = handler[h].early /\ x.unread = handler[h].unread /\ x.key = handler[h].key
  BY <1>1, <1>2 DEF Handler, Steps, Sound
<1>4. Sound(x, thread.owner)
  BY <1>1, <1>2, <1>3 DEF Sound
<1>5. handler' = [handler EXCEPT ![h] = x]
  BY DEF Done
<1>6. client' \in Clients
  BY <1>2, ToldType DEF Done, Inv
<1> HIDE DEF x
<1> QED BY <1>1, <1>2, <1>3, <1>4, <1>5, <1>6, MovedKeeps DEF Inv, TypeOK

LEMMA ClosedKeeps ==
    ASSUME Inv, NEW h \in Handlers, Closed(h)
    PROVE  Inv'
<1>1. handler[h].pc \in {"fast", "work", "save"} /\ UNCHANGED <<thread, cache, client>>
  BY DEF Closed, Streams, At
<1>2. handler[h] \in Handler /\ Sound(handler[h], thread.owner)
  BY <1>1, Busy DEF Steps
<1>3. lost' \subseteq Queries
  BY <1>2 DEF Closed, Inv, TypeOK, Handler
<1> QED BY <1>1, <1>2, <1>3, EndKeeps DEF Closed, Inv, TypeOK, Clients

LEMMA SavesKeep ==
    ASSUME Inv, NEW h \in Handlers, SaveAndRespond(h) \/ SaveStream(h)
    PROVE  Inv'
<1>1. At(h, "save") /\ Moved(h, "end") /\ UNCHANGED cache
  BY DEF SaveAndRespond, SaveStream
<1>2. handler[h] \in Handler
  BY <1>1, Busy DEF At, Steps
<1>3. client' \in Clients
  BY <1>2, ToldType DEF SaveAndRespond, SaveStream, Inv, TypeOK, Clients
<1>4. lost' \subseteq Queries
  BY <1>2 DEF SaveAndRespond, SaveStream, AppendTurn, Inv, TypeOK, Handler
<1>5. \/ thread' = thread
      \/ /\ thread' = WithTurn(h)
         /\ handler[h].stream => handler[h].text # <<>>
  BY DEF SaveAndRespond, SaveStream, AppendTurn
<1> QED BY <1>1, <1>3, <1>4, <1>5, SaveKeeps DEF Inv, TypeOK

LEMMA InitHasInv ==
    Init => Inv
<1> SUFFICES ASSUME Init PROVE Inv
  OBVIOUS
<1>1. thread = [owner |-> {}, turns |-> <<>>]
  BY DEF Init, NoThread
<1>2. TypeOK
  <2>1. [on |-> {}, saw |-> "nothing"] \in [on : {{}} \cup {{g} : g \in Handlers}, saw : {"nothing", "done", "error"}]
    OBVIOUS
  <2>2. thread \in [owner : SUBSET Keys, turns : Seq(Turn)] /\ ((thread.owner = {}) = (thread.turns = <<>>))
    BY <1>1
  <2> QED BY <2>1, <2>2 DEF Init, TypeOK
<1>3. RequestsSound /\ TurnsComplete
  BY <1>1 DEF Init, RequestsSound, TurnsComplete
<1> QED BY <1>2, <1>3 DEF Inv

LEMMA StepKeepsInv ==
    Inv /\ [Next]_vars => Inv'
<1> SUFFICES ASSUME Inv, [Next]_vars PROVE Inv'
  OBVIOUS
<1>1. CASE UNCHANGED vars
  BY <1>1 DEF vars, Inv, TypeOK, RequestsSound, TurnsComplete, Sound, Complete
<1>2. ASSUME NEW h \in Handlers, NEW q \in Queries, Resend(h, q)
      PROVE  Inv'
  <2>1. PICK g \in client[q].on :
            /\ handler[g] # NoHandler
            /\ handler' = [handler EXCEPT ![h] = Fresh(q, handler[g].key, TRUE)]
    BY <1>2 DEF Resend
  <2>2. g \in Handlers
    BY DEF Inv, TypeOK
  <2>3. handler[g].key \in Keys
    BY <2>1, <2>2 DEF Inv, TypeOK, Handler
  <2> QED BY <1>2, <2>1, <2>3, AskKeeps DEF Resend
<1>3. ASSUME NEW h \in Handlers, NEW q \in Queries, NEW k \in Keys, NEW s \in BOOLEAN, Ask(h, q, k, s)
      PROVE  Inv'
  BY <1>3, AskKeeps DEF Ask
<1>4. ASSUME NEW q \in Queries, Leave(q)
      PROVE  Inv'
  BY <1>4, LeaveKeeps
<1>5. ASSUME NEW h \in Handlers, Work(h)
      PROVE  Inv'
  <2>1. CASE Load(h)
    BY <2>1, LoadKeeps
  <2>2. CASE FastAnswer(h)
    BY <2>2, FastAnswerKeeps
  <2>3. CASE FastFails(h) \/ StreamFails(h)
    BY <2>3, FailuresKeep
  <2>4. CASE Select(h)
    BY <2>4, SelectKeeps
  <2>5. CASE Cache(h)
    BY <2>5, CacheKeeps
  <2>6. CASE SaveAndRespond(h) \/ SaveStream(h)
    BY <2>6, SavesKeep
  <2>7. ASSUME NEW b \in Branches, BranchEnds(h, b)
        PROVE  Inv'
    BY <2>7, BranchEndsKeeps
  <2>8. CASE Token(h) \/ Reloop(h)
    BY <2>8, TokenKeeps
  <2>9. CASE Done(h)
    BY <2>9, DoneKeeps
  <2> QED BY <1>5, <2>1, <2>2, <2>3, <2>4, <2>5, <2>6, <2>7, <2>8, <2>9 DEF Work
<1>6. ASSUME NEW h \in Handlers, RouteTimeout(h)
      PROVE  Inv'
  BY <1>6, FailuresKeep
<1>7. ASSUME NEW h \in Handlers, Closed(h)
      PROVE  Inv'
  BY <1>7, ClosedKeeps
<1> QED BY <1>1, <1>2, <1>3, <1>4, <1>5, <1>6, <1>7 DEF Next

LEMMA InvIsEnough ==
    Inv => TurnsAreTheirs
<1> SUFFICES ASSUME Inv PROVE TurnsAreTheirs
  OBVIOUS
<1>1. \A i \in DOMAIN thread.turns :
          Complete(thread.turns[i], handler[thread.turns[i].by], thread.owner)
  BY DEF Inv, TurnsComplete
<1>2. TurnsAreComplete
  BY <1>1 DEF TurnsAreComplete, Complete
<1>3. OwnTurns
  BY <1>1 DEF OwnTurns, Complete
<1> QED BY <1>2, <1>3 DEF TurnsAreTheirs, Inv

\* What a thread holds are whole answers to its owner's questions, whoever leaves,
\* runs out of time, sends the query again or asks before there is a thread.
THEOREM TurnsStayTheirs == Spec => []TurnsAreTheirs
<1>1. Init => Inv
  BY InitHasInv
<1>2. Inv /\ [Next]_vars => Inv'
  BY StepKeepsInv
<1>3. Inv => TurnsAreTheirs
  BY InvIsEnough
<1> QED BY <1>1, <1>2, <1>3, PTL DEF Spec

(***************************************************************************)
(* Answers.                                                                *)
(***************************************************************************)
\* No branch has ended before the work has begun, and what BranchesSuffice says.
BranchOK(x) ==
    /\ x.pc \in {"load", "fast"} => \A b \in Branches : x.branch[b] = "runs"
    /\ ~x.stream /\ x.failure = "error" /\ (\E b \in Branches : x.branch[b] = "answer")
          => \E b \in Branches : x.branch[b] = "silent"
BranchesOK == \A h \in Handlers : handler[h] # NoHandler => BranchOK(handler[h])

\* The turn of a query is written, or is known to be missing.
Kept(q) == (\E i \in DOMAIN thread.turns : thread.turns[i].q = q) \/ q \in lost

Answers == AnswersBecomeTurns /\ BranchesOK

\* What a step of one request must do: a request past "save" has its turn kept, and an
\* answer seen has a request at "save", if its turn is not kept already.
LEMMA AnswerStep ==
    ASSUME Inv, Answers, NEW h \in Handlers, NEW x \in Handler,
           handler' = [handler EXCEPT ![h] = x], BranchOK(x),
           handler[h] # NoHandler => x.q = handler[h].q,
           At(h, "save") => x.pc = "save" \/ Kept(x.q)',
           \A q \in Queries : Kept(q) => Kept(q)',
           \A q \in Queries : client'[q].saw = "done" =>
              client[q].saw = "done" \/ Kept(q)' \/ (x.pc = "save" /\ x.q = q)
    PROVE  Answers'
<1>1. handler'[h] = x /\ \A g \in Handlers : g # h => handler'[g] = handler[g]
  BY DEF Inv, TypeOK
<1>2. BranchesOK'
  BY <1>1 DEF Answers, BranchesOK
<1>3. x # NoHandler /\ \A g \in Handlers : At(g, "save") => handler[g] # NoHandler
  BY DEF Handler, NoHandler, At
<1>4. ASSUME NEW q \in Queries, client'[q].saw = "done"
      PROVE  Kept(q)' \/ \E g \in Handlers : handler'[g] # NoHandler /\ handler'[g].q = q /\ At(g, "save")'
  <2>1. CASE Kept(q)'
    BY <2>1
  <2>2. CASE x.pc = "save" /\ x.q = q
    BY <1>1, <1>3, <2>2 DEF At
  <2>3. CASE client[q].saw = "done" /\ ~Kept(q)'
    <3>1. ~Kept(q)
      BY <2>3
    <3>2. PICK g \in Handlers : handler[g] # NoHandler /\ handler[g].q = q /\ At(g, "save")
      BY <2>3, <3>1 DEF Answers, AnswersBecomeTurns, Kept
    <3>3. CASE g = h
      BY <1>1, <1>3, <2>3, <3>2, <3>3 DEF At
    <3>4. CASE g # h
      BY <1>1, <3>2, <3>4 DEF At
    <3> QED BY <3>3, <3>4
  <2> QED BY <1>4, <2>1, <2>2, <2>3
<1>5. AnswersBecomeTurns'
  BY <1>4 DEF AnswersBecomeTurns, Kept
<1> QED BY <1>2, <1>5 DEF Answers

LEMMA ToldSays ==
    ASSUME Inv, NEW h \in Handlers, handler[h] \in Handler, NEW what, Told(h, what)
    PROVE  \A q \in Queries : client'[q].saw = "done" =>
              client[q].saw = "done" \/ (what = "done" /\ q = handler[h].q)
BY DEF Told, Inv, TypeOK, Handler

\* Turns are only added, and queries only added to the lost.
LEMMA KeptStays ==
    ASSUME Inv, NEW h \in Handlers, handler[h] \in Handler, lost \subseteq lost',
           thread' = thread \/ thread' = WithTurn(h)
    PROVE  /\ \A q \in Queries : Kept(q) => Kept(q)'
           /\ thread' = WithTurn(h) => \A q \in Queries : q = handler[h].q => Kept(q)'
<1>1. CASE thread' = thread /\ thread' # WithTurn(h)
  BY <1>1 DEF Kept
<1>2. CASE thread' = WithTurn(h)
  <2> DEFINE x == handler[h]
             t == [q |-> x.q, key |-> x.key, by |-> h, text |-> x.text]
             old == thread.turns
  <2>1. thread'.turns = Append(old, t)
    BY <1>2 DEF WithTurn
  <2>2. old \in Seq(Turn) /\ t \in Turn /\ t.q = x.q
    BY DEF Inv, TypeOK, Turn, Handler
  <2> HIDE DEF t, old
  <2>3. /\ DOMAIN Append(old, t) = 1..(Len(old) + 1) /\ Len(old) \in Nat
        /\ Append(old, t)[Len(old) + 1] = t /\ DOMAIN old = 1..Len(old)
        /\ \A i \in 1..Len(old) : Append(old, t)[i] = old[i]
    BY <2>2, AppendFacts
  <2>4. Len(old) + 1 \in DOMAIN Append(old, t) /\ \A i \in DOMAIN old : i \in DOMAIN Append(old, t)
    BY <2>3
  <2>5. ASSUME NEW q \in Queries, q = x.q PROVE Kept(q)'
    BY <2>1, <2>2, <2>3, <2>4, <2>5 DEF Kept
  <2>6. ASSUME NEW q \in Queries, Kept(q) PROVE Kept(q)'
    BY <2>1, <2>3, <2>4, <2>6 DEF Kept, old
  <2> QED BY <2>5, <2>6
<1> QED BY <1>1, <1>2

\* A request that is not at "save", moves on, and of which nothing is said to be done.
LEMMA QuietStep ==
    ASSUME Inv, Answers, NEW h \in Handlers, NEW x \in Handler,
           handler' = [handler EXCEPT ![h] = x], BranchOK(x), ~At(h, "save"),
           handler[h] # NoHandler => x.q = handler[h].q, UNCHANGED <<thread, lost>>,
           \A q \in Queries : client'[q].saw = "done" => client[q].saw = "done"
    PROVE  Answers'
<1>1. \A q \in Queries : Kept(q) => Kept(q)'
  BY DEF Kept
<1> QED BY <1>1, AnswerStep

LEMMA FailedAnswers ==
    ASSUME Inv, Answers, NEW h \in Handlers, handler[h] \in Handler, ~At(h, "save"),
           NEW why \in {"timeout", "error", "forbidden"}, Failed(h, why), UNCHANGED <<thread, lost>>,
           \/ why # "error" \/ handler[h].stream
           \/ \A b \in Branches : handler[h].branch[b] # "answer"
           \/ \E b \in Branches : handler[h].branch[b] = "silent"
    PROVE  Answers'
<1> DEFINE x == [handler[h] EXCEPT !.pc = "end", !.failure = why]
<1>1. /\ x \in Handler /\ x.pc = "end" /\ x.failure = why /\ x.branch = handler[h].branch
      /\ x.stream = handler[h].stream /\ x.q = handler[h].q
  BY DEF Handler, Steps
<1>2. handler' = [handler EXCEPT ![h] = x]
  BY DEF Failed
<1>3. BranchOK(x)
  BY <1>1 DEF BranchOK
<1>4. \A q \in Queries : client'[q].saw = "done" => client[q].saw = "done"
  BY ToldSays DEF Failed
<1> HIDE DEF x
<1> QED BY <1>1, <1>2, <1>3, <1>4, QuietStep

\* The request before its step.
LEMMA BusyAnswers ==
    ASSUME Inv, Answers, NEW h \in Handlers, handler[h].pc \in Steps
    PROVE  /\ handler[h] \in Handler /\ BranchOK(handler[h])
           /\ handler[h].pc # "end" => handler[h].failure = "none"
<1>1. handler[h] # NoHandler
  BY DEF NoHandler, Steps
<1> QED BY <1>1, Busy DEF Answers, BranchesOK, Sound

LEMMA AskAnswers ==
    ASSUME Inv, Answers, NEW h \in Handlers, NEW q \in Queries, NEW k \in Keys, NEW s \in BOOLEAN,
           NextFree(h), handler' = [handler EXCEPT ![h] = Fresh(q, k, s)],
           client' = [client EXCEPT ![q].on = {h}], UNCHANGED <<thread, cache, lost>>
    PROVE  Answers'
<1> DEFINE x == Fresh(q, k, s)
<1>1. x \in Handler
  <2>1. 1 \in 1..MaxPasses /\ <<>> \in Text
    BY RouteAssumption DEF Text
  <2>2. [b \in Branches |-> "runs"] \in [Branches -> {"runs", "answer", "silent", "failed"}]
    OBVIOUS
  <2> QED BY <2>1, <2>2, Zenon DEF Fresh, Handler, Steps
<1>2. BranchOK(x)
  BY DEF BranchOK, Fresh
<1>3. handler[h] = NoHandler /\ ~At(h, "save")
  BY DEF NextFree, NoHandler, At
<1>4. \A r \in Queries : client'[r].saw = client[r].saw
  BY DEF Inv, TypeOK
<1> HIDE DEF x
<1> QED BY <1>1, <1>2, <1>3, <1>4, QuietStep DEF x

LEMMA LeaveAnswers == ASSUME Inv, Answers, NEW q \in Queries, Leave(q) PROVE Answers'
<1>1. /\ UNCHANGED <<thread, handler, lost>>
      /\ \A r \in Queries : client'[r].saw = "done" => client[r].saw = "done"
  BY DEF Leave, Inv, TypeOK
<1> QED BY <1>1 DEF Answers, AnswersBecomeTurns, BranchesOK, At

LEMMA LoadAnswers == ASSUME Inv, Answers, NEW h \in Handlers, Load(h) PROVE Answers'
<1>1. handler[h].pc = "load" /\ UNCHANGED <<thread, lost>>
  BY DEF Load, At
<1>2. handler[h] \in Handler /\ BranchOK(handler[h]) /\ handler[h].failure = "none"
  BY <1>1, BusyAnswers DEF Steps
<1>3. CASE Failed(h, "forbidden")
  BY <1>1, <1>2, <1>3, FailedAnswers DEF At
<1>4. ASSUME NEW pc \in {"fast", "work"}, handler' = [handler EXCEPT ![h].pc = pc, ![h].early = (thread = NoThread)], UNCHANGED client
      PROVE  Answers'
  <2> DEFINE x == [handler[h] EXCEPT !.pc = pc, !.early = (thread = NoThread)]
  <2>1. /\ x \in Handler /\ x.branch = handler[h].branch /\ x.stream = handler[h].stream
        /\ x.failure = handler[h].failure /\ x.q = handler[h].q
    BY <1>2 DEF Handler, Steps
  <2>2. BranchOK(x)
    BY <1>1, <1>2, <2>1 DEF BranchOK
  <2>3. handler' = [handler EXCEPT ![h] = x]
    BY <1>4
  <2> HIDE DEF x
  <2> QED BY <1>1, <1>4, <2>1, <2>2, <2>3, QuietStep DEF At
<1>5. ASSUME NEW pc \in {"fast", "work"}, handler' = [handler EXCEPT ![h].pc = pc, ![h].unread = TRUE], UNCHANGED client
      PROVE  Answers'
  <2> DEFINE x == [handler[h] EXCEPT !.pc = pc, !.unread = TRUE]
  <2>1. /\ x \in Handler /\ x.branch = handler[h].branch /\ x.stream = handler[h].stream
        /\ x.failure = handler[h].failure /\ x.q = handler[h].q
    BY <1>2 DEF Handler, Steps
  <2>2. BranchOK(x)
    BY <1>1, <1>2, <2>1 DEF BranchOK
  <2>3. handler' = [handler EXCEPT ![h] = x]
    BY <1>5
  <2> HIDE DEF x
  <2> QED BY <1>1, <1>5, <2>1, <2>2, <2>3, QuietStep DEF At
<1> QED BY <1>3, <1>4, <1>5 DEF Load

LEMMA FailuresAnswer ==
    ASSUME Inv, Answers, NEW h \in Handlers, FastFails(h) \/ RouteTimeout(h) \/ StreamFails(h)
    PROVE  Answers'
<1>1. handler[h].pc \in {"fast", "work"} /\ UNCHANGED <<thread, lost>>
  BY DEF FastFails, RouteTimeout, StreamFails, Streams, At
<1>2. handler[h] \in Handler /\ BranchOK(handler[h])
  BY <1>1, BusyAnswers DEF Steps
<1>3. CASE FastFails(h)
  <2>1. \A b \in Branches : handler[h].branch[b] # "answer"
    BY <1>2, <1>3 DEF FastFails, At, BranchOK
  <2> QED BY <1>1, <1>2, <1>3, <2>1, FailedAnswers DEF FastFails, At
<1>4. CASE RouteTimeout(h)
  BY <1>1, <1>2, <1>4, FailedAnswers DEF RouteTimeout, At
<1>5. CASE StreamFails(h)
  BY <1>1, <1>2, <1>5, FailedAnswers DEF StreamFails, Streams, At
<1> QED BY <1>3, <1>4, <1>5

LEMMA BranchEndsAnswers ==
    ASSUME Inv, Answers, NEW h \in Handlers, NEW b \in Branches, BranchEnds(h, b)
    PROVE  Answers'
<1>1. handler[h].pc = "work" /\ UNCHANGED <<thread, client, lost>>
  BY DEF BranchEnds, At
<1>2. handler[h] \in Handler /\ handler[h].failure = "none"
  BY <1>1, BusyAnswers DEF Steps
<1>3. PICK how \in {"answer", "silent", "failed"} :
          handler' = [handler EXCEPT ![h].branch[b] = how]
  BY DEF BranchEnds
<1> DEFINE x == [handler[h] EXCEPT !.branch[b] = how]
<1>4. x \in Handler /\ x.pc = "work" /\ x.failure = "none" /\ x.q = handler[h].q
  BY <1>1, <1>2 DEF Handler
<1>5. BranchOK(x) /\ handler' = [handler EXCEPT ![h] = x]
  BY <1>3, <1>4 DEF BranchOK
<1> HIDE DEF x
<1> QED BY <1>1, <1>4, <1>5, QuietStep DEF At

LEMMA SelectAnswers == ASSUME Inv, Answers, NEW h \in Handlers, Select(h) PROVE Answers'
<1>1. handler[h].pc = "work" /\ UNCHANGED <<thread, lost>>
  BY DEF Select, At
<1>2. handler[h] \in Handler /\ handler[h].failure = "none"
  BY <1>1, BusyAnswers DEF Steps
<1>3. CASE Failed(h, "error") /\ Candidates(h) = {}
  <2>1. \A b \in Branches : handler[h].branch[b] # "answer"
    BY <1>3 DEF Candidates
  <2> QED BY <1>1, <1>2, <1>3, <2>1, FailedAnswers DEF At
<1>4. CASE Failed(h, "error") /\ \E b \in Branches : handler[h].branch[b] = "silent"
  BY <1>1, <1>2, <1>4, FailedAnswers DEF At
<1>5. CASE handler' = [handler EXCEPT ![h].pc = "answered", ![h].text = <<1>>] /\ UNCHANGED client
  <2> DEFINE x == [handler[h] EXCEPT !.pc = "answered", !.text = <<1>>]
  <2>1. <<1>> \in Text
    BY RouteAssumption DEF Text
  <2>2. x \in Handler /\ x.pc = "answered" /\ x.failure = "none" /\ x.q = handler[h].q
    BY <1>2, <2>1 DEF Handler, Steps
  <2>3. BranchOK(x) /\ handler' = [handler EXCEPT ![h] = x]
    BY <1>5, <2>2 DEF BranchOK
  <2> HIDE DEF x
  <2> QED BY <1>1, <1>5, <2>2, <2>3, QuietStep DEF At
<1>6. \/ Failed(h, "error") /\ Candidates(h) = {}
      \/ Failed(h, "error") /\ \E b \in Branches : handler[h].branch[b] = "silent"
      \/ handler' = [handler EXCEPT ![h].pc = "answered", ![h].text = <<1>>] /\ UNCHANGED client
  BY DEF Select, Candidates
<1> QED BY <1>3, <1>4, <1>5, <1>6

\* A request that is about to save its turn.
LEMMA ToSaveAnswers == ASSUME Inv, Answers, NEW h \in Handlers, Cache(h) \/ Done(h) PROVE Answers'
<1>1. handler[h].pc \in {"fast", "work", "answered"} /\ UNCHANGED <<thread, lost>>
  BY DEF Cache, Done, Streams, At
<1>2. handler[h] \in Handler /\ handler[h].failure = "none"
  BY <1>1, BusyAnswers DEF Steps
<1>3. \E d \in BOOLEAN : handler' = [handler EXCEPT ![h] = [handler[h] EXCEPT !.pc = "save", !.done = d]]
  <2>1. CASE Cache(h)
    <3>1. [handler[h] EXCEPT !.pc = "save", !.done = handler[h].done] = [handler[h] EXCEPT !.pc = "save"]
      BY <1>2 DEF Handler
    <3>2. handler[h].done \in BOOLEAN
      BY <1>2 DEF Handler
    <3> QED BY <2>1, <3>1, <3>2 DEF Cache, Moved
  <2>2. CASE Done(h)
    BY <2>2 DEF Done
  <2> QED BY <2>1, <2>2
<1>4. PICK d \in BOOLEAN :
          handler' = [handler EXCEPT ![h] = [handler[h] EXCEPT !.pc = "save", !.done = d]]
  BY <1>3
<1> DEFINE x == [handler[h] EXCEPT !.pc = "save", !.done = d]
<1>5. x \in Handler /\ x.pc = "save" /\ x.failure = "none" /\ x.q = handler[h].q
  BY <1>2 DEF Handler, Steps
<1>6. BranchOK(x) /\ handler' = [handler EXCEPT ![h] = x]
  BY <1>4, <1>5 DEF BranchOK
<1> HIDE DEF x
<1>7. \A q \in Queries : client'[q].saw = "done" =>
          client[q].saw = "done" \/ (x.pc = "save" /\ x.q = q)
  BY <1>2, <1>5, ToldSays DEF Cache, Done
<1>8. \A q \in Queries : Kept(q) => Kept(q)'
  BY <1>1 DEF Kept
<1>9. ~At(h, "save")
  BY <1>1 DEF At
<1> QED BY <1>5, <1>6, <1>7, <1>8, <1>9, AnswerStep

LEMMA TokenAnswers ==
    ASSUME Inv, Answers, NEW h \in Handlers, Token(h) \/ Reloop(h) PROVE Answers'
<1>1. handler[h].pc \in {"fast", "work"} /\ UNCHANGED <<thread, client, lost>>
  BY DEF Token, Reloop, Streams, At
<1>2. handler[h] \in Handler /\ BranchOK(handler[h])
  BY <1>1, BusyAnswers DEF Steps
<1>3. PICK x \in Handler :
         /\ handler' = [handler EXCEPT ![h] = x]
         /\ <<x.pc, x.failure, x.branch, x.stream, x.q>> = <<handler[h].pc, handler[h].failure,
               handler[h].branch, handler[h].stream, handler[h].q>>
  <2>1. CASE Token(h)
    <3> DEFINE x == [handler[h] EXCEPT !.text = Append(@, handler[h].pass)]
    <3>1. Append(handler[h].text, handler[h].pass) \in Text
      BY <1>2 DEF Handler, Text
    <3>2. x \in Handler /\ x.pc = handler[h].pc /\ x.failure = handler[h].failure
          /\ x.branch = handler[h].branch /\ x.stream = handler[h].stream /\ x.q = handler[h].q
      BY <1>2, <3>1 DEF Handler
    <3>3. handler' = [handler EXCEPT ![h] = x]
      BY <2>1 DEF Token
    <3> HIDE DEF x
    <3> QED BY <3>2, <3>3
  <2>2. CASE Reloop(h)
    <3> DEFINE x == [handler[h] EXCEPT !.pass = @ + 1]
    <3>1. handler[h].pass + 1 \in 1..MaxPasses
      BY <1>2, <2>2, RouteAssumption DEF Handler, Reloop
    <3>2. x \in Handler /\ x.pc = handler[h].pc /\ x.failure = handler[h].failure
          /\ x.branch = handler[h].branch /\ x.stream = handler[h].stream /\ x.q = handler[h].q
      BY <1>2, <3>1 DEF Handler
    <3>3. handler' = [handler EXCEPT ![h] = x]
      BY <2>2 DEF Reloop
    <3> HIDE DEF x
    <3> QED BY <3>2, <3>3
  <2> QED BY <2>1, <2>2
<1>4. BranchOK(x)
  BY <1>2, <1>3 DEF BranchOK
<1> QED BY <1>1, <1>3, <1>4, QuietStep DEF At

\* A request that ends: its turn is saved, or the query is counted among the lost, unless
\* its client is gone already.
LEMMA EndAnswers ==
    ASSUME Inv, Answers, NEW h \in Handlers,
           FastAnswer(h) \/ SaveAndRespond(h) \/ SaveStream(h) \/ Closed(h)
    PROVE  Answers'
<1>1. handler[h].pc \in {"fast", "work", "save"} /\ Moved(h, "end")
  BY DEF FastAnswer, SaveAndRespond, SaveStream, Closed, Streams, At
<1>2. handler[h] \in Handler /\ handler[h].failure = "none"
  BY <1>1, BusyAnswers DEF Steps
<1> DEFINE x == [handler[h] EXCEPT !.pc = "end"]
           q0 == handler[h].q
<1>3. x \in Handler /\ x.pc = "end" /\ x.failure = "none" /\ x.q = q0
  BY <1>2 DEF Handler, Steps
<1>4. BranchOK(x) /\ handler' = [handler EXCEPT ![h] = x] /\ q0 \in Queries
  BY <1>1, <1>2, <1>3 DEF BranchOK, Moved, Handler
<1>5. lost \subseteq lost' /\ (thread' = thread \/ thread' = WithTurn(h))
  BY DEF FastAnswer, SaveAndRespond, SaveStream, Closed, AppendTurn
<1>6. \/ thread' = WithTurn(h) \/ q0 \in lost'
      \/ ~At(h, "save") /\ UNCHANGED client
  BY DEF FastAnswer, SaveAndRespond, SaveStream, Closed, AppendTurn, Streams, At
<1>7. \A q \in Queries : Kept(q) => Kept(q)'
  BY <1>2, <1>5, KeptStays
<1>8. \A q \in Queries : q = q0 /\ (thread' = WithTurn(h) \/ q0 \in lost') => Kept(q)'
  BY <1>2, <1>5, KeptStays DEF Kept
<1>9. \A q \in Queries : client'[q].saw = "done" => client[q].saw = "done" \/ Kept(q)'
  BY <1>2, <1>6, <1>8, ToldSays DEF FastAnswer, SaveAndRespond, SaveStream, Closed
<1> HIDE DEF x
<1>10. At(h, "save") => \A q \in Queries : q = q0 => Kept(q)'
  BY <1>6, <1>8
<1>11. PICK y \in Handler : y = x
  BY <1>3
<1>12. PICK r \in Queries : r = q0
  BY <1>4
<1>13. y.q = r /\ BranchOK(y) /\ handler' = [handler EXCEPT ![h] = y]
  BY <1>3, <1>4, <1>11, <1>12
<1>14. At(h, "save") => Kept(y.q)'
  BY <1>10, <1>12, <1>13
<1> QED BY <1>7, <1>9, <1>12, <1>13, <1>14, AnswerStep

LEMMA InitHasAnswers == Init => Answers
<1> SUFFICES ASSUME Init PROVE Answers
  OBVIOUS
<1>1. \A q \in Queries : client[q].saw = "nothing"
  BY DEF Init
<1>2. \A h \in Handlers : handler[h] = NoHandler
  BY DEF Init
<1> QED BY <1>1, <1>2 DEF Answers, AnswersBecomeTurns, BranchesOK

LEMMA StepKeepsAnswers == Inv /\ Answers /\ [Next]_vars => Answers'
<1> SUFFICES ASSUME Inv, Answers, [Next]_vars PROVE Answers'
  OBVIOUS
<1>1. CASE UNCHANGED vars
  BY <1>1 DEF vars, Answers, AnswersBecomeTurns, BranchesOK, At
<1>2. ASSUME NEW h \in Handlers, NEW q \in Queries, Resend(h, q)
      PROVE  Answers'
  <2>1. PICK g \in client[q].on :
            /\ handler[g] # NoHandler
            /\ handler' = [handler EXCEPT ![h] = Fresh(q, handler[g].key, TRUE)]
    BY <1>2 DEF Resend
  <2>2. g \in Handlers
    BY DEF Inv, TypeOK
  <2>3. PICK k \in Keys : k = handler[g].key
    BY <2>1, <2>2 DEF Inv, TypeOK, Handler
  <2> QED BY <1>2, <2>1, <2>3, AskAnswers DEF Resend
<1>3. ASSUME NEW h \in Handlers, NEW q \in Queries, NEW k \in Keys, NEW s \in BOOLEAN, Ask(h, q, k, s)
      PROVE  Answers'
  BY <1>3, AskAnswers DEF Ask
<1>4. ASSUME NEW q \in Queries, Leave(q)
      PROVE  Answers'
  BY <1>4, LeaveAnswers
<1>5. ASSUME NEW h \in Handlers, Work(h)
      PROVE  Answers'
  <2>1. CASE Load(h)
    BY <2>1, LoadAnswers
  <2>2. CASE FastAnswer(h) \/ SaveAndRespond(h) \/ SaveStream(h)
    BY <2>2, EndAnswers
  <2>3. CASE FastFails(h) \/ StreamFails(h)
    BY <2>3, FailuresAnswer
  <2>4. CASE Select(h)
    BY <2>4, SelectAnswers
  <2>5. CASE Cache(h) \/ Done(h)
    BY <2>5, ToSaveAnswers
  <2>6. ASSUME NEW b \in Branches, BranchEnds(h, b)
        PROVE  Answers'
    BY <2>6, BranchEndsAnswers
  <2>7. CASE Token(h) \/ Reloop(h)
    BY <2>7, TokenAnswers
  <2> QED BY <1>5, <2>1, <2>2, <2>3, <2>4, <2>5, <2>6, <2>7 DEF Work
<1>6. ASSUME NEW h \in Handlers, RouteTimeout(h)
      PROVE  Answers'
  BY <1>6, FailuresAnswer
<1>7. ASSUME NEW h \in Handlers, Closed(h)
      PROVE  Answers'
  BY <1>7, EndAnswers
<1> QED BY <1>1, <1>2, <1>3, <1>4, <1>5, <1>6, <1>7 DEF Next

\* An answer a client has seen is in the thread, on its way there, or among those that are
\* known not to be; and a branch that answered is not failed by another, unless that one
\* ended without provenance.
THEOREM AnswersAlwaysHold == Spec => []AnswersHold
<1>1. Inv /\ Answers => AnswersHold
  BY DEF Answers, AnswersHold, BranchesOK, BranchOK, BranchesSuffice
<1> QED BY <1>1, InitHasInv, StepKeepsInv, InitHasAnswers, StepKeepsAnswers, PTL DEF Spec

(***************************************************************************)
(* The reasoning agent behind the routes, for every budget and every order *)
(* in which the parallel nodes are folded in.                              *)
(*                                                                         *)
(* BoundedUnlessTimeout is not inductive: that a pass is left says nothing *)
(* unless passes are counted, and that the limit is not met says nothing   *)
(* unless steps are.  LoopInv adds both counts: while evaluate has answered *)
(* every time, no more passes have begun than loops were counted, and the  *)
(* supersteps taken are four per pass.                                     *)
(***************************************************************************)
\* Supersteps of the current pass that come before node n.
Offset(n) == CASE n = "decompose" -> 0 [] n = "retrieve" -> 1
               [] n = "synthesize" -> 2 [] n = "evaluate" -> 3

Counted ==
    /\ pass <= state.loops + 1
    /\ node # "cut"
    /\ node \notin Ended => steps = 4 * (pass - 1) + Offset(node)

LoopInv ==
    /\ LoopTypeOK
    /\ node \notin Ended => steps < RecursionLimit
    /\ ~evalTimedOut => Counted

-----------------------------------------------------------------------------
\* The limit leaves room for a pass more than the largest budget allows.
LEMMA LimitFacts ==
    /\ RecursionLimit \in Nat
    /\ RecursionLimit >= 25
    /\ 4 * (MaxLoops + 1) < RecursionLimit
    /\ MaxLoops \in 1..5
BY ConstantsAssumption
   DEF RecursionLimit, Larger, Smaller, NodesPerLoop, LoopOverhead

\* Reducing two states yields a state, with the control fields of the later.
LEMMA ReduceFacts ==
    ASSUME NEW l \in AgentState, NEW r \in AgentState
    PROVE  /\ Reduce(l, r) \in AgentState
           /\ Reduce(l, r).loops = r.loops
           /\ Reduce(l, r).reloop = r.reloop
           /\ Reduce(l, r).sources \in {l.sources, r.sources}
BY DEF Reduce, PreferPopulated, AgentState

\* Nodes return states, with no fewer loops counted and no source lost.
LEMMA NodeFacts ==
    ASSUME state \in AgentState
    PROVE  /\ \A s \in Decomposed : s \in AgentState /\ s.loops = state.loops
                                      /\ s.sources = state.sources
           /\ \A r \in Retrieval : \A s \in Gathered(r) :
                  s \in AgentState /\ s.loops = state.loops
                    /\ state.sources \subseteq s.sources
           /\ \A s \in Synthesized : s \in AgentState /\ s.loops >= state.loops
                                       /\ s.sources = state.sources
           /\ \A low \in BOOLEAN :
                  /\ Evaluated(low) \in AgentState
                  /\ Evaluated(low).sources = state.sources
                  /\ Evaluated(low).loops =
                       state.loops + (IF Evaluated(low).reloop THEN 1 ELSE 0)
<1>1. \A s \in Decomposed : s \in AgentState /\ s.loops = state.loops
                              /\ s.sources = state.sources
  BY DEF Decomposed, AgentState
<1>2. ASSUME NEW r \in Retrieval, NEW s \in Gathered(r)
      PROVE  s \in AgentState /\ s.loops = state.loops /\ state.sources \subseteq s.sources
  <2> DEFINE new == <<r, IF pass = 1 THEN "first pass" ELSE "later pass">>
  <2>1. new \in Source
    BY <1>2 DEF Source
  <2>2. s = state \/ s = [state EXCEPT !.sources = state.sources \cup {new}]
    BY <1>2 DEF Gathered
  <2> HIDE DEF new
  <2>3. state.sources \cup {new} \subseteq Source
    BY <2>1 DEF AgentState
  <2>. QED
    BY <2>2, <2>3 DEF AgentState
<1>3. \A s \in Synthesized : s \in AgentState /\ s.loops >= state.loops
                               /\ s.sources = state.sources
  <2>1. state.loops \in 0..MaxLoops /\ MaxLoops \in Nat /\ MaxLoops >= state.loops
    BY LimitFacts DEF AgentState
  <2> DEFINE answered == [state EXCEPT !.answer = TRUE]
             refused == [state EXCEPT !.answer = TRUE, !.loops = MaxLoops]
  <2>2. /\ answered \in AgentState /\ answered.loops = state.loops
        /\ answered.sources = state.sources
    BY DEF AgentState
  <2>3. /\ refused \in AgentState /\ refused.loops = MaxLoops
        /\ refused.sources = state.sources
    <3>1. MaxLoops \in 0..MaxLoops
      BY LimitFacts
    <3>. QED
      BY <3>1 DEF AgentState
  <2>4. Synthesized = {state, answered, refused}
    BY DEF Synthesized
  <2> HIDE DEF answered, refused
  <2>5. state.loops >= state.loops
    BY <2>1
  <2>. QED
    BY <2>1, <2>2, <2>3, <2>4, <2>5
<1>4. ASSUME NEW low \in BOOLEAN
      PROVE  /\ Evaluated(low) \in AgentState
             /\ Evaluated(low).sources = state.sources
             /\ Evaluated(low).loops = state.loops + (IF Evaluated(low).reloop THEN 1 ELSE 0)
  <2> DEFINE again == low /\ state.loops < Budget(state)
             next == IF again THEN state.loops + 1 ELSE state.loops
  <2>1. Evaluated(low) = [state EXCEPT !.reloop = again, !.loops = next]
    BY DEF Evaluated
  <2>2. state.loops \in 0..MaxLoops /\ again \in BOOLEAN /\ next \in 0..MaxLoops
    BY LimitFacts DEF Budget, Smaller, AgentState
  <2>3. next = state.loops + (IF again THEN 1 ELSE 0)
    BY <2>2
  <2> HIDE DEF again, next
  <2>. QED
    BY <2>1, <2>2, <2>3 DEF AgentState
<1>. QED
  BY <1>1, <1>2, <1>3, <1>4

\* The three retrievals, folded one after the other.
LEMMA FoldFacts ==
    ASSUME state \in AgentState,
           NEW a \in Gathered(MergeOrder[1]), NEW b \in Gathered(MergeOrder[2]),
           NEW c \in Gathered(MergeOrder[3])
    PROVE  LET s == Reduce(Reduce(Reduce(state, a), b), c) IN
           /\ s \in AgentState
           /\ s.loops = state.loops
           /\ state.sources \subseteq s.sources
           /\ a.sources \cup b.sources \cup c.sources \subseteq Source
<1>1. /\ MergeOrder[1] \in Retrieval
      /\ MergeOrder[2] \in Retrieval
      /\ MergeOrder[3] \in Retrieval
  BY ConstantsAssumption
<1>2. /\ a \in AgentState /\ b \in AgentState /\ c \in AgentState
      /\ c.loops = state.loops
      /\ state.sources \subseteq a.sources /\ state.sources \subseteq b.sources
      /\ state.sources \subseteq c.sources
  BY <1>1, NodeFacts
<1> DEFINE one == Reduce(state, a)
           two == Reduce(one, b)
           three == Reduce(two, c)
<1>3. one \in AgentState /\ one.sources \in {state.sources, a.sources}
  BY <1>2, ReduceFacts
<1>4. two \in AgentState /\ two.sources \in {one.sources, b.sources}
  <2> HIDE DEF one
  <2>. QED BY <1>2, <1>3, ReduceFacts
<1>5. /\ three \in AgentState /\ three.sources \in {two.sources, c.sources}
      /\ three.loops = c.loops
  <2> HIDE DEF two
  <2>. QED BY <1>2, <1>4, ReduceFacts
<1>6. a.sources \cup b.sources \cup c.sources \subseteq Source
  BY <1>2 DEF AgentState
<1> HIDE DEF one, two, three
<1>7. state.sources \subseteq three.sources
  BY <1>2, <1>3, <1>4, <1>5
<1>. QED
  BY <1>2, <1>5, <1>6, <1>7 DEF one, two, three

-----------------------------------------------------------------------------
\* LoopInv holds at the start of a run.
LEMMA InitInv == LoopInit => LoopInv
<1> SUFFICES ASSUME LoopInit PROVE LoopInv
  OBVIOUS
<1>1. /\ state \in AgentState /\ state.loops = 0
      /\ pass = 1 /\ steps = 0 /\ evalTimedOut = FALSE
      /\ node = "decompose" /\ node \notin Ended
  BY LimitFacts DEF LoopInit, AgentState, Ended
<1>2. LoopTypeOK
  <2>1. pass \in 1..PassBound /\ steps \in 0..RecursionLimit
    BY <1>1, LimitFacts DEF PassBound
  <2>. QED
    BY <1>1, <2>1 DEF LoopTypeOK
<1>3. Counted
  BY <1>1 DEF Counted, Offset
<1>. QED
  BY <1>1, <1>2, <1>3, LimitFacts DEF LoopInv

\* A step of a pass to its next node m, which leaves the pass as it is.
LEMMA OnwardInv ==
    ASSUME LoopInv, NEW n \in {"decompose", "retrieve", "synthesize"}, node = n,
           NEW s \in AgentState, s.loops >= state.loops, pass' = pass,
           Step(CASE n = "decompose" -> "retrieve" [] n = "retrieve" -> "synthesize"
                  [] n = "synthesize" -> "evaluate", s),
           evalTimedOut' = evalTimedOut
    PROVE  LoopInv'
<1>1. /\ state' = s /\ steps' = steps + 1
      /\ node' \in {"retrieve", "synthesize", "evaluate", "cut"}
      /\ node' = "cut" <=> steps + 1 = RecursionLimit
      /\ node' # "cut" => Offset(node') = Offset(node) + 1
  BY DEF Step, Ended, Offset
<1>2. LoopTypeOK'
  BY <1>1, LimitFacts DEF LoopInv, LoopTypeOK, Ended
<1>3. node' \notin Ended => steps' < RecursionLimit'
  BY <1>1, LimitFacts DEF LoopInv, LoopTypeOK, Ended, RecursionLimit, Larger, Smaller
<1>4. ASSUME ~evalTimedOut PROVE Counted'
  <2>1. pass <= state.loops + 1 /\ steps = 4 * (pass - 1) + Offset(node) /\ Offset(node) <= 2
        /\ Offset(node) \in Nat
    BY <1>4 DEF LoopInv, Counted, Ended, Offset
  <2>2. pass \in Nat /\ state.loops \in 0..MaxLoops /\ s.loops \in 0..MaxLoops /\ steps \in Nat
    BY LimitFacts DEF LoopInv, LoopTypeOK, AgentState, PassBound
  <2>3. steps + 1 < RecursionLimit
    BY <2>1, <2>2, LimitFacts
  <2>4. steps' = 4 * (pass' - 1) + Offset(node')
    BY <1>1, <2>1, <2>2, <2>3, LimitFacts
  <2>. QED
    BY <1>1, <2>1, <2>2, <2>3, <2>4, LimitFacts DEF Counted
<1>. QED
  BY <1>2, <1>3, <1>4 DEF LoopInv

\* Evaluate, whether or not it answered in time, routes the run.
LEMMA RouteInv ==
    ASSUME LoopInv, node = "evaluate", NEW s \in AgentState, Route(s),
           \/ /\ evalTimedOut' = evalTimedOut
              /\ s.loops = state.loops + (IF s.reloop THEN 1 ELSE 0)
           \/ evalTimedOut' = TRUE
    PROVE  LoopInv'
<1>1. /\ state' = s /\ steps' = steps + 1
      /\ node' \in {"decompose"} \cup Ended
      /\ node' = "decompose" => s.reloop /\ steps + 1 # RecursionLimit
      /\ node' = "cut" => s.reloop /\ steps + 1 = RecursionLimit
      /\ pass' = IF s.reloop THEN Smaller(pass + 1, PassBound) ELSE pass
  BY DEF Route, Step, Ended
<1>2. LoopTypeOK'
  <2>1. pass' \in 1..PassBound /\ PassBound' = PassBound
    BY <1>1, LimitFacts DEF LoopInv, LoopTypeOK, PassBound, Smaller
  <2>2. steps' \in 0..RecursionLimit
    BY <1>1, LimitFacts DEF LoopInv, LoopTypeOK, Ended
  <2>. QED
    BY <1>1, <2>1, <2>2 DEF LoopInv, LoopTypeOK
<1>3. node' \notin Ended => steps' < RecursionLimit'
  BY <1>1, LimitFacts DEF LoopInv, LoopTypeOK, Ended, RecursionLimit, Larger, Smaller
<1>4. ASSUME ~evalTimedOut' PROVE Counted'
  <2>1. ~evalTimedOut /\ s.loops = state.loops + (IF s.reloop THEN 1 ELSE 0)
    BY <1>4 DEF LoopInv, LoopTypeOK
  <2>2. pass <= state.loops + 1 /\ steps = 4 * (pass - 1) + 3
    BY <2>1 DEF LoopInv, Counted, Ended, Offset
  <2>3. pass \in Nat /\ state.loops \in 0..MaxLoops /\ s.loops \in 0..MaxLoops /\ steps \in Nat
    BY LimitFacts DEF LoopInv, LoopTypeOK, AgentState, PassBound
  <2>4. steps + 1 < RecursionLimit
    BY <2>2, <2>3, LimitFacts
  <2>5. pass' = IF s.reloop THEN pass + 1 ELSE pass
    BY <1>1, <2>1, <2>2, <2>3, LimitFacts DEF Smaller, PassBound
  <2>6. node' # "cut" /\ pass' <= state'.loops + 1
    BY <1>1, <2>1, <2>2, <2>3, <2>4, <2>5, LimitFacts
  <2>7. ASSUME node' \notin Ended PROVE steps' = 4 * (pass' - 1) + Offset(node')
    <3>1. node' = "decompose" /\ s.reloop
      BY <1>1, <2>7
    <3>. QED
      BY <1>1, <2>2, <2>3, <2>5, <3>1 DEF Offset
  <2>. QED
    BY <2>6, <2>7 DEF Counted
<1>. QED
  BY <1>2, <1>3, <1>4 DEF LoopInv

\* LoopInv is inductive.
LEMMA NextInv == LoopInv /\ [LoopNext]_loopVars => LoopInv'
<1> SUFFICES ASSUME LoopInv, [LoopNext]_loopVars PROVE LoopInv'
  OBVIOUS
<1>0. state \in AgentState
  BY DEF LoopInv, LoopTypeOK
<1>1. CASE Decompose
  <2>1. PICK s \in Decomposed : Step("retrieve", Reduce(state, s))
    BY <1>1 DEF Decompose
  <2>2. Reduce(state, s) \in AgentState /\ Reduce(state, s).loops >= state.loops
    <3>1. s \in AgentState /\ s.loops = state.loops
      BY <1>0, NodeFacts
    <3>. QED BY <1>0, <3>1, ReduceFacts, LimitFacts DEF AgentState
  <2>. QED
    BY <1>0, <1>1, <2>1, <2>2, OnwardInv DEF Decompose
<1>2. CASE Retrieve
  <2>1. PICK a \in Gathered(MergeOrder[1]), b \in Gathered(MergeOrder[2]),
             c \in Gathered(MergeOrder[3]) :
           Step("synthesize", Reduce(Reduce(Reduce(state, a), b), c))
    BY <1>2 DEF Retrieve
  <2> DEFINE s == Reduce(Reduce(Reduce(state, a), b), c)
  <2>2. s \in AgentState /\ s.loops >= state.loops
    BY <1>0, <2>1, FoldFacts, LimitFacts DEF AgentState
  <2> HIDE DEF s
  <2>3. Step("synthesize", s)
    BY <2>1 DEF s
  <2>. QED
    BY <1>0, <1>2, <2>2, <2>3, OnwardInv DEF Retrieve
<1>3. CASE Synthesize
  <2>1. PICK s \in Synthesized : Step("evaluate", Reduce(state, s))
    BY <1>3 DEF Synthesize
  <2>2. Reduce(state, s) \in AgentState /\ Reduce(state, s).loops >= state.loops
    <3>1. s \in AgentState /\ s.loops >= state.loops
      BY <1>0, NodeFacts
    <3>. QED BY <1>0, <3>1, ReduceFacts
  <2>. QED
    BY <1>0, <1>3, <2>1, <2>2, OnwardInv DEF Synthesize
<1>4. CASE Evaluate
  <2>1. PICK low \in BOOLEAN : Route(Reduce(state, Evaluated(low)))
    BY <1>4 DEF Evaluate
  <2> DEFINE s == Reduce(state, Evaluated(low))
  <2>2. s \in AgentState /\ s.loops = state.loops + (IF s.reloop THEN 1 ELSE 0)
    <3>1. /\ Evaluated(low) \in AgentState
          /\ Evaluated(low).loops = state.loops + (IF Evaluated(low).reloop THEN 1 ELSE 0)
      BY <1>0, NodeFacts
    <3>. QED BY <1>0, <3>1, ReduceFacts
  <2> HIDE DEF s
  <2>3. Route(s)
    BY <2>1 DEF s
  <2>. QED
    BY <1>4, <2>2, <2>3, RouteInv DEF Evaluate
<1>5. CASE EvaluateTimeout
  BY <1>0, <1>5, RouteInv DEF EvaluateTimeout
<1>6. CASE Fail
  BY <1>6 DEF Fail, LoopInv, LoopTypeOK, Counted, Ended
<1>7. CASE UNCHANGED loopVars
  BY <1>7 DEF loopVars, LoopInv, LoopTypeOK, Counted, Offset, Ended
<1>. QED
  BY <1>1, <1>2, <1>3, <1>4, <1>5, <1>6, <1>7 DEF LoopNext

-----------------------------------------------------------------------------
\* LoopInv holds throughout every run.
THEOREM LoopInvariance == LoopSpec => []LoopInv
BY InitInv, NextInv, PTL DEF LoopSpec

\* Unless evaluate times out, the loop of _evaluate_route keeps within
\* max_reasoning_loops and no run meets the recursion limit.
THEOREM LoopKeepsBudget == LoopSpec => []InBudget
<1>1. LoopInv => BoundedUnlessTimeout
  BY LimitFacts DEF LoopInv, Counted, BoundedUnlessTimeout, LoopTypeOK, AgentState, PassBound
<1>2. LoopInv => InBudget
  BY <1>1 DEF LoopInv, InBudget
<1>. QED
  BY <1>2, LoopInvariance, PTL

\* No node and no merge of parallel nodes drops a source that was already in
\* the channels when they started.
THEOREM SourcesAccumulate == LoopSpec => SourcesStay
<1>1. ASSUME LoopInv, [LoopNext]_loopVars PROVE [state.sources \subseteq state'.sources]_loopVars
  <2>0. state \in AgentState
    BY <1>1 DEF LoopInv, LoopTypeOK
  <2>1. CASE Decompose
    <3>1. PICK s \in Decomposed : state' = Reduce(state, s)
      BY <2>1 DEF Decompose, Step
    <3>. QED
      BY <2>0, <3>1, NodeFacts, ReduceFacts
  <2>2. CASE Retrieve
    <3>1. PICK a \in Gathered(MergeOrder[1]), b \in Gathered(MergeOrder[2]),
               c \in Gathered(MergeOrder[3]) :
             state' = Reduce(Reduce(Reduce(state, a), b), c)
      BY <2>2 DEF Retrieve, Step
    <3>. QED
      BY <2>0, <3>1, FoldFacts
  <2>3. CASE Synthesize
    <3>1. PICK s \in Synthesized : state' = Reduce(state, s)
      BY <2>3 DEF Synthesize, Step
    <3>. QED
      BY <2>0, <3>1, NodeFacts, ReduceFacts
  <2>4. CASE Evaluate
    <3>1. PICK low \in BOOLEAN : state' = Reduce(state, Evaluated(low))
      BY <2>4 DEF Evaluate, Route, Step
    <3>. QED
      BY <2>0, <3>1, NodeFacts, ReduceFacts
  <2>5. CASE EvaluateTimeout
    BY <2>5 DEF EvaluateTimeout, Route, Step
  <2>6. CASE Fail
    BY <2>6 DEF Fail
  <2>7. CASE UNCHANGED loopVars
    BY <2>7
  <2>. QED
    BY <1>1, <2>1, <2>2, <2>3, <2>4, <2>5, <2>6, <2>7 DEF LoopNext
<1>. QED
  BY <1>1, LoopInvariance, PTL DEF LoopSpec, SourcesStay

\* A step of the graph ends the run or uses up one of the supersteps it is given, and
\* no run goes on after its end (_compute_recursion_limit, run_reasoning_agent): what
\* is left of Terminates without fairness.
THEOREM LoopAdvances ==
    LoopSpec => [][/\ node \notin Ended
                   /\ \/ node' \in Ended
                      \/ steps' = steps + 1 /\ steps' < RecursionLimit]_loopVars
<1> DEFINE Advances == /\ node \notin Ended
                       /\ \/ node' \in Ended
                          \/ steps' = steps + 1 /\ steps' < RecursionLimit
<1>1. ASSUME LoopInv, LoopInv', LoopNext PROVE Advances
  <2>1. \A n, s : Step(n, s) => steps' = steps + 1
    BY DEF Step
  <2>2. \A s : Route(s) => steps' = steps + 1
    BY <2>1 DEF Route
  <2>3. node \notin Ended
    BY <1>1 DEF LoopNext, Decompose, Retrieve, Synthesize, Evaluate, EvaluateTimeout, Fail, Ended
  <2>4. steps' = steps + 1 \/ node' = "failed"
    BY <1>1, <2>1, <2>2 DEF LoopNext, Decompose, Retrieve, Synthesize, Evaluate, EvaluateTimeout, Fail
  <2>5. node' \notin Ended => steps' < RecursionLimit
    BY <1>1, LimitFacts DEF LoopInv, RecursionLimit, Larger, Smaller
  <2>. QED
    BY <2>3, <2>4, <2>5 DEF Ended
<1>2. ASSUME LoopInv, LoopInv', [LoopNext]_loopVars PROVE [Advances]_loopVars
  BY <1>1, <1>2
<1>. QED
  BY <1>2, LoopInvariance, PTL DEF LoopSpec

-----------------------------------------------------------------------------
(* What a pass may see and send, and what it accepts: functions of their inputs.  *)

\* A batch: entities, one per id, and relationships, with their governance.
IsGovernance(g) == g = [tenant |-> g.tenant, visibility |-> g.visibility, acl |-> g.acl, groups |-> g.groups]
IsRelation(r) ==
    r = [id |-> r.id, type |-> r.type, src |-> r.src, tgt |-> r.tgt, gov |-> r.gov,
         evidence |-> r.evidence, fact |-> r.fact]
IsBatch(graph) ==
    /\ \A e \in graph.entities : e = [id |-> e.id, gov |-> e.gov] /\ IsGovernance(e.gov)
    /\ \A r \in graph.rels : IsRelation(r) /\ IsGovernance(r.gov)
    /\ \A d, e \in graph.entities : d.id = e.id => d = e

\* The parts of the layer: facts, their edges, and the relationships they come from.
PlainOf(graph) == {r \in graph.rels : Plain(r)}
FactsOf(graph) == {[id |-> FactId(r), gov |-> Inherited(r, graph.entities)] : r \in PlainOf(graph)}
EdgesOf(graph) == UNION {FactEdges(r, Inherited(r, graph.entities)) : r \in PlainOf(graph)}
WithFact(r, entities) == [r EXCEPT !.gov = Inherited(r, entities), !.fact = FactId(r)]
EvidenceOf(r, entities) == {e \in entities : e.id = r.evidence}

\* What is evidence is an artifact, not a fact that is made in the batch.
EvidenceIsNoFact(graph) == \A r, s \in PlainOf(graph) : r.evidence # FactId(s)

\* The layer in terms of its parts.
LEMMA Layer ==
    ASSUME NEW graph
    PROVE  MaterializeFactLayer(graph) =
             [entities |-> FactsOf(graph) \cup {e \in graph.entities : \A f \in FactsOf(graph) : f.id # e.id},
              rels |-> {WithFact(r, graph.entities) : r \in PlainOf(graph)} \cup EdgesOf(graph)
                       \cup {r \in graph.rels \ PlainOf(graph) : \A e \in EdgesOf(graph) : e.id # r.id}]
BY DEF MaterializeFactLayer, FactsOf, PlainOf, EdgesOf, WithFact

\* Inheriting again from the same evidence changes nothing.
LEMMA InheritedAgain ==
    ASSUME NEW r, NEW s, NEW entities, NEW others, s.evidence = r.evidence,
           s.gov = Inherited(r, entities), EvidenceOf(r, others) = EvidenceOf(r, entities)
    PROVE  Inherited(s, others) = Inherited(r, entities)
<1> DEFINE ev == EvidenceOf(r, entities)
           gov == IF ev = {} THEN NoGovernance ELSE (CHOOSE e \in ev : TRUE).gov
<1>1. Inherited(r, entities) = [tenant |-> IF r.gov.tenant # "" THEN r.gov.tenant ELSE gov.tenant,
         visibility |-> IF r.gov.visibility # "" THEN r.gov.visibility ELSE gov.visibility,
         acl |-> IF r.gov.acl # {} THEN r.gov.acl ELSE gov.acl,
         groups |-> IF r.gov.groups # {} THEN r.gov.groups ELSE gov.groups]
  BY DEF Inherited, EvidenceOf
<1>2. Inherited(s, others) = [tenant |-> IF s.gov.tenant # "" THEN s.gov.tenant ELSE gov.tenant,
         visibility |-> IF s.gov.visibility # "" THEN s.gov.visibility ELSE gov.visibility,
         acl |-> IF s.gov.acl # {} THEN s.gov.acl ELSE gov.acl,
         groups |-> IF s.gov.groups # {} THEN s.gov.groups ELSE gov.groups]
  <2>1. EvidenceOf(s, others) = ev
    BY DEF EvidenceOf
  <2> HIDE DEF ev
  <2>2. Inherited(s, others) = LET g == IF EvidenceOf(s, others) = {} THEN NoGovernance
                                        ELSE (CHOOSE e \in EvidenceOf(s, others) : TRUE).gov IN
        [tenant |-> IF s.gov.tenant # "" THEN s.gov.tenant ELSE g.tenant,
         visibility |-> IF s.gov.visibility # "" THEN s.gov.visibility ELSE g.visibility,
         acl |-> IF s.gov.acl # {} THEN s.gov.acl ELSE g.acl,
         groups |-> IF s.gov.groups # {} THEN s.gov.groups ELSE g.groups]
    BY DEF Inherited, EvidenceOf
  <2> QED BY <2>1, <2>2
<1> HIDE DEF gov, ev
<1> DEFINE t == IF r.gov.tenant # "" THEN r.gov.tenant ELSE gov.tenant
           v == IF r.gov.visibility # "" THEN r.gov.visibility ELSE gov.visibility
           a == IF r.gov.acl # {} THEN r.gov.acl ELSE gov.acl
           g == IF r.gov.groups # {} THEN r.gov.groups ELSE gov.groups
<1>0. s.gov = [tenant |-> t, visibility |-> v, acl |-> a, groups |-> g]
  BY <1>1
<1>3. /\ t = "" => gov.tenant = ""
      /\ v = "" => gov.visibility = ""
      /\ a = {} => gov.acl = {}
      /\ g = {} => gov.groups = {}
  OBVIOUS
<1> HIDE DEF t, v, a, g
<1>7. s.gov.tenant = t /\ s.gov.visibility = v /\ s.gov.acl = a /\ s.gov.groups = g
  BY <1>0
<1>4. /\ (IF s.gov.tenant # "" THEN s.gov.tenant ELSE gov.tenant) = s.gov.tenant
      /\ (IF s.gov.visibility # "" THEN s.gov.visibility ELSE gov.visibility) = s.gov.visibility
      /\ (IF s.gov.acl # {} THEN s.gov.acl ELSE gov.acl) = s.gov.acl
      /\ (IF s.gov.groups # {} THEN s.gov.groups ELSE gov.groups) = s.gov.groups
  BY <1>3, <1>7
<1>5. Inherited(s, others) = [tenant |-> s.gov.tenant, visibility |-> s.gov.visibility,
                              acl |-> s.gov.acl, groups |-> s.gov.groups]
  BY <1>2, <1>4
<1>6. s.gov = [tenant |-> s.gov.tenant, visibility |-> s.gov.visibility,
               acl |-> s.gov.acl, groups |-> s.gov.groups]
  BY <1>0, <1>7
<1> QED BY <1>5, <1>6

\* A relationship that has been given its fact.
LEMMA FactIsTold ==
    ASSUME NEW graph, IsBatch(graph), NEW r \in PlainOf(graph)
    PROVE  LET s == WithFact(r, graph.entities) IN
           /\ s = [id |-> r.id, type |-> r.type, src |-> r.src, tgt |-> r.tgt,
                   gov |-> Inherited(r, graph.entities), evidence |-> r.evidence, fact |-> FactId(r)]
           /\ FactId(r) # NoId /\ FactId(s) = FactId(r) /\ Plain(s)
<1> DEFINE s == WithFact(r, graph.entities)
<1>1. IsRelation(r) /\ Plain(r)
  BY DEF IsBatch, PlainOf
<1>2. s = [id |-> r.id, type |-> r.type, src |-> r.src, tgt |-> r.tgt,
           gov |-> Inherited(r, graph.entities), evidence |-> r.evidence, fact |-> FactId(r)]
  <2> DEFINE g == Inherited(r, graph.entities)
             f == FactId(r)
  <2>1. s = [r EXCEPT !.gov = g, !.fact = f]
    BY DEF WithFact
  <2> HIDE DEF s, g, f
  <2>2. s = [id |-> r.id, type |-> r.type, src |-> r.src, tgt |-> r.tgt,
             gov |-> g, evidence |-> r.evidence, fact |-> f]
    BY <1>1, <2>1 DEF IsRelation
  <2> QED BY <2>2 DEF g, f
<1>3. FactId(r) # NoId
  <2>1. \A e : <<"fact", r.src, r.type, r.tgt, e>> # <<>>
    OBVIOUS
  <2> QED BY <2>1 DEF FactId, NoId
<1> HIDE DEF s
<1>4. s.fact = FactId(r) /\ s.type = r.type /\ s.src = r.src /\ s.tgt = r.tgt
  BY <1>2
<1>5. FactId(s) = FactId(r)
  BY <1>3, <1>4 DEF FactId
<1>6. Plain(s)
  BY <1>1, <1>4 DEF Plain
<1> QED BY <1>2, <1>3, <1>5, <1>6 DEF s

\* The edges of facts are no plain relationships, and depend on the fact only.
LEMMA EdgeFacts ==
    ASSUME NEW r, NEW gov
    PROVE  /\ \A e \in FactEdges(r, gov) : ~Plain(e)
           /\ \A s : FactId(s) = FactId(r) /\ s.src = r.src /\ s.tgt = r.tgt /\ s.evidence = r.evidence
                        => FactEdges(s, gov) = FactEdges(r, gov)
BY DEF FactEdges, Plain, FactEdgeTypes

\* What was materialized may be ingested again (materialize_fact_layer): a second
\* pass leaves facts, evidence, relationships and edges as they are.
THEOREM FactsAreMadeOnce ==
    ASSUME NEW graph, IsBatch(graph), EvidenceIsNoFact(graph)
    PROVE  FactsOnce(graph)
<1> DEFINE E == graph.entities
           P == PlainOf(graph)
           F == FactsOf(graph)
           D == EdgesOf(graph)
           T == {WithFact(r, E) : r \in P}
           N == {r \in graph.rels \ P : \A e \in D : e.id # r.id}
           kept == {e \in E : \A f \in F : f.id # e.id}
           once == [entities |-> F \cup kept, rels |-> T \cup D \cup N]
<1>1. MaterializeFactLayer(graph) = once
  BY Layer
<1>2. once.entities = F \cup kept /\ once.rels = T \cup D \cup N
  OBVIOUS
<1>3. PlainOf(once) = T
  <2>1. \A s \in T : Plain(s)
    BY FactIsTold
  <2>2. \A s \in D : ~Plain(s)
    BY EdgeFacts DEF EdgesOf
  <2>3. \A s \in N : ~Plain(s)
    BY DEF PlainOf
  <2> HIDE DEF T, D, N, once
  <2> QED BY <1>2, <2>1, <2>2, <2>3 DEF PlainOf
<1>4. ASSUME NEW q \in P
      PROVE  /\ Inherited(WithFact(q, E), once.entities) = Inherited(q, E)
             /\ FactId(WithFact(q, E)) = FactId(q)
             /\ WithFact(WithFact(q, E), once.entities) = WithFact(q, E)
             /\ FactEdges(WithFact(q, E), Inherited(q, E)) = FactEdges(q, Inherited(q, E))
  <2> DEFINE s == WithFact(q, E)
             g == Inherited(q, E)
  <2>1. /\ s = [id |-> q.id, type |-> q.type, src |-> q.src, tgt |-> q.tgt,
                gov |-> g, evidence |-> q.evidence, fact |-> FactId(q)]
        /\ FactId(s) = FactId(q)
    BY FactIsTold
  <2> HIDE DEF s
  <2>2. s.evidence = q.evidence /\ s.gov = g /\ s.src = q.src /\ s.tgt = q.tgt
    BY <2>1
  <2>3. EvidenceOf(q, once.entities) = EvidenceOf(q, E)
    <3>1. \A f \in F : f.id # q.evidence
      <4>1. \A f \in F : \E p \in P : f.id = FactId(p)
        BY DEF FactsOf
      <4> QED BY <4>1 DEF EvidenceIsNoFact
    <3> HIDE DEF F, E, once
    <3> QED BY <1>2, <3>1 DEF EvidenceOf
  <2>4. Inherited(s, once.entities) = g
    <3>1. s.evidence = q.evidence /\ s.gov = Inherited(q, E)
      BY <2>2
    <3> HIDE DEF E, once
    <3> QED BY <2>3, <3>1, InheritedAgain DEF g
  <2>5. WithFact(s, once.entities) = s
    <3>1. WithFact(s, once.entities) = [s EXCEPT !.gov = g, !.fact = FactId(q)]
      BY <2>1, <2>4 DEF WithFact
    <3> HIDE DEF g
    <3> QED BY <2>1, <3>1
  <2>6. FactEdges(s, g) = FactEdges(q, g)
    BY <2>1, <2>2, EdgeFacts
  <2> QED BY <2>1, <2>4, <2>5, <2>6 DEF s
<1> HIDE DEF once, E
<1>5. FactsOf(once) = F
  <2>1. FactsOf(once) = {[id |-> FactId(s), gov |-> Inherited(s, once.entities)] : s \in T}
    BY <1>3 DEF FactsOf
  <2>2. @ = {[id |-> FactId(WithFact(r, E)), gov |-> Inherited(WithFact(r, E), once.entities)] : r \in P}
    OBVIOUS
  <2>3. @ = {[id |-> FactId(r), gov |-> Inherited(r, E)] : r \in P}
    BY <1>4
  <2> QED BY <2>1, <2>2, <2>3 DEF FactsOf, E
<1>6. EdgesOf(once) = D
  <2>1. EdgesOf(once) = UNION {FactEdges(s, Inherited(s, once.entities)) : s \in T}
    BY <1>3 DEF EdgesOf
  <2>2. {FactEdges(s, Inherited(s, once.entities)) : s \in T}
        = {FactEdges(WithFact(r, E), Inherited(WithFact(r, E), once.entities)) : r \in P}
    OBVIOUS
  <2>3. @ = {FactEdges(r, Inherited(r, E)) : r \in P}
    BY <1>4
  <2> QED BY <2>1, <2>2, <2>3 DEF EdgesOf, E
<1>7. {WithFact(s, once.entities) : s \in PlainOf(once)} = T
  BY <1>3, <1>4
<1>8. {e \in once.entities : \A f \in F : f.id # e.id} = kept
  BY <1>2
<1>9. {r \in once.rels \ T : \A e \in D : e.id # r.id} = N
  <2>1. N \cap T = {}
    BY <1>3, FactIsTold DEF E, PlainOf
  <2> HIDE DEF T, D
  <2> QED BY <1>2, <2>1
<1> HIDE DEF T, D, N, F, kept
<1>10. MaterializeFactLayer(once) = [entities |-> F \cup kept, rels |-> T \cup D \cup N]
  BY <1>3, <1>5, <1>6, <1>7, <1>8, <1>9, Layer
<1> QED BY <1>1, <1>10 DEF FactsOnce, once

\* No two relationships of the batch make the same fact.
OneFactEach(graph) == \A r, s \in PlainOf(graph) : FactId(r) = FactId(s) => r = s

\* The fields of NoGovernance.
LEMMA Ungoverned ==
    /\ NoGovernance.tenant = "" /\ NoGovernance.visibility = ""
    /\ NoGovernance.acl = {} /\ NoGovernance.groups = {}
BY DEF NoGovernance

\* A relationship without governance of its own has that of its evidence.
LEMMA InheritedFromEvidence ==
    ASSUME NEW entities, NEW e \in entities, IsGovernance(e.gov), \A d \in entities : d.id = e.id => d = e,
           NEW q, q.evidence = e.id, q.gov = NoGovernance
    PROVE  Inherited(q, entities) = e.gov
<1> DEFINE ev == {d \in entities : d.id = q.evidence}
<1>1. ev = {e}
  OBVIOUS
<1>2. (CHOOSE d \in ev : TRUE) = e /\ ev # {}
  BY <1>1
<1> HIDE DEF ev
<1>3. Inherited(q, entities) =
        [tenant |-> IF q.gov.tenant # "" THEN q.gov.tenant ELSE e.gov.tenant,
         visibility |-> IF q.gov.visibility # "" THEN q.gov.visibility ELSE e.gov.visibility,
         acl |-> IF q.gov.acl # {} THEN q.gov.acl ELSE e.gov.acl,
         groups |-> IF q.gov.groups # {} THEN q.gov.groups ELSE e.gov.groups]
  BY <1>2 DEF Inherited, ev
<1>4. q.gov.tenant = "" /\ q.gov.visibility = "" /\ q.gov.acl = {} /\ q.gov.groups = {}
  BY Ungoverned
<1> QED BY <1>3, <1>4 DEF IsGovernance

\* Who may see a fact may see the evidence it was made from, whatever lists of
\* principals the evidence has (materialize_fact_layer, can_access_entity).
THEOREM FactsAreGoverned ==
    ASSUME NEW graph, NEW caller, IsBatch(graph), EvidenceIsNoFact(graph), OneFactEach(graph)
    PROVE  EvidenceGoverns(graph, caller)
<1> DEFINE all == MaterializeFactLayer(graph)
           seen == FilterGraph(all, caller)
<1>1. all.entities = FactsOf(graph)
                     \cup {e \in graph.entities : \A f \in FactsOf(graph) : f.id # e.id}
  BY Layer
<1>2. \A x : x \in seen.entities <=> x \in all.entities /\ CanAccess(x.gov, caller)
  BY DEF FilterGraph
<1> SUFFICES ASSUME NEW q \in graph.rels, Plain(q), q.gov = NoGovernance,
                    NEW e \in graph.entities, e.id = q.evidence,
                    NEW x \in seen.entities, x.id = FactId(q)
             PROVE  e \in seen.entities
  BY DEF EvidenceGoverns
<1> HIDE DEF all, seen
<1>3. q \in PlainOf(graph)
  BY DEF PlainOf
<1>4. \A y \in FactsOf(graph) : \E p \in PlainOf(graph) : y = [id |-> FactId(p), gov |-> Inherited(p, graph.entities)]
  BY DEF FactsOf
<1>5. [id |-> FactId(q), gov |-> Inherited(q, graph.entities)] \in FactsOf(graph)
  BY <1>3 DEF FactsOf
<1>6. x.gov = Inherited(q, graph.entities)
  <2>1. x \in FactsOf(graph)
    BY <1>1, <1>2, <1>5
  <2>2. PICK p \in PlainOf(graph) : x = [id |-> FactId(p), gov |-> Inherited(p, graph.entities)]
    BY <1>4, <2>1
  <2>3. FactId(p) = FactId(q)
    BY <2>2
  <2>4. p = q
    BY <1>3, <2>3 DEF OneFactEach
  <2> QED BY <2>2, <2>4
<1>7. Inherited(q, graph.entities) = e.gov
  BY InheritedFromEvidence DEF IsBatch
<1>8. e \in all.entities
  <2>1. \A y \in FactsOf(graph) : y.id # e.id
    BY <1>3, <1>4 DEF EvidenceIsNoFact
  <2> QED BY <1>1, <2>1
<1>9. CanAccess(e.gov, caller)
  BY <1>2, <1>6, <1>7
<1> QED BY <1>2, <1>8, <1>9

-----------------------------------------------------------------------------
\* The order of the levels.
LEMMA Ranked ==
    /\ Rank("PUBLIC") = 1 /\ Rank("INTERNAL") = 2 /\ Rank("CONFIDENTIAL") = 3 /\ Rank("RESTRICTED") = 4
BY DEF Rank, Levels

\* What a field may be by its name.
FieldLevels == {"INTERNAL", "CONFIDENTIAL", "RESTRICTED"}

\* No secret is sent to a model, among whatever fields it stands, but in one that is
\* confidential by name where that may be sent (filter_for_llm, redact_for_llm).
THEOREM SecretsAreNotSent ==
    ASSUME NEW fields, NEW max \in {"PUBLIC", "INTERNAL", "CONFIDENTIAL", "RESTRICTED"},
           NEW Id, fields \subseteq [id : Id, name : FieldLevels, secret : BOOLEAN]
    PROVE  NoSecretSent(fields, max)
<1> SUFFICES ASSUME NEW f \in FilterForLlm(fields, max) \cup RedactForLlm(fields, max), f.secret
             PROVE  max = "RESTRICTED" \/ (max = "CONFIDENTIAL" /\ f.name = "CONFIDENTIAL")
  BY DEF NoSecretSent
<1>1. PICK g \in fields : g.secret /\ g.name = f.name /\ Rank(ClassifyField(g)) <= Rank(max)
  <2>1. CASE f \in FilterForLlm(fields, max)
    BY <2>1 DEF FilterForLlm
  <2>2. CASE f \in RedactForLlm(fields, max)
    <3>1. PICK h \in fields :
             f = [h EXCEPT !.secret = @ /\ Rank(ClassifyField(h)) <= Rank(max)]
      BY <2>2 DEF RedactForLlm
    <3>2. f.secret = (h.secret /\ Rank(ClassifyField(h)) <= Rank(max)) /\ f.name = h.name
      BY <3>1
    <3> QED BY <3>2
  <2> QED BY <2>1, <2>2
<1>2. ClassifyField(g) = IF g.name # "INTERNAL" THEN g.name ELSE "RESTRICTED"
  BY <1>1 DEF ClassifyField
<1>3. g.name \in FieldLevels
  OBVIOUS
<1> QED BY <1>1, <1>2, <1>3, Ranked DEF FieldLevels

-----------------------------------------------------------------------------
\* What a slow or broken provider costs is its own items, for any number of them and
\* any two deadlines of which the provider's is the shorter (MCPHandler.fetch).
THEOREM OthersAlwaysKept ==
    ASSUME NEW providers, NEW limit \in Int, NEW deadline \in Int,
           \A p \in Range(providers) : p.time \in Int
    PROVE  OthersAreKept(providers, limit, deadline)
<1> SUFFICES ASSUME limit < deadline, \A p \in Range(providers) : p.kind # "cancelled",
                    NEW p \in Range(providers), p.kind = "items", p.time < limit
             PROVE  p.items \subseteq Fetch(providers, limit, deadline).items
  BY DEF OthersAreKept
<1>1. ~ \E q \in Range(providers) : Ending(q, limit) >= deadline
  <2> SUFFICES ASSUME NEW q \in Range(providers)
               PROVE  ~ (Ending(q, limit) >= deadline)
    OBVIOUS
  <2>1. q.time \in Int /\ ((Ending(q, limit) = q.time /\ q.time < limit) \/ Ending(q, limit) = limit)
    BY DEF Ending
  <2> QED BY <2>1
<1>2. Fetch(providers, limit, deadline) =
        [raised |-> FALSE, items |-> UNION {SafeFetch(q, limit) : q \in Range(providers)}]
  BY <1>1 DEF Fetch
<1>3. SafeFetch(p, limit) = p.items
  BY DEF SafeFetch
<1> QED BY <1>2, <1>3

\* Each answer of a batch stands at the place of its item and depends on it alone,
\* unless an id is bad (JsonRpcTransport.handle).
THEOREM AnswersAlwaysMatch ==
    ASSUME NEW raw, NEW Item, raw.items \in Seq(Item),
           raw = [json |-> raw.json, items |-> raw.items]
    PROVE  AnswersMatchItems(raw)
<1> DEFINE answers == [i \in DOMAIN raw.items |-> HandleSingle(raw.items[i])]
           Bad(item) == item.object /\ item.id = BadId
<1> SUFFICES ASSUME raw.json, raw.items # <<>>
             PROVE  IF \E item \in Range(raw.items) : Bad(item) THEN Handle(raw) = Raised
                    ELSE /\ Len(Handle(raw)) = Len(raw.items)
                         /\ \A i \in DOMAIN Handle(raw) :
                              /\ raw.items[i].object => Handle(raw)[i].id = raw.items[i].id
                              /\ <<Handle(raw)[i]>> = Handle([raw EXCEPT !.items = <<raw.items[i]>>])
  BY DEF AnswersMatchItems
<1>1. \A item : HandleSingle(item).id = BadId <=> Bad(item)
  BY DEF HandleSingle, NoRpcId, BadId
<1>2. (\E a \in Range(answers) : a.id = BadId) <=> \E item \in Range(raw.items) : Bad(item)
  <2> HIDE DEF Bad
  <2> QED BY <1>1 DEF Range
<1>3. Handle(raw) = IF \E a \in Range(answers) : a.id = BadId THEN Raised ELSE answers
  BY DEF Handle
<1>4. CASE \E item \in Range(raw.items) : Bad(item)
  BY <1>2, <1>3, <1>4
<1>5. CASE ~ \E item \in Range(raw.items) : Bad(item)
  <2>1. Handle(raw) = answers
    BY <1>2, <1>3, <1>5
  <2>2. Len(answers) = Len(raw.items) /\ DOMAIN answers = DOMAIN raw.items
    OBVIOUS
  <2>3. ASSUME NEW i \in DOMAIN raw.items
        PROVE  /\ raw.items[i].object => answers[i].id = raw.items[i].id
               /\ <<answers[i]>> = Handle([raw EXCEPT !.items = <<raw.items[i]>>])
    <3> DEFINE item == raw.items[i]
               alone == [raw EXCEPT !.items = <<item>>]
    <3>1. answers[i] = HandleSingle(item)
      OBVIOUS
    <3>2. item.object => HandleSingle(item).id = item.id
      BY DEF HandleSingle
    <3>3. alone.json = raw.json /\ alone.items = <<item>>
      OBVIOUS
    <3>4. ~Bad(item)
      BY <1>5 DEF Range
    <3> HIDE DEF alone, item, Bad, answers
    <3> DEFINE its == [j \in DOMAIN alone.items |-> HandleSingle(alone.items[j])]
    <3>5. its = <<HandleSingle(item)>>
      BY <3>3
    <3>6. ~ \E a \in Range(its) : a.id = BadId
      BY <1>1, <3>4, <3>5 DEF Range
    <3>7. Handle(alone) = its
      BY <3>3, <3>6 DEF Handle
    <3> QED BY <3>1, <3>2, <3>5, <3>7 DEF item, alone
  <2> HIDE DEF answers
  <2> QED BY <1>5, <2>1, <2>2, <2>3
<1> QED BY <1>4, <1>5

-----------------------------------------------------------------------------
\* What the tiers of the classifier may find in a text.
LevelNames == {"PUBLIC", "INTERNAL", "CONFIDENTIAL", "RESTRICTED"}
TextFound == [secret : BOOLEAN, semantic : SUBSET LevelNames, marker : BOOLEAN]
\* Where secrets may leave, confidential text may.
SecretsAbove(allowed) == "RESTRICTED" \in allowed => "CONFIDENTIAL" \in allowed

\* The classifier stops at the first secret, which then allows no more than
\* all that stands in the text.
LEMMA StandsIsFound ==
    ASSUME NEW text \in TextFound, NEW allowed, SecretsAbove(allowed),
           ClassifyText(text) \subseteq allowed
    PROVE  Stands(text) \subseteq allowed
<1>1. text.semantic \subseteq ClassifyText(text)
  BY DEF ClassifyText
<1>2. text.secret => "RESTRICTED" \in ClassifyText(text)
  BY DEF ClassifyText
<1>3. text.marker => "RESTRICTED" \in ClassifyText(text) \/ "CONFIDENTIAL" \in ClassifyText(text)
  BY DEF ClassifyText
<1> QED BY <1>1, <1>2, <1>3 DEF Stands, SecretsAbove

\* A text in which nothing is found is internal.
LEMMA SomethingIsFound ==
    ASSUME NEW text
    PROVE  ClassifyText(text) # {}
BY DEF ClassifyText

\* No text above the policy leaves in strict mode, as one of any number of messages or
\* of texts to embed (the sovereignty-guarded providers).
THEOREM ClassifiedAlwaysStaysIn ==
    ASSUME NEW texts \in Seq(TextFound), NEW policy, SecretsAbove(policy.allowed)
    PROVE  ClassifiedStaysIn(texts, policy)
<1> SUFFICES ASSUME policy.mode = "strict", policy.external,
                    NEW k \in DOMAIN texts, ~(Stands(texts[k]) \subseteq policy.allowed)
             PROVE  PickDelegate(texts, policy) # "configured" /\ PickEmbedder(texts, policy) # "configured"
  BY DEF ClassifiedStaysIn
<1>1. texts[k] \in TextFound
  OBVIOUS
<1>2. ~(ClassifyText(texts[k]) \subseteq policy.allowed)
  BY <1>1, StandsIsFound
<1>3. PickDelegate(texts, policy) # "configured"
  <2> DEFINE found == UNION {ClassifyText(texts[i]) : i \in DOMAIN texts}
             levels == IF found = {} THEN {"INTERNAL"} ELSE found
  <2>1. ClassifyText(texts[k]) \subseteq found
    OBVIOUS
  <2> HIDE DEF found
  <2>2. ~(levels \subseteq policy.allowed)
    BY <1>2, <2>1
  <2>3. Check(texts, policy) = IF policy.fallback THEN "rerouted_to_local" ELSE "raises"
    BY <2>2 DEF Check, found
  <2> QED BY <2>3 DEF PickDelegate
<1>4. PickEmbedder(texts, policy) # "configured"
  <2> DEFINE each == [i \in DOMAIN texts |-> Check(<<texts[i]>>, policy)]
             stops == {i \in DOMAIN texts : each[i] # "allowed"}
  <2>1. Check(<<texts[k]>>, policy) # "allowed"
    <3> DEFINE one == <<texts[k]>>
               found == UNION {ClassifyText(one[i]) : i \in DOMAIN one}
    <3>1. found = ClassifyText(texts[k])
      OBVIOUS
    <3>2. Check(one, policy) = IF policy.mode = "off" \/ ~policy.external THEN "allowed"
             ELSE IF (IF found = {} THEN {"INTERNAL"} ELSE found) \subseteq policy.allowed
                     \/ policy.mode = "audit" THEN "allowed"
             ELSE IF policy.fallback THEN "rerouted_to_local" ELSE "raises"
      BY DEF Check
    <3>3. found # {}
      BY <3>1, SomethingIsFound
    <3> HIDE DEF one, found
    <3>4. Check(one, policy) = IF policy.fallback THEN "rerouted_to_local" ELSE "raises"
      BY <1>2, <3>1, <3>2, <3>3
    <3> QED BY <3>4 DEF one
  <2>2. k \in stops
    BY <2>1
  <2>3. PickEmbedder(texts, policy) = IF stops = {} THEN "configured"
          ELSE IF each[CHOOSE i \in stops : \A j \in stops : i <= j] = "raises" THEN "nobody" ELSE "local"
    BY DEF PickEmbedder
  <2> HIDE DEF stops, each
  <2> QED BY <2>2, <2>3
<1> QED BY <1>3, <1>4

\* Key settings: a list of keys, and the single key of old.
IsKeys(s, Key) == s.keys \in Seq(Key) /\ s.key \in Key

\* What a key encrypted is read as long as the key is kept, wherever in the new list it
\* stands, and is never turned into something else (encrypt_value, decrypt_value).
THEOREM RotationAlwaysReads ==
    ASSUME NEW Key, NEW old, NEW new, IsKeys(old, Key), IsKeys(new, Key)
    PROVE  RotationReads(old, new)
<1> DEFINE written == EncryptValue("text", old)
           Names(s) == IF s.keys = <<>> THEN {s.key} ELSE Range(s.keys)
           used == IF old.keys = <<>> THEN old.key ELSE old.keys[1]
<1>1. written = [text |-> "text", key |-> IF GetFernets(old) = <<>> THEN NoKey ELSE GetFernets(old)[1]]
  BY DEF EncryptValue
<1>2. written.text = "text"
  BY <1>1
<1> DEFINE read == DecryptValue(written, new)
<1> HIDE DEF written
<1>3. /\ read.text = "text" /\ read.key \in {NoKey, written.key}
      /\ written.key \in Range(GetFernets(new)) => read.key = NoKey
      /\ written.key = NoKey => read.key = NoKey
  <2>1. [written EXCEPT !.key = NoKey].text = "text" /\ [written EXCEPT !.key = NoKey].key = NoKey
    BY <1>1, <1>2
  <2> QED BY <1>2, <2>1 DEF DecryptValue
<1>4. ASSUME "malformed" \notin Names(old) \cup Names(new), used \in Names(new)
      PROVE  read.key = NoKey
  <2>1. ASSUME NEW s, s \in {old, new}
        PROVE  GetFernets(s) = IF s.keys # <<>> THEN s.keys ELSE IF s.key # NoKey THEN <<s.key>> ELSE <<>>
    <3>1. CASE s.keys # <<>>
      BY <1>4, <2>1, <3>1 DEF GetFernets
    <3>2. CASE s.keys = <<>> /\ s.key # NoKey
      <4>1. Range(<<s.key>>) = {s.key}
        BY DEF Range
      <4> QED BY <1>4, <2>1, <3>2, <4>1 DEF GetFernets
    <3>3. CASE s.keys = <<>> /\ s.key = NoKey
      BY <3>3 DEF GetFernets
    <3> QED BY <3>1, <3>2, <3>3
  <2>2. CASE used = NoKey
    <3>1. written.key = NoKey
      BY <1>1, <2>1, <2>2
    <3> QED BY <1>3, <3>1
  <2>3. CASE used # NoKey
    <3>1. written.key = used
      <4>1. GetFernets(old) = IF old.keys # <<>> THEN old.keys ELSE <<old.key>>
        BY <2>1, <2>3
      <4>2. <<old.key>> # <<>> /\ <<old.key>>[1] = old.key
        OBVIOUS
      <4> QED BY <1>1, <4>1, <4>2
    <3>2. used \in Range(GetFernets(new))
      <4>1. CASE new.keys # <<>>
        BY <1>4, <2>1, <4>1
      <4>2. CASE new.keys = <<>>
        <5>1. used = new.key
          BY <1>4, <4>2
        <5>2. GetFernets(new) = <<new.key>>
          BY <2>1, <2>3, <4>2, <5>1
        <5>3. Range(<<new.key>>) = {new.key}
          BY DEF Range
        <5> QED BY <5>1, <5>2, <5>3
      <4> QED BY <4>1, <4>2
    <3> QED BY <1>3, <3>1, <3>2
  <2> QED BY <2>2, <2>3
<1> QED BY <1>3, <1>4 DEF RotationReads, written

-----------------------------------------------------------------------------
\* What the heuristic reads of an answer.
IsCandidate(c) ==
    /\ c.sources \in Nat /\ c.cited \in Nat /\ c.queries \in Nat /\ c.covered \in Nat
    /\ c.length \in Nat /\ c.confidence \in 0..100

\* A share is a whole number.
LEMMA Shares ==
    ASSUME NEW n \in Nat, NEW of \in Nat \ {0}
    PROVE  Share(n, of) \in Nat
<1> DEFINE m == 100 * n
<1>1. m \in Nat
  OBVIOUS
<1> HIDE DEF m
<1>2. m \div of \in Nat
  BY <1>1
<1> QED BY <1>2 DEF Share, m

\* No part of the heuristic is negative.
LEMMA ScoresAreNat ==
    ASSUME NEW c, IsCandidate(c)
    PROVE  /\ ScoreCitationCoverage(c) \in Nat /\ ScoreQueryCoverage(c) \in Nat
           /\ ScoreAnswerLength(c) \in Nat /\ ComputeHeuristicScore(c) \in Nat
<1>1. ScoreCitationCoverage(c) \in Nat
  <2>1. c.sources # 0 => Share(c.cited, c.sources) \in Nat
    BY Shares DEF IsCandidate
  <2> QED BY <2>1 DEF ScoreCitationCoverage, Least
<1>2. ScoreQueryCoverage(c) \in Nat
  <2>1. c.queries # 0 => Share(c.covered, c.queries) \in Nat
    BY Shares DEF IsCandidate
  <2> QED BY <2>1 DEF ScoreQueryCoverage
<1>3. ScoreAnswerLength(c) \in Nat
  BY DEF ScoreAnswerLength
<1> QED BY <1>1, <1>2, <1>3 DEF ComputeHeuristicScore, Weighted, IsCandidate

\* A model that fails leaves the decision where the heuristic put it, whatever the
\* thresholds between which it is asked (evaluate_answer), but for multi-hop questions,
\* whose score missing hops lower afterwards.
THEOREM FailedModelNeverDecides ==
    ASSUME NEW c, IsCandidate(c), ~c.multi_hop, NEW mode, NEW low \in Int, NEW high \in Int
    PROVE  FailedModelDecidesNothing(c, mode, low, high)
<1> DEFINE h == ComputeHeuristicScore(c)
<1>1. h \in Nat
  BY ScoresAreNat
<1>2. LlmEvaluate(NoReply) = 50
  BY DEF LlmEvaluate, NoReply
<1> HIDE DEF h
<1>3. EvaluationScore(c, mode, NoReply, low, high) \in {h, (30000 + 4 * h) \div 10}
  <2>1. 6 * 100 * 50 = 30000
    OBVIOUS
  <2> QED BY <1>1, <1>2, <2>1 DEF EvaluationScore, h
<1>4. ((30000 + 4 * h) \div 10 >= 5000) = (h >= 5000)
  BY <1>1
<1> QED BY <1>3, <1>4 DEF FailedModelDecidesNothing, h

\* What the evaluator would accept scores above the threshold as a branch, for any
\* answer and any threshold (evaluate_answer, score_candidate).
THEOREM AcceptedAlwaysScoresHere ==
    ASSUME NEW c, IsCandidate(c), c.missing_hops \in Nat, NEW threshold \in Int
    PROVE  AcceptedScoresHere(c, threshold)
<1> SUFFICES ASSUME EvaluationScore(c, "heuristic", NoReply, 0, 0) >= threshold, c.length >= 12
             PROVE  ScoreCandidate(c) >= threshold
  BY DEF AcceptedScoresHere
<1> DEFINE h == ComputeHeuristicScore(c)
           a == ScoreCitationCoverage(c)
           q == ScoreQueryCoverage(c)
           l == ScoreAnswerLength(c)
           b == BranchLength(c)
<1>1. h \in Nat /\ a \in Nat /\ q \in Nat /\ l \in Nat
  BY ScoresAreNat
<1>2. b \in Nat /\ l <= b
  <2>1. Share(c.length, 120) = (100 * c.length) \div 120
    BY DEF Share
  <2> QED BY <2>1 DEF BranchLength, Least, ScoreAnswerLength, IsCandidate
<1>3. Most(0, Least(c.confidence, 100)) = c.confidence
  BY DEF Most, Least, IsCandidate
<1>4. ScoreCandidate(c) = 30 * a + 30 * q + 25 * c.confidence + 15 * b
  BY <1>3 DEF ScoreCandidate, Weighted
<1>5. h = 30 * a + 30 * q + 25 * c.confidence + 15 * l
  BY DEF ComputeHeuristicScore, Weighted
<1>6. EvaluationScore(c, "heuristic", NoReply, 0, 0) \in {h, Most(0, h - Least(1500 * c.missing_hops, 4500))}
  BY DEF EvaluationScore
<1> HIDE DEF h, a, q, l, b
<1>7. threshold <= h
  BY <1>1, <1>6 DEF Most, Least
<1> QED BY <1>1, <1>2, <1>4, <1>5, <1>7 DEF IsCandidate
=============================================================================
