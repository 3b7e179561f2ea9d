----------------------------- MODULE QueryRoute -----------------------------
(***************************************************************************)
(* The query routes (aim/api/routes/query.py) from the thread check to the *)
(* saved turn, over the reasoning agent (aim/agents/reasoning_agent.py):   *)
(* POST /query with its parallel branches, POST /query/stream with its     *)
(* passes, and clients that give a stream up and send the query again.     *)
(*                                                                         *)
(* One thread; ResponseCache and ConversationStore have the details of the *)
(* two stores, which are atomic here.  A token is the pass that wrote it.  *)
(***************************************************************************)
EXTENDS Naturals, Sequences

CONSTANTS
    Queries,        \* query ids
    Keys,           \* API keys
    MaxRequests,    \* bound: requests in all
    BranchCount,    \* reasoning_branch_count, clamped to 1..3
    MaxPasses       \* max_reasoning_loops + 1

ASSUME RouteAssumption == BranchCount \in 1..3 /\ MaxPasses \in Nat \ {0} /\ MaxRequests \in Nat

\* _BRANCH_STRATEGIES, in their order
Branches == 1..BranchCount
Handlers == 1..MaxRequests
Text == Seq(1..MaxPasses)

NoThread == [owner |-> {}, turns |-> <<>>]

VARIABLES
    thread,     \* the conversation: its owner's key and its turns
    cache,      \* the queries with a cached response
    handler,    \* the requests the server works on
    client,     \* what each query's client waits for and has seen
    lost        \* history: queries whose turn was not written, for a reason given below

vars == <<thread, cache, handler, client, lost>>

NoHandler == [pc |-> "free"]
Steps == {"load", "fast", "work", "answered", "save", "end"}
Handler ==
    [pc : Steps, q : Queries, key : Keys, stream : BOOLEAN,
     early : BOOLEAN,                    \* history: there was no thread when it looked
     unread : BOOLEAN,                   \* history: its look at the thread failed
     text : Text, pass : 1..MaxPasses,   \* full_answer_chunks, and history: the pass
     done : BOOLEAN,                     \* stream_completed
     branch : [Branches -> {"runs", "answer", "silent", "failed"}],
     failure : {"none", "timeout", "error", "forbidden"}]
Turn == [q : Queries, key : Keys, by : Handlers, text : Text]

\* Requests, their agents and the threads they append to.
TypeOK ==
    /\ thread \in [owner : SUBSET Keys, turns : Seq(Turn)]
    /\ (thread.owner = {}) = (thread.turns = <<>>)
    /\ cache \subseteq Queries
    /\ handler \in [Handlers -> Handler \cup {NoHandler}]
    /\ client \in [Queries -> [on : {{}} \cup {{h} : h \in Handlers},
                               saw : {"nothing", "done", "error"}]]
    /\ lost \subseteq Queries

Init ==
    /\ thread = NoThread /\ cache = {}
    /\ handler = [h \in Handlers |-> NoHandler]
    /\ client = [q \in Queries |-> [on |-> {}, saw |-> "nothing"]]
    /\ lost = {}

At(h, pc) == handler[h].pc = pc
Listening(h) == h \in client[handler[h].q].on
\* The client reads the last word of the one it listens to.
Told(h, what) ==
    client' = IF Listening(h) THEN [client EXCEPT ![handler[h].q] = [on |-> {}, saw |-> what]]
              ELSE client
Moved(h, pc) == handler' = [handler EXCEPT ![h].pc = pc]
Failed(h, why) ==
    /\ handler' = [handler EXCEPT ![h].pc = "end", ![h].failure = why]
    /\ Told(h, "error")

(***************************************************************************)
(* The clients (external).                                                 *)
(***************************************************************************)
Fresh(q, k, s) ==
    [pc |-> "load", q |-> q, key |-> k, stream |-> s, early |-> FALSE, unread |-> FALSE,
     text |-> <<>>, pass |-> 1, done |-> FALSE, branch |-> [b \in Branches |-> "runs"], failure |-> "none"]

NextFree(h) == handler[h] = NoHandler /\ \A g \in Handlers : g < h => handler[g] # NoHandler

Ask(h, q, k, s) ==
    /\ NextFree(h)
    /\ client[q].on = {} /\ client[q].saw = "nothing"
    /\ handler' = [handler EXCEPT ![h] = Fresh(q, k, s)]
    /\ client' = [client EXCEPT ![q].on = {h}]
    /\ UNCHANGED <<thread, cache, lost>>

\* A stream is given up, and the query sent again under its id.
Resend(h, q) ==
    /\ NextFree(h)
    /\ \E g \in client[q].on :
        /\ handler[g] # NoHandler /\ handler[g].stream
        /\ handler' = [handler EXCEPT ![h] = Fresh(q, handler[g].key, TRUE)]
    /\ client' = [client EXCEPT ![q].on = {h}]
    /\ UNCHANGED <<thread, cache, lost>>

Leave(q) ==
    /\ client[q].on # {}
    /\ client' = [client EXCEPT ![q] = [on |-> {}, saw |-> "error"]]
    /\ UNCHANGED <<thread, cache, handler, lost>>

(***************************************************************************)
(* Both routes.                                                            *)
(***************************************************************************)

\* get_history_for_key; whether the question is one about an exact incident.  A read
\* that fails counts as no thread (_load_thread): the history is empty, and whose
\* thread it is is not asked.  That makes a difference for another's thread only.
Load(h) ==
    /\ At(h, "load")
    /\ \/ /\ thread.owner \subseteq {handler[h].key}
          /\ \E pc \in {"fast", "work"} :
                handler' = [handler EXCEPT ![h].pc = pc, ![h].early = (thread = NoThread)]
          /\ UNCHANGED client
       \/ /\ ~(thread.owner \subseteq {handler[h].key})
          /\ \E pc \in {"fast", "work"} :
                handler' = [handler EXCEPT ![h].pc = pc, ![h].unread = TRUE]
          /\ UNCHANGED client
       \/ /\ ~(thread.owner \subseteq {handler[h].key})
          /\ Failed(h, "forbidden")
    /\ UNCHANGED <<thread, cache, lost>>

\* The turn of h at the end of the thread, whoever owns it.
WithTurn(h) ==
    [owner |-> IF thread = NoThread THEN {handler[h].key} ELSE thread.owner,
     turns |-> Append(thread.turns, [q |-> handler[h].q, key |-> handler[h].key, by |-> h,
                                     text |-> handler[h].text])]

\* append_turn: it may fail, and says nothing.
AppendTurn(h) ==
    \/ thread' = WithTurn(h) /\ UNCHANGED lost
    \/ UNCHANGED thread /\ lost' = lost \cup {handler[h].q}

(***************************************************************************)
(* POST /query.                                                            *)
(***************************************************************************)
\* The incident's record is the answer: it is cached, and is no turn.
FastAnswer(h) ==
    /\ At(h, "fast") /\ ~handler[h].stream
    /\ cache' = cache \cup {handler[h].q}
    /\ Moved(h, "end") /\ Told(h, "done")
    /\ lost' = lost \cup {handler[h].q}
    /\ UNCHANGED thread
\* The lookup is not under the route's timeout; its exception is not caught.
FastFails(h) ==
    /\ At(h, "fast") /\ ~handler[h].stream
    /\ Failed(h, "error")
    /\ UNCHANGED <<thread, cache, lost>>

BranchEnds(h, b) ==
    /\ At(h, "work") /\ ~handler[h].stream
    /\ handler[h].branch[b] = "runs"
    /\ \E how \in {"answer", "silent", "failed"} : handler' = [handler EXCEPT ![h].branch[b] = how]
    /\ UNCHANGED <<thread, cache, client, lost>>

\* The best of the branches that did not fail; one that has no provenance, because
\* its synthesis timed out, may be the best and fails the query.
Candidates(h) == {b \in Branches : handler[h].branch[b] # "failed"}
Select(h) ==
    /\ At(h, "work") /\ ~handler[h].stream
    /\ \A b \in Branches : handler[h].branch[b] # "runs"
    /\ \/ Candidates(h) = {} /\ Failed(h, "error")
       \/ \E b \in Candidates(h) :
            \/ handler[h].branch[b] = "silent" /\ Failed(h, "error")
            \/ /\ handler[h].branch[b] = "answer"
               /\ handler' = [handler EXCEPT ![h].pc = "answered", ![h].text = <<1>>]
               /\ UNCHANGED client
    /\ UNCHANGED <<thread, cache, lost>>

Cache(h) ==
    /\ At(h, "answered")
    /\ cache' = cache \cup {handler[h].q}
    /\ Moved(h, "save")
    /\ UNCHANGED <<thread, client, lost>>

SaveAndRespond(h) ==
    /\ At(h, "save") /\ ~handler[h].stream
    /\ AppendTurn(h)
    /\ Moved(h, "end") /\ Told(h, "done")
    /\ UNCHANGED cache

\* Mutant: for streams only.
RouteTimeoutOfStreams(h) ==
    /\ (At(h, "work") \/ At(h, "fast")) /\ handler[h].stream
    /\ Failed(h, "timeout")
    /\ UNCHANGED <<thread, cache, lost>>

RouteTimeout(h) ==
    /\ At(h, "work") \/ (At(h, "fast") /\ handler[h].stream)
    /\ Failed(h, "timeout")
    /\ UNCHANGED <<thread, cache, lost>>

(***************************************************************************)
(* POST /query/stream.                                                     *)
(***************************************************************************)
Streams(h) == (At(h, "work") \/ At(h, "fast")) /\ handler[h].stream

\* A pass writes tokens, or none.
Token(h) ==
    LET x == handler[h] IN
    /\ Streams(h)
    /\ \A i \in DOMAIN x.text : x.text[i] # x.pass
    /\ handler' = [handler EXCEPT ![h].text = Append(@, x.pass)]
    /\ UNCHANGED <<thread, cache, client, lost>>

\* The answer was not good enough: its tokens are out already.
Reloop(h) ==
    /\ Streams(h) /\ At(h, "work")
    /\ handler[h].pass < MaxPasses
    /\ handler' = [handler EXCEPT ![h].pass = @ + 1]
    /\ UNCHANGED <<thread, cache, client, lost>>

\* Mutant: nothing comes after it.
DoneIsLast(h) ==
    /\ Streams(h)
    /\ handler' = [handler EXCEPT ![h].pc = "end", ![h].done = TRUE]
    /\ Told(h, "done")
    /\ UNCHANGED <<thread, cache, lost>>

Done(h) ==
    /\ Streams(h)
    /\ handler' = [handler EXCEPT ![h].pc = "save", ![h].done = TRUE]
    /\ Told(h, "done")
    /\ UNCHANGED <<thread, cache, lost>>

StreamFails(h) ==
    /\ Streams(h)
    /\ Failed(h, "error")
    /\ UNCHANGED <<thread, cache, lost>>

\* The client is gone, or the timeout strikes, while done is being sent: the
\* generator is closed.
Closed(h) ==
    /\ handler[h] # NoHandler /\ handler[h].stream
    /\ \/ Streams(h) /\ ~Listening(h) /\ UNCHANGED lost
       \/ At(h, "save") /\ lost' = lost \cup {handler[h].q}
    /\ Moved(h, "end")
    /\ UNCHANGED <<thread, cache, client>>

\* Mutant: whatever tokens there are.
SaveStreamAnyway(h) ==
    /\ handler[h] # NoHandler /\ handler[h].stream /\ handler[h].pc \in {"save", "work"}
    /\ AppendTurn(h)
    /\ Moved(h, "end")
    /\ UNCHANGED <<cache, client>>

SaveStream(h) ==
    /\ At(h, "save") /\ handler[h].stream
    /\ \/ handler[h].text # <<>> /\ AppendTurn(h)
       \/ handler[h].text = <<>> /\ UNCHANGED thread /\ lost' = lost \cup {handler[h].q}
    /\ Moved(h, "end")
    /\ UNCHANGED <<cache, client>>

Work(h) ==
    \/ Load(h) \/ FastAnswer(h) \/ FastFails(h) \/ Select(h) \/ Cache(h) \/ SaveAndRespond(h)
    \/ \E b \in Branches : BranchEnds(h, b)
    \/ Token(h) \/ Reloop(h) \/ Done(h) \/ StreamFails(h) \/ SaveStream(h)

Next ==
    \/ \E h \in Handlers, q \in Queries :
          Resend(h, q) \/ \E k \in Keys, s \in BOOLEAN : Ask(h, q, k, s)
    \/ \E q \in Queries : Leave(q)
    \/ \E h \in Handlers : Work(h) \/ RouteTimeout(h) \/ Closed(h)

(***************************************************************************)
(* The stores answer; reasoning need not, that is what the timeout is for. *)
(***************************************************************************)
Fairness ==
    \A h \in Handlers :
        /\ WF_vars(Load(h)) /\ WF_vars(Cache(h)) /\ WF_vars(SaveAndRespond(h))
        /\ WF_vars(RouteTimeout(h))

Spec == Init /\ [][Next]_vars /\ Fairness

(***************************************************************************)
(* Properties.                                                             *)
(***************************************************************************)
\* What is saved of a stream is all it wrote, the tokens of passes the evaluation
\* rejected included, and only after done; never what was out when the client left,
\* the time was up or the agent failed (the end of _event_generator).
TurnsAreComplete ==
    \A i \in DOMAIN thread.turns :
        LET t == thread.turns[i]
        IN handler[t.by].failure = "none" /\ t.text = handler[t.by].text
           /\ (handler[t.by].stream => handler[t.by].done /\ t.text # <<>>)

\* An answer a client has seen in full is a turn of the thread, or is still being
\* saved, which a question asked at once may miss; unless the connection closed
\* upon done, the store failed, or it was a fast answer to POST /query.
AnswersBecomeTurns ==
    \A q \in Queries : client[q].saw = "done" =>
        \/ \E i \in DOMAIN thread.turns : thread.turns[i].q = q
        \/ \E h \in Handlers : handler[h] # NoHandler /\ handler[h].q = q /\ At(h, "save")
        \/ q \in lost

\* A turn belongs to the thread's owner, unless there was no thread yet when its
\* request looked, or its look failed: append_turn does not look again, and puts the
\* turn of another key into a thread that exists.
OwnTurns ==
    \A i \in DOMAIN thread.turns :
        LET t == thread.turns[i]
        IN t.key \in thread.owner \/ handler[t.by].early \/ handler[t.by].unread

\* A query with branches fails only if all of them did, or one ended without an
\* answer, or the time was up (_run_branches_and_select, the check of provenance).
BranchesSuffice ==
    \A h \in Handlers :
        (handler[h] # NoHandler /\ ~handler[h].stream /\ handler[h].failure = "error"
            /\ \E b \in Branches : handler[h].branch[b] = "answer")
        => \E b \in Branches : handler[h].branch[b] = "silent"

\* A request under the route's timeout ends with an answer or an error, whatever
\* the agent does.
RequestEnds ==
    \A h \in Handlers : At(h, "work") ~> handler[h].pc \in {"save", "end"}

\* What a thread holds are whole answers, to its owner's questions or to those of one
\* whose look at the thread is named above, whoever left, ran out of time or asked at
\* once (_event_generator, query).
TurnsAreTheirs == TypeOK /\ TurnsAreComplete /\ OwnTurns

\* An answer that was found is given, and one that was seen is saved, except as said
\* above.
AnswersHold == AnswersBecomeTurns /\ BranchesSuffice
=============================================================================
