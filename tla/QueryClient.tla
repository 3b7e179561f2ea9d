---------------------------- MODULE QueryClient ----------------------------
(***************************************************************************)
(* The browser's query hook (frontend/hooks/useAIMQuery.ts) and its store  *)
(* (frontend/stores/aim-store.ts).  Queries are asynchronous functions     *)
(* that share three refs of the hook: the abort controller, the buffer of  *)
(* tokens and the animation frame that empties it into a message.  They    *)
(* interleave at their awaits: the fetch, each read of the stream, and the *)
(* sleep before a retry.                                                   *)
(*                                                                         *)
(* A controller is named by the query and the attempt it was made for; a   *)
(* token by the query and the attempt that received it.                    *)
(***************************************************************************)
EXTENDS Lists

CONSTANTS
    QueryCount,     \* bound: what the user submits
    MaxRetries,     \* MAX_RETRIES
    MaxTokens,      \* bound: tokens a stream brings
    MaxNews,        \* bound: new conversations
    MaxReloads      \* bound

ASSUME ClientAssumption ==
    /\ QueryCount \in Nat \ {0}
    /\ MaxRetries \in Nat /\ MaxTokens \in Nat /\ MaxNews \in Nat /\ MaxReloads \in Nat

Queries == 1..QueryCount  \* in the order of their submission

VARIABLES
    pc,         \* where each query is suspended
    attempt,    \* its attempt
    msg,        \* msgId, the message it writes to
    signal,     \* the controller its fetch was given
    controller, \* abortRef: the current controller
    aborted,    \* the controllers that were aborted
    timers,     \* timeouts of fetches that were never cleared, one per attempt
    pending,    \* pendingTokensRef
    raf,        \* rafRef: the message of the scheduled frame, 0 = null
    frame,      \* whether the browser still has that frame to run
    messages,   \* the store's messages
    seq,        \* _seq
    status,     \* the store's status
    idleTimers, \* timeouts that will set the status to idle
    saved,      \* aim:messages in localStorage
    got,        \* history: the tokens a query received
    crossed,    \* history: a query started over another one, or over its frame; or
                \*   one ended and left its tokens in the buffer
    cut,        \* history: queries the user cut short
    timedOut,   \* history: the controllers a timer aborted
    silenced,   \* history: a timer, not the user, ended a query without a word
    freed,      \* history: the status went idle while a query was running
    asleep,     \* history: queries the user cancelled between two attempts
    news, reloads   \* history: how often

refs == <<controller, aborted, timers, pending, raf, frame>>
store == <<messages, seq, status, idleTimers, saved>>
history == <<got, crossed, cut, timedOut, silenced, freed, asleep, news, reloads>>
vars == <<pc, attempt, msg, signal, refs, store, history>>

Controllers == Queries \X (0..MaxRetries + 1)
NoController == <<0, 0>>
Token == Queries \X (0..MaxRetries)
ErrorText == <<0, 0>>
Welcome == [id |-> 1, of |-> 0, content |-> <<>>, streaming |-> FALSE]
Message == [id : Nat, of : Queries \cup {0}, content : Seq(Token \cup {ErrorText}),
            streaming : BOOLEAN]

\* The queries of a tab, its store, buffer and frame.
TypeOK ==
    /\ pc \in [Queries -> {"idle", "fetch", "read", "sleep", "end"}]
    /\ attempt \in [Queries -> 0..MaxRetries]
    /\ msg \in [Queries -> Nat]
    /\ signal \in [Queries -> Controllers \cup {NoController}]
    /\ controller \in Controllers \cup {NoController}
    /\ aborted \subseteq Controllers
    /\ timers \subseteq Token
    /\ pending \in Seq(Token)
    /\ raf \in Nat /\ frame \in BOOLEAN
    /\ frame => raf # 0
    /\ messages \in Seq(Message)
    /\ \A i, j \in DOMAIN messages : messages[i].id = messages[j].id => i = j
    /\ \A i \in DOMAIN messages : messages[i].id <= seq
    /\ status \in {"idle", "thinking", "streaming", "error"}
    /\ idleTimers \in 0..Cardinality(Queries)
    /\ saved \in Seq(Message)
    /\ \A i \in DOMAIN saved : ~saved[i].streaming
    /\ got \in [Queries -> Seq(Token)]
    /\ {crossed, silenced, freed} \subseteq BOOLEAN
    /\ timedOut \subseteq aborted
    /\ cut \subseteq Queries /\ asleep \subseteq Queries
    /\ news \in 0..MaxNews /\ reloads \in 0..MaxReloads

Init ==
    /\ pc = [q \in Queries |-> "idle"]
    /\ attempt = [q \in Queries |-> 0]
    /\ msg = [q \in Queries |-> 0]
    /\ signal = [q \in Queries |-> NoController]
    /\ controller = NoController /\ aborted = {} /\ timers = {}
    /\ pending = <<>> /\ raf = 0 /\ frame = FALSE
    /\ messages = <<Welcome>> /\ seq = 1 /\ status = "idle" /\ idleTimers = 0
    /\ saved = <<>>
    /\ got = [q \in Queries |-> <<>>]
    /\ crossed = FALSE /\ cut = {} /\ timedOut = {} /\ silenced = FALSE /\ freed = FALSE /\ asleep = {}
    /\ news = 0 /\ reloads = 0

Busy == status \in {"thinking", "streaming"}
Alive == {q \in Queries : pc[q] \in {"fetch", "read", "sleep"}}

(***************************************************************************)
(* The store.                                                              *)
(***************************************************************************)
Appended(list, id, text) ==
    [i \in DOMAIN list |->
        IF list[i].id = id THEN [list[i] EXCEPT !.content = @ \o text] ELSE list[i]]
Finalized(list, id) ==
    [i \in DOMAIN list |->
        IF list[i].id = id THEN [list[i] EXCEPT !.streaming = FALSE] ELSE list[i]]
Persistent(list) == Picked(list, {i \in DOMAIN list : ~list[i].streaming})

Shown(list) == messages' = list /\ saved' = Persistent(list)

(***************************************************************************)
(* The user.                                                               *)
(***************************************************************************)
\* handleSubmit and submit up to the first await.
Submit(q) ==
    /\ ~Busy
    /\ pc[q] = "idle" /\ \A p \in Queries : p < q => pc[p] # "idle"
    /\ aborted' = aborted \cup ({controller} \ {NoController})
    /\ controller' = <<q, 0>>
    /\ signal' = [signal EXCEPT ![q] = <<q, 0>>]
    /\ timers' = timers \cup {<<q, 0>>}
    /\ messages' = messages \o
         <<[id |-> seq + 1, of |-> 0, content |-> <<>>, streaming |-> FALSE],
           [id |-> seq + 2, of |-> q, content |-> <<>>, streaming |-> TRUE]>>
    /\ seq' = seq + 2
    /\ msg' = [msg EXCEPT ![q] = seq + 2]
    /\ status' = "thinking"
    /\ pc' = [pc EXCEPT ![q] = "fetch"]
    /\ crossed' = (crossed \/ Alive # {} \/ raf # 0)
    /\ asleep' = {}
    /\ UNCHANGED <<attempt, pending, raf, frame, idleTimers, saved, got, cut, timedOut,
                   silenced, freed, news, reloads>>

\* Cancel: the frame is cancelled, its ref is left as it is.
Abort ==
    /\ Busy
    /\ aborted' = aborted \cup ({controller} \ {NoController})
    /\ frame' = FALSE
    /\ pending' = <<>>
    /\ status' = "idle"
    /\ cut' = cut \cup Alive
    /\ freed' = (freed \/ Alive # {})
    /\ asleep' = asleep \cup {q \in Alive : pc[q] = "sleep"}
    /\ UNCHANGED <<pc, attempt, msg, signal, controller, timers, raf, messages, seq, idleTimers,
                   saved, got, crossed, timedOut, silenced, news, reloads>>

\* The store starts over, ids included; running queries are not told.
NewConversation ==
    /\ news < MaxNews /\ news' = news + 1
    /\ messages' = <<Welcome>> /\ saved' = <<>> /\ seq' = 1
    /\ status' = "idle"
    /\ crossed' = (crossed \/ Alive # {})
    /\ cut' = cut \cup Alive
    /\ freed' = (freed \/ Alive # {})
    /\ UNCHANGED <<pc, attempt, msg, signal, refs, idleTimers, got, timedOut, silenced, asleep,
                   reloads>>

\* The page goes, with its queries and timers; hydrateClientState reads the
\* messages back and continues their ids.
Reload ==
    LET ids == {saved[i].id : i \in DOMAIN saved} IN
    /\ reloads < MaxReloads /\ reloads' = reloads + 1
    /\ pc' = [q \in Queries |-> IF pc[q] = "idle" THEN "idle" ELSE "end"]
    /\ controller' = NoController /\ timers' = {} /\ idleTimers' = 0
    /\ pending' = <<>> /\ raf' = 0 /\ frame' = FALSE
    /\ messages' = IF saved = <<>> THEN <<Welcome>> ELSE saved
    /\ seq' = IF saved = <<>> THEN seq ELSE CHOOSE n \in ids : \A m \in ids : m <= n
    /\ status' = "idle"
    /\ cut' = cut \cup Alive
    /\ UNCHANGED <<attempt, msg, signal, aborted, saved, got, crossed, timedOut, silenced, freed,
                   asleep, news>>

(***************************************************************************)
(* How an attempt ends.                                                    *)
(***************************************************************************)
\* continue: the next attempt begins with its backoff.
Retried(q) ==
    /\ pc' = [pc EXCEPT ![q] = "sleep"]
    /\ attempt' = [attempt EXCEPT ![q] = @ + 1]
    /\ status' = "thinking"
    /\ UNCHANGED <<pending, messages, seq, idleTimers, saved, crossed, silenced>>

\* return, with whatever status there is.
Silently(q) ==
    /\ pc' = [pc EXCEPT ![q] = "end"]
    /\ crossed' = (crossed \/ pending # <<>>)
    /\ silenced' = (silenced \/ controller \in timedOut)
    /\ UNCHANGED <<attempt, pending, store>>

\* Mutants: the buffer is not emptied; the status is left.
FinishKeepsBuffer(q) ==
    /\ pc' = [pc EXCEPT ![q] = "end"]
    /\ Shown(Finalized(Appended(messages, msg[q], pending), msg[q]))
    /\ status' = "idle"
    /\ UNCHANGED <<attempt, pending, seq, idleTimers, crossed, silenced>>
FinishKeepsStatus(q) ==
    /\ pc' = [pc EXCEPT ![q] = "end"]
    /\ Shown(Finalized(Appended(messages, msg[q], pending), msg[q]))
    /\ pending' = <<>>
    /\ UNCHANGED <<attempt, seq, status, idleTimers, crossed, silenced>>

\* done, and the end of the last stream: flush, finalize, idle.
Finish(q) ==
    /\ pc' = [pc EXCEPT ![q] = "end"]
    /\ Shown(Finalized(Appended(messages, msg[q], pending), msg[q]))
    /\ pending' = <<>>
    /\ status' = "idle"
    /\ UNCHANGED <<attempt, seq, idleTimers, crossed, silenced>>

\* The last error: it is written into the message if that was empty before the
\* buffered tokens were flushed into it, and into a message of its own otherwise.
GiveUp(q) ==
    LET flushed == Appended(messages, msg[q], pending)
        into == \E i \in DOMAIN messages :
                    messages[i].id = msg[q] /\ messages[i].content = <<>>
    IN /\ pc' = [pc EXCEPT ![q] = "end"]
       /\ IF into
          THEN /\ Shown(Finalized(Appended(flushed, msg[q], <<ErrorText>>), msg[q]))
               /\ UNCHANGED seq
          ELSE /\ messages' = Append(Finalized(flushed, msg[q]),
                                     [id |-> seq + 1, of |-> 0, content |-> <<ErrorText>>,
                                      streaming |-> FALSE])
               /\ saved' = Persistent(Finalized(flushed, msg[q]))
               /\ seq' = seq + 1
       /\ pending' = <<>>
       /\ status' = "error"
       /\ idleTimers' = idleTimers + 1
       /\ UNCHANGED <<attempt, crossed, silenced>>

\* The catch: another attempt, or the end.
Caught(q) ==
    \/ attempt[q] < MaxRetries /\ Retried(q)
    \/ attempt[q] = MaxRetries /\ GiveUp(q)

others == <<msg, got, cut, timedOut, freed, news, reloads>>
frames == <<raf, frame>>

(***************************************************************************)
(* The steps of a query.                                                   *)
(***************************************************************************)
Cleared(q) == timers' = timers \ {<<q, attempt[q]>>}

Opens(q) ==
    /\ pc[q] = "fetch" /\ signal[q] \notin aborted
    /\ Cleared(q)
    /\ pc' = [pc EXCEPT ![q] = "read"]
    /\ status' = "streaming"
    /\ UNCHANGED <<attempt, signal, controller, aborted, pending, frames, messages, seq,
                   idleTimers, saved, crossed, silenced, asleep, others>>

\* 429, 5xx, and the 4xx whose text does not tell that it is one: sent again.
Declined(q) ==
    /\ pc[q] = "fetch" /\ signal[q] \notin aborted
    /\ Cleared(q)
    /\ Caught(q)
    /\ UNCHANGED <<signal, controller, aborted, frames, asleep, others>>

\* 401 and 403.
Denied(q) ==
    /\ pc[q] = "fetch" /\ signal[q] \notin aborted
    /\ Cleared(q)
    /\ GiveUp(q)
    /\ UNCHANGED <<signal, controller, aborted, frames, asleep, others>>

\* The fetch or the stream fails, or an error chunk arrives.  A failed fetch
\* leaves its timeout running.
Fails(q) ==
    /\ pc[q] \in {"fetch", "read"} /\ signal[q] \notin aborted
    /\ Caught(q)
    /\ UNCHANGED <<signal, controller, aborted, timers, frames, asleep, others>>

\* AbortError, whoever aborted: a new controller for a new attempt.
Aborts(q) ==
    /\ pc[q] \in {"fetch", "read"} /\ signal[q] \in aborted
    /\ \/ /\ attempt[q] < MaxRetries
          /\ Retried(q)
          /\ controller' = <<q, attempt[q] + 1>>
          /\ asleep' = {}
       \/ attempt[q] = MaxRetries /\ Silently(q) /\ UNCHANGED <<controller, asleep>>
    /\ UNCHANGED <<signal, aborted, timers, frames, others>>

\* After the backoff: only the controller of the moment is looked at.
Wake(q) ==
    /\ pc[q] = "sleep"
    /\ \/ controller \in aborted /\ Silently(q) /\ UNCHANGED <<signal, timers>>
       \/ /\ controller \notin aborted
          /\ pc' = [pc EXCEPT ![q] = "fetch"]
          /\ signal' = [signal EXCEPT ![q] = controller]
          /\ timers' = timers \cup {<<q, attempt[q]>>}
          /\ UNCHANGED <<attempt, pending, store, crossed, silenced>>
    /\ UNCHANGED <<controller, aborted, frames, asleep, others>>

\* A token goes into the buffer; a frame is asked for unless one is noted.
Receive(q) ==
    LET t == <<q, attempt[q]>> IN
    /\ pc[q] = "read" /\ signal[q] \notin aborted
    /\ Len(SelectSeq(got[q], LAMBDA x : x = t)) < MaxTokens
    /\ got' = [got EXCEPT ![q] = Append(@, t)]
    /\ pending' = Append(pending, t)
    /\ IF raf = 0 THEN raf' = msg[q] /\ frame' = TRUE ELSE UNCHANGED frames
    /\ UNCHANGED <<pc, attempt, msg, signal, controller, aborted, timers, store, crossed, cut,
                   timedOut, silenced, freed, asleep, news, reloads>>

Completes(q) ==
    /\ pc[q] = "read" /\ signal[q] \notin aborted
    /\ Finish(q)
    /\ UNCHANGED <<signal, controller, aborted, timers, frames, asleep, others>>

\* The stream ends without done, or stalls: once more into the same message.
BreaksOff(q) ==
    /\ pc[q] = "read" /\ signal[q] \notin aborted
    /\ \/ attempt[q] < MaxRetries /\ Retried(q)
       \/ attempt[q] = MaxRetries /\ Finish(q)
    /\ UNCHANGED <<signal, controller, aborted, timers, frames, asleep, others>>

(***************************************************************************)
(* The browser.                                                            *)
(***************************************************************************)

Frame ==
    /\ frame
    /\ raf' = 0 /\ frame' = FALSE
    /\ messages' = Appended(messages, raf, pending)
    /\ pending' = <<>>
    /\ UNCHANGED <<pc, attempt, msg, signal, controller, aborted, timers, seq, status,
                   idleTimers, saved, history>>

\* Mutant: the controller is not the one the fetch was given.
TimeoutMisses(t) ==
    /\ t \in timers
    /\ timers' = timers \ {t}
    /\ UNCHANGED <<pc, attempt, msg, signal, controller, aborted, pending, frames, store, got,
                   crossed, cut, timedOut, silenced, freed, asleep, news, reloads>>

\* STREAM_TIMEOUT_MS after a fetch: whatever controller is current is aborted.
Timeout(t) ==
    /\ t \in timers
    /\ timers' = timers \ {t}
    /\ aborted' = aborted \cup ({controller} \ {NoController})
    /\ timedOut' = timedOut \cup ({controller} \ {NoController})
    /\ UNCHANGED <<pc, attempt, msg, signal, controller, pending, frames, store, got, crossed,
                   cut, silenced, freed, asleep, news, reloads>>

IdleTimeout ==
    /\ idleTimers > 0
    /\ idleTimers' = idleTimers - 1
    /\ status' = "idle"
    /\ freed' = (freed \/ Alive # {})
    /\ UNCHANGED <<pc, attempt, msg, signal, refs, messages, seq, saved, got, crossed, cut,
                   timedOut, silenced, asleep, news, reloads>>

Step(q) ==
    \/ Opens(q) \/ Declined(q) \/ Denied(q) \/ Fails(q) \/ Aborts(q) \/ Wake(q)
    \/ Receive(q) \/ Completes(q) \/ BreaksOff(q)

Next ==
    \/ \E q \in Queries : Submit(q) \/ Step(q)
    \/ \E t \in timers : Timeout(t)
    \/ Abort \/ NewConversation \/ Reload \/ Frame \/ IdleTimeout

(***************************************************************************)
(* Timers fire, an aborted fetch raises, a stream that stalls is noticed.  *)
(* Nothing is assumed of the server: a fetch may never be answered.        *)
(***************************************************************************)
Fairness ==
    \A q \in Queries :
        /\ WF_vars(Aborts(q)) /\ WF_vars(Wake(q)) /\ WF_vars(BreaksOff(q))
        /\ \A a \in 0..MaxRetries : WF_vars(Timeout(<<q, a>>))

Spec == Init /\ [][Next]_vars /\ Fairness

(***************************************************************************)
(* Properties.                                                             *)
(***************************************************************************)
\* As long as no query ran over another one's state, and the user let it run, a
\* finished answer is what the query received, in order and each token once, those
\* of broken-off attempts included, and an error text at the end if it failed
\* (flushTokens, the flushes of done and of the errors).
AnswerIsItsTokens ==
    \A q \in Queries, i \in DOMAIN messages :
        (messages[i].of = q /\ ~messages[i].streaming /\ ~crossed /\ q \notin cut)
            => messages[i].content \in {got[q], Append(got[q], ErrorText)}

\* The guard on busy keeps queries one at a time, unless the status went idle
\* under a running query: a cancel (which sends it again), a new conversation, or
\* the timer of an earlier error.
OneAtATime == Cardinality(Alive) > 1 => freed

\* Tokens in the buffer have a frame coming for them until the first cancel, which
\* leaves the ref of a cancelled frame behind (abort, flushTokens).
FrameIsComing == pending # <<>> => frame \/ cut # {} \/ crossed

\* The console is busy only while a query runs, unless a timeout ended the last
\* attempt, or a backoff: both return without a status (the catch of AbortError);
\* or queries ran over each other.
BusyMeansRunning == Busy /\ Alive = {} => silenced \/ crossed

\* A query cancelled between two attempts is not sent again, as long as nobody has
\* put another controller in place (the check after the sleep).
CancelSticks == \A q \in asleep : pc[q] \in {"sleep", "end"}

\* Every query ends even if the server never answers, unless another one ran over
\* its controller (STREAM_TIMEOUT_MS, INACTIVITY_TIMEOUT_MS, MAX_RETRIES).
QueryEnds == \A q \in Queries : (q \in Alive) ~> (q \notin Alive \/ crossed)

\* Messages, ids, buffer and frame agree: what was received is in the message it is
\* for, or a frame is coming that puts it there.
MessagesConsistent == TypeOK /\ AnswerIsItsTokens /\ FrameIsComing

\* The status the user sees is that of the queries that run: one at a time, none
\* under an idle console, none after a cancel, except as said above.
ConsoleConsistent == OneAtATime /\ BusyMeansRunning /\ CancelSticks
=============================================================================
