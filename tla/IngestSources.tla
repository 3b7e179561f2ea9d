--------------------------- MODULE IngestSources ---------------------------
(***************************************************************************)
(* Where documents come from: the webhook routes                           *)
(* (aim/api/routes/webhooks.py), which put the text of an event on the     *)
(* ingest worker's queue, and the poller                                   *)
(* (aim/workers/mcp_ingest_worker.py), which calls resources/read for      *)
(* every listed uri and for those of a Redis stream, extracts entities of  *)
(* the items itself and puts them on the same queue.  resources/read       *)
(* (aim/mcp/handler.py) takes the uri for its provider only, and answers   *)
(* with what an empty query finds in that provider's default places.       *)
(* LiveGraph is what happens to the documents in the graph.                *)
(***************************************************************************)
EXTENDS LiveGraph, Functions

CONSTANTS
    Uri,
    Provider,     \* what an empty query of the provider behind a uri may find; {} for none
    Listed,       \* the uris the providers list
    Long,         \* documents with at least 20 characters
    Window,       \* xread(count=10)
    Keep,         \* xtrim(maxlen=1000)
    MaxStream     \* bound: events ever put on the stream

ASSUME SourceAssumption ==
    /\ Provider \in [Uri -> SUBSET Doc] /\ Listed \in Seq(Uri) /\ Long \subseteq Doc
    /\ {Window, Keep, MaxStream} \subseteq Nat /\ Window \in 1..Keep

VARIABLES
    hooks,      \* events that a provider has not seen acknowledged
    stream,     \* aim:webhook_events
    appended,
    poller,     \* the task of MCPIngestWorker
    cursor      \* aim:ingest_cursor: uris that have one

sourceVars == <<hooks, stream, appended, poller, cursor>>
vars == <<graphVars, sourceVars>>

Event == [doc : Doc, version : Version, signed : BOOLEAN]
Off == [pc |-> "off"]
Asleep == [pc |-> "asleep"]
\* left: what the cycle still has to read; items: what the read has found and is still
\* to be extracted; tail: it is at the stream.
Reading == [pc : {"read", "extract", "xread"}, left : Seq(Uri), items : Corpus, tail : BOOLEAN]

\* The queue and the poller over the graph; the queue keeps its limit.
TypeOK ==
    /\ GraphTypeOK
    /\ hooks \subseteq Event
    /\ stream \in Seq(Uri) /\ Len(stream) <= MaxStream /\ appended \in 0..MaxStream
    /\ poller \in {Off, Asleep} \cup Reading
    /\ cursor \subseteq Uri

Init ==
    /\ GraphInit
    /\ hooks = {} /\ stream = <<>> /\ appended = 0 /\ poller = Off /\ cursor = {}

(***************************************************************************)
(* The sources.                                                            *)
(***************************************************************************)
\* A document appears or changes, and its webhook is called.
Publish(d) ==
    /\ latest[d] < MaxVersion
    /\ latest' = [latest EXCEPT ![d] = @ + 1]
    /\ \E signed \in BOOLEAN : hooks' = hooks \cup {[doc |-> d, version |-> latest[d] + 1, signed |-> signed]}
    /\ UNCHANGED <<stored, edges, writer, queue, failures, deletes, unsure,
                   stream, appended, poller, cursor>>

\* Another program appends to the stream.
AppendToStream(u) ==
    /\ appended < MaxStream
    /\ appended' = appended + 1 /\ stream' = Append(stream, u)
    /\ UNCHANGED <<graphVars, hooks, poller, cursor>>

(***************************************************************************)
(* The queue, and the webhook routes.                                      *)
(***************************************************************************)
Room == Len(queue) < MaxSize
Enqueue(job) == queue' = Append(queue, job)
Extraction(h) == [kind |-> "extraction", doc |-> h.doc, version |-> h.version]
Verified(h) == h.signed

\* Refused without a valid signature; acknowledged without a job when the text
\* is short; a full queue raises, and the provider calls again, as it does when
\* the acknowledgement is lost.
Webhook(h) ==
    /\ h \in hooks
    /\ \/ ~Verified(h) /\ hooks' = hooks \ {h} /\ UNCHANGED queue
       \/ Verified(h) /\ h.doc \notin Long /\ hooks' = hooks \ {h} /\ UNCHANGED queue
       \/ /\ Verified(h) /\ h.doc \in Long /\ Room
          /\ Enqueue(Extraction(h))
          /\ hooks' = hooks \ {h}
    /\ UNCHANGED <<latest, stored, edges, writer, failures, deletes, unsure,
                   stream, appended, poller, cursor>>

AcknowledgementLost(h) ==
    /\ h \in hooks /\ Verified(h) /\ h.doc \in Long /\ Room /\ failures < MaxFailures
    /\ Enqueue(Extraction(h))
    /\ failures' = failures + 1
    /\ UNCHANGED <<latest, stored, edges, writer, deletes, unsure, sourceVars>>

(***************************************************************************)
(* The poller.                                                             *)
(***************************************************************************)
Poller(next) == poller' = next
OthersKeep == UNCHANGED <<latest, stored, edges, writer, deletes, unsure, hooks, appended>>

Start ==
    /\ poller = Off /\ Poller(Asleep)
    /\ UNCHANGED <<graphVars, hooks, stream, appended, cursor>>
\* Cancelled at whatever await it stands.
Stop ==
    /\ poller # Off /\ Poller(Off)
    /\ UNCHANGED <<graphVars, hooks, stream, appended, cursor>>

At(left, tail) ==
    IF left # <<>> THEN [pc |-> "read", left |-> left, items |-> NoCorpus, tail |-> tail]
    ELSE IF tail THEN Asleep
    ELSE [pc |-> "xread", left |-> <<>>, items |-> NoCorpus, tail |-> FALSE]

Wake ==
    /\ poller = Asleep /\ Poller(At(Listed, FALSE))
    /\ UNCHANGED <<graphVars, hooks, stream, appended, cursor>>

\* The uri at hand is done with; an event's end trims the stream.
Trimmed == IF Len(stream) > Keep THEN SubSeq(stream, Len(stream) - Keep + 1, Len(stream)) ELSE stream
Proceeds ==
    /\ Poller(At(Tail(poller.left), poller.tail))
    /\ stream' = IF poller.tail THEN Trimmed ELSE stream

\* _ingest_resource up to the answer: what the search has found, as it was then; or
\* nothing, when no provider has the uri or the one that has it fails.  The cursor is
\* read and not looked at.
SkipsWhatHasACursor(u) == u \in cursor
Skips(u) == FALSE
Found(docs) == [d \in Doc |-> IF d \in docs THEN latest[d] ELSE 0]
Answered(docs) ==
    /\ poller \in Reading /\ poller.pc = "read"
    /\ LET u == Head(poller.left) IN
       /\ docs \subseteq IF Skips(u) THEN {} ELSE Provider[u] \cap In(latest)
       /\ IF docs \cap Long = {}
          THEN Proceeds /\ cursor' = (IF docs = {} THEN cursor ELSE cursor \cup {u})
          ELSE /\ Poller([poller EXCEPT !.pc = "extract", !.items = Found(docs \cap Long)])
               /\ UNCHANGED <<stream, cursor>>
    /\ OthersKeep /\ UNCHANGED <<queue, failures>>
ReadResource == \E docs \in SUBSET Doc : Answered(docs)

\* What an item of a payload becomes.  Its id is the hash of its address, so a
\* document has one node whatever its version.
SourceArtifact(d, v) == [kind |-> "batch", doc |-> d, version |-> v]

\* An item is done with; after the last one the uri has its cursor.
ItemDone(d) ==
    LET left == [poller.items EXCEPT ![d] = 0] IN
    IF In(left) # {}
    THEN Poller([poller EXCEPT !.items = left]) /\ UNCHANGED <<stream, cursor>>
    ELSE Proceeds /\ cursor' = cursor \cup {Head(poller.left)}

\* The model has answered.  A full queue is swallowed like any other failure.
ExtractItem ==
    /\ poller \in Reading /\ poller.pc = "extract"
    /\ \E d \in In(poller.items) :
         /\ IF Room THEN Enqueue(SourceArtifact(d, poller.items[d])) ELSE UNCHANGED queue
         /\ ItemDone(d)
    /\ OthersKeep /\ UNCHANGED failures

\* The model fails: its item is left.
ItemFails ==
    /\ poller \in Reading /\ poller.pc = "extract" /\ failures < MaxFailures
    /\ failures' = failures + 1
    /\ \E d \in In(poller.items) : ItemDone(d)
    /\ OthersKeep /\ UNCHANGED queue

\* Every cycle reads the stream from its beginning.
Tailed == SubSeq(stream, 1, IF Len(stream) < Window THEN Len(stream) ELSE Window)
ReadStream ==
    /\ poller \in Reading /\ poller.pc = "xread"
    /\ Poller(At(Tailed, TRUE))
    /\ OthersKeep /\ UNCHANGED <<queue, failures, stream, cursor>>

StreamFails ==
    /\ poller \in Reading /\ (poller.pc = "xread" \/ poller.tail) /\ failures < MaxFailures
    /\ failures' = failures + 1
    /\ Poller(Asleep)
    /\ OthersKeep /\ UNCHANGED <<queue, stream, cursor>>

Graph == GraphNext /\ UNCHANGED sourceVars

Next ==
    \/ Graph
    \/ \E d \in Doc : Publish(d)
    \/ \E u \in Uri : AppendToStream(u)
    \/ \E h \in hooks : Webhook(h) \/ AcknowledgementLost(h)
    \/ Start \/ Stop \/ Wake \/ ReadResource \/ ExtractItem \/ ItemFails
    \/ ReadStream \/ StreamFails

\* Tasks go on.  The worker commits a job faster than the poller has the next one from
\* its model: now and then its queue is empty when a listed uri is read.
Reads(u) == poller \in Reading /\ poller.pc = "read" /\ Head(poller.left) = u
Fairness ==
    /\ WF_vars(Wake) /\ WF_vars(ReadResource) /\ WF_vars(ExtractItem) /\ WF_vars(ReadStream)
    /\ WF_vars(Work /\ UNCHANGED sourceVars)
    /\ \A u \in Range(Listed) : []<>(poller = Off \/ (Reads(u) /\ queue = <<>>))
Spec == Init /\ [][Next]_vars /\ Fairness

(***************************************************************************)
(* Properties.                                                             *)
(***************************************************************************)
\* A search of the provider that has the document comes back without it.
Misses(d) ==
    \E docs \in SUBSET Doc :
        Answered(docs) /\ ~Skips(Head(poller.left)) /\ d \in Provider[Head(poller.left)] \ docs
Polled == {d \in Long : \E u \in Range(Listed) :
    d \in Provider[u] /\ Cardinality(Provider[u] \cap Long) <= MaxSize}

\* While the poller runs, a document that the searches of a listed provider find is in
\* the graph in its latest version in the end, whatever was dropped on the way: by a
\* full queue, a failed extraction, an older version written after a newer one, or a
\* deletion of the node.  A document that the default places do not hold is not found,
\* whatever uri is listed or put on the stream for it.
PollerCatchesUp ==
    \A d \in Polled :
        <>[](poller # Off) /\ <>[][~Misses(d)]_vars => <>[](stored[d] = latest[d])

\* However ingestions, jobs, polls and deletions overlap, no edge dangles, and one that
\* the stored texts call for is missing only where LiveGraph says so.
EdgesHold == TypeOK /\ NoDanglingEdge /\ LinkedUnlessDisturbed
=============================================================================
