----------------------------- MODULE LiveGraph -----------------------------
(***************************************************************************)
(* Documents written to the graph while it is in use, with the MENTIONS    *)
(* edges that follow from their texts: ingest_document                     *)
(* (aim/ingestion/live_worker.py) reads the corpus, reads the edges,       *)
(* derives and then upserts the document and its edges one statement after *)
(* the other; an extraction job of the ingest worker does the same reads   *)
(* and writes one transaction.  Any number of the former run at a time, of *)
(* the latter one, and documents are deleted meanwhile.                    *)
(***************************************************************************)
EXTENDS Naturals, Sequences, FiniteSets

CONSTANTS
    Doc, Name,
    NameOf,        \* the name of a document, which others may bear as well
    Text,          \* the names that stand in each version of a document's text
    Callers,       \* calls of ingest_document that overlap
    Consumer,      \* the ingest worker's task
    Limit,         \* ingestion_cross_corpus_snapshot_limit
    MaxSize,       \* of the worker's queue
    MaxVersion,    \* bound: how often a document changes at its source
    MaxFailures,   \* bound: failures of Neo4j, a model or a provider
    MaxDeletes     \* bound

ASSUME GraphAssumption ==
    /\ NameOf \in [Doc -> Name] /\ Text \in [Doc -> [1..MaxVersion -> SUBSET Name]]
    /\ Consumer \notin Callers
    /\ {Limit, MaxSize, MaxVersion, MaxFailures, MaxDeletes} \subseteq Nat

VARIABLES
    latest,     \* the version of each document at its source, 0 for none
    stored,     \* the version that is in Neo4j, 0 for no such node
    edges,      \* MENTIONS
    writer,     \* the calls of ingest_document and the worker's job
    queue,      \* the worker's queue
    failures, deletes,
    unsure      \* history: documents last written on a corpus that had changed, by a batch that
                \* derives nothing, or not to the end

graphVars == <<latest, stored, edges, writer, queue, failures, deletes, unsure>>

Writers == Callers \cup {Consumer}
Version == 0..MaxVersion
\* Which version of each document, of the graph or of what was read of it: 0 for none.
Corpus == [Doc -> Version]
NoCorpus == [d \in Doc |-> 0]
In(corpus) == {d \in Doc : corpus[d] # 0}
nodes == In(stored)

Idle == [pc |-> "idle"]
Writing == [pc : {"extract", "entities", "rels", "entity", "edges", "write", "batch"}, doc : Doc,
            version : Version, corpus : Corpus, todo : SUBSET (Doc \X Doc), disturbed : BOOLEAN]
\* "extraction": text of a webhook; "batch": entities that a poll extracted.
Job == [kind : {"extraction", "batch"}, doc : Doc, version : Version]

GraphTypeOK ==
    /\ latest \in [Doc -> Version] /\ stored \in [Doc -> Version]
    /\ edges \subseteq Doc \X Doc
    /\ writer \in [Writers -> {Idle} \cup Writing]
    /\ queue \in Seq(Job) /\ Len(queue) <= MaxSize
    /\ failures \in 0..MaxFailures /\ deletes \in 0..MaxDeletes
    /\ unsure \subseteq Doc

GraphInit ==
    /\ latest = [d \in Doc |-> 0] /\ stored = [d \in Doc |-> 0] /\ edges = {}
    /\ writer = [w \in Writers |-> Idle] /\ queue = <<>>
    /\ failures = 0 /\ deletes = 0 /\ unsure = {}

(***************************************************************************)
(* derive_mentions.                                                        *)
(***************************************************************************)
\* The first of the corpus that bears a name keeps it; the snapshot comes in
\* no particular order and the new document is appended to it.
Owners(docs, d) ==
    {owner \in [{NameOf[x] : x \in docs \cup {d}} -> docs \cup {d}] :
        \A n \in DOMAIN owner :
            /\ NameOf[owner[n]] = n
            /\ owner[n] = d => \A x \in docs \ {d} : NameOf[x] # n}
Mentions(corpus, owner) ==
    {e \in {<<s, owner[n]>> : s \in In(corpus), n \in DOMAIN owner} :
        e[1] # e[2] /\ NameOf[e[2]] \in Text[e[1]][corpus[e[1]]]}
\* prepare_ingestion: what is new and touches the document, whose text is the
\* one that is being ingested.
PreparedAsSource(d, v, corpus, owner, existing) ==
    {e \in Mentions([corpus EXCEPT ![d] = v], owner) : e \notin existing /\ d = e[1]}
Prepared(d, v, corpus, owner, existing) ==
    {e \in Mentions([corpus EXCEPT ![d] = v], owner) : e \notin existing /\ d \in {e[1], e[2]}}

(***************************************************************************)
(* Neo4j.                                                                  *)
(***************************************************************************)
\* A statement whose MATCH finds nothing changes nothing and is no error.
UpsertRelationships(es, existing) ==
    edges \cup {e \in es : existing[e[1]] # 0 /\ existing[e[2]] # 0}
UpsertEntity(d, v) == [stored EXCEPT ![d] = v]

\* The corpus changed under those of W who have read it and not yet written.
Disturbs(W, ws) ==
    [x \in Writers |-> IF x \in W /\ ws[x].pc \in {"rels", "entity", "write"}
                       THEN [ws[x] EXCEPT !.disturbed = TRUE] ELSE ws[x]]
\* SET n += properties: the node is made, or its text replaced.
Upserted(w, record) ==
    LET d == writer[w].doc
        alters == stored[d] # writer[w].version
        ws == [writer EXCEPT ![w] = record]
    IN  /\ stored' = UpsertEntity(d, writer[w].version)
        /\ writer' = IF alters THEN Disturbs(Writers \ {w}, ws) ELSE ws
        /\ unsure' = IF writer[w].disturbed \/ (writer[w].pc = "batch" /\ alters)
                     THEN unsure \cup {d}
                     ELSE IF writer[w].pc = "batch" THEN unsure ELSE unsure \ {d}

Delete(d) ==
    /\ d \in nodes /\ deletes < MaxDeletes
    /\ deletes' = deletes + 1
    /\ stored' = [stored EXCEPT ![d] = 0]
    /\ edges' = {e \in edges : d \notin {e[1], e[2]}}
    /\ writer' = Disturbs(Writers, writer)
    /\ UNCHANGED <<latest, queue, failures, unsure>>

(***************************************************************************)
(* ingest_document, and the worker's job.                                  *)
(***************************************************************************)
Begins(w, pc, d, v) ==
    writer' = [writer EXCEPT ![w] = [pc |-> pc, doc |-> d, version |-> v, corpus |-> NoCorpus,
                                     todo |-> {}, disturbed |-> FALSE]]

Ingest(w, d) ==
    /\ w \in Callers /\ writer[w] = Idle /\ latest[d] # 0
    /\ Begins(w, "entities", d, latest[d])
    /\ UNCHANGED <<latest, stored, edges, queue, failures, deletes, unsure>>

\* A batch is written as it is: it may change a text, and derives no mentions.
TakeJob ==
    /\ writer[Consumer] = Idle /\ queue # <<>>
    /\ LET job == Head(queue) IN
       IF job.kind = "batch" THEN Begins(Consumer, "batch", job.doc, job.version)
                             ELSE Begins(Consumer, "extract", job.doc, job.version)
    /\ queue' = Tail(queue)
    /\ UNCHANGED <<latest, stored, edges, failures, deletes, unsure>>

\* The text holds something, or nothing that could be written.
Extracted ==
    /\ writer[Consumer].pc = "extract"
    /\ \/ writer' = [writer EXCEPT ![Consumer].pc = "entities"]
       \/ failures < MaxFailures /\ writer' = [writer EXCEPT ![Consumer] = Idle]
    /\ failures' = IF writer'[Consumer] = Idle THEN failures + 1 ELSE failures
    /\ UNCHANGED <<latest, stored, edges, queue, deletes, unsure>>

ReadEntities(w) ==
    /\ writer[w].pc = "entities"
    /\ \E rows \in SUBSET nodes :
         /\ Cardinality(rows) = IF Cardinality(nodes) <= Limit THEN Cardinality(nodes) ELSE Limit
         /\ writer' = [writer EXCEPT ![w].pc = "rels",
                                     ![w].corpus = [x \in Doc |-> IF x \in rows \ {writer[w].doc}
                                                                  THEN stored[x] ELSE 0],
                                     ![w].disturbed = @ \/ rows # nodes]
    /\ UNCHANGED <<latest, stored, edges, queue, failures, deletes, unsure>>

ReadRelationships(w) ==
    /\ writer[w].pc = "rels"
    /\ \E owner \in Owners(In(writer[w].corpus), writer[w].doc) :
         writer' = [writer EXCEPT ![w] = [@ EXCEPT
             !.pc = IF w = Consumer THEN "write" ELSE "entity", !.corpus = NoCorpus,
             !.todo = Prepared(writer[w].doc, writer[w].version, writer[w].corpus, owner, edges)]]
    /\ UNCHANGED <<latest, stored, edges, queue, failures, deletes, unsure>>

\* The worker goes on without the corpus when it cannot be read.
SnapshotFails ==
    /\ writer[Consumer].pc \in {"entities", "rels"} /\ failures < MaxFailures
    /\ failures' = failures + 1
    /\ writer' = [writer EXCEPT ![Consumer] = [@ EXCEPT !.pc = "write", !.corpus = NoCorpus, !.disturbed = TRUE]]
    /\ UNCHANGED <<latest, stored, edges, queue, deletes, unsure>>

WriteEntity(w) ==
    /\ writer[w].pc = "entity"
    /\ Upserted(w, IF writer[w].todo = {} THEN Idle ELSE [writer[w] EXCEPT !.pc = "edges"])
    /\ UNCHANGED <<latest, edges, queue, failures, deletes>>

WriteEdge(w) ==
    /\ writer[w].pc = "edges"
    /\ \E e \in writer[w].todo :
         /\ edges' = UpsertRelationships({e}, stored)
         /\ writer' = [writer EXCEPT ![w] = IF @.todo = {e} THEN Idle
                                           ELSE [@ EXCEPT !.todo = writer[w].todo \ {e}]]
    /\ UNCHANGED <<latest, stored, queue, failures, deletes, unsure>>

WriteBatch ==
    /\ writer[Consumer].pc \in {"write", "batch"}
    /\ Upserted(Consumer, Idle)
    /\ edges' = UpsertRelationships(writer[Consumer].todo, stored')
    /\ UNCHANGED <<latest, queue, failures, deletes>>

\* Neo4j fails or takes too long: ingest_document raises where it stands, and
\* the worker's transaction is rolled back, its attempts used up.
Raises(w) ==
    /\ writer[w].pc \in IF w = Consumer THEN {"write", "batch"} ELSE {"entities", "rels", "entity", "edges"}
    /\ failures < MaxFailures /\ failures' = failures + 1
    /\ writer' = [writer EXCEPT ![w] = Idle]
    /\ unsure' = IF writer[w].pc = "edges" THEN unsure \cup {writer[w].doc} ELSE unsure
    /\ UNCHANGED <<latest, stored, edges, queue, deletes>>

\* _augment_cross_corpus_mentions: an edge between two documents that are both
\* in the corpus already is none of the job's business.
AugmentCrossCorpus == ReadEntities(Consumer) \/ ReadRelationships(Consumer)

\* The steps of the worker's task that do not fail.
Work ==
    \/ TakeJob \/ (Extracted /\ UNCHANGED failures)
    \/ AugmentCrossCorpus \/ WriteBatch

GraphNext ==
    \/ \E d \in Doc : Delete(d)
    \/ \E w \in Callers, d \in Doc : Ingest(w, d)
    \/ TakeJob \/ Extracted \/ AugmentCrossCorpus \/ SnapshotFails \/ WriteBatch
    \/ \E w \in Callers : ReadEntities(w) \/ ReadRelationships(w) \/ WriteEntity(w) \/ WriteEdge(w)
    \/ \E w \in Writers : Raises(w)

(***************************************************************************)
(* Properties.                                                             *)
(***************************************************************************)
\* No edge outlives the node at either of its ends, nor is one made to a node
\* that was deleted between the reading of the corpus and the writing.
NoDanglingEdge == \A e \in edges : e[1] \in nodes /\ e[2] \in nodes

Unambiguous(t) == \A x \in Doc : NameOf[x] = NameOf[t] => x = t

\* Two documents of which one names the other in the text that is stored are linked,
\* whoever came first and however their ingestions overlapped: unless one of them was
\* last written on a corpus that had changed since it was read, its call broke off, or
\* its text was put there or replaced by a batch, which derives nothing.  To ingest such
\* a document again heals it.  Nothing takes an edge away when the name is gone from a
\* later text: the edge stays until one of its nodes is deleted.
LinkedUnlessDisturbed ==
    \A s, t \in nodes :
        s # t /\ Unambiguous(t) /\ NameOf[t] \in Text[s][stored[s]] =>
            \/ <<s, t>> \in edges \/ s \in unsure \/ t \in unsure
            \/ \E w \in Callers : writer[w].pc = "edges" /\ <<s, t>> \in writer[w].todo
=============================================================================
