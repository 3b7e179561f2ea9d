------------------------- MODULE IngestSourcesProofs -------------------------
(* Theorems of IngestSources, for any documents, texts, callers and bounds. *)
EXTENDS IngestSources, TLAPS

USE GraphAssumption, SourceAssumption

\* An edge that a version of a text calls for, in a corpus of any size.
Wanted(s, v, t) == s # t /\ Unambiguous(t) /\ NameOf[t] \in Text[s][v]

\* What is on its way is a version that was published: writing it makes a node.
VersionsPublished ==
    /\ \A h \in hooks : h.version # 0
    /\ \A i \in 1..Len(queue) : queue[i].version # 0
    /\ \A w \in Writers : writer[w] # Idle => writer[w].version # 0

\* The stream holds what was appended, a poll that reads has something to read.
PollerOK ==
    /\ Len(stream) <= appended
    /\ poller \in Reading /\ poller.pc \in {"read", "extract"} => poller.left # <<>>

\* What a writer holds that read the whole corpus and was not disturbed since: the
\* corpus, then every missing edge between its document and the others.
CorpusKnown(x) == x.pc = "rels" /\ ~x.disturbed => x.corpus = [stored EXCEPT ![x.doc] = 0]
MissingKnown(x) ==
    x.pc \in {"entity", "write"} /\ ~x.disturbed =>
        \A y \in nodes \ {x.doc} :
            /\ Wanted(x.doc, x.version, y) => <<x.doc, y>> \in edges \cup x.todo
            /\ Wanted(y, stored[y], x.doc) => <<y, x.doc>> \in edges \cup x.todo
OwnEdgesOnly(x) == x.pc \in {"entity", "edges"} => \A e \in x.todo : x.doc \in {e[1], e[2]}
WritersOK ==
    \A w \in Writers : CorpusKnown(writer[w]) /\ MissingKnown(writer[w]) /\ OwnEdgesOnly(writer[w])

Inv ==
    /\ TypeOK /\ VersionsPublished /\ PollerOK
    /\ NoDanglingEdge /\ LinkedUnlessDisturbed /\ WritersOK

(***************************************************************************)
(* Writers.                                                                *)
(***************************************************************************)
Record == {Idle} \cup Writing

LEMMA WriterFacts ==
    ASSUME Inv, NEW w \in Writers
    PROVE  /\ writer[w] \in Record
           /\ writer[w].pc # "idle" => writer[w] \in Writing /\ writer[w].version # 0
           /\ Idle.pc = "idle"
<1>1. writer[w] \in Record
  BY DEF Inv, TypeOK, GraphTypeOK, Record
<1>2. Idle.pc = "idle"
  BY DEF Idle
<1>3. writer[w] # Idle => writer[w].version # 0
  BY DEF Inv, VersionsPublished
<1> QED BY <1>1, <1>2, <1>3 DEF Record

\* A writer goes on, or breaks off, without having written: what the texts call for
\* stays as it was, if a call that breaks off among its edges says so.
LEMMA GoesOn ==
    ASSUME Inv, NEW w \in Writers, NEW x \in Record, writer' = [writer EXCEPT ![w] = x],
           x # Idle => x.version # 0,
           CorpusKnown(x), MissingKnown(x), OwnEdgesOnly(x),
           queue' \in Seq(Job), Len(queue') <= MaxSize, \A i \in 1..Len(queue') : queue'[i].version # 0,
           failures' \in 0..MaxFailures, unsure \subseteq unsure', unsure' \subseteq Doc,
           writer[w].pc = "edges" => writer[w].doc \in unsure',
           UNCHANGED <<latest, stored, edges, deletes, sourceVars>>
    PROVE  Inv'
<1>1. \A u \in Writers : writer'[u] = IF u = w THEN x ELSE writer[u]
  BY DEF Inv, TypeOK, GraphTypeOK
<1>2. nodes' = nodes
  BY DEF nodes
<1>3. UNCHANGED <<hooks, stream, appended, poller, cursor>>
  BY DEF sourceVars
<1>4. TypeOK'
  BY <1>3 DEF Inv, TypeOK, GraphTypeOK, Record
<1>5. VersionsPublished'
  BY <1>1, <1>3 DEF Inv, VersionsPublished
<1>6. PollerOK' /\ NoDanglingEdge'
  BY <1>2, <1>3 DEF Inv, PollerOK, NoDanglingEdge
<1>7. WritersOK'
  <2> SUFFICES ASSUME NEW u \in Writers
               PROVE  CorpusKnown(writer[u])' /\ MissingKnown(writer[u])' /\ OwnEdgesOnly(writer[u])'
    BY DEF WritersOK
  <2>1. CASE u = w
    BY <1>1, <1>2, <2>1 DEF CorpusKnown, MissingKnown, OwnEdgesOnly
  <2>2. CASE u # w
    BY <1>1, <1>2, <2>2 DEF Inv, WritersOK, CorpusKnown, MissingKnown, OwnEdgesOnly
  <2> QED BY <2>1, <2>2
<1>8. LinkedUnlessDisturbed'
  <2> SUFFICES ASSUME NEW s \in nodes, NEW t \in nodes, Wanted(s, stored[s], t)
               PROVE  \/ <<s, t>> \in edges \/ s \in unsure' \/ t \in unsure'
                      \/ \E u \in Callers : writer'[u].pc = "edges" /\ <<s, t>> \in writer'[u].todo
    BY <1>2 DEF LinkedUnlessDisturbed, Wanted
  <2>1. CASE <<s, t>> \in edges \/ s \in unsure \/ t \in unsure
    BY <2>1
  <2>2. ASSUME NEW u \in Callers, writer[u].pc = "edges", <<s, t>> \in writer[u].todo
        PROVE  s \in unsure' \/ t \in unsure' \/ writer'[u] = writer[u]
    <3>1. CASE u = w
      <4>1. writer[w].doc \in {s, t}
        BY <2>2, <3>1 DEF Inv, WritersOK, OwnEdgesOnly, Writers
      <4> QED BY <2>2, <3>1, <4>1
    <3>2. CASE u # w
      BY <1>1, <3>2 DEF Writers
    <3> QED BY <3>1, <3>2
  <2>3. \/ <<s, t>> \in edges \/ s \in unsure \/ t \in unsure
        \/ \E u \in Callers : writer[u].pc = "edges" /\ <<s, t>> \in writer[u].todo
    BY DEF Inv, LinkedUnlessDisturbed, Wanted
  <2>4. CASE \E u \in Callers : writer[u].pc = "edges" /\ <<s, t>> \in writer[u].todo
    <3>1. PICK u \in Callers : writer[u].pc = "edges" /\ <<s, t>> \in writer[u].todo
      BY <2>4
    <3> QED BY <2>2, <3>1
  <2> QED BY <2>1, <2>3, <2>4
<1> QED BY <1>4, <1>5, <1>6, <1>7, <1>8 DEF Inv

LEMMA NoCorpusIsOne == NoCorpus \in Corpus
BY DEF NoCorpus, Corpus, Version

\* A record at an await that knows nothing yet.
LEMMA BegunIsFine ==
    ASSUME NEW pc \in {"extract", "entities", "batch"}, NEW d \in Doc, NEW v \in Version, v # 0,
           NEW x, x = [pc |-> pc, doc |-> d, version |-> v, corpus |-> NoCorpus, todo |-> {}, disturbed |-> FALSE]
    PROVE  x \in Record /\ x.version # 0 /\ CorpusKnown(x) /\ MissingKnown(x) /\ OwnEdgesOnly(x)
<1>1. x \in Writing
  BY NoCorpusIsOne DEF Writing
<1>2. x.pc = pc /\ x.version = v
  OBVIOUS
<1> QED BY <1>1, <1>2 DEF Record, CorpusKnown, MissingKnown, OwnEdgesOnly

LEMMA IdleIsFine == Idle \in Record /\ CorpusKnown(Idle) /\ MissingKnown(Idle) /\ OwnEdgesOnly(Idle)
<1>1. Idle.pc = "idle"
  BY DEF Idle
<1> QED BY <1>1 DEF Record, CorpusKnown, MissingKnown, OwnEdgesOnly

LEMMA QueueFacts ==
    ASSUME Inv
    PROVE  /\ queue \in Seq(Job) /\ Len(queue) <= MaxSize /\ \A i \in 1..Len(queue) : queue[i].version # 0
           /\ failures \in 0..MaxFailures /\ unsure \subseteq Doc
BY DEF Inv, TypeOK, GraphTypeOK, VersionsPublished

LEMMA IngestStep ==
    ASSUME Inv, NEW w \in Callers, NEW d \in Doc, Ingest(w, d), UNCHANGED sourceVars PROVE Inv'
<1> DEFINE x == [pc |-> "entities", doc |-> d, version |-> latest[d], corpus |-> NoCorpus, todo |-> {},
                 disturbed |-> FALSE]
<1>1. latest[d] \in Version /\ latest[d] # 0 /\ w \in Writers /\ writer[w] = Idle
  BY DEF Ingest, Inv, TypeOK, GraphTypeOK, Writers
<1>2. x \in Record /\ x.version # 0 /\ CorpusKnown(x) /\ MissingKnown(x) /\ OwnEdgesOnly(x)
  BY <1>1, BegunIsFine
<1>3. writer' = [writer EXCEPT ![w] = x]
  BY DEF Ingest, Begins
<1>4. writer[w].pc # "edges"
  BY <1>1 DEF Idle
<1> HIDE DEF x
<1> QED BY <1>1, <1>2, <1>3, <1>4, QueueFacts, GoesOn DEF Ingest

LEMMA TakeJobStep == ASSUME Inv, TakeJob, UNCHANGED sourceVars PROVE Inv'
<1> DEFINE job == Head(queue)
           pc == IF job.kind = "batch" THEN "batch" ELSE "extract"
           x == [pc |-> pc, doc |-> job.doc, version |-> job.version, corpus |-> NoCorpus, todo |-> {},
                 disturbed |-> FALSE]
<1>1. writer[Consumer] = Idle /\ queue # <<>> /\ Consumer \in Writers /\ queue' = Tail(queue)
  BY DEF TakeJob, Writers
<1>2. queue \in Seq(Job) /\ Len(queue) <= MaxSize /\ \A i \in 1..Len(queue) : queue[i].version # 0
  BY QueueFacts
<1>3. job = queue[1] /\ job \in Job /\ job.version # 0
  BY <1>1, <1>2
<1>4. queue' \in Seq(Job) /\ Len(queue') <= MaxSize /\ \A i \in 1..Len(queue') : queue'[i].version # 0
  <2>1. Tail(queue) \in Seq(Job) /\ Len(Tail(queue)) = Len(queue) - 1
        /\ \A i \in 1..Len(queue) - 1 : Tail(queue)[i] = queue[i + 1]
    BY <1>1, <1>2
  <2> QED BY <1>1, <1>2, <2>1
<1> HIDE DEF job
<1>5. job.doc \in Doc /\ job.version \in Version /\ pc \in {"extract", "batch"}
  BY <1>3 DEF Job
<1>6. writer' = [writer EXCEPT ![Consumer] = x]
  BY DEF TakeJob, Begins, job
<1> HIDE DEF pc
<1>7. x \in Record /\ x.version # 0 /\ CorpusKnown(x) /\ MissingKnown(x) /\ OwnEdgesOnly(x)
  BY <1>3, <1>5, BegunIsFine
<1>8. writer[Consumer].pc # "edges"
  BY <1>1 DEF Idle
<1> HIDE DEF x
<1> QED BY <1>1, <1>4, <1>6, <1>7, <1>8, QueueFacts, GoesOn DEF TakeJob

LEMMA ExtractedStep == ASSUME Inv, Extracted, UNCHANGED sourceVars PROVE Inv'
<1> DEFINE o == writer[Consumer]
           x == [o EXCEPT !.pc = "entities"]
<1>1. Consumer \in Writers /\ o.pc = "extract" /\ o \in Writing /\ o.version # 0
  BY WriterFacts DEF Extracted, Writers
<1>2. x \in Writing /\ x.version = o.version /\ x.pc = "entities"
  BY <1>1 DEF Writing
<1>3. failures' \in 0..MaxFailures
  <2>1. failures' = failures \/ (failures' = failures + 1 /\ failures < MaxFailures)
    <3>1. CASE writer' = [writer EXCEPT ![Consumer].pc = "entities"]
      <4>1. writer'[Consumer] = x
        BY <1>1, <3>1 DEF Inv, TypeOK, GraphTypeOK
      <4>2. writer'[Consumer] # Idle
        BY <1>2, <4>1 DEF Idle
      <4> QED BY <4>2 DEF Extracted
    <3>2. CASE failures < MaxFailures
      BY <3>2 DEF Extracted
    <3> QED BY <3>1, <3>2 DEF Extracted
  <2> QED BY <2>1, QueueFacts
<1>4. writer' = [writer EXCEPT ![Consumer] = x] \/ writer' = [writer EXCEPT ![Consumer] = Idle]
  BY DEF Extracted, Inv, TypeOK, GraphTypeOK
<1> HIDE DEF x
<1>5. x \in Record /\ CorpusKnown(x) /\ MissingKnown(x) /\ OwnEdgesOnly(x)
  BY <1>2 DEF Record, CorpusKnown, MissingKnown, OwnEdgesOnly
<1> QED BY <1>1, <1>2, <1>3, <1>4, <1>5, IdleIsFine, QueueFacts, GoesOn DEF Extracted

LEMMA ReadEntitiesStep ==
    ASSUME Inv, NEW w \in Writers, ReadEntities(w), UNCHANGED sourceVars PROVE Inv'
<1> DEFINE o == writer[w]
<1>1. o.pc = "entities" /\ o \in Writing /\ o.version # 0
  BY WriterFacts DEF ReadEntities
<1>2. PICK rows \in SUBSET nodes :
        writer' = [writer EXCEPT ![w].pc = "rels",
                                 ![w].corpus = [y \in Doc |-> IF y \in rows \ {writer[w].doc}
                                                              THEN stored[y] ELSE 0],
                                 ![w].disturbed = @ \/ rows # nodes]
  BY DEF ReadEntities
<1> DEFINE read == [y \in Doc |-> IF y \in rows \ {o.doc} THEN stored[y] ELSE 0]
           x == [o EXCEPT !.pc = "rels", !.corpus = read, !.disturbed = o.disturbed \/ rows # nodes]
<1>3. writer' = [writer EXCEPT ![w] = x]
  BY <1>2 DEF Inv, TypeOK, GraphTypeOK
<1>31. read \in Corpus /\ (rows = nodes => read = [stored EXCEPT ![o.doc] = 0])
  <2>1. stored \in [Doc -> Version] /\ 0 \in Version
    BY DEF Inv, TypeOK, GraphTypeOK, Version
  <2> QED BY <2>1 DEF Corpus, nodes, In
<1> HIDE DEF read
<1>4. x \in Writing /\ x.pc = "rels" /\ x.doc = o.doc /\ x.corpus = read /\ x.version = o.version
      /\ (x.disturbed = (o.disturbed \/ rows # nodes))
  BY <1>1, <1>31 DEF Writing
<1> HIDE DEF x
<1>5. x \in Record /\ CorpusKnown(x) /\ MissingKnown(x) /\ OwnEdgesOnly(x)
  BY <1>31, <1>4 DEF Record, CorpusKnown, MissingKnown, OwnEdgesOnly
<1>6. o.pc # "edges" /\ x.version # 0
  BY <1>1, <1>4
<1> QED BY <1>3, <1>5, <1>6, QueueFacts, GoesOn DEF ReadEntities

\* Of a whole corpus every missing edge is prepared: an unambiguous name has one owner.
LEMMA PreparedIsMissing ==
    ASSUME NEW d \in Doc, NEW v \in Version, v # 0, NEW corpus \in Corpus,
           NEW owner \in Owners(In(corpus), d), NEW existing, NEW y \in In(corpus), y # d
    PROVE  /\ Wanted(d, v, y) => <<d, y>> \in existing \cup Prepared(d, v, corpus, owner, existing)
           /\ Wanted(y, corpus[y], d) => <<y, d>> \in existing \cup Prepared(d, v, corpus, owner, existing)
<1> DEFINE all == [corpus EXCEPT ![d] = v]
<1>1. In(all) = In(corpus) \cup {d} /\ all[d] = v /\ all[y] = corpus[y]
      /\ In(corpus) \subseteq Doc /\ y \in Doc
  BY DEF In, Corpus
<1>2. /\ owner \in [{NameOf[z] : z \in In(all)} -> In(all)]
      /\ \A n \in {NameOf[z] : z \in In(all)} : NameOf[owner[n]] = n
  BY <1>1 DEF Owners
<1>3. Prepared(d, v, corpus, owner, existing) =
        {e \in Mentions(all, owner) : e \notin existing /\ d \in {e[1], e[2]}}
  BY DEF Prepared
<1> HIDE DEF all
<1>4. ASSUME NEW s \in In(all), NEW t \in In(all), Wanted(s, all[s], t), d \in {s, t}
      PROVE  <<s, t>> \in existing \cup Prepared(d, v, corpus, owner, existing)
  <2>1. NameOf[t] \in {NameOf[z] : z \in In(all)} /\ owner[NameOf[t]] \in In(all) /\ owner[NameOf[t]] \in Doc
    BY <1>1, <1>2, <1>4
  <2>2. owner[NameOf[t]] = t
    BY <1>2, <1>4, <2>1 DEF Wanted, Unambiguous
  <2>3. <<s, t>> \in {<<a, owner[n]>> : a \in In(all), n \in DOMAIN owner}
    BY <1>2, <1>4, <2>1, <2>2
  <2>4. s # t /\ NameOf[t] \in Text[s][all[s]]
    BY <1>4 DEF Wanted
  <2>5. <<s, t>> \in Mentions(all, owner)
    BY <2>3, <2>4 DEF Mentions
  <2> QED BY <1>3, <1>4, <2>5
<1> QED BY <1>1, <1>4

LEMMA MentionsJoinDocs ==
    ASSUME NEW corpus, NEW X, NEW owner \in [X -> Doc]
    PROVE  Mentions(corpus, owner) \subseteq Doc \X Doc
<1>1. \A n \in DOMAIN owner : owner[n] \in Doc
  OBVIOUS
<1>2. {<<s, owner[n]>> : s \in In(corpus), n \in DOMAIN owner} \subseteq Doc \X Doc
  BY <1>1 DEF In
<1> QED BY <1>2 DEF Mentions

LEMMA ReadRelationshipsStep ==
    ASSUME Inv, NEW w \in Writers, ReadRelationships(w), UNCHANGED sourceVars PROVE Inv'
<1> DEFINE o == writer[w]
<1>1. o.pc = "rels" /\ o \in Writing /\ o.version # 0 /\ CorpusKnown(o)
  BY WriterFacts DEF ReadRelationships, Inv, WritersOK
<1>2. PICK owner \in Owners(In(o.corpus), o.doc) :
        writer' = [writer EXCEPT ![w] = [@ EXCEPT
             !.pc = IF w = Consumer THEN "write" ELSE "entity", !.corpus = NoCorpus,
             !.todo = Prepared(o.doc, o.version, o.corpus, owner, edges)]]
  BY DEF ReadRelationships
<1> DEFINE es == Prepared(o.doc, o.version, o.corpus, owner, edges)
           x == [o EXCEPT !.pc = IF w = Consumer THEN "write" ELSE "entity", !.corpus = NoCorpus, !.todo = es]
<1>3. writer' = [writer EXCEPT ![w] = x]
  BY <1>2 DEF Inv, TypeOK, GraphTypeOK
<1>4. o.doc \in Doc /\ o.corpus \in Corpus /\ o.version \in Version
  BY <1>1 DEF Writing
<1>5. es \subseteq Doc \X Doc /\ \A e \in es : o.doc \in {e[1], e[2]}
  <2>1. owner \in [{NameOf[z] : z \in In(o.corpus) \cup {o.doc}} -> In(o.corpus) \cup {o.doc}]
    BY DEF Owners
  <2>2. In(o.corpus) \cup {o.doc} \subseteq Doc /\ In([o.corpus EXCEPT ![o.doc] = o.version]) \subseteq Doc
    BY <1>4 DEF In
  <2>3. Mentions([o.corpus EXCEPT ![o.doc] = o.version], owner) \subseteq Doc \X Doc
    <3>1. owner \in [{NameOf[z] : z \in In(o.corpus) \cup {o.doc}} -> Doc]
      BY <2>1, <2>2
    <3> QED BY <2>2, <3>1, MentionsJoinDocs
  <2> QED BY <2>3 DEF Prepared
<1>6. ASSUME ~o.disturbed, NEW y \in nodes \ {o.doc}
      PROVE  /\ Wanted(o.doc, o.version, y) => <<o.doc, y>> \in edges \cup es
             /\ Wanted(y, stored[y], o.doc) => <<y, o.doc>> \in edges \cup es
  <2>1. o.corpus = [stored EXCEPT ![o.doc] = 0] /\ stored \in [Doc -> Version]
    BY <1>1, <1>6 DEF CorpusKnown, Inv, TypeOK, GraphTypeOK
  <2>2. y \in In(o.corpus) /\ y # o.doc /\ o.corpus[y] = stored[y]
    BY <1>6, <2>1 DEF nodes, In
  <2> QED BY <1>1, <1>2, <1>4, <2>2, PreparedIsMissing
<1> HIDE DEF es
<1>7. x \in Writing /\ x.pc \in {"write", "entity"} /\ x.doc = o.doc /\ x.todo = es /\ x.version = o.version
      /\ x.disturbed = o.disturbed
  BY <1>1, <1>5, NoCorpusIsOne DEF Writing
<1> HIDE DEF x
<1>8. x \in Record /\ CorpusKnown(x) /\ MissingKnown(x) /\ OwnEdgesOnly(x)
  BY <1>5, <1>6, <1>7 DEF Record, CorpusKnown, MissingKnown, OwnEdgesOnly
<1>9. o.pc # "edges" /\ x.version # 0
  BY <1>1, <1>7
<1> QED BY <1>3, <1>8, <1>9, QueueFacts, GoesOn DEF ReadRelationships

LEMMA SnapshotFailsStep == ASSUME Inv, SnapshotFails, UNCHANGED sourceVars PROVE Inv'
<1> DEFINE o == writer[Consumer]
           x == [o EXCEPT !.pc = "write", !.corpus = NoCorpus, !.disturbed = TRUE]
<1>1. o.pc \in {"entities", "rels"} /\ o \in Writing /\ o.version # 0 /\ Consumer \in Writers
  BY WriterFacts DEF SnapshotFails, Writers
<1>2. writer' = [writer EXCEPT ![Consumer] = x]
  BY DEF SnapshotFails, Inv, TypeOK, GraphTypeOK
<1>3. x \in Writing /\ x.pc = "write" /\ x.version = o.version /\ x.disturbed
  BY <1>1, NoCorpusIsOne DEF Writing
<1> HIDE DEF x
<1>4. x \in Record /\ CorpusKnown(x) /\ MissingKnown(x) /\ OwnEdgesOnly(x)
  BY <1>3 DEF Record, CorpusKnown, MissingKnown, OwnEdgesOnly
<1>5. o.pc # "edges" /\ x.version # 0
  BY <1>1, <1>3
<1>6. failures' \in 0..MaxFailures
  BY QueueFacts DEF SnapshotFails
<1> QED BY <1>1, <1>2, <1>4, <1>5, <1>6, QueueFacts, GoesOn DEF SnapshotFails

LEMMA RaisesStep == ASSUME Inv, NEW w \in Writers, Raises(w), UNCHANGED sourceVars PROVE Inv'
<1>1. writer[w] \in Writing
  BY WriterFacts DEF Raises
<1>2. writer[w].doc \in Doc
  BY <1>1 DEF Writing
<1>3. failures' \in 0..MaxFailures
  BY QueueFacts DEF Raises
<1>4. unsure \subseteq unsure' /\ unsure' \subseteq Doc /\ (writer[w].pc = "edges" => writer[w].doc \in unsure')
  BY <1>2, QueueFacts DEF Raises
<1> QED BY <1>3, <1>4, IdleIsFine, QueueFacts, GoesOn DEF Raises

(***************************************************************************)
(* Writes.                                                                 *)
(***************************************************************************)
\* Others than those of W are as they were, these may know that they are disturbed.
LEMMA DisturbedFacts ==
    ASSUME NEW ws \in [Writers -> Record], NEW W \in SUBSET Writers
    PROVE  /\ Disturbs(W, ws) \in [Writers -> Record]
           /\ \A u \in Writers :
                LET x == ws[u]
                    y == Disturbs(W, ws)[u]
                IN /\ y = x \/ (x \in Writing /\ y = [x EXCEPT !.disturbed = TRUE] /\ x.pc # "edges")
                   /\ u \notin W => y = x
                   /\ u \in W /\ x.pc \in {"rels", "entity", "write"} => y.disturbed
<1>1. ASSUME NEW u \in Writers
      PROVE  LET x == ws[u]
                 y == Disturbs(W, ws)[u]
             IN /\ y = x \/ (x \in Writing /\ y = [x EXCEPT !.disturbed = TRUE] /\ x.pc # "edges")
                /\ u \notin W => y = x
                /\ u \in W /\ x.pc \in {"rels", "entity", "write"} => y.disturbed
                /\ y \in Record
  <2>1. CASE u \in W /\ ws[u].pc \in {"rels", "entity", "write"}
    <3>1. ws[u] \in Writing
      <4>1. Idle.pc = "idle"
        BY DEF Idle
      <4> QED BY <2>1, <4>1 DEF Record
    <3>2. Disturbs(W, ws)[u] = [ws[u] EXCEPT !.disturbed = TRUE]
      BY <2>1 DEF Disturbs
    <3>3. [ws[u] EXCEPT !.disturbed = TRUE] \in Writing /\ [ws[u] EXCEPT !.disturbed = TRUE].disturbed
      BY <3>1 DEF Writing
    <3> QED BY <2>1, <3>1, <3>2, <3>3 DEF Record
  <2>2. CASE ~(u \in W /\ ws[u].pc \in {"rels", "entity", "write"})
    BY <2>2 DEF Disturbs
  <2> QED BY <2>1, <2>2
<1>2. Disturbs(W, ws) \in [Writers -> Record]
  BY <1>1 DEF Disturbs
<1> QED BY <1>1, <1>2

\* A document is written, by a call of ingest_document before its edges or by the
\* consumer with them.
LEMMA Upserts ==
    ASSUME Inv, NEW w \in Writers, NEW x \in Record, Upserted(w, x),
           writer[w].pc \in {"entity", "write", "batch"},
           \/ /\ w \in Callers /\ edges' = edges /\ writer[w].pc = "entity"
              /\ x = IF writer[w].todo = {} THEN Idle ELSE [writer[w] EXCEPT !.pc = "edges"]
           \/ x = Idle /\ edges' = UpsertRelationships(writer[w].todo, stored'),
           UNCHANGED <<latest, queue, failures, deletes, sourceVars>>
    PROVE  Inv'
<1> DEFINE o == writer[w]
           d == o.doc
           ws == [writer EXCEPT ![w] = x]
<1>1. o \in Writing /\ o.version # 0 /\ d \in Doc /\ o.version \in Version /\ o.todo \subseteq Doc \X Doc
  <2>1. o \in Writing /\ o.version # 0
    BY WriterFacts
  <2> QED BY <2>1 DEF Writing
<1>2. writer \in [Writers -> Record] /\ stored \in [Doc -> Version] /\ edges \subseteq Doc \X Doc
      /\ unsure \subseteq Doc
  BY DEF Inv, TypeOK, GraphTypeOK, Record
<1>3. stored' = [stored EXCEPT ![d] = o.version]
      /\ writer' = (IF stored[d] # o.version THEN Disturbs(Writers \ {w}, ws) ELSE ws)
      /\ unsure' = (IF o.disturbed \/ (o.pc = "batch" /\ stored[d] # o.version) THEN unsure \cup {d}
                    ELSE IF o.pc = "batch" THEN unsure ELSE unsure \ {d})
  BY DEF Upserted, UpsertEntity
<1>4. nodes' = nodes \cup {d} /\ stored' \in [Doc -> Version] /\ stored'[d] = o.version
      /\ (stored[d] = o.version => stored' = stored /\ d \in nodes)
      /\ (\A y \in Doc : y # d => stored'[y] = stored[y])
  BY <1>1, <1>2, <1>3 DEF nodes, In
<1>5. edges \subseteq edges' /\ edges' \subseteq Doc \X Doc
      /\ \A e \in edges' : e \in edges \/ (e[1] \in nodes' /\ e[2] \in nodes')
  BY <1>1, <1>2, <1>4 DEF UpsertRelationships, nodes, In
<1>6. ws \in [Writers -> Record] /\ ws[w] = x /\ \A u \in Writers : u # w => ws[u] = writer[u]
  BY <1>2
<1> HIDE DEF ws
<1>7. /\ writer' \in [Writers -> Record] /\ writer'[w] = x
      /\ \A u \in Writers : u # w =>
            /\ \/ writer'[u] = writer[u]
               \/ writer[u] \in Writing /\ writer'[u] = [writer[u] EXCEPT !.disturbed = TRUE]
                  /\ writer[u].pc # "edges"
            /\ stored[d] # o.version /\ writer[u].pc \in {"rels", "entity", "write"} => writer'[u].disturbed
  <2>1. CASE stored[d] = o.version
    BY <1>3, <1>6, <2>1
  <2>2. CASE stored[d] # o.version
    <3>1. writer' = Disturbs(Writers \ {w}, ws)
      BY <1>3, <2>2
    <3> DEFINE W == Writers \ {w}
    <3>2. W \in SUBSET Writers
      OBVIOUS
    <3> HIDE DEF W
    <3>3. /\ Disturbs(W, ws) \in [Writers -> Record]
          /\ \A u \in Writers :
                /\ \/ Disturbs(W, ws)[u] = ws[u]
                   \/ /\ ws[u] \in Writing /\ Disturbs(W, ws)[u] = [ws[u] EXCEPT !.disturbed = TRUE]
                      /\ ws[u].pc # "edges"
                /\ u \notin W => Disturbs(W, ws)[u] = ws[u]
                /\ u \in W /\ ws[u].pc \in {"rels", "entity", "write"} => Disturbs(W, ws)[u].disturbed
      BY <1>6, <3>2, DisturbedFacts, Zenon
    <3>4. w \notin W /\ \A u \in Writers : u # w => u \in W
      BY DEF W
    <3>5. writer' = Disturbs(W, ws)
      BY <3>1 DEF W
    <3>6. ASSUME NEW u \in Writers, u # w
          PROVE  /\ \/ writer'[u] = writer[u]
                    \/ writer[u] \in Writing /\ writer'[u] = [writer[u] EXCEPT !.disturbed = TRUE]
                       /\ writer[u].pc # "edges"
                 /\ stored[d] # o.version /\ writer[u].pc \in {"rels", "entity", "write"} => writer'[u].disturbed
      <4>1. ws[u] = writer[u] /\ u \in W
        BY <1>6, <3>4, <3>6
      <4> QED BY <3>3, <3>5, <4>1, Zenon
    <3>7. writer'[w] = x
      BY <1>6, <3>3, <3>4, <3>5
    <3> QED BY <3>3, <3>5, <3>6, <3>7
  <2> QED BY <2>1, <2>2
<1>8. ASSUME NEW u \in Writers, u # w
      PROVE  /\ writer'[u].pc = writer[u].pc
             /\ writer[u] # Idle =>
                    /\ writer'[u] # Idle => writer'[u].version = writer[u].version
                    /\ writer'[u].doc = writer[u].doc
                    /\ writer'[u].corpus = writer[u].corpus /\ writer'[u].todo = writer[u].todo
             /\ writer[u].pc = "edges" => writer'[u] = writer[u]
             /\ writer'[u].pc \in {"rels", "entity", "write"} /\ ~writer'[u].disturbed =>
                    /\ stored[d] = o.version /\ writer'[u] = writer[u]
             /\ writer[u] = Idle => writer'[u] = Idle
  <2>1. CASE writer'[u] = writer[u]
    BY <1>7, <1>8, <2>1
  <2>2. CASE /\ writer[u] \in Writing /\ writer'[u] = [writer[u] EXCEPT !.disturbed = TRUE]
             /\ writer[u].pc # "edges"
    <3>1. /\ writer'[u].pc = writer[u].pc /\ writer'[u].version = writer[u].version
          /\ writer'[u].doc = writer[u].doc /\ writer'[u].disturbed
          /\ writer'[u].corpus = writer[u].corpus /\ writer'[u].todo = writer[u].todo
      BY <2>2 DEF Writing
    <3>2. writer[u] # Idle
      BY <2>2 DEF Writing, Idle
    <3> QED BY <2>2, <3>1, <3>2
  <2> QED BY <1>7, <1>8, <2>1, <2>2
<1>9. \/ x = Idle
      \/ /\ o.pc = "entity" /\ x.pc = "edges" /\ x.doc = d /\ x.todo = o.todo /\ x.version = o.version
         /\ w \in Callers
  BY <1>1 DEF Writing
<1>10. UNCHANGED <<hooks, stream, appended, poller, cursor>>
  BY DEF sourceVars
<1>11. TypeOK'
  <2>1. unsure' \subseteq Doc
    BY <1>1, <1>2, <1>3
  <2> QED BY <1>4, <1>5, <1>7, <1>10, <2>1 DEF Inv, TypeOK, GraphTypeOK, Record
<1>12. VersionsPublished'
  <2>1. \A u \in Writers : writer'[u] # Idle => writer'[u].version # 0
    BY <1>1, <1>7, <1>8, <1>9 DEF Inv, VersionsPublished
  <2> QED BY <1>10, <2>1 DEF Inv, VersionsPublished
<1>13. PollerOK'
  BY <1>10 DEF Inv, PollerOK
<1>14. NoDanglingEdge'
  BY <1>4, <1>5 DEF Inv, NoDanglingEdge
<1>15. WritersOK'
  <2> SUFFICES ASSUME NEW u \in Writers
               PROVE  CorpusKnown(writer[u])' /\ MissingKnown(writer[u])' /\ OwnEdgesOnly(writer[u])'
    BY DEF WritersOK
  <2>1. CASE u = w
    <3>1. CorpusKnown(x) /\ MissingKnown(x) /\ OwnEdgesOnly(x)
      BY <1>9, IdleIsFine DEF Inv, WritersOK, CorpusKnown, MissingKnown, OwnEdgesOnly
    <3>2. x.pc \notin {"rels", "entity", "write"}
      BY <1>9 DEF Idle
    <3> QED BY <1>7, <2>1, <3>1, <3>2 DEF CorpusKnown, MissingKnown, OwnEdgesOnly
  <2>2. CASE u # w
    <3>1. CorpusKnown(writer[u]) /\ MissingKnown(writer[u]) /\ OwnEdgesOnly(writer[u])
      BY DEF Inv, WritersOK
    <3>2. stored[d] = o.version => nodes' = nodes /\ stored' = stored
      BY <1>4
    <3>3. writer[u] = Idle => writer[u].pc = "idle"
      BY DEF Idle
    <3>4. CorpusKnown(writer[u])'
      BY <1>8, <2>2, <3>1, <3>2 DEF CorpusKnown
    <3>5. MissingKnown(writer[u])'
      BY <1>5, <1>8, <2>2, <3>1, <3>2 DEF MissingKnown, Wanted
    <3>6. OwnEdgesOnly(writer[u])'
      BY <1>8, <2>2, <3>1, <3>3 DEF OwnEdgesOnly
    <3> QED BY <3>4, <3>5, <3>6
  <2> QED BY <2>1, <2>2
<1>16. LinkedUnlessDisturbed'
  <2> SUFFICES ASSUME NEW s \in nodes', NEW t \in nodes', Wanted(s, stored'[s], t)
               PROVE  \/ <<s, t>> \in edges' \/ s \in unsure' \/ t \in unsure'
                      \/ \E u \in Callers : writer'[u].pc = "edges" /\ <<s, t>> \in writer'[u].todo
    BY DEF LinkedUnlessDisturbed, Wanted
  <2>0. s # t /\ s \in Doc /\ t \in Doc
    BY DEF Wanted, nodes, In
  <2>1. ASSUME s \in nodes, t \in nodes, stored'[s] = stored[s], {s, t} \cap (unsure \ unsure') = {}
        PROVE  \/ <<s, t>> \in edges' \/ s \in unsure' \/ t \in unsure'
               \/ \E u \in Callers : writer'[u].pc = "edges" /\ <<s, t>> \in writer'[u].todo
    <3>1. \/ <<s, t>> \in edges \/ s \in unsure \/ t \in unsure
          \/ \E u \in Callers : writer[u].pc = "edges" /\ <<s, t>> \in writer[u].todo
      BY <2>1 DEF Inv, LinkedUnlessDisturbed, Wanted
    <3>2. \A u \in Callers : writer[u].pc = "edges" => writer'[u] = writer[u]
      <4>1. \A u \in Callers : u \in Writers
        BY DEF Writers
      <4> QED BY <1>8, <4>1
    <3> QED BY <1>5, <2>1, <3>1, <3>2
  <2>2. CASE s # d /\ t # d
    BY <1>3, <1>4, <2>0, <2>1, <2>2
  <2>3. CASE d \in {s, t} /\ (o.disturbed \/ (o.pc = "batch" /\ stored[d] # o.version))
    BY <1>3, <2>3
  <2>4. CASE ~o.disturbed /\ o.pc = "batch" /\ stored[d] = o.version
    BY <1>3, <1>4, <2>1, <2>4
  <2>5. CASE d \in {s, t} /\ ~o.disturbed /\ o.pc # "batch"
    <3>1. <<s, t>> \in edges \cup o.todo
      <4>1. MissingKnown(o) /\ o.pc \in {"entity", "write"}
        BY <2>5 DEF Inv, WritersOK
      <4>2. s # t
        BY DEF Wanted
      <4>3. CASE s = d
        <5>1. t \in nodes \ {d} /\ Wanted(d, o.version, t)
          BY <1>4, <4>2, <4>3
        <5> QED BY <2>5, <4>1, <4>3, <5>1 DEF MissingKnown
      <4>4. CASE t = d
        <5>1. s \in nodes \ {d} /\ Wanted(s, stored[s], d)
          BY <1>4, <2>0, <4>2, <4>4
        <5> QED BY <2>5, <4>1, <4>4, <5>1 DEF MissingKnown
      <4> QED BY <2>5, <4>3, <4>4
    <3>2. CASE <<s, t>> \in edges
      BY <1>5, <3>2
    <3>3. CASE <<s, t>> \in o.todo /\ x = Idle /\ edges' = UpsertRelationships(o.todo, stored')
      <4>1. stored'[s] # 0 /\ stored'[t] # 0
        BY DEF nodes, In
      <4> QED BY <3>3, <4>1 DEF UpsertRelationships
    <3>4. CASE <<s, t>> \in o.todo /\ w \in Callers /\ x = IF o.todo = {} THEN Idle ELSE [o EXCEPT !.pc = "edges"]
      <4>1. x = [o EXCEPT !.pc = "edges"]
        BY <3>4
      <4>2. x.pc = "edges" /\ x.todo = o.todo
        BY <1>1, <4>1 DEF Writing
      <4> QED BY <1>7, <3>4, <4>2
    <3> QED BY <3>1, <3>2, <3>3, <3>4
  <2> QED BY <2>2, <2>3, <2>4, <2>5
<1> QED BY <1>11, <1>12, <1>13, <1>14, <1>15, <1>16 DEF Inv

LEMMA WriteEntityStep ==
    ASSUME Inv, NEW w \in Callers, WriteEntity(w), UNCHANGED sourceVars PROVE Inv'
<1> DEFINE x == IF writer[w].todo = {} THEN Idle ELSE [writer[w] EXCEPT !.pc = "edges"]
<1>1. w \in Writers /\ writer[w].pc = "entity" /\ Upserted(w, x) /\ edges' = edges
  BY DEF WriteEntity, Writers
<1>2. writer[w] \in Writing
  BY <1>1, WriterFacts
<1>3. x \in Record
  BY <1>2 DEF Writing, Record
<1> QED BY <1>1, <1>3, Upserts DEF WriteEntity

LEMMA WriteBatchStep == ASSUME Inv, WriteBatch, UNCHANGED sourceVars PROVE Inv'
<1>1. Consumer \in Writers /\ Upserted(Consumer, Idle) /\ writer[Consumer].pc \in {"write", "batch"}
      /\ edges' = UpsertRelationships(writer[Consumer].todo, stored')
  BY DEF WriteBatch, Writers
<1> QED BY <1>1, IdleIsFine, Upserts DEF WriteBatch

LEMMA WriteEdgeStep ==
    ASSUME Inv, NEW w \in Callers, WriteEdge(w), UNCHANGED sourceVars PROVE Inv'
<1> DEFINE o == writer[w]
<1>1. w \in Writers /\ o.pc = "edges" /\ o \in Writing /\ o.version # 0
  BY WriterFacts DEF WriteEdge, Writers
<1>2. PICK e \in o.todo :
        /\ edges' = UpsertRelationships({e}, stored)
        /\ writer' = [writer EXCEPT ![w] = IF @.todo = {e} THEN Idle
                                          ELSE [@ EXCEPT !.todo = writer[w].todo \ {e}]]
  BY DEF WriteEdge
<1> DEFINE y == [o EXCEPT !.todo = o.todo \ {e}]
           x == IF o.todo = {e} THEN Idle ELSE y
<1>3. writer \in [Writers -> Record] /\ edges \subseteq Doc \X Doc /\ e \in Doc \X Doc
  BY <1>1 DEF Inv, TypeOK, GraphTypeOK, Record, Writing
<1>4. writer' = [writer EXCEPT ![w] = x]
  BY <1>2
<1>5. y \in Writing /\ y.pc = "edges" /\ y.doc = o.doc /\ y.version = o.version /\ y.todo = o.todo \ {e}
  BY <1>1 DEF Writing
<1> HIDE DEF y
<1>6. x \in Record /\ (x = Idle \/ x = y) /\ (x = Idle => o.todo = {e} /\ x.pc = "idle") /\ (x # Idle => x = y)
  BY <1>5 DEF Record, Idle
<1> HIDE DEF x
<1>7. \A u \in Writers : writer'[u] = IF u = w THEN x ELSE writer[u]
  BY <1>3, <1>4
<1>8. nodes' = nodes /\ edges \subseteq edges' /\ edges' \subseteq Doc \X Doc
      /\ (\A a \in edges' : a \in edges \/ (a[1] \in nodes /\ a[2] \in nodes))
      /\ (e[1] \in nodes /\ e[2] \in nodes => e \in edges')
  BY <1>2, <1>3 DEF UpsertRelationships, nodes, In, WriteEdge
<1>9. UNCHANGED <<hooks, stream, appended, poller, cursor>> /\ UNCHANGED <<latest, stored, queue, failures, deletes, unsure>>
  BY DEF sourceVars, WriteEdge
<1>10. TypeOK'
  BY <1>3, <1>4, <1>6, <1>8, <1>9 DEF Inv, TypeOK, GraphTypeOK, Record
<1>11. VersionsPublished' /\ PollerOK'
  BY <1>1, <1>5, <1>6, <1>7, <1>9 DEF Inv, VersionsPublished, PollerOK
<1>12. NoDanglingEdge'
  BY <1>8 DEF Inv, NoDanglingEdge
<1>13. WritersOK'
  <2> SUFFICES ASSUME NEW u \in Writers
               PROVE  CorpusKnown(writer[u])' /\ MissingKnown(writer[u])' /\ OwnEdgesOnly(writer[u])'
    BY DEF WritersOK
  <2>1. CASE u = w
    <3>1. OwnEdgesOnly(o)
      BY <1>1 DEF Inv, WritersOK
    <3> QED BY <1>1, <1>5, <1>6, <1>7, <2>1, <3>1 DEF CorpusKnown, MissingKnown, OwnEdgesOnly
  <2>2. CASE u # w
    BY <1>7, <1>8, <1>9, <2>2 DEF Inv, WritersOK, CorpusKnown, MissingKnown, OwnEdgesOnly, Wanted
  <2> QED BY <2>1, <2>2
<1>14. LinkedUnlessDisturbed'
  <2> SUFFICES ASSUME NEW s \in nodes, NEW t \in nodes, Wanted(s, stored[s], t)
               PROVE  \/ <<s, t>> \in edges' \/ s \in unsure \/ t \in unsure
                      \/ \E u \in Callers : writer'[u].pc = "edges" /\ <<s, t>> \in writer'[u].todo
    BY <1>8, <1>9 DEF LinkedUnlessDisturbed, Wanted
  <2>1. \/ <<s, t>> \in edges \/ s \in unsure \/ t \in unsure
        \/ \E u \in Callers : writer[u].pc = "edges" /\ <<s, t>> \in writer[u].todo
    BY DEF Inv, LinkedUnlessDisturbed, Wanted
  <2>2. ASSUME NEW u \in Callers, writer[u].pc = "edges", <<s, t>> \in writer[u].todo
        PROVE  <<s, t>> \in edges' \/ (writer'[u].pc = "edges" /\ <<s, t>> \in writer'[u].todo)
    <3>0. u \in Writers
      BY DEF Writers
    <3>1. CASE e = <<s, t>>
      BY <1>8, <3>1
    <3>2. CASE e # <<s, t>> /\ u = w
      BY <1>5, <1>6, <1>7, <2>2, <3>0, <3>2
    <3>3. CASE u # w
      BY <1>7, <2>2, <3>0, <3>3
    <3> QED BY <3>1, <3>2, <3>3
  <2> QED BY <1>8, <2>1, <2>2
<1> QED BY <1>10, <1>11, <1>12, <1>13, <1>14 DEF Inv

LEMMA DeleteStep ==
    ASSUME Inv, NEW d \in Doc, Delete(d), UNCHANGED sourceVars PROVE Inv'
<1>1. writer \in [Writers -> Record] /\ stored \in [Doc -> Version] /\ edges \subseteq Doc \X Doc
  BY DEF Inv, TypeOK, GraphTypeOK, Record
<1>2. /\ stored' = [stored EXCEPT ![d] = 0] /\ edges' = {e \in edges : d \notin {e[1], e[2]}}
      /\ writer' = Disturbs(Writers, writer) /\ deletes' = deletes + 1 /\ deletes < MaxDeletes
      /\ UNCHANGED <<latest, queue, failures, unsure>> /\ UNCHANGED <<hooks, stream, appended, poller, cursor>>
  BY DEF Delete, sourceVars
<1>3. nodes' = nodes \ {d} /\ nodes \subseteq Doc
  BY <1>1, <1>2 DEF nodes, In
<1>4. writer' \in [Writers -> Record]
  BY <1>1, <1>2, DisturbedFacts
<1>5. ASSUME NEW u \in Writers
      PROVE  /\ \/ writer'[u] = writer[u]
                \/ writer[u] \in Writing /\ writer'[u] = [writer[u] EXCEPT !.disturbed = TRUE]
                   /\ writer[u].pc # "edges"
             /\ writer[u].pc \in {"rels", "entity", "write"} => writer'[u].disturbed
  <2>1. Writers \in SUBSET Writers
    OBVIOUS
  <2>2. LET x == writer[u]
            y == Disturbs(Writers, writer)[u]
        IN /\ y = x \/ (x \in Writing /\ y = [x EXCEPT !.disturbed = TRUE] /\ x.pc # "edges")
           /\ u \in Writers /\ x.pc \in {"rels", "entity", "write"} => y.disturbed
    BY <1>1, <2>1, DisturbedFacts, Zenon
  <2> QED BY <1>2, <2>2
<1>6. ASSUME NEW u \in Writers
      PROVE  /\ writer'[u].pc = writer[u].pc
             /\ writer'[u].pc \in {"rels", "entity", "write"} => writer'[u].disturbed
             /\ writer[u].pc = "edges" => writer'[u] = writer[u]
             /\ writer'[u] # Idle => writer[u] # Idle /\ writer'[u].version = writer[u].version
             /\ writer'[u].pc = "entity" => writer'[u].doc = writer[u].doc /\ writer'[u].todo = writer[u].todo
  <2>1. CASE writer'[u] = writer[u]
    BY <1>5, <2>1
  <2>2. CASE /\ writer[u] \in Writing /\ writer'[u] = [writer[u] EXCEPT !.disturbed = TRUE]
             /\ writer[u].pc # "edges"
    <3>1. /\ writer'[u].pc = writer[u].pc /\ writer'[u].version = writer[u].version
          /\ writer'[u].doc = writer[u].doc /\ writer'[u].disturbed /\ writer'[u].todo = writer[u].todo
      BY <2>2 DEF Writing
    <3>2. writer[u] # Idle
      BY <2>2 DEF Writing, Idle
    <3> QED BY <2>2, <3>1, <3>2
  <2> QED BY <1>5, <2>1, <2>2
<1>7. TypeOK'
  <2>1. stored' \in [Doc -> Version] /\ edges' \subseteq Doc \X Doc
    BY <1>1, <1>2 DEF Version
  <2> QED BY <1>2, <1>4, <2>1 DEF Inv, TypeOK, GraphTypeOK, Record
<1>8. VersionsPublished' /\ PollerOK'
  BY <1>2, <1>6 DEF Inv, VersionsPublished, PollerOK
<1>9. NoDanglingEdge'
  BY <1>2, <1>3 DEF Inv, NoDanglingEdge
<1>10. WritersOK'
  <2> SUFFICES ASSUME NEW u \in Writers
               PROVE  CorpusKnown(writer[u])' /\ MissingKnown(writer[u])' /\ OwnEdgesOnly(writer[u])'
    BY DEF WritersOK
  <2>1. CorpusKnown(writer[u])' /\ MissingKnown(writer[u])'
    BY <1>6 DEF CorpusKnown, MissingKnown
  <2>2. OwnEdgesOnly(writer[u])
    BY DEF Inv, WritersOK
  <2> QED BY <1>6, <2>1, <2>2 DEF OwnEdgesOnly
<1>11. LinkedUnlessDisturbed'
  <2> SUFFICES ASSUME NEW s \in nodes', NEW t \in nodes', Wanted(s, stored'[s], t)
               PROVE  \/ <<s, t>> \in edges' \/ s \in unsure' \/ t \in unsure'
                      \/ \E u \in Callers : writer'[u].pc = "edges" /\ <<s, t>> \in writer'[u].todo
    BY DEF LinkedUnlessDisturbed, Wanted
  <2>1. s # d /\ t # d /\ s \in nodes /\ t \in nodes /\ stored'[s] = stored[s]
    BY <1>1, <1>2, <1>3
  <2>2. \/ <<s, t>> \in edges \/ s \in unsure \/ t \in unsure
        \/ \E u \in Callers : writer[u].pc = "edges" /\ <<s, t>> \in writer[u].todo
    BY <2>1 DEF Inv, LinkedUnlessDisturbed, Wanted
  <2>3. <<s, t>> \in edges => <<s, t>> \in edges'
    BY <1>2, <2>1
  <2>4. \A u \in Callers : u \in Writers
    BY DEF Writers
  <2> QED BY <1>2, <1>6, <2>2, <2>3, <2>4
<1> QED BY <1>7, <1>8, <1>9, <1>10, <1>11 DEF Inv

LEMMA GraphStep == ASSUME Inv, Graph PROVE Inv'
<1>1. UNCHANGED sourceVars
  BY DEF Graph
<1>2. ASSUME NEW w \in Callers PROVE w \in Writers
  BY DEF Writers
<1>3. Consumer \in Writers
  BY DEF Writers
<1>4. CASE \E d \in Doc : Delete(d)
  BY <1>1, <1>4, DeleteStep
<1>5. CASE \E w \in Callers, d \in Doc : Ingest(w, d)
  BY <1>1, <1>5, IngestStep
<1>6. CASE TakeJob \/ Extracted \/ AugmentCrossCorpus \/ SnapshotFails \/ WriteBatch
  BY <1>1, <1>3, <1>6, TakeJobStep, ExtractedStep, ReadEntitiesStep, ReadRelationshipsStep, SnapshotFailsStep,
     WriteBatchStep DEF AugmentCrossCorpus
<1>7. CASE \E w \in Callers : ReadEntities(w) \/ ReadRelationships(w) \/ WriteEntity(w) \/ WriteEdge(w)
  BY <1>1, <1>2, <1>7, ReadEntitiesStep, ReadRelationshipsStep, WriteEntityStep, WriteEdgeStep
<1>8. CASE \E w \in Writers : Raises(w)
  BY <1>1, <1>8, RaisesStep
<1> QED BY <1>4, <1>5, <1>6, <1>7, <1>8 DEF Graph, GraphNext

(***************************************************************************)
(* The sources.                                                            *)
(***************************************************************************)
\* No step of a source touches the graph or a writer of it.
LEMMA GraphUntouched ==
    ASSUME Inv, UNCHANGED <<stored, edges, writer, unsure>>
    PROVE  NoDanglingEdge' /\ LinkedUnlessDisturbed' /\ WritersOK'
<1>1. nodes' = nodes
  BY DEF nodes
<1>2. NoDanglingEdge' /\ LinkedUnlessDisturbed'
  BY <1>1 DEF Inv, NoDanglingEdge, LinkedUnlessDisturbed
<1>3. WritersOK'
  BY <1>1 DEF Inv, WritersOK, CorpusKnown, MissingKnown, OwnEdgesOnly
<1> QED BY <1>2, <1>3

\* A job put on a queue with room for it.
LEMMA Enqueues ==
    ASSUME Inv, NEW job \in Job, job.version # 0,
           queue' = queue \/ (Room /\ queue' = Append(queue, job))
    PROVE  queue' \in Seq(Job) /\ Len(queue') <= MaxSize /\ \A i \in 1..Len(queue') : queue'[i].version # 0
<1>1. queue \in Seq(Job) /\ Len(queue) <= MaxSize /\ \A i \in 1..Len(queue) : queue[i].version # 0
  BY QueueFacts
<1>2. /\ Append(queue, job) \in Seq(Job) /\ Len(Append(queue, job)) = Len(queue) + 1
      /\ Append(queue, job)[Len(queue) + 1] = job /\ \A i \in 1..Len(queue) : Append(queue, job)[i] = queue[i]
  BY <1>1
<1>3. ASSUME Room, queue' = Append(queue, job), NEW i \in 1..Len(queue') PROVE queue'[i].version # 0
  <2>1. i \in 1..Len(queue) \/ i = Len(queue) + 1
    BY <1>1, <1>2, <1>3
  <2> QED BY <1>1, <1>2, <1>3, <2>1
<1>4. CASE queue' = queue
  BY <1>1, <1>4
<1>5. CASE Room /\ queue' = Append(queue, job)
  <2>1. \A i \in 1..Len(queue') : queue'[i].version # 0
    BY <1>3, <1>5
  <2>2. Len(queue) \in Nat /\ Len(queue') <= MaxSize
    BY <1>1, <1>2, <1>5 DEF Room
  <2> QED BY <1>2, <1>5, <2>1, <2>2
<1> QED BY <1>4, <1>5

LEMMA SourceTypes ==
    ASSUME Inv
    PROVE  /\ latest \in [Doc -> Version] /\ hooks \subseteq Event /\ stream \in Seq(Uri)
           /\ Len(stream) \in Nat /\ Len(stream) <= appended /\ appended \in 0..MaxStream
           /\ poller \in {Off, Asleep} \cup Reading /\ cursor \subseteq Uri
           /\ failures \in 0..MaxFailures
BY DEF Inv, TypeOK, GraphTypeOK, PollerOK

\* A step of a source, from what it leaves behind.
LEMMA SourceMoves ==
    ASSUME Inv, latest' \in [Doc -> Version],
           hooks' \subseteq Event, \A h \in hooks' : h.version # 0,
           queue' \in Seq(Job), Len(queue') <= MaxSize, \A i \in 1..Len(queue') : queue'[i].version # 0,
           failures' \in 0..MaxFailures,
           stream' \in Seq(Uri), Len(stream') <= appended', appended' \in 0..MaxStream,
           poller' \in {Off, Asleep} \cup Reading, cursor' \subseteq Uri,
           poller' \in Reading /\ poller'.pc \in {"read", "extract"} => poller'.left # <<>>,
           UNCHANGED <<stored, edges, writer, deletes, unsure>>
    PROVE  Inv'
<1>1. TypeOK'
  <2>1. Len(stream') <= MaxStream
    <3>1. Len(stream') \in Nat
      OBVIOUS
    <3> QED BY <3>1
  <2> QED BY <2>1 DEF Inv, TypeOK, GraphTypeOK
<1>2. VersionsPublished' /\ PollerOK'
  BY DEF Inv, VersionsPublished, PollerOK
<1> QED BY <1>1, <1>2, GraphUntouched DEF Inv

LEMMA PublishStep == ASSUME Inv, NEW d \in Doc, Publish(d) PROVE Inv'
<1>1. latest[d] \in Nat /\ latest[d] < MaxVersion /\ latest' = [latest EXCEPT ![d] = @ + 1]
      /\ UNCHANGED <<queue, failures, stream, appended, poller, cursor>>
      /\ UNCHANGED <<stored, edges, writer, deletes, unsure>>
  BY SourceTypes DEF Publish, Version
<1>2. latest' \in [Doc -> Version]
  BY <1>1, SourceTypes DEF Version
<1>3. PICK signed \in BOOLEAN : hooks' = hooks \cup {[doc |-> d, version |-> latest[d] + 1, signed |-> signed]}
  BY DEF Publish
<1>4. hooks' \subseteq Event /\ \A h \in hooks' : h.version # 0
  BY <1>1, <1>3, SourceTypes DEF Event, Version, Inv, VersionsPublished
<1> QED BY <1>1, <1>2, <1>4, SourceTypes, QueueFacts, SourceMoves DEF Inv, VersionsPublished, PollerOK

LEMMA AppendStep == ASSUME Inv, NEW u \in Uri, AppendToStream(u) PROVE Inv'
<1>1. /\ UNCHANGED <<latest, queue, failures, hooks, poller, cursor>> /\ UNCHANGED <<stored, edges, writer, deletes, unsure>>
      /\ appended' = appended + 1 /\ stream' = Append(stream, u) /\ appended < MaxStream
  BY DEF AppendToStream, graphVars
<1>2. stream' \in Seq(Uri) /\ Len(stream') <= appended' /\ appended' \in 0..MaxStream
  BY <1>1, SourceTypes
<1> QED BY <1>1, <1>2, SourceTypes, QueueFacts, SourceMoves DEF Inv, VersionsPublished, PollerOK

\* A webhook's text, or nothing, on the queue; the event may be called again.
LEMMA HookStep ==
    ASSUME Inv, NEW h \in hooks, Webhook(h) \/ AcknowledgementLost(h) PROVE Inv'
<1>1. h \in Event /\ h.version # 0
  BY SourceTypes DEF Inv, VersionsPublished
<1>2. Extraction(h) \in Job /\ Extraction(h).version # 0
  BY <1>1 DEF Extraction, Event, Job
<1>3. queue' = queue \/ (Room /\ queue' = Append(queue, Extraction(h)))
  BY DEF Webhook, AcknowledgementLost, Enqueue
<1>4. queue' \in Seq(Job) /\ Len(queue') <= MaxSize /\ \A i \in 1..Len(queue') : queue'[i].version # 0
  BY <1>2, <1>3, Enqueues
<1>5. hooks' \subseteq hooks /\ failures' \in 0..MaxFailures
  BY SourceTypes DEF Webhook, AcknowledgementLost, sourceVars
<1>6. UNCHANGED <<latest, stored, edges, writer, deletes, unsure, stream, appended, poller, cursor>>
  BY DEF Webhook, AcknowledgementLost, sourceVars
<1> QED BY <1>4, <1>5, <1>6, SourceTypes, SourceMoves DEF Inv, VersionsPublished, PollerOK

(***************************************************************************)
(* The poller.                                                             *)
(***************************************************************************)
\* Where the poller goes on.
LEMMA AtFacts ==
    ASSUME NEW left \in Seq(Uri), NEW tail \in BOOLEAN
    PROVE  LET p == At(left, tail)
           IN /\ p \in {Off, Asleep} \cup Reading
              /\ p \in Reading /\ p.pc \in {"read", "extract"} => p.left # <<>>
              /\ p \in Reading => p.pc # "extract"
<1>1. NoCorpus \in Corpus
  BY NoCorpusIsOne
<1>2. CASE left # <<>>
  BY <1>1, <1>2 DEF At, Reading
<1>3. CASE left = <<>> /\ tail
  <2>1. At(left, tail) = Asleep /\ Asleep.pc = "asleep"
    BY <1>3 DEF At, Asleep
  <2> QED BY <2>1 DEF Reading
<1>4. CASE left = <<>> /\ ~tail
  <2>1. <<>> \in Seq(Uri)
    OBVIOUS
  <2> QED BY <1>1, <1>4, <2>1 DEF At, Reading
<1> QED BY <1>2, <1>3, <1>4

LEMMA PlaceFacts ==
    ASSUME Inv
    PROVE  /\ Off.pc = "off" /\ Asleep.pc = "asleep" /\ Off \notin Reading /\ Asleep \notin Reading
           /\ poller \in Reading =>
                 poller.left \in Seq(Uri) /\ poller.tail \in BOOLEAN /\ poller.items \in Corpus
           /\ poller \in Reading /\ poller.pc \in {"read", "extract"} =>
                 poller.left # <<>> /\ Head(poller.left) \in Uri /\ Tail(poller.left) \in Seq(Uri)
<1>1. Off.pc = "off" /\ Asleep.pc = "asleep"
  BY DEF Off, Asleep
<1>2. Off \notin Reading /\ Asleep \notin Reading
  BY <1>1 DEF Reading
<1>3. ASSUME poller \in Reading PROVE poller.left \in Seq(Uri) /\ poller.tail \in BOOLEAN /\ poller.items \in Corpus
  BY <1>3 DEF Reading
<1>4. ASSUME poller \in Reading, poller.pc \in {"read", "extract"}
      PROVE  poller.left # <<>> /\ Head(poller.left) \in Uri /\ Tail(poller.left) \in Seq(Uri)
  <2>1. poller.left # <<>> /\ poller.left \in Seq(Uri)
    BY <1>3, <1>4 DEF Inv, PollerOK
  <2> QED BY <2>1
<1> QED BY <1>1, <1>2, <1>3, <1>4

\* The poller moves, and leaves of the stream no more than was there.
LEMMA PollerMoves ==
    ASSUME Inv,
           \/ poller' \in {Off, Asleep}
           \/ \E left \in Seq(Uri), tail \in BOOLEAN : poller' = At(left, tail)
           \/ poller' \in Reading /\ poller'.pc = "extract" /\ poller'.left # <<>>,
           queue' \in Seq(Job), Len(queue') <= MaxSize, \A i \in 1..Len(queue') : queue'[i].version # 0,
           failures' \in 0..MaxFailures, cursor' \subseteq Uri, stream' \in Seq(Uri),
           Len(stream') <= Len(stream),
           UNCHANGED <<latest, hooks, appended, stored, edges, writer, deletes, unsure>>
    PROVE  Inv'
<1>1. /\ poller' \in {Off, Asleep} \cup Reading
      /\ poller' \in Reading /\ poller'.pc \in {"read", "extract"} => poller'.left # <<>>
  <2>1. CASE poller' \in {Off, Asleep}
    BY <2>1, PlaceFacts
  <2>2. CASE \E left \in Seq(Uri), tail \in BOOLEAN : poller' = At(left, tail)
    BY <2>2, AtFacts
  <2>3. CASE poller' \in Reading /\ poller'.pc = "extract" /\ poller'.left # <<>>
    BY <2>3
  <2> QED BY <2>1, <2>2, <2>3
<1>2. Len(stream') <= appended'
  <2>1. Len(stream') \in Nat
    OBVIOUS
  <2> QED BY <2>1, SourceTypes
<1> QED BY <1>1, <1>2, SourceTypes, SourceMoves DEF Inv, VersionsPublished

LEMMA TrimmedFacts == ASSUME Inv PROVE Trimmed \in Seq(Uri) /\ Len(Trimmed) <= Len(stream)
<1>1. stream \in Seq(Uri) /\ Len(stream) \in Nat /\ Keep \in Nat
  BY SourceTypes
<1>2. CASE Len(stream) > Keep
  <2>1. Trimmed = SubSeq(stream, Len(stream) - Keep + 1, Len(stream))
    BY <1>2 DEF Trimmed
  <2>2. Len(stream) - Keep + 1 \in 1..Len(stream) + 1
    BY <1>1, <1>2
  <2>3. SubSeq(stream, Len(stream) - Keep + 1, Len(stream)) \in Seq(Uri)
        /\ Len(SubSeq(stream, Len(stream) - Keep + 1, Len(stream))) = Keep
    BY <1>1, <1>2, <2>2
  <2> QED BY <1>1, <1>2, <2>1, <2>3
<1>3. CASE ~(Len(stream) > Keep)
  BY <1>1, <1>3 DEF Trimmed
<1> QED BY <1>2, <1>3

\* What it proceeds to.
LEMMA ProceedsFacts ==
    ASSUME Inv, poller \in Reading, poller.pc \in {"read", "extract"}, Proceeds
    PROVE  /\ \E left \in Seq(Uri), tail \in BOOLEAN : poller' = At(left, tail)
           /\ stream' \in Seq(Uri) /\ Len(stream') <= Len(stream)
<1>1. Tail(poller.left) \in Seq(Uri) /\ poller.tail \in BOOLEAN
  BY PlaceFacts
<1>2. poller' = At(Tail(poller.left), poller.tail)
  BY DEF Proceeds, Poller
<1>3. stream' \in {stream, Trimmed} /\ stream \in Seq(Uri) /\ Len(stream) <= Len(stream)
  BY SourceTypes DEF Proceeds
<1> QED BY <1>1, <1>2, <1>3, TrimmedFacts

LEMMA ReadResourceStep == ASSUME Inv, ReadResource PROVE Inv'
<1> DEFINE u == Head(poller.left)
<1>1. PICK docs \in SUBSET Doc : Answered(docs)
  BY DEF ReadResource
<1>2. /\ poller \in Reading /\ poller.pc = "read" /\ UNCHANGED <<queue, failures>>
      /\ UNCHANGED <<latest, hooks, appended, stored, edges, writer, deletes, unsure>>
  BY <1>1 DEF Answered, OthersKeep
<1>3. u \in Uri /\ cursor \subseteq Uri /\ cursor' \in {cursor, cursor \cup {u}}
  BY <1>1, <1>2, PlaceFacts, SourceTypes DEF Answered
<1>4. CASE Proceeds
  BY <1>2, <1>3, <1>4, ProceedsFacts, QueueFacts, PollerMoves
<1>5. CASE poller' = [poller EXCEPT !.pc = "extract", !.items = Found(docs \cap Long)] /\ stream' = stream
  <2>1. Found(docs \cap Long) \in Corpus
    BY SourceTypes DEF Found, Corpus, Version
  <2>2. poller' \in Reading /\ poller'.pc = "extract" /\ poller'.left = poller.left
    BY <1>2, <1>5, <2>1 DEF Reading
  <2>3. poller.left # <<>> /\ stream \in Seq(Uri) /\ Len(stream) <= Len(stream)
    BY <1>2, PlaceFacts, SourceTypes
  <2> QED BY <1>2, <1>3, <1>5, <2>2, <2>3, QueueFacts, PollerMoves
<1> QED BY <1>1, <1>4, <1>5 DEF Answered, Poller

\* An item is done with, whatever the queue has of it.
LEMMA ItemDoneStep ==
    ASSUME Inv, poller \in Reading, poller.pc = "extract", NEW d \in Doc, ItemDone(d),
           queue' \in Seq(Job), Len(queue') <= MaxSize, \A i \in 1..Len(queue') : queue'[i].version # 0,
           failures' \in 0..MaxFailures,
           UNCHANGED <<latest, hooks, appended, stored, edges, writer, deletes, unsure>>
    PROVE  Inv'
<1> DEFINE left == [poller.items EXCEPT ![d] = 0]
<1>1. poller.items \in Corpus /\ poller.left # <<>> /\ Head(poller.left) \in Uri /\ cursor \subseteq Uri
      /\ stream \in Seq(Uri) /\ Len(stream) <= Len(stream)
  BY PlaceFacts, SourceTypes
<1>2. left \in Corpus
  BY <1>1 DEF Corpus, Version
<1>3. \/ poller' = [poller EXCEPT !.items = left] /\ UNCHANGED <<stream, cursor>>
      \/ Proceeds /\ cursor' = cursor \cup {Head(poller.left)}
  BY DEF ItemDone, Poller
<1> HIDE DEF left
<1>4. CASE poller' = [poller EXCEPT !.items = left] /\ UNCHANGED <<stream, cursor>>
  <2>1. poller' \in Reading /\ poller'.pc = "extract" /\ poller'.left = poller.left
    BY <1>2, <1>4 DEF Reading
  <2> QED BY <1>1, <1>4, <2>1, PollerMoves
<1>5. CASE Proceeds /\ cursor' = cursor \cup {Head(poller.left)}
  BY <1>1, <1>5, ProceedsFacts, PollerMoves
<1> QED BY <1>3, <1>4, <1>5

LEMMA ExtractItemStep == ASSUME Inv, ExtractItem PROVE Inv'
<1>1. /\ poller \in Reading /\ poller.pc = "extract" /\ UNCHANGED failures
      /\ UNCHANGED <<latest, hooks, appended, stored, edges, writer, deletes, unsure>>
  BY DEF ExtractItem, OthersKeep
<1>2. PICK d \in In(poller.items) :
        /\ IF Room THEN Enqueue(SourceArtifact(d, poller.items[d])) ELSE UNCHANGED queue
        /\ ItemDone(d)
  BY DEF ExtractItem
<1> DEFINE job == SourceArtifact(d, poller.items[d])
<1>3. d \in Doc /\ poller.items[d] \in Version /\ poller.items[d] # 0
  BY <1>1, PlaceFacts DEF In, Corpus
<1>4. job \in Job /\ job.version # 0
  BY <1>3 DEF SourceArtifact, Job
<1>5. queue' = queue \/ (Room /\ queue' = Append(queue, job))
  BY <1>2 DEF Enqueue
<1> HIDE DEF job
<1>6. queue' \in Seq(Job) /\ Len(queue') <= MaxSize /\ \A i \in 1..Len(queue') : queue'[i].version # 0
  BY <1>4, <1>5, Enqueues
<1> QED BY <1>1, <1>2, <1>3, <1>6, QueueFacts, ItemDoneStep

LEMMA ItemFailsStep == ASSUME Inv, ItemFails PROVE Inv'
<1>1. /\ poller \in Reading /\ poller.pc = "extract" /\ UNCHANGED queue
      /\ UNCHANGED <<latest, hooks, appended, stored, edges, writer, deletes, unsure>>
      /\ failures' = failures + 1 /\ failures < MaxFailures
  BY DEF ItemFails, OthersKeep
<1>2. PICK d \in In(poller.items) : ItemDone(d)
  BY DEF ItemFails
<1>3. d \in Doc /\ failures' \in 0..MaxFailures
  BY <1>1, SourceTypes DEF In
<1> QED BY <1>1, <1>2, <1>3, QueueFacts, ItemDoneStep

LEMMA StreamStep ==
    ASSUME Inv, Start \/ Stop \/ Wake \/ ReadStream \/ StreamFails PROVE Inv'
<1>1. /\ UNCHANGED <<queue, stream, cursor>>
      /\ UNCHANGED <<latest, hooks, appended, stored, edges, writer, deletes, unsure>>
  BY DEF Start, Stop, Wake, ReadStream, StreamFails, graphVars, OthersKeep
<1>2. failures' \in 0..MaxFailures
  <2>1. failures' = failures \/ (failures < MaxFailures /\ failures' = failures + 1)
    BY DEF Start, Stop, Wake, ReadStream, StreamFails, graphVars
  <2> QED BY <2>1, SourceTypes
<1>3. \/ poller' \in {Off, Asleep}
      \/ \E left \in Seq(Uri), tail \in BOOLEAN : poller' = At(left, tail)
  <2>1. CASE Start \/ Stop \/ StreamFails
    BY <2>1 DEF Start, Stop, StreamFails, Poller
  <2>2. CASE Wake
    <3>1. Listed \in Seq(Uri) /\ poller' = At(Listed, FALSE)
      BY <2>2 DEF Wake, Poller
    <3> QED BY <3>1
  <2>3. CASE ReadStream
    <3> DEFINE n == IF Len(stream) < Window THEN Len(stream) ELSE Window
    <3>1. stream \in Seq(Uri) /\ n \in Nat /\ n <= Len(stream)
      BY SourceTypes
    <3>2. SubSeq(stream, 1, n) \in Seq(Uri)
      BY <3>1
    <3>3. poller' = At(Tailed, TRUE)
      BY <2>3 DEF ReadStream, Poller
    <3> QED BY <3>2, <3>3 DEF Tailed
  <2> QED BY <2>1, <2>2, <2>3
<1>4. stream' \in Seq(Uri) /\ Len(stream') <= Len(stream) /\ cursor' \subseteq Uri
  BY <1>1, SourceTypes
<1> QED BY <1>1, <1>2, <1>3, <1>4, QueueFacts, PollerMoves

(***************************************************************************)
(* The theorem.                                                            *)
(***************************************************************************)
LEMMA InitHasInv == ASSUME Init PROVE Inv
<1> USE DEF Init, GraphInit
<1>1. nodes = {}
  BY DEF nodes, In
<1>2. <<>> \in Seq(Job) /\ <<>> \in Seq(Uri) /\ Len(queue) = 0 /\ Len(stream) = 0
  OBVIOUS
<1>3. TypeOK
  BY <1>2 DEF TypeOK, GraphTypeOK, Version
<1>4. VersionsPublished /\ PollerOK
  <2>1. Off \notin Reading
    <3>1. Off.pc = "off"
      BY DEF Off
    <3> QED BY <3>1 DEF Reading
  <2> QED BY <1>2, <2>1 DEF VersionsPublished, PollerOK
<1>5. NoDanglingEdge /\ LinkedUnlessDisturbed
  BY <1>1 DEF NoDanglingEdge, LinkedUnlessDisturbed
<1>6. WritersOK
  BY IdleIsFine DEF WritersOK
<1> QED BY <1>3, <1>4, <1>5, <1>6 DEF Inv

LEMMA StepKeepsInv == ASSUME Inv, [Next]_vars PROVE Inv'
<1>1. CASE Graph
  BY <1>1, GraphStep
<1>2. CASE (\E d \in Doc : Publish(d)) \/ \E u \in Uri : AppendToStream(u)
  BY <1>2, PublishStep, AppendStep
<1>3. CASE \E h \in hooks : Webhook(h) \/ AcknowledgementLost(h)
  BY <1>3, HookStep
<1>4. CASE ReadResource \/ ExtractItem \/ ItemFails
  BY <1>4, ReadResourceStep, ExtractItemStep, ItemFailsStep
<1>5. CASE Start \/ Stop \/ Wake \/ ReadStream \/ StreamFails
  BY <1>5, StreamStep
<1>6. CASE UNCHANGED vars
  <2>1. UNCHANGED <<latest, queue, failures, hooks, stream, appended, poller, cursor>>
        /\ UNCHANGED <<stored, edges, writer, deletes, unsure>>
    BY <1>6 DEF vars, graphVars, sourceVars
  <2> QED BY <2>1, SourceTypes, QueueFacts, SourceMoves DEF Inv, VersionsPublished, PollerOK
<1> QED BY <1>1, <1>2, <1>3, <1>4, <1>5, <1>6 DEF Next

\* The inductive invariant.
THEOREM Invariance == Spec => []Inv
<1> QED BY InitHasInv, StepKeepsInv, PTL DEF Spec

\* However many calls of ingest_document, jobs of the consumer, batches of the poller
\* and deletions overlap, and however the texts change: no edge outlives its nodes, and
\* two documents of which one names the other in its stored text are linked, unless one
\* of them was last written on a corpus that had changed, by a call that broke off, or
\* by a batch that replaced its text.
THEOREM EdgesFollowTexts == Spec => []EdgesHold
<1>1. Inv => EdgesHold
  BY DEF Inv, EdgesHold
<1> QED BY <1>1, Invariance, PTL
=============================================================================
