------------------------------ MODULE Answers ------------------------------
(***************************************************************************)
(* What the synthesizer (aim/agents/nodes/synthesizer.py) works out about  *)
(* an answer: which sources its lines cite and where, how far it is to be  *)
(* trusted, in which order its evidence happened, which sources speak of   *)
(* one thing, and how sources found twice are ranked.  Percentages, and    *)
(* ten-thousandths for a product of two.                                   *)
(***************************************************************************)
EXTENDS Integers, Sequences, FiniteSets, Functions, SequencesExt

Lesser(a, b) == IF a < b THEN a ELSE b
Numbers(n) == [i \in 1..n |-> i]
\* sorted(): by a number, equals in their order.
Ascending(seq, number(_)) ==
    LET before(i, j) == number(seq[i]) < number(seq[j]) \/ (number(seq[i]) = number(seq[j]) /\ i < j)
        order == SortSeq(Numbers(Len(seq)), before)
    IN  SubSeq([k \in DOMAIN seq |-> seq[order[k]]], 1, Len(seq))

(***************************************************************************)
(* Citations.  A cited line is a text and the ids behind it; a text is a   *)
(* sequence, so that "x [1]" is the text <<"x", 1>>.                       *)
(***************************************************************************)
CitedBefore(lines, valid, i) ==
    Cardinality({j \in 1..(i - 1) : lines[j].text = lines[i].text /\ Range(lines[j].ids) \cap valid # {}})
CitationKey(lines, valid, i) ==
    LET n == CitedBefore(lines, valid, i) IN IF n = 0 THEN lines[i].text ELSE Append(lines[i].text, n)

\* Of two lines with one key the later stays.
ExtractCitationMap(lines, valid) ==
    LET cited == {i \in DOMAIN lines : Range(lines[i].ids) \cap valid # {}}
        key(i) == CitationKey(lines, valid, i)
        last(k) == CHOOSE i \in cited : key(i) = k /\ \A j \in cited : key(j) = k => j <= i
    IN  [k \in {key(i) : i \in cited} |-> Range(lines[last(k)].ids) \cap valid]

\* Every line that cites a source keeps its citation, however often it is said,
\* unless one line reads like the numbered repetition of another.
CitationsSurvive(lines, valid) ==
    (\A i \in DOMAIN lines : Len(lines[i].text) = 1) =>
        LET citations == ExtractCitationMap(lines, valid)
            count(ids) == Cardinality({k \in DOMAIN citations : citations[k] = ids})
        IN  \A i \in DOMAIN lines :
              LET ids == Range(lines[i].ids) \cap valid IN
              ids # {} => count(ids) = Cardinality({j \in DOMAIN lines : Range(lines[j].ids) \cap valid = ids})

(***************************************************************************)
(* Spans.  An answer is a sequence of words, blanks, line ends and tags.   *)
(***************************************************************************)
Blanks == {" ", "\n"}
Tag(x) == x \notin Blanks \cup {"word"}
Strip(text) ==
    LET inked == {i \in DOMAIN text : text[i] \notin Blanks} IN
    IF inked = {} THEN <<>>
    ELSE SubSeq(text, CHOOSE i \in inked : \A j \in inked : i <= j, CHOOSE i \in inked : \A j \in inked : j <= i)
LineStart(text) ==
    LET ends == {i \in DOMAIN text : text[i] = "\n"} IN
    IF ends = {} THEN 0 ELSE CHOOSE i \in ends : \A j \in ends : j <= i

WithSpan(valid, acc, x) ==
    LET text == Strip(SubSeq(acc.clean, LineStart(acc.clean) + 1, Len(acc.clean))) IN
    IF ~Tag(x) THEN [acc EXCEPT !.clean = Append(@, x)]
    ELSE IF x \in valid /\ text # <<>>
         THEN [acc EXCEPT !.spans = Append(@, [start |-> LineStart(acc.clean), end |-> Len(acc.clean), text |-> text])]
         ELSE acc
ComputeCitationSpans(answer, valid) ==
    LET tagged == FoldLeft(LAMBDA acc, x : WithSpan(valid, acc, x), [clean |-> <<>>, spans |-> <<>>], answer)
    IN  [clean |-> Strip(tagged.clean), spans |-> tagged.spans]

\* A span marks the sentence it quotes, in the text without tags, provided that
\* text does not begin with a blank: the offsets are taken before it is cut.
SpansQuote(answer, valid) ==
    LET text == SelectSeq(answer, LAMBDA x : ~Tag(x)) IN
    text # <<>> /\ text[1] \notin Blanks =>
        LET result == ComputeCitationSpans(answer, valid) IN
        \A i \in DOMAIN result.spans :
            LET span == result.spans[i] IN
            Strip(SubSeq(result.clean, span.start + 1, Lesser(span.end, Len(result.clean)))) = span.text

(***************************************************************************)
(* Confidence: the mean over the sources, as a fraction.                   *)
(***************************************************************************)
TypeWeight == [graph |-> 100, jira |-> 90, vector |-> 85, slack |-> 70, synthesis |-> 60]
UsageWeight(id, cited) == IF id \in cited THEN 5 ELSE 1
ComputeConfidence(sources, cited) ==
    LET weight(s) == TypeWeight[s.type] * UsageWeight(s.id, cited) IN
    [sum |-> FoldLeft(LAMBDA n, s : n + s.confidence * weight(s), 0, sources),
     of |-> FoldLeft(LAMBDA n, s : n + weight(s), 0, sources)]

\* To cite a source that is better than the answer so far never makes the
\* answer less certain, nor a worse one more so.
CitingCounts(sources, cited) ==
    \A i \in DOMAIN sources :
        LET before == ComputeConfidence(sources, cited)
            after == ComputeConfidence(sources, cited \cup {sources[i].id})
        IN  IF sources[i].confidence * before.of >= before.sum
            THEN after.sum * before.of >= before.sum * after.of
            ELSE after.sum * before.of <= before.sum * after.of

(***************************************************************************)
(* The temporal chain.  Sources are in the order of their dict; an event   *)
(* has a time, and the id of the graph entity it stands for, or none.      *)
(***************************************************************************)
NoNode == 0
TimeOf(sources, id) == (CHOOSE s \in Range(sources) : s.id = id).time
\* Of two sources for one entity the later counts.
SourceOf(sources, entity) ==
    LET mine == SelectSeq(sources, LAMBDA s : s.entity = entity) IN
    IF entity = NoNode \/ mine = <<>> THEN {} ELSE {Last(mine).id}

\* <<cause, effect>> for every edge between two sources.
CausalPairs(sources, rels) ==
    UNION {{p \in SourceOf(sources, IF r.type = "LED_TO" THEN r.src ELSE r.tgt)
               \X SourceOf(sources, IF r.type = "LED_TO" THEN r.tgt ELSE r.src) : p[1] # p[2]} :
           r \in {r \in rels : r.type \in {"CAUSED_BY", "SUPERSEDES", "LED_TO"}}}
Violating(sources, rels) ==
    {p \in CausalPairs(sources, rels) : TimeOf(sources, p[1]) > TimeOf(sources, p[2])}
CausalEdges(sources, rels) == CausalPairs(sources, rels) \ Violating(sources, rels)

ReleaseOnFirst(sources, edges, set, walk) ==
    LET node == Head(walk.queue)
        free == {p[2] : p \in {p \in edges : p[1] = node}} \ (Range(walk.out) \cup Range(walk.queue))
    IN  [queue |-> Tail(walk.queue)
                   \o Ascending(SelectSeq(set, LAMBDA e : e \in free), LAMBDA e : TimeOf(sources, e)),
         out |-> Append(walk.out, node)]
\* What is taken from the queue lets go of its effects; the order of equal
\* times is that of a set of strings, anything at all.
Release(sources, edges, set, walk) ==
    LET node == Head(walk.queue)
        done == Range(walk.out) \cup {node}
        free == {e \in {p[2] : p \in {p \in edges : p[1] = node}} :
                    \A p \in edges : p[2] = e => p[1] \in done}
    IN  [queue |-> Tail(walk.queue)
                   \o Ascending(SelectSeq(set, LAMBDA e : e \in free), LAMBDA e : TimeOf(sources, e)),
         out |-> Append(walk.out, node)]
KahnOrder(sources, edges, set) ==
    LET roots == SelectSeq(set, LAMBDA e : \A p \in edges : p[2] # e)
        start == [queue |-> Ascending(roots, LAMBDA e : TimeOf(sources, e)), out |-> <<>>]
        step(walk, i) == IF walk.queue = <<>> THEN walk ELSE Release(sources, edges, set, walk)
    IN  FoldLeft(step, start, Numbers(Len(set))).out

Chronological(sources, ids) ==
    LET kept == SelectSeq(sources, LAMBDA s : s.id \in ids)
        sorted == Ascending(kept, LAMBDA s : s.time)
    IN  [i \in DOMAIN sorted |-> sorted[i].id]
\* set: the sources in the order in which the set of their ids is walked.
BuildTemporalChain(sources, rels, set) ==
    LET edges == CausalEdges(sources, rels)
        ids == {s.id : s \in Range(sources)}
        ordered == KahnOrder(sources, edges, set)
    IN  IF edges = {} THEN Chronological(sources, ids)
        ELSE ordered \o Chronological(sources, ids \ Range(ordered))

Place(seq, x) == CHOOSE i \in DOMAIN seq : seq[i] = x

\* Every event is told once, and a cause before its effect, unless the cause is
\* on or below a circle of causes (all of one time) and no earlier than the effect.
CausesComeFirst(sources, rels, set) ==
    LET chain == BuildTemporalChain(sources, rels, set)
        edges == CausalEdges(sources, rels)
        unreached == Range(set) \ Range(KahnOrder(sources, edges, set))
    IN  /\ Len(chain) = Len(sources) /\ Range(chain) = {s.id : s \in Range(sources)}
        /\ \A p \in edges :
             \/ Place(chain, p[1]) < Place(chain, p[2])
             \/ p[1] \in unreached /\ TimeOf(sources, p[1]) = TimeOf(sources, p[2])

(***************************************************************************)
(* Entities across systems.  Titles are normalized; similar holds pairs of *)
(* different titles whose ratios reach the threshold.                      *)
(***************************************************************************)
Titles(sources) ==
    LET firsts == SelectSeq(Numbers(Len(sources)),
                            LAMBDA i : \A j \in 1..(i - 1) : sources[j].title # sources[i].title)
    IN  [k \in DOMAIN firsts |-> sources[firsts[k]].title]
Find(parent, i) == FoldLeft(LAMBDA at, k : parent[at], i, Numbers(Len(parent)))
UnionOf(parent, i, j) == [parent EXCEPT ![Find(parent, i)] = Find(parent, j)]
Merged(titles, similar) ==
    LET n == Len(titles)
        pairs == SelectSeq([k \in 1..(n * n) |-> <<((k - 1) \div n) + 1, ((k - 1) % n) + 1>>],
                           LAMBDA p : p[1] < p[2] /\ {titles[p[1]], titles[p[2]]} \in similar)
    IN  FoldLeft(LAMBDA parent, p : UnionOf(parent, p[1], p[2]), Numbers(n), pairs)

\* Clusters of titles, then those that stand alone; a group of one system only
\* is no entity.  Slack messages that name a ticket are linked to the last Jira
\* source with that ticket.
ResolveByTitle(sources, similar) ==
    LET titles == Titles(sources)
        parent == Merged(titles, similar)
        cluster(r) == {titles[i] : i \in {i \in DOMAIN titles : Find(parent, i) = r}}
        group(r) == {s \in Range(sources) : s.title \in cluster(r)}
        roots == {Find(parent, i) : i \in DOMAIN titles}
    IN  {{s.id : s \in group(r)} : r \in {r \in roots : Cardinality({s.type : s \in group(r)}) > 1}}
ResolveByTicket(sources) ==
    LET jira(t) == SelectSeq(sources, LAMBDA s : s.type = "jira" /\ s.ticket = t) IN
    {{s.id, Last(jira(s.ticket)).id} :
        s \in {s \in Range(sources) : s.type = "slack" /\ jira(s.ticket) # <<>>}}
ResolveCrossSystemEntities(sources, similar) == ResolveByTitle(sources, similar) \cup ResolveByTicket(sources)

\* Sources of two systems whose titles are linked by a chain of similar ones
\* are in one entity, whatever the order of the titles, and no source is in two
\* for its title; a message is linked to a Jira source of the ticket it names.
LinkedAreResolved(sources, similar) ==
    LET resolved == ResolveByTitle(sources, similar)
        near(s, t) == s.title = t.title \/ {s.title, t.title} \in similar
    IN  \A s, t \in Range(sources) :
          /\ s.type # t.type /\ (near(s, t) \/ \E u \in Range(sources) : near(s, u) /\ near(u, t)) =>
                 \E e \in resolved : {s.id, t.id} \subseteq e
          /\ \A d, e \in resolved : s.id \in d \cap e => d = e
          /\ s.type = "slack" /\ t.type = "jira" /\ s.ticket = t.ticket =>
                 \E e \in ResolveCrossSystemEntities(sources, similar), u \in Range(sources) :
                     u.type = "jira" /\ u.ticket = s.ticket /\ {s.id, u.id} \subseteq e

(***************************************************************************)
(* Cross-modal ranking.  near holds pairs of ids with similar titles,      *)
(* known the vector sources close to an entity that was retrieved; both    *)
(* kinds of sources are walked in the order of sets of strings.            *)
(***************************************************************************)
Unrated == -1
BaseScore(s) ==
    LET own == s.confidence * TypeWeight[s.type]
    IN  IF s.rating = Unrated THEN own ELSE (6 * 100 * s.rating + 4 * own) \div 10
Lifted(score, percent) == Lesser((score * percent) \div 100, 10000)

FuseOnce(scores, v, matches) ==
    IF matches = <<>> THEN scores
    ELSE [scores EXCEPT ![v] = Lifted(@, 125), ![Head(matches)] = Lifted(@, 115)]
CrossModalRerank(sources, near, known, walk) ==
    LET type(id) == (CHOOSE s \in Range(sources) : s.id = id).type
        base == [id \in {s.id : s \in Range(sources)} |-> BaseScore(CHOOSE s \in Range(sources) : s.id = id)]
        graph(v) == SelectSeq(walk, LAMBDA g : type(g) = "graph" /\ {v, g} \in near)
        fused == FoldLeft(LAMBDA sc, v : FuseOnce(sc, v, graph(v)), base, SelectSeq(walk, LAMBDA v : type(v) = "vector"))
    IN  [id \in DOMAIN fused |->
            IF type(id) = "vector" /\ id \in known THEN (fused[id] * 110) \div 100 ELSE fused[id]]

\* The scores are the same in whatever order the sets are walked, unless a
\* vector source resembles two graph sources; and the graph vouches for a
\* vector source once, however many of its nodes do.
RankingIsOne(sources, near, known, walk) ==
    LET scores == CrossModalRerank(sources, near, known, walk)
        backwards == CrossModalRerank(sources, near, known, Reverse(walk))
        vouchers(v) == {p \in near : v \in p}
    IN  \A s \in Range(sources) :
          /\ s.type = "vector" =>
                scores[s.id] <= (Lifted(BaseScore(s), 125) * 110) \div 100 /\ scores[s.id] = backwards[s.id]
          /\ (\A v \in Range(sources) : v.type = "vector" => Cardinality(vouchers(v.id)) <= 1) =>
                scores[s.id] = backwards[s.id]
=============================================================================
