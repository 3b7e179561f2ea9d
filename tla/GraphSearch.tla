---------------------------- MODULE GraphSearch ----------------------------
(***************************************************************************)
(* The graph searcher (search_knowledge_graph of                           *)
(* aim/agents/nodes/graph_searcher.py): one node of the reasoning loop,     *)
(* from what its calls to Neo4j return or fail with.  An entity is an id   *)
(* and a score in percent; a call found its entities, or ended in          *)
(* "timeout", "open" (the circuit breaker) or "error".                     *)
(***************************************************************************)
EXTENDS Answers

CONSTANTS
    DeepCap,        \* entities kept in DEEP mode: 25
    SparseBelow,    \* fewer entities than this are refined: 3
    PairsAsked,     \* pairs of the question that are looked for: 3
    PairsRun        \* pairs that are looked for at all: 5

Ids(entities) == {e.id : e \in Range(entities)}
New(entities, found) == SelectSeq(found, LAMBDA e : e.id \notin Ids(entities))

(***************************************************************************)
(* Sub-queries, exact identifiers, neighbours of the first entity.  acc    *)
(* holds the entities, and the sub-queries that found a source.            *)
(***************************************************************************)
RecordGraphResult(acc, q, found) ==
    [acc EXCEPT !.entities = @ \o New(@, found), !.sourced = IF found = <<>> THEN @ ELSE @ \cup {q}]
PrependGraphResult(acc, found) == [acc EXCEPT !.entities = New(@, found) \o @]

\* The answers are gone through in order up to the first that met an open
\* circuit; an error of one is an error of them all.
SearchedToFirstFailure(acc, subs) ==
    LET bad == {i \in DOMAIN subs : subs[i].kind # "found"}
        last == IF bad = {} THEN Len(subs) ELSE (CHOOSE i \in bad : \A j \in bad : i <= j) - 1
    IN  FoldLeft(LAMBDA a, i : RecordGraphResult(a, i, subs[i].ents), acc, Numbers(last))
SearchedSubQueries(acc, subs) ==
    LET open == {i \in DOMAIN subs : subs[i].kind = "open"}
        last == IF open = {} THEN Len(subs) ELSE (CHOOSE i \in open : \A j \in open : i <= j) - 1
    IN  FoldLeft(LAMBDA a, i : RecordGraphResult(a, i, subs[i].ents), acc,
                 SelectSeq(Numbers(last), LAMBDA i : subs[i].kind = "found"))
Anchored(acc, anchors) ==
    FoldLeft(LAMBDA a, x : PrependGraphResult(a, x.ents), acc, SelectSeq(anchors, LAMBDA x : x.kind = "found"))

\* What was found lifts, what was not is added; then by score.
MergeTeacherBfsCandidates(entities, teacher) ==
    LET lift(e) == LET t == SelectSeq(teacher, LAMBDA x : x.id = e.id) IN
                   IF t = <<>> THEN e ELSE [e EXCEPT !.score = @ + t[1].score]
    IN  IF teacher = <<>> THEN entities
        ELSE Ascending([i \in DOMAIN entities |-> lift(entities[i])] \o New(entities, teacher), LAMBDA e : -e.score)
Taught(st, acc, teacher) ==
    IF ~st.multi_hop \/ acc.entities = <<>> \/ teacher.kind # "found" THEN acc
    ELSE [acc EXCEPT !.entities = MergeTeacherBfsCandidates(@, teacher.ents)]

FirstRound(st, out) ==
    LET start == [entities |-> st.entities, sourced |-> {}] IN
    IF \E i \in DOMAIN out.subs : out.subs[i].kind = "error" THEN start
    ELSE Taught(st, Anchored(SearchedSubQueries(start, out.subs), out.anchors), out.teacher)

\* In DEEP mode, once: the sub-queries without a source, again.  An error here
\* is not caught.
IsSparse(st, acc) == st.deep /\ Len(acc.entities) < SparseBelow /\ st.retries = 0
Sparse(st, acc, out) ==
    IF IsSparse(st, acc) THEN SelectSeq(Numbers(Len(out.subs)), LAMBDA i : i \notin acc.sourced) ELSE <<>>
Raises(st, acc, out) == \E i \in Range(Sparse(st, acc, out)) : out.again[i].kind = "error"
Refined(st, acc, out) ==
    FoldLeft(LAMBDA a, i : RecordGraphResult(a, i, out.again[i].ents), acc,
             SelectSeq(Sparse(st, acc, out), LAMBDA i : out.again[i].kind = "found"))

(***************************************************************************)
(* Paths between pairs of entities: those of the question, then the best   *)
(* ones.  An entity's id is its name.                                      *)
(***************************************************************************)
ProactivePairs(entities, asked, top, most) ==
    LET sorted == Ascending(entities, LAMBDA e : -e.score)
        n == Lesser(top, Len(sorted))
        all == [k \in 1..(n * n) |-> <<((k - 1) \div n) + 1, ((k - 1) % n) + 1>>]
        pairs == SelectSeq(all, LAMBDA p : p[1] < p[2] /\ <<sorted[p[1]].id, sorted[p[2]].id>> \notin Range(asked))
    IN  [k \in 1..Lesser(most, Len(pairs)) |-> <<sorted[pairs[k][1]].id, sorted[pairs[k][2]].id>>]
PathPairs(st, entities) ==
    LET asked == SubSeq(st.pairs, 1, Lesser(PairsAsked, Len(st.pairs)))
        all == asked \o IF Len(entities) < 2 THEN <<>>
                        ELSE IF st.multi_hop THEN ProactivePairs(entities, asked, 6, 4)
                        ELSE ProactivePairs(entities, asked, 4, 2)
    IN  SubSeq(all, 1, Lesser(PairsRun, Len(all)))

\* A call that is too slow passes over its pair, an error ends the search.
PathResults(st, pairs, paths) ==
    LET failed == {i \in DOMAIN pairs : paths[pairs[i]].kind = "error"}
        last == IF failed = {} THEN Len(pairs) ELSE (CHOOSE i \in failed : \A j \in failed : i <= j) - 1
        found == SelectSeq(SubSeq(pairs, 1, last), LAMBDA p : p[1] # p[2] /\ paths[p].kind = "found")
        new == [i \in DOMAIN found |-> paths[found[i]].path @@ [pair |-> found[i]]]
    IN  Ascending(st.paths \o new, LAMBDA p : -p.score)

Boost(score, rank) == (100 * Lesser(160, 55 + score)) \div (100 + 35 * rank)
\* Entities on the best paths are lifted, and only then are there so many kept.
Boosts(st, results, id) ==
    {Boost(results[i].score, i - 1) :
        i \in {i \in 1..Lesser(IF st.multi_hop THEN 5 ELSE 3, Len(results)) : id \in Range(results[i].nodes)}}
BoostedByPaths(st, entities, results) ==
    LET lift(e) == LET b == Boosts(st, results, e.id) IN
                   IF b = {} THEN e ELSE [e EXCEPT !.score = @ + CHOOSE x \in b : \A y \in b : y <= x]
    IN  IF \A e \in Range(entities) : Boosts(st, results, e.id) = {} THEN entities
        ELSE Ascending([i \in DOMAIN entities |-> lift(entities[i])], LAMBDA e : -e.score)
Capped(st, entities) == IF st.deep THEN SubSeq(entities, 1, Lesser(DeepCap, Len(entities))) ELSE entities
RankedByPaths(st, entities, results) == Capped(st, BoostedByPaths(st, entities, results))

MissingHops(st, results) ==
    {p \in Range(st.pairs) : st.multi_hop /\ {p, <<p[2], p[1]>>} \cap {r.pair : r \in Range(results)} = {}}

\* What the node returns: entities is what Refined found, results is PathResults of
\* their PathPairs.
SearchKnowledgeGraph(st, entities, results) ==
    [entities |-> RankedByPaths(st, entities, results), paths |-> results,
     missing_hops |-> MissingHops(st, results)]

(***************************************************************************)
(* A relationship that says why is a source of its own.  Its age is in     *)
(* half-lives of 180 days, or NoDate where none can be read; a confidence  *)
(* is in ten-thousandths.                                                  *)
(***************************************************************************)
NoDate == -1
CausalTypes == {"CAUSED_BY", "LED_TO", "SUPERSEDES", "AFFECTS", "IMPACTED"}
RelSourceSnippet(rel) == rel.why \/ rel.evidence
TemporalConfidence(rel) ==
    LET faded == 9500 \div (2 ^ rel.age) IN
    IF rel.age = NoDate THEN 9500 ELSE IF faded > 4000 THEN faded ELSE 4000
\* Each pass makes them anew, of all relationships that were ever found.
CausalSources(sources, rels) ==
    LET causal == SelectSeq(rels, LAMBDA r : r.type \in CausalTypes /\ RelSourceSnippet(r)) IN
    sources \o [i \in DOMAIN causal |-> [rel |-> causal[i].id, confidence |-> TemporalConfidence(causal[i])]]

(***************************************************************************)
(* Properties of a search that raised nothing: s holds its input st and    *)
(* out, the entities and results it went on with, and what it returned.    *)
(***************************************************************************)
\* However it was found, and however often, an entity is there once.
EntitiesAreOnce(s) ==
    \A i, j \in DOMAIN s.final.entities : s.final.entities[i].id = s.final.entities[j].id => i = j

\* What one call found is not lost to the failure of another, unless that is an
\* error of a sub-query or a circuit found open by an earlier one.
FoundIsKept(s) ==
    LET kept == Ids(s.final.entities) IN
    (~s.st.deep /\ \A i \in DOMAIN s.out.subs : s.out.subs[i].kind # "error") =>
        /\ \A i \in DOMAIN s.out.subs :
             s.out.subs[i].kind = "found" /\ (\A j \in 1..(i - 1) : s.out.subs[j].kind # "open")
                 => Ids(s.out.subs[i].ents) \subseteq kept
        /\ \A i \in DOMAIN s.out.anchors :
             s.out.anchors[i].kind = "found" => Ids(s.out.anchors[i].ents) \subseteq kept
        /\ Ids(s.st.entities) \subseteq kept

\* The entities of the best path stay, unless enough others are on a path too or
\* score as high as they do.
BestPathStays(s) ==
    LET lifted(e) == e.score + CHOOSE x \in Boosts(s.st, s.results, e.id) \cup {0} :
                                   \A y \in Boosts(s.st, s.results, e.id) : y <= x
    IN  s.results # <<>> =>
            \A e \in Range(s.entities) :
                (/\ e.id \in Range(s.results[1].nodes)
                 /\ Cardinality({f \in Range(s.entities) : f.id # e.id /\ lifted(f) >= lifted(e)}) < DeepCap)
                    => e.id \in Ids(s.final.entities)

\* A hop is missing only if no path joins its ends in either direction, among
\* those found now or before; of the pairs that are looked for, it is missing
\* only if the call for it failed or found nothing, or both names are of one entity.
MissingIsMissing(s) ==
    LET pairs == s.st.pairs
        ended(i) == s.out.paths[pairs[i]].kind
        joined(p) == \E r \in Range(s.final.paths) : {r.pair[1], r.pair[2]} = {p[1], p[2]}
    IN  s.st.multi_hop =>
            \A i \in DOMAIN pairs :
                /\ pairs[i] \in s.final.missing_hops <=> ~joined(pairs[i])
                /\ (/\ i <= PairsAsked /\ pairs[i][1] # pairs[i][2]
                    /\ ended(i) = "found" /\ \A j \in 1..i : ended(j) # "error")
                       => pairs[i] \notin s.final.missing_hops

\* Whatever explains an event can be cited, with a confidence that is worth
\* citing, however old it is; the newer of two counts for as much or more, and
\* what was a source before remains one in later passes.
ExplanationsStayCitable(rels, passes) ==
    LET found(n) == FoldLeft(LAMBDA sources, i : CausalSources(sources, SubSeq(rels, 1, passes[i])), <<>>, Numbers(n))
    IN  \A n \in DOMAIN passes :
          /\ \A i \in 1..passes[n] :
               rels[i].type \in CausalTypes /\ (rels[i].why \/ rels[i].evidence)
                   => \E s \in Range(found(n)) : s.rel = rels[i].id /\ s.confidence >= 4000
          /\ \A s, t \in Range(found(n)) :
               rels[s.rel].age # NoDate /\ rels[s.rel].age <= rels[t.rel].age => s.confidence >= t.confidence
          /\ \A m \in 1..n : Range(found(m)) \subseteq Range(found(n))
=============================================================================
