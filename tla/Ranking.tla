------------------------------ MODULE Ranking ------------------------------
(***************************************************************************)
(* Scores and orders: the heuristic of the evaluator                       *)
(* (aim/agents/nodes/evaluator.py), the choice between branches            *)
(* (branch_selector.py), the fusion of vector hits with the graph          *)
(* (hybrid_retriever.py), re-rankers (reranker.py) and the scores of paths *)
(* (graph_scoring.py).  A share is a percentage, a weighted score is in    *)
(* ten-thousandths.                                                        *)
(***************************************************************************)
EXTENDS Integers, Sequences, FiniteSets, Functions, SequencesExt

Least(a, b) == IF a < b THEN a ELSE b
Most(a, b) == IF a > b THEN a ELSE b
Share(n, of) == (100 * n) \div of

\* sorted(..., reverse=True) keeps the order of equals.
SortedBy(seq, score(_)) ==
    LET before(i, j) == score(seq[i]) > score(seq[j]) \/ (score(seq[i]) = score(seq[j]) /\ i < j)
        order == SortSeq([i \in DOMAIN seq |-> i], before)
    IN  SubSeq([k \in DOMAIN seq |-> seq[order[k]]], 1, Len(seq))
FirstOf(seq, k) == SubSeq(seq, 1, Least(k, Len(seq)))

(***************************************************************************)
(* The evaluator's heuristic and what a model may make of it.              *)
(***************************************************************************)
ScoreCitationCoverage(c) == IF c.sources = 0 THEN 0 ELSE Least(Share(c.cited, c.sources), 100)
ScoreQueryCoverage(c) == IF c.queries = 0 THEN 100 ELSE Share(c.covered, c.queries)
ScoreAnswerLength(c) ==
    CASE c.length >= 200 -> 100 [] c.length >= 100 -> 60 [] c.length >= 50 -> 30 [] OTHER -> 10

Weighted(citation, query, confidence, length) == 30 * citation + 30 * query + 25 * confidence + 15 * length

ComputeHeuristicScore(c) ==
    Weighted(ScoreCitationCoverage(c), ScoreQueryCoverage(c), c.confidence, ScoreAnswerLength(c))

NoReply == -1
LlmEvaluate(reply) == IF reply = NoReply THEN 50 ELSE Most(0, Least(reply, 100))

\* hybrid asks the model between the two thresholds only.
EvaluationScore(c, mode, reply, low, high) ==
    LET h == ComputeHeuristicScore(c)
        asks == mode = "llm" \/ (mode = "hybrid" /\ low < h /\ h < high)
        score == IF asks THEN (6 * 100 * LlmEvaluate(reply) + 4 * h) \div 10 ELSE h
    IN  IF c.multi_hop THEN Most(0, score - Least(1500 * c.missing_hops, 4500)) ELSE score

\* Each reloop shifts the weight of retrieval by what the pass brought.
Shift(s, pass) ==
    LET failed == s.failed \cup {s.strategy} IN
    [failed |-> failed,
     strategy |-> IF pass.graph < 2 /\ "vector_heavy" \notin failed THEN "vector_heavy"
                  ELSE IF pass.vector < 2 /\ "graph_heavy" \notin failed THEN "graph_heavy"
                  ELSE IF "exhaustive" \notin failed THEN "exhaustive" ELSE s.strategy]
Shifted(passes) == FoldLeft(Shift, [strategy |-> "balanced", failed |-> {}], passes)

\* What the decomposer is told of a hop <<left, right>>: the neighbours of both
\* ends in the graph, by name.  Of two entities with one name the later counts.
Bridges(graph, name) ==
    LET ids == SelectSeq(graph.entities, LAMBDA e : e.name = name)
        id == IF ids = <<>> THEN name ELSE Last(ids).id
        nameOf(x) == IF \E e \in Range(graph.entities) : e.id = x
                     THEN (CHOOSE e \in Range(graph.entities) : e.id = x).name ELSE x
    IN  {nameOf(r.tgt) : r \in {r \in graph.rels : r.src = id}}
        \cup {nameOf(r.src) : r \in {r \in graph.rels : r.tgt = id}}
MissingHopFeedback(graph, hop) ==
    [source |-> hop[1], target |-> hop[2],
     ofSource |-> Bridges(graph, hop[1]), ofTarget |-> Bridges(graph, hop[2])]

\* No strategy is tried again while another is left, where exhaustive is the
\* last: once that is spent the loop stays with what it has.
StrategyIsFresh(passes) ==
    \A n \in 1..Len(passes) :
        LET before == Shifted(SubSeq(passes, 1, n - 1))
            after == Shifted(SubSeq(passes, 1, n))
        IN  after.strategy \in before.failed \cup {before.strategy} => "exhaustive" \in after.failed

\* A model that fails, or finds the answer middling, leaves the decision where
\* the heuristic put it, at the default threshold of a half.
FailedModelDecidesNothing(c, mode, low, high) ==
    (EvaluationScore(c, mode, NoReply, low, high) >= 5000) = (ComputeHeuristicScore(c) >= 5000)

\* An entity that links the two ends of a missing hop is named on both sides,
\* where names are unique: the decomposer can ask for it.
BridgeIsNamed(graph, hop) ==
    LET feedback == MissingHopFeedback(graph, hop)
        linked(a, b) == \E r \in graph.rels : {r.src, r.tgt} = {a, b}
    IN  \A e, f, g \in Range(graph.entities) :
          /\ hop = <<e.name, g.name>> /\ linked(e.id, f.id) /\ linked(f.id, g.id)
          /\ \A x, y \in Range(graph.entities) : x.name = y.name => x = y
          => f.name \in feedback.ofSource \cap feedback.ofTarget

(***************************************************************************)
(* Branches.                                                               *)
(***************************************************************************)
BranchLength(c) == Least(Share(c.length, 120), 100)
ScoreCandidate(c) ==
    Weighted(ScoreCitationCoverage(c), ScoreQueryCoverage(c), Most(0, Least(c.confidence, 100)), BranchLength(c))

SelectBest(candidates) == SortedBy(candidates, ScoreCandidate)[1]

ContendersAreAll(ranked, threshold) == ranked
\* Those within the threshold of the best are put to the judge; a judge that
\* fails or names somebody else does not count.
Contenders(ranked, threshold) ==
    SelectSeq(ranked, LAMBDA c : ScoreCandidate(ranked[1]) - ScoreCandidate(c) < threshold)
SelectBestWithTiebreaker(candidates, threshold, judge) ==
    LET ranked == SortedBy(candidates, ScoreCandidate)
        spread == ScoreCandidate(ranked[1]) - ScoreCandidate(ranked[2])
        named == SelectSeq(Contenders(ranked, threshold), LAMBDA c : c.id = judge)
    IN  IF Len(ranked) < 2 THEN ranked[1]
        ELSE IF spread >= threshold \/ named = <<>> THEN ranked[1] ELSE named[1]

\* A candidate that the evaluator's heuristic would accept scores above the
\* threshold here too, if its answer has at least twelve characters: below
\* that the evaluator still gives a tenth of the points for length.
AcceptedScoresHere(c, threshold) ==
    EvaluationScore(c, "heuristic", NoReply, 0, 0) >= threshold /\ c.length >= 12 =>
        ScoreCandidate(c) >= threshold

\* Whatever the judge says, the winner is among the candidates and less than
\* the threshold behind the best; a threshold of zero makes it the best.
WinnerIsClose(candidates, threshold, judge) ==
    LET winner == SelectBestWithTiebreaker(candidates, threshold, judge)
        behind == ScoreCandidate(SelectBest(candidates)) - ScoreCandidate(winner)
    IN  /\ \E i \in DOMAIN candidates : candidates[i] = winner
        /\ behind = 0 \/ behind < threshold

(***************************************************************************)
(* Fusion.                                                                 *)
(***************************************************************************)
GraphBoost == 15
FusedScore(s, graph) == s.score + IF s.entity \in graph THEN GraphBoost ELSE 0
FuseByGraphRerank(graph, snippets) == SortedBy(snippets, LAMBDA s : FusedScore(s, graph))

NoEntity == "none"
\* The cut before the duplicates.
\* Entities of the best snippets, each once.
DeriveSeedEntityIds(snippets, k) ==
    LET ranked == SortedBy(snippets, LAMBDA s : s.score)
        firsts == {i \in DOMAIN ranked : ranked[i].entity # NoEntity
                                         /\ \A j \in 1..(i - 1) : ranked[j].entity # ranked[i].entity}
        order == SetToSortSeq(firsts, <)
    IN  FirstOf([i \in DOMAIN order |-> ranked[order[i]].entity], k)

Position(seq, x) == CHOOSE i \in DOMAIN seq : seq[i] = x

\* The graph lifts what it agrees with and reorders nothing else: two snippets
\* swap places only if the graph knows the one that rises and not the other,
\* and no further than the boost carries.
FusionLiftsMatches(graph, snippets) ==
    LET before == SortedBy(snippets, LAMBDA s : s.score)
        after == FuseByGraphRerank(graph, snippets)
    IN  \A i, j \in DOMAIN before :
          i < j /\ Position(after, before[i]) > Position(after, before[j]) =>
              /\ before[j].entity \in graph /\ before[i].entity \notin graph
              /\ before[i].score - before[j].score < GraphBoost

\* An entity is left out of the seeds only for k others that score as well.
SeedsAreBest(snippets, k) ==
    LET seeds == DeriveSeedEntityIds(snippets, k) IN
    \A i \in DOMAIN snippets :
        LET e == snippets[i].entity IN
        e # NoEntity /\ (\A j \in DOMAIN seeds : seeds[j] # e) =>
            /\ Len(seeds) = k
            /\ \A j \in DOMAIN seeds : \E m \in DOMAIN snippets :
                 snippets[m].entity = seeds[j] /\ snippets[m].score >= snippets[i].score

(***************************************************************************)
(* Re-rankers.  A source has a text or none, its own confidence, and what  *)
(* the model says of it; a short reply of the model says nothing of the    *)
(* last sources.                                                           *)
(***************************************************************************)
ByRelevance(items) == SortedBy(items, LAMBDA x : x.relevance)
Rated(sources, rating(_)) == [i \in DOMAIN sources |-> [id |-> i, relevance |-> rating(sources[i])]]

CrossEncoder(sources, k) ==
    LET items == Rated(sources, LAMBDA s : s.rating)
    IN  FirstOf(ByRelevance(SelectSeq(items, LAMBDA x : sources[x.id].text)), k)
\* These two cut before RerankerResult sorts.
LlmReranker(sources, replies, k) ==
    IF replies = 0 THEN ByRelevance(FirstOf(Rated(sources, LAMBDA s : s.confidence), k))
    ELSE ByRelevance(FirstOf(FirstOf(Rated(sources, LAMBDA s : s.rating), replies), k))
NoopReranker(sources, k) == ByRelevance(FirstOf(Rated(sources, LAMBDA s : s.confidence), k))

\* The best source with a text comes first from the cross-encoder.  The other
\* two promise it for the first k sources only.
BestSourceSurvives(sources, replies, k) ==
    \A i \in DOMAIN sources :
        /\ sources[i].text /\ (\A j \in DOMAIN sources : sources[j].rating <= sources[i].rating) =>
               CrossEncoder(sources, k)[1].relevance = sources[i].rating
        /\ i <= k => NoopReranker(sources, k)[1].relevance >= sources[i].confidence
        /\ i <= k /\ i <= replies => LlmReranker(sources, replies, k)[1].relevance >= sources[i].rating

(***************************************************************************)
(* Paths.  Shares are percentages, weights add up to 100.                  *)
(***************************************************************************)
Floor == 40
Clamp01(x) == Most(0, Least(x, 100))
ScoreEdge(e, w) ==
    Clamp01((w.alpha * e.affinity + w.beta * e.feedback + w.gamma * e.rarity) \div 100)
SumOf(seq) == FoldLeft(+, 0, seq)
ScorePath(edges, aggregation) ==
    IF edges = <<>> THEN Floor
    ELSE IF aggregation = "mean" THEN Clamp01(SumOf(edges) \div Len(edges))
    ELSE Clamp01(FoldLeft(LAMBDA p, s : (p * Clamp01(s)) \div 100, 100, edges))

\* A path has the words of its nodes and relationships, those of its two ends,
\* and hits of rels relationships whose type the query hints at.
LexicalQueryAffinity(query, p) ==
    LET overlap(words) == Share(Cardinality(query \cap words), Cardinality(query)) IN
    IF query = {} THEN 0
    ELSE Clamp01((55 * overlap(p.tokens) + 30 * Share(p.hits, Most(p.rels, 1)) + 15 * overlap(p.ends)) \div 100)

\* A score of zero counts as none.
Structural(p) == IF p.score = 0 THEN Floor ELSE Clamp01(p.score)
RerankScore(query, p) == Clamp01((65 * Structural(p) + 35 * LexicalQueryAffinity(query, p)) \div 100)
RerankPathsForQuery(query, paths) ==
    SortedBy(paths, LAMBDA p : RerankScore(query, p) * 100000 + p.score * 100 + (99 - p.hops))

\* The query reorders, it does not overrule: it makes up for 54 points of
\* structure at most and for none if it likes the other path as well, unless a
\* structural score is zero and taken for missing.
StructureCounts(query, paths) ==
    LET ranked == RerankPathsForQuery(query, paths)
        affinity(p) == LexicalQueryAffinity(query, p)
        lead(p, q) == q.score - p.score
    IN  \A i, j \in DOMAIN ranked :
            i < j /\ ranked[i].score # 0 =>
                /\ lead(ranked[i], ranked[j]) <= 54
                /\ affinity(ranked[j]) >= affinity(ranked[i]) => lead(ranked[i], ranked[j]) < 2

\* One weak link spoils a product and not a mean; a path of equal edges scores
\* no more as a product than as a mean.
WeakLinkCounts(edges) ==
    edges # <<>> =>
        /\ ScorePath(edges, "product") <= ScorePath(edges, "mean")
        /\ \A i \in DOMAIN edges : ScorePath(edges, "product") <= edges[i]
=============================================================================
