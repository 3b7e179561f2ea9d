---------------------------- MODULE MCAlgorithms ----------------------------
(***************************************************************************)
(* The pure algorithms over bounded inputs.  A behaviour chooses an        *)
(* algorithm and an input for it, and that is all; the invariants compare  *)
(* what the algorithm makes of the input with what it is for.              *)
(***************************************************************************)
EXTENDS Governance, Truth, Decomposition, Synthesis, GraphSearch, Extraction, McpServer, AuditLog

VARIABLE case   \* [of |-> the algorithm, its inputs]

Start == [of |-> "none"]
Chosen(c) == case' = c
UpTo(n, S) == UNION {[1..k -> S] : k \in 0..n}

(***************************************************************************)
(* Governance.                                                             *)
(***************************************************************************)
Govs == {NoGovernance, [NoGovernance EXCEPT !.acl = {"alice"}], [NoGovernance EXCEPT !.groups = {"team"}],
         [NoGovernance EXCEPT !.tenant = "t1", !.visibility = "private"]}
Callers == [tenant : {"", "t1", "t2"}, principals : SUBSET {"alice", "team"}]
Relation(src, type, tgt, gov, evidence) ==
    [id |-> <<src, type, tgt>>, type |-> type, src |-> src, tgt |-> tgt, gov |-> gov,
     evidence |-> evidence, fact |-> NoId]
Ends == {<<"a">>, <<"b">>}
Doc == <<"doc">>
GraphsOf(rels) ==
    {[entities |-> {[id |-> e, gov |-> NoGovernance] : e \in Ends} \cup docs, rels |-> rels] :
        docs \in {{}} \cup {{[id |-> Doc, gov |-> g]} : g \in Govs}}

Govern ==
    \E g \in Govs, ev \in {NoId, Doc}, more \in BOOLEAN, caller \in Callers :
    \E graph \in GraphsOf({Relation(<<"a">>, "OWNS", <<"b">>, g, ev)}
                          \cup IF more THEN {Relation(<<"a">>, "MENTIONS", Doc, NoGovernance, Doc)} ELSE {}) :
        Chosen([of |-> "govern", graph |-> graph, caller |-> caller])

Fields == [id : 1..2, name : {"INTERNAL", "CONFIDENTIAL", "RESTRICTED"}, secret : BOOLEAN]
Texts == [secret : BOOLEAN, semantic : {{}, {"CONFIDENTIAL"}, {"RESTRICTED"}}, marker : BOOLEAN]
Policies == [mode : {"off", "audit", "strict"}, external : BOOLEAN, fallback : BOOLEAN,
             allowed : {{Levels[i] : i \in 1..n} : n \in 1..4}]
Classify ==
    \/ \E fields \in SUBSET Fields, max \in {Levels[i] : i \in 1..4} :
          Cardinality(fields) <= 2 /\ Chosen([of |-> "fields", fields |-> fields, max |-> max])
    \/ \E texts \in UpTo(2, Texts), policy \in Policies :
          Chosen([of |-> "texts", texts |-> texts, policy |-> policy])
Keys == [keys : {<<>>, <<"k1">>, <<"k2">>, <<"k1", "k2">>, <<"k2", "k1">>, <<"k3", "k2", "k1">>,
                 <<"k1", "malformed">>},
         key : {NoKey, "k1"}]
Rotate == \E old, new \in Keys : Chosen([of |-> "keys", old |-> old, new |-> new])

\* Whoever may see a fact may see its evidence (materialize_fact_layer, can_access_entity).
EvidenceIsGoverned == case.of = "govern" => EvidenceGoverns(case.graph, case.caller)
\* A batch with its facts may be ingested again unchanged (materialize_fact_layer).
FactsAreOnce == case.of = "govern" => FactsOnce(case.graph)
\* Secrets do not reach a model (DataClassifier.filter_for_llm).
SecretsStay == case.of = "fields" => NoSecretSent(case.fields, case.max)
\* No text above the policy leaves in strict mode (the guarded providers).
ClassifiedTextsStay == case.of = "texts" => ClassifiedStaysIn(case.texts, case.policy)
\* What an older key encrypted stays readable (encrypt_value, decrypt_value).
RotatedIsRead == case.of = "keys" => RotationReads(case.old, case.new)

(***************************************************************************)
(* Truth.                                                                  *)
(***************************************************************************)
MCExclusive == {"owns"}
Claims ==
    {[subject |-> s, predicate |-> p, object |-> o, status |-> k[1], uri |-> k[2], support |-> {},
      confidence |-> k[3], dated |-> k[4], stale |-> k[5]] :
        s \in {"s1", "s2"}, o \in {"o1", "o2"}, p \in {"owns", "uses"},
        k \in {<<"verified", "slack", 50, 1, FALSE>>, <<"inferred", "jira", 80, 2, FALSE>>,
               <<"inferred", "slack", 80, 0, FALSE>>, <<"inferred", "jira", 80, 2, TRUE>>}}
\* Up to the names of the first subject and object.
Decide ==
    \E facts \in [1..3 -> Claims] :
        /\ facts[1].subject = "s1" /\ facts[1].object = "o1"
        /\ \A i \in 2..3 : facts[i].predicate = facts[1].predicate
        /\ Chosen([of |-> "truth", facts |-> facts])

\* Of facts that cannot hold together one is active (resolve_truth).
RivalsYield == case.of = "truth" => OneRivalActive(case.facts)
\* An unverified claim never puts a verified one out of force (resolve_truth).
UnverifiedYields == case.of = "truth" => VerifiedYields(case.facts)
\* The subject's group has the last word on its owner (resolve_truth).
OwnersAreDecided == case.of = "truth" => OwnerIsDecided(case.facts)

(***************************************************************************)
(* Ranking.                                                                *)
(***************************************************************************)
Candidates == [sources : {0, 2}, cited : 0..2, queries : {0, 2}, covered : 0..2, confidence : {0, 60, 100},
               length : {6, 12, 60, 120, 240}, multi_hop : {FALSE}, missing_hops : {0}]
Heuristic ==
    \E c \in Candidates, threshold \in {2500, 5000, 7000} :
        c.covered <= c.queries /\ Chosen([of |-> "candidate", c |-> c, threshold |-> threshold])
Modes ==
    \E c \in Candidates, mode \in {"heuristic", "llm", "hybrid"} :
        c.covered <= c.queries /\ Chosen([of |-> "mode", c |-> c, mode |-> mode])
Passes == [graph : {0, 2}, vector : {0, 2}]
Strategies == \E passes \in UpTo(4, Passes) : Chosen([of |-> "passes", passes |-> passes])
Nodes == {"x", "y", "z"}
Hops ==
    \E names \in [Nodes -> {"nx", "ny", "nz"}], rels \in SUBSET (Nodes \X Nodes),
       hop \in {"nx", "ny", "nz"} \X {"ny", "nz", "nowhere"} :
        /\ Cardinality(rels) <= 2
        /\ LET entity(x) == [id |-> x, name |-> names[x]] IN
           Chosen([of |-> "hop", hop |-> hop,
                   graph |-> [entities |-> <<entity("x"), entity("y"), entity("z")>>,
                              rels |-> {[src |-> r[1], tgt |-> r[2]] : r \in rels}]])
Branches ==
    {[id |-> i, sources |-> 2, cited |-> n, queries |-> 0, covered |-> 0, confidence |-> c, length |-> 120] :
        i \in 1..3, n \in 0..2, c \in {40, 50}}
Tiebreak ==
    \E n \in 1..3 : \E cs \in [1..n -> Branches], threshold \in {0, 300, 1600}, judge \in 0..3 :
        /\ \A i \in 1..n : cs[i].id = i
        /\ Chosen([of |-> "tiebreak", cs |-> cs, threshold |-> threshold, judge |-> judge])
Snippets == [entity : {"a", "b", "c", NoEntity}, score : {50, 60, 70}]
Fuse ==
    \E n \in 1..3 : \E s \in [1..n -> Snippets], graph \in SUBSET {"a", "b"} :
        LET snippets == [i \in 1..n |-> s[i] @@ [id |-> i]] IN
        Chosen([of |-> "fuse", snippets |-> snippets, graph |-> graph])
Sources == [text : BOOLEAN, confidence : {40, 80}, rating : {20, 60, 90}]
Rerank ==
    \E sources \in [1..3 -> Sources], replies \in {0, 1, 3}, k \in 1..3 :
        Chosen([of |-> "rerank", sources |-> sources, replies |-> replies, k |-> k])
Paths == [score : {0, 40, 70, 100}, hops : {2}, tokens : SUBSET {"x", "y"}, hits : 0..1, rels : {1},
          ends : {{}, {"x"}}]
RankPaths ==
    \E paths \in [1..2 -> {p \in Paths : p.ends \subseteq p.tokens}], query \in {{}, {"x"}, {"x", "y"}} :
        Chosen([of |-> "paths", query |-> query, paths |-> paths])
Weights == {[alpha |-> 0, beta |-> 100, gamma |-> 0], [alpha |-> 40, beta |-> 40, gamma |-> 20]}
Edges == [affinity : {0, 50, 100}, feedback : {0, 80, 100}, rarity : {20, 100}]
Aggregate ==
    \E edges \in UpTo(3, Edges), w \in Weights :
        Chosen([of |-> "edges", edges |-> [i \in DOMAIN edges |-> ScoreEdge(edges[i], w)]])

\* A model that fails decides nothing (evaluate_answer).
ModelFailureIsNeutral == case.of = "mode" => FailedModelDecidesNothing(case.c, case.mode, 3500, 6500)
\* Strategies are not tried twice (the reloop of evaluate_answer).
StrategiesAreFresh == case.of = "passes" => StrategyIsFresh(case.passes)
\* A bridge of a missing hop can be asked for (the feedback of evaluate_answer).
BridgesAreNamed == case.of = "hop" => BridgeIsNamed(case.graph, case.hop)
\* Branch selection and evaluator agree on what is good (score_candidate).
AcceptedIsChosen == case.of = "candidate" => AcceptedScoresHere(case.c, case.threshold)
\* The judge decides ties only (select_best_with_tiebreaker).
JudgeDecidesTies == case.of = "tiebreak" => WinnerIsClose(case.cs, case.threshold, case.judge)
\* The graph lifts snippets and reorders no others (hybrid_retriever.py).
FusionLifts == case.of = "fuse" => FusionLiftsMatches(case.graph, case.snippets)
\* Seeds are the best entities (hybrid_retriever.py).
SeedsAreTheBest == case.of = "fuse" => \A k \in 1..2 : SeedsAreBest(case.snippets, k)
\* A reranker keeps the best source (reranker.py).
BestSourceIsFirst == case.of = "rerank" => BestSourceSurvives(case.sources, case.replies, case.k)
\* Likeness to the query does not overrule structure (graph_scoring.py).
StructureStands == case.of = "paths" => StructureCounts(case.query, case.paths)
\* A weak link counts for more in a product (score_path).
WeakLinksCount == case.of = "edges" => WeakLinkCounts(case.edges)

(***************************************************************************)
(* Answers.                                                                *)
(***************************************************************************)
CitedLines == [text : {<<"x">>, <<"y">>, <<"x", 1>>}, ids : {<<>>, <<"a">>, <<"z">>, <<"a", "b">>}]
Cite == \E lines \in UpTo(3, CitedLines) : Chosen([of |-> "cite", lines |-> lines])
Mark ==
    \E answer \in UpTo(5, {"word", " ", "\n", "[a]", "[z]"}) : Chosen([of |-> "spans", answer |-> answer])
Trusted(i) == [id : {i}, type : {"graph", "vector", "slack"}, confidence : {20, 50, 90}]
Trust ==
    \E s1 \in Trusted(1), s2 \in Trusted(2), s3 \in Trusted(3), cited \in SUBSET (1..3) :
        Chosen([of |-> "trust", sources |-> <<s1, s2, s3>>, cited |-> cited])
Events(times, entities) ==
    [i \in DOMAIN times |-> [id |-> i, time |-> times[i], entity |-> entities[i]]]
Edge(type, pair) == [type |-> type, src |-> pair[1], tgt |-> pair[2]]
Relate ==
    \/ \E times \in [1..4 -> 1..2], pairs \in SUBSET ((1..4) \X (1..4)), set \in {<<1, 2, 3, 4>>, <<4, 2, 3, 1>>} :
          /\ Cardinality(pairs) \in 1..4 /\ \A p \in pairs : p[1] # p[2]
          /\ Chosen([of |-> "chain", set |-> set, rels |-> {Edge("LED_TO", p) : p \in pairs},
                     sources |-> Events(times, <<1, 2, 3, 4>>)])
    \/ \E times \in [1..3 -> 1..3], n \in {2, 3},
          types \in [1..2 -> {"LED_TO", "CAUSED_BY", "SUPERSEDES", "OWNS"}], pairs \in [1..2 -> (1..3) \X (1..3)] :
          Chosen([of |-> "chain", set |-> <<2, 3, 1>>, rels |-> {Edge(types[i], pairs[i]) : i \in 1..2},
                  sources |-> Events(times, <<1, 2, n>>)])
Resolve ==
    \E types \in [1..4 -> {"graph", "slack", "jira"}], titles \in {<<1, 2, 3, 4>>, <<1, 2, 1, 3>>},
       ticket \in {"K-1", "none"}, similar \in SUBSET {{1, 2}, {1, 3}, {1, 4}, {2, 3}, {2, 4}, {3, 4}} :
        /\ Cardinality(similar) <= 3
        /\ Chosen([of |-> "resolve", similar |-> similar,
                sources |-> [i \in 1..4 |-> [id |-> i, type |-> types[i], title |-> titles[i],
                                             ticket |-> IF i = 2 THEN ticket ELSE "K-1"]]])
CrossModal ==
    \E types \in [1..3 -> {"graph", "vector"}], confidence \in [1..3 -> {60, 100}], rating \in {Unrated, 50},
       near \in SUBSET {{1, 2}, {1, 3}, {2, 3}}, known \in {{}, {1, 2}}, walk \in {<<1, 2, 3>>, <<2, 3, 1>>, <<1, 3, 2>>} :
        /\ \A p \in near : {types[i] : i \in p} = {"graph", "vector"}
        /\ Chosen([of |-> "crossmodal", near |-> near, known |-> known, walk |-> walk,
                   sources |-> [i \in 1..3 |-> [id |-> i, type |-> types[i], confidence |-> confidence[i],
                                                rating |-> rating]]])

\* Removing repetition loses no citation (synthesizer.py).
CitationsStay == case.of = "cite" => CitationsSurvive(case.lines, {"a", "b"})
\* A citation span marks what it quotes (synthesizer.py).
SpansAreQuotes == case.of = "spans" => SpansQuote(case.answer, {"[a]"})
\* A better source makes an answer no less certain (synthesizer.py).
CitationsCount == case.of = "trust" => CitingCounts(case.sources, case.cited)
\* Causes are told before their effects, each once (synthesizer.py).
CausesAreFirst == case.of = "chain" => CausesComeFirst(case.sources, case.rels, case.set)
\* Linked titles of two systems are one entity (synthesizer.py).
LinkedIsResolved == case.of = "resolve" => LinkedAreResolved(case.sources, case.similar)
\* Cross-modal scores do not depend on the order of a set (synthesizer.py).
OneRanking == case.of = "crossmodal" => RankingIsOne(case.sources, case.near, case.known, case.walk)

(***************************************************************************)
(* Synthesis.  Incident 1, incident 12, a person, a service; the question  *)
(* may name what was retrieved, or not.                                    *)
(***************************************************************************)
Thing(id, name, incident) == [id |-> id, name |-> name, incident |-> incident]
Incident1 == Thing(21, <<Inc, 1>>, NoIncident)
Incident12 == Thing(22, <<Inc, 1, 2>>, NoIncident)
NamedOtherwise == Thing(21, <<3>>, <<Inc, 1>>)
Alex == Thing(23, <<6, 7>>, NoIncident)
AuthService == Thing(24, <<4, 8>>, NoIncident)
Retrieved == {<<>>, <<AuthService>>, <<NamedOtherwise, Alex>>, <<Incident12, Incident1, Alex>>, <<Incident12, Alex>>}
Questions ==
    {[incidents |-> i, asked |-> a \cup i] :
        i \in {{}, {<<Inc, 1>>}}, a \in {{}, {<<The, 5, 8>>}, {<<6, 2>>}, {<<8, 4>>, <<7, 7>>}, {<<6, 7>>}}}
Found(id, entity, shared, confidence, type) ==
    [id |-> id, entity |-> entity, shared |-> shared, confidence |-> confidence, type |-> type, title |-> <<2, 2>>]
Pools ==
    {[i \in DOMAIN es |-> Found(i, es[i].id, 1, 60, "graph")] : es \in Retrieved}
    \cup {<<Found(1, 0, x, 60, "slack"), Found(2, 0, y, 90, "slack"), Found(3, 0, z, 60, "slack")>> :
                x, z \in 0..2, y \in 0..1}
Replies ==
    [kind : {"model"}, tags : {{1}, {9}}, mentions : {{}, {<<6, 7>>}}, unsure : {FALSE}]
    \cup [kind : {"model"}, tags : {{}}, mentions : {{}}, unsure : {TRUE}]
Respond ==
    \E q \in Questions, es \in Retrieved, pool \in Pools, flags \in [direct : BOOLEAN, sensitive : BOOLEAN],
       covered \in BOOLEAN, reply \in Replies, ends \in {<<23, 21>>, <<22, 23>>} :
        /\ covered => flags.sensitive /\ ~flags.direct
        /\ \A i \in DOMAIN pool : pool[i].entity # 0 => /\ Len(pool) = Len(es)
                                                        /\ pool[i].entity = es[i].id
        /\ Chosen([of |-> "answer", reply |-> reply,
                   st |-> q @@ flags @@ [covered |-> covered, entities |-> es, sources |-> pool, words |-> 4,
                                         rels |-> <<[src |-> ends[1], tgt |-> ends[2]]>>]])
Walk ==
    \E edges \in SUBSET ((1..4) \X (1..4)), roots \in {<<1>>, <<2, 4>>}, longest \in 2..3 :
        /\ Cardinality(edges) <= 5 /\ \A e \in edges : e[1] < e[2]
        /\ Chosen([of |-> "walk", edges |-> edges, roots |-> roots, longest |-> longest])

\* An incident that was retrieved is answered (synthesize_answer).
IncidentsAreAnswered == case.of = "answer" => IncidentIsAnswered(case.st, case.reply, 2)
\* A refusal cites and names nobody (synthesize_answer).
RefusalsArePlain == case.of = "answer" => RefusalIsPlain(case.st, case.reply, 2)
\* Who responded is named, and nobody else (synthesize_answer).
RespondersAreAdded == case.of = "answer" => RespondersAreNamed(case.st, case.reply, 2)
\* The fallback citation is the best there is (synthesize_answer).
FallbackIsBest == case.of = "answer" => FallbackCitesBest(case.st, case.reply, 2)
\* Provenance paths are shortest ones (synthesizer.py).
ShortestPaths == case.of = "walk" => PathsAreShortest(<<1, 2, 3, 4>>, case.roots, case.edges, case.longest)

(***************************************************************************)
(* Graph search: what the calls return, then what the paths make of it.    *)
(***************************************************************************)
Node(id) == [id |-> id, score |-> 50 + 10 * id]
Outcome(kind, ids) == [kind |-> kind, ents |-> [i \in DOMAIN ids |-> Node(ids[i])]]
Outcomes == {Outcome("found", ids) : ids \in {<<>>, <<1>>, <<2, 3>>, <<3, 1, 4>>}}
            \cup {Outcome(kind, <<>>) : kind \in {"timeout", "open", "error"}}
Pairs == (1..4) \X (1..4)
PathOf(p, found, otherwise) ==
    [kind |-> IF p \in found THEN "found" ELSE otherwise,
     path |-> [nodes |-> IF p[2] = 4 THEN <<p[1], 3, p[2]>> ELSE <<p[1], p[2]>>, score |-> 10 * (p[1] + p[2])]]
NoPaths == [p \in Pairs |-> PathOf(p, {}, "none")]
Query(deep, multi_hop, retries, entities, pairs, paths) ==
    [deep |-> deep, multi_hop |-> multi_hop, retries |-> retries, entities |-> entities, pairs |-> pairs, paths |-> paths]
\* The search step by step, up to what the node returns.
Searched(st, out) ==
    \E acc \in {FirstRound(st, out)} :
    \E entities \in {Refined(st, acc, out).entities} :
    \E pairs \in {PathPairs(st, entities)} :
    \E results \in {PathResults(st, pairs, out.paths)} :
      /\ ~Raises(st, acc, out)
      /\ Chosen([of |-> "search", st |-> st, out |-> out, entities |-> entities, results |-> results,
                 final |-> SearchKnowledgeGraph(st, entities, results)])
Gather ==
    \E subs \in UpTo(2, Outcomes), teacher \in {Outcome("timeout", <<>>), Outcome("found", <<2, 4>>)},
       anchors \in {<<>>, <<Outcome("found", <<4>>)>>, <<Outcome("timeout", <<>>), Outcome("found", <<1, 4>>)>>},
       again \in {Outcome("found", <<2>>), Outcome("error", <<>>), Outcome("timeout", <<>>)},
       deep, multi_hop \in BOOLEAN, before \in {<<>>, <<Node(1)>>} :
        Searched(Query(deep, multi_hop, 0, before, <<>>, <<>>),
                 [subs |-> subs, anchors |-> anchors, teacher |-> teacher, paths |-> NoPaths,
                  again |-> <<again, Outcome("found", <<2>>)>>])
Pathfind ==
    \E scores \in [1..4 -> {50, 90}], deep, multi_hop \in BOOLEAN,
       pairs \in {<<>>, <<<<1, 2>>>>, <<<<2, 1>>, <<3, 4>>>>, <<<<3, 4>>, <<1, 1>>, <<2, 1>>>>},
       before \in {<<>>, <<PathOf(<<1, 2>>, {}, "none").path @@ [pair |-> <<1, 2>>]>>},
       found \in {{}, {<<1, 2>>}, {<<2, 1>>, <<3, 4>>}, Pairs}, otherwise \in {"none", "timeout", "error"} :
        Searched(Query(deep, multi_hop, 1, <<>>, pairs, before),
                 [subs |-> <<[kind |-> "found", ents |-> [i \in 1..4 |-> [id |-> i, score |-> scores[i]]]]>>,
                  anchors |-> <<>>, teacher |-> Outcome("timeout", <<>>), again |-> <<>>,
                  paths |-> [p \in Pairs |-> PathOf(p, found, otherwise)]])
Cause == [type : {"LED_TO", "OWNS"}, why : BOOLEAN, evidence : BOOLEAN, age : {NoDate, 0, 1, 2, 6}]
Explain ==
    \E causes \in [1..2 -> Cause], passes \in {<<1>>, <<0, 2>>, <<1, 2>>, <<2, 2>>} :
        Chosen([of |-> "causal", rels |-> [i \in 1..2 |-> causes[i] @@ [id |-> i]], passes |-> passes])

\* An entity found twice is there once (search_knowledge_graph).
OneOfEach == case.of = "search" => EntitiesAreOnce(case)
\* One failed call does not lose what others found (search_knowledge_graph).
NothingFoundIsLost == case.of = "search" => FoundIsKept(case)
\* The cap keeps the best path whole (search_knowledge_graph).
PathEntitiesStay == case.of = "search" => BestPathStays(case)
\* Causes stay citable, however old (search_knowledge_graph).
ExplanationsStay == case.of = "causal" => ExplanationsStayCitable(case.rels, case.passes)
\* What is called a missing hop was not found (search_knowledge_graph).
HopsAreMissing == case.of = "search" => MissingIsMissing(case)

(***************************************************************************)
(* Extraction: incidents 1 and 2, people 3, a team 5, a service 6.          *)
(***************************************************************************)
Mention(type, n, form, conf, props) == [type |-> type, name |-> <<n, form>>, conf |-> conf, props |-> props]
Fixed(how) == [k \in {"fix"} |-> how]
ModelReplies == {
    [ents |-> <<>>, rels |-> <<>>],
    [ents |-> <<Mention("Person", 3, "plain", 50, NoProps)>>, rels |-> <<>>],
    [ents |-> <<Mention("Person", 3, "possessive", 90, NoProps), Mention("Incident", 1, "plain", 90, Fixed(8))>>,
     rels |-> <<[src |-> <<3, "possessive">>, tgt |-> <<1, "plain">>, type |-> "RESPONDED_TO"]>>],
    [ents |-> <<Mention("Incident", 1, "plain", 99, Fixed(9)), Mention("Person", 3, "plain", 90, NoProps),
                Mention("Team", 3, "plain", 90, NoProps)>>, rels |-> <<>>]}
Messages ==
    {[restart |-> FALSE, replied |-> TRUE, incident |-> i, caused |-> TRUE, raw |-> raw, props |-> told[1],
      roles |-> [lead |-> told[2], reporter |-> others[1], service |-> others[2]]] :
        i \in {1, 2}, raw \in ModelReplies, told \in {<<NoProps, 0>>, <<NoProps, 3>>, <<Fixed(7), 3>>},
        others \in {<<0, 0>>, <<5, 6>>}}
\* The model replied, and one item of the reply cannot be parsed.
Garbled ==
    {[restart |-> FALSE, replied |-> TRUE, incident |-> 1, caused |-> TRUE, raw |-> raw, props |-> Fixed(7),
      roles |-> [lead |-> 3, reporter |-> 5, service |-> 6]] :
        raw \in {[ents |-> <<Mention("Person", 4, "plain", 90, NoProps), Mention("Incident", 1, "plain", Malformed, NoProps)>>,
                  rels |-> <<>>],
                 [ents |-> <<Mention("Person", 3, "plain", 90, NoProps)>>,
                  rels |-> <<[src |-> Plainly(Malformed), tgt |-> <<3, "plain">>, type |-> "MANAGES"]>>]}}
Unreplied == [restart |-> FALSE, replied |-> FALSE, incident |-> 1, raw |-> [ents |-> <<>>, rels |-> <<>>]]
Tell ==
    \E first, second \in Messages \cup Garbled \cup {Restart, Unreplied}, third \in Messages \cup {Restart} :
        /\ ~third.restart => third.props # NoProps /\ third.incident = 1 /\ third.roles.reporter = 0
        /\ Chosen([of |-> "told", history |-> IF third.restart THEN <<first, second>> ELSE <<first, second, third>>])

\* What a message told is in the answer (LLMExtractor, Deduplicator, synthesize_answer).
ToldReachesAnswers == case.of = "told" => \A i \in {1, 2} : ToldIsAnswered(case.history, i)
\* One thing has one id while the process runs (Deduplicator).
ThingsAreOne == case.of = "told" => OneIdPerThing(case.history)
\* Only a surer mention replaces another (Deduplicator).
OnlySurerReplaces == case.of = "told" => SurerReplaces(case.history)

(***************************************************************************)
(* The next pass after missing hops, and MCP.                              *)
(***************************************************************************)
Asked(i, causal) == [kind |-> "asked", source |-> "q", target |-> i, causal |-> causal]
AllHops == {<<"nx", "ny">>, <<"ny", "nz">>, <<"nx", "nowhere">>}
Preserved == [kind |-> "connect", source |-> "nx", target |-> "ny", causal |-> FALSE]
Decompose ==
    \E rels \in SUBSET {<<"x", "y">>, <<"y", "z">>, <<"z", "x">>}, hops \in UpTo(3, AllHops), most \in {1, 2, 3, 7},
       kind \in {"list", "object", "no_list", "junk"},
       subs \in {<<>>, <<Asked("1", FALSE), Preserved>>,
                 <<Asked("1", FALSE), Asked("2", TRUE), Asked("3", FALSE)>>}, pairs \in {<<>>, <<<<"nx", "nz">>>>} :
        Chosen([of |-> "decompose", hops |-> hops, most |-> most,
                reply |-> [kind |-> kind, subs |-> subs, pairs |-> pairs, multi_hop |-> pairs # <<>>],
                graph |-> [entities |-> <<[id |-> "x", name |-> "nx"], [id |-> "y", name |-> "ny"], [id |-> "z", name |-> "nz"]>>,
                           rels |-> {[src |-> r[1], tgt |-> r[2]] : r \in rels}]])
Items ==
    [object : {TRUE}, version : BOOLEAN, method : {"none", "unknown", "ping", "tools/call", "resources/read", "prompts/get"},
     params : {"list", "named", "falsy"}, id : {NoRpcId, BadId, 7}]
    \cup [object : {FALSE}, version : {FALSE}, method : {"none"}, params : {"falsy"}, id : {NoRpcId}]
Call ==
    \E json \in BOOLEAN, items \in UpTo(2, Items) :
        (json \/ items = <<>>) /\ Chosen([of |-> "rpc", raw |-> [json |-> json, items |-> items]])

Providers == [kind : {"items", "error", "cancelled"}, time : 0..4]
FetchAll ==
    \E n \in 0..3 : \E ps \in [1..n -> Providers], limit \in 1..3, deadline \in {2, 4} :
        Chosen([of |-> "fetch", limit |-> limit, deadline |-> deadline,
                providers |-> [i \in 1..n |-> ps[i] @@ [items |-> {i}]]])

AuditedCalls == [tenant : {"t1", "t2"}, wait : 1..2, redis : BOOLEAN, fails : {"none", "setex", "zadd", "trim"}]
Audit ==
    \E n \in 1..3 : \E calls \in [1..n -> AuditedCalls], setting \in BOOLEAN, limit \in 1..2 :
        LET time(i) == FoldLeft(LAMBDA t, j : t + calls[j].wait, 0, [j \in 1..i |-> j]) IN
        /\ calls[n].tenant = "t1"
        /\ Chosen([of |-> "audit", setting |-> setting, limit |-> limit, now |-> time(n) + 1,
                   calls |-> [i \in 1..n |-> calls[i] @@ [time |-> time(i)]]])

\* The next pass asks for missing hops (decompose_query).
HopsAreAsked ==
    case.of = "decompose" => HopsAskedAgain(case.graph, case.hops, Asked("0", FALSE), case.reply, case.most)
\* A slow provider costs its own items only (MCPHandler.fetch).
OneSlowProvider == case.of = "fetch" => OthersAreKept(case.providers, case.limit, case.deadline)
\* An auditor sees the tenant's newest calls (AuditLogger).
AuditIsSeen == case.of = "audit" => AuditIsComplete(case.calls, case.setting, "t1", case.limit, case.now, 4)
\* Each item of a batch has its own answer (JsonRpcTransport.handle).
EachIsAnswered == case.of = "rpc" => AnswersMatchItems(case.raw)

\* Evidence keeps what is attached to it: who may see it, how secret it is and which of
\* two claims stands, through facts, models, keys and groups (Governance, Truth).
EvidenceHolds ==
    /\ EvidenceIsGoverned
    /\ FactsAreOnce
    /\ SecretsStay
    /\ ClassifiedTextsStay
    /\ RotatedIsRead
    /\ RivalsYield
    /\ UnverifiedYields
    /\ OwnersAreDecided

\* The scores of different parts agree on what is good, and neither a missing score nor
\* a cut loses the best candidate (Ranking).
RankingHolds ==
    /\ ModelFailureIsNeutral
    /\ StrategiesAreFresh
    /\ BridgesAreNamed
    /\ AcceptedIsChosen
    /\ JudgeDecidesTies
    /\ FusionLifts
    /\ SeedsAreTheBest
    /\ BestSourceIsFirst
    /\ StructureStands
    /\ WeakLinksCount

\* What an answer says of its sources is so: citations, spans, certainty, the order of
\* events and which names are one (Answers).
CitationsHold ==
    /\ CitationsStay
    /\ SpansAreQuotes
    /\ CitationsCount
    /\ CausesAreFirst
    /\ LinkedIsResolved
    /\ OneRanking

\* Among refusals, fast paths and the model's reply the answer is the one the retrieved
\* evidence bears out (Synthesis).
AnswersAreGrounded ==
    /\ IncidentsAreAnswered
    /\ RefusalsArePlain
    /\ RespondersAreAdded
    /\ FallbackIsBest
    /\ ShortestPaths

\* One search, whichever of its calls fail, keeps what it found once each, and the next
\* pass asks for what it did not find (GraphSearch, Decomposition).
SearchKeepsFinds ==
    /\ OneOfEach
    /\ NothingFoundIsLost
    /\ PathEntitiesStay
    /\ ExplanationsStay
    /\ HopsAreMissing
    /\ HopsAreAsked

\* What messages tell, in any order and over a restart, ends as one thing per thing that
\* says the surest of it (Extraction).
ToldIsKept == ToldReachesAnswers /\ ThingsAreOne /\ OnlySurerReplaces

\* Of many calls none takes another's answer, items or record with it (McpServer,
\* AuditLog).
CallsAreAccounted == EachIsAnswered /\ OneSlowProvider /\ AuditIsSeen

Next ==
    /\ case = Start
    /\ Heuristic \/ Modes \/ Strategies \/ Hops \/ Tiebreak \/ Fuse \/ Rerank \/ RankPaths \/ Aggregate
       \/ Govern \/ Classify \/ Rotate \/ Decide \/ Call \/ FetchAll \/ Audit \/ Decompose
       \/ Cite \/ Mark \/ Trust \/ CrossModal \/ Walk \/ Gather \/ Pathfind \/ Explain
       \/ Relate \/ Resolve \/ Tell \/ Respond
Spec == case = Start /\ [][Next]_case
=============================================================================
