----------------------------- MODULE Synthesis -----------------------------
(***************************************************************************)
(* What becomes of the model's answer (synthesize_answer of                *)
(* aim/agents/nodes/synthesizer.py): it is replaced by a refusal when the   *)
(* question is about nothing that was retrieved or about what the memory    *)
(* never holds, then by the graph's own account when an incident is asked   *)
(* for, responders are added, and what it cites is settled.  With it, the   *)
(* relationship paths of the provenance.                                   *)
(*                                                                         *)
(* A surface (a name, a title, a candidate in the question) is a sequence   *)
(* of words, and a word is a number, in the order of the alphabet.         *)
(***************************************************************************)
EXTENDS Answers

(***************************************************************************)
(* Surfaces.                                                               *)
(***************************************************************************)
The == 0
Stopwords == {The, 1}
Synonym(word) == IF word = 5 THEN 4 ELSE word
Inc == 9   \* "INC-": an incident id is Inc and its digits

Within(part, text) == \E n \in 0..Len(text) : IsPrefix(part, SubSeq(text, n + 1, Len(text)))
SurfaceText(surface) == SetToSortSeq({Synonym(w) : w \in Range(surface) \ Stopwords}, <)

Absent(candidate, known) ==
    LET name == IF candidate # <<>> /\ candidate[1] = The THEN Tail(candidate) ELSE candidate
        parts == {name} \cup {SubSeq(name, i, i + 1) : i \in 1..(Len(name) - 1)}
        alike(a, b) == a # <<>> /\ (Within(a, b) \/ Within(b, a))
    IN  \A p \in parts, k \in known : ~Within(p, k) /\ ~alike(SurfaceText(p), SurfaceText(k))

(***************************************************************************)
(* The stages.  st is the state of the query after retrieval; an answer    *)
(* has a kind, the tags it carries, the names it mentions, and whether it  *)
(* says that it does not know.                                             *)
(***************************************************************************)
Known(st) ==
    {e.name : e \in Range(st.entities)} \cup {<<e.id>> : e \in Range(st.entities)}
    \cup {s.title : s \in Range(st.sources)}
Refusal == [kind |-> "refusal", tags |-> {}, mentions |-> {}, unsure |-> TRUE]

RefusesUnknown(st) == st.asked # {} /\ \A c \in st.asked : Absent(c, Known(st))
RefusesFact(st) == st.sensitive /\ ~st.covered

NoIncident == <<>>
IncidentName(e) == IF e.incident # NoIncident THEN e.incident ELSE e.name
EntityOf(st, id) == {e \in Range(st.entities) : e.id = id}
Leads(st, incident) == UNION {EntityOf(st, r.src) : r \in {r \in Range(st.rels) : r.tgt = incident.id}}

\* None, or the account of the first incident that the question names.
ExactIncidentAnswer(st) ==
    LET found == SelectSeq(st.entities, LAMBDA e : IncidentName(e) \in st.incidents)
        sources == SelectSeq(st.sources, LAMBDA s : s.entity = Head(found).id)
    IN  IF ~st.direct \/ found = <<>> THEN {}
        ELSE {[kind |-> "exact",
               tags |-> IF sources = <<>> THEN {} ELSE {Head(sources).id},
               mentions |-> {IncidentName(Head(found))} \cup {e.name : e \in Leads(st, Head(found))},
               unsure |-> FALSE]}

\* Both refusals and the account of the incident keep the evaluator from another pass.
SettledByRefusal(st, reply) ==
    IF RefusesUnknown(st) \/ RefusesFact(st) THEN Refusal
    ELSE IF ExactIncidentAnswer(st) # {} THEN CHOOSE a \in ExactIncidentAnswer(st) : TRUE
    ELSE reply
Settled(st, reply) ==
    IF ExactIncidentAnswer(st) # {} THEN CHOOSE a \in ExactIncidentAnswer(st) : TRUE
    ELSE IF RefusesUnknown(st) \/ RefusesFact(st) THEN Refusal
    ELSE reply
LoopEnds(st, reply) == Settled(st, reply).kind # "model"

\* Those at either end of a RESPONDED_TO whose other end names an asked incident.
Responders(st) ==
    LET asked(id) == \E e \in EntityOf(st, id), inc \in st.incidents : Within(inc, e.name)
    IN  {e.name : e \in {e \in Range(st.entities) : e.name # <<>> /\ Inc \notin Range(e.name)
                            /\ \E r \in Range(st.rels) : \/ e.id = r.src /\ asked(r.tgt)
                                                         \/ e.id = r.tgt /\ asked(r.src)}}
Injected(st, answer) ==
    IF st.incidents = {} \/ answer.unsure \/ answer.mentions \cap Responders(st) # {} THEN {}
    ELSE Responders(st)

(***************************************************************************)
(* What is cited: the tags that are sources, else the sources that share   *)
(* most with the answer.  In ten-thousandths.                              *)
(***************************************************************************)
Fallback(s, words) ==
    (7000 * s.shared) \div words + (25 * s.confidence * TypeWeight[s.type]) \div 100
    + (IF s.type = "graph" THEN 500 ELSE 0)
FallbackCitations(st, answer, most) ==
    LET overlapping == SelectSeq(st.sources, LAMBDA s : s.shared > 0)
        ranked == Ascending(overlapping, LAMBDA s : -Fallback(s, st.words))
    IN  IF answer.unsure THEN {} ELSE {s.id : s \in Range(SubSeq(ranked, 1, Lesser(most, Len(ranked))))}

SynthesizeAnswer(st, reply, most) ==
    LET answer == Settled(st, reply)
        tagged == answer.tags \cap {s.id : s \in Range(st.sources)}
    IN  [kind |-> answer.kind, ends |-> LoopEnds(st, reply),
         mentions |-> answer.mentions \cup Injected(st, answer), injected |-> Injected(st, answer),
         cited |-> IF tagged # {} THEN tagged ELSE FallbackCitations(st, answer, most)]

(***************************************************************************)
(* Properties of the answer.                                               *)
(***************************************************************************)
\* Who asks for an incident that was retrieved is answered from the graph,
\* whatever the model said and whatever else in the question is unknown.
IncidentIsAnswered(st, reply, most) ==
    LET final == SynthesizeAnswer(st, reply, most) IN
    (st.direct /\ \E e \in Range(st.entities) : IncidentName(e) \in st.incidents) =>
        /\ final.kind = "exact" /\ final.ends
        /\ (\A e \in Range(st.entities) : \E s \in Range(st.sources) : s.entity = e.id) => final.cited # {}

\* A refusal cites nothing and names nobody; and what reads like something that
\* was retrieved, up to articles and synonyms, is not refused as unknown.
RefusalIsPlain(st, reply, most) ==
    LET final == SynthesizeAnswer(st, reply, most)
        reads(c) == \E e \in Range(st.entities) : SurfaceText(c) = SurfaceText(e.name) /\ SurfaceText(c) # <<>>
    IN  final.kind = "refusal" =>
          /\ final.cited = {} /\ final.mentions = {} /\ final.ends
          /\ RefusesFact(st) \/ \A c \in st.asked : ~reads(c)

\* An answer about an incident names somebody who responded to it, if anybody
\* who did was retrieved; and who is added responded to an incident that was
\* asked for, or to one whose number begins like that of one.
RespondersAreNamed(st, reply, most) ==
    LET final == SynthesizeAnswer(st, reply, most)
        to(name) == {e \in Range(st.entities) : \E p \in Range(st.entities), r \in Range(st.rels) :
                        p.name = name /\ {p.id, e.id} = {r.src, r.tgt}}
    IN  /\ Responders(st) # {} /\ ~Settled(st, reply).unsure => final.mentions \cap Responders(st) # {}
        /\ \A name \in final.injected : \E e \in to(name), inc \in st.incidents : IsPrefix(inc, e.name)

\* An answer that cites nothing itself gets the best of the sources it shares
\* words with: among those of one type and confidence, those that share most.
FallbackCitesBest(st, reply, most) ==
    LET final == SynthesizeAnswer(st, reply, most)
        better(s, t) == s.type = t.type /\ s.confidence = t.confidence /\ s.shared > t.shared
    IN  final.kind = "model" /\ reply.tags \cap {s.id : s \in Range(st.sources)} = {} =>
          /\ Cardinality(final.cited) <= most
          /\ \A s, t \in Range(st.sources) : t.id \in final.cited /\ better(s, t) => s.id \in final.cited
          /\ ~reply.unsure /\ (\E s \in Range(st.sources) : s.shared > 0) => final.cited # {}

(***************************************************************************)
(* Relationship paths: breadth first from the first entities, either way   *)
(* along the relationships, no longer than longest.  An edge is <<a, b>>.  *)
(***************************************************************************)
NoPath == <<0>>
Visit(walk, node, nodes, edges, longest) ==
    LET new == SelectSeq(nodes, LAMBDA n : ({<<node, n>>, <<n, node>>} \cap edges # {}) /\ walk.path[n] = NoPath)
        path == [n \in DOMAIN walk.path |->
                    IF n \in Range(new) THEN Append(walk.path[node], n) ELSE walk.path[n]]
    IN  [path |-> path,
         queue |-> Tail(walk.queue) \o SelectSeq(new, LAMBDA n : Len(path[n]) < longest)]
\* The path to a node is the nodes it goes through; the relationships' types
\* that the code keeps are as many.
RelationshipPaths(nodes, roots, edges, longest) ==
    LET start == [path |-> [n \in Range(nodes) |-> IF n \in Range(roots) THEN <<>> ELSE NoPath], queue |-> roots]
        step(walk, i) == IF walk.queue = <<>> THEN walk
                         ELSE Visit(walk, Head(walk.queue), nodes, edges, longest)
    IN  FoldLeft(step, start, Numbers(Len(nodes))).path

\* Nodes within n relationships of the roots.
RECURSIVE Reach(_, _, _)
Reach(roots, edges, n) ==
    IF n = 0 THEN roots
    ELSE LET near == Reach(roots, edges, n - 1) IN
         near \cup {e[1] : e \in {e \in edges : e[2] \in near}} \cup {e[2] : e \in {e \in edges : e[1] \in near}}

\* A path is a shortest one, and every node has one that is near enough.
PathsAreShortest(nodes, roots, edges, longest) ==
    LET path == RelationshipPaths(nodes, roots, edges, longest) IN
    \A n \in Range(nodes) :
        IF n \notin Reach(Range(roots), edges, longest) THEN path[n] = NoPath
        ELSE /\ path[n] # NoPath /\ n \in Reach(Range(roots), edges, Len(path[n]))
             /\ Len(path[n]) > 0 => n \notin Reach(Range(roots), edges, Len(path[n]) - 1)
=============================================================================
