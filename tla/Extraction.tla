----------------------------- MODULE Extraction -----------------------------
(***************************************************************************)
(* From a message to an answer: what the language model and the patterns   *)
(* extract from a message (aim/extraction/llm_extractor.py), how that is    *)
(* told apart from what is known (deduplicator.py), and what the fast path  *)
(* for incidents (aim/api/routes/query.py) answers from the graph.  A name  *)
(* is <<n, form>>: the two forms "plain" and "possessive" of n are one name *)
(* to the deduplicator only.  A message tells an incident and a set of      *)
(* facts about it; the graph keeps what the ingest stores.                  *)
(***************************************************************************)
EXTENDS Integers, Sequences, FiniteSets, Functions, SequencesExt

CONSTANT ConfidenceThreshold   \* extraction_confidence_threshold, in percent

Plainly(n) == <<n, "plain">>
Malformed == -1   \* what float(), the schema or strip() refuses
NoProps == [k \in {} |-> 0]

(***************************************************************************)
(* Extraction.                                                             *)
(***************************************************************************)
AppendEntityOnce(result, type, name, props, conf) ==
    LET at == {i \in DOMAIN result.ents : result.ents[i].type = type /\ result.ents[i].name = name}
        max(a, b) == IF a > b THEN a ELSE b
    IN  IF at = {}
        THEN [result EXCEPT !.ents = Append(@, [type |-> type, name |-> name, props |-> props, conf |-> conf])]
        ELSE [result EXCEPT !.ents[CHOOSE i \in at : TRUE] = [@ EXCEPT !.props = props @@ @, !.conf = max(@, conf)]]
AppendRelationshipOnce(result, src, tgt, type) ==
    IF [src |-> src, tgt |-> tgt, type |-> type] \in Range(result.rels) THEN result
    ELSE [result EXCEPT !.rels = Append(@, [src |-> src, tgt |-> tgt, type |-> type])]

Nothing == [ents |-> <<>>, rels |-> <<>>]
\* A reply that is JSON raises on one item: an entity whose confidence is no
\* number or whose properties or name have another type than they should, or a
\* relationship likewise.
ParseRaises(raw) ==
    \/ \E e \in Range(raw.ents) : e.conf = Malformed
    \/ \E r \in Range(raw.rels) : r.src = Plainly(Malformed)

\* Of two mentions with one type and name the first counts; a relationship
\* needs both its ends among the entities.
ParseExtraction(raw) ==
    LET once == SelectSeq([i \in DOMAIN raw.ents |-> <<i, raw.ents[i]>>],
                          LAMBDA e : \A j \in 1..(e[1] - 1) : <<raw.ents[j].type, raw.ents[j].name>>
                                                              # <<e[2].type, e[2].name>>)
        ents == [k \in DOMAIN once |-> once[k][2]]
        names == {e.name : e \in Range(ents)}
    IN  [ents |-> ents, rels |-> SelectSeq(raw.rels, LAMBDA r : r.src \in names /\ r.tgt \in names)]

\* The roles a pattern finds, in the order in which they are added: the type of
\* who has it, how sure that is, and the relationships it makes.
Roles == <<[role |-> "service", type |-> "Service", conf |-> 86, to |-> {"AFFECTS", "IMPACTED", "CAUSED_BY"}, from |-> {}],
           [role |-> "reporter", type |-> "Team", conf |-> 94, to |-> {}, from |-> {"REPORTED_BY"}],
           [role |-> "lead", type |-> "Person", conf |-> 95, to |-> {}, from |-> {"RESPONDED_TO"}]>>
\* CAUSED_BY only if the message names a cause.
WithRole(result, msg, r) ==
    LET name == Plainly(msg.roles[r.role])
        incident == Plainly(msg.incident)
        types == SetToSeq(r.to \ IF msg.caused THEN {} ELSE {"CAUSED_BY"}) \o SetToSeq(r.from)
        edge(acc, t) == IF t \in r.to THEN AppendRelationshipOnce(acc, incident, name, t)
                        ELSE AppendRelationshipOnce(acc, name, incident, t)
    IN  IF msg.roles[r.role] = 0 THEN result
        ELSE FoldLeft(edge, AppendEntityOnce(result, r.type, name, NoProps, r.conf), types)
AugmentIncidentMessage(result, msg) ==
    LET props == [k \in {"incident_id"} |-> msg.incident] @@ msg.props
        start == AppendEntityOnce(result, "Incident", Plainly(msg.incident), props, 96)
    IN  IF msg.incident = 0 THEN result ELSE FoldLeft(LAMBDA acc, r : WithRole(acc, msg, r), start, Roles)

\* A reply that is no JSON, or none at all, leaves the patterns out too; so does
\* one that cannot be parsed to its end.
Extract(msg) ==
    IF ~msg.replied \/ ParseRaises(msg.raw) THEN Nothing
    ELSE AugmentIncidentMessage(ParseExtraction(msg.raw), msg)

(***************************************************************************)
(* The deduplicator.  index holds [type, norm, id, props, conf], and lives *)
(* as long as the process.  The source of a mention is the number of its   *)
(* message.                                                                *)
(***************************************************************************)
Normalize(name) == name[1]

At(index, type, norm) == {i \in DOMAIN index : index[i].type = type /\ index[i].norm = norm}
MergePropsAlways(old, oldConf, new, conf) == new @@ old
\* New keys are taken over, others only from a more confident mention.
MergeProps(old, oldConf, new, conf) == IF conf > oldConf THEN new @@ old ELSE old @@ new

\* The properties that every mention sets, whatever its confidence.
Always(name, source) == [k \in {"name", "source_uri"} |-> IF k = "name" THEN name ELSE source]

\* acc: the index, the ids of this batch by name, the entities, the next id, the
\* source.
Deduplicated(acc, e) ==
    LET norm == Normalize(e.name)
        at == At(acc.index, e.type, norm)
        old == acc.index[CHOOSE i \in at : TRUE]
        entry == IF at = {} THEN [type |-> e.type, norm |-> norm, id |-> acc.next,
                                 props |-> e.props @@ Always(e.name, acc.source), conf |-> e.conf]
                 ELSE [old EXCEPT !.props = Always(e.name, acc.source) @@ MergeProps(@, old.conf, e.props, e.conf),
                                  !.conf = IF e.conf > @ THEN e.conf ELSE @]
    IN  IF e.conf < ConfidenceThreshold THEN acc
        ELSE [acc EXCEPT !.index = IF at = {} THEN Append(@, entry) ELSE [@ EXCEPT ![CHOOSE i \in at : TRUE] = entry],
                          !.ids = [n \in {norm} |-> entry.id] @@ @,
                          !.ents = Append(@, [id |-> entry.id, type |-> e.type, props |-> entry.props]),
                          !.next = IF at = {} THEN @ + 1 ELSE @]

\* An end that is not in the batch is looked for under every type, in the order
\* in which the types were first seen.
Resolve1(acc, norm) ==
    LET known == SelectSeq(acc.index, LAMBDA e : e.norm = norm)
        typeAt(e) == CHOOSE i \in DOMAIN acc.index : acc.index[i].type = e.type
                         /\ \A j \in 1..(i - 1) : acc.index[j].type # e.type
        first == CHOOSE e \in Range(known) : \A f \in Range(known) : typeAt(e) <= typeAt(f)
    IN  IF norm \in DOMAIN acc.ids THEN {acc.ids[norm]} ELSE IF known = <<>> THEN {} ELSE {first.id}
Deduplicate(index, next, source, result) ==
    LET start == [index |-> index, ids |-> NoProps, ents |-> <<>>, next |-> next, source |-> source]
        acc == FoldLeft(Deduplicated, start, result.ents)
    IN  [index |-> acc.index, next |-> acc.next, ents |-> acc.ents,
         rels |-> UNION {[type : {r.type}, src : Resolve1(acc, Normalize(r.src)), tgt : Resolve1(acc, Normalize(r.tgt))] :
                         r \in Range(result.rels)}]

(***************************************************************************)
(* A history: messages, and restarts, after which the index is empty.      *)
(***************************************************************************)
Restart == [incident |-> 0, restart |-> TRUE]
Process(world, msg) ==
    LET d == Deduplicate(world.index, world.next, world.source, Extract(msg)) IN
    IF msg.restart THEN [world EXCEPT !.index = <<>>]
    ELSE [index |-> d.index, next |-> d.next, source |-> world.source + 1, rels |-> world.rels \cup d.rels,
          ents |-> FoldLeft(LAMBDA ents, e : [i \in {e.id} |-> e] @@ ents, world.ents, d.ents)]
EmptyWorld == [index |-> <<>>, next |-> 1, source |-> 1, rels |-> {}, ents |-> NoProps]
After(history) == FoldLeft(Process, EmptyWorld, history)

(***************************************************************************)
(* The fast path: none, or what is known of the incident.                  *)
(***************************************************************************)
\* Who leads and reported it, what it impacts and what is told of it; where there
\* is nobody, the answer says so.
IncidentAccount(world, id) ==
    LET sources(type) == {world.ents[r.src].props.name[1] : r \in {r \in world.rels : r.type = type /\ r.tgt = id}}
        targets(types) == {world.ents[r.tgt].props.name[1] : r \in {r \in world.rels : r.type \in types /\ r.src = id}}
    IN  [lead |-> sources("RESPONDED_TO"), reporter |-> sources("REPORTED_BY"),
         service |-> targets({"IMPACTED", "AFFECTS"}), props |-> world.ents[id].props]
TryExactIncident(world, incident) ==
    LET about(e) == IF "incident_id" \in DOMAIN e.props THEN e.props.incident_id = incident
                    ELSE e.props.name = Plainly(incident)
        found == {i \in DOMAIN world.ents : about(world.ents[i])}
    IN  IF found = {} THEN {} ELSE {IncidentAccount(world, CHOOSE i \in found : TRUE)}

(***************************************************************************)
(* Properties.                                                             *)
(***************************************************************************)
Told(history, incident) ==
    {m \in Range(history) : ~m.restart /\ m.replied /\ ~ParseRaises(m.raw) /\ m.incident = incident}
Uninterrupted(history) == \A m \in Range(history) : ~m.restart
\* The types under which messages speak of a name.
TypesOf(history, n) ==
    {e.type : e \in {e \in UNION {Range(m.raw.ents) : m \in {m \in Range(history) : ~m.restart}} : e.name[1] = n}}

\* Whoever a message says leads, reports or suffers an incident is in the answer
\* about it, however unsure the model was, and of two accounts the first stays; as
\* long as the model replied with JSON in which every item can be parsed (one that
\* cannot costs what the patterns found as well), the name is not that of another
\* thing too, and the process did not restart in between.
ToldIsAnswered(history, incident) ==
    Uninterrupted(history) =>
        \A m \in Told(history, incident) : \E answer \in TryExactIncident(After(history), incident) :
            /\ \A r \in Range(Roles) :
                 m.roles[r.role] # 0 /\ TypesOf(history, m.roles[r.role]) \subseteq {r.type}
                     => m.roles[r.role] \in answer[r.role]
            /\ DOMAIN m.props \subseteq DOMAIN answer.props

\* What is one thing by type and name has one id, for the index and in the graph,
\* as long as the process runs.
OneIdPerThing(history) ==
    LET world == After(history) IN
    Uninterrupted(history) =>
        \A i, j \in DOMAIN world.ents :
            world.ents[i].type = world.ents[j].type /\ world.ents[i].props.name[1] = world.ents[j].props.name[1] => i = j

\* What is known of a thing is replaced by a more confident mention only.  Its name
\* and its source are those of the newest mention instead, so that the source need
\* not be where the rest was said.
SurerReplaces(history) ==
    \A n \in 1..(Len(history) - 1) :
        LET before == After(SubSeq(history, 1, n)).index
            after == After(SubSeq(history, 1, n + 1)).index
        IN  \A b \in Range(before), a \in Range(after) :
              a.id = b.id => /\ a.conf >= b.conf
                             /\ \A k \in DOMAIN b.props \ {"name", "source_uri"} :
                                   a.props[k] # b.props[k] => a.conf > b.conf
                             /\ a.props # b.props => a.props["source_uri"] = Len(SelectSeq(
                                   SubSeq(history, 1, n + 1), LAMBDA m : ~m.restart))
=============================================================================
