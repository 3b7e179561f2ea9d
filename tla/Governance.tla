----------------------------- MODULE Governance -----------------------------
(***************************************************************************)
(* Who may see what, and what may leave: the facts that ingest derives     *)
(* from relationships (aim/utils/facts.py) inherit the governance of their *)
(* evidence, access control (access_control.py) reads it, classification   *)
(* (data_classification.py) and the sovereignty guard (sovereignty.py) with *)
(* the guarded providers (aim/llm/factory.py) decide what reaches an        *)
(* external model, and stored fields are encrypted under rotating keys      *)
(* (encryption.py).  Functions of their inputs, all of them.                *)
(***************************************************************************)
EXTENDS Naturals, Sequences, FiniteSets, Functions

(***************************************************************************)
(* Access control.  acl and groups stand for the five lists of principals. *)
(***************************************************************************)
NoGovernance == [tenant |-> "", visibility |-> "", acl |-> {}, groups |-> {}]

AllowedValues(md) == md.acl \cup md.groups

CanAccess(md, caller) ==
    /\ caller.tenant = "" \/ md.tenant = "" \/ md.tenant = caller.tenant
    /\ IF AllowedValues(md) = {}
       THEN md.visibility \notin {"private", "restricted"}
       ELSE AllowedValues(md) \cap (caller.principals \cup {"public"}) # {}

FilterGraph(graph, caller) ==
    LET seen == {e \in graph.entities : CanAccess(e.gov, caller)}
        ids == {e.id : e \in seen}
    IN  [entities |-> seen,
         rels |-> {r \in graph.rels : r.src \in ids /\ r.tgt \in ids /\ CanAccess(r.gov, caller)}]

(***************************************************************************)
(* The fact layer.  An id is the tuple that is hashed.                     *)
(***************************************************************************)
FactEdgeTypes == {"ASSERTS", "EVIDENCES", "OBJECT", "SUBJECT", "SUPPORTED_BY"}
NoId == <<>>

FactId(r) ==
    IF r.fact # NoId THEN r.fact
    ELSE <<"fact", r.src, r.type, r.tgt, IF r.evidence # NoId THEN r.evidence ELSE r.id>>

IsFact(id) == id # NoId /\ id[1] = "fact"
Plain(r) == r.type \notin FactEdgeTypes /\ ~IsFact(r.src) /\ ~IsFact(r.tgt)

InheritedWithoutGroups(r, entities) ==
    LET evidence == {e \in entities : e.id = r.evidence} IN
    IF evidence = {} THEN r.gov ELSE [(CHOOSE e \in evidence : TRUE).gov EXCEPT !.groups = r.gov.groups]
\* Key by key, the relationship's own value before that of the evidence, which
\* counts only when it comes in the same batch.
Inherited(r, entities) ==
    LET evidence == {e \in entities : e.id = r.evidence}
        gov == IF evidence = {} THEN NoGovernance ELSE (CHOOSE e \in evidence : TRUE).gov
        own(mine, its, none) == IF mine # none THEN mine ELSE its
    IN  [tenant |-> own(r.gov.tenant, gov.tenant, ""),
         visibility |-> own(r.gov.visibility, gov.visibility, ""),
         acl |-> own(r.gov.acl, gov.acl, {}), groups |-> own(r.gov.groups, gov.groups, {})]

FactEdges(r, gov) ==
    LET f == FactId(r)
        edge(type, src, tgt) == [id |-> <<src, type, tgt>>, type |-> type, src |-> src, tgt |-> tgt,
                                 gov |-> gov, evidence |-> r.evidence, fact |-> f]
    IN  {edge("ASSERTS", r.src, f), edge("SUBJECT", f, r.src), edge("OBJECT", f, r.tgt)}
        \cup IF r.evidence = NoId THEN {} ELSE {edge("SUPPORTED_BY", r.evidence, f)}

\* For relationships of which no two make the same fact.
MaterializeFactLayer(graph) ==
    LET plain == {r \in graph.rels : Plain(r)}
        gov(r) == Inherited(r, graph.entities)
        facts == {[id |-> FactId(r), gov |-> gov(r)] : r \in plain}
        edges == UNION {FactEdges(r, gov(r)) : r \in plain}
    IN  [entities |-> facts \cup {e \in graph.entities : \A f \in facts : f.id # e.id},
         rels |-> {[r EXCEPT !.gov = gov(r), !.fact = FactId(r)] : r \in plain}
                  \cup edges
                  \cup {r \in graph.rels \ plain : \A e \in edges : e.id # r.id}]

\* Who sees a fact sees the evidence for it, after the filter that retrieval
\* applies: where the evidence came in the fact's batch and the relationship
\* has no governance of its own.
EvidenceGoverns(graph, caller) ==
    LET all == MaterializeFactLayer(graph)
        seen == FilterGraph(all, caller)
    IN  \A r \in graph.rels :
          (Plain(r) /\ r.gov = NoGovernance /\ \E e \in graph.entities : e.id = r.evidence) =>
              ((\E f \in seen.entities : f.id = FactId(r)) => \E e \in seen.entities : e.id = r.evidence)

\* What was materialized may be ingested again: nothing is added or changed.
FactsOnce(graph) ==
    LET once == MaterializeFactLayer(graph) IN MaterializeFactLayer(once) = once

(***************************************************************************)
(* Classification.  A text is what the three tiers find in it: a pattern   *)
(* of a secret, the levels of the semantic model, a marker such as "email".*)
(***************************************************************************)
Levels == <<"PUBLIC", "INTERNAL", "CONFIDENTIAL", "RESTRICTED">>
Rank(level) == CHOOSE i \in 1..4 : Levels[i] = level

\* The pattern settles it.
ClassifyTextByPattern(text) ==
    IF text.secret THEN {"RESTRICTED"} ELSE IF text.marker THEN {"CONFIDENTIAL"} ELSE {"INTERNAL"}
\* The tiers stop once RESTRICTED is found.
ClassifyText(text) ==
    LET strong == (IF text.secret THEN {"RESTRICTED"} ELSE {}) \cup text.semantic
        found == IF "RESTRICTED" \in strong \/ ~text.marker THEN strong
                 ELSE strong \cup {"CONFIDENTIAL"}
    IN  IF found = {} THEN {"INTERNAL"} ELSE found

\* A field is what its name says before it is what its value says.
ClassifyField(field) ==
    IF field.name # "INTERNAL" THEN field.name
    ELSE IF field.secret THEN "RESTRICTED" ELSE "INTERNAL"

FilterForLlm(fields, max) == {f \in fields : Rank(ClassifyField(f)) <= Rank(max)}
RedactForLlm(fields, max) ==
    {[f EXCEPT !.secret = @ /\ Rank(ClassifyField(f)) <= Rank(max)] : f \in fields}

\* A secret never reaches a model, unless it stands in a field that counts as
\* confidential by its name, and confidential data may be sent.
NoSecretSent(fields, max) ==
    \A f \in FilterForLlm(fields, max) \cup RedactForLlm(fields, max) :
        f.secret => max = "RESTRICTED" \/ (max = "CONFIDENTIAL" /\ f.name = "CONFIDENTIAL")

(***************************************************************************)
(* The sovereignty guard and the guarded providers.                        *)
(***************************************************************************)
Check(texts, policy) ==
    LET found == UNION {ClassifyText(texts[i]) : i \in DOMAIN texts}
        levels == IF found = {} THEN {"INTERNAL"} ELSE found
    IN  IF policy.mode = "off" \/ ~policy.external THEN "allowed"
        ELSE IF levels \subseteq policy.allowed \/ policy.mode = "audit" THEN "allowed"
        ELSE IF policy.fallback THEN "rerouted_to_local" ELSE "raises"

\* SovereigntyGuardedLLMProvider: one check of all messages.
PickDelegate(texts, policy) ==
    CASE Check(texts, policy) = "rerouted_to_local" -> "local"
      [] Check(texts, policy) = "raises" -> "nobody"
      [] OTHER -> "configured"

\* SovereigntyGuardedEmbeddingProvider: one check per text, until one is
\* rerouted or raises; the batch stays together.
PickEmbedder(texts, policy) ==
    LET each == [i \in DOMAIN texts |-> Check(<<texts[i]>>, policy)]
        stops == {i \in DOMAIN texts : each[i] # "allowed"}
        first == CHOOSE i \in stops : \A j \in stops : i <= j
    IN  IF stops = {} THEN "configured"
        ELSE IF each[first] = "raises" THEN "nobody" ELSE "local"

\* What stands in a text, whatever order the classifier looks in.
Stands(text) ==
    (IF text.secret THEN {"RESTRICTED"} ELSE {}) \cup text.semantic
    \cup (IF text.marker THEN {"CONFIDENTIAL"} ELSE {})

\* In strict mode an external provider gets no text above the policy, neither
\* as a message nor within a batch to embed; policies allow all below a level.
ClassifiedStaysIn(texts, policy) ==
    policy.mode = "strict" /\ policy.external =>
        \/ \A i \in DOMAIN texts : Stands(texts[i]) \subseteq policy.allowed
        \/ PickDelegate(texts, policy) # "configured" /\ PickEmbedder(texts, policy) # "configured"

(***************************************************************************)
(* Encryption of fields.  A value is the text and the key it is under.     *)
(***************************************************************************)
NoKey == "none"
\* The list before the single key of old; one malformed key turns encryption off.
GetFernets(settings) ==
    LET keys == IF settings.keys # <<>> THEN settings.keys
                ELSE IF settings.key # NoKey THEN <<settings.key>> ELSE <<>>
    IN  IF "malformed" \in Range(keys) THEN <<>> ELSE keys
EncryptValue(text, settings) ==
    [text |-> text, key |-> IF GetFernets(settings) = <<>> THEN NoKey ELSE GetFernets(settings)[1]]
DecryptValue(value, settings) ==
    IF value.key \in Range(GetFernets(settings)) THEN [value EXCEPT !.key = NoKey] ELSE value

\* What was written before a rotation, before encryption was turned on or under
\* the single key of old, is read as long as its key is kept and all keys are
\* well formed, and comes back as it stands after that.
RotationReads(old, new) ==
    LET written == EncryptValue("text", old)
        keys(settings) == IF settings.keys = <<>> THEN {settings.key} ELSE Range(settings.keys)
        wellFormed == "malformed" \notin keys(old) \cup keys(new)
        kept == (IF old.keys = <<>> THEN old.key ELSE old.keys[1]) \in keys(new)
    IN  /\ (wellFormed /\ kept) => DecryptValue(written, new).key = NoKey
        /\ DecryptValue(written, new).text = "text"
        /\ DecryptValue(written, new).key \in {NoKey, written.key}
=============================================================================
