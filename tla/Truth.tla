------------------------------- MODULE Truth -------------------------------
(***************************************************************************)
(* Claims that contradict each other (aim/utils/truth.py): every fact gets *)
(* an authority, facts that cannot hold together form groups, and each     *)
(* group in turn decides which of its facts is active, superseded or       *)
(* contested.  A fact may stand in two groups, and the later one writes    *)
(* over what the earlier one decided.  Scores are in hundredths.           *)
(***************************************************************************)
EXTENDS Integers, Sequences, FiniteSets, SequencesExt

CONSTANTS Exclusive   \* EXCLUSIVE_TARGET_PREDICATES

(***************************************************************************)
(* Authority.                                                              *)
(***************************************************************************)
UriPrior == [none |-> 50, jira |-> 90, adr |-> 92, github |-> 82, confluence |-> 78, slack |-> 52,
             other |-> 55]
SourcePrior == [JIRA_MCP |-> 88, NEO4J_GRAPH |-> 84, PINECONE_VECTOR |-> 62, SLACK_MCP |-> 52,
                LLM_SYNTHESIS |-> 35]
StatusBoost == [verified |-> 16, human_verified |-> 18, approved |-> 18, inferred |-> 0, unverified |-> -8]
Verified == {"verified", "human_verified", "approved"}

Larger(a, b) == IF a > b THEN a ELSE b
Clamp(x, top) == IF x < 0 THEN 0 ELSE IF x > top THEN top ELSE x

\* The best of the address and the supporting sources.
Prior(fact) == FoldSet(LAMBDA s, best : Larger(SourcePrior[s], best), UriPrior[fact.uri], fact.support)

\* In ten-thousandths: 0.60 * confidence + 0.40 * prior + boost + dated - stale.
ScoreFactAuthority(fact) ==
    Clamp(60 * fact.confidence + 40 * Prior(fact)
          + 100 * (StatusBoost[fact.status] + (IF fact.dated > 0 THEN 4 ELSE 0) - (IF fact.stale THEN 25 ELSE 0)),
          10000)

(***************************************************************************)
(* Groups, as sets of positions in the list of facts.                      *)
(***************************************************************************)
SameSubject(a, b) == a.subject = b.subject /\ a.predicate = b.predicate
SameObject(a, b) == a.object = b.object /\ a.predicate = b.predicate /\ a.predicate \in Exclusive

GroupsBy(facts, same(_, _), differ(_, _)) ==
    {g \in {{j \in DOMAIN facts : same(facts[i], facts[j])} : i \in DOMAIN facts} :
        \E i, j \in g : differ(facts[i], facts[j])}
BySubject(facts) ==
    GroupsBy(facts, SameSubject, LAMBDA a, b : a.object # b.object)
ByObject(facts) ==
    GroupsBy(facts, SameObject, LAMBDA a, b : a.subject # b.subject)
First(g) == CHOOSE i \in g : \A j \in g : i <= j
InOrder(groups) ==
    LET firsts == SetToSortSeq({First(g) : g \in groups}, <)
    IN  [k \in DOMAIN firsts |-> CHOOSE g \in groups : First(g) = firsts[k]]
\* Those of a subject come first.
Groups(facts) == InOrder(BySubject(facts)) \o InOrder(ByObject(facts))

(***************************************************************************)
(* Resolution.                                                             *)
(***************************************************************************)
\* Verification before authority before date; among equals, the order of the
\* list.
Outranks(facts, i, j) ==
    LET key(k) == <<IF facts[k].status \in Verified THEN 1 ELSE 0, ScoreFactAuthority(facts[k]), facts[k].dated>>
        a == key(i)
        b == key(j)
    IN  \/ a[1] > b[1]
        \/ a[1] = b[1] /\ a[2] > b[2]
        \/ a[1] = b[1] /\ a[2] = b[2] /\ a[3] > b[3]
        \/ a = b /\ i < j
Ordered(facts, g) ==
    SortSeq(SelectSeq([i \in DOMAIN facts |-> i], LAMBDA i : i \in g), LAMBDA i, j : Outranks(facts, i, j))

NoFact == 0
Undecided(fact) == [status |-> IF fact.stale THEN "stale" ELSE "active", winner |-> NoFact, by |-> NoFact]

\* What a group writes over what stands.  A fact that is not superseded this
\* time keeps the name of the one that superseded it before.
DecideGroup(facts, g, verdict) ==
    LET ordered == Ordered(facts, g)
        winner == ordered[1]
        gap == ScoreFactAuthority(facts[winner]) - ScoreFactAuthority(facts[ordered[2]])
    IN  IF gap >= 800 \/ facts[winner].status \in Verified
        THEN [i \in DOMAIN facts |->
                 IF i = winner THEN [verdict[i] EXCEPT !.status = "active", !.winner = i]
                 ELSE IF i \in g THEN [status |-> "superseded", winner |-> winner, by |-> winner]
                 ELSE verdict[i]]
        ELSE [i \in DOMAIN facts |->
                 IF i \in g THEN [verdict[i] EXCEPT !.status = "contested", !.winner = NoFact] ELSE verdict[i]]

ResolveTruth(facts) ==
    FoldLeft(LAMBDA verdict, g : DecideGroup(facts, g, verdict),
             [i \in DOMAIN facts |-> Undecided(facts[i])], Groups(facts))

(***************************************************************************)
(* Properties.                                                             *)
(***************************************************************************)
\* Two claims about one thing, or two subjects of what has one subject only.
Contradict(a, b) == SameSubject(a, b) /\ a.object # b.object
Compete(a, b) == SameObject(a, b) /\ a.subject # b.subject
InTwoGroups(facts, i) ==
    (\E j \in DOMAIN facts : Contradict(facts[i], facts[j])) /\ \E j \in DOMAIN facts : Compete(facts[i], facts[j])

\* Of facts that cannot hold together at most one is active; unless one of them
\* lost in one group and won in a later one.
OneRivalActive(facts) ==
    LET verdict == ResolveTruth(facts) IN
    \A i, j \in DOMAIN facts :
        (Contradict(facts[i], facts[j]) \/ Compete(facts[i], facts[j]))
        /\ ~InTwoGroups(facts, i) /\ ~InTwoGroups(facts, j) =>
            ~(verdict[i].status = "active" /\ verdict[j].status = "active")

\* No claim that nobody verified puts a verified one out of force.
VerifiedYields(facts) ==
    LET verdict == ResolveTruth(facts) IN
    \A i \in DOMAIN facts :
        facts[i].status \in Verified /\ verdict[i].by # NoFact => facts[verdict[i].by].status \in Verified

\* The last word on the owner of a thing is that of the thing's group: what it
\* made active stays so, and nothing else of the group is.
OwnerIsDecided(facts) ==
    LET verdict == ResolveTruth(facts) IN
    \A g \in ByObject(facts) :
        LET active == {i \in g : verdict[i].status = "active"} IN
        \/ \A i \in g : verdict[i].status = "contested"
        \/ Cardinality(active) = 1 /\ \A i \in active, j \in g : i = j \/ Outranks(facts, i, j)
=============================================================================
