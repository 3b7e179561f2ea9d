--------------------------- MODULE MCIngestSources ---------------------------
(* IngestSources in small instances. *)
EXTENDS IngestSources

DocsAre == {"a", "b", "c", "d"}
Names == {"na", "nb", "nc"}
NameOfDoc == [d \in DocsAre |-> CASE d = "a" -> "na" [] d = "b" -> "nb" [] OTHER -> "nc"]
\* a comes to name b; b names a at first and no more; c names a, and has d's name.
TextOfDoc == [d \in DocsAre |-> [v \in 1..2 |->
    CASE d = "a" -> IF v = 2 THEN {"nb"} ELSE {}
      [] d = "b" -> IF v = 1 THEN {"na"} ELSE {}
      [] OTHER -> {"na"}]]
\* A resource of each of two providers; no search finds c, and d is short.
Uris == {"x", "y"}
ProviderOf == [u \in Uris |-> IF u = "x" THEN {"a", "b"} ELSE {"d"}]
ListedUris == <<"x", "y">>
LongDocs == {"a", "b", "c"}

\* calls: of ingest_document; docs: how often each appears or changes; poll: the poller
\* runs; hooks: providers sign their webhooks; the rest are bounds.
Plan(calls, docs, poll, hks, strm, dels, fails) ==
    [calls |-> calls, docs |-> docs, poll |-> poll, hooks |-> hks, stream |-> strm,
     deletes |-> dels, failures |-> fails]
Plans == {Plan({"w1", "w2"}, [a |-> 1, b |-> 1], FALSE, FALSE, 0, 1, 1),
          Plan({"w1", "w2"}, [a |-> 2, b |-> 1], FALSE, FALSE, 0, 0, 0),
          Plan({"w1"}, [a |-> 1, b |-> 1], FALSE, TRUE, 0, 1, 1),
          Plan({"w1"}, [a |-> 1, c |-> 1, d |-> 1], FALSE, FALSE, 0, 1, 0),
          Plan({"w1"}, [a |-> 1, b |-> 1], TRUE, FALSE, 0, 0, 0),
          Plan({}, [a |-> 1, b |-> 1], TRUE, FALSE, 0, 1, 1),
          Plan({}, [a |-> 1, b |-> 1], TRUE, FALSE, 1, 0, 1),
          Plan({}, [b |-> 1, d |-> 1], TRUE, FALSE, 2, 0, 1),
          Plan({}, [b |-> 2, d |-> 1], TRUE, TRUE, 0, 0, 1)}

VARIABLE plan

MCInit == Init /\ plan \in Plans
MCNext ==
    /\ Next
    /\ UNCHANGED plan
    /\ \A w \in Callers : writer'[w] # Idle => w \in plan.calls
    /\ \A d \in Doc : latest'[d] <= (IF d \in DOMAIN plan.docs THEN plan.docs[d] ELSE 0)
    /\ poller' # Off => plan.poll
    /\ plan.hooks \/ \A h \in hooks' : ~h.signed
    /\ appended' <= plan.stream /\ deletes' <= plan.deletes /\ failures' <= plan.failures
MCSpec == MCInit /\ [][MCNext]_<<vars, plan>> /\ Fairness
=============================================================================
