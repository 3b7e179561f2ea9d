--------------------------- MODULE Decomposition ---------------------------
(***************************************************************************)
(* The sub-queries of a pass (aim/agents/nodes/decomposer.py), from the    *)
(* model's reply and from what the evaluator said of the pass before.      *)
(* A sub-query is what kind it is of, the ends it speaks of, and whether   *)
(* its words speak of a cause; a model may repeat the targeted ones.       *)
(***************************************************************************)
EXTENDS Ranking

Connect(gap) == [kind |-> "connect", source |-> gap.source, target |-> gap.target, causal |-> FALSE]
Link(gap) == [kind |-> "link", source |-> gap.source, target |-> gap.target, causal |-> FALSE]

\* One or two questions for each missing hop, up to the first hop at which
\* there are enough.
TargetedGapSubqueries(feedback, most) ==
    LET about(gap) == <<Connect(gap)>> \o IF gap.ofSource \cup gap.ofTarget = {} THEN <<>> ELSE <<Link(gap)>>
        add(queries, gap) == IF Len(queries) >= most THEN queries ELSE queries \o about(gap)
    IN  FirstOf(FoldLeft(add, <<>>, feedback), most)

\* What can be read of the reply.  A list is the sub-queries alone; an object
\* without such a list keeps what else it says, and the query itself is asked.
Parsed(query, reply) ==
    [subs |-> IF reply.kind \in {"list", "object"} THEN reply.subs ELSE <<query>>,
     pairs |-> IF reply.kind \in {"object", "no_list"} THEN reply.pairs ELSE <<>>,
     multi_hop |-> reply.kind \in {"object", "no_list"} /\ reply.multi_hop]

Distinct(queries) ==
    LET first == {i \in DOMAIN queries : \A j \in 1..(i - 1) : queries[j] # queries[i]} IN
    [k \in 1..Cardinality(first) |-> queries[CHOOSE i \in first : Cardinality({j \in first : j <= i}) = k]]

TargetedFirst(targeted, subs, most) ==
    IF targeted = <<>> THEN FirstOf(subs, most) ELSE FirstOf(Distinct(targeted \o FirstOf(subs, most)), most)

DecomposeQuery(query, feedback, reply, most) ==
    LET parsed == Parsed(query, reply)
        targeted == TargetedGapSubqueries(feedback, most)
    IN  [subs |-> TargetedFirst(targeted, parsed.subs, most), pairs |-> parsed.pairs,
         multi_hop |-> \/ parsed.multi_hop \/ parsed.pairs # <<>> \/ targeted # <<>>
                       \/ Len(parsed.subs) >= 3 /\ \E q \in Range(parsed.subs) : q.causal]

\* Whatever the model replies, the next pass asks about the hops the evaluator
\* missed, the first ones where there is no room for all, and where there is a
\* neighbour to ask through, about that as well.  The model's own sub-queries
\* keep the room that is left, and the paths are searched for as of several hops.
HopsAskedAgain(graph, hops, query, reply, most) ==
    LET feedback == [i \in DOMAIN hops |-> MissingHopFeedback(graph, hops[i])]
        pass == DecomposeQuery(query, feedback, reply, most)
    IN  hops # <<>> =>
            /\ \A i \in DOMAIN hops :
                 /\ 2 * (i - 1) < most => Connect(feedback[i]) \in Range(pass.subs)
                 /\ 2 * i <= most /\ feedback[i].ofSource \cup feedback[i].ofTarget # {}
                        => Link(feedback[i]) \in Range(pass.subs)
            /\ Len(pass.subs) <= most
            /\ 2 * Len(hops) + Len(Parsed(query, reply).subs) <= most
                 => Range(Parsed(query, reply).subs) \subseteq Range(pass.subs)
            /\ pass.multi_hop
=============================================================================
