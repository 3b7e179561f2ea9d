--------------------------- MODULE ReasoningLoop ---------------------------
(***************************************************************************)
(* One run of the reasoning graph (aim/agents/reasoning_agent.py): decompose,*)
(* three retrievals side by side, synthesize, evaluate, and back again while *)
(* the answer is judged insufficient.  Every node returns a whole AgentState *)
(* and LangGraph folds it into the channels field by field, with the         *)
(* reducers of aim/agents/state.py; the three retrievals start from the same *)
(* channels and are folded in one after the other.                           *)
(*                                                                         *)
(* Of the state the model keeps what the control flow reads (is_multi_hop,   *)
(* needs_reloop, loop_count, whether there is an answer) and the sources, a  *)
(* source being the retrieval that found it, in the first pass or later.     *)
(* Scores are left open: an answer may be judged good or bad at any time.    *)
(***************************************************************************)
EXTENDS Integers

CONSTANTS MaxLoops,       \* max_reasoning_loops
          MergeOrder      \* the order in which LangGraph folds the retrievals

Retrieval == {"fetch_mcp", "retrieve_vectors", "search_graph"}

NodesPerLoop == 6
LoopOverhead == 4

Smaller(a, b) == IF a < b THEN a ELSE b
Larger(a, b) == IF a < b THEN b ELSE a

\* _compute_recursion_limit
RecursionLimit == Larger(25, Smaller((MaxLoops + 1) * NodesPerLoop + LoopOverhead, 100))

ASSUME ConstantsAssumption ==
    /\ MaxLoops \in 1..5
    /\ MergeOrder \in [1..3 -> Retrieval]

Source == Retrieval \X {"first pass", "later pass"}

VARIABLES
    node,       \* the node that runs next, or how the run ended
    state,      \* the channels: the AgentState after the last superstep
    pass,       \* history: passes begun, counted up to PassBound
    steps,      \* supersteps taken
    evalTimedOut  \* history: evaluate has run into its timeout

loopVars == <<node, state, pass, steps, evalTimedOut>>

\* One pass more than the loop allows: enough to see that it was exceeded.
PassBound == MaxLoops + 2

Ended == {"done", "cut", "failed"}

AgentState ==
    [sources : SUBSET Source,          \* sources, sub_query_source_map
     multiHop : BOOLEAN,               \* is_multi_hop
     answer : BOOLEAN,                 \* answer, provenance
     reloop : BOOLEAN,                 \* needs_reloop
     loops : 0..MaxLoops]              \* loop_count

\* The channels of a run; supersteps within the recursion limit.
LoopTypeOK ==
    /\ node \in {"decompose", "retrieve", "synthesize", "evaluate"} \cup Ended
    /\ state \in AgentState
    /\ pass \in 1..PassBound
    /\ steps \in 0..RecursionLimit
    /\ evalTimedOut \in BOOLEAN

LoopInit ==
    /\ node = "decompose"
    /\ state = [sources |-> {}, multiHop |-> FALSE, answer |-> FALSE,
                reloop |-> FALSE, loops |-> 0]
    /\ pass = 1
    /\ steps = 0
    /\ evalTimedOut = FALSE

-----------------------------------------------------------------------------
(* aim/agents/state.py *)

\* _prefer_populated, for a field whose type has an empty value.
PreferPopulated(left, right, empty) == IF right = empty THEN left ELSE right

\* Mutant of Reduce: needs_reloop is reduced like a data field.
ReduceStickyReloop(left, right) ==
    [right EXCEPT
        !.sources = PreferPopulated(left.sources, @, {}),
        !.multiHop = PreferPopulated(left.multiHop, @, FALSE),
        !.answer = PreferPopulated(left.answer, @, FALSE),
        !.reloop = PreferPopulated(left.reloop, @, FALSE)]

\* What the channels hold after a node wrote `right` over `left`.  A number is
\* never empty for _is_zero, and needs_reloop takes every write.
Reduce(left, right) ==
    [right EXCEPT
        !.sources = PreferPopulated(left.sources, @, {}),
        !.multiHop = PreferPopulated(left.multiHop, @, FALSE),
        !.answer = PreferPopulated(left.answer, @, FALSE)]

-----------------------------------------------------------------------------
(* What each node may return.  A node that times out returns the state it    *)
(* was given, with nothing but a note in reasoning_steps.                    *)

\* decompose_query; its timeout, too, says whether the question is multi-hop.
Decomposed == {[state EXCEPT !.multiHop = m] : m \in BOOLEAN}

\* Mutant of Gathered: the node starts from an empty dict of sources.
GatheredAfresh(r) ==
    {state, [state EXCEPT !.sources = {<<r, IF pass = 1 THEN "first pass" ELSE "later pass">>}]}

\* fetch_mcp_context, retrieve_vectors, search_knowledge_graph: switched off,
\* circuit open, failed, timed out or without a hit; or new sources, next to
\* those of the state it was given.
Gathered(r) ==
    {state, [state EXCEPT !.sources =
                 @ \cup {<<r, IF pass = 1 THEN "first pass" ELSE "later pass">>}]}

\* synthesize_answer: timed out; or an answer, which when it is a refusal or a
\* canned one also uses up the loops.
Synthesized ==
    {state, [state EXCEPT !.answer = TRUE],
     [state EXCEPT !.answer = TRUE, !.loops = MaxLoops]}

\* The loops evaluate_answer allows.
Budget(s) == IF s.multiHop THEN Smaller(MaxLoops, 2) ELSE MaxLoops

\* evaluate_answer, given whether the score is below the threshold.
Evaluated(low) ==
    LET again == low /\ state.loops < Budget(state) IN
    [state EXCEPT !.reloop = again, !.loops = IF again THEN @ + 1 ELSE @]

-----------------------------------------------------------------------------
\* Mutant of Step: no limit on the supersteps.
StepUnlimited(n, s) ==
    /\ state' = s
    /\ steps' = steps
    /\ node' = n

\* A superstep: LangGraph stops the run when recursion_limit is reached.
Step(n, s) ==
    /\ state' = s
    /\ steps' = steps + 1
    /\ node' = IF steps + 1 = RecursionLimit /\ n \notin Ended THEN "cut" ELSE n

Decompose ==
    /\ node = "decompose"
    /\ \E s \in Decomposed : Step("retrieve", Reduce(state, s))
    /\ UNCHANGED <<pass, evalTimedOut>>

\* The three retrievals, folded in in MergeOrder.
Retrieve ==
    /\ node = "retrieve"
    /\ \E a \in Gathered(MergeOrder[1]), b \in Gathered(MergeOrder[2]),
          c \in Gathered(MergeOrder[3]) :
         Step("synthesize", Reduce(Reduce(Reduce(state, a), b), c))
    /\ UNCHANGED <<pass, evalTimedOut>>

Synthesize ==
    /\ node = "synthesize"
    /\ \E s \in Synthesized : Step("evaluate", Reduce(state, s))
    /\ UNCHANGED <<pass, evalTimedOut>>

\* _evaluate_route looks at needs_reloop whether evaluate wrote it or not.  A
\* run that ends without a provenance map is an error.
Route(s) ==
    /\ Step(IF s.reloop THEN "decompose" ELSE IF s.answer THEN "done" ELSE "failed", s)
    /\ pass' = IF s.reloop THEN Smaller(pass + 1, PassBound) ELSE pass

Evaluate ==
    /\ node = "evaluate"
    /\ \E low \in BOOLEAN : Route(Reduce(state, Evaluated(low)))
    /\ UNCHANGED evalTimedOut

EvaluateTimeout ==
    /\ node = "evaluate"
    /\ Route(state)
    /\ evalTimedOut' = TRUE

\* The language model of decompose or synthesize raises, which ends the run.
Fail ==
    /\ node \in {"decompose", "synthesize"}
    /\ node' = "failed"
    /\ UNCHANGED <<state, pass, steps, evalTimedOut>>

LoopNext ==
    \/ Decompose \/ Retrieve \/ Synthesize \/ Evaluate \/ EvaluateTimeout
    \/ Fail

LoopSpec == LoopInit /\ [][LoopNext]_loopVars

\* Every node returns or runs into its timeout.
FairSpec == LoopSpec /\ WF_loopVars(LoopNext)

-----------------------------------------------------------------------------
\* The loop stays within its budget, and so no run is cut short by the
\* recursion limit, as long as evaluate itself never times out.
BoundedUnlessTimeout ==
    ~evalTimedOut => pass <= MaxLoops + 1 /\ node # "cut"

\* A source once in the channels stays there, whichever retrieval came back
\* empty, failed or timed out since, and in whatever order they are folded in.
SourcesStay == [][state.sources \subseteq state'.sources]_loopVars

\* Every run ends, at the latest with the recursion limit.
Terminates == <>(node \in Ended)

-----------------------------------------------------------------------------
(* What comments promise and the code does not keep. *)

\* reasoning_agent.py:197 "The evaluation loop is bounded by
\* settings.max_reasoning_loops".
LoopBounded == pass <= MaxLoops + 1

\* The channels keep their types under every merge, and the loop its budget as long
\* as evaluate answers (_evaluate_route).
InBudget == LoopTypeOK /\ BoundedUnlessTimeout
=============================================================================
