---------------------------- MODULE MCScheduler ----------------------------
(* Small instances of Scheduler for TLC. *)
EXTENDS Scheduler

CONSTANTS w1, w2

MCErrors == {"CPIPE_FAILED", BadIndex}

\* Every acyclic dependency relation that respects the order of the span, with
\* every choice of the nodes that fork a loop of two rows, and calls with an
\* index past the last task.
Dags == {d \in [Node -> SUBSET Node] : \A i \in Node : d[i] \subseteq 1..(i - 1)}
AllDags ==
    {[deps |-> d, par |-> p] : d \in Dags, p \in [Node -> {0, 2}]}
      \cup {[deps |-> [d EXCEPT ![N] = @ \cup {N + 1}], par |-> [i \in Node |-> 0]] : d \in Dags}

\* The chain Pipeline::run_bound builds.
Chain == [i \in Node |-> IF i = 1 THEN {} ELSE {i - 1}]
MCChainInputs == {[deps |-> Chain, par |-> p] : p \in [Node -> 0..MaxRows]}

MCInputs == AllDags \cup MCChainInputs
=============================================================================
