---------------------------- MODULE MCPlannedRun ----------------------------
(* Small calls of plan_graph, and the runs of those that load accepts. *)
EXTENDS MemoryPlanner, PlannedRun, SequencesExt

Pairs(n) == {e \in [from : 1..n, to : 1..n] : e.from # e.to}
SimpleEdges(es) == LET seq == SetToSeq(es) IN {SelectSeq(seq, LAMBDA e : e \in s) : s \in SUBSET es}
Call(m, e, b, in) == [n |-> m, edges |-> e, pixels |-> 1, out_pixel_bytes |-> b, input_bytes |-> in]

\* All simple graphs on three nodes, cycles included.
Calls3 == {Call(3, e, b, 1) : e \in SimpleEdges(Pairs(3)), b \in {<<2, 3, 1>>, <<0, 2, 2>>}}

\* An edge past the last node, no node at all, and a document without dimensions, as the
\* examples are.
CallsOdd ==
    {Call(2, <<[from |-> 1, to |-> 3], [from |-> 2, to |-> 1]>>, <<1, 2>>, 0),
     Call(0, <<>>, <<>>, 3),
     [Call(2, ChainEdges(2), <<4, 8>>, 0) EXCEPT !.pixels = 0]}

\* All graphs on four nodes whose edges go up, with three choices of sizes.
Calls4 == {Call(4, e, b, 1) : e \in SimpleEdges({e \in Pairs(4) : e.from < e.to}),
                              b \in {<<1, 2, 3, 1>>, <<3, 1, 1, 2>>, <<2, 2, 2, 2>>}}

\* The diamond of test_memory_planner.cpp, with its tail.
Diamond == <<[from |-> 1, to |-> 2], [from |-> 1, to |-> 3], [from |-> 2, to |-> 4],
             [from |-> 3, to |-> 4], [from |-> 4, to |-> 5]>>
Calls5 == {Call(5, Diamond, b, 1) : b \in [1..5 -> {1, 3}]}

\* The linear pipelines of MemoryPlanner::plan.
CallsLinear == {Call(Len(b), ChainEdges(Len(b)), b, 2) : b \in UNION {[1..m -> {0, 2, 4, 8}] : m \in 1..4}}

\* The formats of the outputs have the declared depth, or half of it (the display transform).
Document(c, depth) ==
    Problem(c) @@ [pixels |-> c.pixels, depth |-> depth, outputs |-> {v \in 1..c.n : c.out_pixel_bytes[v] > 0}]
Depths(b) == {b, [v \in DOMAIN b |-> b[v] \div 2]}
\* A file of the size the document declares, and a larger one.
MCImages == {[pixels |-> 1, bytes |-> 1], [pixels |-> 4, bytes |-> 8]}

MCProblems == UNION {{Document(c, d) : d \in Depths(c.out_pixel_bytes)} : c \in CallsLinear \cup Calls3 \cup CallsOdd \cup Calls4 \cup Calls5}
=============================================================================
