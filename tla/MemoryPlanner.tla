--------------------------- MODULE MemoryPlanner ---------------------------
(***************************************************************************)
(* MemoryPlanner::plan_graph (runtime/MemoryPlanner.cpp): the live ranges  *)
(* it derives from a graph and hands to the colouring of ColorBuffers.     *)
(***************************************************************************)
EXTENDS Kahn

\* MemoryPlanner::plan: a linear pipeline.
ChainEdges(n) == [k \in 1..(n - 1) |-> [from |-> k, to |-> k + 1]]

\* Edges that name no node are skipped.
KnownEdges(n, edges) == SelectSeq(edges, LAMBDA e : e.from \in 1..n /\ e.to \in 1..n)

\* topological_order: node order when the graph has a cycle.
TopologicalOrder(n, edges) ==
    LET order == Sort(n, edges)
    IN  IF Len(order) = n THEN order ELSE [v \in 1..n |-> v]

\* topological_positions
Position(order, v) == CHOOSE p \in DOMAIN order : order[p] = v

\* make_live_buffers and extend_live_ranges: the largest of these is the end of
\* v's range, which excludes the position of the last reader.
RangeEnds(order, edges, v) ==
    {Position(order, v) + 1} \cup {Position(order, edges[k].to) : k \in OutEdges(edges, v)}

\* What plan_graph passes to color_buffers and make_plan for a layout of
\* input_bytes bytes and pixels pixels, out_pixel_bytes[v] bytes per pixel.
Problem(call) ==
    LET known == KnownEdges(call.n, call.edges)
        order == TopologicalOrder(call.n, known)
    IN  [n |-> call.n,
         order |-> order,
         start |-> [v \in 1..call.n |-> Position(order, v)],
         end |-> [v \in 1..call.n |-> Max(RangeEnds(order, known, v))],
         bytes |-> [v \in 1..call.n |-> call.pixels * call.out_pixel_bytes[v]],
         input_bytes |-> call.input_bytes,
         edges |-> Range(known)]
=============================================================================
