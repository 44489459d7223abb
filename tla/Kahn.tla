-------------------------------- MODULE Kahn --------------------------------
(***************************************************************************)
(* Kahn's algorithm as the runtime writes it three times: twice in         *)
(* Pipeline::load and once in MemoryPlanner's topological_order.  A graph  *)
(* has nodes 1..n and a sequence of edges [from, to]; parallel edges count *)
(* separately, as in the code's adjacency lists and in-degrees.            *)
(*                                                                         *)
(* Sort(n, edges) is the result of the two loops.                          *)
(***************************************************************************)
EXTENDS Naturals, Sequences, Functions, FiniteSetsExt

\* Mutant: a self-loop is not counted.
InDegreeNoLoops(n, edges) ==
    [v \in 1..n |-> Cardinality({k \in DOMAIN edges : edges[k].to = v /\ edges[k].from # v})]
\* The in-degree counts before the loops.
InDegree(n, edges) == [v \in 1..n |-> Cardinality({k \in DOMAIN edges : edges[k].to = v})]

Start(n, edges) ==
    [indegree |-> InDegree(n, edges),
     next |-> 1,            \* the node the first loop looks at
     ready |-> <<>>,        \* the queue
     order |-> <<>>,
     todo |-> {}]           \* edges out of the node just popped, not yet followed

\* The node has no unplaced predecessor left.
Releases(degree) == degree = 0

\* The first loop pushes the nodes without predecessors.
Scan(st) ==
    [indegree |-> st.indegree,
     next |-> st.next + 1,
     ready |-> IF Releases(st.indegree[st.next]) THEN Append(st.ready, st.next) ELSE st.ready,
     order |-> st.order,
     todo |-> st.todo]

OutEdges(edges, v) == {k \in DOMAIN edges : edges[k].from = v}

\* Pop the front of the queue.
Pop(edges, st) ==
    [indegree |-> st.indegree,
     next |-> st.next,
     ready |-> Tail(st.ready),
     order |-> Append(st.order, Head(st.ready)),
     todo |-> OutEdges(edges, Head(st.ready))]

\* Follow the first edge, in adjacency order, out of the popped node.
Follow(edges, st) ==
    LET k == CHOOSE j \in st.todo : \A l \in st.todo : j <= l
        to == edges[k].to
        degree == st.indegree[to] - 1
    IN  [indegree |-> [st.indegree EXCEPT ![to] = degree],
         next |-> st.next,
         ready |-> IF Releases(degree) THEN Append(st.ready, to) ELSE st.ready,
         order |-> st.order,
         todo |-> st.todo \ {k}]

Step(n, edges, st) ==
    IF st.next <= n THEN Scan(st)
    ELSE IF st.todo # {} THEN Follow(edges, st)
    ELSE IF st.ready # <<>> THEN Pop(edges, st)
    ELSE st

\* Every node is scanned once, and popped, as every edge is followed, at most once.
Sort(n, edges) ==
    LET steps == 2 * n + Len(edges)
        run[j \in 0..steps] == IF j = 0 THEN Start(n, edges) ELSE Step(n, edges, run[j - 1])
    IN  run[steps].order
=============================================================================
