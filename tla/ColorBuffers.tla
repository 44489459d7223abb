---------------------------- MODULE ColorBuffers ----------------------------
(***************************************************************************)
(* color_buffers and make_plan (runtime/MemoryPlanner.cpp): the greedy     *)
(* colouring of buffers with given live ranges, one buffer per step.  Nodes*)
(* are 1..n, the range of node v is [start[v], end[v]), and a slot is an   *)
(* index into slot_sizes.                                                  *)
(***************************************************************************)
EXTENDS Naturals, Sequences, FiniteSetsExt

CONSTANT Problems   \* [n, order, start, end, bytes, input_bytes, edges]

ASSUME ProblemsAssumption ==
    \A q \in Problems :
        /\ q.n \in Nat
        /\ q.order \in [1..q.n -> 1..q.n]
        /\ \A i, j \in 1..q.n : q.order[i] = q.order[j] => i = j
        /\ q.start \in [1..q.n -> Nat] /\ q.end \in [1..q.n -> Nat]
        /\ q.bytes \in [1..q.n -> Nat] /\ q.input_bytes \in Nat

\* The order has every node; a range is not empty and ends no earlier than the start of any reader.
ASSUME RangesAssumption ==
    \A q \in Problems :
        /\ \A v \in 1..q.n : q.start[v] < q.end[v] /\ \E i \in 1..q.n : q.order[i] = v
        /\ \A e \in q.edges : e.from \in 1..q.n /\ e.to \in 1..q.n /\ q.start[e.to] <= q.end[e.from]

VARIABLES
    problem,
    assigned,   \* buffers assigned so far, in order: [node, slot]
    slot_sizes,
    planned,    \* make_plan has run
    peak        \* its peak_bytes

vars == <<problem, assigned, slot_sizes, planned, peak>>

Init ==
    /\ problem \in Problems
    /\ assigned = <<>>
    /\ slot_sizes = <<>>
    /\ planned = FALSE
    /\ peak = 0

\* Mutant: ranges with one position in common do not overlap.
OverlapsByTwo(u, v) == problem.start[u] + 1 < problem.end[v] /\ problem.start[v] + 1 < problem.end[u]
Overlaps(u, v) == problem.start[u] < problem.end[v] /\ problem.start[v] < problem.end[u]
\* build_interference_graph: no buffer interferes with itself.
Interferes(u, v) == u # v /\ Overlaps(u, v)

\* Mutant: only the buffer assigned last is considered.
SlotAvailableToLast(v, s) ==
    assigned # <<>> =>
        LET last == assigned[Len(assigned)] IN last.slot # s \/ ~Interferes(v, last.node)
SlotAvailable(v, s) ==
    \A i \in 1..Len(assigned) : assigned[i].slot = s => ~Interferes(v, assigned[i].node)

FirstFit(v, s) == SlotAvailable(v, s) /\ \A t \in 1..(s - 1) : ~SlotAvailable(v, t)

\* A new slot has the size of the buffer; a reused one grows to it.
Grown(s, bytes) ==
    IF s > Len(slot_sizes) THEN Append(slot_sizes, bytes)
    ELSE [slot_sizes EXCEPT ![s] = IF @ < bytes THEN bytes ELSE @]

\* One round of the loop of color_buffers: slots 0 .. slot_sizes->size() are tried.
ColorBuffer ==
    /\ Len(assigned) < problem.n
    /\ LET v == problem.order[Len(assigned) + 1]
       IN  \E s \in 1..(Len(slot_sizes) + 1) :
              /\ FirstFit(v, s)
              /\ assigned' = Append(assigned, [node |-> v, slot |-> s])
              /\ slot_sizes' = Grown(s, problem.bytes[v])
    /\ UNCHANGED <<problem, planned, peak>>

PlannedPeak == problem.input_bytes + SumFunction(slot_sizes)

\* make_plan; a graph without nodes plans the input only.
MakePlan ==
    /\ Len(assigned) = problem.n /\ ~planned
    /\ planned' = TRUE
    /\ peak' = PlannedPeak
    /\ UNCHANGED <<problem, assigned, slot_sizes>>

Terminated == planned /\ UNCHANGED vars

Next == ColorBuffer \/ MakePlan \/ Terminated
Spec == Init /\ [][Next]_vars

---------------------------------------------------------------------------
TypeOK ==
    /\ assigned \in Seq([node : 1..problem.n, slot : Nat \ {0}])
    /\ slot_sizes \in Seq(Nat)
    /\ planned \in BOOLEAN

(* Buffers whose live ranges overlap never share a physical slot. *)
SlotsDisjoint ==
    \A i, j \in 1..Len(assigned) :
        i # j /\ assigned[i].slot = assigned[j].slot => ~Overlaps(assigned[i].node, assigned[j].node)

(* Every buffer has a slot that exists and is large enough for it, although slots
   are created and grown while later buffers are placed. *)
SlotsFit ==
    \A i \in 1..Len(assigned) :
        /\ assigned[i].slot \in 1..Len(slot_sizes)
        /\ problem.bytes[assigned[i].node] <= slot_sizes[assigned[i].slot]

Slot(v) == assigned[CHOOSE i \in 1..Len(assigned) : assigned[i].node = v].slot

(* A value survives to all its readers: between the node that writes a slot and
   the last node that reads that value, no node writes the slot. *)
ValuesSurviveToReaders ==
    planned =>
        \A e \in problem.edges : \A v \in 1..problem.n :
            problem.start[e.from] < problem.start[v] /\ problem.start[v] < problem.start[e.to]
                => Slot(v) # Slot(e.from)
=============================================================================
