------------------------- MODULE ColorBuffersProofs -------------------------
(* The colouring of ColorBuffers is correct for all live ranges and sizes, and so are the bounds on the
   memory that a run of PlannedRun holds. *)
EXTENDS PlannedRun, FiniteSetTheorems, WellFoundedInduction, TLAPS

LEMMA Element == ASSUME NEW S, NEW q \in Seq(S), NEW i \in 1..Len(q) PROVE q[i] \in S
  OBVIOUS

\* The buffers are placed in the given order, so no node is placed twice.
InOrder ==
    /\ Len(assigned) <= problem.n
    /\ \A i \in 1..Len(assigned) : assigned[i].node = problem.order[i]

IInv == problem \in Problems /\ TypeOK /\ InOrder /\ SlotsFit /\ SlotsDisjoint

(* What one round of color_buffers appends: the next buffer of the order, in a slot
   in which it interferes with no buffer placed before. *)
LEMMA Placement ==
    ASSUME IInv, ColorBuffer
    PROVE  \E v \in 1..problem.n, s \in 1..(Len(slot_sizes) + 1) :
              /\ v = problem.order[Len(assigned) + 1]
              /\ SlotAvailable(v, s)
              /\ assigned' = Append(assigned, [node |-> v, slot |-> s])
              /\ slot_sizes' = Grown(s, problem.bytes[v])
              /\ problem.bytes[v] \in Nat
<1>1. Len(assigned) \in Nat /\ Len(assigned) + 1 \in 1..problem.n
  BY ProblemsAssumption DEF IInv, TypeOK, ColorBuffer
<1>2. problem.order[Len(assigned) + 1] \in 1..problem.n
  BY <1>1, ProblemsAssumption DEF IInv
<1> QED
  BY <1>1, <1>2, ProblemsAssumption, SMTT(30) DEF IInv, ColorBuffer, FirstFit

(* Slots only grow: the new list holds the buffer, and every old slot keeps at
   least its size. *)
LEMMA Growth ==
    ASSUME slot_sizes \in Seq(Nat), NEW s \in 1..(Len(slot_sizes) + 1), NEW b \in Nat
    PROVE  /\ Grown(s, b) \in Seq(Nat)
           /\ s \in 1..Len(Grown(s, b)) /\ b <= Grown(s, b)[s]
           /\ Len(slot_sizes) <= Len(Grown(s, b))
           /\ \A t \in 1..Len(slot_sizes) : slot_sizes[t] <= Grown(s, b)[t]
<1>1. CASE s > Len(slot_sizes)
  <2>1. s = Len(slot_sizes) + 1
    BY <1>1
  <2> QED
    BY <1>1, <2>1 DEF Grown
<1>2. CASE ~(s > Len(slot_sizes))
  <2>1. s \in 1..Len(slot_sizes)
    BY <1>2
  <2>2. slot_sizes[s] \in Nat
    BY <2>1
  <2>3. Grown(s, b) = [slot_sizes EXCEPT ![s] = IF slot_sizes[s] < b THEN b ELSE slot_sizes[s]]
    BY <1>2 DEF Grown
  <2> QED
    BY <2>1, <2>2, <2>3
<1> QED
  BY <1>1, <1>2

LEMMA Inductive == IInv /\ [Next]_vars => IInv'
<1> SUFFICES ASSUME IInv, [Next]_vars PROVE IInv'
  OBVIOUS
<1> USE DEF IInv
<1>1. CASE ColorBuffer
  <2>1. PICK v \in 1..problem.n, s \in 1..(Len(slot_sizes) + 1) :
              /\ v = problem.order[Len(assigned) + 1]
              /\ SlotAvailable(v, s)
              /\ assigned' = Append(assigned, [node |-> v, slot |-> s])
              /\ slot_sizes' = Grown(s, problem.bytes[v])
              /\ problem.bytes[v] \in Nat
    BY <1>1, Placement
  <2>2. problem' = problem /\ planned' = planned /\ Len(assigned) < problem.n
    BY <1>1 DEF ColorBuffer
  <2>3. assigned \in Seq([node : 1..problem.n, slot : Nat \ {0}]) /\ slot_sizes \in Seq(Nat)
    BY DEF TypeOK
  <2>4. problem.n \in Nat /\ Len(assigned) \in Nat
    BY <2>3, ProblemsAssumption
  <2>5. s \in Nat \ {0}
    BY <2>3
  <2>6. /\ Len(assigned') = Len(assigned) + 1
        /\ assigned'[Len(assigned) + 1] = [node |-> v, slot |-> s]
        /\ \A i \in 1..Len(assigned) : assigned'[i] = assigned[i]
    BY <2>1, <2>3
  <2>7. /\ slot_sizes' \in Seq(Nat)
        /\ s \in 1..Len(slot_sizes') /\ problem.bytes[v] <= slot_sizes'[s]
        /\ Len(slot_sizes) <= Len(slot_sizes')
        /\ \A t \in 1..Len(slot_sizes) : slot_sizes[t] <= slot_sizes'[t]
    BY <2>1, <2>3, Growth
  <2>8. assigned' \in Seq([node : 1..problem.n, slot : Nat \ {0}])
    BY <2>1, <2>3, <2>5
  <2>9. TypeOK'
    BY <2>2, <2>7, <2>8 DEF TypeOK
  <2>10. InOrder'
    BY <2>1, <2>2, <2>4, <2>6 DEF InOrder
  <2>11. SlotsFit'
    <3> SUFFICES ASSUME NEW i \in 1..Len(assigned')
                 PROVE  /\ assigned'[i].slot \in 1..Len(slot_sizes')
                        /\ problem.bytes[assigned'[i].node] <= slot_sizes'[assigned'[i].slot]
      BY <2>2 DEF SlotsFit
    <3>1. CASE i = Len(assigned) + 1
      BY <3>1, <2>6, <2>7
    <3>2. CASE i \in 1..Len(assigned)
      <4>0. PICK t : t = assigned[i].slot
        OBVIOUS
      <4>1. t \in 1..Len(slot_sizes) /\ problem.bytes[assigned[i].node] <= slot_sizes[t]
        BY <3>2, <4>0 DEF SlotsFit
      <4>2. assigned[i].node \in 1..problem.n
        <5>1. assigned[i] \in [node : 1..problem.n, slot : Nat \ {0}]
          BY <3>2, <2>3, Element, Zenon
        <5> QED
          BY <5>1
      <4>3. problem.bytes[assigned[i].node] \in Nat
        BY <4>2, ProblemsAssumption
      <4>4. t \in 1..Len(slot_sizes')
        BY <4>1, <2>3, <2>7
      <4>5. slot_sizes[t] \in Nat /\ slot_sizes'[t] \in Nat
        BY <4>1, <4>4, <2>3, <2>7, Element
      <4>6. problem.bytes[assigned[i].node] <= slot_sizes'[t]
        <5>1. slot_sizes[t] <= slot_sizes'[t]
          BY <4>1, <2>7
        <5> QED
          BY <4>1, <4>3, <4>5, <5>1, SMTT(30)
      <4>7. assigned'[i] = assigned[i]
        BY <3>2, <2>6
      <4> QED
        BY <4>0, <4>4, <4>6, <4>7
    <3> QED
      BY <3>1, <3>2, <2>4, <2>6
  <2>12. SlotsDisjoint'
    <3>1. ASSUME NEW i \in 1..Len(assigned), assigned[i].slot = s
          PROVE  ~Overlaps(v, assigned[i].node) /\ ~Overlaps(assigned[i].node, v)
      <4>1. assigned[i].node = problem.order[i] /\ i \in 1..problem.n /\ i # Len(assigned) + 1
        BY <2>2, <2>4 DEF InOrder
      <4>2. Len(assigned) + 1 \in 1..problem.n
        BY <2>2, <2>4
      <4>3. v # assigned[i].node
        BY <4>1, <4>2, <2>1, ProblemsAssumption
      <4>4. ~Interferes(v, assigned[i].node)
        BY <2>1, <3>1 DEF SlotAvailable
      <4> QED
        BY <4>3, <4>4 DEF Interferes, Overlaps
    <3> SUFFICES ASSUME NEW i \in 1..Len(assigned'), NEW j \in 1..Len(assigned'),
                        i # j, assigned'[i].slot = assigned'[j].slot
                 PROVE  ~Overlaps(assigned'[i].node, assigned'[j].node)
      BY <2>2 DEF SlotsDisjoint, Overlaps
    <3>2. CASE i \in 1..Len(assigned) /\ j \in 1..Len(assigned)
      BY <3>2, <2>6 DEF SlotsDisjoint
    <3>3. CASE i = Len(assigned) + 1 /\ j \in 1..Len(assigned)
      BY <3>1, <3>3, <2>6
    <3>4. CASE j = Len(assigned) + 1 /\ i \in 1..Len(assigned)
      BY <3>1, <3>4, <2>6
    <3> QED
      BY <3>2, <3>3, <3>4, <2>4, <2>6
  <2> QED
    BY <2>2, <2>9, <2>10, <2>11, <2>12
<1>2. CASE MakePlan \/ UNCHANGED vars
  <2>1. UNCHANGED <<problem, assigned, slot_sizes>> /\ planned' \in BOOLEAN
    BY <1>2 DEF MakePlan, vars, TypeOK
  <2> QED
    BY <2>1 DEF TypeOK, InOrder, SlotsFit, SlotsDisjoint, Overlaps
<1> QED
  BY <1>1, <1>2 DEF Next, Terminated

LEMMA InitInv == Init => IInv
<1> SUFFICES ASSUME Init PROVE IInv
  OBVIOUS
<1>1. assigned = <<>> /\ Len(assigned) = 0 /\ slot_sizes = <<>> /\ problem.n \in Nat
  BY ProblemsAssumption DEF Init
<1>2. 1..Len(assigned) = {}
  BY <1>1
<1>3. TypeOK
  <2>1. \A S : <<>> \in Seq(S)
    OBVIOUS
  <2> QED
    BY <1>1, <2>1 DEF Init, TypeOK
<1>4. InOrder /\ SlotsFit /\ SlotsDisjoint
  BY <1>1, <1>2 DEF InOrder, SlotsFit, SlotsDisjoint
<1> QED
  BY <1>3, <1>4 DEF IInv, Init

(* color_buffers is type correct and never gives one slot to two buffers that are
   live together, for every number of nodes, order and live ranges. *)
THEOREM Disjoint == Spec => [](TypeOK /\ SlotsDisjoint)
<1>1. Init => IInv
  BY InitInv
<1>2. IInv => TypeOK /\ SlotsDisjoint
  BY DEF IInv
<1> QED
  BY <1>1, <1>2, Inductive, PTL DEF Spec

(* Every buffer fits the slot it was given, at every later time. *)
THEOREM Fit == Spec => []SlotsFit
<1>1. Init => IInv
  BY InitInv
<1>2. IInv => SlotsFit
  BY DEF IInv
<1> QED
  BY <1>1, <1>2, Inductive, PTL DEF Spec

---------------------------------------------------------------------------
PlanInv == IInv /\ (planned => Len(assigned) = problem.n)

LEMMA PlanInitInv == Init => PlanInv
  BY InitInv DEF PlanInv, Init

LEMMA PlanStep == PlanInv /\ [Next]_vars => PlanInv'
<1> SUFFICES ASSUME PlanInv, [Next]_vars PROVE PlanInv'
  OBVIOUS
<1>1. IInv'
  BY Inductive DEF PlanInv
<1>2. CASE ColorBuffer
  <2>1. ~planned /\ planned' = planned
    BY <1>2 DEF ColorBuffer, PlanInv, IInv, TypeOK
  <2>. QED
    BY <1>1, <2>1 DEF PlanInv
<1>3. CASE MakePlan \/ UNCHANGED vars
  BY <1>1, <1>3 DEF MakePlan, vars, PlanInv
<1>. QED
  BY <1>2, <1>3 DEF Next, Terminated

\* In a finished plan every node has one place, which Slot finds.
LEMMA Placed ==
    ASSUME PlanInv, planned, NEW v \in 1..problem.n
    PROVE  \E i \in 1..Len(assigned) : assigned[i].node = v /\ Slot(v) = assigned[i].slot
<1>1. Len(assigned) = problem.n /\ \A i \in 1..Len(assigned) : assigned[i].node = problem.order[i]
  BY DEF PlanInv, IInv, InOrder
<1>2. \E i \in 1..problem.n : problem.order[i] = v
  BY RangesAssumption DEF PlanInv, IInv
<1>3. \E i \in 1..Len(assigned) : assigned[i].node = v
  BY <1>1, <1>2
<1>. QED
  BY <1>3 DEF Slot

(* In a finished plan no node writes the slot of a value between the node that wrote it and its readers:
   for all graphs, ranges and sizes. *)
THEOREM ValuesSurvive == Spec => []ValuesSurviveToReaders
<1>1. PlanInv => ValuesSurviveToReaders
  <2> SUFFICES ASSUME PlanInv, planned, NEW e \in problem.edges, NEW v \in 1..problem.n,
                      problem.start[e.from] < problem.start[v], problem.start[v] < problem.start[e.to],
                      Slot(v) = Slot(e.from)
               PROVE FALSE
    BY DEF ValuesSurviveToReaders
  <2> DEFINE u == e.from
  <2>1. /\ u \in 1..problem.n /\ problem.start[e.to] <= problem.end[u] /\ e.to \in 1..problem.n
        /\ problem.start \in [1..problem.n -> Nat] /\ problem.end \in [1..problem.n -> Nat]
        /\ problem.start[v] < problem.end[v]
    BY ProblemsAssumption, RangesAssumption DEF PlanInv, IInv
  <2>2. u # v /\ Overlaps(v, u)
    <3>1. PICK su, sv, st, eu, ev \in Nat :
              /\ su = problem.start[u] /\ sv = problem.start[v] /\ st = problem.start[e.to]
              /\ eu = problem.end[u] /\ ev = problem.end[v]
      BY <2>1
    <3>2. su < sv /\ sv < st /\ st <= eu /\ sv < ev
      BY <2>1, <3>1
    <3>3. su < ev /\ sv < eu /\ su # sv
      BY <3>2
    <3>. QED
      BY <3>1, <3>3 DEF Overlaps
  <2>3. PICK i \in 1..Len(assigned) : assigned[i].node = v /\ Slot(v) = assigned[i].slot
    BY Placed
  <2>4. PICK j \in 1..Len(assigned) : assigned[j].node = u /\ Slot(u) = assigned[j].slot
    BY <2>1, Placed
  <2>. QED
    BY <2>2, <2>3, <2>4 DEF PlanInv, IInv, SlotsDisjoint
<1>. QED
  BY <1>1, PlanInitInv, PlanStep, PTL DEF Spec

---------------------------------------------------------------------------
\* SumFunction(f) is the value at DOMAIN f of a function that is defined by recursion on sets of indices,
\* of which Pick takes away one at a time.  A recursive definition defines something only where a function
\* satisfies it, so the facts below begin with that.
Pick(s) == CHOOSE x \in s : TRUE
IsSum(g, f, S) == g = [s \in S |-> IF s = {} THEN 0 ELSE f[Pick(s)] + g[s \ {Pick(s)}]]
UpTo(S, n) == {s \in SUBSET S : Cardinality(s) <= n}

\* Every set of numbers has a least one.
LEMMA Least == ASSUME NEW T, T \subseteq Nat, T # {} PROVE \E x \in T : \A y \in T : x <= y
<1>1. PICK x \in T : \A y \in T : ~(<<y, x>> \in OpToRel(<, Nat))
  BY NatLessThanWellFounded, WFMin
<1>2. \A y \in T : ~(y < x)
  BY <1>1 DEF OpToRel
<1>. QED
  BY <1>2

\* Taking away one index of a finite set.
LEMMA TakenAway ==
    ASSUME NEW S, IsFiniteSet(S), NEW s \in SUBSET S, s # {}
    PROVE  /\ Pick(s) \in s /\ s \ {Pick(s)} \in SUBSET S
           /\ Cardinality(s) \in Nat /\ Cardinality(s \ {Pick(s)}) \in Nat
           /\ Cardinality(s \ {Pick(s)}) = Cardinality(s) - 1
<1>1. Pick(s) \in s
  BY DEF Pick
<1>2. IsFiniteSet(s)
  BY FS_Subset
<1>3. /\ IsFiniteSet(s \ {Pick(s)})
      /\ Cardinality(s \ {Pick(s)}) = Cardinality(s) - 1
  BY <1>1, <1>2, FS_RemoveElement
<1>4. Cardinality(s) \in Nat /\ Cardinality(s \ {Pick(s)}) \in Nat
  BY <1>2, <1>3, FS_CardinalityType
<1>. QED
  BY <1>1, <1>3, <1>4

\* The recursion is one step longer.
LEMMA SumLonger ==
    ASSUME NEW f, IsFiniteSet(DOMAIN f), NEW n \in Nat, NEW g, IsSum(g, f, UpTo(DOMAIN f, n))
    PROVE  \E h : IsSum(h, f, UpTo(DOMAIN f, n + 1))
<1> DEFINE S == DOMAIN f
           h == [s \in UpTo(S, n + 1) |-> IF s = {} THEN 0 ELSE f[Pick(s)] + g[s \ {Pick(s)}]]
<1>1. ASSUME NEW s \in UpTo(S, n) PROVE h[s] = g[s]
  <2>1. IsFiniteSet(s) /\ s \in SUBSET S /\ Cardinality(s) <= n
    BY FS_Subset DEF UpTo
  <2>2. Cardinality(s) \in Nat
    BY <2>1, FS_CardinalityType
  <2>3. s \in UpTo(S, n + 1)
    BY <2>1, <2>2 DEF UpTo
  <2>4. g[s] = IF s = {} THEN 0 ELSE f[Pick(s)] + g[s \ {Pick(s)}]
    BY DEF IsSum
  <2>. QED
    BY <2>3, <2>4
<1>2. ASSUME NEW s \in UpTo(S, n + 1), s # {} PROVE s \ {Pick(s)} \in UpTo(S, n)
  <2>1. s \in SUBSET S /\ Cardinality(s) <= n + 1
    BY DEF UpTo
  <2>2. /\ s \ {Pick(s)} \in SUBSET S
        /\ Cardinality(s) \in Nat /\ Cardinality(s \ {Pick(s)}) = Cardinality(s) - 1
    BY <1>2, <2>1, TakenAway
  <2>3. Cardinality(s \ {Pick(s)}) <= n
    BY <2>1, <2>2
  <2>. QED
    BY <2>2, <2>3 DEF UpTo
<1>3. \A s \in UpTo(S, n + 1) : h[s] = IF s = {} THEN 0 ELSE f[Pick(s)] + h[s \ {Pick(s)}]
  BY <1>1, <1>2
<1>4. IsSum(h, f, UpTo(S, n + 1))
  BY <1>3, Zenon DEF IsSum
<1>. QED
  BY <1>4

LEMMA SumExists == ASSUME NEW f, IsFiniteSet(DOMAIN f) PROVE \E g : IsSum(g, f, SUBSET DOMAIN f)
<1> DEFINE S == DOMAIN f
           T == {n \in Nat : ~ \E g : IsSum(g, f, UpTo(S, n))}
<1>1. T = {}
  <2> SUFFICES ASSUME T # {} PROVE FALSE
    OBVIOUS
  <2>1. PICK n \in T : \A k \in T : n <= k
    <3> HIDE DEF S
    <3>1. T \subseteq Nat
      OBVIOUS
    <3> HIDE DEF T
    <3>. QED
      BY <3>1, Least
  <2>2. CASE n = 0
    <3> DEFINE g == [s \in UpTo(S, 0) |-> 0]
    <3>1. ASSUME NEW s \in UpTo(S, 0) PROVE s = {}
      <4>1. IsFiniteSet(s)
        BY FS_Subset DEF UpTo
      <4>2. Cardinality(s) \in Nat /\ Cardinality(s) <= 0
        BY <4>1, FS_CardinalityType DEF UpTo
      <4>. QED
        BY <4>1, <4>2, FS_EmptySet
    <3>2. IsSum(g, f, UpTo(S, 0))
      BY <3>1 DEF IsSum
    <3>. QED
      BY <2>2, <3>2
  <2>3. CASE n # 0
    <3>1. n - 1 \in Nat /\ ~(n <= n - 1) /\ n - 1 + 1 = n
      BY <2>3
    <3>2. PICK g : IsSum(g, f, UpTo(S, n - 1))
      BY <2>1, <3>1
    <3>. QED
      BY <3>1, <3>2, SumLonger
  <2>. QED
    BY <2>2, <2>3
<1>2. Cardinality(S) \in Nat /\ \A s \in SUBSET S : Cardinality(s) <= Cardinality(S)
  BY FS_Subset, FS_CardinalityType
<1>3. UpTo(S, Cardinality(S)) = SUBSET S
  BY <1>2 DEF UpTo
<1>4. \E g : IsSum(g, f, UpTo(S, Cardinality(S)))
  BY <1>1, <1>2
<1>. QED
  BY <1>3, <1>4, Zenon

LEMMA SumIs == ASSUME NEW f, IsFiniteSet(DOMAIN f)
    PROVE \E g : IsSum(g, f, SUBSET DOMAIN f) /\ SumFunction(f) = g[DOMAIN f]
<1>1. SumFunction(f) = (CHOOSE g : IsSum(g, f, SUBSET DOMAIN f))[DOMAIN f]
  BY Zenon DEF SumFunction, SumFunctionOnSet, FoldFunctionOnSet, MapThenFoldSet, IsSum, Pick
<1>. QED
  BY <1>1, SumExists

\* Each summand is at most the sum.
LEMMA SumBounds ==
    ASSUME NEW f, IsFiniteSet(DOMAIN f), f \in [DOMAIN f -> Nat]
    PROVE  SumFunction(f) \in Nat /\ \A x \in DOMAIN f : f[x] <= SumFunction(f)
<1> DEFINE S == DOMAIN f
<1>1. PICK g : IsSum(g, f, SUBSET S) /\ SumFunction(f) = g[S]
  BY SumIs
<1> DEFINE Bounds(s) == g[s] \in Nat /\ \A x \in s : f[x] <= g[s]
           T == {n \in Nat : \E s \in SUBSET S : Cardinality(s) = n /\ ~Bounds(s)}
<1>2. T = {}
  <2> SUFFICES ASSUME T # {} PROVE FALSE
    OBVIOUS
  <2>1. PICK n \in T : \A k \in T : n <= k
    <3>1. T \subseteq Nat
      OBVIOUS
    <3> HIDE DEF T
    <3>. QED
      BY <3>1, Least
  <2>2. PICK s \in SUBSET S : Cardinality(s) = n /\ ~Bounds(s)
    OBVIOUS
  <2>3. g[s] = IF s = {} THEN 0 ELSE f[Pick(s)] + g[s \ {Pick(s)}]
    BY <1>1 DEF IsSum
  <2>4. s # {}
    BY <2>2, <2>3
  <2>5. /\ Pick(s) \in s /\ s \ {Pick(s)} \in SUBSET S
        /\ Cardinality(s \ {Pick(s)}) \in Nat
        /\ Cardinality(s \ {Pick(s)}) = Cardinality(s) - 1
    BY <2>4, TakenAway
  <2> DEFINE rest == s \ {Pick(s)}
  <2>6. g[rest] \in Nat /\ \A x \in rest : f[x] <= g[rest]
    <3>1. ~(n <= Cardinality(rest))
      BY <2>2, <2>5
    <3>2. Cardinality(rest) \notin T
      BY <2>1, <3>1
    <3>. QED
      BY <2>5, <3>2
  <2>7. f[Pick(s)] \in Nat /\ \A x \in rest : f[x] \in Nat
    BY <2>5
  <2>8. g[s] = f[Pick(s)] + g[rest]
    BY <2>3, <2>4
  <2> HIDE DEF rest
  <2>9. g[s] \in Nat /\ f[Pick(s)] <= g[s] /\ \A x \in rest : f[x] <= g[s]
    BY <2>6, <2>7, <2>8
  <2>10. \A x \in s : x = Pick(s) \/ x \in rest
    BY DEF rest
  <2>. QED
    BY <2>2, <2>9, <2>10
<1>3. Cardinality(S) \in Nat
  BY FS_CardinalityType
<1>4. Bounds(S)
  BY <1>2, <1>3
<1>. QED
  BY <1>1, <1>4

\* The sum of up to four numbers.
LEMMA SumOfFew ==
    ASSUME NEW f, IsFiniteSet(DOMAIN f), f \in [DOMAIN f -> Nat]
    PROVE  /\ DOMAIN f = {} => SumFunction(f) = 0
           /\ \A x : DOMAIN f = {x} => SumFunction(f) = f[x]
           /\ \A x, y : x # y /\ DOMAIN f = {x, y} => SumFunction(f) = f[x] + f[y]
           /\ \A x, y, z : x # y /\ x # z /\ y # z /\ DOMAIN f = {x, y, z} => SumFunction(f) = f[x] + f[y] + f[z]
           /\ \A w, x, y, z : /\ w # x /\ w # y /\ w # z /\ x # y /\ x # z /\ y # z
                              /\ DOMAIN f = {w, x, y, z}
                              => SumFunction(f) = f[w] + f[x] + f[y] + f[z]
<1> DEFINE S == DOMAIN f
<1>1. PICK g : IsSum(g, f, SUBSET S) /\ SumFunction(f) = g[S]
  BY SumIs
<1>2. \A s \in SUBSET S : g[s] = IF s = {} THEN 0 ELSE f[Pick(s)] + g[s \ {Pick(s)}]
  BY <1>1 DEF IsSum
<1>3. \A s : s # {} => Pick(s) \in s
  BY DEF Pick
<1> HIDE DEF S
<1>4. ASSUME NEW x \in S PROVE g[{x}] = f[x]
  <2>1. Pick({x}) = x /\ {x} \ {x} = {} /\ g[{}] = 0
    BY <1>2, <1>3
  <2>2. f[x] \in Nat
    BY DEF S
  <2>. QED
    BY <1>2, <2>1, <2>2
<1>5. ASSUME NEW x \in S, NEW y \in S, x # y PROVE g[{x, y}] = f[x] + f[y]
  <2>1. Pick({x, y}) \in {x, y} /\ {x, y} \ {x} = {y} /\ {x, y} \ {y} = {x}
    BY <1>3, <1>5
  <2>2. f[x] \in Nat /\ f[y] \in Nat
    BY DEF S
  <2>3. g[{x, y}] = f[Pick({x, y})] + g[{x, y} \ {Pick({x, y})}]
    BY <1>2
  <2>4. g[{x}] = f[x] /\ g[{y}] = f[y]
    BY <1>4
  <2>5. g[{x, y}] = f[x] + g[{y}] \/ g[{x, y}] = f[y] + g[{x}]
    BY <2>1, <2>3, Zenon
  <2>. QED
    BY <2>2, <2>4, <2>5
<1>6. ASSUME NEW x \in S, NEW y \in S, NEW z \in S, x # y, x # z, y # z PROVE g[{x, y, z}] = f[x] + f[y] + f[z]
  <2>1. Pick({x, y, z}) \in {x, y, z} /\ {x, y, z} \ {x} = {y, z} /\ {x, y, z} \ {y} = {x, z} /\ {x, y, z} \ {z} = {x, y}
    BY <1>3, <1>6
  <2>2. f[x] \in Nat /\ f[y] \in Nat /\ f[z] \in Nat
    BY DEF S
  <2>3. g[{x, y, z}] = f[Pick({x, y, z})] + g[{x, y, z} \ {Pick({x, y, z})}]
    BY <1>2
  <2>4. g[{x, y}] = f[x] + f[y] /\ g[{x, z}] = f[x] + f[z] /\ g[{y, z}] = f[y] + f[z]
    BY <1>5, <1>6
  <2>5. \/ g[{x, y, z}] = f[x] + g[{y, z}]
        \/ g[{x, y, z}] = f[y] + g[{x, z}]
        \/ g[{x, y, z}] = f[z] + g[{x, y}]
    BY <2>1, <2>3, Zenon
  <2>. QED
    BY <2>2, <2>4, <2>5
<1>7. S = {} => g[S] = 0
  BY <1>2
<1>8. ASSUME NEW w \in S, NEW x \in S, NEW y \in S, NEW z \in S, w # x, w # y, w # z, x # y, x # z, y # z
      PROVE  g[{w, x, y, z}] = f[w] + f[x] + f[y] + f[z]
  <2> DEFINE all == {w, x, y, z}
  <2>1. Pick(all) \in all
    BY <1>3
  <2>2. all \ {w} = {x, y, z} /\ all \ {x} = {w, y, z} /\ all \ {y} = {w, x, z} /\ all \ {z} = {w, x, y}
    BY <1>8
  <2>3. f[w] \in Nat /\ f[x] \in Nat /\ f[y] \in Nat /\ f[z] \in Nat
    BY DEF S
  <2>4. g[all] = f[Pick(all)] + g[all \ {Pick(all)}]
    BY <1>2
  <2>5. /\ g[{x, y, z}] = f[x] + f[y] + f[z] /\ g[{w, y, z}] = f[w] + f[y] + f[z]
        /\ g[{w, x, z}] = f[w] + f[x] + f[z] /\ g[{w, x, y}] = f[w] + f[x] + f[y]
    <3>1. g[{x, y, z}] = f[x] + f[y] + f[z]
      BY <1>6, <1>8
    <3>2. g[{w, y, z}] = f[w] + f[y] + f[z]
      BY <1>6, <1>8
    <3>3. g[{w, x, z}] = f[w] + f[x] + f[z]
      BY <1>6, <1>8
    <3>4. g[{w, x, y}] = f[w] + f[x] + f[y]
      BY <1>6, <1>8
    <3>. QED
      BY <3>1, <3>2, <3>3, <3>4
  <2>6. Pick(all) = w \/ Pick(all) = x \/ Pick(all) = y \/ Pick(all) = z
    BY <2>1
  <2> HIDE DEF all
  <2>7. \/ g[all] = f[w] + g[{x, y, z}]
        \/ g[all] = f[x] + g[{w, y, z}]
        \/ g[all] = f[y] + g[{w, x, z}]
        \/ g[all] = f[z] + g[{w, x, y}]
    BY <2>2, <2>4, <2>6, Zenon
  <2>8. g[all] = f[w] + f[x] + f[y] + f[z]
    BY <2>3, <2>5, <2>7
  <2>. QED
    BY <2>8 DEF all
<1>. QED
  <2>1. SumFunction(f) = g[S] /\ S = DOMAIN f
    BY <1>1 DEF S
  <2>2. ASSUME NEW x, S = {x} PROVE SumFunction(f) = f[x]
    BY <1>4, <2>1, <2>2
  <2>3. ASSUME NEW x, NEW y, x # y, S = {x, y} PROVE SumFunction(f) = f[x] + f[y]
    BY <1>5, <2>1, <2>3
  <2>4. ASSUME NEW x, NEW y, NEW z, x # y, x # z, y # z, S = {x, y, z} PROVE SumFunction(f) = f[x] + f[y] + f[z]
    <3>1. x \in S /\ y \in S /\ z \in S
      BY <2>4
    <3>2. g[{x, y, z}] = f[x] + f[y] + f[z]
      BY <1>6, <2>4, <3>1
    <3>. QED
      BY <2>1, <2>4, <3>2
  <2>5. ASSUME NEW w, NEW x, NEW y, NEW z, w # x, w # y, w # z, x # y, x # z, y # z, S = {w, x, y, z}
        PROVE  SumFunction(f) = f[w] + f[x] + f[y] + f[z]
    <3>1. w \in S /\ x \in S /\ y \in S /\ z \in S
      BY <2>5
    <3>2. g[{w, x, y, z}] = f[w] + f[x] + f[y] + f[z]
      BY <1>8, <2>5, <3>1
    <3>. QED
      BY <2>1, <2>5, <3>2
  <2>. QED
    BY <1>7, <2>1, <2>2, <2>3, <2>4, <2>5

---------------------------------------------------------------------------
(* A run holds source_output, what replaced it, the current buffer and the output of the node
   at work; every other buffer has an output port, so its planned bytes are enough for it. *)
RunInv ==
    /\ PlanInv
    /\ planned => peak = problem.input_bytes + SumFunction(slot_sizes)
    /\ at \in 0..problem.n /\ image \in [pixels : Nat, bytes : Nat]
    /\ buffers # {} => planned /\ 0 \in buffers
    /\ IF read THEN buffers # {} ELSE buffers \subseteq {0}
    /\ \A b \in buffers : \/ b \in {0, Replacement}
                          \/ HasOutput(b) /\ (b = current \/ (at < problem.n /\ b = Upcoming))

LEMMA RunInitInv == RunInit => RunInv
<1> SUFFICES ASSUME RunInit PROVE RunInv
  OBVIOUS
<1>1. PlanInv /\ problem.n \in Nat
  BY PlanInitInv, ProblemsAssumption DEF RunInit, Init
<1>. QED
  BY <1>1 DEF RunInv, RunInit, Init, NoImage

LEMMA RunStep == RunInv /\ [RunNext]_<<vars, runVars>> => RunInv'
<1> SUFFICES ASSUME RunInv, [RunNext]_<<vars, runVars>> PROVE RunInv'
  OBVIOUS
<1>1. problem \in Problems /\ problem.n \in Nat /\ problem.pixels \in Nat /\ problem.input_bytes \in Nat
  BY ProblemsAssumption, RunsAssumption DEF RunInv, PlanInv, IInv
<1>2. [Next]_vars
  BY DEF RunNext, Plan, RunSource, SourceReturns, StartNode, FinishNode, RunSink, RunReturns, Refused, Next
<1>3. PlanInv'
  BY <1>2, PlanStep DEF RunInv
<1>4. CASE Plan
  <2>1. ~planned /\ buffers = {} /\ ~read /\ UNCHANGED <<problem, at, read, image, current, buffers>>
    BY <1>4 DEF Plan, ColorBuffer, MakePlan, RunInv, PlanInv, runVars
  <2>2. planned' => peak' = problem'.input_bytes + SumFunction(slot_sizes')
    BY <1>4, <2>1 DEF Plan, ColorBuffer, MakePlan, PlannedPeak
  <2>. QED
    BY <1>3, <2>1, <2>2 DEF RunInv
<1>5. CASE UNCHANGED vars /\ ~Plan
  <2>1. UNCHANGED <<problem, planned, peak, slot_sizes>>
    BY <1>5 DEF vars
  <2>2. planned' => peak' = problem'.input_bytes + SumFunction(slot_sizes')
    BY <2>1 DEF RunInv
  <2>3. Replacement' = Replacement /\ \A b : HasOutput(b)' <=> HasOutput(b)
    BY <2>1 DEF Replacement, HasOutput
  <2>4. CASE RunSource
    <3>1. planned /\ buffers' = {0} /\ UNCHANGED <<at, image>>
      BY <2>4 DEF RunSource
    <3>. QED
      BY <1>3, <2>1, <2>2, <3>1 DEF RunInv
  <2>5. CASE SourceReturns
    <3>1. /\ buffers # {} /\ at' = at
          /\ \/ buffers' = buffers /\ current' = current
             \/ buffers' = buffers \cup {Replacement}
      BY <2>5 DEF SourceReturns
    <3>2. image' \in [pixels : Nat, bytes : Nat]
      BY <1>1, <2>5, RunsAssumption DEF SourceReturns
    <3>3. ~read /\ read'
      BY <2>5 DEF SourceReturns
    <3>4. buffers' # {} /\ 0 \in buffers' /\ planned /\ \A b \in buffers' : b \in {0, Replacement}
      BY <3>1, <3>3 DEF RunInv
    <3>. QED
      BY <1>3, <2>1, <2>2, <2>3, <3>1, <3>2, <3>3, <3>4 DEF RunInv
  <2>6. CASE StartNode
    <3>1. /\ at < problem.n /\ read /\ HasOutput(Upcoming) /\ UNCHANGED <<at, read, image, current>>
          /\ buffers' = buffers \cup {Upcoming} /\ Upcoming' = Upcoming
      BY <2>1, <2>6 DEF StartNode, Upcoming
    <3>. QED
      BY <1>3, <2>1, <2>2, <2>3, <3>1 DEF RunInv
  <2>7. CASE FinishNode
    <3>1. /\ at < problem.n /\ Upcoming \in buffers /\ current' = Upcoming /\ at' = at + 1 /\ UNCHANGED <<read, image>>
          /\ buffers' = (buffers \cap {0, Replacement}) \cup {Upcoming}
      BY <2>7 DEF FinishNode, Released
    <3>2. at' \in 0..problem.n
      BY <1>1, <3>1 DEF RunInv
    <3>3. planned /\ 0 \in buffers' /\ (Upcoming \in {0, Replacement} \/ HasOutput(Upcoming))
      BY <3>1 DEF RunInv
    <3>4. Upcoming # 0
      <4>1. problem.order \in [1..problem.n -> 1..problem.n] /\ at + 1 \in 1..problem.n
        BY <1>1, <3>1, ProblemsAssumption DEF RunInv
      <4>2. Upcoming \in 1..problem.n
        BY <4>1 DEF Upcoming
      <4>. QED
        BY <1>1, <4>2
    <3>5. read
      BY <3>1, <3>4 DEF RunInv
    <3>. QED
      BY <1>3, <2>1, <2>2, <2>3, <3>1, <3>2, <3>3, <3>5 DEF RunInv
  <2>8. CASE RunSink
    <3>1. at < problem.n /\ ~HasOutput(Upcoming) /\ UNCHANGED <<read, image, current, buffers>> /\ at' = at + 1
      BY <2>8 DEF RunSink
    <3>2. \A b \in buffers : b \in {0, Replacement} \/ (HasOutput(b) /\ b = current)
      BY <3>1 DEF RunInv
    <3>3. at' \in 0..problem.n
      BY <1>1, <3>1 DEF RunInv
    <3>. QED
      BY <1>3, <2>1, <2>2, <2>3, <3>1, <3>2, <3>3 DEF RunInv
  <2>9. CASE RunReturns
    <3>1. at' = 0 /\ image' = NoImage /\ buffers' = {} /\ ~read'
      BY <2>9 DEF RunReturns
    <3>. QED
      BY <1>1, <1>3, <2>1, <2>2, <3>1 DEF RunInv, NoImage
  <2>10. CASE UNCHANGED <<vars, runVars>>
    <3>1. UNCHANGED <<at, read, image, current, buffers>> /\ Upcoming' = Upcoming
      BY <2>1, <2>10 DEF runVars, Upcoming
    <3>. QED
      BY <1>3, <2>1, <2>2, <2>3, <3>1 DEF RunInv
  <2>. QED
    BY <1>5, <2>4, <2>5, <2>6, <2>7, <2>8, <2>9, <2>10 DEF RunNext, Refused
<1>. QED
  BY <1>4, <1>5 DEF RunNext, RunSource, SourceReturns, StartNode, FinishNode, RunSink, RunReturns, Refused

\* The run that follows a plan leaves the plan alone.
THEOREM RunKeepsPlan == RunSpec => Spec
<1>1. RunInit => Init
  BY DEF RunInit
<1>2. [RunNext]_<<vars, runVars>> => [Next]_vars
  BY DEF RunNext, Plan, RunSource, SourceReturns, StartNode, FinishNode, RunSink, RunReturns, Refused, Next
<1>. QED
  BY <1>1, <1>2, PTL DEF RunSpec, Spec

\* The buffers that a node has planned for it fit into the planned memory.
LEMMA WithinPlan ==
    ASSUME RunInv, planned
    PROVE  /\ SumFunction(slot_sizes) \in Nat /\ problem.input_bytes \in Nat
           /\ peak = problem.input_bytes + SumFunction(slot_sizes)
           /\ \A v \in 1..problem.n : problem.bytes[v] \in Nat /\ problem.bytes[v] <= SumFunction(slot_sizes)
<1>1. slot_sizes \in Seq(Nat) /\ PlanInv
  BY DEF RunInv, PlanInv, IInv, TypeOK
<1>2. DOMAIN slot_sizes = 1..Len(slot_sizes) /\ Len(slot_sizes) \in Nat /\ slot_sizes \in [DOMAIN slot_sizes -> Nat]
  BY <1>1
<1>3. IsFiniteSet(DOMAIN slot_sizes)
  <2>1. 1 \in Int /\ Len(slot_sizes) \in Int
    BY <1>2
  <2>. QED
    BY <1>2, <2>1, FS_Interval, Zenon
<1>4. /\ SumFunction(slot_sizes) \in Nat
      /\ \A t \in DOMAIN slot_sizes : slot_sizes[t] <= SumFunction(slot_sizes)
  BY <1>2, <1>3, SumBounds
<1>5. /\ problem.input_bytes \in Nat /\ problem.bytes \in [1..problem.n -> Nat]
      /\ peak = problem.input_bytes + SumFunction(slot_sizes)
  BY ProblemsAssumption DEF RunInv, PlanInv, IInv
<1>6. ASSUME NEW v \in 1..problem.n PROVE problem.bytes[v] <= SumFunction(slot_sizes)
  <2>1. PICK i \in 1..Len(assigned) : assigned[i].node = v
    BY <1>1, Placed
  <2>2. PICK t \in 1..Len(slot_sizes) : problem.bytes[v] <= slot_sizes[t]
    BY <1>1, <2>1 DEF PlanInv, IInv, SlotsFit
  <2>3. problem.bytes[v] \in Nat /\ slot_sizes[t] \in Nat
    BY <1>1, <1>5, Element
  <2>. QED
    BY <1>2, <1>4, <2>2, <2>3
<1>. QED
  BY <1>4, <1>5, <1>6

(* The buffers that can exist at a time. *)
Added(b) == b \in problem.outputs \cup {Replacement}
LEMMA FewBuffers ==
    ASSUME RunInv
    PROVE  \/ buffers = {} \/ buffers = {0}
           \/ \E u : Added(u) /\ buffers = {0, u}
           \/ \E u, w : Added(u) /\ w \in problem.outputs /\ u # w /\ buffers = {0, u, w}
           \/ \E u, w \in problem.outputs : u # w /\ buffers = {0, Replacement, u, w}
<1> DEFINE Nodes == buffers \cap problem.outputs
<1>1. \A b \in buffers : b \in {0, Replacement} \/ (b \in problem.outputs /\ (b = current \/ b = Upcoming))
  BY DEF RunInv, HasOutput
<1>2. buffers = {} \/ 0 \in buffers
  BY DEF RunInv
<1>3. Nodes = {} \/ (\E u \in problem.outputs : Nodes = {u})
        \/ (\E u, w \in problem.outputs : u # w /\ Nodes = {u, w})
  <2>0. problem \in Problems /\ 0 \notin problem.outputs /\ Replacement \notin problem.outputs
    BY ProblemsAssumption, RunsAssumption DEF RunInv, PlanInv, IInv, Replacement
  <2>1. \A b \in Nodes : b \in problem.outputs /\ (b = current \/ b = Upcoming)
    BY <1>1, <2>0
  <2>2. CASE current \in Nodes /\ Upcoming \in Nodes /\ current # Upcoming
    <3>1. Nodes = {current, Upcoming} /\ current \in problem.outputs /\ Upcoming \in problem.outputs
      BY <2>1, <2>2
    <3>. QED
      BY <2>2, <3>1
  <2>3. CASE current \in Nodes /\ (Upcoming \notin Nodes \/ current = Upcoming)
    <3>1. Nodes = {current} /\ current \in problem.outputs
      BY <2>1, <2>3
    <3>. QED
      BY <3>1
  <2>4. CASE current \notin Nodes /\ Upcoming \in Nodes
    <3>1. Nodes = {Upcoming} /\ Upcoming \in problem.outputs
      BY <2>1, <2>4
    <3>. QED
      BY <3>1
  <2>5. CASE current \notin Nodes /\ Upcoming \notin Nodes
    BY <2>1, <2>5
  <2>. QED
    BY <2>2, <2>3, <2>4, <2>5
<1>4. buffers = (buffers \cap {0, Replacement}) \cup Nodes
  BY <1>1
<1> HIDE DEF Nodes
<1>5. CASE Replacement \in buffers
  <2>1. buffers = {0, Replacement} \cup Nodes
    BY <1>2, <1>4, <1>5
  <2>2. CASE Nodes = {}
    <3>1. Added(Replacement) /\ buffers = {0, Replacement}
      BY <2>1, <2>2 DEF Added
    <3>. QED
      BY <3>1
  <2>3. ASSUME NEW u \in problem.outputs, Nodes = {u} PROVE u # Replacement /\ buffers = {0, Replacement, u}
    <3>1. problem \in Problems /\ Replacement \notin problem.outputs
      BY ProblemsAssumption, RunsAssumption DEF RunInv, PlanInv, IInv, Replacement
    <3>. QED
      BY <2>1, <2>3, <3>1
  <2>4. ASSUME NEW u \in problem.outputs, NEW w \in problem.outputs, Nodes = {u, w} PROVE buffers = {0, Replacement, u, w}
    BY <2>1, <2>4
  <2>5. Added(Replacement)
    BY DEF Added
  <2>6. ASSUME NEW u \in problem.outputs, Nodes = {u}
        PROVE  \E x, w : Added(x) /\ w \in problem.outputs /\ x # w /\ buffers = {0, x, w}
    BY <2>3, <2>5, <2>6
  <2>. QED
    BY <1>3, <2>2, <2>4, <2>6
<1>6. CASE Replacement \notin buffers
  <2>1. buffers = {} \/ buffers = {0} \cup Nodes
    BY <1>2, <1>4, <1>6
  <2>2. \A u \in problem.outputs : Added(u)
    BY DEF Added
  <2>3. CASE buffers = {0} \cup Nodes /\ Nodes = {}
    BY <2>3
  <2>4. ASSUME NEW u \in problem.outputs, Nodes = {u}, buffers = {0} \cup Nodes PROVE Added(u) /\ buffers = {0, u}
    BY <2>2, <2>4
  <2>5. ASSUME NEW u \in problem.outputs, NEW w \in problem.outputs, Nodes = {u, w}, buffers = {0} \cup Nodes
        PROVE  Added(u) /\ buffers = {0, u, w}
    BY <2>2, <2>5
  <2>. QED
    BY <1>3, <2>1, <2>3, <2>4, <2>5
<1>. QED
  BY <1>5, <1>6

LEMMA Scaled == ASSUME NEW a \in Nat, NEW b \in Nat, NEW c \in Nat, a <= b PROVE a * c \in Nat /\ a * c <= b * c
<1>1. PICK d \in Nat : b = a + d
  <2>1. b - a \in Nat /\ b = a + (b - a)
    OBVIOUS
  <2>. QED
    BY <2>1
<1>2. b * c = a * c + d * c
  BY <1>1
<1>3. a * c \in Nat /\ d * c \in Nat
  OBVIOUS
<1>. QED
  BY <1>2, <1>3

\* The bytes of a buffer, against the plan.
LEMMA BytesPlanned ==
    ASSUME RunInv, planned
    PROVE  /\ Bytes(0) = problem.input_bytes
           /\ \A u : Added(u) => u # 0 /\ Bytes(u) \in Nat
           /\ AsDeclared => \A u \in problem.outputs : Bytes(u) <= SumFunction(slot_sizes)
           /\ AsDeclared => Bytes(Replacement) <= problem.input_bytes
<1>1. /\ problem \in Problems /\ problem.n \in Nat /\ problem.pixels \in Nat /\ problem.outputs \subseteq 1..problem.n
      /\ problem.depth \in [1..problem.n -> Nat] /\ image.pixels \in Nat /\ image.bytes \in Nat
  BY ProblemsAssumption, RunsAssumption DEF RunInv, PlanInv, IInv
<1>2. Replacement # 0 /\ Replacement \notin problem.outputs /\ 0 \notin problem.outputs
  BY <1>1 DEF Replacement
<1>3. Bytes(0) = problem.input_bytes /\ Bytes(Replacement) = image.bytes
  BY <1>2 DEF Bytes
<1>4. ASSUME NEW u \in problem.outputs
      PROVE  /\ u \in 1..problem.n /\ problem.depth[u] \in Nat /\ Bytes(u) = image.pixels * problem.depth[u]
             /\ u # 0 /\ Bytes(u) \in Nat
  <2>1. u # 0 /\ u # Replacement /\ u \in 1..problem.n /\ problem.depth[u] \in Nat
    BY <1>1, <1>2
  <2>2. Bytes(u) = image.pixels * problem.depth[u]
    BY <2>1 DEF Bytes
  <2>. QED
    BY <1>1, <2>1, <2>2
<1>5. ASSUME AsDeclared, NEW u \in problem.outputs PROVE Bytes(u) <= SumFunction(slot_sizes)
  <2>1. image.pixels * problem.depth[u] <= problem.pixels * problem.depth[u]
    BY <1>1, <1>4, <1>5, Scaled DEF AsDeclared
  <2>2. problem.pixels * problem.depth[u] <= problem.bytes[u]
    BY <1>1, RunsAssumption
  <2>3. problem.bytes[u] \in Nat /\ problem.bytes[u] <= SumFunction(slot_sizes) /\ SumFunction(slot_sizes) \in Nat
    BY <1>4, WithinPlan
  <2>4. image.pixels * problem.depth[u] \in Nat /\ problem.pixels * problem.depth[u] \in Nat
    BY <1>1, <1>4
  <2>. QED
    BY <1>4, <2>1, <2>2, <2>3, <2>4
<1>. QED
  BY <1>1, <1>2, <1>3, <1>4, <1>5 DEF Added, AsDeclared

LEMMA OneMore == ASSUME NEW S, IsFiniteSet(S), NEW x, x \notin S
    PROVE IsFiniteSet(S \cup {x}) /\ Cardinality(S \cup {x}) = Cardinality(S) + 1
<1>1. Cardinality(S \cup {x}) = IF x \in S THEN Cardinality(S) ELSE Cardinality(S) + 1
  BY FS_AddElement, Zenon
<1>2. IsFiniteSet(S \cup {x})
  BY FS_AddElement, Zenon
<1>. QED
  BY <1>1, <1>2, Zenon

LEMMA TwoElements == ASSUME NEW x, NEW y, x # y PROVE IsFiniteSet({x, y}) /\ Cardinality({x, y}) = 2
<1>1. {x, y} = {x} \cup {y} /\ y \notin {x}
  OBVIOUS
<1>2. IsFiniteSet({x}) /\ Cardinality({x}) = 1
  BY FS_Singleton
<1>3. IsFiniteSet({x} \cup {y}) /\ Cardinality({x} \cup {y}) = Cardinality({x}) + 1
  BY <1>1, <1>2, OneMore, Zenon
<1>. QED
  BY <1>1, <1>2, <1>3

LEMMA ThreeElements == ASSUME NEW x, NEW y, NEW z, x # y, x # z, y # z
    PROVE IsFiniteSet({x, y, z}) /\ Cardinality({x, y, z}) = 3
<1>1. {x, y, z} = {x, y} \cup {z} /\ z \notin {x, y}
  OBVIOUS
<1>2. IsFiniteSet({x, y}) /\ Cardinality({x, y}) = 2
  BY TwoElements, Zenon
<1>3. IsFiniteSet({x, y} \cup {z}) /\ Cardinality({x, y} \cup {z}) = Cardinality({x, y}) + 1
  BY <1>1, <1>2, OneMore, Zenon
<1>. QED
  BY <1>1, <1>2, <1>3

LEMMA FourElements == ASSUME NEW w, NEW x, NEW y, NEW z, w # x, w # y, w # z, x # y, x # z, y # z
    PROVE IsFiniteSet({w, x, y, z}) /\ Cardinality({w, x, y, z}) = 4
<1>1. {w, x, y, z} = {w, x, y} \cup {z} /\ z \notin {w, x, y}
  OBVIOUS
<1>2. IsFiniteSet({w, x, y}) /\ Cardinality({w, x, y}) = 3
  BY ThreeElements, Zenon
<1>3. IsFiniteSet({w, x, y} \cup {z}) /\ Cardinality({w, x, y} \cup {z}) = Cardinality({w, x, y}) + 1
  BY <1>1, <1>2, OneMore, Zenon
<1>. QED
  BY <1>1, <1>2, <1>3

(* A run holds at most four buffers at a time; if the image is no larger than the document declares,
   of at most twice the bytes that were planned: for pipelines of any length, all graphs and all sizes. *)
THEOREM TwicePlan == RunSpec => []WithinTwicePlan
<1>1. RunInv => WithinTwicePlan
  <2> SUFFICES ASSUME RunInv, buffers # {}
               PROVE  Cardinality(buffers) <= 4 /\ (AsDeclared => LiveBytes <= 2 * peak)
    BY DEF WithinTwicePlan
  <2> DEFINE f == [b \in buffers |-> Bytes(b)]
             in == problem.input_bytes
             total == SumFunction(slot_sizes)
  <2>0. planned
    BY DEF RunInv
  <2>1. total \in Nat /\ in \in Nat /\ peak = in + total
    BY <2>0, WithinPlan
  <2>2. /\ Bytes(0) = in
        /\ \A u : Added(u) => u # 0 /\ Bytes(u) \in Nat
        /\ AsDeclared => (\A u \in problem.outputs : Bytes(u) <= total) /\ Bytes(Replacement) <= in
    BY <2>0, BytesPlanned
  <2>3. /\ \A u \in problem.outputs : Added(u) /\ u # Replacement
        /\ Added(Replacement)
        /\ \A b \in buffers : b = 0 \/ Added(b)
    <3>1. problem \in Problems /\ Replacement \notin problem.outputs
      BY ProblemsAssumption, RunsAssumption DEF RunInv, PlanInv, IInv, Replacement
    <3>. QED
      BY <3>1 DEF RunInv, HasOutput, Added
  <2>4. DOMAIN f = buffers /\ f \in [DOMAIN f -> Nat] /\ LiveBytes = SumFunction(f)
    BY <2>1, <2>2, <2>3 DEF LiveBytes
  <2>5. \A b \in buffers : f[b] = Bytes(b)
    OBVIOUS
  <2>6. \A u : Added(u) => (AsDeclared => Bytes(u) <= peak)
    <3> HIDE DEF in, total
    <3>1. \A u : Added(u) => u = Replacement \/ u \in problem.outputs
      BY DEF Added
    <3>. QED
      BY <2>1, <2>2, <3>1
  <2> HIDE DEF f, in, total
  <2>7. CASE buffers = {0}
    <3>1. IsFiniteSet(buffers) /\ Cardinality(buffers) = 1
      BY <2>7, FS_Singleton
    <3>2. SumFunction(f) = f[0] /\ f[0] = in
      BY <2>2, <2>4, <2>5, <2>7, <3>1, SumOfFew
    <3>. QED
      BY <2>1, <2>4, <3>1, <3>2
  <2>8. ASSUME NEW u, Added(u), buffers = {0, u}
        PROVE  Cardinality(buffers) <= 4 /\ (AsDeclared => LiveBytes <= 2 * peak)
    <3>1. 0 # u /\ Bytes(u) \in Nat
      BY <2>2, <2>8
    <3>2. IsFiniteSet(buffers) /\ Cardinality(buffers) = 2
      BY <2>8, <3>1, TwoElements, Zenon
    <3>3. f[0] = in /\ f[u] = Bytes(u)
      BY <2>2, <2>5, <2>8
    <3>4. SumFunction(f) = f[0] + f[u]
      <4>1. IsFiniteSet(DOMAIN f) /\ f \in [DOMAIN f -> Nat] /\ DOMAIN f = {0, u}
        BY <2>4, <2>8, <3>2, Zenon
      <4>. QED
        BY <3>1, <4>1, SumOfFew, Zenon
    <3>5. AsDeclared => Bytes(u) <= peak
      BY <2>6, <2>8
    <3>. QED
      BY <2>1, <2>4, <3>1, <3>2, <3>3, <3>4, <3>5
  <2>9. ASSUME NEW u, NEW w, Added(u), w \in problem.outputs, u # w, buffers = {0, u, w}
        PROVE  Cardinality(buffers) <= 4 /\ (AsDeclared => LiveBytes <= 2 * peak)
    <3>1. 0 # u /\ 0 # w /\ Bytes(u) \in Nat /\ Bytes(w) \in Nat
      BY <2>2, <2>3, <2>9
    <3>2. IsFiniteSet(buffers) /\ Cardinality(buffers) = 3
      BY <2>9, <3>1, ThreeElements, Zenon
    <3>3. f[0] = in /\ f[u] = Bytes(u) /\ f[w] = Bytes(w)
      BY <2>2, <2>5, <2>9
    <3>4. SumFunction(f) = f[0] + f[u] + f[w]
      <4>1. \A x, y, z : x # y /\ x # z /\ y # z /\ DOMAIN f = {x, y, z} => SumFunction(f) = f[x] + f[y] + f[z]
        BY <2>4, <3>2, SumOfFew, Zenon
      <4>2. 0 # u /\ 0 # w /\ u # w /\ DOMAIN f = {0, u, w} => SumFunction(f) = f[0] + f[u] + f[w]
        BY <4>1
      <4>. QED
        BY <2>4, <2>9, <3>1, <4>2
    <3>5. AsDeclared => Bytes(u) <= peak /\ Bytes(w) <= total
      BY <2>2, <2>6, <2>9
    <3>. QED
      BY <2>1, <2>4, <3>1, <3>2, <3>3, <3>4, <3>5
  <2>10. ASSUME NEW u \in problem.outputs, NEW w \in problem.outputs, u # w, buffers = {0, Replacement, u, w}
         PROVE  Cardinality(buffers) <= 4 /\ (AsDeclared => LiveBytes <= 2 * peak)
    <3> DEFINE q == Replacement
    <3>1. /\ 0 # q /\ 0 # u /\ 0 # w /\ q # u /\ q # w
          /\ Bytes(q) \in Nat /\ Bytes(u) \in Nat /\ Bytes(w) \in Nat
      BY <2>2, <2>3
    <3>2. IsFiniteSet(buffers) /\ Cardinality(buffers) = 4
      <4>1. buffers = {0, q, u, w}
        BY <2>10
      <4>2. 0 # q /\ 0 # u /\ 0 # w /\ q # u /\ q # w /\ u # w
        BY <2>10, <3>1, Zenon
      <4> HIDE DEF q
      <4>3. IsFiniteSet({0, q, u, w}) /\ Cardinality({0, q, u, w}) = 4
        BY <4>2, FourElements, Zenon
      <4>. QED
        BY <4>1, <4>3, Zenon
    <3>3. f[0] = in /\ f[q] = Bytes(q) /\ f[u] = Bytes(u) /\ f[w] = Bytes(w)
      BY <2>2, <2>5, <2>10
    <3>4. SumFunction(f) = f[0] + f[q] + f[u] + f[w]
      <4>1. \A v, x, y, z : v # x /\ v # y /\ v # z /\ x # y /\ x # z /\ y # z /\ DOMAIN f = {v, x, y, z}
                => SumFunction(f) = f[v] + f[x] + f[y] + f[z]
        BY <2>4, <3>2, SumOfFew, Zenon
      <4> HIDE DEF q
      <4>2. 0 # q /\ 0 # u /\ 0 # w /\ q # u /\ q # w /\ u # w /\ DOMAIN f = {0, q, u, w}
                => SumFunction(f) = f[0] + f[q] + f[u] + f[w]
        BY <4>1
      <4>3. DOMAIN f = {0, q, u, w}
        BY <2>4, <2>10 DEF q
      <4>. QED
        BY <2>10, <3>1, <4>2, <4>3
    <3>5. AsDeclared => Bytes(q) <= in /\ Bytes(u) <= total /\ Bytes(w) <= total
      BY <2>2
    <3> HIDE DEF q
    <3>. QED
      BY <2>1, <2>4, <3>1, <3>2, <3>3, <3>4, <3>5
  <2>. QED
    BY <2>7, <2>8, <2>9, <2>10, FewBuffers
<1>. QED
  BY <1>1, RunInitInv, RunStep, PTL DEF RunSpec
=============================================================================
