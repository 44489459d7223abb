------------------------- MODULE PipelineLoadProofs -------------------------
(***************************************************************************)
(* Proofs about Kahn's algorithm and about Pipeline::load, for graphs with *)
(* any number of nodes and edges.                                          *)
(***************************************************************************)
EXTENDS PipelineLoad, FiniteSetTheorems, WellFoundedInduction, TLAPS

\* A graph as load() hands it to the loops: every edge names two nodes.
IsGraph(n, E) ==
    /\ n \in Nat /\ Len(E) \in Nat /\ DOMAIN E = 1..Len(E)
    /\ \A e \in DOMAIN E : E[e].from \in 1..n /\ E[e].to \in 1..n

\* The edges into v that hold it back, and the edges that were followed.
Missing(E, s, v) == {e \in DOMAIN E : E[e].to = v /\ (E[e].from \notin Range(s.order) \/ e \in s.todo)}
Followed(E, s) == {e \in DOMAIN E : E[e].from \in Range(s.order) /\ e \notin s.todo}

Shape(n, E, s) ==
    /\ s.indegree \in [1..n -> Nat] /\ s.next \in 1..(n + 1)
    /\ s.ready \in Seq(1..n) /\ s.order \in Seq(1..n)
    /\ s.todo \subseteq DOMAIN E
    /\ s.next <= n => s.todo = {} /\ s.order = <<>>
    /\ \A e \in s.todo : E[e].from \in Range(s.order)
Counts(n, E, s) == \A v \in 1..n : s.indegree[v] = Cardinality(Missing(E, s, v))
Once(s) ==
    /\ IsInjective(s.order) /\ IsInjective(s.ready)
    /\ Range(s.order) \cap Range(s.ready) = {}
\* The nodes seen by the first loop that nothing holds back are those placed or in the queue.
Released(n, E, s) ==
    \A v \in 1..n : v \in Range(s.order) \cup Range(s.ready) <=> v < s.next /\ Missing(E, s, v) = {}
ProducersFirst(E, q) ==
    \A j \in DOMAIN q : \A e \in DOMAIN E : E[e].to = q[j] => \E i \in 1..(j - 1) : q[i] = E[e].from

KahnInv(n, E, s) ==
    Shape(n, E, s) /\ Counts(n, E, s) /\ Once(s) /\ Released(n, E, s) /\ ProducersFirst(E, s.order)

\* What the loops have done: nodes scanned, nodes placed, edges followed.
Progress(E, s) == (s.next - 1) + Cardinality(Range(s.order)) + Cardinality(Followed(E, s))

---------------------------------------------------------------------------
LEMMA AppendIn == ASSUME NEW S, NEW q \in Seq(S), NEW x \in S PROVE Append(q, x) \in Seq(S)
  OBVIOUS

\* Appending adds one element.
Adding(T, x) == T \cup {x}
LEMMA AppendRange ==
    ASSUME NEW S, NEW q \in Seq(S), NEW x \in S
    PROVE  Range(Append(q, x)) = Adding(Range(q), x)
<1>1. /\ Append(q, x) \in Seq(S) /\ Len(q) \in Nat
      /\ DOMAIN q = 1..Len(q) /\ DOMAIN Append(q, x) = 1..(Len(q) + 1)
      /\ \A i \in 1..Len(q) : Append(q, x)[i] = q[i]
      /\ Append(q, x)[Len(q) + 1] = x
  OBVIOUS
<1>2. 1..(Len(q) + 1) = 1..Len(q) \cup {Len(q) + 1}
  BY <1>1
<1>. QED
  BY <1>1, <1>2 DEF Range, Adding

\* Appending a new element keeps a sequence without repetitions.
LEMMA AppendOnce ==
    ASSUME NEW S, NEW q \in Seq(S), NEW x \in S, IsInjective(q), x \notin Range(q)
    PROVE  IsInjective(Append(q, x))
<1>1. /\ Len(q) \in Nat
      /\ DOMAIN q = 1..Len(q) /\ DOMAIN Append(q, x) = 1..(Len(q) + 1)
      /\ \A i \in 1..Len(q) : Append(q, x)[i] = q[i]
      /\ Append(q, x)[Len(q) + 1] = x
  OBVIOUS
<1>2. 1..(Len(q) + 1) = 1..Len(q) \cup {Len(q) + 1} /\ Len(q) + 1 \notin 1..Len(q)
  BY <1>1
<1>. QED
  BY <1>1, <1>2 DEF IsInjective, Range

\* Taking the head removes that element.
LEMMA TailRange ==
    ASSUME NEW S, NEW q \in Seq(S), q # <<>>
    PROVE  /\ Head(q) \in S /\ Tail(q) \in Seq(S)
           /\ \A y : y \in Range(q) <=> y \in Range(Tail(q)) \/ y = Head(q)
<1>1. /\ Head(q) \in S /\ Tail(q) \in Seq(S) /\ Len(q) \in Nat \ {0} /\ Head(q) = q[1]
      /\ DOMAIN q = 1..Len(q) /\ DOMAIN Tail(q) = 1..(Len(q) - 1)
      /\ \A i \in 1..(Len(q) - 1) : Tail(q)[i] = q[i + 1]
  OBVIOUS
<1>2. /\ \A i \in 1..(Len(q) - 1) : i + 1 \in 1..Len(q)
      /\ \A i \in 1..Len(q) : i = 1 \/ (i - 1 \in 1..(Len(q) - 1) /\ i = (i - 1) + 1)
      /\ 1 \in 1..Len(q)
  BY <1>1
<1>3. ASSUME NEW y \in Range(q) PROVE y \in Range(Tail(q)) \/ y = Head(q)
  <2>1. PICK i \in 1..Len(q) : y = q[i]
    BY <1>1, <1>3, Zenon DEF Range
  <2>2. CASE i = 1
    BY <1>1, <2>1, <2>2, Zenon
  <2>3. ASSUME NEW j \in 1..(Len(q) - 1), i = j + 1 PROVE y \in Range(Tail(q))
    BY <1>1, <2>1, <2>3, Zenon DEF Range
  <2>. QED
    BY <1>2, <2>2, <2>3, Zenon
<1>4. ASSUME NEW y, y \in Range(Tail(q)) \/ y = Head(q) PROVE y \in Range(q)
  BY <1>1, <1>2, <1>4 DEF Range
<1>. QED
  BY <1>1, <1>3, <1>4, Zenon

\* In a sequence without repetitions it was there once.
LEMMA TailOnce ==
    ASSUME NEW S, NEW q \in Seq(S), q # <<>>, IsInjective(q)
    PROVE  IsInjective(Tail(q)) /\ Head(q) \notin Range(Tail(q))
<1>1. /\ Len(q) \in Nat \ {0} /\ Head(q) = q[1]
      /\ DOMAIN q = 1..Len(q) /\ DOMAIN Tail(q) = 1..(Len(q) - 1)
      /\ \A i \in 1..(Len(q) - 1) : Tail(q)[i] = q[i + 1]
  OBVIOUS
<1>2. /\ \A i \in 1..(Len(q) - 1) : i + 1 \in 1..Len(q) /\ i + 1 # 1
      /\ \A i, j \in 1..(Len(q) - 1) : i + 1 = j + 1 => i = j
      /\ 1 \in 1..Len(q)
  BY <1>1
<1>. QED
  BY <1>1, <1>2 DEF IsInjective, Range

\* A set of natural numbers that is not empty has a least element.
LEMMA Least == ASSUME NEW T, T \subseteq Nat, T # {} PROVE \E m \in T : \A j \in T : m <= j
<1>1. PICK m \in T : \A j \in T : ~(<<j, m>> \in OpToRel(<, Nat))
  BY NatLessThanWellFounded, WFMin, Zenon
<1>2. \A j \in T : ~(j < m)
  BY <1>1, Zenon DEF OpToRel
<1>. QED
  BY <1>2

LEMMA IntervalCount == \A m \in Nat : IsFiniteSet(1..m) /\ Cardinality(1..m) = m
  BY FS_Interval

\* The sets that Progress counts are finite.
LEMMA SubsetsOfInterval ==
    ASSUME NEW n \in Nat, NEW T, T \subseteq 1..n
    PROVE  IsFiniteSet(T) /\ Cardinality(T) \in Nat /\ Cardinality(T) <= n /\ (Cardinality(T) = 0 <=> T = {})
<1>1. IsFiniteSet(1..n) /\ Cardinality(1..n) = n
  BY FS_Interval
<1>2. IsFiniteSet(T) /\ Cardinality(T) <= n
  BY <1>1, FS_Subset, Zenon
<1>3. Cardinality(T) \in Nat
  BY <1>2, FS_CardinalityType, Zenon
<1>. QED
  BY <1>2, <1>3, FS_EmptySet, Zenon

\* Elements of sequences over 1..n.
LEMMA RangeInto == ASSUME NEW S, NEW q \in Seq(S) PROVE Range(q) \subseteq S
  BY DEF Range

LEMMA EmptyRange == Range(<<>>) = {} /\ IsInjective(<<>>)
  BY DEF Range, IsInjective

LEMMA ProgressBound ==
    ASSUME NEW n, NEW E, IsGraph(n, E), NEW s, Shape(n, E, s)
    PROVE  /\ Cardinality(Range(s.order)) \in Nat /\ Cardinality(Followed(E, s)) \in Nat /\ s.next \in Nat \ {0}
           /\ Progress(E, s) \in Nat /\ Progress(E, s) <= 2 * n + Len(E)
<1>1. n \in Nat /\ Len(E) \in Nat /\ s.next \in 1..(n + 1)
  BY Zenon DEF IsGraph, Shape
<1>2. Cardinality(Range(s.order)) \in Nat /\ Cardinality(Range(s.order)) <= n
  BY <1>1, RangeInto, SubsetsOfInterval, Zenon DEF Shape
<1>3. Cardinality(Followed(E, s)) \in Nat /\ Cardinality(Followed(E, s)) <= Len(E)
  <2>1. Followed(E, s) \subseteq 1..Len(E)
    BY Zenon DEF Followed, IsGraph
  <2>. QED
    BY <1>1, <2>1, SubsetsOfInterval, Zenon
<1>. QED
  BY <1>1, <1>2, <1>3, SMTT(30) DEF Progress

\* Before the loops.
LEMMA StartInv == ASSUME NEW n, NEW E, IsGraph(n, E) PROVE KahnInv(n, E, Start(n, E)) /\ Progress(E, Start(n, E)) >= 0
<1> DEFINE s == Start(n, E)
<1>1. s.indegree = InDegree(n, E) /\ s.next = 1 /\ s.ready = <<>> /\ s.order = <<>> /\ s.todo = {}
  BY Zenon DEF Start
<1> HIDE DEF s
<1>2. \A v \in 1..n : Missing(E, s, v) = {e \in DOMAIN E : E[e].to = v}
  BY <1>1, EmptyRange, Zenon DEF Missing
<1>3. \A v \in 1..n : Cardinality(Missing(E, s, v)) \in Nat
  <2> TAKE v \in 1..n
  <2>1. Missing(E, s, v) \subseteq 1..Len(E) /\ Len(E) \in Nat
    BY Zenon DEF Missing, IsGraph
  <2>. QED
    BY <2>1, SubsetsOfInterval, Zenon
<1>4. Counts(n, E, s)
  BY <1>1, <1>2, Zenon DEF Counts, InDegree
<1>5. Shape(n, E, s)
  <2>1. s.indegree \in [1..n -> Nat]
    BY <1>1, <1>2, <1>3, ZenonT(30) DEF InDegree
  <2>2. n \in Nat /\ 1 \in 1..(n + 1)
    BY DEF IsGraph
  <2>3. <<>> \in Seq(1..n)
    OBVIOUS
  <2>. QED
    BY <1>1, <2>1, <2>2, <2>3, Zenon DEF Shape
<1>6. Once(s)
  BY <1>1, EmptyRange, Zenon DEF Once
<1>7. Released(n, E, s)
  <2>1. \A v \in 1..n : ~(v < 1)
    OBVIOUS
  <2>. QED
    BY <1>1, <2>1, EmptyRange, Zenon DEF Released
<1>8. ProducersFirst(E, s.order)
  <2>1. DOMAIN <<>> = {}
    OBVIOUS
  <2>. QED
    BY <1>1, <2>1, Zenon DEF ProducersFirst
<1>9. Progress(E, s) >= 0
  BY <1>5, ProgressBound
<1>. QED
  BY <1>4, <1>5, <1>6, <1>7, <1>8, <1>9, Zenon DEF KahnInv, s

\* The edges that hold a node back are finitely many: an in-degree of 0 means that there is none.
LEMMA CountIsZero ==
    ASSUME NEW n, NEW E, IsGraph(n, E), NEW s, Counts(n, E, s), NEW v \in 1..n
    PROVE  /\ IsFiniteSet(Missing(E, s, v)) /\ Cardinality(Missing(E, s, v)) \in Nat
           /\ Releases(s.indegree[v]) <=> Missing(E, s, v) = {}
<1>1. Missing(E, s, v) \subseteq 1..Len(E) /\ Len(E) \in Nat
  BY Zenon DEF Missing, IsGraph
<1>. QED
  BY <1>1, SubsetsOfInterval, Zenon DEF Counts, Releases

\* A step of the first loop.
LEMMA ScanInv ==
    ASSUME NEW n, NEW E, IsGraph(n, E), NEW s, KahnInv(n, E, s), s.next <= n
    PROVE  KahnInv(n, E, Scan(s)) /\ Progress(E, Scan(s)) = Progress(E, s) + 1
<1> DEFINE t == Scan(s)
           v0 == s.next
<1>1. /\ t.indegree = s.indegree /\ t.next = v0 + 1 /\ t.order = s.order /\ t.todo = s.todo
      /\ t.ready = IF Releases(s.indegree[v0]) THEN Append(s.ready, v0) ELSE s.ready
  BY Zenon DEF Scan
<1> HIDE DEF t
<1>2. Shape(n, E, s) /\ Counts(n, E, s) /\ Once(s) /\ Released(n, E, s) /\ ProducersFirst(E, s.order)
  BY Zenon DEF KahnInv
<1>3. n \in Nat /\ v0 \in 1..n /\ v0 + 1 \in 1..(n + 1) /\ ~(v0 < v0) /\ s.order = <<>> /\ s.todo = {}
  <2>1. n \in Nat /\ s.next \in 1..(n + 1) /\ s.order = <<>> /\ s.todo = {}
    BY <1>2, Zenon DEF IsGraph, Shape
  <2>. QED
    BY <2>1
<1>4. v0 \notin Range(s.order) \cup Range(s.ready)
  BY <1>2, <1>3, Zenon DEF Released
<1>5. Followed(E, t) = Followed(E, s) /\ \A v : Missing(E, t, v) = Missing(E, s, v)
  BY <1>1, Zenon DEF Missing, Followed
<1>6. Releases(s.indegree[v0]) <=> Missing(E, s, v0) = {}
  BY <1>2, <1>3, CountIsZero, Zenon
<1>7. /\ t.ready \in Seq(1..n) /\ IsInjective(t.ready)
      /\ \A y : y \in Range(t.ready) <=> y \in Range(s.ready) \/ (Missing(E, s, v0) = {} /\ y = v0)
  <2>1. s.ready \in Seq(1..n) /\ IsInjective(s.ready)
    BY <1>2, Zenon DEF Shape, Once
  <2>2. CASE Missing(E, s, v0) = {}
    <3>1. t.ready = Append(s.ready, v0)
      BY <1>1, <1>6, <2>2, Zenon
    <3>2. v0 \notin Range(s.ready)
      BY <1>4, Zenon
    <3>3. Append(s.ready, v0) \in Seq(1..n) /\ Range(Append(s.ready, v0)) = Adding(Range(s.ready), v0)
      BY <1>3, <2>1, AppendIn, AppendRange, Zenon
    <3>4. IsInjective(Append(s.ready, v0))
      BY <1>3, <2>1, <3>2, AppendOnce, Zenon
    <3>. QED
      BY <2>2, <3>1, <3>3, <3>4, Zenon DEF Adding
  <2>3. CASE Missing(E, s, v0) # {}
    BY <1>1, <1>6, <2>1, <2>3, Zenon
  <2>. QED
    BY <2>2, <2>3, Zenon
<1>8. Shape(n, E, t)
  BY <1>1, <1>2, <1>3, <1>7, Zenon DEF Shape
<1>9. Counts(n, E, t)
  BY <1>1, <1>2, <1>5, Zenon DEF Counts
<1>10. Once(t)
  BY <1>1, <1>2, <1>4, <1>7, Zenon DEF Once
<1>11. Released(n, E, t)
  <2> SUFFICES ASSUME NEW v \in 1..n
               PROVE  v \in Range(t.order) \cup Range(t.ready) <=> v < t.next /\ Missing(E, t, v) = {}
    BY Zenon DEF Released
  <2>1. v < t.next <=> v < v0 \/ v = v0
    BY <1>1, <1>3
  <2>2. v \in Range(s.order) \cup Range(s.ready) <=> v < v0 /\ Missing(E, s, v) = {}
    BY <1>2, Zenon DEF Released
  <2>. QED
    BY <1>1, <1>3, <1>4, <1>5, <1>7, <2>1, <2>2, Zenon
<1>12. ProducersFirst(E, t.order)
  BY <1>1, <1>2, Zenon
<1>13. Progress(E, t) = Progress(E, s) + 1
  <2>1. /\ Cardinality(Range(s.order)) \in Nat /\ Cardinality(Followed(E, s)) \in Nat
        /\ Range(t.order) = Range(s.order)
    BY <1>1, <1>2, ProgressBound, Zenon
  <2>. QED
    BY <1>1, <1>3, <1>5, <2>1 DEF Progress
<1>. QED
  BY <1>8, <1>9, <1>10, <1>11, <1>12, <1>13, Zenon DEF KahnInv, t

\* A node all of whose producers are placed may be placed next.
LEMMA AppendProducersFirst ==
    ASSUME NEW S, NEW E, NEW q \in Seq(S), NEW x \in S, ProducersFirst(E, q),
           \A e \in DOMAIN E : E[e].to = x => E[e].from \in Range(q)
    PROVE  ProducersFirst(E, Append(q, x))
<1>1. /\ Len(q) \in Nat
      /\ DOMAIN q = 1..Len(q) /\ DOMAIN Append(q, x) = 1..(Len(q) + 1)
      /\ \A i \in 1..Len(q) : Append(q, x)[i] = q[i]
      /\ Append(q, x)[Len(q) + 1] = x
  OBVIOUS
<1> SUFFICES ASSUME NEW j \in 1..(Len(q) + 1), NEW e \in DOMAIN E, E[e].to = Append(q, x)[j]
             PROVE  \E i \in 1..(j - 1) : Append(q, x)[i] = E[e].from
  BY <1>1, Zenon DEF ProducersFirst
<1>2. CASE j = Len(q) + 1
  <2>1. PICK i \in 1..Len(q) : q[i] = E[e].from
    BY <1>1, <1>2, Zenon DEF Range
  <2>2. i \in 1..(j - 1)
    BY <1>1, <1>2
  <2>. QED
    BY <1>1, <2>1, <2>2, Zenon
<1>3. CASE j \in 1..Len(q)
  <2>1. PICK i \in 1..(j - 1) : q[i] = E[e].from
    BY <1>1, <1>3, Zenon DEF ProducersFirst
  <2>2. i \in 1..Len(q)
    BY <1>1, <1>3
  <2>. QED
    BY <1>1, <2>1, <2>2, Zenon
<1>4. j = Len(q) + 1 \/ j \in 1..Len(q)
  BY <1>1
<1>. QED
  BY <1>2, <1>3, <1>4, Zenon

\* Popping the queue.
LEMMA PopInv ==
    ASSUME NEW n, NEW E, IsGraph(n, E), NEW s, KahnInv(n, E, s), ~(s.next <= n), s.todo = {}, s.ready # <<>>
    PROVE  KahnInv(n, E, Pop(E, s)) /\ Progress(E, Pop(E, s)) = Progress(E, s) + 1
<1> DEFINE t == Pop(E, s)
           v0 == Head(s.ready)
<1>1. /\ t.indegree = s.indegree /\ t.next = s.next /\ t.ready = Tail(s.ready)
      /\ t.order = Append(s.order, v0) /\ t.todo = OutEdges(E, v0)
  BY Zenon DEF Pop
<1> HIDE DEF t
<1>2. Shape(n, E, s) /\ Counts(n, E, s) /\ Once(s) /\ Released(n, E, s) /\ ProducersFirst(E, s.order)
  BY Zenon DEF KahnInv
<1>3. s.ready \in Seq(1..n) /\ s.order \in Seq(1..n) /\ s.next \in 1..(n + 1) /\ s.indegree \in [1..n -> Nat]
  BY <1>2, Zenon DEF Shape
<1>4. v0 \in 1..n /\ Tail(s.ready) \in Seq(1..n)
  BY <1>3, TailRange, Zenon
<1>5. \A y : y \in Range(s.ready) <=> y \in Range(Tail(s.ready)) \/ y = v0
  BY <1>3, TailRange, Zenon
<1>6. IsInjective(Tail(s.ready)) /\ v0 \notin Range(Tail(s.ready))
  BY <1>2, <1>3, TailOnce, Zenon DEF Once
<1>7. v0 \notin Range(s.order) /\ Missing(E, s, v0) = {}
  BY <1>2, <1>4, <1>5, Zenon DEF Once, Released
<1>8. Append(s.order, v0) \in Seq(1..n)
  BY <1>3, <1>4, AppendIn, Zenon
<1>9. \A y : y \in Range(t.order) <=> y \in Range(s.order) \/ y = v0
  <2>1. Range(Append(s.order, v0)) = Adding(Range(s.order), v0)
    BY <1>3, <1>4, AppendRange, Zenon
  <2>2. Range(t.order) = Adding(Range(s.order), v0)
    BY <1>1, <2>1, Zenon
  <2>. QED
    BY <2>2, Zenon DEF Adding
<1>10. \A e : e \in t.todo <=> e \in DOMAIN E /\ E[e].from = v0
  BY <1>1, Zenon DEF OutEdges
<1>11. \A v : Missing(E, t, v) = Missing(E, s, v)
  BY <1>7, <1>9, <1>10, Zenon DEF Missing
<1>12. Followed(E, t) = Followed(E, s)
  BY <1>7, <1>9, <1>10, Zenon DEF Followed
<1>13. Shape(n, E, t)
  BY <1>1, <1>3, <1>4, <1>8, <1>9, <1>10, Zenon DEF Shape
<1>14. Counts(n, E, t)
  BY <1>1, <1>2, <1>11, Zenon DEF Counts
<1>15. Once(t)
  <2>1. IsInjective(t.order)
    BY <1>1, <1>2, <1>3, <1>4, <1>7, AppendOnce DEF Once
  <2>2. Range(t.order) \cap Range(t.ready) = {}
    BY <1>1, <1>2, <1>5, <1>6, <1>9, Zenon DEF Once
  <2>. QED
    BY <1>1, <1>6, <2>1, <2>2, Zenon DEF Once
<1>16. Released(n, E, t)
  <2>1. \A y : y \in Range(t.order) \cup Range(t.ready) <=> y \in Range(s.order) \cup Range(s.ready)
    BY <1>1, <1>5, <1>9, Zenon
  <2>. QED
    BY <1>1, <1>2, <1>11, <2>1, Zenon DEF Released
<1>17. ProducersFirst(E, t.order)
  <2>1. \A e \in DOMAIN E : E[e].to = v0 => E[e].from \in Range(s.order)
    BY <1>7, Zenon DEF Missing
  <2>. QED
    BY <1>1, <1>2, <1>3, <1>4, <2>1, AppendProducersFirst, SMTT(30)
<1>18. Progress(E, t) = Progress(E, s) + 1
  <2>1. /\ Cardinality(Range(s.order)) \in Nat /\ Cardinality(Followed(E, s)) \in Nat /\ s.next \in Nat
    BY <1>2, ProgressBound, Zenon
  <2>2. Range(t.order) = Range(s.order) \cup {v0}
    BY <1>9, Zenon
  <2>3. IsFiniteSet(Range(s.order))
    <3>1. n \in Nat
      BY Zenon DEF IsGraph
    <3>. QED
      BY <1>3, <3>1, RangeInto, SubsetsOfInterval, Zenon
  <2>4. Cardinality(Range(t.order)) = Cardinality(Range(s.order)) + 1
    BY <1>7, <2>2, <2>3, FS_AddElement, Zenon
  <2>5. Progress(E, t) = (s.next - 1) + (Cardinality(Range(s.order)) + 1) + Cardinality(Followed(E, s))
    BY <1>1, <1>12, <2>4, Zenon DEF Progress
  <2>6. \A a, b, c \in Nat : (a - 1) + (b + 1) + c = ((a - 1) + b + c) + 1
    OBVIOUS
  <2>. QED
    BY <2>1, <2>5, <2>6, Zenon DEF Progress
<1>. QED
  BY <1>13, <1>14, <1>15, <1>16, <1>17, <1>18, Zenon DEF KahnInv, t

\* Following an edge out of the popped node.
LEMMA FollowInv ==
    ASSUME NEW n, NEW E, IsGraph(n, E), NEW s, KahnInv(n, E, s), ~(s.next <= n), s.todo # {}
    PROVE  KahnInv(n, E, Follow(E, s)) /\ Progress(E, Follow(E, s)) = Progress(E, s) + 1
<1> DEFINE t == Follow(E, s)
           k0 == CHOOSE j \in s.todo : \A l \in s.todo : j <= l
           w == E[k0].to
           degree == s.indegree[w] - 1
<1>1. /\ t.indegree = [s.indegree EXCEPT ![w] = degree] /\ t.next = s.next
      /\ t.ready = IF Releases(degree) THEN Append(s.ready, w) ELSE s.ready
      /\ t.order = s.order /\ t.todo = s.todo \ {k0}
  BY Zenon DEF Follow
<1>2. Shape(n, E, s) /\ Counts(n, E, s) /\ Once(s) /\ Released(n, E, s) /\ ProducersFirst(E, s.order)
  BY Zenon DEF KahnInv
<1>3. /\ s.ready \in Seq(1..n) /\ s.order \in Seq(1..n) /\ s.next \in 1..(n + 1) /\ s.indegree \in [1..n -> Nat]
      /\ s.todo \subseteq DOMAIN E /\ \A e \in s.todo : E[e].from \in Range(s.order)
  BY <1>2, Zenon DEF Shape
<1>4. k0 \in s.todo
  <2>1. s.todo \subseteq Nat
    <3>1. 1..Len(E) \subseteq Nat
      BY DEF IsGraph
    <3>. QED
      BY <1>3, <3>1, Zenon DEF IsGraph
  <2>2. \E j \in s.todo : \A l \in s.todo : j <= l
    BY <2>1, Least, Zenon
  <2>. QED
    BY <2>2, Zenon
<1> HIDE DEF t, k0
<1>5. k0 \in DOMAIN E /\ E[k0].from \in Range(s.order) /\ w \in 1..n
  BY <1>3, <1>4, Zenon DEF IsGraph
<1>6. \A v : v # w => Missing(E, t, v) = Missing(E, s, v)
  BY <1>1, Zenon DEF Missing
<1>7. Missing(E, t, w) = Missing(E, s, w) \ {k0} /\ k0 \in Missing(E, s, w)
  BY <1>1, <1>4, <1>5, Zenon DEF Missing
<1>8. Followed(E, t) = Followed(E, s) \cup {k0} /\ k0 \notin Followed(E, s)
  BY <1>1, <1>4, <1>5, Zenon DEF Followed
<1>9. /\ IsFiniteSet(Missing(E, s, w)) /\ Cardinality(Missing(E, s, w)) \in Nat
      /\ s.indegree[w] = Cardinality(Missing(E, s, w))
  BY <1>2, <1>5, CountIsZero, Zenon DEF Counts
<1>10. degree = Cardinality(Missing(E, t, w)) /\ IsFiniteSet(Missing(E, t, w))
  BY <1>7, <1>9, FS_RemoveElement, ZenonT(30)
<1>11. degree \in Nat /\ (Releases(degree) <=> Missing(E, t, w) = {})
  BY <1>10, FS_CardinalityType, FS_EmptySet, Zenon DEF Releases
<1>12. w \notin Range(s.order) \cup Range(s.ready)
  BY <1>2, <1>5, <1>7, Zenon DEF Released
<1> HIDE DEF degree, w
<1>13. /\ t.ready \in Seq(1..n) /\ IsInjective(t.ready)
       /\ \A y : y \in Range(t.ready) <=> y \in Range(s.ready) \/ (Missing(E, t, w) = {} /\ y = w)
  <2>1. s.ready \in Seq(1..n) /\ IsInjective(s.ready) /\ w \in 1..n /\ w \notin Range(s.ready)
    BY <1>2, <1>3, <1>5, <1>12, Zenon DEF Once
  <2>2. CASE Missing(E, t, w) = {}
    <3>1. t.ready = Append(s.ready, w)
      BY <1>1, <1>11, <2>2, Zenon
    <3>2. Append(s.ready, w) \in Seq(1..n)
      BY <2>1, AppendIn, Zenon
    <3>3. Range(Append(s.ready, w)) = Adding(Range(s.ready), w)
      BY <2>1, AppendRange, Zenon
    <3>4. IsInjective(Append(s.ready, w))
      BY <2>1, AppendOnce, Zenon
    <3>. QED
      BY <2>2, <3>1, <3>2, <3>3, <3>4, Zenon DEF Adding
  <2>3. CASE Missing(E, t, w) # {}
    BY <1>1, <1>11, <2>1, <2>3, Zenon
  <2>. QED
    BY <2>2, <2>3, Zenon
<1>14. /\ t.indegree \in [1..n -> Nat] /\ t.indegree[w] = degree
       /\ \A v \in 1..n : v # w => t.indegree[v] = s.indegree[v]
  BY <1>1, <1>3, <1>5, <1>11, Zenon
<1>15. Shape(n, E, t)
  BY <1>1, <1>3, <1>13, <1>14, Zenon DEF Shape
<1>16. Counts(n, E, t)
  BY <1>2, <1>6, <1>10, <1>14, Zenon DEF Counts
<1>17. Once(t)
  BY <1>1, <1>2, <1>12, <1>13, Zenon DEF Once
<1>18. Released(n, E, t)
  <2> SUFFICES ASSUME NEW v \in 1..n
               PROVE  v \in Range(t.order) \cup Range(t.ready) <=> v < t.next /\ Missing(E, t, v) = {}
    BY Zenon DEF Released
  <2>1. v \in Range(s.order) \cup Range(s.ready) <=> v < s.next /\ Missing(E, s, v) = {}
    BY <1>2, Zenon DEF Released
  <2>2. v < s.next
    <3>1. n \in Nat
      BY Zenon DEF IsGraph
    <3>. QED
      BY <1>3, <3>1
  <2>. QED
    BY <1>1, <1>6, <1>12, <1>13, <2>1, <2>2, Zenon
<1>19. ProducersFirst(E, t.order)
  BY <1>1, <1>2, Zenon
<1>20. Progress(E, t) = Progress(E, s) + 1
  <2>1. /\ Cardinality(Range(s.order)) \in Nat /\ Cardinality(Followed(E, s)) \in Nat /\ s.next \in Nat
    BY <1>2, ProgressBound, Zenon
  <2>2. IsFiniteSet(Followed(E, s))
    <3>1. Followed(E, s) \subseteq 1..Len(E) /\ Len(E) \in Nat
      BY Zenon DEF Followed, IsGraph
    <3>. QED
      BY <3>1, SubsetsOfInterval, Zenon
  <2>3. Cardinality(Followed(E, t)) = Cardinality(Followed(E, s)) + 1
    BY <1>8, <2>2, FS_AddElement, Zenon
  <2>4. Progress(E, t) = (s.next - 1) + Cardinality(Range(s.order)) + (Cardinality(Followed(E, s)) + 1)
    BY <1>1, <2>3, Zenon DEF Progress
  <2>5. \A a, b, c \in Nat : (a - 1) + b + (c + 1) = ((a - 1) + b + c) + 1
    OBVIOUS
  <2>. QED
    BY <2>1, <2>4, <2>5, Zenon DEF Progress
<1>. QED
  BY <1>15, <1>16, <1>17, <1>18, <1>19, <1>20, Zenon DEF KahnInv, t

---------------------------------------------------------------------------
\* The two loops have ended.
Halted(n, s) == ~(s.next <= n) /\ s.todo = {} /\ s.ready = <<>>

\* Every step keeps the invariant, and makes progress until the loops have ended.
LEMMA StepInv ==
    ASSUME NEW n, NEW E, IsGraph(n, E), NEW s, KahnInv(n, E, s)
    PROVE  KahnInv(n, E, Step(n, E, s)) /\ (Halted(n, s) \/ Progress(E, Step(n, E, s)) = Progress(E, s) + 1)
<1>1. CASE s.next <= n
  <2>1. Step(n, E, s) = Scan(s) /\ ~Halted(n, s)
    BY <1>1, Zenon DEF Step, Halted
  <2>. QED
    BY <1>1, <2>1, ScanInv, Zenon
<1>2. CASE ~(s.next <= n) /\ s.todo # {}
  <2>1. Step(n, E, s) = Follow(E, s) /\ ~Halted(n, s)
    BY <1>2, Zenon DEF Step, Halted
  <2>. QED
    BY <1>2, <2>1, FollowInv, Zenon
<1>3. CASE ~(s.next <= n) /\ s.todo = {} /\ s.ready # <<>>
  <2>1. Step(n, E, s) = Pop(E, s) /\ ~Halted(n, s)
    BY <1>3, Zenon DEF Step, Halted
  <2>. QED
    BY <1>3, <2>1, PopInv, Zenon
<1>4. CASE Halted(n, s)
  <2>1. Step(n, E, s) = s
    BY <1>4, Zenon DEF Step, Halted
  <2>. QED
    BY <1>4, <2>1, Zenon
<1>. QED
  BY <1>1, <1>2, <1>3, <1>4, Zenon DEF Halted

LEMMA HaltedStays == ASSUME NEW n, NEW E, NEW s, Halted(n, s) PROVE Step(n, E, s) = s
  BY Zenon DEF Step, Halted

\* The states of the loops, step by step.
IsKahnRun(g, n, E, b) == g = [j \in 0..b |-> IF j = 0 THEN Start(n, E) ELSE Step(n, E, g[j - 1])]

LEMMA KahnRunExists == ASSUME NEW n, NEW E PROVE \A b \in Nat : \E g : IsKahnRun(g, n, E, b)
<1> DEFINE T == {b \in Nat : ~ \E g : IsKahnRun(g, n, E, b)}
<1>1. SUFFICES ASSUME T # {} PROVE FALSE
  BY Zenon
<1>2. PICK b \in T : \A c \in T : b <= c
  <2>1. T \subseteq Nat
    BY Zenon
  <2> HIDE DEF T
  <2>. QED
    BY <1>1, <2>1, Least, Zenon
<1>3. CASE b = 0
  <2>1. IsKahnRun([j \in 0..0 |-> Start(n, E)], n, E, 0)
    BY DEF IsKahnRun
  <2>. QED
    BY <1>3, <2>1, Zenon
<1>4. CASE b # 0
  <2>1. b - 1 \in Nat /\ b \in Nat /\ ~(b <= b - 1)
    BY <1>4
  <2>2. PICK g : IsKahnRun(g, n, E, b - 1)
    BY <1>2, <2>1, Zenon
  <2> DEFINE h == [j \in 0..b |-> IF j = 0 THEN Start(n, E) ELSE Step(n, E, g[j - 1])]
  <2>3. ASSUME NEW j \in 0..(b - 1) PROVE h[j] = g[j]
    <3>1. g[j] = IF j = 0 THEN Start(n, E) ELSE Step(n, E, g[j - 1])
      BY <2>2, Zenon DEF IsKahnRun
    <3>2. j \in 0..b
      BY <2>1
    <3>. QED
      BY <3>1, <3>2, Zenon
  <2>4. \A j \in 0..b : j # 0 => j - 1 \in 0..(b - 1)
    BY <2>1
  <2>5. \A j \in 0..b : h[j] = IF j = 0 THEN Start(n, E) ELSE Step(n, E, h[j - 1])
    BY <2>3, <2>4, Zenon
  <2>6. IsKahnRun(h, n, E, b)
    BY <2>5, Zenon DEF IsKahnRun
  <2>. QED
    BY <2>6, Zenon
<1>. QED
  BY <1>3, <1>4, Zenon

\* After j steps the loops have ended, or j nodes and edges are done.
LEMMA RunInv ==
    ASSUME NEW n, NEW E, IsGraph(n, E), NEW b \in Nat, NEW g, IsKahnRun(g, n, E, b)
    PROVE  \A j \in 0..b : KahnInv(n, E, g[j]) /\ (Halted(n, g[j]) \/ Progress(E, g[j]) >= j)
<1> DEFINE Good(j) == KahnInv(n, E, g[j]) /\ (Halted(n, g[j]) \/ Progress(E, g[j]) >= j)
           T == {j \in 0..b : ~Good(j)}
<1>1. \A j \in 0..b : g[j] = IF j = 0 THEN Start(n, E) ELSE Step(n, E, g[j - 1])
  BY Zenon DEF IsKahnRun
<1>2. SUFFICES ASSUME T # {} PROVE FALSE
  BY Zenon
<1>3. PICK m \in T : \A j \in T : m <= j
  <2>1. T \subseteq Nat
    OBVIOUS
  <2> HIDE DEF T
  <2>. QED
    BY <1>2, <2>1, Least, Zenon
<1>4. m \in 0..b /\ ~Good(m)
  BY Zenon
<1>5. CASE m = 0
  <2>1. g[0] = Start(n, E)
    BY <1>1, <1>4, <1>5, Zenon
  <2>. QED
    BY <1>4, <1>5, <2>1, StartInv, Zenon
<1>6. CASE m # 0
  <2>1. m - 1 \in 0..b /\ ~(m <= m - 1) /\ m \in Nat
    BY <1>4, <1>6
  <2>2. Good(m - 1)
    BY <1>3, <2>1, Zenon
  <2>3. g[m] = Step(n, E, g[m - 1])
    BY <1>1, <1>4, <1>6, Zenon
  <2>4. KahnInv(n, E, g[m])
    BY <2>2, <2>3, StepInv, Zenon
  <2>5. CASE Halted(n, g[m - 1])
    BY <1>4, <2>2, <2>3, <2>4, <2>5, HaltedStays, Zenon
  <2>6. CASE ~Halted(n, g[m - 1])
    <3>1. Progress(E, g[m]) = Progress(E, g[m - 1]) + 1 /\ Progress(E, g[m - 1]) >= m - 1
      <4>1. KahnInv(n, E, g[m - 1]) /\ Progress(E, g[m - 1]) >= m - 1
        BY <2>2, <2>6, Zenon
      <4>2. Progress(E, Step(n, E, g[m - 1])) = Progress(E, g[m - 1]) + 1
        BY <2>6, <4>1, StepInv, Zenon
      <4>. QED
        BY <2>3, <4>1, <4>2, Zenon
    <3>2. Progress(E, g[m - 1]) \in Nat
      BY <2>2, ProgressBound, Zenon DEF KahnInv
    <3>3. Progress(E, g[m]) >= m
      <4>1. \A a, c \in Nat : a >= c - 1 => a + 1 >= c
        OBVIOUS
      <4>. QED
        BY <2>1, <3>1, <3>2, <4>1, Zenon
    <3>. QED
      BY <1>4, <2>4, <3>3, Zenon
  <2>. QED
    BY <2>5, <2>6, Zenon
<1>. QED
  BY <1>5, <1>6, Zenon

\* What the loops return is the order of a state in which they have ended: the bound on the number
\* of steps in Sort leaves nothing undone.
LEMMA SortEnds == ASSUME NEW n, NEW E, IsGraph(n, E) PROVE \E s : KahnInv(n, E, s) /\ Halted(n, s) /\ Sort(n, E) = s.order
<1> DEFINE b == 2 * n + Len(E)
<1>0. b \in Nat /\ b \in 0..b
  BY DEF IsGraph
<1>1. Sort(n, E) = (CHOOSE g : IsKahnRun(g, n, E, b))[b].order
  BY Zenon DEF Sort, IsKahnRun
<1> HIDE DEF b
<1>2. PICK g : IsKahnRun(g, n, E, b) /\ Sort(n, E) = g[b].order
  BY <1>0, <1>1, KahnRunExists, Zenon
<1>3. KahnInv(n, E, g[b]) /\ (Halted(n, g[b]) \/ Progress(E, g[b]) >= b)
  BY <1>0, <1>2, RunInv, Zenon
<1>4. ASSUME ~Halted(n, g[b]) PROVE FALSE
  <2>1. KahnInv(n, E, Step(n, E, g[b])) /\ Progress(E, Step(n, E, g[b])) = Progress(E, g[b]) + 1
    BY <1>3, <1>4, StepInv, Zenon
  <2>2. Progress(E, Step(n, E, g[b])) \in Nat /\ Progress(E, Step(n, E, g[b])) <= b
    BY <2>1, ProgressBound, Zenon DEF KahnInv, b
  <2>3. Progress(E, g[b]) \in Nat
    BY <1>3, ProgressBound, Zenon DEF KahnInv
  <2>4. \A p \in Nat : p >= b => ~(p + 1 <= b)
    BY <1>0
  <2>. QED
    BY <1>3, <1>4, <2>1, <2>2, <2>3, <2>4, Zenon
<1>. QED
  BY <1>2, <1>3, <1>4, Zenon

\* An order without repetitions is complete exactly when it is as long as there are nodes.
LEMMA CompleteOrder ==
    ASSUME NEW n \in Nat, NEW q \in Seq(1..n), IsInjective(q)
    PROVE  Len(q) = n <=> Range(q) = 1..n
<1>1. Len(q) \in Nat /\ DOMAIN q = 1..Len(q) /\ q \in [1..Len(q) -> 1..n]
  OBVIOUS
<1>2. /\ IsFiniteSet(1..n) /\ Cardinality(1..n) = n
      /\ IsFiniteSet(1..Len(q)) /\ Cardinality(1..Len(q)) = Len(q)
  BY <1>1, IntervalCount, Zenon
<1>3. q \in Injection(1..Len(q), 1..n)
  BY <1>1, Zenon DEF Injection
<1>4. Cardinality(1..Len(q)) = Cardinality(1..n) <=> q \in Surjection(1..Len(q), 1..n)
  BY <1>2, <1>3, FS_Injection, Zenon
<1>5. q \in Surjection(1..Len(q), 1..n) <=> \A v \in 1..n : \E j \in 1..Len(q) : q[j] = v
  BY <1>1, Zenon DEF Surjection
<1>6. Range(q) \subseteq 1..n
  BY RangeInto, Zenon
<1>7. Range(q) = 1..n <=> \A v \in 1..n : \E j \in 1..Len(q) : q[j] = v
  BY <1>1, <1>6, Zenon DEF Range
<1>. QED
  BY <1>2, <1>4, <1>5, <1>7, Zenon

\* What Sort returns: every node at most once, its producers before it; and a node that is left out
\* has a producer that is left out.
LEMMA SortFacts ==
    ASSUME NEW n, NEW E, IsGraph(n, E)
    PROVE  /\ Sort(n, E) \in Seq(1..n) /\ IsInjective(Sort(n, E)) /\ ProducersFirst(E, Sort(n, E))
           /\ \A v \in (1..n) \ Range(Sort(n, E)) :
                 \E e \in DOMAIN E : E[e].to = v /\ E[e].from \in (1..n) \ Range(Sort(n, E))
<1>1. PICK s : KahnInv(n, E, s) /\ Halted(n, s) /\ Sort(n, E) = s.order
  BY SortEnds, Zenon
<1>2. Shape(n, E, s) /\ Once(s) /\ Released(n, E, s) /\ ProducersFirst(E, s.order)
  BY <1>1, Zenon DEF KahnInv
<1>3. s.order \in Seq(1..n) /\ IsInjective(s.order) /\ s.next \in 1..(n + 1)
  BY <1>2, Zenon DEF Shape, Once
<1>4. ASSUME NEW v \in (1..n) \ Range(s.order)
      PROVE  \E e \in DOMAIN E : E[e].to = v /\ E[e].from \in (1..n) \ Range(s.order)
  <2>1. v < s.next
    <3>1. n \in Nat /\ ~(s.next <= n) /\ v \in 1..n
      BY <1>1, <1>4, Zenon DEF IsGraph, Halted
    <3>. QED
      BY <1>3, <3>1
  <2>2. Missing(E, s, v) # {}
    BY <1>1, <1>2, <1>4, <2>1, EmptyRange, Zenon DEF Released, Halted
  <2>3. PICK e \in DOMAIN E : E[e].to = v /\ E[e].from \notin Range(s.order)
    BY <1>1, <2>2, Zenon DEF Missing, Halted
  <2>. QED
    BY <2>3, Zenon DEF IsGraph
<1>. QED
  BY <1>1, <1>2, <1>3, <1>4, Zenon

\* A set of nodes each of which has a producer in the set.
IsKnot(n, E, S) == S \in SUBSET (1..n) /\ S # {} /\ \A v \in S : \E e \in DOMAIN E : E[e].to = v /\ E[e].from \in S

\* Nodes are left out exactly when the graph has such a set.
LEMMA SortExact == ASSUME NEW n, NEW E, IsGraph(n, E) PROVE Len(Sort(n, E)) # n <=> \E S : IsKnot(n, E, S)
<1> DEFINE q == Sort(n, E)
<1>1. /\ q \in Seq(1..n) /\ IsInjective(q) /\ ProducersFirst(E, q) /\ n \in Nat
      /\ \A v \in (1..n) \ Range(q) : \E e \in DOMAIN E : E[e].to = v /\ E[e].from \in (1..n) \ Range(q)
  BY SortFacts, Zenon DEF IsGraph
<1> HIDE DEF q
<1>2. Len(q) = n <=> Range(q) = 1..n
  BY <1>1, CompleteOrder, Zenon
<1>3. ASSUME Len(q) # n PROVE \E S : IsKnot(n, E, S)
  <2>1. Range(q) \subseteq 1..n
    BY <1>1, RangeInto, Zenon
  <2>2. IsKnot(n, E, (1..n) \ Range(q))
    BY <1>1, <1>2, <1>3, <2>1, Zenon DEF IsKnot
  <2>. QED
    BY <2>2, Zenon
<1>4. ASSUME NEW S, IsKnot(n, E, S), Len(q) = n PROVE FALSE
  <2> DEFINE T == {j \in 1..n : q[j] \in S}
  <2>1. DOMAIN q = 1..n /\ T \subseteq Nat
    BY <1>1, <1>4
  <2>2. T # {}
    <3>1. PICK v \in S : v \in Range(q)
      BY <1>2, <1>4, Zenon DEF IsKnot
    <3>. QED
      BY <2>1, <3>1, Zenon DEF Range
  <2>3. PICK m \in T : \A j \in T : m <= j
    <3> HIDE DEF T
    <3>. QED
      BY <2>1, <2>2, Least, Zenon
  <2>4. PICK e \in DOMAIN E : E[e].to = q[m] /\ E[e].from \in S
    BY <1>4, <2>3, Zenon DEF IsKnot
  <2>5. PICK i \in 1..(m - 1) : q[i] = E[e].from
    BY <1>1, <2>1, <2>3, <2>4, Zenon DEF ProducersFirst
  <2>6. i \in 1..n /\ ~(m <= i)
    BY <1>1, <2>3, <2>5
  <2>. QED
    BY <2>3, <2>4, <2>5, <2>6, Zenon
<1>. QED
  BY <1>3, <1>4, Zenon DEF q

---------------------------------------------------------------------------
\* While load() works the object is as it was, and so it is after a load that failed, but for the
\* sources set since.
ObjectInv ==
    /\ phase # "idle" => pipe = before
    /\ phase = "idle" /\ status # OK =>
          pipe.nodes = before.nodes /\ pipe.inputs = before.inputs /\ before.sources \subseteq pipe.sources
    /\ pipe.sources \subseteq pipe.inputs

\* A load that fails leaves the object as it was, and one that succeeds leaves no source of the
\* pipeline before it, whatever the documents and however many loads (Pipeline::load writes its
\* out parameter at the end only).
THEOREM AllOrNothing == Spec => []LoadIsAllOrNothing
<1>1. Init => ObjectInv
  BY DEF Init, ObjectInv, EmptyPipe
<1>2. ASSUME ObjectInv, [Next]_vars PROVE ObjectInv'
  <2>1. ASSUME NEW d \in Documents, Load(d) PROVE ObjectInv'
    BY <1>2, <2>1, Zenon DEF Load, ObjectInv
  <2>2. ASSUME NEW s, Reject(s), phase # "idle" PROVE ObjectInv'
    BY <1>2, <2>2, Zenon DEF Reject, Goto, ObjectInv
  <2>3. CASE ReadStep
    <3>1. CASE ReadDocument
      BY <1>2, <3>1, Zenon DEF ReadDocument, Goto, ObjectInv
    <3>2. CASE ReadNode
      BY <1>2, <3>2, Zenon DEF ReadNode, Goto, ObjectInv
    <3>3. CASE ReadEdge
      BY <1>2, <3>3, Zenon DEF ReadEdge, Goto, ObjectInv
    <3>4. CASE RejectDocument
      BY <2>2, <3>4, Zenon DEF RejectDocument
    <3>5. CASE RejectNode
      BY <2>2, <3>5, Zenon DEF RejectNode
    <3>6. CASE RejectEdge
      BY <2>2, <3>6, Zenon DEF RejectEdge
    <3>. QED
      BY <2>3, <3>1, <3>2, <3>3, <3>4, <3>5, <3>6, Zenon DEF ReadStep
  <2>4. CASE GraphStep
    <3>1. CASE SortNodesOfGraph
      BY <1>2, <3>1, Zenon DEF SortNodesOfGraph, Goto, ObjectInv
    <3>2. CASE AccumulateSteps
      BY <1>2, <3>2, Zenon DEF AccumulateSteps, Goto, ObjectInv
    <3>3. CASE CheckEdge
      BY <1>2, <3>3, Zenon DEF CheckEdge, Goto, ObjectInv
    <3>4. CASE RejectCycle
      BY <2>2, <3>4, Zenon DEF RejectCycle
    <3>5. CASE RejectCheckedEdge
      BY <2>2, <3>5, Zenon DEF RejectCheckedEdge
    <3>. QED
      BY <2>4, <3>1, <3>2, <3>3, <3>4, <3>5, Zenon DEF GraphStep
  <2>5. CASE PlanStep
    <3>1. CASE KeepEdge
      BY <1>2, <3>1, Zenon DEF KeepEdge, ObjectInv
    <3>2. CASE InsertConverter
      BY <1>2, <3>2, Zenon DEF InsertConverter, ObjectInv
    <3>3. CASE Replan
      BY <1>2, <3>3, Zenon DEF Replan, Goto, ObjectInv
    <3>4. CASE Commit
      BY <1>2, <3>4, Zenon DEF Commit, Planned, Goto, ObjectInv
    <3>5. CASE RejectPrecision
      BY <2>2, <3>5, Zenon DEF RejectPrecision
    <3>6. CASE RejectMemory
      BY <2>2, <3>6, Zenon DEF RejectMemory
    <3>. QED
      BY <2>5, <3>1, <3>2, <3>3, <3>4, <3>5, <3>6, Zenon DEF PlanStep
  <2>6. ASSUME NEW port \in Ports, SetSource(port) PROVE ObjectInv'
    BY <1>2, <2>6, Zenon DEF SetSource, ObjectInv
  <2>7. CASE UNCHANGED vars
    BY <1>2, <2>7, Zenon DEF vars, ObjectInv
  <2>. QED
    BY <1>2, <2>1, <2>3, <2>4, <2>5, <2>6, <2>7, Zenon DEF Next, Terminated
<1>3. ObjectInv => LoadIsAllOrNothing
  BY Zenon DEF ObjectInv, LoadIsAllOrNothing, Returned
<1>. QED
  BY <1>1, <1>2, <1>3, PTL DEF Spec

---------------------------------------------------------------------------
\* Edges between n nodes, at ports that the document names or at those of a converter.
Resolved(n) == [from : 1..n, to : 1..n, from_port : STRING \cup {"out"}, to_port : STRING \cup {"in"}]

LoadType ==
    /\ loads \in Nat /\ k \in Nat \ {0}
    /\ phase # "idle" => loads > 0
    /\ loads > 0 => doc \in Documents /\ edges \in Seq(Resolved(Len(doc.nodes)))

LEMMA ResolvedIsGraph == ASSUME NEW n \in Nat, NEW E \in Seq(Resolved(n)) PROVE IsGraph(n, E)
<1>1. Len(E) \in Nat /\ DOMAIN E = 1..Len(E) /\ \A e \in DOMAIN E : E[e] \in Resolved(n)
  OBVIOUS
<1>2. \A x \in Resolved(n) : x.from \in 1..n /\ x.to \in 1..n
  BY Zenon DEF Resolved
<1>. QED
  BY <1>1, <1>2, Zenon DEF IsGraph

\* node_index maps the id of a node of the document to such a node.
LEMMA IndexIsNode ==
    ASSUME doc \in Documents, NEW id, Named(id) # {}
    PROVE  NodeIndex(id) \in 1..Len(doc.nodes)
<1>1. Named(id) \subseteq Nat /\ Named(id) \subseteq 1..Len(doc.nodes)
  <2>1. DOMAIN doc.nodes = 1..Len(doc.nodes) /\ 1..Len(doc.nodes) \subseteq Nat
    BY DocumentsAssumption
  <2>. QED
    BY <2>1, Zenon DEF Named
<1>2. \E x \in Named(id) : \A y \in Named(id) : x <= y
  BY <1>1, Least, Zenon
<1>3. NodeIndex(id) \in Named(id)
  BY <1>2, Zenon DEF NodeIndex, Min
<1>. QED
  BY <1>1, <1>3, Zenon

LEMMA LoadTyped == Spec => []LoadType
<1>1. Init => LoadType
  BY DEF Init, LoadType
<1>2. ASSUME LoadType, [Next]_vars PROVE LoadType'
  <2>1. ASSUME NEW d \in Documents, Load(d) PROVE LoadType'
    BY <1>2, <2>1 DEF Load, LoadType
  <2>2. ASSUME UNCHANGED <<doc, loads, edges>>, phase # "idle" \/ UNCHANGED phase, k' \in {1, k, k + 1} PROVE LoadType'
    BY <1>2, <2>2 DEF LoadType
  <2>3. CASE ReadEdge
    <3>1. CASE k > Len(doc.edges)
      BY <2>2, <2>3, <3>1, Zenon DEF ReadEdge, Goto
    <3>2. CASE ~(k > Len(doc.edges))
      <4> DEFINE e == doc.edges[k]
                 n == Len(doc.nodes)
                 x == [from |-> NodeIndex(e.from), to |-> NodeIndex(e.to), from_port |-> e.from_port, to_port |-> e.to_port]
      <4>1. /\ Named(e.from) # {} /\ Named(e.to) # {} /\ edges' = Append(edges, x)
            /\ k' = k + 1 /\ UNCHANGED <<doc, loads, phase>> /\ phase = "edges"
        BY <2>3, <3>2, Zenon DEF ReadEdge
      <4>2. doc \in Documents /\ edges \in Seq(Resolved(n)) /\ loads \in Nat /\ loads > 0 /\ k \in Nat \ {0}
        BY <1>2, <4>1, Zenon DEF LoadType
      <4>3. e \in DocumentEdges
        <5>1. doc.edges \in Seq(DocumentEdges)
          BY <4>2, DocumentsAssumption, Zenon
        <5>. QED
          BY <3>2, <4>2, <5>1
      <4>4. NodeIndex(e.from) \in 1..n /\ NodeIndex(e.to) \in 1..n
        BY <4>1, <4>2, IndexIsNode, Zenon
      <4>5. x \in Resolved(n)
        <5> HIDE DEF e
        <5>. QED
          BY <4>3, <4>4, Zenon DEF Resolved, DocumentEdges
      <4> HIDE DEF x
      <4>6. edges' \in Seq(Resolved(n))
        BY <4>1, <4>2, <4>5, AppendIn, Zenon
      <4>7. k' \in Nat \ {0}
        BY <4>1, <4>2
      <4>. QED
        BY <4>1, <4>2, <4>6, <4>7, Zenon DEF LoadType
    <3>. QED
      BY <3>1, <3>2, Zenon
  <2>4. CASE ReadStep /\ ~ReadEdge
    BY <2>2, <2>4, Zenon DEF ReadStep, ReadDocument, RejectDocument, ReadNode, RejectNode, RejectEdge, Reject, Goto
  <2>5. CASE GraphStep
    BY <2>2, <2>5, Zenon DEF GraphStep, SortNodesOfGraph, RejectCycle, AccumulateSteps, CheckEdge, RejectCheckedEdge, Reject, Goto
  <2>6. CASE PlanStep
    BY <2>2, <2>6, Zenon DEF PlanStep, KeepEdge, InsertConverter, RejectPrecision, Replan, Commit, RejectMemory, Reject, Goto
  <2>7. ASSUME NEW port \in Ports, SetSource(port) PROVE LoadType'
    BY <2>2, <2>7, Zenon DEF SetSource
  <2>8. CASE UNCHANGED vars
    BY <2>2, <2>8, Zenon DEF vars
  <2>. QED
    BY <1>2, <2>1, <2>3, <2>4, <2>5, <2>6, <2>7, <2>8, Zenon DEF Next, Terminated
<1>. QED
  BY <1>1, <1>2, PTL DEF Spec

\* Kahn's loop in load() is exact for every document: it places no node twice and every producer
\* before its consumers, and it leaves nodes out if and only if the graph has a cycle.
THEOREM SortExactly == Spec => []SortIsExact
<1>1. LoadType => SortIsExact
  <2> SUFFICES ASSUME LoadType, phase = "sort"
               PROVE  /\ IsInjective(Sorted)
                      /\ \A j \in DOMAIN Sorted : \A e \in Into(Sorted[j]) : \E i \in 1..(j - 1) : Sorted[i] = e.from
                      /\ Len(Sorted) # Len(doc.nodes) <=> HasCycle
    BY Zenon DEF SortIsExact
  <2> DEFINE n == Len(doc.nodes)
  <2>1. doc \in Documents /\ edges \in Seq(Resolved(n))
    BY Zenon DEF LoadType
  <2>2. n \in Nat /\ DOMAIN doc.nodes = 1..n
    BY <2>1, DocumentsAssumption
  <2>3. IsGraph(n, edges)
    BY <2>1, <2>2, ResolvedIsGraph, Zenon
  <2>4. IsInjective(Sorted) /\ ProducersFirst(edges, Sorted)
    BY <2>3, SortFacts, Zenon DEF Sorted
  <2>5. \A v, e : e \in Into(v) <=> \E j \in DOMAIN edges : edges[j] = e /\ edges[j].to = v
    BY Zenon DEF Into, Range
  <2>6. \A j \in DOMAIN Sorted : \A e \in Into(Sorted[j]) : \E i \in 1..(j - 1) : Sorted[i] = e.from
    <3> TAKE j \in DOMAIN Sorted
    <3> TAKE e \in Into(Sorted[j])
    <3>1. PICK l \in DOMAIN edges : edges[l] = e /\ edges[l].to = Sorted[j]
      BY <2>5, Zenon
    <3>2. \E i \in 1..(j - 1) : Sorted[i] = edges[l].from
      BY <2>4, <3>1, Zenon DEF ProducersFirst
    <3>. QED
      BY <3>1, <3>2, Zenon
  <2>7. HasCycle <=> \E S : IsKnot(n, edges, S)
    <3>1. \A v, S : (\E e \in Into(v) : e.from \in S) <=> \E j \in DOMAIN edges : edges[j].to = v /\ edges[j].from \in S
      <4> TAKE v, S
      <4>1. ASSUME NEW e \in Into(v), e.from \in S
            PROVE  \E j \in DOMAIN edges : edges[j].to = v /\ edges[j].from \in S
        <5>1. PICK l \in DOMAIN edges : edges[l] = e /\ edges[l].to = v
          BY <2>5, Zenon
        <5>. QED
          BY <4>1, <5>1, Zenon
      <4>2. ASSUME NEW l \in DOMAIN edges, edges[l].to = v, edges[l].from \in S PROVE edges[l] \in Into(v)
        BY <2>5, <4>2, Zenon
      <4>. QED
        BY <4>1, <4>2, Zenon
    <3>2. \A S : IsKnot(n, edges, S) <=>
                 S \in (SUBSET (1..n)) \ {{}} /\ \A v \in S : \E e \in Into(v) : e.from \in S
      <4> TAKE S
      <4>1. (\A v \in S : \E e \in Into(v) : e.from \in S)
               <=> \A v \in S : \E j \in DOMAIN edges : edges[j].to = v /\ edges[j].from \in S
        BY <3>1, Zenon
      <4>. QED
        BY <4>1, Zenon DEF IsKnot
    <3>. QED
      BY <2>2, <3>2, Zenon DEF HasCycle
  <2>8. Len(Sorted) # n <=> \E S : IsKnot(n, edges, S)
    BY <2>3, SortExact, Zenon DEF Sorted
  <2>. QED
    BY <2>4, <2>6, <2>7, <2>8, Zenon
<1>. QED
  BY <1>1, LoadTyped, PTL

---------------------------------------------------------------------------
OwnSteps(u) == UNION {Produced(doc.nodes, e).sets : e \in OutOf(u)}
UpstreamSteps(v) == UNION {OwnSteps(u) : u \in Upstream(v)}

\* What is upstream of a node is the node itself and what is upstream of its producers.
LEMMA UpstreamUnfolds ==
    ASSUME NEW n \in Nat, DOMAIN doc.nodes = 1..n, IsGraph(n, edges), NEW v \in 1..n
    PROVE  \A u : u \in Upstream(v) <=> u = v \/ \E e \in Into(v) : u \in Upstream(e.from)
<1> DEFINE Closed(S) == \A e \in Range(edges) : e.to \in S => e.from \in S
<1>1. \A x, u : u \in Upstream(x) <=> u \in 1..n /\ \A S \in SUBSET (1..n) : x \in S /\ Closed(S) => u \in S
  BY Zenon DEF Upstream
<1>2. \A e \in Range(edges) : e.from \in 1..n /\ e.to \in 1..n
  BY Zenon DEF IsGraph, Range
<1>3. \A e : e \in Into(v) <=> e \in Range(edges) /\ e.to = v
  BY Zenon DEF Into
<1>4. v \in Upstream(v)
  BY <1>1, Zenon
<1>5. ASSUME NEW e \in Into(v), NEW u \in Upstream(e.from) PROVE u \in Upstream(v)
  <2>1. e \in Range(edges) /\ e.to = v
    BY <1>3, <1>5, Zenon
  <2>2. u \in 1..n /\ \A S \in SUBSET (1..n) : e.from \in S /\ Closed(S) => u \in S
    BY <1>1, <1>5, Zenon
  <2>3. ASSUME NEW S \in SUBSET (1..n), v \in S, Closed(S) PROVE u \in S
    <3>1. e.from \in S
      BY <2>1, <2>3, Zenon
    <3>. QED
      BY <2>2, <2>3, <3>1, Zenon
  <2> HIDE DEF Closed
  <2>. QED
    BY <1>1, <2>2, <2>3, Zenon
<1>6. ASSUME NEW u \in Upstream(v) PROVE u = v \/ \E e \in Into(v) : u \in Upstream(e.from)
  <2> DEFINE W == {w \in 1..n : w = v \/ \E e \in Into(v) : w \in Upstream(e.from)}
  <2>1. ASSUME NEW e \in Range(edges), e.to \in W PROVE e.from \in W
    <3>1. CASE e.to = v
      <4>1. e \in Into(v) /\ e.from \in 1..n
        BY <1>2, <1>3, <2>1, <3>1, Zenon
      <4>2. e.from \in Upstream(e.from)
        BY <1>1, <4>1, Zenon
      <4>. QED
        BY <4>1, <4>2, Zenon
    <3>2. ASSUME NEW d \in Into(v), e.to \in Upstream(d.from) PROVE e.from \in W
      <4>1. \A S \in SUBSET (1..n) : d.from \in S /\ Closed(S) => e.to \in S
        BY <1>1, <3>2, Zenon
      <4>2. ASSUME NEW S \in SUBSET (1..n), d.from \in S, Closed(S) PROVE e.from \in S
        BY <2>1, <4>1, <4>2, Zenon
      <4>3. e.from \in 1..n
        BY <1>2, Zenon
      <4>4. e.from \in Upstream(d.from)
        <5> HIDE DEF Closed
        <5>. QED
          BY <1>1, <4>2, <4>3, Zenon
      <4>. QED
        BY <4>3, <4>4, Zenon
    <3>. QED
      BY <2>1, <3>1, <3>2, Zenon
  <2>2. W \in SUBSET (1..n) /\ v \in W /\ Closed(W)
    BY <2>1, Zenon
  <2>3. u \in W
    <3> HIDE DEF W, Closed
    <3>. QED
      BY <1>1, <1>6, <2>2, Zenon
  <2>. QED
    BY <2>3, Zenon
<1>. QED
  BY <1>4, <1>5, <1>6, Zenon

\* One step of the accumulation, when what the producers accumulated is right.
LEMMA StepsUnfold ==
    ASSUME NEW n \in Nat, DOMAIN doc.nodes = 1..n, IsGraph(n, edges), NEW v \in 1..n,
           \A e \in Into(v) : cumulative[e.from] = UpstreamSteps(e.from)
    PROVE  Steps(v) = UpstreamSteps(v)
<1>1. \A x : x \in Steps(v) <=> (\E e \in Into(v) : x \in cumulative[e.from]) \/ x \in OwnSteps(v)
  BY Zenon DEF Steps, OwnSteps
<1>2. \A u : u \in Upstream(v) <=> u = v \/ \E e \in Into(v) : u \in Upstream(e.from)
  BY UpstreamUnfolds, Zenon
<1>3. \A x, w : x \in UpstreamSteps(w) <=> \E u \in Upstream(w) : x \in OwnSteps(u)
  BY Zenon DEF UpstreamSteps
<1>4. ASSUME NEW x \in Steps(v) PROVE x \in UpstreamSteps(v)
  <2>1. CASE x \in OwnSteps(v)
    BY <1>2, <1>3, <2>1, Zenon
  <2>2. ASSUME NEW e \in Into(v), x \in cumulative[e.from] PROVE x \in UpstreamSteps(v)
    <3>1. PICK u \in Upstream(e.from) : x \in OwnSteps(u)
      BY <1>3, <2>2, Zenon
    <3>. QED
      BY <1>2, <1>3, <3>1, Zenon
  <2>. QED
    BY <1>1, <1>4, <2>1, <2>2, Zenon
<1>5. ASSUME NEW x \in UpstreamSteps(v) PROVE x \in Steps(v)
  <2>1. PICK u \in Upstream(v) : x \in OwnSteps(u)
    BY <1>3, <1>5, Zenon
  <2>2. CASE u = v
    BY <1>1, <2>1, <2>2, Zenon
  <2>3. ASSUME NEW e \in Into(v), u \in Upstream(e.from) PROVE x \in Steps(v)
    <3>1. x \in UpstreamSteps(e.from)
      BY <1>3, <2>1, <2>3, Zenon
    <3>2. x \in cumulative[e.from]
      BY <3>1, Zenon
    <3>. QED
      BY <1>1, <3>2, Zenon
  <2>. QED
    BY <1>2, <2>1, <2>2, <2>3, Zenon
<1>. QED
  BY <1>4, <1>5, Zenon

LEMMA UpstreamStays == ASSUME UNCHANGED <<doc, edges>> PROVE \A v : UpstreamSteps(v)' = UpstreamSteps(v)
<1>1. doc' = doc /\ edges' = edges
  BY Zenon
<1>. QED
  BY <1>1 DEF UpstreamSteps, OwnSteps, Upstream, OutOf

\* The nodes before position k have accumulated what is upstream of them; the order makes that
\* enough for the node at k.
StepsInv ==
    /\ phase = "steps" =>
          /\ order \in Seq(1..Len(doc.nodes)) /\ Range(order) = 1..Len(doc.nodes) /\ ProducersFirst(edges, order)
          /\ DOMAIN cumulative = 1..Len(doc.nodes)
          /\ \A j \in DOMAIN order : j < k => cumulative[order[j]] = UpstreamSteps(order[j])
    /\ phase = "checks" => \A v \in 1..Len(doc.nodes) : cumulative[v] = UpstreamSteps(v)

\* The loop over the sorted nodes.
LEMMA AccumulateInv == LoadType /\ StepsInv /\ AccumulateSteps => StepsInv'
<1> SUFFICES ASSUME LoadType, StepsInv, AccumulateSteps PROVE StepsInv'
  BY Zenon
<1> DEFINE n == Len(doc.nodes)
<1>1. phase = "steps" /\ doc' = doc /\ edges' = edges /\ order' = order
  BY Zenon DEF AccumulateSteps
<1>2. /\ order \in Seq(1..n) /\ Range(order) = 1..n /\ ProducersFirst(edges, order) /\ DOMAIN cumulative = 1..n
      /\ \A j \in DOMAIN order : j < k => cumulative[order[j]] = UpstreamSteps(order[j])
  BY <1>1, Zenon DEF StepsInv
<1>3. doc \in Documents /\ edges \in Seq(Resolved(n)) /\ k \in Nat \ {0}
  BY <1>1, Zenon DEF LoadType
<1>4. n \in Nat /\ DOMAIN doc.nodes = 1..n
  BY <1>3, DocumentsAssumption
<1>5. IsGraph(n, edges)
  BY <1>3, <1>4, ResolvedIsGraph, Zenon
<1>6. \A v : UpstreamSteps(v)' = UpstreamSteps(v)
  BY <1>1, UpstreamStays, Zenon
<1>7. Len(order) \in Nat /\ DOMAIN order = 1..Len(order)
  BY <1>2
<1>8. CASE k > Len(order)
  <2>1. phase' = "checks" /\ cumulative' = cumulative
    BY <1>8, Zenon DEF AccumulateSteps, Goto
  <2>2. \A j \in 1..Len(order) : j < k
    BY <1>3, <1>7, <1>8
  <2>3. \A v \in 1..n : cumulative[v] = UpstreamSteps(v)
    BY <1>2, <1>7, <2>2, Zenon DEF Range
  <2>. QED
    BY <1>1, <1>6, <2>1, <2>3, Zenon DEF StepsInv
<1>9. CASE ~(k > Len(order))
  <2> DEFINE v0 == order[k]
  <2>1. phase' = "steps" /\ k' = k + 1 /\ cumulative' = [cumulative EXCEPT ![v0] = Steps(v0)]
    BY <1>1, <1>9, Zenon DEF AccumulateSteps
  <2>2. k \in 1..Len(order) /\ v0 \in 1..n
    BY <1>2, <1>3, <1>7, <1>9
  <2>3. ASSUME NEW e \in Into(v0) PROVE cumulative[e.from] = UpstreamSteps(e.from)
    <3>1. PICK l \in DOMAIN edges : edges[l] = e /\ edges[l].to = v0
      BY Zenon DEF Into, Range
    <3>2. PICK i \in 1..(k - 1) : order[i] = edges[l].from
      BY <1>2, <1>7, <2>2, <3>1, Zenon DEF ProducersFirst
    <3>3. i \in 1..Len(order) /\ i < k
      BY <1>7, <2>2, <3>2
    <3>. QED
      BY <1>2, <1>7, <3>1, <3>2, <3>3, Zenon
  <2>4. Steps(v0) = UpstreamSteps(v0)
    BY <1>4, <1>5, <2>2, <2>3, StepsUnfold, Zenon
  <2> HIDE DEF v0
  <2>5. /\ DOMAIN cumulative' = 1..n /\ cumulative'[v0] = UpstreamSteps(v0)
        /\ \A v \in 1..n : v # v0 => cumulative'[v] = cumulative[v]
    BY <1>2, <2>1, <2>2, <2>4, Zenon
  <2>6. ASSUME NEW j \in 1..Len(order), j < k' PROVE cumulative'[order[j]] = UpstreamSteps(order[j])
    <3>1. j < k \/ j = k
      BY <1>3, <1>7, <2>1, <2>6
    <3>2. order[j] \in 1..n
      BY <1>2, <1>7
    <3>3. CASE order[j] = v0
      BY <2>5, <3>3, Zenon
    <3>4. CASE order[j] # v0
      BY <1>2, <1>7, <2>5, <3>1, <3>2, <3>4, Zenon DEF v0
    <3>. QED
      BY <3>3, <3>4, Zenon
  <2>. QED
    BY <1>1, <1>2, <1>6, <1>7, <2>1, <2>5, <2>6, Zenon DEF StepsInv
<1>. QED
  BY <1>8, <1>9, Zenon

\* The metadata check of load() is exact for every document: the steps accumulated in one pass over
\* the sorted nodes are those set by the nodes upstream.
THEOREM StepsExactly == Spec => []StepsAreThoseUpstream
<1>1. Init => StepsInv
  BY Zenon DEF Init, StepsInv
<1>2. LoadType /\ StepsInv /\ [Next]_vars => StepsInv'
  <2> SUFFICES ASSUME LoadType, StepsInv, [Next]_vars PROVE StepsInv'
    BY Zenon
  <2>1. ASSUME phase' \notin {"steps", "checks"} PROVE StepsInv'
    BY <2>1, Zenon DEF StepsInv
  <2>2. ASSUME UNCHANGED <<doc, edges, order, cumulative>>, UNCHANGED <<phase, k>> \/ (phase = "checks" /\ phase' = phase) PROVE StepsInv'
    <3>1. \A v : UpstreamSteps(v)' = UpstreamSteps(v)
      BY <2>2, UpstreamStays, Zenon
    <3>. QED
      BY <2>2, <3>1, Zenon DEF StepsInv
  <2>3. ASSUME NEW d \in Documents, Load(d) PROVE StepsInv'
    BY <2>1, <2>3, Zenon DEF Load
  <2>4. CASE ReadStep
    BY <2>1, <2>4, Zenon DEF ReadStep, ReadDocument, RejectDocument, ReadNode, RejectNode, ReadEdge, RejectEdge, Reject, Goto
  <2>5. CASE SortNodesOfGraph
    <3> DEFINE n == Len(doc.nodes)
    <3>1. /\ phase = "sort" /\ phase' = "steps" /\ k' = 1 /\ order' = Sorted /\ Len(Sorted) = n /\ doc' = doc /\ edges' = edges
          /\ cumulative' = [v \in DOMAIN doc.nodes |-> {}]
      BY <2>5, Zenon DEF SortNodesOfGraph, Goto
    <3>2. doc \in Documents /\ edges \in Seq(Resolved(n))
      BY <3>1, Zenon DEF LoadType
    <3>3. n \in Nat /\ DOMAIN doc.nodes = 1..n
      BY <3>2, DocumentsAssumption
    <3>4. IsGraph(n, edges)
      BY <3>2, <3>3, ResolvedIsGraph, Zenon
    <3>5. Sorted \in Seq(1..n) /\ IsInjective(Sorted) /\ ProducersFirst(edges, Sorted)
      BY <3>4, SortFacts, Zenon DEF Sorted
    <3>6. Range(Sorted) = 1..n
      BY <3>1, <3>3, <3>5, CompleteOrder, Zenon
    <3>7. \A j \in DOMAIN Sorted : ~(j < 1)
      BY <3>5
    <3>8. DOMAIN cumulative' = 1..n
      BY <3>1, <3>3, Zenon
    <3>. QED
      BY <3>1, <3>5, <3>6, <3>7, <3>8, Zenon DEF StepsInv
  <2>6. CASE AccumulateSteps
    BY <2>6, AccumulateInv, Zenon
  <2>7. CASE CheckEdge
    BY <2>1, <2>2, <2>7, Zenon DEF CheckEdge, Goto
  <2>8. CASE RejectCycle \/ RejectCheckedEdge
    BY <2>1, <2>8, Zenon DEF RejectCycle, RejectCheckedEdge, Reject, Goto
  <2>9. CASE PlanStep
    BY <2>1, <2>9, Zenon DEF PlanStep, KeepEdge, InsertConverter, RejectPrecision, Replan, Commit, RejectMemory, Reject, Goto
  <2>10. ASSUME NEW port \in Ports, SetSource(port) PROVE StepsInv'
    BY <2>1, <2>10, Zenon DEF SetSource
  <2>11. CASE UNCHANGED vars
    BY <2>2, <2>11, Zenon DEF vars
  <2>. QED
    BY <2>3, <2>4, <2>5, <2>6, <2>7, <2>8, <2>9, <2>10, <2>11, Zenon DEF Next, GraphStep, Terminated
<1>3. LoadType /\ StepsInv => StepsAreThoseUpstream
  <2> SUFFICES ASSUME LoadType, StepsInv, phase = "checks", NEW v \in DOMAIN doc.nodes PROVE cumulative[v] = UpstreamSteps(v)
    BY Zenon DEF StepsAreThoseUpstream, UpstreamSteps, OwnSteps
  <2>1. doc \in Documents
    BY Zenon DEF LoadType
  <2>2. DOMAIN doc.nodes = 1..Len(doc.nodes)
    BY <2>1, DocumentsAssumption
  <2>. QED
    BY <2>2, Zenon DEF StepsInv
<1>. QED
  BY <1>1, <1>2, <1>3, LoadTyped, PTL DEF Spec

---------------------------------------------------------------------------
\* No two edges go to one node; no two come from one node.
ToOnce(E) == \A a, b \in DOMAIN E : E[a].to = E[b].to => a = b
FromOnce(E) == \A a, b \in DOMAIN E : E[a].from = E[b].from => a = b

\* With one edge less than there are nodes, every node but the first has a producer.
Fed(m, E, q) == \A v \in (1..m) \ {q[1]} : \E l \in DOMAIN E : E[l].to = v

LEMMA AllButFirst ==
    ASSUME NEW m, NEW E, IsGraph(m, E), ToOnce(E), Len(E) = m - 1,
           NEW q \in Seq(1..m), Len(q) = m, ProducersFirst(E, q)
    PROVE  Fed(m, E, q)
<1>1. m \in Nat \ {0} /\ DOMAIN E = 1..(m - 1) /\ m - 1 \in Nat /\ DOMAIN q = 1..m /\ q[1] \in 1..m
  <2>1. m \in Nat /\ Len(E) \in Nat /\ DOMAIN E = 1..Len(E)
    BY Zenon DEF IsGraph
  <2>2. m \in Nat \ {0} /\ m - 1 \in Nat
    BY <2>1
  <2>3. DOMAIN q = 1..m /\ q[1] \in 1..m
    BY <2>2
  <2>. QED
    BY <2>1, <2>2, <2>3, Zenon
<1> DEFINE S == 1..(m - 1)
           T == (1..m) \ {q[1]}
           f == [l \in S |-> E[l].to]
<1>2. IsFiniteSet(S) /\ Cardinality(S) = m - 1 /\ IsFiniteSet(1..m) /\ Cardinality(1..m) = m
  BY <1>1, IntervalCount, Zenon
<1>3. IsFiniteSet(T) /\ Cardinality(T) = m - 1
  BY <1>1, <1>2, FS_RemoveElement, ZenonT(30)
<1>4. ASSUME NEW l \in S PROVE E[l].to \in T
  <2>1. E[l].to \in 1..m
    BY <1>1, Zenon DEF IsGraph
  <2>2. ASSUME E[l].to = q[1] PROVE FALSE
    <3>1. \E i \in 1..(1 - 1) : q[i] = E[l].from
      <4>1. 1 \in DOMAIN q
        BY <1>1
      <4>. QED
        BY <1>1, <2>2, <4>1, Zenon DEF ProducersFirst
    <3>2. 1..(1 - 1) = {}
      OBVIOUS
    <3>. QED
      BY <3>1, <3>2, Zenon
  <2>. QED
    BY <2>1, <2>2, Zenon
<1>5. f \in Injection(S, T)
  <2>1. \A a, b \in S : E[a].to = E[b].to => a = b
    BY <1>1, Zenon DEF ToOnce
  <2>. QED
    BY <1>4, <2>1, Zenon DEF Injection, IsInjective
<1> HIDE DEF f, S, T
<1>6. f \in Surjection(S, T)
  BY <1>2, <1>3, <1>5, FS_Injection, Zenon
<1>7. \A v \in T : \E l \in S : f[l] = v
  BY <1>6, Zenon DEF Surjection
<1>. QED
  BY <1>1, <1>7, Zenon DEF f, S, T, Fed

\* Such a graph whose edges also come from different nodes is a path, and its only order is the chain.
Chained(m, E, q) == \A i \in 1..(m - 1) : \E l \in DOMAIN E : E[l].from = q[i] /\ E[l].to = q[i + 1]

LEMMA PathIsChain ==
    ASSUME NEW m, NEW E, IsGraph(m, E), ToOnce(E), FromOnce(E), Len(E) = m - 1,
           NEW q \in Seq(1..m), Len(q) = m, IsInjective(q), ProducersFirst(E, q)
    PROVE  Chained(m, E, q)
<1> DEFINE Linked(i) == \E l \in DOMAIN E : E[l].from = q[i] /\ E[l].to = q[i + 1]
           T == {i \in 1..(m - 1) : ~Linked(i)}
<1>0. m \in Nat /\ DOMAIN q = 1..m
  BY DEF IsGraph
<1>1. SUFFICES ASSUME T # {} PROVE FALSE
  BY Zenon DEF Chained
<1>2. PICK i \in T : \A j \in T : i <= j
  <2>1. T \subseteq Nat
    BY <1>0
  <2> HIDE DEF T
  <2>. QED
    BY <1>1, <2>1, Least, Zenon
<1>3. i \in 1..(m - 1) /\ i + 1 \in 1..m /\ i + 1 # 1 /\ 1 \in 1..m
  <2>1. i \in 1..(m - 1)
    BY <1>2, Zenon
  <2> HIDE DEF T
  <2>2. i + 1 \in 1..m /\ i + 1 # 1 /\ 1 \in 1..m
    BY <1>0, <2>1
  <2>. QED
    BY <2>1, <2>2, Zenon
<1>4. q[i + 1] \in (1..m) \ {q[1]}
  <2>1. q[i + 1] \in 1..m
    BY <1>3
  <2>2. q[i + 1] # q[1]
    BY <1>0, <1>3, Zenon DEF IsInjective
  <2>. QED
    BY <2>1, <2>2, Zenon
<1>5. PICK l \in DOMAIN E : E[l].to = q[i + 1]
  <2>1. Fed(m, E, q)
    BY AllButFirst, Zenon
  <2>. QED
    BY <1>4, <2>1, Zenon DEF Fed
<1>6. PICK h \in 1..((i + 1) - 1) : q[h] = E[l].from
  BY <1>0, <1>3, <1>5, Zenon DEF ProducersFirst
<1>7. CASE h = i
  BY <1>2, <1>5, <1>6, <1>7, Zenon
<1>8. CASE h # i
  <2>1. h \in 1..(m - 1) /\ ~(i <= h) /\ h + 1 \in 1..m /\ h + 1 # i + 1
    <3>1. \A a \in Nat : \A b \in 1..(a - 1) : \A c \in 1..((b + 1) - 1) :
             c # b => c \in 1..(a - 1) /\ ~(b <= c) /\ c + 1 \in 1..a /\ c + 1 # b + 1
      OBVIOUS
    <3>. QED
      BY <1>0, <1>3, <1>6, <1>8, <3>1, Zenon
  <2>2. PICK j \in DOMAIN E : E[j].from = q[h] /\ E[j].to = q[h + 1]
    BY <1>2, <2>1, Zenon
  <2>3. j = l
    BY <1>6, <2>2, Zenon DEF FromOnce
  <2>4. q[h + 1] = q[i + 1]
    BY <1>5, <2>2, <2>3, Zenon
  <2>. QED
    BY <1>0, <1>3, <2>1, <2>4, Zenon DEF IsInjective
<1>. QED
  BY <1>7, <1>8, Zenon

LEMMA AtMostOne == ASSUME NEW S, IsFiniteSet(S), Cardinality(S) <= 1, NEW x \in S, NEW y \in S PROVE x = y
<1>1. Cardinality(S) \in Nat
  BY FS_CardinalityType, Zenon
<1>2. Cardinality(S) = 0 \/ Cardinality(S) = 1
  BY <1>1
<1>3. S # {}
  BY Zenon
<1>4. Cardinality(S) = 1
  BY <1>2, <1>3, FS_EmptySet, Zenon
<1>5. PICK z : S = {z}
  BY <1>4, FS_Singleton, Zenon
<1>. QED
  BY <1>5, Zenon

\* A linear pipeline in the terms of the two lemmas above.
LEMMA PathOnce ==
    ASSUME NEW n, edges \in Seq(Resolved(n)), DOMAIN doc.nodes = 1..n, IsGraph(n, edges), IsPath
    PROVE  ToOnce(edges) /\ FromOnce(edges)
<1> DEFINE S == 1..Len(edges)
           T == Range(edges)
<1>1. edges \in [S -> T] /\ DOMAIN edges = S /\ Len(edges) \in Nat
  <2>1. Len(edges) \in Nat /\ DOMAIN edges = S /\ edges = [l \in S |-> edges[l]]
    OBVIOUS
  <2>2. \A l \in S : edges[l] \in T
    BY <2>1, Zenon DEF Range
  <2> HIDE DEF S, T
  <2>3. [l \in S |-> edges[l]] \in [S -> T]
    BY <2>2, Zenon
  <2>. QED
    BY <2>1, <2>3, Zenon
<1>2. edges \in Surjection(S, T)
  BY <1>1, Zenon DEF Surjection, Range
<1>3. IsFiniteSet(S) /\ Cardinality(S) = Len(edges) /\ Cardinality(T) = Len(edges)
  BY <1>1, IntervalCount, Zenon DEF IsPath
<1>4. IsFiniteSet(T) /\ edges \in Injection(S, T)
  <2> HIDE DEF S, T
  <2>. QED
    BY <1>2, <1>3, FS_Surjection, Zenon
<1>5. IsInjective(edges)
  BY <1>4, Zenon DEF Injection
<1>6. \A v : Into(v) \in SUBSET T /\ OutOf(v) \in SUBSET T
  BY Zenon DEF Into, OutOf
<1>7. \A v : IsFiniteSet(Into(v)) /\ IsFiniteSet(OutOf(v))
  <2> HIDE DEF T
  <2>. QED
    BY <1>4, <1>6, FS_Subset, Zenon
<1>8. \A v \in 1..n : Cardinality(Into(v)) <= 1 /\ Cardinality(OutOf(v)) <= 1
  BY Zenon DEF IsPath
<1>9. \A a \in DOMAIN edges : /\ edges[a].to \in 1..n /\ edges[a] \in Into(edges[a].to)
                              /\ edges[a].from \in 1..n /\ edges[a] \in OutOf(edges[a].from)
  BY Zenon DEF IsGraph, Into, OutOf, Range
<1>10. ToOnce(edges)
  <2> SUFFICES ASSUME NEW a \in DOMAIN edges, NEW b \in DOMAIN edges, edges[a].to = edges[b].to PROVE a = b
    BY Zenon DEF ToOnce
  <2>1. edges[a] \in Into(edges[a].to) /\ edges[b] \in Into(edges[a].to) /\ edges[a].to \in 1..n
    BY <1>9, Zenon
  <2>2. IsFiniteSet(Into(edges[a].to)) /\ Cardinality(Into(edges[a].to)) <= 1
    BY <1>7, <1>8, <2>1, Zenon
  <2>3. edges[a] = edges[b]
    BY <2>1, <2>2, AtMostOne, Zenon
  <2>. QED
    BY <1>5, <2>3, Zenon DEF IsInjective
<1>11. FromOnce(edges)
  <2> SUFFICES ASSUME NEW a \in DOMAIN edges, NEW b \in DOMAIN edges, edges[a].from = edges[b].from PROVE a = b
    BY Zenon DEF FromOnce
  <2>1. edges[a] \in OutOf(edges[a].from) /\ edges[b] \in OutOf(edges[a].from) /\ edges[a].from \in 1..n
    BY <1>9, Zenon
  <2>2. IsFiniteSet(OutOf(edges[a].from)) /\ Cardinality(OutOf(edges[a].from)) <= 1
    BY <1>7, <1>8, <2>1, Zenon
  <2>3. edges[a] = edges[b]
    BY <2>1, <2>2, AtMostOne, Zenon
  <2>. QED
    BY <1>5, <2>3, Zenon DEF IsInjective
<1>. QED
  BY <1>10, <1>11, Zenon

---------------------------------------------------------------------------
\* The capabilities of a port name at most one format.
LEMMA OneFormat == ASSUME NEW f \in Formats, NEW g \in Formats, f.channels = g.channels, f.precision = g.precision PROVE f.format = g.format
<1>1. {"r"} # {"rgba"} /\ {"u16"} # {"f32"} /\ {"f16"} # {"u8"} /\ {"f16"} # {"u16"} /\ {"u8"} # {"u16"}
  BY Zenon
<1>. QED
  BY <1>1 DEF Formats

LEMMA FormatOfCaps == ASSUME NEW p, NEW f \in FormatsFromCaps(p) PROVE FormatsFromCaps(p) = {f}
<1>1. PICK x \in Formats : x.channels = p.channels /\ x.precision = p.precision /\ f = x.format
  BY Zenon DEF FormatsFromCaps
<1>2. ASSUME NEW g \in FormatsFromCaps(p) PROVE g = f
  <2>1. PICK y \in Formats : y.channels = p.channels /\ y.precision = p.precision /\ g = y.format
    BY <1>2, Zenon DEF FormatsFromCaps
  <2>. QED
    BY <1>1, <2>1, OneFormat, Zenon
<1>. QED
  BY <1>2, Zenon

\* The converter takes and gives the precisions of the formats that it converts between.
LEMMA ConverterCompatible ==
    ASSUME PrecisionConvert \in DOMAIN Manifest, NEW p, NEW q,
           NEW f \in FormatsFromCaps(p), NEW g \in FormatsFromCaps(q), <<f, g>> \in DirectConversions
    PROVE  /\ Intersects(p.precision, Port(PrecisionConvert, "in", "in").precision)
           /\ Intersects(Port(PrecisionConvert, "out", "out").precision, q.precision)
<1>1. PICK x \in Formats : x.precision = p.precision /\ f = x.format
  BY Zenon DEF FormatsFromCaps
<1>2. PICK y \in Formats : y.precision = q.precision /\ g = y.format
  BY Zenon DEF FormatsFromCaps
<1>3. /\ f \in {"R16_UINT", "R32_SFLOAT", "R16G16B16A16_SFLOAT"}
      /\ g \in {"R32_SFLOAT", "R16G16B16A16_SFLOAT", "R8G8B8A8_UNORM", "R16G16B16A16_UNORM"}
  BY Zenon DEF DirectConversions
<1>4. x.precision \in {{"u16"}, {"f32"}, {"f16"}}
  BY <1>1, <1>3 DEF Formats
<1>5. y.precision \in {{"f32"}, {"f16"}, {"u8"}, {"u16"}}
  BY <1>2, <1>3 DEF Formats
<1>6. /\ {"u16", "f32", "f16"} \subseteq Port(PrecisionConvert, "in", "in").precision
      /\ {"f32", "f16", "u8", "u16"} \subseteq Port(PrecisionConvert, "out", "out").precision
  BY ConverterAssumption, Zenon
<1>7. Intersects(p.precision, Port(PrecisionConvert, "in", "in").precision)
  BY <1>1, <1>4, <1>6, Zenon DEF Intersects
<1>8. Intersects(Port(PrecisionConvert, "out", "out").precision, q.precision)
  BY <1>2, <1>5, <1>6, Zenon DEF Intersects
<1>. QED
  BY <1>7, <1>8, Zenon

---------------------------------------------------------------------------
\* The plan after j edges of the graph (D, G): the nodes N, those of the document first, then the
\* converters, and the edges E.
PlanNodes == [type : STRING \cup {PrecisionConvert}, target : {f.format : f \in Formats} \cup {""}]
NodesPlanned(D, N) ==
    /\ N \in Seq(PlanNodes) /\ Len(D) <= Len(N)
    /\ \A i \in 1..Len(D) : N[i].type = D[i].type /\ N[i].target = ""

\* ConverterFits of any plan.
Fits(N, E, c) ==
    \E d, e \in Range(E) :
        /\ d.to = c /\ e.from = c
        /\ FormatsFromCaps(Required(N, e)) = {N[c].target}
        /\ \E f \in FormatsFromCaps(Produced(N, d)) : <<f, N[c].target>> \in DirectConversions
ConvertersFit(D, N, E) == \A c \in 1..Len(N) : c > Len(D) => Fits(N, E, c)

EdgesPlanned(N, E) ==
    E \in Seq(Resolved(Len(N))) /\ \A a \in DOMAIN E : Compatible(N, E[a])

\* An edge of the plan ends at a converter or where one of the first j edges ends, and starts so too:
\* the insertion keeps what is linear linear.
ToKnown(n, G, j, v) == v > n \/ \E i \in 1..j : G[i].to = v
FromKnown(n, G, j, v) == v > n \/ \E i \in 1..j : G[i].from = v
EndsKnown(n, G, E, j) == \A a \in DOMAIN E : ToKnown(n, G, j, E[a].to) /\ FromKnown(n, G, j, E[a].from)
KeepsLinear(G, E) == (ToOnce(G) => ToOnce(E)) /\ (FromOnce(G) => FromOnce(E))

\* A converter is one node and one edge more.
Balanced(nodes, planned, j, linked) == linked + nodes = planned + j
LEMMA BalancedKept ==
    ASSUME NEW a \in Nat, NEW b \in Nat, NEW c \in Nat, NEW d \in Nat, Balanced(a, b, c, d)
    PROVE  Balanced(a, b, c + 1, d + 1)
  BY DEF Balanced
LEMMA BalancedInserted ==
    ASSUME NEW a \in Nat, NEW b \in Nat, NEW c \in Nat, NEW d \in Nat, Balanced(a, b, c, d)
    PROVE  Balanced(a, b + 1, c + 1, (d + 1) + 1)
  BY DEF Balanced

IsPlan(D, G, N, E, j) ==
    /\ NodesPlanned(D, N) /\ ConvertersFit(D, N, E) /\ EdgesPlanned(N, E)
    /\ Balanced(Len(D), Len(N), j, Len(E))
    /\ EndsKnown(Len(D), G, E, j) /\ KeepsLinear(G, E)

IsOrder(n, E, q) == q \in Seq(1..n) /\ Len(q) = n /\ IsInjective(q) /\ ProducersFirst(E, q)

Settled == phase = "commit" \/ (phase = "idle" /\ loads > 0 /\ status = OK)
PlanInv ==
    /\ phase = "precision" => k <= Len(edges) + 1 /\ IsPlan(doc.nodes, edges, plan.nodes, plan.edges, k - 1)
    /\ Settled => /\ IsPlan(doc.nodes, edges, plan.nodes, plan.edges, Len(edges))
                  /\ IsOrder(Len(plan.nodes), plan.edges, order)

\* A is q with x behind it.
IsAppended(A, q, x) ==
    /\ Len(A) = Len(q) + 1
    /\ \A a \in DOMAIN A : a \in DOMAIN q \/ a = Len(q) + 1
    /\ \A a \in DOMAIN q : a \in DOMAIN A /\ A[a] = q[a]
    /\ Len(q) + 1 \in DOMAIN A /\ A[Len(q) + 1] = x
LEMMA AppendAt == ASSUME NEW S, NEW q \in Seq(S), NEW x \in S PROVE IsAppended(Append(q, x), q, x)
  BY DEF IsAppended

JoinsTwo(q, x, y) == q \o <<x, y>> = Append(Append(q, x), y)
LEMMA AppendTwo == ASSUME NEW S, NEW q \in Seq(S), NEW x \in S, NEW y \in S PROVE JoinsTwo(q, x, y)
<1>1. /\ q \o <<x, y>> \in Seq(S) /\ Append(Append(q, x), y) \in Seq(S)
      /\ Len(q \o <<x, y>>) = Len(q) + 2 /\ Len(Append(Append(q, x), y)) = Len(q) + 2 /\ Len(q) \in Nat
  OBVIOUS
<1>2. ASSUME NEW i \in 1..(Len(q) + 2) PROVE (q \o <<x, y>>)[i] = Append(Append(q, x), y)[i]
  OBVIOUS
<1>. QED
  BY <1>1, <1>2 DEF JoinsTwo

\* An edge that ends, or starts, where none does.
LEMMA AppendToOnce ==
    ASSUME NEW S, NEW E \in Seq(S), NEW x \in S, ToOnce(E), \A a \in DOMAIN E : E[a].to # x.to
    PROVE  ToOnce(Append(E, x))
<1>1. IsAppended(Append(E, x), E, x)
  BY AppendAt, Zenon
<1>. QED
  BY <1>1, Zenon DEF IsAppended, ToOnce

LEMMA AppendFromOnce ==
    ASSUME NEW S, NEW E \in Seq(S), NEW x \in S, FromOnce(E), \A a \in DOMAIN E : E[a].from # x.from
    PROVE  FromOnce(Append(E, x))
<1>1. IsAppended(Append(E, x), E, x)
  BY AppendAt, Zenon
<1>. QED
  BY <1>1, Zenon DEF IsAppended, FromOnce

\* Where an edge of a linear graph ends, none of the edges before it does, and so no edge of the plan.
LEMMA NewTo ==
    ASSUME NEW n \in Nat, NEW G \in Seq(Resolved(n)), NEW j \in Nat, j + 1 \in DOMAIN G, ToOnce(G),
           NEW v, ToKnown(n, G, j, v)
    PROVE  v # G[j + 1].to
<1>1. G[j + 1].to \in 1..n /\ \A i \in 1..j : i \in DOMAIN G /\ i # j + 1
  <2>1. IsGraph(n, G)
    BY ResolvedIsGraph, Zenon
  <2>2. G[j + 1].to \in 1..n
    BY <2>1, Zenon DEF IsGraph
  <2>3. \A i \in 1..j : i \in DOMAIN G /\ i # j + 1
    OBVIOUS
  <2>. QED
    BY <2>2, <2>3, Zenon
<1>2. ~(G[j + 1].to > n)
  BY <1>1
<1>. QED
  BY <1>1, <1>2, Zenon DEF ToKnown, ToOnce

LEMMA NewFrom ==
    ASSUME NEW n \in Nat, NEW G \in Seq(Resolved(n)), NEW j \in Nat, j + 1 \in DOMAIN G, FromOnce(G),
           NEW v, FromKnown(n, G, j, v)
    PROVE  v # G[j + 1].from
<1>1. G[j + 1].from \in 1..n /\ \A i \in 1..j : i \in DOMAIN G /\ i # j + 1
  <2>1. IsGraph(n, G)
    BY ResolvedIsGraph, Zenon
  <2>2. G[j + 1].from \in 1..n
    BY <2>1, Zenon DEF IsGraph
  <2>3. \A i \in 1..j : i \in DOMAIN G /\ i # j + 1
    OBVIOUS
  <2>. QED
    BY <2>2, <2>3, Zenon
<1>2. ~(G[j + 1].from > n)
  BY <1>1
<1>. QED
  BY <1>1, <1>2, Zenon DEF FromKnown, FromOnce

LEMMA StillKnown ==
    ASSUME NEW n, NEW G, NEW E, NEW j \in Nat, EndsKnown(n, G, E, j)
    PROVE  EndsKnown(n, G, E, j + 1)
<1>1. \A i \in 1..j : i \in 1..(j + 1)
  OBVIOUS
<1>. QED
  BY <1>1, Zenon DEF EndsKnown, ToKnown, FromKnown

\* The ports of an edge depend on the types of its two nodes only.
LEMMA SameProduced == ASSUME NEW N, NEW M, NEW e, N[e.from].type = M[e.from].type PROVE Produced(N, e) = Produced(M, e)
  BY Zenon DEF Produced
LEMMA SameRequired == ASSUME NEW N, NEW M, NEW e, N[e.to].type = M[e.to].type PROVE Required(N, e) = Required(M, e)
  BY Zenon DEF Required

LEMMA ResolvedFields == ASSUME NEW n, NEW e \in Resolved(n) PROVE e.from \in 1..n /\ e.to \in 1..n
  BY Zenon DEF Resolved
LEMMA ResolvedMore == ASSUME NEW n \in Nat, NEW m \in Nat, n <= m, NEW e \in Resolved(n) PROVE e \in Resolved(m)
  BY DEF Resolved

\* What more nodes and edges leave as it was.
LEMMA FitsStay ==
    ASSUME NEW m, NEW N, NEW M, NEW E, IsGraph(m, E), NEW F, \A i \in 1..m : M[i] = N[i],
           Range(E) \subseteq Range(F), NEW c \in 1..m, Fits(N, E, c)
    PROVE  Fits(M, F, c)
<1>1. PICK d \in Range(E), e \in Range(E) :
         /\ d.to = c /\ e.from = c
         /\ FormatsFromCaps(Required(N, e)) = {N[c].target}
         /\ \E f \in FormatsFromCaps(Produced(N, d)) : <<f, N[c].target>> \in DirectConversions
  BY Zenon DEF Fits
<1>2. d.from \in 1..m /\ e.to \in 1..m
  BY Zenon DEF IsGraph, Range
<1>3. M[c] = N[c] /\ M[d.from] = N[d.from] /\ M[e.to] = N[e.to]
  BY <1>2, Zenon
<1>4. Produced(M, d) = Produced(N, d) /\ Required(M, e) = Required(N, e)
  BY <1>3, SameProduced, SameRequired, Zenon
<1>5. d \in Range(F) /\ e \in Range(F)
  BY Zenon
<1>. QED
  BY <1>1, <1>3, <1>4, <1>5, Zenon DEF Fits

LEMMA CompatibleStays ==
    ASSUME NEW N, NEW M, NEW e, M[e.from] = N[e.from], M[e.to] = N[e.to], Compatible(N, e)
    PROVE  Compatible(M, e)
  BY Zenon DEF Compatible, Produced, Required

LEMMA AppendMore == ASSUME NEW S, NEW q \in Seq(S), NEW x \in S PROVE Range(q) \subseteq Range(Append(q, x)) /\ x \in Range(Append(q, x))
<1>1. Range(Append(q, x)) = Adding(Range(q), x)
  BY AppendRange, Zenon
<1>. QED
  BY <1>1, Zenon DEF Adding

\* The fact the cases below begin with.
LEMMA PlanSizes ==
    ASSUME NEW D \in Seq(DocumentNodes), NEW G \in Seq(Resolved(Len(D))), NEW N, NEW E, NEW j \in Nat, IsPlan(D, G, N, E, j)
    PROVE  /\ Len(D) \in Nat /\ Len(N) \in Nat /\ Len(D) <= Len(N) /\ Len(E) \in Nat
           /\ N \in Seq(PlanNodes) /\ E \in Seq(Resolved(Len(N))) /\ IsGraph(Len(N), E)
           /\ DOMAIN N = 1..Len(N)
<1>1. N \in Seq(PlanNodes) /\ Len(D) <= Len(N) /\ E \in Seq(Resolved(Len(N)))
  BY Zenon DEF IsPlan, NodesPlanned, EdgesPlanned
<1>2. Len(D) \in Nat /\ Len(N) \in Nat /\ Len(E) \in Nat /\ DOMAIN N = 1..Len(N)
  BY <1>1
<1>3. IsGraph(Len(N), E)
  BY <1>1, <1>2, ResolvedIsGraph, Zenon
<1>. QED
  BY <1>1, <1>2, <1>3, Zenon

\* A compatible edge is kept.
LEMMA KeptPlan ==
    ASSUME NEW D \in Seq(DocumentNodes), NEW G \in Seq(Resolved(Len(D))), NEW N, NEW E, NEW j \in Nat,
           IsPlan(D, G, N, E, j), j + 1 \in DOMAIN G, Compatible(D, G[j + 1])
    PROVE  IsPlan(D, G, N, Append(E, G[j + 1]), j + 1)
<1> DEFINE n == Len(D)
           m == Len(N)
           x == G[j + 1]
           F == Append(E, x)
<1>1. /\ n \in Nat /\ m \in Nat /\ n <= m /\ Len(E) \in Nat
      /\ N \in Seq(PlanNodes) /\ E \in Seq(Resolved(m)) /\ IsGraph(m, E)
  BY PlanSizes, Zenon
<1>2. /\ NodesPlanned(D, N) /\ ConvertersFit(D, N, E) /\ EdgesPlanned(N, E) /\ Balanced(n, m, j, Len(E))
      /\ EndsKnown(n, G, E, j) /\ KeepsLinear(G, E)
  BY Zenon DEF IsPlan
<1>3. x \in Resolved(n) /\ x.from \in 1..n /\ x.to \in 1..n
  <2>1. x \in Resolved(n)
    OBVIOUS
  <2>. QED
    BY <2>1, ResolvedFields, Zenon
<1>4. x \in Resolved(m)
  BY <1>1, <1>3, ResolvedMore, Zenon
<1>5. IsAppended(F, E, x) /\ F \in Seq(Resolved(m))
  BY <1>1, <1>4, AppendAt, AppendIn, Zenon
<1>6. Range(E) \subseteq Range(F)
  BY <1>1, <1>4, AppendMore, Zenon
<1>7. Compatible(N, x)
  BY <1>2, <1>3, Zenon DEF NodesPlanned, Compatible, Produced, Required
<1> HIDE DEF x, F
<1>8. EdgesPlanned(N, F)
  BY <1>2, <1>5, <1>7, Zenon DEF EdgesPlanned, IsAppended
<1>9. ConvertersFit(D, N, F)
  <2>1. ASSUME NEW c \in 1..m, Fits(N, E, c) PROVE Fits(N, F, c)
    BY <1>1, <1>6, <2>1, FitsStay, Zenon
  <2>. QED
    BY <1>2, <2>1, Zenon DEF ConvertersFit
<1>10. Balanced(n, m, j + 1, Len(F))
  <2>1. Len(F) = Len(E) + 1
    BY <1>5, Zenon DEF IsAppended
  <2>2. Balanced(n, m, j + 1, Len(E) + 1)
    BY <1>1, <1>2, BalancedKept, Zenon
  <2>. QED
    BY <2>1, <2>2, Zenon
<1>11. EndsKnown(n, G, F, j + 1)
  <2>1. EndsKnown(n, G, E, j + 1)
    BY <1>2, StillKnown, Zenon
  <2>2. j + 1 \in 1..(j + 1)
    OBVIOUS
  <2>3. ToKnown(n, G, j + 1, x.to) /\ FromKnown(n, G, j + 1, x.from)
    BY <2>2, Zenon DEF ToKnown, FromKnown, x
  <2>. QED
    BY <1>5, <2>1, <2>3, Zenon DEF EndsKnown, IsAppended
<1>12. KeepsLinear(G, F)
  <2>1. ASSUME ToOnce(G) PROVE ToOnce(F)
    <3>1. \A a \in DOMAIN E : E[a].to # x.to
      BY <1>1, <1>2, <2>1, NewTo, Zenon DEF EndsKnown, x
    <3>2. ToOnce(E)
      BY <1>2, <2>1, Zenon DEF KeepsLinear
    <3>. QED
      BY <1>1, <1>4, <3>1, <3>2, AppendToOnce, Zenon DEF F
  <2>2. ASSUME FromOnce(G) PROVE FromOnce(F)
    <3>1. \A a \in DOMAIN E : E[a].from # x.from
      BY <1>1, <1>2, <2>2, NewFrom, Zenon DEF EndsKnown, x
    <3>2. FromOnce(E)
      BY <1>2, <2>2, Zenon DEF KeepsLinear
    <3>. QED
      BY <1>1, <1>4, <3>1, <3>2, AppendFromOnce, Zenon DEF F
  <2>. QED
    BY <2>1, <2>2, Zenon DEF KeepsLinear
<1>13. IsPlan(D, G, N, F, j + 1)
  BY <1>2, <1>8, <1>9, <1>10, <1>11, <1>12, Zenon DEF IsPlan
<1>. QED
  BY <1>13, Zenon DEF F, x

\* The edges that replace one that is converted.
Before(e, c) == [from |-> e.from, to |-> c, from_port |-> e.from_port, to_port |-> "in"]
Behind(e, c) == [from |-> c, to |-> e.to, from_port |-> "out", to_port |-> e.to_port]

LEMMA AddedResolved ==
    ASSUME NEW n \in Nat, NEW m \in Nat, n <= m, NEW e \in Resolved(n)
    PROVE  Before(e, m + 1) \in Resolved(m + 1) /\ Behind(e, m + 1) \in Resolved(m + 1)
<1>1. e.from \in 1..n /\ e.to \in 1..n /\ e.from_port \in STRING \cup {"out"} /\ e.to_port \in STRING \cup {"in"}
  BY Zenon DEF Resolved
<1>2. e.from \in 1..(m + 1) /\ e.to \in 1..(m + 1) /\ m + 1 \in 1..(m + 1)
  BY <1>1
<1>3. "in" \in STRING \cup {"in"} /\ "out" \in STRING \cup {"out"}
  BY Zenon
<1>. QED
  BY <1>1, <1>2, <1>3, Zenon DEF Before, Behind, Resolved

LEMMA ConverterIsNode ==
    ASSUME NEW D, NEW e, NEW g \in FormatsFromCaps(Required(D, e))
    PROVE  Converter(D, e).type = PrecisionConvert /\ Converter(D, e).target = g /\ Converter(D, e) \in PlanNodes
<1>1. FormatsFromCaps(Required(D, e)) = {g}
  BY FormatOfCaps, Zenon
<1>2. (CHOOSE f \in FormatsFromCaps(Required(D, e)) : TRUE) = g
  BY <1>1, Zenon
<1>3. Converter(D, e) = [type |-> PrecisionConvert, target |-> g]
  BY <1>2, Zenon DEF Converter
<1>4. g \in {f.format : f \in Formats} \cup {""}
  BY Zenon DEF FormatsFromCaps
<1>5. PrecisionConvert \in STRING \cup {PrecisionConvert}
  BY Zenon
<1>6. [type |-> PrecisionConvert, target |-> g] \in PlanNodes
  BY <1>4, <1>5, Zenon DEF PlanNodes
<1>7. Converter(D, e).type = PrecisionConvert /\ Converter(D, e).target = g
  BY <1>3
<1>. QED
  BY <1>3, <1>6, <1>7, Zenon

\* An edge that can be converted is replaced by a converter at the end of the nodes and two edges.
LEMMA InsertedPlan ==
    ASSUME NEW D \in Seq(DocumentNodes), NEW G \in Seq(Resolved(Len(D))), NEW N, NEW E, NEW j \in Nat,
           IsPlan(D, G, N, E, j), j + 1 \in DOMAIN G, Convertible(D, G[j + 1]), PrecisionConvert \in DOMAIN Manifest
    PROVE  IsPlan(D, G, Append(N, Converter(D, G[j + 1])), E \o ConverterEdges(G[j + 1], Len(N) + 1), j + 1)
<1> DEFINE n == Len(D)
           m == Len(N)
           e == G[j + 1]
           c == Converter(D, e)
           x == Before(e, m + 1)
           y == Behind(e, m + 1)
           M == Append(N, c)
           X == Append(E, x)
           F == Append(X, y)
<1>1. /\ n \in Nat /\ m \in Nat /\ n <= m /\ Len(E) \in Nat
      /\ N \in Seq(PlanNodes) /\ E \in Seq(Resolved(m)) /\ IsGraph(m, E) /\ DOMAIN N = 1..m
  BY PlanSizes, Zenon
<1>2. /\ NodesPlanned(D, N) /\ ConvertersFit(D, N, E) /\ EdgesPlanned(N, E) /\ Balanced(n, m, j, Len(E))
      /\ EndsKnown(n, G, E, j) /\ KeepsLinear(G, E)
  BY Zenon DEF IsPlan
<1>3. e \in Resolved(n) /\ e.from \in 1..n /\ e.to \in 1..n
  <2>1. e \in Resolved(n)
    OBVIOUS
  <2>. QED
    BY <2>1, ResolvedFields, Zenon
<1>4. PICK f \in FormatsFromCaps(Produced(D, e)), g \in FormatsFromCaps(Required(D, e)) : <<f, g>> \in DirectConversions
  BY Zenon DEF Convertible
<1>5. c.type = PrecisionConvert /\ c.target = g /\ c \in PlanNodes
  BY ConverterIsNode, Zenon
<1>6. x \in Resolved(m + 1) /\ y \in Resolved(m + 1)
  BY <1>1, <1>3, AddedResolved, Zenon
<1>7. /\ x.from = e.from /\ x.to = m + 1 /\ x.from_port = e.from_port /\ x.to_port = "in"
      /\ y.from = m + 1 /\ y.to = e.to /\ y.from_port = "out" /\ y.to_port = e.to_port
  BY Zenon DEF Before, Behind
<1>8. E \in Seq(Resolved(m + 1))
  <2>1. \A a \in DOMAIN E : E[a] \in Resolved(m + 1)
    <3>1. \A a \in DOMAIN E : E[a] \in Resolved(m)
      BY <1>1
    <3>2. m + 1 \in Nat /\ m <= m + 1
      BY <1>1
    <3>. QED
      BY <1>1, <3>1, <3>2, ResolvedMore, Zenon
  <2>. QED
    BY <1>1, <2>1
<1>9. E \o ConverterEdges(e, m + 1) = F
  <2>1. ConverterEdges(e, m + 1) = <<x, y>>
    BY Zenon DEF ConverterEdges, Before, Behind
  <2> HIDE DEF x, y
  <2>2. JoinsTwo(E, x, y)
    BY <1>6, <1>8, AppendTwo, Zenon
  <2>. QED
    BY <2>1, <2>2, Zenon DEF JoinsTwo
<1> HIDE DEF e, c, x, y
<1>10. /\ IsAppended(M, N, c) /\ M \in Seq(PlanNodes)
       /\ IsAppended(X, E, x) /\ X \in Seq(Resolved(m + 1))
       /\ IsAppended(F, X, y) /\ F \in Seq(Resolved(m + 1))
  BY <1>1, <1>5, <1>6, <1>8, AppendAt, AppendIn, Zenon
<1>11. Range(E) \subseteq Range(F) /\ x \in Range(F) /\ y \in Range(F)
  <2>1. Range(E) \subseteq Range(X) /\ x \in Range(X)
    BY <1>6, <1>8, AppendMore, Zenon
  <2>2. Range(X) \subseteq Range(F) /\ y \in Range(F)
    BY <1>6, <1>10, AppendMore, Zenon
  <2>. QED
    BY <2>1, <2>2, Zenon
<1> HIDE DEF M, X, F
<1>12. (\A i \in 1..m : M[i] = N[i]) /\ M[m + 1] = c /\ Len(M) = m + 1
  BY <1>1, <1>10, Zenon DEF IsAppended
<1>13. \A i \in 1..n : i \in 1..m
  BY <1>1
<1>14. NodesPlanned(D, M)
  <2>1. n <= Len(M)
    BY <1>1, <1>12
  <2>. QED
    BY <1>2, <1>10, <1>12, <1>13, <2>1, Zenon DEF NodesPlanned
<1>15. Produced(M, x) = Produced(D, e) /\ Required(M, y) = Required(D, e)
  <2>1. M[e.from].type = D[e.from].type /\ M[e.to].type = D[e.to].type
    BY <1>2, <1>3, <1>12, <1>13, Zenon DEF NodesPlanned
  <2>. QED
    BY <1>7, <2>1, Zenon DEF Produced, Required
<1>16. Required(M, x) = Port(PrecisionConvert, "in", "in") /\ Produced(M, y) = Port(PrecisionConvert, "out", "out")
  BY <1>5, <1>7, <1>12, Zenon DEF Produced, Required
<1>17. Compatible(M, x) /\ Compatible(M, y)
  BY <1>4, <1>15, <1>16, ConverterCompatible, Zenon DEF Compatible
<1>18. EdgesPlanned(M, F)
  <2>1. ASSUME NEW a \in DOMAIN E PROVE Compatible(M, E[a])
    <3> DEFINE z == E[a]
    <3>1. z.from \in 1..m /\ z.to \in 1..m /\ Compatible(N, z)
      BY <1>1, <1>2, Zenon DEF IsGraph, EdgesPlanned
    <3> HIDE DEF z
    <3>2. Compatible(M, z)
      BY <1>12, <3>1, CompatibleStays, Zenon
    <3>. QED
      BY <3>2, Zenon DEF z
  <2>2. \A a \in DOMAIN X : Compatible(M, X[a])
    BY <1>10, <1>17, <2>1, Zenon DEF IsAppended
  <2>3. \A a \in DOMAIN F : Compatible(M, F[a])
    BY <1>10, <1>17, <2>2, Zenon DEF IsAppended
  <2>. QED
    BY <1>10, <1>12, <2>3, Zenon DEF EdgesPlanned
<1>19. ConvertersFit(D, M, F)
  <2>1. ASSUME NEW v \in 1..m, v > n PROVE Fits(M, F, v)
    <3>1. Fits(N, E, v)
      BY <1>2, <2>1, Zenon DEF ConvertersFit
    <3>. QED
      BY <1>1, <1>11, <1>12, <3>1, FitsStay, Zenon
  <2>2. Fits(M, F, m + 1)
    <3>1. FormatsFromCaps(Required(M, y)) = {g}
      BY <1>15, FormatOfCaps, Zenon
    <3>2. M[m + 1].target = g
      BY <1>5, <1>12, Zenon
    <3>. QED
      BY <1>4, <1>7, <1>11, <1>15, <3>1, <3>2, Zenon DEF Fits
  <2>3. \A v \in 1..(m + 1) : v \in 1..m \/ v = m + 1
    BY <1>1
  <2>. QED
    BY <1>12, <2>1, <2>2, <2>3, Zenon DEF ConvertersFit
<1>20. Balanced(n, Len(M), j + 1, Len(F))
  <2>1. Len(F) = (Len(E) + 1) + 1 /\ Len(M) = m + 1
    BY <1>10, <1>12, Zenon DEF IsAppended
  <2>2. Balanced(n, m + 1, j + 1, (Len(E) + 1) + 1)
    BY <1>1, <1>2, BalancedInserted, Zenon
  <2>. QED
    BY <2>1, <2>2, Zenon
<1>21. m + 1 > n
  BY <1>1
<1>22. EndsKnown(n, G, F, j + 1)
  <2>1. EndsKnown(n, G, E, j + 1)
    BY <1>2, StillKnown, Zenon
  <2>2. j + 1 \in 1..(j + 1)
    OBVIOUS
  <2>3. ToKnown(n, G, j + 1, e.to) /\ FromKnown(n, G, j + 1, e.from)
    BY <2>2, Zenon DEF ToKnown, FromKnown, e
  <2>4. ToKnown(n, G, j + 1, m + 1) /\ FromKnown(n, G, j + 1, m + 1)
    BY <1>21, Zenon DEF ToKnown, FromKnown
  <2>5. EndsKnown(n, G, X, j + 1)
    BY <1>7, <1>10, <2>1, <2>3, <2>4, Zenon DEF EndsKnown, IsAppended
  <2>. QED
    BY <1>7, <1>10, <2>3, <2>4, <2>5, Zenon DEF EndsKnown, IsAppended
<1>23. (\A v \in 1..m : v # m + 1) /\ \A v \in 1..n : v # m + 1
  BY <1>1
<1>24. KeepsLinear(G, F)
  <2>1. ASSUME ToOnce(G) PROVE ToOnce(F)
    <3>1. \A a \in DOMAIN E : E[a].to # e.to
      BY <1>1, <1>2, <2>1, NewTo, Zenon DEF EndsKnown, e
    <3>2. ToOnce(E)
      BY <1>2, <2>1, Zenon DEF KeepsLinear
    <3>3. \A a \in DOMAIN E : E[a].to # x.to
      BY <1>1, <1>7, <1>23, Zenon DEF IsGraph
    <3>4. ToOnce(X)
      BY <1>6, <1>8, <3>2, <3>3, AppendToOnce, Zenon DEF X
    <3>5. \A a \in DOMAIN X : X[a].to # y.to
      BY <1>3, <1>7, <1>10, <1>23, <3>1, Zenon DEF IsAppended
    <3>. QED
      BY <1>6, <1>10, <3>4, <3>5, AppendToOnce, Zenon DEF F
  <2>2. ASSUME FromOnce(G) PROVE FromOnce(F)
    <3>1. \A a \in DOMAIN E : E[a].from # e.from
      BY <1>1, <1>2, <2>2, NewFrom, Zenon DEF EndsKnown, e
    <3>2. FromOnce(E)
      BY <1>2, <2>2, Zenon DEF KeepsLinear
    <3>3. \A a \in DOMAIN E : E[a].from # x.from
      BY <1>7, <3>1, Zenon
    <3>4. FromOnce(X)
      BY <1>6, <1>8, <3>2, <3>3, AppendFromOnce, Zenon DEF X
    <3>5. \A a \in DOMAIN E : E[a].from # m + 1
      BY <1>1, <1>23, Zenon DEF IsGraph
    <3>6. \A a \in DOMAIN X : X[a].from # y.from
      BY <1>3, <1>7, <1>10, <1>23, <3>5, Zenon DEF IsAppended
    <3>. QED
      BY <1>6, <1>10, <3>4, <3>6, AppendFromOnce, Zenon DEF F
  <2>. QED
    BY <2>1, <2>2, Zenon DEF KeepsLinear
<1>25. IsPlan(D, G, M, F, j + 1)
  BY <1>14, <1>18, <1>19, <1>20, <1>22, <1>24, Zenon DEF IsPlan
<1>. QED
  BY <1>9, <1>25, Zenon DEF M, c, e

\* The nodes of the document, before the first edge.
Plain(t) ==
    LET x == [type |-> t, target |-> ""]
    IN  x.type = t /\ x.target = "" /\ x \in PlanNodes
LEMMA PlainNode == ASSUME NEW t \in STRING PROVE Plain(t)
<1> DEFINE x == [type |-> t, target |-> ""]
<1>1. t \in STRING \cup {PrecisionConvert} /\ "" \in {f.format : f \in Formats} \cup {""}
  BY Zenon
<1>2. x \in PlanNodes
  BY <1>1, Zenon DEF PlanNodes
<1>3. x.type = t /\ x.target = ""
  BY Zenon
<1>. QED
  BY <1>2, <1>3, Zenon DEF Plain

LEMMA FirstPlan ==
    ASSUME NEW D \in Seq(DocumentNodes), NEW G
    PROVE  IsPlan(D, G, [i \in DOMAIN D |-> [type |-> D[i].type, target |-> ""]], <<>>, 0)
<1> DEFINE n == Len(D)
           N == [i \in DOMAIN D |-> [type |-> D[i].type, target |-> ""]]
<1>1. n \in Nat /\ DOMAIN D = 1..n /\ \A i \in 1..n : D[i].type \in STRING
  <2>1. n \in Nat /\ DOMAIN D = 1..n /\ \A i \in 1..n : D[i] \in DocumentNodes
    OBVIOUS
  <2>2. \A d \in DocumentNodes : d.type \in STRING
    BY Zenon DEF DocumentNodes
  <2>. QED
    BY <2>1, <2>2, Zenon
<1>2. ASSUME NEW i \in 1..n PROVE N[i].type = D[i].type /\ N[i].target = "" /\ N[i] \in PlanNodes
  <2>1. N[i] = [type |-> D[i].type, target |-> ""]
    BY <1>1, Zenon
  <2>2. Plain(D[i].type) /\ D[i].type \in STRING
    BY <1>1, PlainNode, Zenon
  <2> HIDE DEF N
  <2>. QED
    BY <2>1, <2>2, Zenon DEF Plain
<1>3. N \in [1..n -> PlanNodes] /\ DOMAIN N = 1..n
  BY <1>1, <1>2, Zenon
<1> HIDE DEF N
<1>4. N \in Seq(PlanNodes) /\ Len(N) = n
  BY <1>1, <1>3
<1>5. NodesPlanned(D, N)
  <2>1. n <= Len(N)
    BY <1>1, <1>4
  <2>. QED
    BY <1>2, <1>4, <2>1, Zenon DEF NodesPlanned
<1>6. ConvertersFit(D, N, <<>>)
  <2>1. \A c \in 1..n : ~(c > n)
    BY <1>1
  <2>. QED
    BY <1>4, <2>1, Zenon DEF ConvertersFit
<1>7. DOMAIN <<>> = {} /\ <<>> \in Seq(Resolved(Len(N))) /\ Len(<<>>) = 0
  OBVIOUS
<1>8. EdgesPlanned(N, <<>>) /\ EndsKnown(n, G, <<>>, 0) /\ KeepsLinear(G, <<>>)
  BY <1>7, Zenon DEF EdgesPlanned, EndsKnown, KeepsLinear, ToOnce, FromOnce
<1>9. Balanced(n, n, 0, 0)
  BY <1>1 DEF Balanced
<1>. QED
  BY <1>4, <1>5, <1>6, <1>7, <1>8, <1>9, Zenon DEF IsPlan, N

LEMMA PlanningInv == LoadType /\ PlanInv /\ (CheckEdge \/ KeepEdge \/ InsertConverter \/ Replan) => PlanInv'
<1> SUFFICES ASSUME LoadType, PlanInv, CheckEdge \/ KeepEdge \/ InsertConverter \/ Replan PROVE PlanInv'
  BY Zenon
<1> DEFINE D == doc.nodes
           n == Len(doc.nodes)
           j == k - 1
<1>1. phase \in {"checks", "precision"} /\ doc' = doc /\ edges' = edges /\ loads' = loads
  BY Zenon DEF CheckEdge, KeepEdge, InsertConverter, Replan
<1>2. doc \in Documents /\ edges \in Seq(Resolved(n)) /\ k \in Nat \ {0}
  BY <1>1, Zenon DEF LoadType
<1>3. D \in Seq(DocumentNodes)
  BY <1>2, DocumentsAssumption, Zenon
<1>4. Len(edges) \in Nat /\ DOMAIN edges = 1..Len(edges) /\ j \in Nat /\ j + 1 = k
  BY <1>2
<1>5. CASE CheckEdge
  <2>1. CASE k > Len(edges)
    <3>1. /\ phase' = "precision" /\ k' = 1
          /\ plan' = [nodes |-> [i \in DOMAIN D |-> [type |-> D[i].type, target |-> ""]], edges |-> <<>>]
      BY <1>5, <2>1, Zenon DEF CheckEdge, Goto
    <3>2. plan'.nodes = [i \in DOMAIN D |-> [type |-> D[i].type, target |-> ""]] /\ plan'.edges = <<>>
      BY <3>1, Zenon
    <3>3. IsPlan(D, edges, plan'.nodes, plan'.edges, 0)
      BY <1>3, <3>2, FirstPlan, Zenon
    <3>4. k' - 1 = 0 /\ k' <= Len(edges) + 1
      <4>1. k' = 1 /\ Len(edges) \in Nat
        BY <1>4, <3>1, Zenon
      <4>. QED
        BY <4>1
    <3>5. ~Settled'
      BY <3>1, Zenon DEF Settled
    <3>. QED
      BY <1>1, <3>3, <3>4, <3>5, Zenon DEF PlanInv
  <2>2. CASE ~(k > Len(edges))
    <3>1. phase' = "checks"
      BY <1>5, <2>2, Zenon DEF CheckEdge
    <3>. QED
      BY <3>1, Zenon DEF PlanInv, Settled
  <2>. QED
    BY <2>1, <2>2, Zenon
<1>6. ASSUME phase = "precision" PROVE k <= Len(edges) + 1 /\ IsPlan(D, edges, plan.nodes, plan.edges, j)
  BY <1>6, Zenon DEF PlanInv
<1>7. ASSUME phase' = "precision", k' = k + 1, k <= Len(edges), IsPlan(D, edges, plan'.nodes, plan'.edges, j + 1) PROVE PlanInv'
  <2>1. k' - 1 = j + 1 /\ k' <= Len(edges) + 1
    BY <1>4, <1>7
  <2>2. ~Settled'
    BY <1>7, Zenon DEF Settled
  <2>. QED
    BY <1>1, <1>7, <2>1, <2>2, Zenon DEF PlanInv
<1>8. CASE KeepEdge
  <2>1. /\ phase = "precision" /\ phase' = "precision" /\ k <= Len(edges) /\ Compatible(D, edges[k]) /\ k' = k + 1
        /\ plan' = [nodes |-> plan.nodes, edges |-> Append(plan.edges, edges[k])]
    BY <1>8, Zenon DEF KeepEdge
  <2>2. plan'.nodes = plan.nodes /\ plan'.edges = Append(plan.edges, edges[k]) /\ k \in DOMAIN edges
    BY <1>2, <1>4, <2>1
  <2>3. IsPlan(D, edges, plan.nodes, Append(plan.edges, edges[j + 1]), j + 1)
    BY <1>2, <1>3, <1>4, <1>6, <2>1, <2>2, KeptPlan, Zenon
  <2>. QED
    BY <1>4, <1>7, <2>1, <2>2, <2>3, Zenon
<1>9. CASE InsertConverter
  <2>1. /\ phase = "precision" /\ phase' = "precision" /\ k <= Len(edges) /\ k' = k + 1
        /\ Convertible(D, edges[k]) /\ PrecisionConvert \in DOMAIN Manifest
        /\ plan' = [nodes |-> Append(plan.nodes, Converter(D, edges[k])),
                    edges |-> plan.edges \o ConverterEdges(edges[k], Len(plan.nodes) + 1)]
    BY <1>9, Zenon DEF InsertConverter, MayInsert
  <2>2. k \in DOMAIN edges
    BY <1>2, <1>4, <2>1
  <2>3. /\ plan'.nodes = Append(plan.nodes, Converter(D, edges[k]))
        /\ plan'.edges = plan.edges \o ConverterEdges(edges[k], Len(plan.nodes) + 1)
    BY <2>1, Zenon
  <2>4. IsPlan(D, edges, Append(plan.nodes, Converter(D, edges[j + 1])), plan.edges \o ConverterEdges(edges[j + 1], Len(plan.nodes) + 1), j + 1)
    BY <1>2, <1>3, <1>4, <1>6, <2>1, <2>2, InsertedPlan, Zenon
  <2>. QED
    BY <1>4, <1>7, <2>1, <2>3, <2>4, Zenon
<1>10. CASE Replan
  <2> DEFINE m == Len(plan.nodes)
  <2>1. phase = "precision" /\ k > Len(edges) /\ plan' = plan
    BY <1>10, Zenon DEF Replan
  <2>2. k <= Len(edges) + 1 /\ IsPlan(D, edges, plan.nodes, plan.edges, j)
    BY <1>6, <2>1, Zenon
  <2>3. j = Len(edges)
    BY <1>2, <1>4, <2>1, <2>2
  <2>4. CASE Len(Replanned) = m
    <3>1. phase' = "commit" /\ order' = Replanned
      BY <1>10, <2>4, Zenon DEF Replan, Goto
    <3>2. IsGraph(m, plan.edges)
      BY <1>2, <1>3, <1>4, <2>2, PlanSizes, Zenon
    <3>3. IsOrder(m, plan.edges, Replanned)
      BY <2>4, <3>2, SortFacts, Zenon DEF Replanned, IsOrder
    <3>4. phase' # "precision"
      BY <3>1, Zenon
    <3>. QED
      BY <1>1, <2>1, <2>2, <2>3, <3>1, <3>3, <3>4, Zenon DEF PlanInv
  <2>5. CASE Len(Replanned) # m
    <3>1. phase' = "idle" /\ status' = Failed
      BY <1>10, <2>5, Zenon DEF Replan, Goto
    <3>. QED
      BY <3>1, Zenon DEF PlanInv, Settled, Failed, OK
  <2>. QED
    BY <2>4, <2>5, Zenon
<1>. QED
  BY <1>5, <1>8, <1>9, <1>10, Zenon

\* What the invariant says of a pipeline that was accepted.
LEMMA PlanIsAccepted == LoadType /\ PlanInv => AcceptedPlan
<1> SUFFICES ASSUME LoadType, PlanInv, Accepted
             PROVE  /\ InOrder /\ (IsPath => IsChain)
                    /\ \A e \in Range(plan.edges) : Compatible(plan.nodes, e)
                    /\ \A c \in DOMAIN plan.nodes : plan.nodes[c].target # "" => ConverterFits(c)
  BY Zenon DEF AcceptedPlan
<1> DEFINE n == Len(doc.nodes)
           m == Len(plan.nodes)
<1>1. Settled /\ loads > 0
  BY Zenon DEF Accepted, Returned, Settled
<1>2. /\ NodesPlanned(doc.nodes, plan.nodes) /\ ConvertersFit(doc.nodes, plan.nodes, plan.edges)
      /\ EdgesPlanned(plan.nodes, plan.edges) /\ KeepsLinear(edges, plan.edges)
      /\ Len(plan.edges) + n = m + Len(edges)
      /\ order \in Seq(1..m) /\ Len(order) = m /\ IsInjective(order) /\ ProducersFirst(plan.edges, order)
  BY <1>1, Zenon DEF PlanInv, IsPlan, IsOrder, Balanced
<1>3. doc \in Documents /\ edges \in Seq(Resolved(n))
  BY <1>1, Zenon DEF LoadType
<1>4. n \in Nat /\ DOMAIN doc.nodes = 1..n /\ Len(edges) \in Nat
  BY <1>3, DocumentsAssumption
<1>5. m \in Nat /\ DOMAIN plan.nodes = 1..m /\ DOMAIN order = 1..m
  <2>1. plan.nodes \in Seq(PlanNodes)
    BY <1>2, Zenon DEF NodesPlanned
  <2>. QED
    BY <1>2, <2>1
<1>6. IsGraph(m, plan.edges)
  BY <1>2, <1>5, ResolvedIsGraph, Zenon DEF EdgesPlanned
<1>7. Range(order) = 1..m
  BY <1>2, <1>5, CompleteOrder, Zenon
<1>8. \A i \in 1..m : Place(order[i]) = i
  BY <1>2, <1>5, Zenon DEF Place, IsInjective
<1>9. ASSUME NEW e \in Range(plan.edges) PROVE Place(e.from) < Place(e.to)
  <2>1. PICK a \in DOMAIN plan.edges : e = plan.edges[a]
    BY Zenon DEF Range
  <2>2. PICK j \in 1..m : order[j] = e.to
    BY <1>5, <1>6, <1>7, <2>1, Zenon DEF IsGraph, Range
  <2>3. PICK i \in 1..(j - 1) : order[i] = e.from
    BY <1>2, <1>5, <2>1, <2>2, Zenon DEF ProducersFirst
  <2>4. i \in 1..m /\ i < j
    BY <1>5, <2>2, <2>3
  <2>. QED
    BY <1>8, <2>2, <2>3, <2>4, Zenon
<1>10. InOrder
  BY <1>2, <1>5, <1>7, <1>9, Zenon DEF InOrder
<1>11. ASSUME IsPath PROVE IsChain
  <2>1. ToOnce(edges) /\ FromOnce(edges)
    BY <1>3, <1>4, <1>11, PathOnce, ResolvedIsGraph, Zenon
  <2>2. ToOnce(plan.edges) /\ FromOnce(plan.edges) /\ Len(plan.edges) + n = m + Len(edges)
    BY <1>2, <2>1, Zenon DEF KeepsLinear
  <2>3. Len(plan.edges) = m - 1
    <3>1. Len(edges) = n - 1 /\ Len(plan.edges) \in Nat
      BY <1>6, <1>11, Zenon DEF IsPath, IsGraph
    <3>2. \A a, b, c, d \in Nat : c = b - 1 /\ d + b = a + c => d = a - 1
      OBVIOUS
    <3>. QED
      BY <1>4, <1>5, <2>2, <3>1, <3>2, ZenonT(30)
  <2>4. Chained(m, plan.edges, order)
    BY <1>2, <1>6, <2>2, <2>3, PathIsChain, Zenon
  <2>. QED
    BY <1>2, <2>4, Zenon DEF Chained, IsChain, Range
<1>12. ASSUME NEW c \in DOMAIN plan.nodes, plan.nodes[c].target # "" PROVE ConverterFits(c)
  <2>1. ~(c \in 1..n)
    BY <1>2, <1>12, Zenon DEF NodesPlanned
  <2>2. c > n
    BY <1>4, <1>5, <2>1
  <2>. QED
    BY <1>2, <1>5, <2>2, Zenon DEF ConvertersFit, Fits, ConverterFits
<1>13. \A e \in Range(plan.edges) : Compatible(plan.nodes, e)
  BY <1>2, Zenon DEF EdgesPlanned, Range
<1>. QED
  BY <1>10, <1>11, <1>12, <1>13, Zenon

\* Every pipeline that load() accepts, whatever the document, holds each node of its plan once and
\* behind its producers, as a chain if the document is linear; all its edges join compatible ports
\* and every converter fits.
THEOREM PlanAccepted == Spec => []AcceptedPlan
<1>1. Init => PlanInv
  BY DEF Init, PlanInv, Settled
<1>2. LoadType /\ PlanInv /\ [Next]_vars => PlanInv'
  <2> SUFFICES ASSUME LoadType, PlanInv, [Next]_vars PROVE PlanInv'
    BY Zenon
  <2>1. ASSUME phase' \notin {"precision", "commit", "idle"} PROVE PlanInv'
    BY <2>1, Zenon DEF PlanInv, Settled
  <2>2. ASSUME NEW s, Reject(s), s # OK PROVE PlanInv'
    BY <2>2, Zenon DEF PlanInv, Settled, Reject, Goto
  <2>3. ASSUME UNCHANGED <<doc, phase, status, loads, k, edges, order, plan>> PROVE PlanInv'
    BY <2>3, Zenon DEF PlanInv, Settled
  <2>4. OK \notin {Failed, BadIndex, NeedMetadata, BadPrecision, OutOfMemory}
    BY Zenon DEF OK, Failed, BadIndex, NeedMetadata, BadPrecision, OutOfMemory
  <2>5. ASSUME NEW d \in Documents, Load(d) PROVE PlanInv'
    BY <2>1, <2>5, Zenon DEF Load
  <2>6. CASE ReadDocument \/ ReadNode \/ ReadEdge \/ SortNodesOfGraph \/ AccumulateSteps
    BY <2>1, <2>6, Zenon DEF ReadDocument, ReadNode, ReadEdge, SortNodesOfGraph, AccumulateSteps, Goto
  <2>7. CASE RejectDocument \/ RejectNode \/ RejectEdge \/ RejectCycle \/ RejectCheckedEdge \/ RejectPrecision \/ RejectMemory
    BY <2>2, <2>4, <2>7, Zenon DEF RejectDocument, RejectNode, RejectEdge, RejectCycle, RejectCheckedEdge, RejectPrecision, RejectMemory
  <2>8. CASE CheckEdge \/ KeepEdge \/ InsertConverter \/ Replan
    BY <2>8, PlanningInv, Zenon
  <2>9. CASE Commit
    BY <2>9, Zenon DEF PlanInv, Settled, Commit, Goto
  <2>10. ASSUME NEW port \in Ports, SetSource(port) PROVE PlanInv'
    BY <2>3, <2>10, Zenon DEF SetSource
  <2>11. CASE UNCHANGED vars
    BY <2>3, <2>11, Zenon DEF vars
  <2>. QED
    BY <2>5, <2>6, <2>7, <2>8, <2>9, <2>10, <2>11, Zenon DEF Next, ReadStep, GraphStep, PlanStep, Terminated
<1>. QED
  BY <1>1, <1>2, LoadTyped, PlanIsAccepted, PTL DEF Spec
=============================================================================
