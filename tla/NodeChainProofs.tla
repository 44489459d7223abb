-------------------------- MODULE NodeChainProofs --------------------------
(***************************************************************************)
(* Proofs about the two parts of a chain of nodes: a run of a pipeline, for*)
(* chains of any length and plugins that answer anything, and the metadata *)
(* store, for any number of buffers, keys and values and any edits.        *)
(***************************************************************************)
EXTENDS PipelineRun, MetadataStore, FiniteSetTheorems, WellFoundedInduction, TLAPS

CallRecord == [node : Nat, action : {"create", "process", "destroy"}, status : Status]
Ok(k) == calls[k].status = OK

RunType ==
    /\ r \in Runs /\ i \in Nat /\ current \in Nat
    /\ calls \in Seq(CallRecord)
    /\ pc \in {"entry", "create", "buffers", "process", "destroy", "next", "returned"}
    /\ ret # None => pc = "returned"

\* Before PROCESS every call has succeeded; before DESTROY all but the latest have; and a run that
\* returned has at most the DESTROY of the node that failed after its first failure.
CallsInv ==
    /\ pc \in {"entry", "create", "buffers", "process", "next"} => \A k \in 1..Len(calls) : Ok(k)
    /\ pc = "destroy" => /\ Len(calls) > 0 /\ calls[Len(calls)].node = i
                         /\ \A k \in 1..Len(calls) : k < Len(calls) => Ok(k)
    /\ pc = "returned" =>
          \/ \A k \in 1..Len(calls) : Ok(k)
          \/ \E j \in 1..Len(calls) :
                /\ ~Ok(j) /\ ret = calls[j].status
                /\ \A k \in 1..Len(calls) : k < j => Ok(k)
                /\ Len(calls) = j \/ (Len(calls) = j + 1 /\ calls[j + 1].node = calls[j].node /\ calls[j + 1].action = "destroy")

CallOrder == RunType /\ CallsInv

\* What the log is after another call (the main_entry calls of run_bound and run_file).
LEMMA Logged ==
    ASSUME RunType, NEW action \in {"create", "process", "destroy"}, NEW s \in Status, Log(action, s)
    PROVE  /\ calls' \in Seq(CallRecord) /\ Len(calls') = Len(calls) + 1 /\ Len(calls) \in Nat
           /\ \A k \in 1..Len(calls) : calls'[k] = calls[k]
           /\ calls'[Len(calls')].node = i /\ calls'[Len(calls')].action = action /\ calls'[Len(calls')].status = s
<1>1. [node |-> i, action |-> action, status |-> s] \in CallRecord
  BY Zenon DEF RunType, CallRecord
<1>. QED
  BY <1>1 DEF RunType, Log

\* CREATE keeps the order of the calls.
LEMMA CreateOrder == ASSUME CallOrder, NEW s \in Status, Create(s) PROVE CallOrder'
<1>1. RunType /\ Log("create", s) /\ pc = "create" /\ UNCHANGED <<r, i, current>>
  BY Zenon DEF CallOrder, Create
<1>2. /\ calls' \in Seq(CallRecord) /\ Len(calls') = Len(calls) + 1 /\ Len(calls) \in Nat
      /\ \A k \in 1..Len(calls) : calls'[k] = calls[k]
      /\ calls'[Len(calls')].status = s
  BY <1>1, Logged, Zenon
<1>3. \A k \in 1..Len(calls') : k < Len(calls') => calls'[k].status = OK
  BY <1>1, <1>2 DEF CallOrder, CallsInv, Ok
<1>4. CASE s = OK
  <2>1. pc' = "buffers" /\ ret' = ret
    BY <1>4, Zenon DEF Create
  <2>2. \A k \in 1..Len(calls') : calls'[k].status = OK
    BY <1>2, <1>3, <1>4
  <2>. QED
    BY <1>1, <1>2, <2>1, <2>2, Zenon DEF CallOrder, RunType, CallsInv, Ok
<1>5. CASE s # OK
  <2>1. pc' = "returned" /\ ret' = s
    BY <1>5, Zenon DEF Create, Return
  <2>. QED
    BY <1>1, <1>2, <1>3, <1>5, <2>1 DEF CallOrder, RunType, CallsInv, Ok
<1>. QED
  BY <1>4, <1>5, Zenon

\* PROCESS keeps the order of the calls.
LEMMA ProcessOrder == ASSUME CallOrder, NEW s \in Status, Process(s) PROVE CallOrder'
<1>1. RunType /\ Log("process", s) /\ pc = "process" /\ pc' = "destroy" /\ UNCHANGED <<r, i, current, ret>>
  BY Zenon DEF CallOrder, Process
<1>2. /\ calls' \in Seq(CallRecord) /\ Len(calls') = Len(calls) + 1 /\ Len(calls) \in Nat
      /\ \A k \in 1..Len(calls) : calls'[k] = calls[k]
      /\ calls'[Len(calls')].node = i
  BY <1>1, Logged, Zenon
<1>3. \A k \in 1..Len(calls') : k < Len(calls') => calls'[k].status = OK
  BY <1>1, <1>2 DEF CallOrder, CallsInv, Ok
<1>4. RunType'
  BY <1>1, <1>2, Zenon DEF RunType
<1>. QED
  BY <1>1, <1>2, <1>3, <1>4 DEF CallOrder, CallsInv, Ok

\* DESTROY keeps the order of the calls: the status of PROCESS goes before its own.
LEMMA DestroyOrder == ASSUME CallOrder, NEW s \in Status, Destroy(s) PROVE CallOrder'
<1>1. RunType /\ Log("destroy", s) /\ pc = "destroy" /\ UNCHANGED r
  BY Zenon DEF CallOrder, Destroy
<1>2. /\ calls' \in Seq(CallRecord) /\ Len(calls') = Len(calls) + 1 /\ Len(calls) \in Nat /\ Len(calls) > 0
      /\ \A k \in 1..Len(calls) : calls'[k] = calls[k]
      /\ calls'[Len(calls')].node = i /\ calls'[Len(calls')].action = "destroy" /\ calls'[Len(calls')].status = s
  BY <1>1, Logged, Zenon DEF CallOrder, CallsInv
<1>3. /\ calls[Len(calls)].node = i /\ calls'[Len(calls)] = calls[Len(calls)]
      /\ \A k \in 1..Len(calls') : k < Len(calls) => calls'[k].status = OK
  BY <1>1, <1>2 DEF CallOrder, CallsInv, Ok
<1>4. i' \in Nat /\ current' \in Nat
  BY <1>1 DEF Destroy, RunType, Advanced
<1>5. CASE ProcessStatus # OK
  <2>1. pc' = "returned" /\ ret' = calls[Len(calls)].status
    BY <1>5, Zenon DEF Destroy, Return, ProcessStatus
  <2>2. RunType'
    BY <1>1, <1>2, <1>4, <2>1, Zenon DEF RunType
  <2>3. CallsInv'
    BY <1>2, <1>3, <1>5, <2>1 DEF CallsInv, Ok, ProcessStatus
  <2>. QED
    BY <2>2, <2>3, Zenon DEF CallOrder
<1>6. CASE ProcessStatus = OK /\ s # OK
  <2>1. pc' = "returned" /\ ret' = s
    BY <1>6, Zenon DEF Destroy, Return
  <2>2. RunType'
    BY <1>1, <1>2, <1>4, <2>1, Zenon DEF RunType
  <2>3. \A k \in 1..Len(calls') : k < Len(calls') => calls'[k].status = OK
    BY <1>2, <1>3, <1>6 DEF ProcessStatus
  <2>4. CallsInv'
    BY <1>2, <1>6, <2>1, <2>3 DEF CallsInv, Ok
  <2>. QED
    BY <2>2, <2>4 DEF CallOrder
<1>7. CASE ProcessStatus = OK /\ s = OK
  <2>1. pc' = "next" /\ ret' = ret
    BY <1>7, Zenon DEF Destroy
  <2>2. RunType'
    BY <1>1, <1>2, <1>4, <2>1, Zenon DEF RunType
  <2>3. \A k \in 1..Len(calls') : calls'[k].status = OK
    BY <1>2, <1>3, <1>7 DEF ProcessStatus
  <2>. QED
    BY <2>1, <2>2, <2>3, Zenon DEF CallOrder, CallsInv, Ok
<1>. QED
  BY <1>5, <1>6, <1>7, Zenon

\* The steps that call no plugin.
LEMMA OtherOrder ==
    ASSUME CallOrder, Enter \/ Buffers \/ NoSourceBuffer \/ NextNode \/ (\E written \in BOOLEAN : Finish(written)) \/ UNCHANGED vars
    PROVE  CallOrder'
<1>1. /\ calls' = calls /\ r' = r /\ current' = current /\ i' \in Nat
      /\ \/ pc \in {"entry", "create", "buffers", "process", "next"} /\ ret = None
            /\ pc' \in {"create", "buffers", "process", "next", "returned"} /\ (ret' # None => pc' = "returned")
         \/ pc' = pc /\ ret' = ret /\ i' = i
  BY DEF CallOrder, RunType, Enter, EnterBound, EnterFile, Buffers, NoSourceBuffer, NextNode, Finish, Return, vars
<1>2. RunType'
  BY <1>1, Zenon DEF CallOrder, RunType
<1>3. CallsInv'
  BY <1>1, Zenon DEF CallOrder, CallsInv, Ok
<1>. QED
  BY <1>2, <1>3, Zenon DEF CallOrder

\* run() returns the status of the first call that failed and after it calls nothing but the
\* DESTROY of that node, however long the chain is (the node lambdas of run_bound and run_file).
THEOREM FirstFailure == Spec => []FirstFailureReturned
<1>1. Init => CallOrder
  <2> SUFFICES ASSUME Init PROVE CallOrder
    BY Zenon
  <2>1. Len(calls) = 0 /\ calls \in Seq(CallRecord)
    BY DEF Init
  <2>. QED
    BY <2>1 DEF Init, CallOrder, RunType, CallsInv
<1>2. CallOrder /\ [Next]_vars => CallOrder'
  BY CreateOrder, ProcessOrder, DestroyOrder, OtherOrder, Zenon DEF Next, Terminated
<1>3. CallOrder => FirstFailureReturned
  <2> SUFFICES ASSUME CallOrder PROVE FirstFailureReturned
    BY Zenon
  <2>0. DOMAIN calls = 1..Len(calls) /\ Len(calls) \in Nat
    BY DEF CallOrder, RunType
  <2>1. CASE \A k \in 1..Len(calls) : Ok(k)
    BY <2>0, <2>1, Zenon DEF FirstFailureReturned, Failures, Ok
  <2>2. CASE pc = "destroy"
    <3>1. Failures \subseteq {Len(calls)}
      BY <2>0, <2>2 DEF CallOrder, CallsInv, Failures, Ok
    <3>2. ret = None
      BY <2>2, Zenon DEF CallOrder, RunType
    <3>. QED
      BY <2>0, <3>1, <3>2 DEF FirstFailureReturned
  <2>3. CASE \E j \in 1..Len(calls) :
                /\ ~Ok(j) /\ ret = calls[j].status
                /\ \A k \in 1..Len(calls) : k < j => Ok(k)
                /\ Len(calls) = j \/ (Len(calls) = j + 1 /\ calls[j + 1].node = calls[j].node /\ calls[j + 1].action = "destroy")
    <3>1. PICK j \in 1..Len(calls) :
                /\ ~Ok(j) /\ ret = calls[j].status
                /\ \A k \in 1..Len(calls) : k < j => Ok(k)
                /\ Len(calls) = j \/ (Len(calls) = j + 1 /\ calls[j + 1].node = calls[j].node /\ calls[j + 1].action = "destroy")
      BY <2>3, Zenon
    <3>2. j \in Failures /\ \A k \in Failures : k \in Nat /\ (k = j \/ k = j + 1) /\ j <= k
      <4>1. \A k : k \in Failures <=> k \in 1..Len(calls) /\ ~Ok(k)
        BY <2>0, Zenon DEF Failures, Ok
      <4>2. j \in Failures
        BY <3>1, <4>1, Zenon
      <4>3. ASSUME NEW k \in 1..Len(calls), ~Ok(k)
            PROVE  k \in Nat /\ (k = j \/ k = j + 1) /\ j <= k
        <5>1. ~(k < j)
          BY <3>1, <4>3, Zenon
        <5>2. Len(calls) = j \/ Len(calls) = j + 1
          BY <3>1, Zenon
        <5>3. \A a, b, n : n \in Nat /\ a \in 1..n /\ b \in 1..n /\ ~(b < a) /\ (n = a \/ n = a + 1)
                 => b \in Nat /\ (b = a \/ b = a + 1) /\ a <= b
          OBVIOUS
        <5>. QED
          BY <2>0, <5>1, <5>2, <5>3, Zenon
      <4>. QED
        BY <4>1, <4>2, <4>3, Zenon
    <3>3. Min(Failures) = j
      <4>1. \E x \in Failures : \A y \in Failures : x <= y
        BY <3>2, Zenon
      <4>2. Min(Failures) \in Failures /\ \A y \in Failures : Min(Failures) <= y
        BY <4>1, Zenon DEF Min
      <4>3. j \in Nat
        OBVIOUS
      <4>4. PICK m : m = Min(Failures)
        BY Zenon
      <4>5. m \in Nat /\ j <= m /\ m <= j
        BY <3>2, <4>2, <4>4, Zenon
      <4>. QED
        BY <4>3, <4>4, <4>5
    <3>4. ASSUME NEW k \in Failures, NEW l \in DOMAIN calls, l > k
          PROVE  l = k + 1 /\ calls[l].node = calls[k].node /\ calls[l].action = "destroy"
      <4>1. PICK n \in Nat : n = Len(calls)
        BY <2>0, Zenon
      <4>2. k \in Nat /\ (k = j \/ k = j + 1)
        BY <3>2, Zenon
      <4>3. l \in Nat /\ l <= n /\ j \in Nat /\ l > k
        BY <2>0, <3>4, <4>1
      <4>4. n = j \/ (n = j + 1 /\ calls[j + 1].node = calls[j].node /\ calls[j + 1].action = "destroy")
        BY <3>1, <4>1, Zenon
      <4>5. k = j /\ l = j + 1 /\ n = j + 1
        BY <4>2, <4>3, <4>4
      <4>. QED
        BY <4>3, <4>4, <4>5
    <3>5. ret = calls[Min(Failures)].status
      BY <3>1, <3>3, Zenon
    <3>. QED
      BY <3>4, <3>5, Zenon DEF FirstFailureReturned
  <2>. QED
    BY <2>1, <2>2, <2>3, Zenon DEF CallOrder, RunType, CallsInv
<1>. QED
  BY <1>1, <1>2, <1>3, PTL DEF Spec

---------------------------------------------------------------------------
\* The node at work is behind the buffer it reads; only its own output is ever written, and the
\* output of a PROCESS that succeeded has the metadata of its pixels.
FollowInv ==
    /\ N \in Nat /\ i <= N + 1 /\ current <= N /\ (i = 0 => current = 0) /\ (i > 0 => current < i)
    /\ pixels \in [0..N -> Seq(Nat)] /\ metadata \in [0..N -> Seq(Nat)]
    /\ pc = "entry" => i = 0 /\ metadata[0] = pixels[0]
    /\ pc = "next" => i > 0
    /\ pc \in {"create", "buffers", "process", "destroy"} => i <= N
    /\ pc \in {"process", "destroy"} => next \subseteq {i} /\ (i = 0 => next = {0})
    /\ i > 0 => metadata[current] = pixels[current]
    /\ pc = "destroy" /\ ProcessStatus = OK /\ i \in next => metadata[i] = pixels[i]

\* PROCESS writes the output of its node and nothing else.
LEMMA ProcessFollows == ASSUME RunType, FollowInv, NEW s \in Status, Process(s) PROVE FollowInv'
<1>1. /\ pc = "process" /\ pc' = "destroy" /\ UNCHANGED <<r, i, current, next, ret>> /\ N' = N
      /\ Log("process", s)
  BY Zenon DEF Process, N
<1>2. ProcessStatus' = s
  BY <1>1, Logged, Zenon DEF ProcessStatus
<1>3. /\ i \in 0..N /\ current \in 0..N /\ i \in Nat /\ current \in Nat /\ N \in Nat
      /\ next \subseteq {i} /\ (i > 0 => current < i /\ metadata[current] = pixels[current])
  BY <1>1 DEF RunType, FollowInv
<1>4. Input \in Seq(Nat) /\ Inherited \in Seq(Nat) /\ Input = Inherited
  BY <1>3 DEF FollowInv, Input, Inherited
<1>5. Append(Input, i) \in Seq(Nat) /\ Append(Inherited, i) \in Seq(Nat) /\ <<>> \in Seq(Nat)
  BY <1>3, <1>4
<1>6. /\ pixels' = [b \in 0..N |-> IF b \notin next THEN pixels[b] ELSE IF s = OK THEN Append(Input, i) ELSE <<>>]
      /\ metadata' = [b \in 0..N |-> IF b \in next THEN Append(Inherited, i) ELSE metadata[b]]
  BY Zenon DEF Process
<1>7. pixels' \in [0..N -> Seq(Nat)] /\ metadata' \in [0..N -> Seq(Nat)]
  BY <1>5, <1>6, Zenon DEF FollowInv
<1>8. i > 0 => metadata'[current] = pixels'[current]
  BY <1>3, <1>6
<1>9. s = OK /\ i \in next => metadata'[i] = pixels'[i]
  BY <1>3, <1>4, <1>6, Zenon
<1>. QED
  BY <1>1, <1>2, <1>3, <1>7, <1>8, <1>9, Zenon DEF FollowInv

\* A run starts with nothing written.
LEMMA FollowInit == Init => CallOrder /\ FollowInv
<1> SUFFICES ASSUME Init PROVE CallOrder /\ FollowInv
  BY Zenon
<1>1. Len(calls) = 0 /\ calls \in Seq(CallRecord)
  BY DEF Init
<1>2. N \in Nat /\ <<>> \in Seq(Nat)
  BY RunsAssumption DEF Init, N
<1>3. pixels \in [0..N -> Seq(Nat)] /\ metadata \in [0..N -> Seq(Nat)] /\ pixels = metadata
  BY <1>2, Zenon DEF Init
<1>4. FollowInv
  BY <1>2, <1>3 DEF Init, FollowInv
<1>. QED
  BY <1>1, <1>4 DEF Init, CallOrder, RunType, CallsInv

\* Every step of a run keeps the output in the making behind its pixels.
LEMMA FollowStep == CallOrder /\ FollowInv /\ [Next]_vars => CallOrder' /\ FollowInv'
<1> SUFFICES ASSUME CallOrder, FollowInv, [Next]_vars PROVE CallOrder' /\ FollowInv'
  BY Zenon
<1>0. RunType
  BY Zenon DEF CallOrder
<1>1. CallOrder'
  BY CreateOrder, ProcessOrder, DestroyOrder, OtherOrder, Zenon DEF Next, Terminated
<1> SUFFICES FollowInv'
  BY <1>1, Zenon
<1>2. ASSUME NEW s \in Status, Create(s) PROVE FollowInv'
  BY <1>0, <1>2, Zenon DEF Create, Return, FollowInv, N, RunType
<1>3. ASSUME NEW s \in Status, Process(s) PROVE FollowInv'
  BY <1>0, <1>3, ProcessFollows, Zenon
<1>4. ASSUME NEW s \in Status, Destroy(s) PROVE FollowInv'
  <2>1. N' = N /\ UNCHANGED <<next, pixels, metadata>> /\ pc = "destroy" /\ i \in Nat /\ current \in Nat
    BY <1>0, <1>4, Zenon DEF Destroy, N, RunType
  <2>2. CASE pc' = "returned" /\ i' = i /\ current' = current
    BY <2>1, <2>2, Zenon DEF FollowInv
  <2>3. CASE pc' = "next" /\ i' = i + 1 /\ current' = Advanced /\ ProcessStatus = OK
    <3>1. CASE next = {}
      BY <2>1, <2>3, <3>1 DEF FollowInv, Advanced
    <3>2. CASE next # {}
      BY <2>1, <2>3, <3>2 DEF FollowInv, Advanced
    <3>. QED
      BY <3>1, <3>2, Zenon
  <2>. QED
    BY <1>4, <2>2, <2>3, Zenon DEF Destroy, Return
<1>5. CASE Enter
  <2>1. N' = N /\ UNCHANGED <<current, next, pixels, metadata>> /\ pc = "entry"
    BY <1>5, Zenon DEF Enter, EnterBound, EnterFile, N
  <2>2. \/ pc' = "returned" /\ i' = i
        \/ pc' = "create" /\ i' = i
        \/ pc' = "next" /\ i' = 1
    BY <1>5, Zenon DEF Enter, EnterBound, EnterFile, Return
  <2>. QED
    BY <2>1, <2>2 DEF FollowInv
<1>6. CASE Buffers
  <2>1. N' = N /\ UNCHANGED <<i, current, pixels, metadata>> /\ pc = "buffers" /\ i \in Nat
    BY <1>0, <1>6, Zenon DEF Buffers, N, RunType
  <2>2. \/ pc' = "returned"
        \/ pc' = "process" /\ next' \subseteq {i} /\ (i = 0 => next' = {0})
    BY <1>6, Zenon DEF Buffers, Return, HasOutput, Writes
  <2>. QED
    BY <2>1, <2>2, Zenon DEF FollowInv
<1>7. CASE NoSourceBuffer \/ NextNode \/ \E written \in BOOLEAN : Finish(written)
  <2>1. N' = N /\ UNCHANGED <<i, current, pixels, metadata>> /\ pc = "next"
    BY <1>7, Zenon DEF NoSourceBuffer, NextNode, Finish, N
  <2>2. pc' = "returned" \/ (pc' = "create" /\ i <= N)
    BY <1>7, Zenon DEF NoSourceBuffer, NextNode, Finish, Return
  <2>. QED
    BY <2>1, <2>2, Zenon DEF FollowInv
<1>8. CASE UNCHANGED vars
  <2>1. N' = N /\ ProcessStatus' = ProcessStatus /\ UNCHANGED <<pc, i, current, next, pixels, metadata>>
    BY <1>8, Zenon DEF vars, N, ProcessStatus
  <2>. QED
    BY <2>1, Zenon DEF FollowInv
<1>. QED
  BY <1>1, <1>2, <1>3, <1>4, <1>5, <1>6, <1>7, <1>8, Zenon DEF Next, Terminated

\* The buffer that is handed on carries the metadata of exactly the nodes whose work is in its
\* pixels, in chains of any length (process_node and the freeze of its builder).
THEOREM MetadataFollows == Spec => []MetadataFollowsPixels
<1>1. FollowInv => MetadataFollowsPixels
  BY Zenon DEF FollowInv, MetadataFollowsPixels
<1>. QED
  BY <1>1, FollowInit, FollowStep, PTL DEF Spec

---------------------------------------------------------------------------
\* A plugin instance waits for its DESTROY, has had it, or belongs to the node without a layout.
Destroyed(v) == \E k \in 1..Len(calls) : calls[k].node = v /\ calls[k].action = "destroy"
LeftBehind(v) == v > 0 /\ r.mode = "bound" /\ ~r.nodes[v].layout_ok
InHand(v) == v = i /\ pc \in {"buffers", "process", "destroy"}
Created(v) == \E k \in 1..Len(calls) : calls[k].node = v /\ calls[k].action = "create" /\ Ok(k)
ReleaseInv == \A v \in Nat : Created(v) => Destroyed(v) \/ LeftBehind(v) \/ InHand(v)

\* A step that calls no plugin keeps the instance in hand, or leaves it behind.
LEMMA QuietRelease ==
    ASSUME ReleaseInv, UNCHANGED <<r, calls>>, \A v \in Nat : InHand(v) => InHand(v)' \/ LeftBehind(v)
    PROVE  ReleaseInv'
<1>1. \A v \in Nat : (Destroyed(v)' <=> Destroyed(v)) /\ (LeftBehind(v)' <=> LeftBehind(v))
  BY Zenon DEF Destroyed, LeftBehind
<1>2. \A v \in Nat : Created(v)' <=> Created(v)
  BY Zenon DEF Created, Ok
<1>. QED
  BY <1>1, <1>2, Zenon DEF ReleaseInv

\* A call appends to the log: what was destroyed stays destroyed.
LEMMA CallRelease ==
    ASSUME RunType, ReleaseInv, NEW action \in {"create", "process", "destroy"}, NEW s \in Status,
           Log(action, s), UNCHANGED r,
           \A v \in Nat : InHand(v) => InHand(v)' \/ (action = "destroy" /\ v = i),
           \A v \in Nat : action = "create" /\ s = OK /\ v = i => InHand(v)'
    PROVE  ReleaseInv'
<1>1. /\ Len(calls') = Len(calls) + 1 /\ Len(calls) \in Nat
      /\ \A k \in 1..Len(calls) : calls'[k] = calls[k]
      /\ calls'[Len(calls')].node = i /\ calls'[Len(calls')].action = action /\ calls'[Len(calls')].status = s
  BY Logged, Zenon
<1>2. \A v \in Nat : Destroyed(v) => Destroyed(v)'
  BY <1>1 DEF Destroyed
<1>3. \A v \in Nat : action = "destroy" /\ v = i => Destroyed(v)'
  BY <1>1 DEF Destroyed
<1>4. \A v \in Nat : LeftBehind(v)' <=> LeftBehind(v)
  BY Zenon DEF LeftBehind
<1>5. ASSUME NEW v \in Nat, Created(v)' PROVE Created(v) \/ (action = "create" /\ s = OK /\ v = i)
  <2>1. PICK k \in 1..Len(calls') : calls'[k].node = v /\ calls'[k].action = "create" /\ calls'[k].status = OK
    BY <1>5, Zenon DEF Created, Ok
  <2>2. k = Len(calls') \/ (k \in 1..Len(calls) /\ calls'[k] = calls[k])
    BY <1>1
  <2>. QED
    BY <1>1, <2>1, <2>2, Zenon DEF Created, Ok
<1>. QED
  BY <1>2, <1>3, <1>4, <1>5, Zenon DEF ReleaseInv

\* A run that returns has sent DESTROY to every instance it created, whatever call failed and however
\* many nodes there are; the node whose output layout is unknown is the exception (process_node).
THEOREM Released == Spec => []InstancesReleased
<1>1. Init => CallOrder /\ ReleaseInv
  <2> SUFFICES ASSUME Init PROVE CallOrder /\ ReleaseInv
    OBVIOUS
  <2>1. Len(calls) = 0 /\ calls \in Seq(CallRecord)
    BY DEF Init
  <2>. QED
    BY <2>1 DEF Init, CallOrder, RunType, CallsInv, ReleaseInv, Created
<1>2. CallOrder /\ ReleaseInv /\ [Next]_vars => CallOrder' /\ ReleaseInv'
  <2> SUFFICES ASSUME CallOrder, ReleaseInv, [Next]_vars PROVE CallOrder' /\ ReleaseInv'
    OBVIOUS
  <2>0. RunType
    BY DEF CallOrder
  <2>1. CallOrder'
    BY CreateOrder, ProcessOrder, DestroyOrder, OtherOrder DEF Next, Terminated
  <2> SUFFICES ReleaseInv'
    BY <2>1
  <2>2. ASSUME NEW s \in Status, Create(s) PROVE ReleaseInv'
    <3>1. Log("create", s) /\ UNCHANGED r /\ \A v \in Nat : ~InHand(v) /\ (s = OK /\ v = i => InHand(v)')
      BY <2>2, Zenon DEF Create, InHand
    <3>. QED
      BY <2>0, <3>1, CallRelease, Zenon
  <2>3. ASSUME NEW s \in Status, Process(s) PROVE ReleaseInv'
    <3>1. Log("process", s) /\ UNCHANGED r /\ \A v \in Nat : InHand(v) => InHand(v)'
      BY <2>3, Zenon DEF Process, InHand
    <3>. QED
      BY <2>0, <3>1, CallRelease, Zenon
  <2>4. ASSUME NEW s \in Status, Destroy(s) PROVE ReleaseInv'
    <3>1. Log("destroy", s) /\ UNCHANGED r /\ \A v \in Nat : InHand(v) => v = i
      BY <2>4, Zenon DEF Destroy, InHand
    <3>. QED
      BY <2>0, <3>1, CallRelease, Zenon
  <2>5. CASE Enter
    <3>1. UNCHANGED <<r, calls>> /\ \A v \in Nat : ~InHand(v)
      BY <2>5, Zenon DEF Enter, EnterBound, EnterFile, InHand
    <3>. QED
      BY <2>0, <3>1, QuietRelease, Zenon
  <2>6. CASE Buffers
    <3>1. UNCHANGED <<r, calls>> /\ \A v \in Nat : InHand(v) => InHand(v)' \/ LeftBehind(v)
      BY <2>6, Zenon DEF Buffers, InHand, LeftBehind
    <3>. QED
      BY <2>0, <3>1, QuietRelease, Zenon
  <2>7. CASE NoSourceBuffer \/ NextNode \/ \E written \in BOOLEAN : Finish(written)
    <3>1. UNCHANGED <<r, calls>> /\ \A v \in Nat : ~InHand(v)
      BY <2>7, Zenon DEF NoSourceBuffer, NextNode, Finish, InHand
    <3>. QED
      BY <2>0, <3>1, QuietRelease
  <2>8. CASE UNCHANGED vars
    <3>1. UNCHANGED <<r, calls>> /\ \A v \in Nat : InHand(v) => InHand(v)'
      BY <2>8, Zenon DEF vars, InHand
    <3>. QED
      BY <2>0, <3>1, QuietRelease, Zenon
  <2>. QED
    BY <2>1, <2>2, <2>3, <2>4, <2>5, <2>6, <2>7, <2>8 DEF Next, Terminated
<1>3. CallOrder /\ ReleaseInv => InstancesReleased
  <2> SUFFICES ASSUME CallOrder, ReleaseInv, ret # None, NEW v \in Instances
      PROVE Called(v, "destroy") # {} \/ LeftBehind(v)
    BY Zenon DEF InstancesReleased, LeftBehind
  <2>1. DOMAIN calls = 1..Len(calls) /\ pc = "returned"
    BY DEF CallOrder, RunType
  <2>2. v \in Nat /\ Created(v)
    BY <2>1 DEF Instances, Called, Created, Ok
  <2>3. Destroyed(v) \/ LeftBehind(v)
    BY <2>1, <2>2, Zenon DEF ReleaseInv, InHand
  <2>. QED
    BY <2>1, <2>3, Zenon DEF Destroyed, Called
<1>. QED
  BY <1>1, <1>2, <1>3, PTL DEF Spec
---------------------------------------------------------------------------
\* The nodes with outputs of a run q, and the work that a buffer p carries once the nodes before n are
\* done: that of all of them, in order.
FirstOf(q) == IF q.mode = "file" THEN 1 ELSE 0
WritesIn(q, v) == v = 0 \/ q.mode = "file" \/ q.nodes[v].has_output
CarriesWork(q, p, n) ==
    /\ \A k \in 1..Len(p) : FirstOf(q) <= p[k] /\ p[k] < n /\ WritesIn(q, p[k])
    /\ \A v \in Nat : FirstOf(q) <= v /\ v < n /\ WritesIn(q, v) => \E k \in 1..Len(p) : p[k] = v
    /\ \A j, k \in 1..Len(p) : j < k => p[j] < p[k]

\* In a log, PROCESS was called once for each of the nodes a .. b - 1 and for none from b on.
IsProcess(log, k, v) == log[k].action = "process" /\ log[k].node = v
OnceIn(log, v) == \E k \in 1..Len(log) : IsProcess(log, k, v) /\ \A l \in 1..Len(log) : IsProcess(log, l, v) => l = k
AllProcessed(log, a, b) ==
    /\ \A v \in Nat : a <= v /\ v < b => OnceIn(log, v)
    /\ \A k \in 1..Len(log) : log[k].action = "process" => log[k].node < b

\* While a run is under way, and when it has returned CPIPE_OK, each node before the one at work has
\* been processed once, and the current buffer carries the work of those that write.  (Node 0 writes
\* the buffer that is current already.)
ComposeInv ==
    /\ pc = "entry" => calls = <<>> /\ current = 0 /\ pixels[0] = <<>>
    /\ pc \in {"create", "buffers", "process", "destroy", "next"} \/ ret = OK =>
          /\ FirstOf(r) <= i
          /\ AllProcessed(calls, FirstOf(r), IF pc = "destroy" THEN i + 1 ELSE i)
          /\ (pc = "destroy" => i > 0) => CarriesWork(r, pixels[current], i)
    /\ pc \in {"process", "destroy"} => (i \in next <=> WritesIn(r, i))
    /\ pc = "destroy" /\ ProcessStatus = OK /\ i \in next => CarriesWork(r, pixels[i], i + 1)
    /\ ret = OK => i = N + 1

\* The work of one more node goes behind the work that is there.
LEMMA CarriesMore ==
    ASSUME NEW q, NEW p \in Seq(Nat), NEW n \in Nat, FirstOf(q) <= n, CarriesWork(q, p, n), WritesIn(q, n)
    PROVE  CarriesWork(q, Append(p, n), n + 1)
<1>1. /\ Len(Append(p, n)) = Len(p) + 1 /\ Len(p) \in Nat
      /\ \A k \in 1..Len(p) : Append(p, n)[k] = p[k] /\ p[k] \in Nat
      /\ Append(p, n)[Len(p) + 1] = n
  OBVIOUS
<1>2. ASSUME NEW k \in 1..Len(Append(p, n)) PROVE k = Len(p) + 1 \/ k \in 1..Len(p)
  BY <1>1
<1>3. FirstOf(q) \in Nat
  BY Zenon DEF FirstOf
<1>4. \A k \in 1..Len(Append(p, n)) : /\ FirstOf(q) <= Append(p, n)[k] /\ Append(p, n)[k] < n + 1
                                      /\ WritesIn(q, Append(p, n)[k])
  BY <1>1, <1>2, <1>3 DEF CarriesWork
<1>5. ASSUME NEW v \in Nat, FirstOf(q) <= v, v < n + 1, WritesIn(q, v)
      PROVE  \E k \in 1..Len(Append(p, n)) : Append(p, n)[k] = v
  <2>1. CASE v = n
    BY <1>1, <2>1
  <2>2. CASE v < n
    BY <1>1, <1>5, <2>2 DEF CarriesWork
  <2>. QED
    BY <1>5, <2>1, <2>2
<1>6. ASSUME NEW j \in 1..Len(Append(p, n)), NEW k \in 1..Len(Append(p, n)), j < k
      PROVE  Append(p, n)[j] < Append(p, n)[k]
  <2>1. j \in 1..Len(p)
    BY <1>1, <1>6
  <2>2. CASE k \in 1..Len(p)
    BY <1>1, <1>6, <2>1, <2>2, Zenon DEF CarriesWork
  <2>3. CASE k = Len(p) + 1
    BY <1>1, <2>1, <2>3, Zenon DEF CarriesWork
  <2>. QED
    BY <1>2, <2>2, <2>3, Zenon
<1>. QED
  BY <1>4, <1>5, <1>6, Zenon DEF CarriesWork

\* A node that writes nothing adds nothing.
LEMMA CarriesSame ==
    ASSUME NEW q, NEW p \in Seq(Nat), NEW n \in Nat, CarriesWork(q, p, n), ~WritesIn(q, n)
    PROVE  CarriesWork(q, p, n + 1)
<1>1. \A k \in 1..Len(p) : p[k] \in Nat
  OBVIOUS
<1>2. \A v \in Nat : v < n + 1 <=> v < n \/ v = n
  OBVIOUS
<1>. QED
  BY <1>1, <1>2, Zenon DEF CarriesWork

\* What another call makes of the nodes that were processed.
LEMMA LoggedOnce ==
    ASSUME NEW log \in Seq(CallRecord), NEW c \in CallRecord, NEW a \in Nat, NEW b \in Nat, AllProcessed(log, a, b)
    PROVE  /\ c.action # "process" => AllProcessed(Append(log, c), a, b)
           /\ c.action = "process" /\ c.node = b => AllProcessed(Append(log, c), a, b + 1)
<1> DEFINE longer == Append(log, c)
<1>1. /\ Len(longer) = Len(log) + 1 /\ Len(log) \in Nat /\ longer[Len(log) + 1] = c
      /\ \A k \in 1..Len(log) : longer[k] = log[k] /\ log[k].node \in Nat
  <2>1. \A k \in 1..Len(log) : log[k] \in CallRecord
    OBVIOUS
  <2>2. \A k \in 1..Len(log) : log[k].node \in Nat
    BY <2>1, Zenon DEF CallRecord
  <2>. QED
    BY <2>2
<1>2. \A k \in 1..Len(longer) : k = Len(log) + 1 \/ k \in 1..Len(log)
  BY <1>1
<1>3. 1..Len(log) \subseteq 1..Len(longer) /\ Len(log) + 1 \in 1..Len(longer) /\ Len(log) + 1 \notin 1..Len(log)
  BY <1>1
<1> HIDE DEF longer
<1>4. ASSUME NEW v \in Nat, OnceIn(log, v), c.action # "process" \/ c.node # v PROVE OnceIn(longer, v)
  <2>1. PICK k \in 1..Len(log) : IsProcess(log, k, v) /\ \A l \in 1..Len(log) : IsProcess(log, l, v) => l = k
    BY <1>4, Zenon DEF OnceIn
  <2>2. IsProcess(longer, k, v) /\ \A l \in 1..Len(log) : IsProcess(longer, l, v) => l = k
    BY <1>1, <2>1, Zenon DEF IsProcess
  <2>3. ~IsProcess(longer, Len(log) + 1, v)
    BY <1>1, <1>4, Zenon DEF IsProcess
  <2>. QED
    BY <1>2, <1>3, <2>2, <2>3, Zenon DEF OnceIn
<1>5. c.action # "process" => AllProcessed(longer, a, b)
  BY <1>1, <1>2, <1>4, Zenon DEF AllProcessed
<1>6. ASSUME c.action = "process", c.node = b PROVE AllProcessed(longer, a, b + 1)
  <2>1. OnceIn(longer, b)
    <3>1. \A k \in 1..Len(log) : ~IsProcess(longer, k, b)
      BY <1>1 DEF AllProcessed, IsProcess
    <3>2. IsProcess(longer, Len(log) + 1, b)
      BY <1>1, <1>6, Zenon DEF IsProcess
    <3>. QED
      BY <1>2, <1>3, <3>1, <3>2, Zenon DEF OnceIn
  <2>2. \A v \in Nat : a <= v /\ v < b + 1 => OnceIn(longer, v)
    <3> SUFFICES ASSUME NEW v \in Nat, a <= v, v < b + 1 PROVE OnceIn(longer, v)
      BY Zenon
    <3>1. CASE v = b
      BY <2>1, <3>1, Zenon
    <3>2. CASE v < b
      BY <1>4, <1>6, <3>2 DEF AllProcessed
    <3>. QED
      BY <3>1, <3>2
  <2>3. \A k \in 1..Len(longer) : longer[k].action = "process" => longer[k].node < b + 1
    BY <1>1, <1>2, <1>6 DEF AllProcessed
  <2>. QED
    BY <2>2, <2>3, Zenon DEF AllProcessed
<1>. QED
  BY <1>5, <1>6, Zenon DEF longer

\* PROCESS is called for the node at work, and its output carries what its input carried and its own work.
LEMMA ProcessComposes ==
    ASSUME RunType, FollowInv, ComposeInv, NEW s \in Status, Process(s) PROVE ComposeInv'
<1>1. /\ pc = "process" /\ pc' = "destroy" /\ UNCHANGED <<r, i, current, next, ret>> /\ N' = N
      /\ Log("process", s)
  BY Zenon DEF Process, N
<1>2. ProcessStatus' = s
  BY <1>1, Logged, Zenon DEF ProcessStatus
<1>3. /\ i \in 0..N /\ current \in 0..N /\ i \in Nat /\ current \in Nat /\ N \in Nat /\ ret = None
      /\ next \subseteq {i} /\ (i > 0 => current < i) /\ FirstOf(r) \in Nat
  BY <1>1 DEF RunType, FollowInv, FirstOf
<1>4. /\ FirstOf(r) <= i /\ AllProcessed(calls, FirstOf(r), i) /\ CarriesWork(r, pixels[current], i)
      /\ (i \in next <=> WritesIn(r, i))
  BY <1>1, Zenon DEF ComposeInv
<1>5. AllProcessed(calls', FirstOf(r), i + 1)
  <2>1. PICK c \in CallRecord : c = [node |-> i, action |-> "process", status |-> s]
    BY <1>3, Zenon DEF CallRecord
  <2>2. calls' = Append(calls, c) /\ c.action = "process" /\ c.node = i /\ calls \in Seq(CallRecord)
    BY <1>1, <2>1, Zenon DEF Log, RunType
  <2>. QED
    BY <1>3, <1>4, <2>2, LoggedOnce, Zenon
<1>6. pixels' = [b \in 0..N |-> IF b \notin next THEN pixels[b] ELSE IF s = OK THEN Append(Input, i) ELSE <<>>]
  BY Zenon DEF Process
<1>7. ASSUME i > 0 PROVE CarriesWork(r, pixels'[current], i)
  <2>1. pixels'[current] = pixels[current]
    BY <1>3, <1>6, <1>7
  <2>. QED
    BY <1>4, <2>1, Zenon
<1>8. ASSUME s = OK, i \in next PROVE CarriesWork(r, pixels'[i], i + 1)
  <2>1. pixels'[i] = Append(Input, i)
    BY <1>3, <1>6, <1>8, Zenon
  <2>2. Input \in Seq(Nat) /\ CarriesWork(r, Input, i)
    <3>1. CASE i > 0
      <4>1. Input = pixels[current] /\ CarriesWork(r, pixels[current], i)
        BY <1>4, <3>1 DEF Input
      <4>2. pixels[current] \in Seq(Nat)
        BY <1>3 DEF FollowInv
      <4>. QED
        BY <4>1, <4>2, Zenon
    <3>2. CASE i = 0
      <4>1. Input = <<>> /\ Len(Input) = 0
        BY <3>2, Zenon DEF Input
      <4>. QED
        BY <3>2, <4>1 DEF CarriesWork
    <3>. QED
      BY <1>3, <3>1, <3>2
  <2>. QED
    BY <1>3, <1>4, <1>8, <2>1, <2>2, CarriesMore, Zenon
<1>9. ret' # OK
  BY <1>1, <1>3, Zenon DEF None, OK
<1>. QED
  BY <1>1, <1>2, <1>3, <1>4, <1>5, <1>7, <1>8, <1>9, Zenon DEF ComposeInv

\* DESTROY hands the output on, if the node has one.
LEMMA DestroyComposes ==
    ASSUME RunType, FollowInv, ComposeInv, NEW s \in Status, Destroy(s) PROVE ComposeInv'
<1>1. pc = "destroy" /\ UNCHANGED <<r, next, pixels>> /\ Log("destroy", s) /\ N' = N
  BY Zenon DEF Destroy, N
<1>2. /\ i \in 0..N /\ current \in 0..N /\ i \in Nat /\ current \in Nat /\ N \in Nat /\ ret = None
      /\ next \subseteq {i} /\ (i = 0 => next = {0}) /\ FirstOf(r) \in Nat /\ pixels \in [0..N -> Seq(Nat)]
  BY <1>1, SMTT(30) DEF RunType, FollowInv, FirstOf
<1>3. /\ FirstOf(r) <= i /\ AllProcessed(calls, FirstOf(r), i + 1) /\ (i > 0 => CarriesWork(r, pixels[current], i))
      /\ (i \in next <=> WritesIn(r, i)) /\ (ProcessStatus = OK /\ i \in next => CarriesWork(r, pixels[i], i + 1))
  BY <1>1, Zenon DEF ComposeInv
<1>4. AllProcessed(calls', FirstOf(r), i + 1)
  <2>1. PICK c \in CallRecord : c = [node |-> i, action |-> "destroy", status |-> s]
    BY <1>2, Zenon DEF CallRecord
  <2>2. calls' = Append(calls, c) /\ c.action # "process" /\ calls \in Seq(CallRecord) /\ i + 1 \in Nat
    BY <1>1, <1>2, <2>1 DEF Log, RunType
  <2>. QED
    BY <1>2, <1>3, <2>2, LoggedOnce, Zenon
<1>5. CASE pc' = "returned" /\ ret' # OK
  BY <1>5, Zenon DEF ComposeInv
<1>6. CASE pc' = "next" /\ ret' = ret /\ i' = i + 1 /\ current' = Advanced /\ ProcessStatus = OK
  <2>1. CarriesWork(r, pixels[Advanced], i + 1)
    <3>1. CASE next = {}
      BY <1>2, <1>3, <3>1, CarriesSame DEF Advanced
    <3>2. CASE next # {}
      BY <1>2, <1>3, <1>6, <3>2, Zenon DEF Advanced
    <3>. QED
      BY <3>1, <3>2, Zenon
  <2>2. ret' # OK /\ FirstOf(r) <= i + 1
    BY <1>2, <1>3, <1>6 DEF None, OK
  <2>. QED
    BY <1>1, <1>4, <1>6, <2>1, <2>2, Zenon DEF ComposeInv
<1>. QED
  BY <1>5, <1>6, Zenon DEF Destroy, Return

\* Every step keeps the composition.
LEMMA ComposeStep == CallOrder /\ FollowInv /\ ComposeInv /\ [Next]_vars => ComposeInv'
<1> SUFFICES ASSUME CallOrder, FollowInv, ComposeInv, [Next]_vars PROVE ComposeInv'
  BY Zenon
<1>0. RunType /\ FirstOf(r) \in Nat
  BY Zenon DEF CallOrder, FirstOf
<1>1. ASSUME NEW s \in Status, Create(s) PROVE ComposeInv'
  <2>1. /\ pc = "create" /\ UNCHANGED <<r, i, current, next, pixels>> /\ N' = N /\ Log("create", s) /\ i \in Nat /\ ret = None
        /\ \/ pc' = "buffers" /\ ret' = ret
           \/ pc' = "returned" /\ ret' # OK
    BY <1>0, <1>1, Zenon DEF Create, Return, N, RunType
  <2>2. /\ FirstOf(r) <= i /\ AllProcessed(calls, FirstOf(r), i) /\ CarriesWork(r, pixels[current], i)
    BY <2>1, Zenon DEF ComposeInv
  <2>3. AllProcessed(calls', FirstOf(r), i)
    <3>1. PICK c \in CallRecord : c = [node |-> i, action |-> "create", status |-> s]
      BY <2>1, Zenon DEF CallRecord
    <3>2. calls' = Append(calls, c) /\ c.action # "process" /\ calls \in Seq(CallRecord)
      BY <1>0, <2>1, <3>1, Zenon DEF Log, RunType
    <3>. QED
      BY <1>0, <2>1, <2>2, <3>2, LoggedOnce, Zenon
  <2>4. ret' # OK
    BY <2>1, Zenon DEF None, OK
  <2>. QED
    BY <2>1, <2>2, <2>3, <2>4, Zenon DEF ComposeInv
<1>2. ASSUME NEW s \in Status, Process(s) PROVE ComposeInv'
  BY <1>0, <1>2, ProcessComposes, Zenon
<1>3. ASSUME NEW s \in Status, Destroy(s) PROVE ComposeInv'
  BY <1>0, <1>3, DestroyComposes
<1>4. CASE Enter
  <2>1. UNCHANGED <<r, current, next, pixels, calls>> /\ pc = "entry" /\ i = 0 /\ N' = N /\ ret = None
    BY <1>0, <1>4, Zenon DEF Enter, N, FollowInv, RunType
  <2>2. calls = <<>> /\ Len(calls) = 0 /\ current = 0 /\ pixels[0] = <<>> /\ Len(pixels[current]) = 0
    BY <2>1 DEF ComposeInv
  <2>3. \/ pc' = "returned" /\ ret' # OK
        \/ pc' = "create" /\ i' = 0 /\ FirstOf(r) = 0 /\ ret' # OK
        \/ pc' = "next" /\ i' = 1 /\ FirstOf(r) = 1 /\ ret' # OK
    BY <1>4, <2>1, Zenon DEF Enter, EnterBound, EnterFile, Return, FirstOf, None, OK, Failed, Unsupported
  <2>4. AllProcessed(calls, 0, 0) /\ AllProcessed(calls, 1, 1) 
    BY <2>2 DEF AllProcessed
  <2>5. ASSUME NEW n \in {0, 1}, FirstOf(r) = n PROVE CarriesWork(r, pixels[current], n)
    BY <2>2, <2>5 DEF CarriesWork
  <2>. QED
    BY <2>1, <2>3, <2>4, <2>5 DEF ComposeInv
<1>5. CASE Buffers
  <2>1. /\ UNCHANGED <<r, i, current, pixels, calls>> /\ N' = N /\ pc = "buffers" /\ ret = None
        /\ \/ pc' = "returned" /\ ret' # OK
           \/ pc' = "process" /\ ret' = ret /\ next' = IF HasOutput THEN {i} ELSE {}
    BY <1>0, <1>5, Zenon DEF Buffers, Return, N, RunType, Failed, OK
  <2>2. HasOutput <=> WritesIn(r, i)
    BY Zenon DEF HasOutput, Writes, WritesIn
  <2>3. ret' # OK
    BY <2>1, Zenon DEF None, OK
  <2>. QED
    BY <2>1, <2>2, <2>3, Zenon DEF ComposeInv
<1>6. CASE NoSourceBuffer \/ NextNode \/ \E written \in BOOLEAN : Finish(written)
  <2>1. /\ UNCHANGED <<r, i, current, pixels, calls>> /\ N' = N /\ pc = "next" /\ ret = None
        /\ \/ pc' = "create" /\ ret' = ret
           \/ pc' = "returned" /\ (i > N \/ ret' = Failed)
    BY <1>0, <1>6, Zenon DEF NoSourceBuffer, NextNode, Finish, Return, N, RunType
  <2>2. i \in Nat /\ N \in Nat /\ i <= N + 1
    BY <1>0, Zenon DEF RunType, FollowInv
  <2>. QED
    BY <2>1, <2>2 DEF ComposeInv, None, OK, Failed
<1>7. CASE UNCHANGED vars
  <2>1. N' = N /\ ProcessStatus' = ProcessStatus /\ UNCHANGED <<r, pc, i, current, next, pixels, calls, ret>>
    BY <1>7, Zenon DEF vars, N, ProcessStatus
  <2>. QED
    BY <2>1, Zenon DEF ComposeInv
<1>. QED
  BY <1>1, <1>2, <1>3, <1>4, <1>5, <1>6, <1>7, Zenon DEF Next, Terminated

(* A run that returns CPIPE_OK has called PROCESS exactly once for every node, and its last buffer carries
   the work of all nodes with outputs, in order: for chains of any length. *)
THEOREM Composition == Spec => []ResultIsComposition
<1>1. Init => ComposeInv
  <2> SUFFICES ASSUME Init PROVE ComposeInv
    OBVIOUS
  <2>1. Len(r.nodes) \in Nat
    BY RunsAssumption DEF Init
  <2>2. /\ pc = "entry" /\ calls = <<>> /\ current = 0 /\ pixels[0] = <<>> /\ ret # OK
    BY <2>1 DEF Init, N, None, OK
  <2>. QED
    BY <2>2, Zenon DEF ComposeInv
<1>2. CallOrder /\ FollowInv /\ ComposeInv => ResultIsComposition
  <2> SUFFICES ASSUME CallOrder, FollowInv, ComposeInv, ret = OK
      PROVE /\ \A v \in First..N : Cardinality(Called(v, "process")) = 1
            /\ Range(pixels[current]) = {v \in First..N : Writes(v)} /\ Ascending(pixels[current])
    BY Zenon DEF ResultIsComposition
  <2>1. /\ First = FirstOf(r) /\ First \in Nat /\ N \in Nat /\ i = N + 1 /\ pc = "returned"
        /\ calls \in Seq(CallRecord) /\ pixels[current] \in Seq(Nat)
    BY DEF CallOrder, RunType, FollowInv, ComposeInv, First, FirstOf, None, OK
  <2>2. AllProcessed(calls, First, N + 1) /\ CarriesWork(r, pixels[current], N + 1)
    BY <2>1, Zenon DEF ComposeInv
  <2>3. ASSUME NEW v \in First..N PROVE Cardinality(Called(v, "process")) = 1
    <3>1. OnceIn(calls, v) /\ DOMAIN calls = 1..Len(calls)
      BY <2>1, <2>2, SMTT(30) DEF AllProcessed
    <3>2. PICK k \in 1..Len(calls) :
             IsProcess(calls, k, v) /\ \A l \in 1..Len(calls) : IsProcess(calls, l, v) => l = k
      BY <3>1, Zenon DEF OnceIn
    <3>3. Called(v, "process") = {k}
      BY <3>1, <3>2, Zenon DEF Called, IsProcess
    <3>. QED
      BY <3>3, FS_Singleton, Zenon
  <2> DEFINE p == pixels[current]
  <2>4. DOMAIN p = 1..Len(p) /\ \A k \in 1..Len(p) : p[k] \in Nat
    BY <2>1
  <2>5. \A v \in First..N : Writes(v) <=> WritesIn(r, v)
    BY Zenon DEF Writes, WritesIn
  <2>6. Range(p) = {p[k] : k \in 1..Len(p)}
    BY <2>4, Zenon DEF Range
  <2>7. \A v \in Nat : First <= v /\ v < N + 1 <=> v \in First..N
    BY <2>1
  <2>8. ASSUME NEW v \in Range(p) PROVE v \in First..N /\ Writes(v)
    BY <2>1, <2>2, <2>4, <2>5, <2>6, <2>7, Zenon DEF CarriesWork
  <2>9. ASSUME NEW v \in First..N, Writes(v) PROVE v \in Range(p)
    <3>1. v \in Nat /\ First <= v /\ v < N + 1 /\ WritesIn(r, v)
      BY <2>1, <2>5, <2>9
    <3>. QED
      BY <2>1, <2>2, <2>6, <3>1, Zenon DEF CarriesWork
  <2>10. Ascending(p)
    BY <2>2, <2>4, Zenon DEF CarriesWork, Ascending
  <2>. QED
    BY <2>3, <2>8, <2>9, <2>10, Zenon
<1>. QED
  BY <1>1, <1>2, FollowInit, FollowStep, ComposeStep, PTL DEF Spec

---------------------------------------------------------------------------

\* A metadata record that names one of the calibration blocks, or none.
Names(m, n) == DOMAIN m = {"cal", "plain", "steps", "native", "ext"} /\ m.cal \in 0..n

\* The blocks are a sequence that every record points into: an edit that made a dangling or a
\* reused index would let a later set_cfa change what is already published.
Blocks == [DOMAIN EmptyBlock -> Values \cup {Nothing}]
StoreInv ==
    /\ cals \in Seq(Blocks)
    /\ Names(builder, Len(cals))
    /\ \A b \in DOMAIN md : Names(md[b], Len(cals))

\* An edit of a plain value, of the steps or of a blob leaves the calibration block alone
\* (MetadataBuilder's with_* members).
LEMMA EditKeepsBlock ==
    ASSUME NEW n \in Nat, NEW m, Names(m, n)
    PROVE  /\ \A x : /\ Names(WithAsShotNeutral(m, x), n) /\ Names(WithOrientation(m, x), n) /\ Names(WithRole(m, x), n)
                     /\ Names(WithActiveArea(m, x), n) /\ Names(WithTensorQuant(m, x), n)
                     /\ Names(WithStep(m, x), n) /\ Names(WithoutStep(m, x), n)
           /\ \A k, x : Names(WithBlob(m, k, x), n)
           /\ \A c \in 0..n : Names(WithCalibration(m, c), n)
<1>1. \A x : /\ Names(WithAsShotNeutral(m, x), n) /\ Names(WithOrientation(m, x), n) /\ Names(WithRole(m, x), n)
             /\ Names(WithActiveArea(m, x), n) /\ Names(WithTensorQuant(m, x), n)
  BY Zenon DEF Names, WithAsShotNeutral, WithOrientation, WithRole, WithActiveArea, WithTensorQuant
<1>2. \A x : Names(WithStep(m, x), n)
  BY Zenon DEF Names, WithStep
<1>3. \A x : Names(WithoutStep(m, x), n)
  BY Zenon DEF Names, WithoutStep
<1>4. \A k, x : Names(WithBlob(m, k, x), n)
  BY Zenon DEF Names, WithBlob
<1>5. \A c \in 0..n : Names(WithCalibration(m, c), n)
  BY Zenon DEF Names, WithCalibration
<1>. QED
  BY <1>1, <1>2, <1>3, <1>4, <1>5, Zenon

\* A call that only replaces the builder's record publishes nothing (Edited).
LEMMA EditedKeeps ==
    ASSUME StoreInv, NEW m, Names(m, Len(cals)), Edited(m)
    PROVE  StoreInv' /\ KeepsPublished
BY Zenon DEF StoreInv, Edited, KeepsPublished

\* set_cfa appends a block: those that are shared stay what they are.
LEMMA SetCfaKeeps ==
    ASSUME StoreInv, NEW x \in Values \cup {Nothing}, set_cfa(x)
    PROVE  StoreInv' /\ KeepsPublished
<1>1. get_calibration(builder) \in Blocks
  BY DEF StoreInv, Names, get_calibration, Blocks, EmptyBlock
<1>2. PICK block \in Blocks : cals' = Append(cals, block)
  <2>1. [get_calibration(builder) EXCEPT !.cfa = x] \in Blocks
    BY <1>1, Zenon DEF Blocks
  <2>. QED
    BY <2>1, Zenon DEF set_cfa
<1>3. /\ cals' \in Seq(Blocks) /\ Len(cals') = Len(cals) + 1
      /\ \A k \in 1..Len(cals) : cals'[k] = cals[k]
      /\ Len(cals) \in Nat
  BY <1>2 DEF StoreInv
<1>4. md' = md /\ builder' = WithCalibration(builder, Len(cals) + 1)
  BY Zenon DEF set_cfa
<1>5. Names(builder', Len(cals'))
  BY <1>3, <1>4 DEF StoreInv, Names, WithCalibration
<1>6. \A b \in DOMAIN md' : Names(md'[b], Len(cals'))
  BY <1>3, <1>4 DEF StoreInv, Names
<1>. QED
  BY <1>3, <1>4, <1>5, <1>6 DEF StoreInv, KeepsPublished, Names

\* A buffer that had no metadata gets some; the others keep theirs.
LEMMA AttachKeeps ==
    ASSUME StoreInv, NEW b \in Frames \ DOMAIN md, NEW m, md' = Attached(b, m), builder' = builder,
           NEW n \in Nat, Len(cals) <= n, cals' \in Seq(Blocks), Len(cals') = n, Names(m, n),
           \A k \in 1..Len(cals) : cals'[k] = cals[k]
    PROVE  StoreInv' /\ KeepsPublished
<1>1. Len(cals) \in Nat
  BY DEF StoreInv
<1>2. DOMAIN md' = DOMAIN md \cup {b} /\ md'[b] = m /\ \A c \in DOMAIN md : md'[c] = md[c]
  BY Zenon DEF Attached
<1>3. \A c \in DOMAIN md' : Names(md'[c], n)
  BY <1>1, <1>2 DEF StoreInv, Names
<1>4. Names(builder', n)
  BY <1>1 DEF StoreInv, Names
<1>. QED
  BY <1>1, <1>2, <1>3, <1>4 DEF StoreInv, KeepsPublished, Names

\* Every call of a plugin or of the host keeps the invariant and what is published.
LEMMA StoreStep == ASSUME StoreInv, StoreNext PROVE StoreInv' /\ KeepsPublished
<1>0. /\ Len(cals) \in Nat /\ Names(builder, Len(cals)) /\ cals \in Seq(Blocks)
      /\ \A b \in DOMAIN md : Names(md[b], Len(cals)) /\ md[b].cal \in 0..Len(cals)
  BY DEF StoreInv, Names
<1>1. ASSUME NEW x,
             \/ set_as_shot_neutral(x) \/ set_orientation(x) \/ set_cs_role(x) \/ set_active_area(x)
             \/ set_tensor_quant(x) \/ add_applied_step(x) \/ remove_applied_step(x)
      PROVE  StoreInv' /\ KeepsPublished
  <2>1. PICK m : Names(m, Len(cals)) /\ Edited(m)
    BY <1>0, <1>1, EditKeepsBlock, Zenon DEF set_as_shot_neutral, set_orientation, set_cs_role, set_active_area, set_tensor_quant,
       add_applied_step, remove_applied_step
  <2>. QED
    BY <2>1, EditedKeeps, Zenon
<1>2. ASSUME NEW k \in Keys, NEW x \in Values \cup {Nothing}, set_blob(k, x) PROVE StoreInv' /\ KeepsPublished
  BY <1>0, <1>2, EditKeepsBlock, EditedKeeps, Zenon DEF set_blob
<1>3. ASSUME clear_calibration PROVE StoreInv' /\ KeepsPublished
  BY <1>0, <1>3, EditKeepsBlock, EditedKeeps DEF clear_calibration
<1>4. ASSUME NEW b \in DOMAIN md, share_calibration_from(b) PROVE StoreInv' /\ KeepsPublished
  BY <1>0, <1>4, EditKeepsBlock, EditedKeeps, Zenon DEF share_calibration_from
<1>5. ASSUME clear_cfa PROVE StoreInv' /\ KeepsPublished
  <2>1. CASE builder.cal = 0
    BY <1>5, <2>1, Zenon DEF clear_cfa, meta, StoreInv, KeepsPublished
  <2>2. CASE builder.cal # 0
    BY <1>5, <2>2, SetCfaKeeps, Zenon DEF clear_cfa
  <2>. QED
    BY <2>1, <2>2, Zenon
<1>6. ASSUME NEW x \in Values, set_cfa(x) PROVE StoreInv' /\ KeepsPublished
  BY <1>6, SetCfaKeeps, Zenon
<1>7. ASSUME NEW b \in DOMAIN md, open_builder(b) PROVE StoreInv' /\ KeepsPublished
  BY <1>0, <1>7, Zenon DEF open_builder, StoreInv, KeepsPublished
<1>8. ASSUME NEW b \in Frames \ DOMAIN md, freeze_into(b) PROVE StoreInv' /\ KeepsPublished
  <2>1. md' = Attached(b, builder) /\ cals' = cals /\ builder' = builder
    BY <1>8, Zenon DEF freeze_into
  <2>2. Len(cals') = Len(cals) /\ cals' \in Seq(Blocks) /\ Len(cals) <= Len(cals)
    BY <1>0, <2>1
  <2>. QED
    BY <1>0, <1>8, <2>1, <2>2, AttachKeeps, Zenon
<1>9. ASSUME NEW b \in Frames \ DOMAIN md, NEW m \in Brought, NEW block \in Blocks, set_metadata(b, m, block)
      PROVE  StoreInv' /\ KeepsPublished
  <2>1. md' = Attached(b, [m EXCEPT !.cal = Len(cals) + 1]) /\ cals' = Append(cals, block) /\ builder' = builder
    BY <1>9, Zenon DEF set_metadata
  <2>2. Len(cals') = Len(cals) + 1 /\ cals' \in Seq(Blocks) /\ Len(cals) <= Len(cals) + 1 /\ Len(cals) + 1 \in Nat
        /\ \A k \in 1..Len(cals) : cals'[k] = cals[k]
    BY <1>0, <2>1
  <2>3. Names([m EXCEPT !.cal = Len(cals) + 1], Len(cals) + 1)
    BY <1>0 DEF Names, Brought
  <2>. QED
    BY <1>9, <2>1, <2>2, <2>3, AttachKeeps, Zenon
<1>. QED
  BY <1>1, <1>2, <1>3, <1>4, <1>5, <1>6, <1>7, <1>8, <1>9, Zenon DEF StoreNext, Edit, Blocks

\* Whatever the plugins do with their builders, metadata that a buffer carries and the calibration
\* block it shares stay as they were published (MetadataBuilder::set_cfa, freeze).
THEOREM PublishedIsImmutable == StoreSpec => PublishedMetadataIsImmutable
<1>1. StoreInit => StoreInv
  BY DEF StoreInit, StoreInv, Names, Default, Blocks
<1>2. StoreInv /\ [StoreNext]_meta => StoreInv'
  <2>1. CASE UNCHANGED meta
    BY <2>1, Zenon DEF meta, StoreInv
  <2>. QED
    BY <2>1, StoreStep, Zenon
<1>3. StoreInv /\ [StoreNext]_meta => [KeepsPublished]_meta
  BY StoreStep, Zenon
<1>. QED
  BY <1>1, <1>2, <1>3, PTL DEF StoreSpec, PublishedMetadataIsImmutable

---------------------------------------------------------------------------
\* Erased is a recursive definition, so there has to be a function that satisfies it.
IsKept(g, steps, x, n) ==
    g = [k \in 0..n |-> IF k = 0 THEN <<>> ELSE IF steps[k] = x THEN g[k - 1] ELSE Append(g[k - 1], steps[k])]

\* Every set of numbers has a least one.
LEMMA Least == ASSUME NEW T, T \subseteq Nat, T # {} PROVE \E n \in T : \A k \in T : n <= k
<1>1. PICK n \in T : \A k \in T : ~(<<k, n>> \in OpToRel(<, Nat))
  BY NatLessThanWellFounded, WFMin, Zenon
<1>2. \A k \in T : ~(k < n)
  BY <1>1, Zenon DEF OpToRel
<1>. QED
  BY <1>2

LEMMA KeptExists == ASSUME NEW steps, NEW x PROVE \A n \in Nat : \E g : IsKept(g, steps, x, n)
<1> DEFINE T == {n \in Nat : ~ \E g : IsKept(g, steps, x, n)}
<1>1. SUFFICES ASSUME T # {} PROVE FALSE
  BY Zenon
<1>2. PICK n \in T : \A k \in T : n <= k
  <2>1. T \subseteq Nat
    BY Zenon
  <2> HIDE DEF T
  <2>. QED
    BY <1>1, <2>1, Least, Zenon
<1>3. CASE n = 0
  <2>1. IsKept([k \in 0..0 |-> <<>>], steps, x, 0)
    BY DEF IsKept
  <2>. QED
    BY <1>3, <2>1, Zenon
<1>4. CASE n # 0
  <2>1. n - 1 \in Nat /\ n \in Nat /\ ~(n <= n - 1)
    BY <1>4
  <2>2. PICK g : IsKept(g, steps, x, n - 1)
    BY <1>2, <2>1, Zenon
  <2> DEFINE h == [k \in 0..n |-> IF k = 0 THEN <<>> ELSE IF steps[k] = x THEN g[k - 1] ELSE Append(g[k - 1], steps[k])]
  <2>3. ASSUME NEW k \in 0..(n - 1) PROVE h[k] = g[k]
    <3>1. g[k] = IF k = 0 THEN <<>> ELSE IF steps[k] = x THEN g[k - 1] ELSE Append(g[k - 1], steps[k])
      BY <2>2, Zenon DEF IsKept
    <3>2. k \in 0..n
      BY <2>1
    <3>. QED
      BY <3>1, <3>2, Zenon
  <2>4. \A k \in 0..n : k # 0 => k - 1 \in 0..(n - 1)
    BY <2>1
  <2>5. \A k \in 0..n : h[k] = IF k = 0 THEN <<>> ELSE IF steps[k] = x THEN h[k - 1] ELSE Append(h[k - 1], steps[k])
    BY <2>3, <2>4, Zenon
  <2>6. IsKept(h, steps, x, n)
    BY <2>5, Zenon DEF IsKept
  <2>. QED
    BY <2>6, Zenon
<1>. QED
  BY <1>3, <1>4, Zenon

\* How many of the first k elements are not x: none of none, and one more when the next is not.
LEMMA RankIs ==
    ASSUME NEW q, NEW x, NEW n \in Nat \ {0}
    PROVE  /\ Abstract!Rank(q, x, n - 1) \in Nat /\ Abstract!Rank(q, x, 0) = 0
           /\ Abstract!Rank(q, x, n) = IF q[n] = x THEN Abstract!Rank(q, x, n - 1) ELSE Abstract!Rank(q, x, n - 1) + 1
<1> DEFINE Others(k) == {j \in 1..k : q[j] # x}
<1>1. n - 1 \in Nat /\ 1..0 = {} /\ n \notin 1..(n - 1) /\ \A j : j \in 1..n <=> j \in 1..(n - 1) \/ j = n
  OBVIOUS
<1>2. IsFiniteSet(Others(n - 1)) /\ Cardinality(Others(n - 1)) \in Nat
  <2>1. IsFiniteSet(1..(n - 1))
    BY <1>1, FS_Interval
  <2>2. Others(n - 1) \subseteq 1..(n - 1)
    BY Zenon
  <2>3. IsFiniteSet(Others(n - 1))
    BY <2>1, <2>2, FS_Subset, Zenon
  <2>. QED
    BY <2>3, FS_CardinalityType, Zenon
<1>3. Cardinality(Others(0)) = 0
  BY <1>1, FS_EmptySet
<1>4. n \notin Others(n - 1)
  BY <1>1, Zenon
<1>5. q[n] = x => Others(n) = Others(n - 1)
  BY <1>1, Zenon
<1>6. q[n] # x => Others(n) = Others(n - 1) \cup {n}
  BY <1>1, Zenon
<1>7. q[n] # x => Cardinality(Others(n)) = Cardinality(Others(n - 1)) + 1
  <2>1. Cardinality(Others(n - 1) \cup {n}) = Cardinality(Others(n - 1)) + 1
    <3> HIDE DEF Others
    <3>. QED
      BY <1>2, <1>4, FS_AddElement
  <2>. QED
    BY <1>6, <2>1, Zenon
<1>8. \A k : Abstract!Rank(q, x, k) = Cardinality(Others(k))
  BY Zenon DEF Abstract!Rank, Abstract!Cardinality, Cardinality
<1> HIDE DEF Others
<1>9. CASE q[n] = x
  BY <1>2, <1>3, <1>5, <1>8, <1>9, Zenon
<1>10. CASE q[n] # x
  BY <1>2, <1>3, <1>7, <1>8, <1>10, Zenon
<1>. QED
  BY <1>9, <1>10, Zenon

\* Erasing a step leaves the other steps, in their order.
LEMMA ErasedIs ==
    ASSUME NEW steps \in Seq(Values), NEW x
    PROVE  Erased(steps, x) \in Seq(Values) /\ Abstract!IsWithout(Erased(steps, x), steps, x)
<1> DEFINE R(k) == Abstract!Rank(steps, x, k)
<1>1. PICK g : IsKept(g, steps, x, Len(steps)) /\ Erased(steps, x) = g[Len(steps)]
  <2>1. Erased(steps, x) = (CHOOSE g : IsKept(g, steps, x, Len(steps)))[Len(steps)]
    BY Zenon DEF Erased, IsKept
  <2>2. Len(steps) \in Nat
    OBVIOUS
  <2>. QED
    BY <2>1, <2>2, KeptExists, Zenon
<1>2. \A k \in 0..Len(steps) : g[k] = IF k = 0 THEN <<>> ELSE IF steps[k] = x THEN g[k - 1] ELSE Append(g[k - 1], steps[k])
  BY <1>1, Zenon DEF IsKept
<1> DEFINE Good(k) ==
             /\ g[k] \in Seq(Values) /\ Len(g[k]) = R(k)
             /\ \A j \in 1..k : steps[j] # x => R(j) \in 1..R(k) /\ g[k][R(j)] = steps[j]
           T == {k \in 0..Len(steps) : ~Good(k)}
<1>3. T = {}
  <2> SUFFICES ASSUME T # {} PROVE FALSE
    BY Zenon
  <2>1. PICK n \in T : \A k \in T : n <= k
    <3>1. T \subseteq Nat
      BY Zenon, SMT
    <3> HIDE DEF T
    <3>. QED
      BY <3>1, Least, Zenon
  <2>2. n \in 0..Len(steps) /\ Len(steps) \in Nat /\ n \in Nat
    <3>1. n \in 0..Len(steps)
      BY Zenon
    <3>. QED
      BY <3>1
  <2>3. CASE n = 0
    <3>1. g[0] = <<>>
      BY <1>2, <2>2
    <3>2. R(0) = 0
      <4>1. 1 \in Nat \ {0}
        OBVIOUS
      <4>. QED
        BY <4>1, RankIs, Zenon
    <3> HIDE DEF R
    <3>3. Good(0)
      BY <3>1, <3>2
    <3>. QED
      BY <2>3, <3>3, Zenon
  <2>4. CASE n # 0
    <3>0. n \in Nat \ {0}
      BY <2>2, <2>4
    <3>1. n - 1 \in 0..Len(steps) /\ ~(n <= n - 1) /\ n \in 1..Len(steps)
      BY <2>2, <2>4
    <3>2. Good(n - 1)
      BY <2>1, <3>1, Zenon
    <3>3. PICK before : before = g[n - 1]
      BY Zenon
    <3>4. PICK rank : rank = R(n - 1)
      BY Zenon
    <3>5. g[n] = IF steps[n] = x THEN before ELSE Append(before, steps[n])
      BY <1>2, <2>2, <2>4, <3>3, Zenon
    <3>6. rank \in Nat /\ R(n) = IF steps[n] = x THEN rank ELSE rank + 1
      BY <3>0, <3>4, RankIs, Zenon
    <3>7. /\ before \in Seq(Values) /\ Len(before) = rank
          /\ \A j \in 1..(n - 1) : steps[j] # x => R(j) \in 1..rank /\ before[R(j)] = steps[j]
      BY <3>2, <3>3, <3>4, Zenon
    <3>8. steps[n] \in Values
      BY <3>1
    <3>9. \A j \in 1..n : j \in 1..(n - 1) \/ j = n
      BY <3>0
    <3> HIDE DEF R
    <3>10. CASE steps[n] = x
      <4>1. g[n] = before /\ R(n) = rank
        BY <3>5, <3>6, <3>10, Zenon
      <4>. QED
        BY <3>7, <3>9, <3>10, <4>1, Zenon
    <3>11. CASE steps[n] # x
      <4>1. g[n] = Append(before, steps[n]) /\ R(n) = rank + 1
        BY <3>5, <3>6, <3>11, Zenon
      <4>2. /\ Append(before, steps[n]) \in Seq(Values) /\ Len(Append(before, steps[n])) = rank + 1
            /\ \A j \in 1..rank : Append(before, steps[n])[j] = before[j] /\ j \in 1..(rank + 1)
            /\ Append(before, steps[n])[rank + 1] = steps[n] /\ rank + 1 \in 1..(rank + 1)
        BY <3>6, <3>7, <3>8
      <4>3. \A j \in 1..n : steps[j] # x => R(j) \in 1..R(n) /\ g[n][R(j)] = steps[j]
        BY <3>7, <3>9, <4>1, <4>2, Zenon
      <4>. QED
        BY <4>1, <4>2, <4>3, Zenon
    <3>. QED
      BY <3>10, <3>11, Zenon
  <2>. QED
    BY <2>3, <2>4, Zenon
<1>4. Len(steps) \in 0..Len(steps) /\ DOMAIN steps = 1..Len(steps)
  OBVIOUS
<1>5. Good(Len(steps))
  BY <1>3, <1>4, Zenon
<1>6. DOMAIN g[Len(steps)] = 1..R(Len(steps))
  <2> HIDE DEF R
  <2>. QED
    BY <1>5
<1>. QED
  BY <1>1, <1>4, <1>5, <1>6, Zenon DEF Abstract!IsWithout

---------------------------------------------------------------------------
\* Metadata records with contents of the right kinds.
Content == Values \cup {Nothing}
Typed(m) ==
    /\ DOMAIN m = {"cal", "plain", "steps", "native", "ext"}
    /\ m = [cal |-> m.cal, plain |-> m.plain, steps |-> m.steps, native |-> m.native, ext |-> m.ext]
    /\ m.plain \in [Fields -> Content] /\ m.steps \in Seq(Values)
    /\ m.native \in [Reserved -> Content] /\ m.ext \in [Keys -> Content]
TypedInv == Typed(builder) /\ \A b \in DOMAIN md : Typed(md[b])

\* What is seen of a record over blocks cs.
CalSeen(cs, c) == IF c = 0 THEN {} ELSE {cs[c]}
FixedIn(m) == {k \in Reserved : m.native[k] # Nothing}
BlobsIn(m) == [k \in Keys |-> get_blob(m, k)]
KeysIn(m) == list_blob_keys(m)
SeenIn(cs, m) ==
    [cal |-> CalSeen(cs, m.cal), plain |-> m.plain, steps |-> m.steps, blobs |-> BlobsIn(m), keys |-> KeysIn(m),
     fixed |-> FixedIn(m)]

LEMMA SeenIs == \A m : Seen(m) = SeenIn(cals, m)
  BY Zenon DEF Seen, SeenIn, CalSeen, FixedIn, BlobsIn, KeysIn, list_applied_steps

\* The plain fields.
LEMMA PlainSeen ==
    ASSUME NEW cs, NEW m, Typed(m), NEW f \in Fields, NEW x \in Values
    PROVE  /\ Typed([m EXCEPT !.plain[f] = x])
           /\ SeenIn(cs, [m EXCEPT !.plain[f] = x]) = [SeenIn(cs, m) EXCEPT !.plain[f] = x]
<1> DEFINE e == [m EXCEPT !.plain[f] = x]
<1>1. /\ e.cal = m.cal /\ e.plain = [m.plain EXCEPT ![f] = x] /\ e.steps = m.steps /\ e.native = m.native /\ e.ext = m.ext
      /\ e = [cal |-> e.cal, plain |-> e.plain, steps |-> e.steps, native |-> e.native, ext |-> e.ext]
      /\ DOMAIN e = {"cal", "plain", "steps", "native", "ext"}
  BY DEF Typed
<1>2. [m.plain EXCEPT ![f] = x] \in [Fields -> Content]
  BY Zenon DEF Typed, Content
<1> HIDE DEF e
<1>3. Typed(e)
  BY <1>1, <1>2, Zenon DEF Typed
<1>4. FixedIn(e) = FixedIn(m) /\ BlobsIn(e) = BlobsIn(m) /\ KeysIn(e) = KeysIn(m)
  BY <1>1, Zenon DEF FixedIn, BlobsIn, KeysIn, get_blob, list_blob_keys
<1>5. SeenIn(cs, e) = [SeenIn(cs, m) EXCEPT !.plain[f] = x]
  BY <1>1, <1>4 DEF SeenIn
<1>. QED
  BY <1>3, <1>5, Zenon DEF e

\* The steps, of a record or of what is seen of it.
WithSteps(m, steps) == [m EXCEPT !.steps = steps]
LEMMA StepsSeen ==
    ASSUME NEW cs, NEW m, Typed(m), NEW q \in Seq(Values)
    PROVE  Typed(WithSteps(m, q)) /\ SeenIn(cs, WithSteps(m, q)) = WithSteps(SeenIn(cs, m), q)
<1> DEFINE e == WithSteps(m, q)
<1>1. /\ e.cal = m.cal /\ e.plain = m.plain /\ e.steps = q /\ e.native = m.native /\ e.ext = m.ext
      /\ e = [cal |-> e.cal, plain |-> e.plain, steps |-> e.steps, native |-> e.native, ext |-> e.ext]
      /\ DOMAIN e = {"cal", "plain", "steps", "native", "ext"}
  BY DEF Typed, WithSteps
<1> HIDE DEF e
<1>2. Typed(e)
  BY <1>1, Zenon DEF Typed
<1>3. FixedIn(e) = FixedIn(m) /\ BlobsIn(e) = BlobsIn(m) /\ KeysIn(e) = KeysIn(m)
  BY <1>1, Zenon DEF FixedIn, BlobsIn, KeysIn, get_blob, list_blob_keys
<1>4. SeenIn(cs, e) = WithSteps(SeenIn(cs, m), q)
  BY <1>1, <1>3 DEF SeenIn, WithSteps
<1>. QED
  BY <1>2, <1>4, Zenon DEF e

\* The calibration block.
LEMMA CalibrationSeen ==
    ASSUME NEW cs, NEW m, Typed(m), NEW c \in Nat
    PROVE  /\ Typed(WithCalibration(m, c))
           /\ SeenIn(cs, WithCalibration(m, c)) = [SeenIn(cs, m) EXCEPT !.cal = CalSeen(cs, c)]
<1> DEFINE e == WithCalibration(m, c)
<1>1. /\ e.cal = c /\ e.plain = m.plain /\ e.steps = m.steps /\ e.native = m.native /\ e.ext = m.ext
      /\ e = [cal |-> e.cal, plain |-> e.plain, steps |-> e.steps, native |-> e.native, ext |-> e.ext]
      /\ DOMAIN e = {"cal", "plain", "steps", "native", "ext"}
  BY DEF Typed, WithCalibration
<1> HIDE DEF e
<1>2. Typed(e)
  BY <1>1, Zenon DEF Typed
<1>3. FixedIn(e) = FixedIn(m) /\ BlobsIn(e) = BlobsIn(m) /\ KeysIn(e) = KeysIn(m)
  BY <1>1, Zenon DEF FixedIn, BlobsIn, KeysIn, get_blob, list_blob_keys
<1>4. SeenIn(cs, e) = [SeenIn(cs, m) EXCEPT !.cal = CalSeen(cs, c)]
  BY <1>1, <1>3 DEF SeenIn
<1>. QED
  BY <1>2, <1>4, Zenon DEF e

\* A blob under a key that the host keeps changes how often the key is listed; under any other key
\* it is the blob that is seen.
Listed(d, key, n) == [d EXCEPT !.keys[key] = n]
Replaced(d, key, x, n) == [d EXCEPT !.blobs[key] = x, !.keys[key] = n]
LEMMA BlobSeen ==
    ASSUME NEW cs, NEW m, Typed(m), NEW key \in Keys, NEW x \in Content
    PROVE  /\ Typed(WithBlob(m, key, x))
           /\ key \in FixedIn(m) =>
                SeenIn(cs, WithBlob(m, key, x)) = Listed(SeenIn(cs, m), key, IF x = Nothing THEN 1 ELSE 2)
           /\ key \notin FixedIn(m) =>
                SeenIn(cs, WithBlob(m, key, x)) = Replaced(SeenIn(cs, m), key, x, IF x = Nothing THEN 0 ELSE 1)
<1> DEFINE e == WithBlob(m, key, x)
<1>1. /\ e.cal = m.cal /\ e.plain = m.plain /\ e.steps = m.steps /\ e.native = m.native /\ e.ext = [m.ext EXCEPT ![key] = x]
      /\ e = [cal |-> e.cal, plain |-> e.plain, steps |-> e.steps, native |-> e.native, ext |-> e.ext]
      /\ DOMAIN e = {"cal", "plain", "steps", "native", "ext"}
  BY DEF Typed, WithBlob
<1>2. [m.ext EXCEPT ![key] = x] \in [Keys -> Content]
  BY Zenon DEF Typed
<1> HIDE DEF e
<1>3. Typed(e)
  BY <1>1, <1>2, Zenon DEF Typed
<1>4. FixedIn(e) = FixedIn(m)
  BY <1>1, Zenon DEF FixedIn
<1>5. \A k \in Keys : get_blob(e, k) = IF k = key /\ key \notin FixedIn(m) THEN x ELSE get_blob(m, k)
  BY <1>1, Zenon DEF get_blob, FixedIn, Typed
<1>6. e.ext[key] = x /\ \A k \in Keys : k # key => e.ext[k] = m.ext[k]
  BY <1>1, Zenon DEF Typed
<1>7. PICK n : n = (IF key \in FixedIn(m) THEN 1 ELSE 0) + (IF x = Nothing THEN 0 ELSE 1)
  BY Zenon
<1>8. KeysIn(e) = [KeysIn(m) EXCEPT ![key] = n]
  <2>1. KeysIn(e)[key] = n
    BY <1>1, <1>6, <1>7 DEF KeysIn, list_blob_keys, FixedIn
  <2>2. \A k \in Keys : k # key => KeysIn(e)[k] = KeysIn(m)[k]
    BY <1>1, <1>6, Zenon DEF KeysIn, list_blob_keys
  <2>3. DOMAIN KeysIn(e) = Keys /\ DOMAIN KeysIn(m) = Keys
    BY Zenon DEF KeysIn, list_blob_keys
  <2>4. KeysIn(e) = [k \in Keys |-> KeysIn(e)[k]]
    BY Zenon DEF KeysIn, list_blob_keys
  <2> HIDE DEF KeysIn
  <2>. QED
    BY <2>1, <2>2, <2>3, <2>4, Zenon
<1>9. CASE key \in FixedIn(m)
  <2>1. BlobsIn(e) = BlobsIn(m)
    BY <1>5, <1>9, Zenon DEF BlobsIn
  <2>2. n = IF x = Nothing THEN 1 ELSE 2
    BY <1>7, <1>9
  <2>3. SeenIn(cs, e) = Listed(SeenIn(cs, m), key, n)
    BY <1>1, <1>4, <1>8, <2>1 DEF SeenIn, Listed
  <2>. QED
    BY <1>3, <1>9, <2>2, <2>3, Zenon DEF e
<1>10. CASE key \notin FixedIn(m)
  <2>1. BlobsIn(e) = [BlobsIn(m) EXCEPT ![key] = x]
    BY <1>5, <1>10, Zenon DEF BlobsIn
  <2>2. n = IF x = Nothing THEN 0 ELSE 1
    BY <1>7, <1>10
  <2>3. Replaced(SeenIn(cs, m), key, x, n)
          = [cal |-> CalSeen(cs, m.cal), plain |-> m.plain, steps |-> m.steps, blobs |-> [BlobsIn(m) EXCEPT ![key] = x],
             keys |-> [KeysIn(m) EXCEPT ![key] = n], fixed |-> FixedIn(m)]
    <3> DEFINE d == SeenIn(cs, m)
               f == [d EXCEPT !.blobs[key] = x]
    <3>1. d = [cal |-> CalSeen(cs, m.cal), plain |-> m.plain, steps |-> m.steps, blobs |-> BlobsIn(m), keys |-> KeysIn(m),
               fixed |-> FixedIn(m)]
      BY DEF SeenIn
    <3>2. f = [cal |-> CalSeen(cs, m.cal), plain |-> m.plain, steps |-> m.steps, blobs |-> [BlobsIn(m) EXCEPT ![key] = x],
               keys |-> KeysIn(m), fixed |-> FixedIn(m)]
      BY <3>1
    <3>3. Replaced(d, key, x, n) = [f EXCEPT !.keys[key] = n]
      BY Zenon DEF Replaced
    <3> HIDE DEF d, f
    <3>4. [f EXCEPT !.keys[key] = n]
            = [cal |-> CalSeen(cs, m.cal), plain |-> m.plain, steps |-> m.steps, blobs |-> [BlobsIn(m) EXCEPT ![key] = x],
               keys |-> [KeysIn(m) EXCEPT ![key] = n], fixed |-> FixedIn(m)]
      BY <3>2
    <3>. QED
      BY <3>3, <3>4, Zenon DEF d
  <2>4. SeenIn(cs, e) = Replaced(SeenIn(cs, m), key, x, n)
    BY <1>1, <1>4, <1>8, <2>1, <2>3, Zenon DEF SeenIn
  <2>. QED
    BY <1>3, <1>10, <2>2, <2>4, Zenon DEF e
<1>. QED
  BY <1>9, <1>10, Zenon

\* The values that the buffers show.
Shown == [b \in DOMAIN md |-> Seen(md[b])]

\* What is published looks the same after every step.
LEMMA ShownKept ==
    ASSUME StoreInv, KeepsPublished, NEW b \in DOMAIN md
    PROVE  SeenIn(cals', md'[b]) = SeenIn(cals, md[b]) /\ Shown[b] = SeenIn(cals, md[b])
<1>1. md'[b] = md[b] /\ (md[b].cal # 0 => cals'[md[b].cal] = cals[md[b].cal])
  BY Zenon DEF KeepsPublished
<1>2. CalSeen(cals', md[b].cal) = CalSeen(cals, md[b].cal)
  BY <1>1, Zenon DEF CalSeen
<1>3. SeenIn(cals', md[b]) = SeenIn(cals, md[b])
  BY <1>2, Zenon DEF SeenIn
<1>. QED
  BY <1>1, <1>3, SeenIs, Zenon DEF Shown

\* An edit of the abstract draft.
DraftStep(d, e) ==
    \/ \E f \in Fields, x \in Values : e = [d EXCEPT !.plain[f] = x]
    \/ \E x \in Values : e = WithSteps(d, Append(d.steps, x))
    \/ \E x \in Values : Abstract!IsWithout(e.steps, d.steps, x) /\ e = WithSteps(d, e.steps)
    \/ \E k \in Keys \ d.fixed, x \in Values : e = Replaced(d, k, x, 1)
    \/ \E k \in Keys \ d.fixed : e = Replaced(d, k, Nothing, 0)
    \/ \E k \in d.fixed, n \in 1..2 : e = Listed(d, k, n)
    \/ \E c \in Content : e = [d EXCEPT !.cal = Abstract!WithCfa(d.cal, c)]
    \/ \E b \in DOMAIN md : e = [d EXCEPT !.cal = Shown[b].cal]
    \/ e = [d EXCEPT !.cal = {}]

LEMMA DraftEdited ==
    ASSUME StoreInv, KeepsPublished, DOMAIN md' = DOMAIN md,
           LET d == SeenIn(cals, builder) e == SeenIn(cals', builder') IN DraftStep(d, e) \/ e = d
    PROVE  [Abstract!Next]_(Abstract!vars)
<1> DEFINE d == SeenIn(cals, builder)
           e == SeenIn(cals', builder')
<1>1. d = Seen(builder) /\ e = Seen(builder)'
  BY SeenIs, Zenon DEF Seen, SeenIn, CalSeen, FixedIn, BlobsIn, KeysIn, list_applied_steps
<1>2. Shown' = Shown
  <2>1. ASSUME NEW b \in DOMAIN md PROVE Seen(md[b])' = Seen(md[b])
    <3>1. Seen(md[b])' = SeenIn(cals', md'[b])
      BY Zenon DEF Seen, SeenIn, CalSeen, FixedIn, BlobsIn, KeysIn, list_applied_steps
    <3>. QED
      BY <3>1, ShownKept, SeenIs, Zenon
  <2>. QED
    BY <2>1, Zenon DEF Shown
<1> HIDE DEF d, e
<1>3. CASE e = d
  BY <1>1, <1>2, <1>3, Zenon DEF Abstract!vars, Shown
<1>4. CASE DraftStep(d, e)
  <2>1. Abstract!Edit
    <3>1. ASSUME NEW f \in Fields, NEW x \in Values, e = [d EXCEPT !.plain[f] = x] PROVE Abstract!Edit
      <4>1. \E g \in Fields, y \in Values : Seen(builder)' = [Seen(builder) EXCEPT !.plain[g] = y]
        BY <1>1, <3>1, Zenon
      <4>. QED
        BY <4>1, Zenon DEF Abstract!Edit
    <3>2. ASSUME NEW x \in Values, e = WithSteps(d, Append(d.steps, x)) PROVE Abstract!Edit
      BY <1>1, <3>2, Zenon DEF Abstract!Edit, WithSteps
    <3>3. ASSUME NEW x \in Values, Abstract!IsWithout(e.steps, d.steps, x), e = WithSteps(d, e.steps) PROVE Abstract!Edit
      BY <1>1, <3>3, Zenon DEF Abstract!Edit, WithSteps
    <3>4. ASSUME NEW k \in Keys \ d.fixed, NEW x \in Values, e = Replaced(d, k, x, 1) PROVE Abstract!Edit
      <4>0. k \in Keys \ Seen(builder).fixed /\ Seen(builder)' = Replaced(Seen(builder), k, x, 1)
        BY <1>1, <3>4, Zenon
      <4>1. \E l \in Keys \ Seen(builder).fixed, y \in Values :
                Seen(builder)' = [Seen(builder) EXCEPT !.blobs[l] = y, !.keys[l] = 1]
        BY <4>0, Zenon DEF Replaced
      <4>. QED
        BY <4>1, Zenon DEF Abstract!Edit
    <3>5. ASSUME NEW k \in Keys \ d.fixed, e = Replaced(d, k, Nothing, 0) PROVE Abstract!Edit
      BY <1>1, <3>5, Zenon DEF Abstract!Edit, Replaced
    <3>6. ASSUME NEW k \in d.fixed, NEW n \in 1..2, e = Listed(d, k, n) PROVE Abstract!Edit
      <4>1. \E l \in Seen(builder).fixed, listed \in 1..2 : Seen(builder)' = [Seen(builder) EXCEPT !.keys[l] = listed]
        BY <1>1, <3>6, Zenon DEF Listed
      <4>. QED
        BY <4>1, Zenon DEF Abstract!Edit
    <3>7. ASSUME NEW c \in Content, e = [d EXCEPT !.cal = Abstract!WithCfa(d.cal, c)] PROVE Abstract!Edit
      BY <1>1, <3>7, Zenon DEF Abstract!Edit, Content
    <3>8. ASSUME NEW b \in DOMAIN md, e = [d EXCEPT !.cal = Shown[b].cal] PROVE Abstract!Edit
      BY <1>1, <3>8, Zenon DEF Abstract!Edit, Shown
    <3>9. ASSUME e = [d EXCEPT !.cal = {}] PROVE Abstract!Edit
      BY <1>1, <3>9, Zenon DEF Abstract!Edit
    <3>. QED
      BY <1>4, <3>1, <3>2, <3>3, <3>4, <3>5, <3>6, <3>7, <3>8, <3>9, Zenon DEF DraftStep
  <2>. QED
    BY <1>2, <2>1, Zenon DEF Abstract!Next, Shown
<1>. QED
  BY <1>3, <1>4, Zenon DEF d, e

\* An edit through the builder suite is an edit of the draft, or does not show.
LEMMA EditRefines ==
    ASSUME StoreInv, TypedInv, Edit
    PROVE  /\ Typed(builder') /\ md' = md
           /\ LET d == SeenIn(cals, builder) e == SeenIn(cals', builder') IN DraftStep(d, e) \/ e = d
<1> DEFINE d == SeenIn(cals, builder)
           e == SeenIn(cals', builder')
           Goal == Typed(builder') /\ md' = md /\ (DraftStep(d, e) \/ e = d)
<1>0. Typed(builder) /\ builder.cal \in Nat /\ Len(cals) \in Nat /\ builder.cal <= Len(cals)
  BY DEF TypedInv, StoreInv, Names
<1>1. ASSUME NEW f \in Fields, NEW x \in Values, Edited([builder EXCEPT !.plain[f] = x]) PROVE Goal
  <2>1. builder' = [builder EXCEPT !.plain[f] = x] /\ cals' = cals /\ md' = md
    BY <1>1, Zenon DEF Edited
  <2>2. e = [d EXCEPT !.plain[f] = x] /\ Typed(builder')
    <3>1. /\ Typed([builder EXCEPT !.plain[f] = x])
          /\ SeenIn(cals, [builder EXCEPT !.plain[f] = x]) = [SeenIn(cals, builder) EXCEPT !.plain[f] = x]
      BY <1>0, PlainSeen, SMTT(30)
    <3>. QED
      BY <2>1, <3>1, Zenon
  <2>. QED
    BY <2>1, <2>2, Zenon DEF DraftStep
<1>2. ASSUME NEW x \in Values, set_as_shot_neutral(x) \/ set_orientation(x) \/ set_cs_role(x) \/ set_active_area(x) PROVE Goal
  <2>1. PICK f \in Fields : Edited([builder EXCEPT !.plain[f] = x])
    BY <1>2, Zenon DEF Fields, set_as_shot_neutral, set_orientation, set_cs_role, set_active_area,
       WithAsShotNeutral, WithOrientation, WithRole, WithActiveArea
  <2>. QED
    BY <1>1, <2>1, Zenon
<1>3. ASSUME NEW x \in Values \cup {BadScheme}, set_tensor_quant(x) PROVE Goal
  <2>1. CASE x = BadScheme
    BY <1>0, <1>3, <2>1, Zenon DEF set_tensor_quant, Edited
  <2>2. CASE x # BadScheme
    BY <1>1, <1>3, <2>2, Zenon DEF set_tensor_quant, WithTensorQuant, Fields
  <2>. QED
    BY <2>1, <2>2, Zenon
<1>4. ASSUME NEW x \in Values, add_applied_step(x) PROVE Goal
  <2> DEFINE q == Append(builder.steps, x)
  <2>1. builder.steps \in Seq(Values) /\ d.steps = builder.steps
    BY <1>0, Zenon DEF Typed, SeenIn
  <2>2. q \in Seq(Values)
    BY <2>1
  <2>3. builder' = WithSteps(builder, q) /\ md' = md /\ cals' = cals
    BY <1>4, Zenon DEF add_applied_step, WithStep, WithSteps, Edited
  <2>4. Typed(WithSteps(builder, q)) /\ SeenIn(cals, WithSteps(builder, q)) = WithSteps(SeenIn(cals, builder), q)
    <3> HIDE DEF q
    <3>. QED
      BY <1>0, <2>2, StepsSeen, Zenon
  <2>5. e = WithSteps(d, Append(d.steps, x)) /\ Typed(builder')
    BY <2>1, <2>3, <2>4, Zenon
  <2> HIDE DEF d, e
  <2>. QED
    BY <2>3, <2>5, Zenon DEF DraftStep
<1>5. ASSUME NEW x \in Values, remove_applied_step(x) PROVE Goal
  <2> DEFINE q == Erased(builder.steps, x)
  <2>1. builder.steps \in Seq(Values) /\ d.steps = builder.steps
    BY <1>0, Zenon DEF Typed, SeenIn
  <2>2. q \in Seq(Values) /\ Abstract!IsWithout(q, builder.steps, x)
    BY <2>1, ErasedIs, Zenon
  <2>3. builder' = WithSteps(builder, q) /\ md' = md /\ cals' = cals
    BY <1>5, Zenon DEF remove_applied_step, WithoutStep, WithSteps, Edited
  <2> HIDE DEF q
  <2>4. Typed(WithSteps(builder, q)) /\ SeenIn(cals, WithSteps(builder, q)) = WithSteps(SeenIn(cals, builder), q)
    BY <1>0, <2>2, StepsSeen, Zenon
  <2>5. e = WithSteps(d, q) /\ Typed(builder')
    BY <2>3, <2>4, Zenon
  <2>6. e.steps = q
    BY <2>5, Zenon DEF WithSteps, SeenIn
  <2> HIDE DEF d, e
  <2>. QED
    BY <2>1, <2>2, <2>3, <2>5, <2>6, Zenon DEF DraftStep
<1>6. ASSUME NEW k \in Keys, NEW x \in Values \cup {Nothing}, set_blob(k, x) PROVE Goal
  <2>0. x \in Content
    BY Zenon DEF Content
  <2>1. builder' = WithBlob(builder, k, x) /\ md' = md /\ cals' = cals /\ d.fixed = FixedIn(builder)
    BY <1>6, Zenon DEF set_blob, Edited, SeenIn
  <2>2. /\ Typed(builder') /\ (k \in FixedIn(builder) => e = Listed(d, k, IF x = Nothing THEN 1 ELSE 2))
        /\ (k \notin FixedIn(builder) => e = Replaced(d, k, x, IF x = Nothing THEN 0 ELSE 1))
    BY <1>0, <2>0, <2>1, BlobSeen, Zenon
  <2>3. 1 \in 1..2 /\ 2 \in 1..2
    OBVIOUS
  <2>4. x = Nothing \/ x \in Values
    BY Zenon
  <2> HIDE DEF d, e
  <2>. QED
    BY <2>1, <2>2, <2>3, <2>4, Zenon DEF DraftStep
<1>7. ASSUME NEW c \in Content, set_cfa(c), c # Nothing \/ builder.cal # 0 PROVE Goal
  <2> DEFINE block == [get_calibration(builder) EXCEPT !.cfa = c]
  <2>1. cals' = Append(cals, block) /\ builder' = WithCalibration(builder, Len(cals) + 1) /\ md' = md
    BY <1>7, Zenon DEF set_cfa
  <2>2. cals'[Len(cals) + 1] = block /\ Len(cals) + 1 \in Nat /\ Len(cals) + 1 # 0
    BY <1>0, <2>1 DEF StoreInv
  <2>3. CalSeen(cals', Len(cals) + 1) = {block}
    BY <2>2, Zenon DEF CalSeen
  <2>4. SeenIn(cals', WithCalibration(builder, Len(cals) + 1)) = [SeenIn(cals', builder) EXCEPT !.cal = {block}] /\ Typed(builder')
    <3>1. /\ Typed(WithCalibration(builder, Len(cals) + 1))
          /\ SeenIn(cals', WithCalibration(builder, Len(cals) + 1))
                 = [SeenIn(cals', builder) EXCEPT !.cal = CalSeen(cals', Len(cals) + 1)]
      BY <1>0, <2>2, CalibrationSeen
    <3> HIDE DEF block
    <3>. QED
      BY <2>1, <2>3, <3>1, Zenon
  <2>5. [SeenIn(cals', builder) EXCEPT !.cal = {block}] = [d EXCEPT !.cal = {block}]
    BY DEF SeenIn
  <2>6. {block} = Abstract!WithCfa(d.cal, c)
    <3>1. CASE builder.cal = 0
      <4>1. d.cal = {} /\ get_calibration(builder) = EmptyBlock /\ EmptyBlock = Abstract!EmptyBlock
        BY <3>1, Zenon DEF SeenIn, CalSeen, get_calibration, EmptyBlock, Abstract!EmptyBlock
      <4>. QED
        BY <1>7, <3>1, <4>1, Zenon DEF Abstract!WithCfa
    <3>2. CASE builder.cal # 0
      <4>1. d.cal = {cals[builder.cal]} /\ get_calibration(builder) = cals[builder.cal]
        BY <3>2, Zenon DEF SeenIn, CalSeen, get_calibration
      <4>. QED
        BY <4>1, Zenon DEF Abstract!WithCfa
    <3>. QED
      BY <3>1, <3>2, Zenon
  <2> HIDE DEF block
  <2>. QED
    BY <2>1, <2>4, <2>5, <2>6, Zenon DEF DraftStep
<1>8. ASSUME clear_cfa PROVE Goal
  <2>1. CASE builder.cal = 0
    BY <1>0, <1>8, <2>1, Zenon DEF clear_cfa, meta
  <2>2. CASE builder.cal # 0
    BY <1>7, <1>8, <2>2, Zenon DEF clear_cfa, Content
  <2>. QED
    BY <2>1, <2>2, Zenon
<1>9. ASSUME clear_calibration PROVE Goal
  <2>1. builder' = WithCalibration(builder, 0) /\ md' = md /\ cals' = cals
    BY <1>9, Zenon DEF clear_calibration, Edited
  <2>2. e = [d EXCEPT !.cal = CalSeen(cals, 0)] /\ Typed(builder')
    BY <1>0, <2>1, CalibrationSeen, Zenon
  <2>. QED
    BY <2>1, <2>2, Zenon DEF DraftStep, CalSeen
<1>10. ASSUME NEW b \in DOMAIN md, share_calibration_from(b) PROVE Goal
  <2>1. builder' = WithCalibration(builder, md[b].cal) /\ md' = md /\ cals' = cals /\ md[b].cal \in Nat
    BY <1>10 DEF share_calibration_from, Edited, StoreInv, Names
  <2>2. e = [d EXCEPT !.cal = CalSeen(cals, md[b].cal)] /\ Typed(builder')
    BY <1>0, <2>1, CalibrationSeen, Zenon
  <2>3. Shown[b].cal = CalSeen(cals, md[b].cal)
    BY SeenIs, Zenon DEF Shown, SeenIn
  <2>. QED
    BY <2>1, <2>2, <2>3, Zenon DEF DraftStep
<1>11. ASSUME NEW x \in Values, set_cfa(x) PROVE Goal
  BY <1>7, <1>11, MetadataAssumption, Zenon DEF Content
<1> HIDE DEF Goal
<1>12. Goal
  BY <1>2, <1>3, <1>4, <1>5, <1>6, <1>8, <1>9, <1>10, <1>11, Zenon DEF Edit
<1>. QED
  BY <1>12, Zenon DEF Goal

\* The invariants say nothing of anything but the three variables.
LEMMA StoreStutters == ASSUME UNCHANGED meta PROVE [Abstract!Next]_(Abstract!vars) /\ (TypedInv => TypedInv')
<1>1. Shown' = Shown /\ Seen(builder)' = Seen(builder)
  BY DEF meta, Shown, Seen, get_blob, list_applied_steps, list_blob_keys
<1>. QED
  BY <1>1, Zenon DEF meta, Abstract!vars, Shown, TypedInv

\* A step of the store is a step of the values that it shows.
LEMMA StoreRefines ==
    ASSUME StoreInv, TypedInv, StoreNext
    PROVE  TypedInv' /\ [Abstract!Next]_(Abstract!vars)
<1>0. StoreInv' /\ KeepsPublished
  BY StoreStep, Zenon
<1>1. /\ Shown = [b \in DOMAIN md |-> SeenIn(cals, md[b])]
      /\ Shown' = [b \in DOMAIN md' |-> SeenIn(cals', md'[b])]
      /\ Seen(builder) = SeenIn(cals, builder) /\ Seen(builder)' = SeenIn(cals', builder')
  BY Zenon DEF Shown, Seen, SeenIn, CalSeen, FixedIn, BlobsIn, KeysIn, list_applied_steps
<1>2. /\ DOMAIN Shown = DOMAIN md /\ \A b \in DOMAIN md : Shown[b] = SeenIn(cals, md[b])
      /\ DOMAIN Shown' = DOMAIN md' /\ \A b \in DOMAIN md' : Shown'[b] = SeenIn(cals', md'[b])
  BY <1>1, Zenon
<1>3. \A b \in DOMAIN md : Shown'[b] = Shown[b] /\ b \in DOMAIN md'
  <2>. SUFFICES ASSUME NEW b \in DOMAIN md PROVE Shown'[b] = Shown[b] /\ b \in DOMAIN md'
    OBVIOUS
  <2>1. b \in DOMAIN md'
    BY <1>0, Zenon DEF KeepsPublished
  <2>2. SeenIn(cals', md'[b]) = SeenIn(cals, md[b])
    BY <1>0, ShownKept, Zenon
  <2>3. Shown'[b] = SeenIn(cals', md'[b]) /\ Shown[b] = SeenIn(cals, md[b])
    BY <1>2, <2>1, Zenon
  <2>. QED
    BY <2>1, <2>2, <2>3, Zenon
<1>4. CASE Edit
  <2>1. Typed(builder') /\ md' = md
    BY <1>4, EditRefines, Zenon
  <2>2. [Abstract!Next]_(Abstract!vars)
    BY <1>0, <1>4, <2>1, EditRefines, DraftEdited, Zenon
  <2>. QED
    BY <2>1, <2>2, Zenon DEF TypedInv
<1>5. ASSUME NEW b \in DOMAIN md, open_builder(b) PROVE TypedInv' /\ [Abstract!Next]_(Abstract!vars)
  <2>1. builder' = md[b] /\ md' = md /\ cals' = cals
    BY <1>5, Zenon DEF open_builder
  <2>2. Seen(builder)' = Shown[b] /\ Shown' = Shown
    BY <1>1, <1>2, <2>1, Zenon
  <2>3. Abstract!Next
    BY <1>2, <2>2, Zenon DEF Abstract!Next, Shown
  <2>. QED
    BY <2>1, <2>3, Zenon DEF TypedInv
<1>6. ASSUME NEW b \in Frames \ DOMAIN md, freeze_into(b) PROVE TypedInv' /\ [Abstract!Next]_(Abstract!vars)
  <2>1. md' = Attached(b, builder) /\ cals' = cals /\ builder' = builder
    BY <1>6, Zenon DEF freeze_into
  <2>2. DOMAIN md' = DOMAIN md \cup {b} /\ md'[b] = builder /\ \A c \in DOMAIN md : md'[c] = md[c]
    BY <1>6, <2>1, Zenon DEF Attached
  <2>3. Shown' = [c \in DOMAIN Shown \cup {b} |-> IF c = b THEN Seen(builder) ELSE Shown[c]]
    BY <1>1, <1>2, <1>3, <2>1, <2>2
  <2>4. Seen(builder)' = Seen(builder)
    BY <1>1, <2>1, Zenon
  <2>5. Abstract!Next
    BY <1>2, <1>6, <2>3, <2>4, Zenon DEF Abstract!Next, Abstract!With, Shown
  <2>. QED
    BY <2>1, <2>2, <2>5, Zenon DEF TypedInv
<1>7. ASSUME NEW b \in Frames \ DOMAIN md, NEW m \in Brought, NEW block \in Blocks, set_metadata(b, m, block)
      PROVE  TypedInv' /\ [Abstract!Next]_(Abstract!vars)
  <2> DEFINE own == [m EXCEPT !.cal = Len(cals) + 1]
  <2>1. md' = Attached(b, own) /\ cals' = Append(cals, block) /\ builder' = builder
    BY <1>7, Zenon DEF set_metadata
  <2>2. Typed(own)
    BY DEF Brought, Typed, Content
  <2> HIDE DEF own
  <2>3. DOMAIN md' = DOMAIN md \cup {b} /\ md'[b] = own /\ \A c \in DOMAIN md : md'[c] = md[c]
    BY <1>7, <2>1, Zenon DEF Attached
  <2>4. CalSeen(cals', builder.cal) = CalSeen(cals, builder.cal)
    <3>1. builder.cal \in Nat /\ builder.cal <= Len(cals) /\ Len(cals) \in Nat
      BY DEF StoreInv, Names
    <3>2. \A k \in 1..Len(cals) : cals'[k] = cals[k]
      BY <2>1 DEF StoreInv
    <3>3. PICK c : c = builder.cal
      BY Zenon
    <3>4. c # 0 => cals'[c] = cals[c]
      BY <3>1, <3>2, <3>3
    <3>. QED
      BY <3>3, <3>4, Zenon DEF CalSeen
  <2>5. Seen(builder)' = Seen(builder)
    BY <1>1, <2>1, <2>4, Zenon DEF SeenIn
  <2>6. Abstract!Next
    BY <1>2, <1>3, <1>7, <2>3, <2>5, Zenon DEF Abstract!Next, Shown
  <2>. QED
    BY <2>1, <2>2, <2>3, <2>6, Zenon DEF TypedInv
<1>. QED
  BY <1>4, <1>5, <1>6, <1>7, Zenon DEF StoreNext, Blocks

\* What plugins can find out about metadata, the list of steps and of blob keys included, are values that
\* nobody else changes and that change by one edit at a time (BufferMetadata.cpp, HostContext.cpp).
THEOREM StoreImplementsValues == StoreSpec => ImplementsValues
<1>1. StoreInit => StoreInv /\ TypedInv
  <2>1. ASSUME StoreInit PROVE StoreInv
    BY <2>1, SMTT(30) DEF StoreInit, StoreInv, Names, Default, Blocks
  <2>2. Typed(Default)
    BY DEF Typed, Default, Content
  <2>3. ASSUME StoreInit PROVE TypedInv
    BY <2>2, <2>3, Zenon DEF StoreInit, TypedInv
  <2>. QED
    BY <2>1, <2>3, Zenon
<1>2. StoreInv /\ TypedInv /\ [StoreNext]_meta => StoreInv' /\ TypedInv'
  <2>1. CASE UNCHANGED meta
    BY <2>1, Zenon DEF meta, StoreInv, TypedInv
  <2>. QED
    BY <2>1, StoreStep, StoreRefines, Zenon
<1>3. StoreInv /\ TypedInv /\ [StoreNext]_meta => [Abstract!Next]_(Abstract!vars)
  BY StoreRefines, StoreStutters, Zenon
<1>. QED
  BY <1>1, <1>2, <1>3, PTL DEF StoreSpec, ImplementsValues, Abstract!Spec
=============================================================================
