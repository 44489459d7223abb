-------------------------- MODULE SchedulerProofs --------------------------
(***************************************************************************)
(* Proofs about Scheduler for every number of nodes, workers and rows and  *)
(* every dependency relation: type correctness, the safety properties of a *)
(* run, the sequential chain, and that Scheduler implements                *)
(* SchedulerContract.                                                      *)
(***************************************************************************)
EXTENDS Scheduler, HalideExecutor, TLAPS

USE DEF Node, Row, Thread, MayProcess, CompareExchange, RowTasks, RowsJoined

(* Typing is inductive by itself. *)
LEMMA TypeStep == TypeOK /\ [Next]_vars => TypeOK'
  <1> SUFFICES ASSUME TypeOK, [Next]_vars PROVE TypeOK'
    OBVIOUS
  <1> USE SizesAssumption, ErrorsAssumption DEF TypeOK
  <1>1. CASE RunSerially
    BY <1>1 DEF RunSerially, input
  <1>2. CASE RejectBadIndex
    BY <1>2 DEF RejectBadIndex, input, Status
  <1>3. CASE RunTaskflow
    BY <1>3 DEF RunTaskflow, input
  <1>4. ASSUME NEW i \in Node, StartSerial(i)
         PROVE  TypeOK'
    BY <1>4 DEF StartSerial, input
  <1>5. ASSUME NEW i \in Node, FinishSerial(i)
         PROVE  TypeOK'
    BY <1>5 DEF FinishSerial, input
  <1>6. ASSUME NEW i \in Node, FailSerial(i)
         PROVE  TypeOK'
    BY <1>6 DEF FailSerial, input
  <1>7. CASE ReturnSerial
    BY <1>7 DEF ReturnSerial, input, Status
  <1>8. CASE ReturnParallel
    BY <1>8 DEF ReturnParallel, input
  <1>9. ASSUME NEW w \in Workers, NEW i \in Node, StartTask(w, i)
         PROVE  TypeOK'
    BY <1>9 DEF StartTask, input
  <1>10. ASSUME NEW w \in Workers, NEW i \in Node, SkipTask(w, i)
         PROVE  TypeOK'
    BY <1>10 DEF SkipTask, input
  <1>11. ASSUME NEW w \in Workers, NEW i \in Node, FinishTask(w, i)
         PROVE  TypeOK'
    BY <1>11 DEF FinishTask, input
  <1>12. ASSUME NEW t \in Thread, NEW i \in Node, NEW s \in Status, Process(t, i, s)
         PROVE  TypeOK'
    BY <1>12 DEF Process, input
  <1>13. ASSUME NEW t \in Thread, NEW i \in Node, ForkRows(t, i)
         PROVE  TypeOK'
    BY <1>13, SMTT(30) DEF ForkRows, input
  <1>14. ASSUME NEW w \in Workers, NEW i \in Node, NEW k \in Row, StartRow(w, i, k)
         PROVE  TypeOK'
    BY <1>14 DEF StartRow, input
  <1>15. ASSUME NEW w \in Workers, NEW i \in Node, NEW s \in Status, FinishRow(w, i, s)
         PROVE  TypeOK'
    BY <1>15, SMTT(30) DEF FinishRow, input
  <1>16. ASSUME NEW t \in Thread, NEW i \in Node, NEW s \in Status, JoinRows(t, i, s)
         PROVE  TypeOK'
    BY <1>16 DEF JoinRows, input
  <1>17. CASE UNCHANGED vars
    BY <1>17 DEF vars
  <1> QED
    BY <1>1, <1>2, <1>3, <1>4, <1>5, <1>6, <1>7, <1>8,
       <1>9, <1>10, <1>11, <1>12, <1>13, <1>14, <1>15, <1>16, <1>17
       DEF Next, CallerStep, TaskStep, ProcessStep, RowStep, Terminated

(* The variables of every reachable state of Scheduler::run have their type. *)
THEOREM TypeCorrect == Spec => []TypeOK
<1>1. Init => TypeOK
  BY InputsAssumption, SizesAssumption, ErrorsAssumption DEF Init, TypeOK, Status
<1> QED
  BY <1>1, TypeStep, PTL DEF Spec

---------------------------------------------------------------------------
(* Which thread is where.  A thread on a node and not on a row runs that node's
   process(); rows are only outstanding, and threads only on them, while the
   node is forked. *)
ThreadInv ==
    /\ \A t \in Thread : onNode[t] = 0 => onRow[t] = 0
    /\ \A t \in Thread : onNode[t] # 0 /\ onRow[t] = 0 => Active(onNode[t])
    /\ \A i \in Node : Active(i) => \E t \in Thread : Runs(t, i)
    /\ \A i \in Node : \A t, u \in Thread : Runs(t, i) /\ Runs(u, i) => t = u
    /\ \A t \in Thread : onRow[t] # 0 =>
          onNode[t] \in Node /\ node[onNode[t]] = "forked" /\ onRow[t] \in rows[onNode[t]]
    /\ \A t, u \in Workers : onRow[t] # 0 /\ onNode[t] = onNode[u] /\ onRow[t] = onRow[u] => t = u
    /\ onRow[Main] = 0
    /\ \A i \in Node : rows[i] # {} => node[i] = "forked"
    /\ caller = "serial" => \A w \in Workers : onNode[w] # 0 => onRow[w] # 0
    /\ caller \in {"called", "returned"} => \A t \in Thread : Idle(t)
    /\ caller = "called" => \A i \in Node : node[i] = "pending"

LEMMA ThreadStep == TypeOK /\ ThreadInv /\ [Next]_vars => ThreadInv'
  <1> SUFFICES ASSUME TypeOK, ThreadInv, [Next]_vars PROVE ThreadInv'
    OBVIOUS
  <1> USE SizesAssumption, ThreadsAssumption DEF TypeOK, ThreadInv, Active, Runs, Idle
  <1>1. CASE RunSerially
    BY <1>1 DEF RunSerially
  <1>2. CASE RejectBadIndex
    BY <1>2 DEF RejectBadIndex
  <1>3. CASE RunTaskflow
    BY <1>3 DEF RunTaskflow
  <1>4. ASSUME NEW i \in Node, StartSerial(i)
         PROVE  ThreadInv'
    BY <1>4, SMTT(30) DEF StartSerial
  <1>5. ASSUME NEW i \in Node, FinishSerial(i)
         PROVE  ThreadInv'
    BY <1>5, SMTT(30) DEF FinishSerial
  <1>6. ASSUME NEW i \in Node, FailSerial(i)
         PROVE  ThreadInv'
    BY <1>6 DEF FailSerial
  <1>7. CASE ReturnSerial
    BY <1>7 DEF ReturnSerial
  <1>8. CASE ReturnParallel
    <2>2. \A i \in Node : ~ Active(i)
      BY <1>8 DEF ReturnParallel, Complete
    <2>1. \A u \in Thread : Idle(u)
      BY <1>8, <2>2 DEF ReturnParallel
    <2> QED
      BY <1>8, <2>1 DEF ReturnParallel
  <1>9. ASSUME NEW w \in Workers, NEW i \in Node, StartTask(w, i)
         PROVE  ThreadInv'
    <2>0. caller = "waiting" /\ onNode[w] = 0 /\ node[i] = "pending" /\ w \in Thread
      BY <1>9 DEF StartTask, Takes
    <2>1. ASSUME NEW t \in Thread, onNode[t] = i PROVE FALSE
      <3>1. onRow[t] # 0
        BY <2>0, <2>1, SMTT(30)
      <3> QED
        BY <2>0, <2>1, <3>1
    <2>2. /\ node' = [node EXCEPT ![i] = "running"] /\ onNode' = [onNode EXCEPT ![w] = i]
          /\ onRow' = onRow /\ rows' = rows /\ caller' = "waiting" /\ onRow[w] = 0
      BY <1>9, <2>0 DEF StartTask
    <2>3. /\ \A t \in Thread : onNode'[t] = IF t = w THEN i ELSE onNode[t]
          /\ \A j \in Node : node'[j] = IF j = i THEN "running" ELSE node[j]
      BY <2>2
    <2> QED
      BY <2>0, <2>1, <2>2, <2>3, SMTT(30)
  <1>10. ASSUME NEW w \in Workers, NEW i \in Node, SkipTask(w, i)
         PROVE  ThreadInv'
    BY <1>10, SMTT(30) DEF SkipTask, Takes
  <1>11. ASSUME NEW w \in Workers, NEW i \in Node, FinishTask(w, i)
         PROVE  ThreadInv'
    BY <1>11, SMTT(30) DEF FinishTask
  <1>12. ASSUME NEW t \in Thread, NEW i \in Node, NEW s \in Status, Process(t, i, s)
         PROVE  ThreadInv'
    BY <1>12 DEF Process
  <1>13. ASSUME NEW t \in Thread, NEW i \in Node, ForkRows(t, i)
         PROVE  ThreadInv'
    BY <1>13 DEF ForkRows
  <1>14. ASSUME NEW w \in Workers, NEW i \in Node, NEW k \in Row, StartRow(w, i, k)
         PROVE  ThreadInv'
    BY <1>14, SMTT(30) DEF StartRow
  <1>15. ASSUME NEW w \in Workers, NEW i \in Node, NEW s \in Status, FinishRow(w, i, s)
         PROVE  ThreadInv'
    BY <1>15, SMTT(30) DEF FinishRow
  <1>16. ASSUME NEW t \in Thread, NEW i \in Node, NEW s \in Status, JoinRows(t, i, s)
         PROVE  ThreadInv'
    BY <1>16, SMTT(30) DEF JoinRows
  <1>17. CASE UNCHANGED vars
    BY <1>17, SMTT(30) DEF vars
  <1> QED
    BY <1>1, <1>2, <1>3, <1>4, <1>5, <1>6, <1>7, <1>8,
       <1>9, <1>10, <1>11, <1>12, <1>13, <1>14, <1>15, <1>16, <1>17
       DEF Next, CallerStep, TaskStep, ProcessStep, RowStep, Terminated

---------------------------------------------------------------------------
(* What the statuses say.  A completed node that was skipped or failed is
   visible in first_status, and first_status is the status of such a node. *)
StatusInv ==
    /\ caller = "called" => first_status = OK
    /\ caller = "serial" =>
          /\ ~HasDependencies
          /\ \A i \in Node : node[i] # "skipped" /\ (node[i] = "done" => stat[i] = OK)
    /\ caller = "waiting" => \A i \in Node : deps[i] \subseteq Node
    /\ FailureIsVisible
    /\ caller = "waiting" /\ first_status # OK =>
          \E i \in Node : node[i] = "done" /\ stat[i] = first_status
    /\ caller # "returned" <=> ret = "none"
    /\ DependenciesSucceeded
    /\ ReturnTellsOutcome

LEMMA StatusStep == TypeOK /\ ThreadInv /\ StatusInv /\ [Next]_vars => StatusInv'
  <1> SUFFICES ASSUME TypeOK, ThreadInv, StatusInv, [Next]_vars PROVE StatusInv'
    OBVIOUS
  <1> USE SizesAssumption, ErrorsAssumption DEF TypeOK, StatusInv, Active, Complete,
        HasDependencies, FailureIsVisible, DependenciesSucceeded, ReturnTellsOutcome, Status, input
  <1>1. CASE RunSerially
    BY <1>1 DEF RunSerially, ThreadInv, Idle, Runs
  <1>2. CASE RejectBadIndex
    BY <1>2, SMTT(30) DEF RejectBadIndex, ThreadInv, Idle, Runs
  <1>3. CASE RunTaskflow
    BY <1>3 DEF RunTaskflow, ThreadInv, Idle, Runs
  <1>4. ASSUME NEW i \in Node, StartSerial(i)
         PROVE  StatusInv'
    BY <1>4 DEF StartSerial, ThreadInv, Idle, Runs
  <1>5. ASSUME NEW i \in Node, FinishSerial(i)
         PROVE  StatusInv'
    BY <1>5, SMTT(30) DEF FinishSerial, ThreadInv, Idle, Runs
  <1>6. ASSUME NEW i \in Node, FailSerial(i)
         PROVE  StatusInv'
    BY <1>6, SMTT(30) DEF FailSerial, ThreadInv, Idle, Runs
  <1>7. CASE ReturnSerial
    BY <1>7 DEF ReturnSerial, ThreadInv, Idle, Runs
  <1>8. CASE ReturnParallel
    BY <1>8, SMTT(30) DEF ReturnParallel, ThreadInv, Idle, Runs
  <1>9. ASSUME NEW w \in Workers, NEW i \in Node, StartTask(w, i)
         PROVE  StatusInv'
    BY <1>9, SMTT(30) DEF StartTask, Takes, ThreadInv, Idle, Runs
  <1>10. ASSUME NEW w \in Workers, NEW i \in Node, SkipTask(w, i)
         PROVE  StatusInv'
    BY <1>10 DEF SkipTask, Takes, ThreadInv, Idle, Runs
  <1>11. ASSUME NEW w \in Workers, NEW i \in Node, FinishTask(w, i)
         PROVE  StatusInv'
    BY <1>11 DEF FinishTask, ThreadInv, Idle, Runs
  <1>12. ASSUME NEW t \in Thread, NEW i \in Node, NEW s \in Status, Process(t, i, s)
         PROVE  StatusInv'
    BY <1>12, SMTT(30) DEF Process, ThreadInv, Idle, Runs
  <1>13. ASSUME NEW t \in Thread, NEW i \in Node, ForkRows(t, i)
         PROVE  StatusInv'
    BY <1>13, SMTT(30) DEF ForkRows, ThreadInv, Idle, Runs
  <1>14. ASSUME NEW w \in Workers, NEW i \in Node, NEW k \in Row, StartRow(w, i, k)
         PROVE  StatusInv'
    BY <1>14 DEF StartRow, ThreadInv, Idle, Runs
  <1>15. ASSUME NEW w \in Workers, NEW i \in Node, NEW s \in Status, FinishRow(w, i, s)
         PROVE  StatusInv'
    BY <1>15, SMTT(30) DEF FinishRow, ThreadInv, Idle, Runs
  <1>16. ASSUME NEW t \in Thread, NEW i \in Node, NEW s \in Status, JoinRows(t, i, s)
         PROVE  StatusInv'
    BY <1>16, SMTT(30) DEF JoinRows, ThreadInv, Idle, Runs
  <1>17. CASE UNCHANGED vars
    BY <1>17 DEF vars
  <1> QED
    BY <1>1, <1>2, <1>3, <1>4, <1>5, <1>6, <1>7, <1>8,
       <1>9, <1>10, <1>11, <1>12, <1>13, <1>14, <1>15, <1>16, <1>17
       DEF Next, CallerStep, TaskStep, ProcessStep, RowStep, Terminated

IInv == TypeOK /\ ThreadInv /\ StatusInv

LEMMA InvInductive == Spec => []IInv
<1>1. Init => IInv
  <2>1. Init => TypeOK
    BY InputsAssumption, SizesAssumption, ErrorsAssumption DEF Init, TypeOK, Status
  <2>2. Init => ThreadInv
    BY SizesAssumption, ThreadsAssumption DEF Init, ThreadInv, Active, Runs, Idle
  <2>3. Init => StatusInv
    BY SizesAssumption, ErrorsAssumption DEF Init, StatusInv, FailureIsVisible,
         DependenciesSucceeded, ReturnTellsOutcome, Active
  <2> QED
    BY <2>1, <2>2, <2>3 DEF IInv
<1>2. IInv /\ [Next]_vars => IInv'
  BY TypeStep, ThreadStep, StatusStep DEF IInv
<1> QED
  BY <1>1, <1>2, PTL DEF Spec

(* In every run of Scheduler::run a node whose process() was called had all its
   dependencies processed successfully. *)
THEOREM DependenciesSucceed == Spec => []DependenciesSucceeded
  <1>1. IInv => DependenciesSucceeded
    BY DEF IInv, StatusInv
  <1> QED
    BY <1>1, InvInductive, PTL

(* The status Scheduler::run returns tells what happened to the nodes. *)
THEOREM ReturnIsOutcome == Spec => []ReturnTellsOutcome
  <1>1. IInv => ReturnTellsOutcome
    BY DEF IInv, StatusInv
  <1> QED
    BY <1>1, InvInductive, PTL

(* No instance is re-entered: process() of an active node is on one thread. *)
THEOREM Exclusive == Spec => []NeverReentered
  <1>1. IInv => NeverReentered
    <2> SUFFICES ASSUME IInv PROVE NeverReentered
      OBVIOUS
    <2>1. ASSUME NEW i \in Node, NEW t \in Thread, Runs(t, i) PROVE Active(i)
      BY <2>1, SizesAssumption, SMTT(30) DEF IInv, TypeOK, ThreadInv, Runs
    <2> QED
      BY <2>1 DEF IInv, ThreadInv, NeverReentered
  <1> QED
    BY <1>1, InvInductive, PTL

(* No task runs after the frame whose locals it refers to has returned. *)
THEOREM FramesOutlive == Spec => []FramesOutliveTasks
  <1>1. IInv => FramesOutliveTasks
    BY DEF IInv, ThreadInv, FramesOutliveTasks
  <1> QED
    BY <1>1, InvInductive, PTL

---------------------------------------------------------------------------
LEMMA InputFixed == [Next]_vars => UNCHANGED input
  <1> SUFFICES ASSUME [Next]_vars PROVE UNCHANGED input
    OBVIOUS
  <1>1. CASE RunSerially
    BY <1>1 DEF RunSerially
  <1>2. CASE RejectBadIndex
    BY <1>2 DEF RejectBadIndex
  <1>3. CASE RunTaskflow
    BY <1>3 DEF RunTaskflow
  <1>4. ASSUME NEW i \in Node, StartSerial(i)
         PROVE  UNCHANGED input
    BY <1>4 DEF StartSerial
  <1>5. ASSUME NEW i \in Node, FinishSerial(i)
         PROVE  UNCHANGED input
    BY <1>5 DEF FinishSerial
  <1>6. ASSUME NEW i \in Node, FailSerial(i)
         PROVE  UNCHANGED input
    BY <1>6 DEF FailSerial
  <1>7. CASE ReturnSerial
    BY <1>7 DEF ReturnSerial
  <1>8. CASE ReturnParallel
    BY <1>8 DEF ReturnParallel
  <1>9. ASSUME NEW w \in Workers, NEW i \in Node, StartTask(w, i)
         PROVE  UNCHANGED input
    BY <1>9 DEF StartTask
  <1>10. ASSUME NEW w \in Workers, NEW i \in Node, SkipTask(w, i)
         PROVE  UNCHANGED input
    BY <1>10 DEF SkipTask
  <1>11. ASSUME NEW w \in Workers, NEW i \in Node, FinishTask(w, i)
         PROVE  UNCHANGED input
    BY <1>11 DEF FinishTask
  <1>12. ASSUME NEW t \in Thread, NEW i \in Node, NEW s \in Status, Process(t, i, s)
         PROVE  UNCHANGED input
    BY <1>12 DEF Process
  <1>13. ASSUME NEW t \in Thread, NEW i \in Node, ForkRows(t, i)
         PROVE  UNCHANGED input
    BY <1>13 DEF ForkRows
  <1>14. ASSUME NEW w \in Workers, NEW i \in Node, NEW k \in Row, StartRow(w, i, k)
         PROVE  UNCHANGED input
    BY <1>14 DEF StartRow
  <1>15. ASSUME NEW w \in Workers, NEW i \in Node, NEW s \in Status, FinishRow(w, i, s)
         PROVE  UNCHANGED input
    BY <1>15 DEF FinishRow
  <1>16. ASSUME NEW t \in Thread, NEW i \in Node, NEW s \in Status, JoinRows(t, i, s)
         PROVE  UNCHANGED input
    BY <1>16 DEF JoinRows
  <1>17. CASE UNCHANGED vars
    BY <1>17 DEF vars, input
  <1> QED
    BY <1>1, <1>2, <1>3, <1>4, <1>5, <1>6, <1>7, <1>8,
       <1>9, <1>10, <1>11, <1>12, <1>13, <1>14, <1>15, <1>16, <1>17
       DEF Next, CallerStep, TaskStep, ProcessStep, RowStep, Terminated

(* On a chain a node leaves "pending" only when all earlier ones are complete. *)
ChainOrder == \A i, j \in Node : j < i /\ node[i] # "pending" => Complete(j)

LEMMA ChainStep == IInv /\ (IsChain => ChainOrder) /\ [Next]_vars => (IsChain => ChainOrder)'
  <1>  SUFFICES ASSUME IInv, ChainOrder, [Next]_vars, IsChain
               PROVE  ChainOrder'
    BY InputFixed DEF IsChain, input
  <1> USE SizesAssumption DEF IInv, TypeOK, ChainOrder, Complete
  <1>1. CASE RunSerially
    BY <1>1 DEF RunSerially
  <1>2. CASE RejectBadIndex
    BY <1>2 DEF RejectBadIndex
  <1>3. CASE RunTaskflow
    BY <1>3 DEF RunTaskflow
  <1>4. ASSUME NEW i \in Node, StartSerial(i)
         PROVE  ChainOrder'
    <2>1. i = 1
      BY <1>4 DEF StartSerial, StatusInv, HasDependencies, IsChain
    <2> QED
      BY <1>4, <2>1 DEF StartSerial
  <1>5. ASSUME NEW i \in Node, FinishSerial(i)
         PROVE  ChainOrder'
    BY <1>5 DEF FinishSerial
  <1>6. ASSUME NEW i \in Node, FailSerial(i)
         PROVE  ChainOrder'
    BY <1>6 DEF FailSerial
  <1>7. CASE ReturnSerial
    BY <1>7 DEF ReturnSerial
  <1>8. CASE ReturnParallel
    BY <1>8 DEF ReturnParallel
  <1>9. ASSUME NEW w \in Workers, NEW i \in Node, StartTask(w, i)
         PROVE  ChainOrder'
    <2>1. ASSUME NEW j \in Node, j < i PROVE Complete(j)
      <3>1. i - 1 \in Node /\ deps[i] = {i - 1}
        BY <2>1 DEF IsChain
      <3>2. Complete(i - 1)
        BY <1>9, <3>1 DEF StartTask, Takes
      <3> QED
        BY <2>1, <3>1, <3>2
    <2> QED
      BY <1>9, <2>1 DEF StartTask, Takes
  <1>10. ASSUME NEW w \in Workers, NEW i \in Node, SkipTask(w, i)
         PROVE  ChainOrder'
    <2>1. ASSUME NEW j \in Node, j < i PROVE Complete(j)
      <3>1. i - 1 \in Node /\ deps[i] = {i - 1}
        BY <2>1 DEF IsChain
      <3>2. Complete(i - 1)
        BY <1>10, <3>1 DEF SkipTask, Takes
      <3> QED
        BY <2>1, <3>1, <3>2
    <2> QED
      BY <1>10, <2>1 DEF SkipTask, Takes
  <1>11. ASSUME NEW w \in Workers, NEW i \in Node, FinishTask(w, i)
         PROVE  ChainOrder'
    BY <1>11 DEF FinishTask
  <1>12. ASSUME NEW t \in Thread, NEW i \in Node, NEW s \in Status, Process(t, i, s)
         PROVE  ChainOrder'
    BY <1>12 DEF Process
  <1>13. ASSUME NEW t \in Thread, NEW i \in Node, ForkRows(t, i)
         PROVE  ChainOrder'
    BY <1>13 DEF ForkRows
  <1>14. ASSUME NEW w \in Workers, NEW i \in Node, NEW k \in Row, StartRow(w, i, k)
         PROVE  ChainOrder'
    BY <1>14 DEF StartRow
  <1>15. ASSUME NEW w \in Workers, NEW i \in Node, NEW s \in Status, FinishRow(w, i, s)
         PROVE  ChainOrder'
    BY <1>15 DEF FinishRow
  <1>16. ASSUME NEW t \in Thread, NEW i \in Node, NEW s \in Status, JoinRows(t, i, s)
         PROVE  ChainOrder'
    BY <1>16 DEF JoinRows
  <1>17. CASE UNCHANGED vars
    BY <1>17 DEF vars
  <1> QED
    BY <1>1, <1>2, <1>3, <1>4, <1>5, <1>6, <1>7, <1>8,
       <1>9, <1>10, <1>11, <1>12, <1>13, <1>14, <1>15, <1>16, <1>17
       DEF Next, CallerStep, TaskStep, ProcessStep, RowStep, Terminated

(* On the chain that Pipeline::run_bound schedules, at most one node is active,
   whatever the number of workers: at most one worker waits for rows. *)
THEOREM ChainSequential == Spec => []ChainIsSequential
<1>1. Init => ChainOrder
  BY DEF Init, ChainOrder
<1>2. IInv /\ (IsChain => ChainOrder) => ChainIsSequential
  <2> SUFFICES ASSUME IsChain, ChainOrder, NEW i \in Node, NEW j \in Node,
                      Active(i), Active(j)
               PROVE  i = j
    BY DEF ChainIsSequential
  <2>1. ~(i < j) /\ ~(j < i)
    BY DEF ChainOrder, Active, Complete
  <2> QED
    BY <2>1, SizesAssumption
<1> QED
  BY <1>1, <1>2, InvInductive, ChainStep, PTL DEF Spec

---------------------------------------------------------------------------
(* Scheduler implements SchedulerContract: a start is a Begin, the return of
   process() an End, each return of run() a Return, and everything else stutters. *)
LEMMA RefinementStep == IInv /\ [Next]_vars => [Contract!Next]_(Contract!vars)
  <1> SUFFICES ASSUME IInv, [Next]_vars PROVE [Contract!Next]_(Contract!vars)
    OBVIOUS
  <1> USE SizesAssumption, ErrorsAssumption DEF IInv, TypeOK, StatusInv, ContractResult, input, OK, BadIndex,
        Contract!Node, Contract!OK, Contract!BadIndex
  <1>1. CASE RunSerially
    <2>1. ContractResult' = ContractResult
      BY <1>1 DEF RunSerially
    <2> QED
      BY <1>1, <2>1 DEF RunSerially, Contract!vars, input
  <1>2. CASE RejectBadIndex
    <2>1. Contract!Return(BadIndex)
      BY <1>2 DEF RejectBadIndex, ThreadInv, Contract!Return
    <2>2. BadIndex \in Errors \cup {OK}
      BY DEF Status
    <2> QED
      BY <2>1, <2>2 DEF Contract!Next
  <1>3. CASE RunTaskflow
    <2>1. ContractResult' = ContractResult
      BY <1>3 DEF RunTaskflow
    <2> QED
      BY <1>3, <2>1 DEF RunTaskflow, Contract!vars, input
  <1>4. ASSUME NEW i \in Node, StartSerial(i)
         PROVE  [Contract!Next]_(Contract!vars)
    <2>1. Contract!Begin(i)
      BY <1>4 DEF StartSerial, HasDependencies, Contract!Begin
    <2> QED
      BY <2>1 DEF Contract!Next
  <1>5. ASSUME NEW i \in Node, FinishSerial(i)
         PROVE  [Contract!Next]_(Contract!vars)
    <2>1. ContractResult' = ContractResult
      BY <1>5 DEF FinishSerial
    <2> QED
      BY <1>5, <2>1 DEF FinishSerial, Contract!vars, input
  <1>6. ASSUME NEW i \in Node, FailSerial(i)
         PROVE  [Contract!Next]_(Contract!vars)
    <2>1. Contract!Return(stat[i])
      <3>1. \A j \in Node : ContractResult[j] # "processing"
        <4>1. \A j \in Node : node[j] \notin {"running", "forked"}
          <5> SUFFICES ASSUME NEW j \in Node, Active(j) PROVE j = i
            BY <1>6 DEF FailSerial, Active
          <5>1. PICK t \in Thread : Runs(t, j)
            BY DEF ThreadInv
          <5>2. t = Main
            BY <1>6, <5>1, SMTT(30) DEF FailSerial, ThreadInv, Runs
          <5> QED
            BY <1>6, <5>1, <5>2 DEF FailSerial, Runs
        <4> QED
          BY <4>1
      <3>2. ContractResult' = ContractResult
        BY <1>6 DEF FailSerial
      <3>3. ContractResult[i] = stat[i] /\ stat[i] \in Errors
        BY <1>6 DEF FailSerial, Status
      <3> QED
        BY <1>6, <3>1, <3>2, <3>3 DEF FailSerial, Contract!Return
    <2>2. stat[i] \in Errors \cup {OK}
      BY DEF Status
    <2> QED
      BY <2>1, <2>2 DEF Contract!Next
  <1>7. CASE ReturnSerial
    <2>1. Contract!Return(OK)
      BY <1>7 DEF ReturnSerial, Contract!Return
    <2>2. OK \in Errors \cup {OK}
      BY DEF Status
    <2> QED
      BY <2>1, <2>2 DEF Contract!Next
  <1>8. CASE ReturnParallel
    <2>1. Contract!Return(first_status)
      <3>1. \A j \in Node : ContractResult[j] # "processing"
        BY <1>8 DEF ReturnParallel, Complete
      <3>2. ContractResult' = ContractResult
        BY <1>8 DEF ReturnParallel
      <3>3. CASE first_status = OK
        <4>1. \A j \in Node : ContractResult[j] = OK
          BY <1>8, <3>3 DEF ReturnParallel, Complete, FailureIsVisible
        <4> QED
          BY <1>8, <3>1, <3>2, <3>3, <4>1 DEF ReturnParallel, Contract!Return
      <3>4. CASE first_status # OK
        <4>1. first_status \in Errors /\ \E j \in Node : ContractResult[j] = first_status
          BY <1>8, <3>4 DEF ReturnParallel, Status
        <4> QED
          BY <1>8, <3>1, <3>2, <4>1 DEF ReturnParallel, Contract!Return
      <3> QED
        BY <3>3, <3>4
    <2>2. first_status \in Errors \cup {OK}
      BY DEF Status
    <2> QED
      BY <2>1, <2>2 DEF Contract!Next
  <1>9. ASSUME NEW w \in Workers, NEW i \in Node, StartTask(w, i)
         PROVE  [Contract!Next]_(Contract!vars)
    <2>1. Contract!Begin(i)
      BY <1>9 DEF StartTask, Takes, Complete, FailureIsVisible, Contract!Begin
    <2> QED
      BY <2>1 DEF Contract!Next
  <1>10. ASSUME NEW w \in Workers, NEW i \in Node, SkipTask(w, i)
         PROVE  [Contract!Next]_(Contract!vars)
    <2>1. ContractResult' = ContractResult
      BY <1>10 DEF SkipTask, Takes
    <2> QED
      BY <1>10, <2>1 DEF SkipTask, Contract!vars, input
  <1>11. ASSUME NEW w \in Workers, NEW i \in Node, FinishTask(w, i)
         PROVE  [Contract!Next]_(Contract!vars)
    <2>1. ContractResult' = ContractResult
      BY <1>11 DEF FinishTask
    <2> QED
      BY <1>11, <2>1 DEF FinishTask, Contract!vars, input
  <1>12. ASSUME NEW t \in Thread, NEW i \in Node, NEW s \in Status, Process(t, i, s)
         PROVE  [Contract!Next]_(Contract!vars)
    <2>1. Contract!End(i, s)
      BY <1>12 DEF Process, Contract!End
    <2> QED
      BY <2>1 DEF Contract!Next, Status
  <1>13. ASSUME NEW t \in Thread, NEW i \in Node, ForkRows(t, i)
         PROVE  [Contract!Next]_(Contract!vars)
    <2>1. ContractResult' = ContractResult
      BY <1>13 DEF ForkRows
    <2> QED
      BY <1>13, <2>1 DEF ForkRows, Contract!vars, input
  <1>14. ASSUME NEW w \in Workers, NEW i \in Node, NEW k \in Row, StartRow(w, i, k)
         PROVE  [Contract!Next]_(Contract!vars)
    <2>1. ContractResult' = ContractResult
      BY <1>14 DEF StartRow
    <2> QED
      BY <1>14, <2>1 DEF StartRow, Contract!vars, input
  <1>15. ASSUME NEW w \in Workers, NEW i \in Node, NEW s \in Status, FinishRow(w, i, s)
         PROVE  [Contract!Next]_(Contract!vars)
    <2>1. ContractResult' = ContractResult
      BY <1>15 DEF FinishRow
    <2> QED
      BY <1>15, <2>1 DEF FinishRow, Contract!vars, input
  <1>16. ASSUME NEW t \in Thread, NEW i \in Node, NEW s \in Status, JoinRows(t, i, s)
         PROVE  [Contract!Next]_(Contract!vars)
    <2>1. Contract!End(i, s)
      BY <1>16 DEF JoinRows, Contract!End
    <2> QED
      BY <2>1 DEF Contract!Next, Status
  <1>17. CASE UNCHANGED vars
    BY <1>17 DEF vars, Contract!vars
  <1> QED
    BY <1>1, <1>2, <1>3, <1>4, <1>5, <1>6, <1>7, <1>8,
       <1>9, <1>10, <1>11, <1>12, <1>13, <1>14, <1>15, <1>16, <1>17
       DEF Next, CallerStep, TaskStep, ProcessStep, RowStep, Terminated

(* The threads, queues and atomics of Scheduler.cpp implement SchedulerContract. *)
THEOREM Implements == Spec => ImplementsContract
<1>1. Init => Contract!Init
  BY InputsAssumption DEF Init, Contract!Init, Contract!Node, ContractResult
<1> QED
  BY <1>1, InvInductive, RefinementStep, PTL DEF Spec, Contract!Spec, ImplementsContract

---------------------------------------------------------------------------
(* The process-wide executor pointer, for any number of runs. *)

\* The newest run was constructed, and an unborn run has no loop.
HookInv ==
    /\ phase \in [Schedulers -> {"unborn", "alive", "unhooked", "destroyed"}]
    /\ loop \in [Schedulers -> {"idle", "loaded", "forked"}] /\ target \in [Schedulers -> Schedulers \cup {Null}]
    /\ \A r \in Schedulers : phase[r] = "unborn" => loop[r] = "idle"
    /\ newest \in Schedulers \cup {Null} /\ g_halide_executor \in Schedulers \cup {Null}
    /\ newest # Null => phase[newest] # "unborn"
    /\ NewestKeepsHook

\* However the constructors and destructors of Schedulers interleave, the pointer names the newest
\* Scheduler while it lives and else nothing, and the loops of the newest run are on its own executor
\* (Scheduler::Scheduler, ~Scheduler and cpipe_halide_do_par_for).
THEOREM NewestHook == HookSpec => []NewestKeepsHook
<1>1. HookInit => HookInv
  BY DEF HookInit, HookInv, NewestKeepsHook
<1>2. HookInv /\ [HookNext]_hookVars => HookInv'
  <2> SUFFICES ASSUME HookInv, [HookNext]_hookVars PROVE HookInv'
    OBVIOUS
  <2>1. ASSUME NEW r \in Schedulers, Construct(r) PROVE HookInv'
    BY <2>1, NullAssumption DEF HookInv, NewestKeepsHook, Construct
  <2>2. ASSUME NEW r \in Schedulers, LoadExecutor(r) \/ LoopInPlace(r) \/ SubmitRows(r) \/ RowsDone(r) PROVE HookInv'
    BY <2>2 DEF HookInv, NewestKeepsHook, LoadExecutor, LoopInPlace, SubmitRows, RowsDone
  <2>3. ASSUME NEW r \in Schedulers, Unhook(r) PROVE HookInv'
    BY <2>3, NullAssumption DEF HookInv, NewestKeepsHook, Unhook, Unhooked
  <2>4. ASSUME NEW r \in Schedulers, DestroyExecutor(r) PROVE HookInv'
    BY <2>4 DEF HookInv, NewestKeepsHook, DestroyExecutor
  <2>5. CASE UNCHANGED hookVars
    BY <2>5 DEF HookInv, NewestKeepsHook, hookVars
  <2>. QED
    BY <2>1, <2>2, <2>3, <2>4, <2>5 DEF HookNext, AllDestroyed
<1>3. HookInv => NewestKeepsHook
  BY DEF HookInv
<1>. QED
  BY <1>1, <1>2, <1>3, PTL DEF HookSpec
=============================================================================
