----------------------------- MODULE Scheduler -----------------------------
(***************************************************************************)
(* One call of Scheduler::run (runtime/Scheduler.cpp) on the thread Main,  *)
(* with the TaskFlow executor's worker threads and the Halide loops that   *)
(* the nodes' process() functions fork through cpipe_halide_do_par_for.    *)
(*                                                                         *)
(* A thread is on a node (onNode[t] = i), on a row of the parallel loop of *)
(* node i (also onRow[t] = k) or idle (onNode[t] = 0).  A node whose       *)
(* process() sits in executor->run(taskflow).wait() is "forked": its       *)
(* thread is blocked and takes no other task.                              *)
(***************************************************************************)
EXTENDS Naturals, FiniteSets

CONSTANTS
    N,          \* number of scheduled nodes
    MaxRows,    \* largest extent of a Halide parallel loop
    Workers,    \* the executor's threads
    Main,       \* the thread that calls run()
    Errors,     \* the cpipe_status_t values other than CPIPE_OK
    Inputs      \* the calls considered: dependencies and loop extents

Node == 1..N
Row == 1..MaxRows
Thread == Workers \cup {Main}
OK == "CPIPE_OK"
BadIndex == "CPIPE_BAD_INDEX"
Status == Errors \cup {OK}

ASSUME SizesAssumption == N \in Nat /\ MaxRows \in Nat
ASSUME ThreadsAssumption == Main \notin Workers
ASSUME ErrorsAssumption ==
    OK \notin Errors /\ BadIndex \in Errors /\ "none" \notin Status
    /\ "unstarted" \notin Status /\ "processing" \notin Status
ASSUME InputsAssumption ==
    \A in \in Inputs : in.deps \in [Node -> SUBSET Nat] /\ in.par \in [Node -> 0..MaxRows]

VARIABLES
    deps,         \* ScheduledNode::dependencies
    par,          \* par[i]: rows of the parallel loop of node i (0, 1: no fork)
    caller,       \* where Main is in run()
    node,         \* state of each node's task
    stat,         \* what process() returned
    first_status, \* the atomic of the same name
    ret,          \* what run() returned
    onNode, onRow,
    rows,         \* rows[i]: row tasks of node i that have not finished
    first_error   \* first_error[i]: the atomic of node i's parallel loop

vars == <<deps, par, caller, node, stat, first_status, ret, onNode, onRow, rows, first_error>>
input == <<deps, par>>

\* Mutant: a task that returns early does not release its successors.
CompleteUnlessSkipped(i) == node[i] = "done"

\* The task of node i has ended.
Complete(i) == node[i] \in {"done", "skipped"}
Idle(t) == onNode[t] = 0
\* Thread t runs the process() of node i (and not a row of its loop).
Runs(t, i) == onNode[t] = i /\ onRow[t] = 0

PlainStore(atomic, status) == status  \* Mutant: store() instead of the exchange.
\* compare_exchange_strong(expected = OK, status) for a status other than OK.
CompareExchange(atomic, status) == IF atomic = OK THEN status ELSE atomic

Init ==
    /\ \E in \in Inputs : deps = in.deps /\ par = in.par
    /\ caller = "called"
    /\ node = [i \in Node |-> "pending"]
    /\ stat = [i \in Node |-> OK]
    /\ first_status = OK
    /\ ret = "none"
    /\ onNode = [t \in Thread |-> 0]
    /\ onRow = [t \in Thread |-> 0]
    /\ rows = [i \in Node |-> {}]
    /\ first_error = [i \in Node |-> OK]

---------------------------------------------------------------------------
(* Scheduler::run on the calling thread *)

HasDependencies == \E i \in Node : deps[i] # {}

\* No node has a dependency: the nodes run one after another on the caller.
RunSerially ==
    /\ caller = "called" /\ ~HasDependencies
    /\ caller' = "serial"
    /\ UNCHANGED <<input, node, stat, first_status, ret, onNode, onRow, rows, first_error>>

\* Wiring the edges meets an index past the last task: nothing runs.
RejectBadIndex ==
    /\ caller = "called" /\ HasDependencies
    /\ \E i \in Node : \E d \in deps[i] : d \notin Node
    /\ caller' = "returned"
    /\ ret' = BadIndex
    /\ UNCHANGED <<input, node, stat, first_status, onNode, onRow, rows, first_error>>

\* executor_.run(taskflow).wait()
RunTaskflow ==
    /\ caller = "called" /\ HasDependencies
    /\ \A i \in Node : deps[i] \subseteq Node
    /\ caller' = "waiting"
    /\ UNCHANGED <<input, node, stat, first_status, ret, onNode, onRow, rows, first_error>>

\* The serial loop calls the next node's process().
StartSerial(i) ==
    /\ caller = "serial" /\ Idle(Main)
    /\ node[i] = "pending"
    /\ \A j \in 1..(i - 1) : node[j] # "pending"
    /\ node' = [node EXCEPT ![i] = "running"]
    /\ onNode' = [onNode EXCEPT ![Main] = i]
    /\ UNCHANGED <<input, caller, stat, first_status, ret, onRow, rows, first_error>>

\* The serial loop goes on after CPIPE_OK ...
FinishSerial(i) ==
    /\ caller = "serial" /\ Runs(Main, i) /\ node[i] = "returned" /\ stat[i] = OK
    /\ node' = [node EXCEPT ![i] = "done"]
    /\ onNode' = [onNode EXCEPT ![Main] = 0]
    /\ UNCHANGED <<input, caller, stat, first_status, ret, onRow, rows, first_error>>

\* ... and returns at the first other status.
FailSerial(i) ==
    /\ caller = "serial" /\ Runs(Main, i) /\ node[i] = "returned" /\ stat[i] # OK
    /\ node' = [node EXCEPT ![i] = "done"]
    /\ onNode' = [onNode EXCEPT ![Main] = 0]
    /\ caller' = "returned"
    /\ ret' = stat[i]
    /\ UNCHANGED <<input, stat, first_status, onRow, rows, first_error>>

ReturnSerial ==
    /\ caller = "serial"
    /\ \A i \in Node : node[i] = "done"
    /\ caller' = "returned"
    /\ ret' = OK
    /\ UNCHANGED <<input, node, stat, first_status, onNode, onRow, rows, first_error>>

ReturnParallel ==
    /\ caller = "waiting"
    /\ \A i \in Node : Complete(i)
    /\ caller' = "returned"
    /\ ret' = first_status
    /\ UNCHANGED <<input, node, stat, first_status, onNode, onRow, rows, first_error>>

---------------------------------------------------------------------------
(* A node's task on a worker *)

\* Mutant: precede() is not called, so a task does not wait for its dependencies.
TakesUnordered(w, i) == caller = "waiting" /\ Idle(w) /\ node[i] = "pending"

\* TaskFlow hands worker w the task of node i: its predecessors are complete.
Takes(w, i) ==
    caller = "waiting" /\ Idle(w) /\ node[i] = "pending" /\ \A d \in deps[i] : Complete(d)

MayProcess == first_status = OK

StartTask(w, i) ==
    /\ Takes(w, i) /\ MayProcess
    /\ node' = [node EXCEPT ![i] = "running"]
    /\ onNode' = [onNode EXCEPT ![w] = i]
    /\ UNCHANGED <<input, caller, stat, first_status, ret, onRow, rows, first_error>>

\* The task finds that another one has failed and does nothing.
SkipTask(w, i) ==
    /\ Takes(w, i) /\ ~MayProcess
    /\ node' = [node EXCEPT ![i] = "skipped"]
    /\ UNCHANGED <<input, caller, stat, first_status, ret, onNode, onRow, rows, first_error>>

\* The task ends: compare_exchange_strong(CPIPE_OK, status), successors released.
FinishTask(w, i) ==
    /\ caller = "waiting" /\ Runs(w, i) /\ node[i] = "returned"
    /\ node' = [node EXCEPT ![i] = "done"]
    /\ onNode' = [onNode EXCEPT ![w] = 0]
    /\ first_status' = CompareExchange(first_status, stat[i])
    /\ UNCHANGED <<input, caller, stat, ret, onRow, rows, first_error>>

---------------------------------------------------------------------------
(* process() and the Halide loop it may fork *)

\* process() returns without forking: it has no parallel loop of two rows or
\* more (cpipe_halide_do_par_for runs size <= 1 in place) or fails before it.
Process(t, i, s) ==
    /\ Runs(t, i) /\ node[i] = "running"
    /\ par[i] <= 1 \/ s # OK
    /\ node' = [node EXCEPT ![i] = "returned"]
    /\ stat' = [stat EXCEPT ![i] = s]
    /\ UNCHANGED <<input, caller, first_status, ret, onNode, onRow, rows, first_error>>

RowTasks(i) == 1..par[i]

\* cpipe_halide_do_par_for: one task per row, then executor->run().wait().
ForkRows(t, i) ==
    /\ Runs(t, i) /\ node[i] = "running" /\ par[i] > 1
    /\ node' = [node EXCEPT ![i] = "forked"]
    /\ rows' = [rows EXCEPT ![i] = RowTasks(i)]
    /\ UNCHANGED <<input, caller, stat, first_status, ret, onNode, onRow, first_error>>

StartRow(w, i, k) ==
    /\ Idle(w)
    /\ k \in rows[i] /\ \A v \in Workers : ~(onNode[v] = i /\ onRow[v] = k)
    /\ onNode' = [onNode EXCEPT ![w] = i]
    /\ onRow' = [onRow EXCEPT ![w] = k]
    /\ UNCHANGED <<input, caller, node, stat, first_status, ret, rows, first_error>>

\* first_error keeps the first non-zero status; the other rows still run.
FinishRow(w, i, s) ==
    /\ onNode[w] = i /\ onRow[w] # 0
    /\ rows' = [rows EXCEPT ![i] = @ \ {onRow[w]}]
    /\ first_error' = [first_error EXCEPT ![i] = CompareExchange(@, s)]
    /\ onNode' = [onNode EXCEPT ![w] = 0]
    /\ onRow' = [onRow EXCEPT ![w] = 0]
    /\ UNCHANGED <<input, caller, node, stat, first_status, ret>>

RowsJoinedAtOnce(i) == TRUE  \* Mutant: wait() is missing.
RowsJoined(i) == rows[i] = {}

\* wait() returns and with it the loop and process(): a failed row makes it fail.
JoinRows(t, i, s) ==
    /\ Runs(t, i) /\ node[i] = "forked" /\ RowsJoined(i)
    /\ first_error[i] = OK \/ s # OK
    /\ node' = [node EXCEPT ![i] = "returned"]
    /\ stat' = [stat EXCEPT ![i] = s]
    /\ UNCHANGED <<input, caller, first_status, ret, onNode, onRow, rows, first_error>>

---------------------------------------------------------------------------
Terminated == caller = "returned" /\ UNCHANGED vars

CallerStep ==
    \/ RunSerially \/ RejectBadIndex \/ RunTaskflow
    \/ \E i \in Node : StartSerial(i) \/ FinishSerial(i) \/ FailSerial(i)
    \/ ReturnSerial \/ ReturnParallel

TaskStep(w) == \E i \in Node : StartTask(w, i) \/ SkipTask(w, i) \/ FinishTask(w, i)

ProcessStep(t) ==
    \E i \in Node : ForkRows(t, i) \/ \E s \in Status : Process(t, i, s) \/ JoinRows(t, i, s)

RowStep(w) ==
    \E i \in Node : (\E k \in Row : StartRow(w, i, k)) \/ \E s \in Status : FinishRow(w, i, s)

Next ==
    \/ CallerStep
    \/ \E w \in Workers : TaskStep(w) \/ RowStep(w)
    \/ \E t \in Thread : ProcessStep(t)
    \/ Terminated

Spec == Init /\ [][Next]_vars

(* Every thread is scheduled by the OS and every process() and every row
   returns; a thread in wait() takes no step until its rows are finished. *)
Fairness ==
    /\ WF_vars(CallerStep) /\ WF_vars(ProcessStep(Main))
    /\ \A w \in Workers : WF_vars(TaskStep(w) \/ RowStep(w) \/ ProcessStep(w))

FairSpec == Spec /\ Fairness
---------------------------------------------------------------------------
(* Properties *)

Active(i) == node[i] \in {"running", "forked", "returned"}

TypeOK ==
    /\ deps \in [Node -> SUBSET Nat]
    /\ par \in [Node -> 0..MaxRows]
    /\ caller \in {"called", "serial", "waiting", "returned"}
    /\ node \in [Node -> {"pending", "running", "forked", "returned", "done", "skipped"}]
    /\ stat \in [Node -> Status]
    /\ first_status \in Status
    /\ ret \in Status \cup {"none"}
    /\ onNode \in [Thread -> 0..N]
    /\ onRow \in [Thread -> 0..MaxRows]
    /\ rows \in [Node -> SUBSET Row]
    /\ first_error \in [Node -> Status]

(* A node whose process() has been called had every dependency processed with
   CPIPE_OK: not merely complete, so neither a failed nor a skipped dependency
   lets it run, although workers only look at the shared first_status. *)
DependenciesSucceeded ==
    \A i \in Node : Active(i) \/ node[i] = "done" =>
        \A d \in deps[i] : d \in Node /\ node[d] = "done" /\ stat[d] = OK

(* run() returns CPIPE_OK only if every node was processed successfully, and an
   error only if it is the status of a node that failed or a rejected index with
   no node started; concurrent failures cannot lose or invent a status. *)
ReturnTellsOutcome ==
    caller = "returned" =>
        \/ ret = OK /\ \A i \in Node : node[i] = "done" /\ stat[i] = OK
        \/ ret # OK /\ \E i \in Node : node[i] = "done" /\ stat[i] = ret
        \/ /\ ret = BadIndex
           /\ \E i \in Node : ~(deps[i] \subseteq Node)
           /\ \A i \in Node : node[i] = "pending"

(* process() of a node is on exactly one thread while it is active, and on none
   otherwise: an instance is never re-entered. *)
NeverReentered ==
    /\ \A i \in Node : Active(i) <=> \E t \in Thread : Runs(t, i)
    /\ \A i \in Node : \A t, u \in Thread : Runs(t, i) /\ Runs(u, i) => t = u

(* The task closures hold references to locals of run() and of
   cpipe_halide_do_par_for (first_status, first_error, the closure): a row only
   runs while the frame that forked it is still waiting, and no thread is on any
   task once run() has returned. *)
FramesOutliveTasks ==
    /\ \A t \in Thread : onRow[t] # 0 =>
          onNode[t] \in Node /\ node[onNode[t]] = "forked" /\ onRow[t] \in rows[onNode[t]]
    /\ caller = "returned" => \A t \in Thread : Idle(t)

(* A failure, once its task has ended, is visible to every later load of
   first_status. *)
FailureIsVisible ==
    caller = "waiting" =>
        \A i \in Node : (node[i] = "done" /\ stat[i] # OK) \/ node[i] = "skipped" => first_status # OK

(* The dependencies Pipeline::run_bound passes: each node after the one before. *)
IsChain == \A i \in Node : deps[i] = IF i = 1 THEN {} ELSE {i - 1}

(* On the chain of Pipeline::run_bound at most one node is active, so at most
   one worker is ever blocked in a parallel loop. *)
ChainIsSequential ==
    IsChain => \A i, j \in Node : Active(i) /\ Active(j) => i = j

(* No two of the forking nodes of S can be ordered by the dependencies. *)
Ancestors[i \in Node] == LET d == deps[i] \cap 1..(i - 1) IN d \cup UNION {Ancestors[j] : j \in d}
Antichain(S) == \A i, j \in S : i \notin Ancestors[j]

(* Every set of forking nodes that may be blocked at once leaves a worker free. *)
EnoughWorkers ==
    IF HasDependencies
    THEN \A S \in SUBSET {i \in Node : par[i] > 1} :
            Antichain(S) => Cardinality(S) < Cardinality(Workers)
    ELSE Workers # {}

(* With more workers than parallel loops that can be blocked at once, run()
   returns: blocking wait() inside a worker does not exhaust the pool. *)
RunReturns == EnoughWorkers => <>(caller = "returned")

(* Scheduler::run returns, whatever the number of workers it was built with. *)
RunAlwaysReturns == <>(caller = "returned")

(* What the contract knows of a node: a skipped node never started, and a node
   counts as processing until process() returns. *)
ContractResult ==
    [i \in Node |-> CASE node[i] \in {"pending", "skipped"} -> "unstarted"
                      [] node[i] \in {"running", "forked"} -> "processing"
                      [] node[i] \in {"returned", "done"} -> stat[i]]

Contract == INSTANCE SchedulerContract WITH result <- ContractResult

(* The threaded implementation is an implementation of SchedulerContract. *)
ImplementsContract == Contract!Spec
=============================================================================
