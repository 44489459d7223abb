------------------------- MODULE SchedulerContract -------------------------
(***************************************************************************)
(* What Scheduler::run promises its caller (runtime/Scheduler.hpp): given  *)
(* nodes with dependencies, run every node's process() at most once, never *)
(* before all of its dependencies have succeeded, and return a status that *)
(* tells what happened.  Threads, queues, skipping and atomics are absent: *)
(* Scheduler.tla is shown to implement this specification.                 *)
(***************************************************************************)
EXTENDS Naturals

CONSTANTS
    N,          \* number of scheduled nodes
    Errors      \* the cpipe_status_t values other than CPIPE_OK

Node == 1..N
OK == "CPIPE_OK"
BadIndex == "CPIPE_BAD_INDEX"

VARIABLES
    deps,       \* deps[i]: the dependencies of node i, as passed to run()
    result,     \* result[i]: "unstarted", "processing" or what process() returned
    ret         \* "none" until run() returns

vars == <<deps, result, ret>>

Init ==
    /\ deps \in [Node -> SUBSET Nat]
    /\ result = [i \in Node |-> "unstarted"]
    /\ ret = "none"

\* A node starts only after every dependency's process() returned CPIPE_OK.
Begin(i) ==
    /\ ret = "none"
    /\ result[i] = "unstarted"
    /\ \A d \in deps[i] : d \in Node /\ result[d] = OK
    /\ result' = [result EXCEPT ![i] = "processing"]
    /\ UNCHANGED <<deps, ret>>

End(i, s) ==
    /\ result[i] = "processing"
    /\ result' = [result EXCEPT ![i] = s]
    /\ UNCHANGED <<deps, ret>>

\* run() returns with no node in flight: CPIPE_OK when all of them succeeded,
\* otherwise the status of one that failed, or CPIPE_BAD_INDEX, with nothing
\* started, for a dependency that names no node.
Return(r) ==
    /\ ret = "none"
    /\ \A i \in Node : result[i] # "processing"
    /\ \/ r = OK /\ \A i \in Node : result[i] = OK
       \/ r \in Errors /\ \E i \in Node : result[i] = r
       \/ /\ r = BadIndex
          /\ \A i \in Node : result[i] = "unstarted"
          /\ \E i \in Node : ~(deps[i] \subseteq Node)
    /\ ret' = r
    /\ UNCHANGED <<deps, result>>

Next ==
    \/ \E i \in Node : Begin(i)
    \/ \E i \in Node, s \in Errors \cup {OK} : End(i, s)
    \/ \E r \in Errors \cup {OK} : Return(r)

Spec == Init /\ [][Next]_vars
=============================================================================
