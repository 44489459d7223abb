--------------------------- MODULE HalideExecutor ---------------------------
(***************************************************************************)
(* The process-wide pointer g_halide_executor (runtime/Scheduler.cpp) under *)
(* several Pipeline::run_bound calls, each with a Scheduler of its own on a *)
(* thread of its own.  The executor of run r is named r.                   *)
(***************************************************************************)
EXTENDS Naturals

CONSTANTS
    Schedulers, \* those of the calls of run_bound
    Null        \* the null pointer

ASSUME NullAssumption == Null \notin Schedulers

VARIABLES
    g_halide_executor,
    phase,      \* phase[r]: "unborn", "alive", "unhooked", "destroyed"
    loop,       \* loop[r]: "idle", "loaded", "forked": the par_for of r's node
    target,     \* target[r]: the executor that par_for loaded
    newest      \* history: the run whose Scheduler was constructed last

hookVars == <<g_halide_executor, phase, loop, target, newest>>

HookInit ==
    /\ g_halide_executor = Null
    /\ phase = [r \in Schedulers |-> "unborn"]
    /\ loop = [r \in Schedulers |-> "idle"]
    /\ target = [r \in Schedulers |-> Null]
    /\ newest = Null

\* Scheduler::Scheduler: the executor exists, then the pointer is stored.
Construct(r) ==
    /\ phase[r] = "unborn"
    /\ phase' = [phase EXCEPT ![r] = "alive"]
    /\ g_halide_executor' = r
    /\ newest' = r
    /\ UNCHANGED <<loop, target>>

\* cpipe_halide_do_par_for reads the pointer ...
LoadExecutor(r) ==
    /\ phase[r] = "alive" /\ loop[r] = "idle"
    /\ target' = [target EXCEPT ![r] = g_halide_executor]
    /\ loop' = [loop EXCEPT ![r] = "loaded"]
    /\ UNCHANGED <<g_halide_executor, phase, newest>>

\* ... runs the loop in place when it was null ...
LoopInPlace(r) ==
    /\ loop[r] = "loaded" /\ target[r] = Null
    /\ loop' = [loop EXCEPT ![r] = "idle"]
    /\ UNCHANGED <<g_halide_executor, phase, target, newest>>

\* ... and otherwise submits a taskflow to it and waits.
SubmitRows(r) ==
    /\ loop[r] = "loaded" /\ target[r] # Null
    /\ loop' = [loop EXCEPT ![r] = "forked"]
    /\ UNCHANGED <<g_halide_executor, phase, target, newest>>

RowsDone(r) ==
    /\ loop[r] = "forked"
    /\ loop' = [loop EXCEPT ![r] = "idle"]
    /\ UNCHANGED <<g_halide_executor, phase, target, newest>>

\* Mutant: the destructor clears the pointer unconditionally.
UnhookedAlways(r) == Null
\* compare_exchange_strong(&executor_, nullptr)
Unhooked(r) == IF g_halide_executor = r THEN Null ELSE g_halide_executor

\* Scheduler::~Scheduler, once run() has returned: the body ...
Unhook(r) ==
    /\ phase[r] = "alive" /\ loop[r] = "idle"
    /\ g_halide_executor' = Unhooked(r)
    /\ phase' = [phase EXCEPT ![r] = "unhooked"]
    /\ UNCHANGED <<loop, target, newest>>

\* ... then the member executor_, whose destructor waits for its taskflows.
DestroyExecutor(r) ==
    /\ phase[r] = "unhooked"
    /\ \A q \in Schedulers : ~(loop[q] = "forked" /\ target[q] = r)
    /\ phase' = [phase EXCEPT ![r] = "destroyed"]
    /\ UNCHANGED <<g_halide_executor, loop, target, newest>>

AllDestroyed == (\A r \in Schedulers : phase[r] = "destroyed") /\ UNCHANGED hookVars

HookNext ==
    \/ \E r \in Schedulers :
          \/ Construct(r) \/ LoadExecutor(r) \/ LoopInPlace(r) \/ SubmitRows(r)
          \/ RowsDone(r) \/ Unhook(r) \/ DestroyExecutor(r)
    \/ AllDestroyed

HookSpec == HookInit /\ [][HookNext]_hookVars

(* Whatever the order in which Schedulers are built and destroyed, the pointer that
   Halide's loops read names the newest one while that one lives, and else nothing:
   destroying an older Scheduler does not take the hook away.  So the loops of the
   newest run are always on its own executor, which lives until they are done.  The
   exception are the loops of an older run, which may have loaded the executor of a
   newer one and submit to it after it was destroyed. *)
NewestKeepsHook ==
    /\ g_halide_executor = IF newest # Null /\ phase[newest] = "alive" THEN newest ELSE Null
    /\ newest # Null /\ loop[newest] # "idle" => target[newest] = newest /\ phase[newest] = "alive"
=============================================================================
