---------------------------- MODULE EditorServer ----------------------------
(***************************************************************************)
(* The three threads of EditorServer: the thread that calls start() and    *)
(* stop(), the I/O thread that runs the uWebSockets loop, and the thread   *)
(* that debounces parameter updates into re-runs.  A step is what a thread *)
(* does between two points where another thread can get in; the sections   *)
(* under param_debounce_mutex_ are single steps.  What the handlers do to  *)
(* the session is in EditorSession; here a client updates parameters, and  *)
(* replaces the document by one whose profile can or cannot be built.      *)
(***************************************************************************)
EXTENDS Naturals, Sequences, FiniteSets

CONSTANTS
    Clients,          \* WebSocket connections
    Debounce,         \* ticks of the 200 ms of schedule_param_rerun
    MaxTime,          \* bound on the clock
    MaxStarts         \* bound on the calls of start()

ASSUME ConstantsAssumption ==
    Debounce \in Nat \ {0} /\ MaxTime \in Nat /\ MaxStarts \in Nat

VARIABLES
    caller,           \* where the thread of start() and stop() is
    io,               \* where io_thread_ is
    debouncer,        \* where param_debounce_thread_ is
    start_mutex,      \* who holds start_mutex_ across steps: {} or {"caller"}
    start,            \* start_complete_ and start_success_
    loop, listen_socket, running,  \* the atomics loop_, listen_socket_, running_
    taken,            \* loop_ and listen_socket_ as stop() loaded them
    loaded,           \* loop_ as param_debounce_loop loaded it
    listening,        \* does the loop have an open listen socket?
    clients,          \* its open connections, HTTP and WebSocket
    left,             \* are sockets open whose loop an exception has ended?
    sound,            \* is every node of active_pipeline_ an object?
    deferred,         \* callbacks given to Loop::defer and not run yet
    debounce,         \* param_debounce_stop_, _pending_ and _deadline_
    deadline,         \* the deadline param_debounce_loop waits for
    now,              \* the steady clock
    starts,           \* calls of start()
    updated,          \* time of the latest accepted update
    owed              \* updates accepted for which no run was emitted: "early", "served"

callerVars == <<caller, start_mutex, taken, starts>>
sockets == <<listening, clients, left>>
ioVars == <<io, sockets, sound>>
debouncerVars == <<debouncer, loaded, deadline>>
atomics == <<loop, listen_socket, running>>
ghosts == <<updated, owed>>
vars == <<callerVars, ioVars, debouncerVars, atomics, start, deferred, debounce, now, ghosts>>

Init ==
    /\ caller = "stopped" /\ io = "none" /\ debouncer = "none"
    /\ start_mutex = {} /\ start = [complete |-> FALSE, success |-> FALSE]
    /\ loop = FALSE /\ listen_socket = FALSE /\ running = FALSE
    /\ taken = [loop |-> FALSE, socket |-> FALSE] /\ loaded = FALSE
    /\ listening = FALSE /\ clients = {} /\ left = FALSE /\ sound \in BOOLEAN /\ deferred = <<>>
    /\ debounce = [stop |-> FALSE, pending |-> FALSE, deadline |-> 0] /\ deadline = 0
    /\ now = 0 /\ starts = 0 /\ updated = 0 /\ owed = {}

---------------------------------------------------------------------------
(* start() *)

Start ==
    /\ caller = "stopped" /\ ~running /\ starts < MaxStarts
    /\ start' = [complete |-> FALSE, success |-> FALSE]
    /\ io' = "setup" /\ caller' = "waiting" /\ starts' = starts + 1
    /\ UNCHANGED <<debouncerVars, atomics, start_mutex, taken, sockets, sound, deferred, debounce, now, ghosts>>

\* start_cv_.wait_for gives up; start() then calls stop() with start_mutex_ held.
StartTimesOut ==
    /\ caller = "waiting" /\ ~start.complete
    /\ caller' = "stop" /\ start_mutex' = {"caller"}
    /\ UNCHANGED <<ioVars, debouncerVars, atomics, start, taken, deferred, debounce, now, starts, ghosts>>

StartFails ==
    /\ caller = "waiting" /\ start.complete /\ ~start.success
    /\ caller' = "stop"
    /\ UNCHANGED <<ioVars, debouncerVars, atomics, start_mutex, start, taken, deferred, debounce, now, starts, ghosts>>

StartSucceeds ==
    /\ caller = "waiting" /\ start.complete /\ start.success
    /\ caller' = "reset" /\ start_mutex' = {"caller"}
    /\ UNCHANGED <<ioVars, debouncerVars, atomics, start, taken, deferred, debounce, now, starts, ghosts>>

\* Mutant: the flag that ended the previous debounce thread is left set.
FreshDebounceStopped == [debounce EXCEPT !.pending = FALSE]
FreshDebounce == [debounce EXCEPT !.stop = FALSE, !.pending = FALSE]

ResetDebounce ==
    /\ caller = "reset"
    /\ debounce' = FreshDebounce /\ caller' = "spawn"
    /\ UNCHANGED <<ioVars, debouncerVars, atomics, start_mutex, start, taken, deferred, now, starts, ghosts>>

SpawnDebouncer ==
    /\ caller = "spawn"
    /\ debouncer' = "idle" /\ caller' = "serving" /\ start_mutex' = {}
    /\ UNCHANGED <<ioVars, loaded, deadline, atomics, start, taken, deferred, debounce, now, starts, ghosts>>

---------------------------------------------------------------------------
(* stop() *)

\* The serve command saw SIGINT, SIGTERM, or running() false.
RequestStop ==
    /\ caller = "serving"
    /\ caller' = "stop"
    /\ UNCHANGED <<ioVars, debouncerVars, atomics, start_mutex, start, taken, deferred, debounce, now, starts, ghosts>>

StopDebounce ==
    /\ caller = "stop"
    /\ debounce' = [debounce EXCEPT !.stop = TRUE, !.pending = FALSE]
    /\ caller' = "join_debouncer"
    /\ UNCHANGED <<ioVars, debouncerVars, atomics, start_mutex, start, taken, deferred, now, starts, ghosts>>

\* Mutant: stop() does not wait for the debounce thread.
JoinableAlways == TRUE
Joinable == debouncer \in {"none", "ended"}

JoinDebouncer ==
    /\ caller = "join_debouncer" /\ Joinable
    /\ debouncer' = (IF debouncer = "ended" THEN "none" ELSE debouncer) /\ caller' = "load_loop"
    /\ UNCHANGED <<ioVars, loaded, deadline, atomics, start_mutex, start, taken, deferred, debounce, now, starts, ghosts>>

LoadLoop ==
    /\ caller = "load_loop"
    /\ taken' = [taken EXCEPT !.loop = loop] /\ caller' = "load_socket"
    /\ UNCHANGED <<ioVars, debouncerVars, atomics, start_mutex, start, deferred, debounce, now, starts, ghosts>>

LoadSocket ==
    /\ caller = "load_socket"
    /\ taken' = [taken EXCEPT !.socket = listen_socket] /\ caller' = "defer"
    /\ UNCHANGED <<ioVars, debouncerVars, atomics, start_mutex, start, deferred, debounce, now, starts, ghosts>>

\* The callback closes the socket stop() loaded, and nothing when that was null.
Closing == IF taken.socket THEN "close" ELSE "nothing"

DeferClose ==
    /\ caller = "defer"
    /\ deferred' = (IF taken.loop THEN Append(deferred, Closing) ELSE deferred)
    /\ caller' = "join_io"
    /\ UNCHANGED <<ioVars, debouncerVars, atomics, start_mutex, start, taken, debounce, now, starts, ghosts>>

\* Mutant: the I/O thread is detached.
IoJoinableAlways == TRUE
IoJoinable == io \in {"none", "ended"}

\* io_thread_.join() and the stores after it; the callbacks left went with the loop, and
\* a start() that called stop() releases start_mutex_ when it returns.
JoinIo ==
    /\ caller = "join_io" /\ IoJoinable
    /\ io' = (IF io = "ended" THEN "none" ELSE io)
    /\ loop' = FALSE /\ listen_socket' = FALSE /\ running' = FALSE
    /\ deferred' = <<>> /\ start_mutex' = {} /\ caller' = "stopped" /\ owed' = {}
    /\ UNCHANGED <<sockets, sound, debouncerVars, start, taken, debounce, now, starts, updated>>

---------------------------------------------------------------------------
(* io_thread_ *)

IoSetup ==
    /\ io = "setup"
    /\ loop' = TRUE /\ io' = "listen"
    /\ UNCHANGED <<callerVars, sockets, sound, debouncerVars, listen_socket, running, start, deferred, debounce, now, ghosts>>

Failure == [complete |-> TRUE, success |-> FALSE]

\* An exception on the way to app.run(); the catch clause reports it under start_mutex_.
IoThrows ==
    /\ io = "setup"
    /\ io' = "catch"
    /\ UNCHANGED <<callerVars, sockets, sound, debouncerVars, atomics, start, deferred, debounce, now, ghosts>>

IoCatch ==
    /\ io = "catch" /\ start_mutex = {}
    /\ start' = Failure /\ io' = "returned"
    /\ UNCHANGED <<callerVars, sockets, sound, debouncerVars, atomics, deferred, debounce, now, ghosts>>

\* The callback of app.listen, with the socket or, when binding failed, null.
Listen(bound) ==
    /\ io = "listen" /\ start_mutex = {}
    /\ listen_socket' = bound /\ listening' = bound /\ running' = bound
    /\ start' = [complete |-> TRUE, success |-> bound] /\ io' = "run"
    /\ UNCHANGED <<callerVars, clients, left, sound, debouncerVars, loop, deferred, debounce, now, ghosts>>

Connect(c) ==
    /\ io = "run" /\ listening /\ c \notin clients
    /\ clients' = clients \cup {c}
    /\ UNCHANGED <<callerVars, io, listening, left, sound, debouncerVars, atomics, start, deferred, debounce, now, ghosts>>

Disconnect(c) ==
    /\ io = "run" /\ c \in clients
    /\ clients' = clients \ {c}
    /\ UNCHANGED <<callerVars, io, listening, left, sound, debouncerVars, atomics, start, deferred, debounce, now, ghosts>>

Rescheduled == [debounce EXCEPT !.pending = TRUE, !.deadline = now + Debounce]

\* An update is early while start() has yet to reset the debounce flags.
Arrival == IF caller \in {"waiting", "reset"} THEN "early" ELSE "served"

\* A node.update_param that apply_param_delta accepts, then schedule_param_rerun.
UpdateParam(c) ==
    /\ io = "run" /\ c \in clients /\ now + Debounce <= MaxTime
    /\ debounce' = Rescheduled
    /\ updated' = now /\ owed' = owed \cup {Arrival}
    /\ UNCHANGED <<callerVars, ioVars, debouncerVars, atomics, start, deferred, now>>

\* PUT /api/pipelines/active: replace_active_pipeline does not look at the nodes.
PutPipeline(c) ==
    /\ io = "run" /\ c \in clients
    /\ sound' \in BOOLEAN
    /\ UNCHANGED <<callerVars, io, sockets, debouncerVars, atomics, start, deferred, debounce, now, ghosts>>

\* profile_payload throws on a node that is not an object, and nothing catches it before the catch
\* clause around app.run(): App goes, and its sockets stay open without a loop.
Uncaught ==
    /\ ~sound
    /\ io' = "catch" /\ listening' = FALSE /\ clients' = {}
    /\ left' = (left \/ listening \/ clients # {})
    /\ UNCHANGED <<callerVars, sound, debouncerVars, atomics, start, debounce, now, ghosts>>

\* POST /api/pipelines/active/run; of a sound document it changes nothing here.
PostRun(c) ==
    /\ io = "run" /\ c \in clients
    /\ Uncaught /\ UNCHANGED deferred

EmitThrows ==
    /\ io = "run" /\ deferred # <<>> /\ Head(deferred) = "emit"
    /\ Uncaught /\ deferred' = Tail(deferred)

\* The loop runs the oldest deferred callback: close the socket, or emit_completed_run.
RunDeferred ==
    /\ io = "run" /\ deferred # <<>> /\ (Head(deferred) = "emit" => sound)
    /\ listening' = (listening /\ Head(deferred) # "close")
    /\ owed' = (IF Head(deferred) = "emit" THEN {} ELSE owed)
    /\ deferred' = Tail(deferred)
    /\ UNCHANGED <<callerVars, io, clients, left, sound, debouncerVars, atomics, start, debounce, now, updated>>

\* app.run() returns once neither the listen socket nor a connection is left.
IoReturns ==
    /\ io = "run" /\ ~listening /\ clients = {}
    /\ io' = "returned"
    /\ UNCHANGED <<callerVars, sockets, sound, debouncerVars, atomics, start, deferred, debounce, now, ghosts>>

IoClearSocket ==
    /\ io = "returned"
    /\ listen_socket' = FALSE /\ io' = "clear_loop"
    /\ UNCHANGED <<callerVars, sockets, sound, debouncerVars, loop, running, start, deferred, debounce, now, ghosts>>

IoClearLoop ==
    /\ io = "clear_loop"
    /\ loop' = FALSE /\ io' = "clear_running"
    /\ UNCHANGED <<callerVars, sockets, sound, debouncerVars, listen_socket, running, start, deferred, debounce, now, ghosts>>

\* The thread ends and frees its thread-local loop.
IoEnds ==
    /\ io = "clear_running"
    /\ running' = FALSE /\ io' = "ended"
    /\ UNCHANGED <<callerVars, sockets, sound, debouncerVars, loop, listen_socket, start, deferred, debounce, now, ghosts>>

---------------------------------------------------------------------------
(* param_debounce_loop *)

\* Where the loop goes on when it has the mutex and evaluates its conditions.
Resume(d) == IF d.stop THEN "ended" ELSE IF d.pending THEN "timed" ELSE "idle"

\* Mutant: the predicate of the wait leaves out the stop flag.
WakeableIfPending == debounce.pending
Wakeable == debounce.stop \/ debounce.pending

\* param_debounce_cv_.wait is satisfied.
DebounceWakes ==
    /\ debouncer = "idle" /\ Wakeable
    /\ debouncer' = Resume(debounce) /\ deadline' = debounce.deadline
    /\ UNCHANGED <<callerVars, ioVars, atomics, loaded, start, deferred, debounce, now, ghosts>>

\* wait_until returns true: stopped, or the deadline has moved.
DebounceRescheduled ==
    /\ debouncer = "timed" /\ (debounce.stop \/ debounce.deadline # deadline)
    /\ debouncer' = Resume(debounce) /\ deadline' = debounce.deadline
    /\ UNCHANGED <<callerVars, ioVars, atomics, loaded, start, deferred, debounce, now, ghosts>>

\* Mutant: the moved deadline is not noticed.
ExpiredAnyway == ~debounce.stop /\ now >= deadline
Expired == ~debounce.stop /\ debounce.deadline = deadline /\ now >= deadline

DebounceExpires ==
    /\ debouncer = "timed" /\ Expired
    /\ debounce' = [debounce EXCEPT !.pending = FALSE] /\ debouncer' = "load"
    /\ UNCHANGED <<callerVars, ioVars, atomics, loaded, deadline, start, deferred, now, ghosts>>

DebounceLoads ==
    /\ debouncer = "load"
    /\ loaded' = loop /\ debouncer' = "emit"
    /\ UNCHANGED <<callerVars, ioVars, atomics, deadline, start, deferred, debounce, now, ghosts>>

\* Loop::defer with emit_completed_run, then the mutex is taken again.
DebounceEmits ==
    /\ debouncer = "emit"
    /\ deferred' = (IF loaded THEN Append(deferred, "emit") ELSE deferred)
    /\ debouncer' = Resume(debounce) /\ deadline' = debounce.deadline
    /\ UNCHANGED <<callerVars, ioVars, atomics, loaded, start, debounce, now, ghosts>>

Tick == now < MaxTime /\ now' = now + 1
        /\ UNCHANGED <<callerVars, ioVars, debouncerVars, atomics, start, deferred, debounce, ghosts>>

---------------------------------------------------------------------------
CallerStep ==
    \/ StartFails \/ StartSucceeds \/ ResetDebounce \/ SpawnDebouncer
    \/ StopDebounce \/ JoinDebouncer \/ LoadLoop \/ LoadSocket \/ DeferClose \/ JoinIo

IoStep ==
    \/ IoSetup \/ IoThrows \/ IoCatch \/ \E bound \in BOOLEAN : Listen(bound)
    \/ RunDeferred \/ EmitThrows \/ IoReturns \/ IoClearSocket \/ IoClearLoop \/ IoEnds

DebouncerStep ==
    DebounceWakes \/ DebounceRescheduled \/ DebounceExpires \/ DebounceLoads \/ DebounceEmits

ClientStep == \E c \in Clients : Connect(c) \/ Disconnect(c) \/ UpdateParam(c) \/ PutPipeline(c) \/ PostRun(c)

\* The process stays as it is once nobody calls start() again.
Terminated == caller = "stopped" /\ starts = MaxStarts /\ now = MaxTime /\ UNCHANGED vars

Next ==
    \/ Start \/ StartTimesOut \/ RequestStop \/ CallerStep
    \/ IoStep \/ DebouncerStep \/ ClientStep \/ Tick \/ Terminated

\* The operating system runs every thread and the clock advances; nobody has to call
\* start() or stop(), no client has to do anything, and the 5 s of start() are enough or not.
Fairness == WF_vars(CallerStep) /\ WF_vars(IoStep) /\ WF_vars(DebouncerStep) /\ WF_vars(Tick)

Spec == Init /\ [][Next]_vars /\ Fairness

\* In addition, whoever is connected leaves some day.
LeavingSpec == Spec /\ \A c \in Clients : WF_vars(Disconnect(c))

---------------------------------------------------------------------------
(* When stop() has returned, and when start() has failed, nothing of the server is left:
   no thread, no pointer into the loop, and no socket or connection, whatever stop() met,
   an exception out of app.run() included.  The exception is `left`: the sockets that were
   open when such an exception ended their loop are nobody's to close. *)
StoppedIsQuiescent ==
    caller = "stopped" =>
        /\ io = "none" /\ debouncer = "none"
        /\ ~listening /\ clients = {} /\ ~loop /\ ~listen_socket /\ ~running

(* stop() and param_debounce_loop load loop_ and use it later, while the I/O thread may
   clear it and end: the loop they call defer on still exists.  The exceptions are the two
   ways the I/O thread ends by itself, a failed bind and an exception out of app.run();
   start_success_ is false after both. *)
LoopOutlivesDefer ==
    io = "ended" /\ start.success =>
        ~(caller = "defer" /\ taken.loop) /\ ~(debouncer = "emit" /\ loaded)

(* stop() joins the debounce thread before it defers the closing of the socket, so no
   re-run is ever queued behind it, where app.run() might return without running it. *)
CloseIsLast == \A i \in DOMAIN deferred : deferred[i] = "close" => i = Len(deferred)

(* The debounce loop decides to re-run only when no update was accepted for the whole
   debounce time, although updates move the deadline while it waits without the lock. *)
QuietBeforeRerun ==
    [][debouncer = "timed" /\ debouncer' = "load" => now >= updated + Debounce]_vars

(* stop() runs inside a start() that gave up and holds start_mutex_. *)
GaveUp == start_mutex # {} /\ caller \in {"stop", "join_debouncer", "load_loop", "load_socket", "defer", "join_io"}

(* start() returns, whether the bind succeeds or fails or the I/O thread throws, and a stop()
   that was called returns once the clients have left ("`cpipe serve --port 4747` exits 0
   on `Ctrl-C`", docs/phase-03-editor-iqa.md:385): their waits for the I/O thread and the
   debounce thread never form a cycle.  The exception is a start() whose 5 s expire: it
   calls stop() with start_mutex_ held, and joins a thread that waits for that mutex. *)
CallsReturn ==
    /\ caller = "waiting" ~> caller \in {"serving", "stopped"} \/ GaveUp
    /\ caller = "stop" /\ ~GaveUp ~> caller = "stopped"

(* docs/phase-03-editor-iqa.md:90: "runtime applies the delta and triggers an internal
   re-run after a 200 ms server-side debounce": an update accepted after start() has reset
   the debounce flags leads to a run, unless the server is asked to stop or an exception
   takes the I/O thread out of app.run(). *)
UpdateReRuns ==
    "served" \in owed ~>
        "served" \notin owed \/ ~start.success \/ caller \in {"stop", "join_debouncer", "stopped"}
=============================================================================
