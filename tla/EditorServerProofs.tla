------------------------- MODULE EditorServerProofs -------------------------
(***************************************************************************)
(* Proofs about the three threads of EditorServer, for any number of       *)
(* clients, any debounce time and any number of starts.                    *)
(***************************************************************************)
EXTENDS EditorServer, TLAPS

ServerType ==
    /\ debounce \in [stop : BOOLEAN, pending : BOOLEAN, deadline : Nat]
    /\ start \in [complete : BOOLEAN, success : BOOLEAN]
    /\ deferred \in Seq({"emit", "close", "nothing"})
    /\ now \in Nat /\ updated \in Nat

\* Which threads there are while the caller is where it is, and which of them has sockets.
ThreadsInv ==
    /\ io = "none" <=> caller = "stopped"
    /\ caller = "stopped" => ~loop /\ ~listen_socket /\ ~running
    /\ listening \/ clients # {} => io = "run"
    /\ debouncer # "none" => caller \in {"serving", "stop", "join_debouncer"}

\* A start that succeeded leaves the I/O thread in its loop, with the socket open, until stop() has
\* deferred the closing; only an exception takes it out, and then start_success_ is taken back.
StartInv ==
    start.success /\ caller \notin {"join_io", "stopped"} =>
        \/ io = "run" /\ listening
        \/ io = "catch"

\* Closing is deferred by the last step of stop() before it waits.
ClosingInv ==
    /\ \A k \in 1..Len(deferred) : deferred[k] = "close" => caller = "join_io"
    /\ CloseIsLast

\* A re-run that is pending is due a whole debounce time after the latest update, and the debounce
\* thread only waits for one that is.
DebounceInv ==
    /\ debounce.pending => debounce.deadline = updated + Debounce
    /\ debouncer = "timed" /\ ~debounce.stop => debounce.pending

ServerInv == ServerType /\ ThreadsInv /\ StartInv /\ ClosingInv /\ DebounceInv

\* No step of the thread that calls start() and stop() breaks the invariant.
LEMMA CallerKeeps == ASSUME ServerInv, Start \/ StartTimesOut \/ RequestStop \/ CallerStep PROVE ServerInv'
<1> USE DEF ServerInv, ServerType, ThreadsInv, StartInv, ClosingInv, DebounceInv, CloseIsLast,
           callerVars, ioVars, sockets, debouncerVars, atomics, ghosts
<1>1. ASSUME Start PROVE ServerInv'
  BY <1>1 DEF Start
<1>2. ASSUME StartTimesOut PROVE ServerInv'
  BY <1>2 DEF StartTimesOut
<1>3. ASSUME StartFails PROVE ServerInv'
  BY <1>3 DEF StartFails
<1>4. ASSUME StartSucceeds PROVE ServerInv'
  BY <1>4 DEF StartSucceeds
<1>5. ASSUME ResetDebounce PROVE ServerInv'
  BY <1>5 DEF ResetDebounce, FreshDebounce
<1>6. ASSUME SpawnDebouncer PROVE ServerInv'
  BY <1>6 DEF SpawnDebouncer
<1>7. ASSUME RequestStop PROVE ServerInv'
  BY <1>7 DEF RequestStop
<1>8. ASSUME StopDebounce PROVE ServerInv'
  BY <1>8 DEF StopDebounce
<1>9. ASSUME JoinDebouncer PROVE ServerInv'
  BY <1>9 DEF JoinDebouncer, Joinable
<1>10. ASSUME LoadLoop PROVE ServerInv'
  BY <1>10 DEF LoadLoop
<1>11. ASSUME LoadSocket PROVE ServerInv'
  BY <1>11 DEF LoadSocket
<1>12. ASSUME DeferClose PROVE ServerInv'
  BY <1>12 DEF DeferClose, Closing
<1>13. ASSUME JoinIo PROVE ServerInv'
  BY <1>13 DEF JoinIo, IoJoinable
<1>. QED
  BY <1>1, <1>2, <1>3, <1>4, <1>5, <1>6, <1>7, <1>8, <1>9, <1>10, <1>11, <1>12, <1>13 DEF CallerStep

\* No step of io_thread_ breaks the invariant.
LEMMA IoKeeps == ASSUME ServerInv, IoStep PROVE ServerInv'
<1> USE DEF ServerInv, ServerType, ThreadsInv, StartInv, ClosingInv, DebounceInv, CloseIsLast,
           callerVars, ioVars, sockets, debouncerVars, atomics, ghosts
<1>1. ASSUME IoSetup PROVE ServerInv'
  BY <1>1 DEF IoSetup
<1>2. ASSUME IoThrows PROVE ServerInv'
  BY <1>2 DEF IoThrows
<1>3. ASSUME IoCatch PROVE ServerInv'
  BY <1>3 DEF IoCatch, Failure
<1>4. ASSUME NEW bound \in BOOLEAN, Listen(bound) PROVE ServerInv'
  BY <1>4 DEF Listen
<1>5. ASSUME RunDeferred PROVE ServerInv'
  BY <1>5 DEF RunDeferred
<1>6. ASSUME IoReturns PROVE ServerInv'
  BY <1>6 DEF IoReturns
<1>7. ASSUME IoClearSocket PROVE ServerInv'
  BY <1>7 DEF IoClearSocket
<1>8. ASSUME IoClearLoop PROVE ServerInv'
  BY <1>8 DEF IoClearLoop
<1>9. ASSUME IoEnds PROVE ServerInv'
  BY <1>9 DEF IoEnds
<1>10. ASSUME EmitThrows PROVE ServerInv'
  BY <1>10 DEF EmitThrows, Uncaught
<1>. QED
  BY <1>1, <1>2, <1>3, <1>4, <1>5, <1>6, <1>7, <1>8, <1>9, <1>10 DEF IoStep

\* No step of param_debounce_loop breaks the invariant.
LEMMA DebouncerKeeps == ASSUME ServerInv, DebouncerStep PROVE ServerInv'
<1> USE DEF ServerInv, ServerType, ThreadsInv, StartInv, ClosingInv, DebounceInv, CloseIsLast,
           callerVars, ioVars, sockets, debouncerVars, atomics, ghosts
<1>1. ASSUME DebounceWakes PROVE ServerInv'
  BY <1>1 DEF DebounceWakes, Resume
<1>2. ASSUME DebounceRescheduled PROVE ServerInv'
  BY <1>2 DEF DebounceRescheduled, Resume
<1>3. ASSUME DebounceExpires PROVE ServerInv'
  BY <1>3 DEF DebounceExpires, Expired
<1>4. ASSUME DebounceLoads PROVE ServerInv'
  BY <1>4 DEF DebounceLoads
<1>5. ASSUME DebounceEmits PROVE ServerInv'
  BY <1>5 DEF DebounceEmits, Resume
<1>. QED
  BY <1>1, <1>2, <1>3, <1>4, <1>5 DEF DebouncerStep

\* Nothing a client does breaks the invariant.
LEMMA ClientsKeep == ASSUME ServerInv, ClientStep PROVE ServerInv'
<1> USE DEF ServerInv, ServerType, ThreadsInv, StartInv, ClosingInv, DebounceInv, CloseIsLast,
           callerVars, ioVars, sockets, debouncerVars, atomics, ghosts
<1>1. ASSUME NEW c \in Clients, Connect(c) PROVE ServerInv'
  BY <1>1 DEF Connect
<1>2. ASSUME NEW c \in Clients, Disconnect(c) PROVE ServerInv'
  BY <1>2 DEF Disconnect
<1>3. ASSUME NEW c \in Clients, UpdateParam(c) PROVE ServerInv'
  <2>1. debounce.deadline \in Nat /\ Debounce \in Nat /\ now + Debounce \in Nat
    BY ConstantsAssumption
  <2>2. debounce' = [stop |-> debounce.stop, pending |-> TRUE, deadline |-> now + Debounce] /\ updated' = now
    BY <1>3 DEF UpdateParam, Rescheduled
  <2>3. /\ debounce'.stop = debounce.stop /\ debounce'.pending /\ debounce'.deadline = updated' + Debounce
        /\ debounce' \in [stop : BOOLEAN, pending : BOOLEAN, deadline : Nat]
    BY <2>1, <2>2
  <2>4. UNCHANGED <<callerVars, ioVars, debouncerVars, atomics, start, deferred, now>>
    BY <1>3 DEF UpdateParam
  <2>5. DebounceInv'
    BY <2>3, <2>4
  <2>. QED
    BY <2>2, <2>3, <2>4, <2>5
<1>4. ASSUME NEW c \in Clients, PutPipeline(c) PROVE ServerInv'
  BY <1>4 DEF PutPipeline
<1>5. ASSUME NEW c \in Clients, PostRun(c) PROVE ServerInv'
  BY <1>5 DEF PostRun, Uncaught
<1>. QED
  BY <1>1, <1>2, <1>3, <1>4, <1>5 DEF ClientStep

\* Every step keeps the invariant, so it holds throughout.
LEMMA ServerInvariant == Spec => []ServerInv
<1>1. Init => ServerInv
  BY DEF Init, ServerInv, ServerType, ThreadsInv, StartInv, ClosingInv, DebounceInv, CloseIsLast
<1>2. ServerInv /\ [Next]_vars => ServerInv'
  <2> SUFFICES ASSUME ServerInv, [Next]_vars PROVE ServerInv'
    OBVIOUS
  <2>1. ASSUME UNCHANGED <<callerVars, ioVars, debouncerVars, atomics, start, deferred, debounce, ghosts>>, now' \in Nat
        PROVE  ServerInv'
    BY <2>1 DEF ServerInv, ServerType, ThreadsInv, StartInv, ClosingInv, DebounceInv, CloseIsLast,
       callerVars, ioVars, sockets, debouncerVars, atomics, ghosts
  <2>2. ASSUME Tick PROVE ServerInv'
    BY <2>1, <2>2 DEF Tick, ServerInv, ServerType
  <2>3. ASSUME UNCHANGED vars PROVE ServerInv'
    BY <2>1, <2>3 DEF vars, ServerInv, ServerType
  <2>. QED
    BY <2>2, <2>3, CallerKeeps, IoKeeps, DebouncerKeeps, ClientsKeep DEF Next, Terminated
<1>. QED
  BY <1>1, <1>2, PTL DEF Spec

\* When stop() has returned no thread, pointer, socket or connection of the server is left, whatever
\* was going on when it was called, but for the sockets of a loop that an exception ended
\* (EditorServer::stop and the end of io_thread_).
THEOREM Quiescent == Spec => []StoppedIsQuiescent
<1>1. ServerInv => StoppedIsQuiescent
  BY DEF ServerInv, ThreadsInv, StoppedIsQuiescent
<1>. QED
  BY <1>1, ServerInvariant, PTL

\* The loop that stop() and param_debounce_loop loaded still exists when they call defer on it, but
\* after a failed bind or an exception out of app.run() (EditorServer::stop, param_debounce_loop).
THEOREM LoopOutlives == Spec => []LoopOutlivesDefer
<1>1. ServerInv => LoopOutlivesDefer
  BY DEF ServerInv, ThreadsInv, StartInv, LoopOutlivesDefer
<1>. QED
  BY <1>1, ServerInvariant, PTL

\* No re-run is queued behind the closing of the socket (stop() joins the debounce thread first).
THEOREM ClosingIsLast == Spec => []CloseIsLast
<1>1. ServerInv => CloseIsLast
  BY DEF ServerInv, ClosingInv
<1>. QED
  BY <1>1, ServerInvariant, PTL

\* The debounce thread re-runs only after a whole debounce time without an update
\* (schedule_param_rerun, param_debounce_loop).
THEOREM QuietRerun == Spec => QuietBeforeRerun
<1>1. ServerInv /\ [Next]_vars => [debouncer = "timed" /\ debouncer' = "load" => now >= updated + Debounce]_vars
  <2> SUFFICES ASSUME ServerInv, [Next]_vars, debouncer = "timed", debouncer' = "load"
               PROVE  now >= updated + Debounce
    OBVIOUS
  <2>1. CASE DebounceExpires
    BY <2>1, ConstantsAssumption DEF DebounceExpires, Expired, ServerInv, ServerType, DebounceInv
  <2>2. CASE ~DebounceExpires
    <3>1. CASE DebouncerStep
      BY <2>2, <3>1 DEF DebouncerStep, DebounceWakes, DebounceRescheduled, DebounceLoads, DebounceEmits, Resume
    <3>2. CASE UNCHANGED debouncer \/ debouncer' \in {"idle", "none"}
      BY <3>2
    <3>3. CASE Start \/ StartTimesOut \/ RequestStop \/ CallerStep
      BY <3>2, <3>3 DEF CallerStep, Start, StartTimesOut, StartFails, StartSucceeds, ResetDebounce, SpawnDebouncer, RequestStop,
         StopDebounce, JoinDebouncer, LoadLoop, LoadSocket, DeferClose, JoinIo, debouncerVars
    <3>4. CASE IoStep
      BY <3>2, <3>4 DEF IoStep, IoSetup, IoThrows, IoCatch, Listen, RunDeferred, EmitThrows, Uncaught, IoReturns, IoClearSocket,
         IoClearLoop, IoEnds, debouncerVars
    <3>5. CASE ClientStep \/ Tick \/ UNCHANGED vars
      BY <3>2, <3>5 DEF ClientStep, Connect, Disconnect, UpdateParam, PutPipeline, PostRun, Uncaught, Tick, vars, debouncerVars
    <3>. QED
      BY <3>1, <3>3, <3>4, <3>5 DEF Next, Terminated
  <2>. QED
    BY <2>1, <2>2
<1>. QED
  BY <1>1, ServerInvariant, PTL DEF Spec, QuietBeforeRerun
=============================================================================
