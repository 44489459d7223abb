---------------------------- MODULE EditorSession ----------------------------
(***************************************************************************)
(* What the handlers of EditorServer do to the session: the one active     *)
(* pipeline, its runs, the connections, and the thumbnail subscriptions    *)
(* with their rate cap.  Every handler runs on the I/O thread, so a        *)
(* request or a deferred callback is one step.  The debounce thread of     *)
(* EditorServer appears as the deadline of the re-run that is due.         *)
(***************************************************************************)
EXTENDS Naturals, FiniteSets, Functions, FiniteSetsExt

CONSTANTS
    Clients,       \* WebSocket connections
    Documents,     \* pipelines a client may PUT, as functions from node ids to parameter values
    Values,        \* parameter values
    Intervals,     \* thumbnail intervals a client may ask for: 1000 / fps in ticks
    FullRate,      \* subscribers of one port served at the rate they asked for (4 in the code)
    CapInterval,   \* interval for more subscribers than that (2 fps in the code)
    Debounce,      \* ticks of the 200 ms of schedule_param_rerun
    MaxTime, MaxRuns, MaxPuts   \* bounds on the clock, the runs and the replacements

ASSUME SessionAssumption ==
    /\ Intervals \subseteq Nat \ {0} /\ Debounce \in Nat \ {0}
    /\ {FullRate, CapInterval, MaxTime, MaxRuns, MaxPuts} \subseteq Nat

VARIABLES
    active_pipeline,          \* the document, or nothing: a set of at most one
    runs, next_run_id,        \* runs_, from run ids to the serial number of the run
    ws_clients,
    thumbnail_subscriptions,  \* of each client that has one: the node and the interval
    thumbnail_last_emit,      \* of each node with one since the last PUT: the time
    rerun,                    \* the deadline of the due re-run: a set of at most one
    now,
    serial, replaced,         \* runs and replacements so far
    handed,                   \* what POST run answered: the id, the run, and the replacements then
    shown,                    \* of each subscriber: the run of its latest thumbnail, 0 for none
    due                       \* subscribers that have yet to see an update, see Excused

document == <<active_pipeline, runs, next_run_id, replaced>>
subscribers == <<ws_clients, thumbnail_subscriptions>>
thumbnails == <<thumbnail_last_emit, shown, due>>
vars == <<document, subscribers, thumbnails, rerun, now, serial, handed>>

Empty == [x \in {} |-> 0]
Nodes == UNION {DOMAIN d : d \in Documents}

Init ==
    /\ active_pipeline \in {{}} \cup {{d} : d \in Documents}
    /\ runs = Empty /\ next_run_id = 1 /\ replaced = 0
    /\ ws_clients = {} /\ thumbnail_subscriptions = Empty
    /\ thumbnail_last_emit = Empty /\ shown = Empty /\ due = {}
    /\ rerun = {} /\ now = 0 /\ serial = 0 /\ handed = {}

With(f, x, y) == [z \in DOMAIN f \cup {x} |-> IF z = x THEN y ELSE f[z]]
Without(f, x) == Restrict(f, DOMAIN f \ {x})

---------------------------------------------------------------------------
(* The active pipeline. *)

\* PUT /api/pipelines/active, or set_active_pipeline; a malformed document changes nothing.
Put(d) ==
    /\ replaced < MaxPuts
    /\ active_pipeline' = {d} /\ runs' = Empty /\ next_run_id' = 1
    /\ thumbnail_last_emit' = Empty /\ replaced' = replaced + 1
    /\ UNCHANGED <<subscribers, shown, due, rerun, now, serial, handed>>

\* apply_param_delta: fails without a pipeline or without the node, else sets the value.
Accepts(n) == \E d \in active_pipeline : n \in DOMAIN d
ApplyDelta(n, v) == active_pipeline' = {[d EXCEPT ![n] = v] : d \in active_pipeline}

\* POST /api/pipelines/active/params changes the value and runs nothing.
PostParam(n, v) ==
    /\ Accepts(n) /\ ApplyDelta(n, v)
    /\ UNCHANGED <<runs, next_run_id, replaced, subscribers, thumbnails, rerun, now, serial, handed>>

\* node.update_param, then schedule_param_rerun.
UpdateParam(c, n, v) ==
    /\ c \in ws_clients /\ now + Debounce <= MaxTime
    /\ Accepts(n) /\ ApplyDelta(n, v)
    /\ rerun' = {now + Debounce}
    /\ due' = DOMAIN thumbnail_subscriptions
    /\ UNCHANGED <<runs, next_run_id, replaced, subscribers, thumbnail_last_emit, shown, now, serial, handed>>

---------------------------------------------------------------------------
(* Connections and subscriptions. *)

Open(c) ==
    /\ c \notin ws_clients
    /\ ws_clients' = ws_clients \cup {c}
    /\ UNCHANGED <<document, thumbnail_subscriptions, thumbnails, rerun, now, serial, handed>>

SubscriptionsWithout(c) == Without(thumbnail_subscriptions, c)

Close(c) ==
    /\ c \in ws_clients
    /\ ws_clients' = ws_clients \ {c}
    /\ thumbnail_subscriptions' = SubscriptionsWithout(c)
    /\ shown' = Without(shown, c) /\ due' = due \ {c}
    /\ UNCHANGED <<document, thumbnail_last_emit, rerun, now, serial, handed>>

\* A client that subscribes to the node it is subscribed to keeps its thumbnail, and what it has yet to see.
Subscribed(c, n) == c \in DOMAIN thumbnail_subscriptions /\ thumbnail_subscriptions[c].node = n

Subscribe(c, n, i) ==
    /\ c \in ws_clients
    /\ thumbnail_subscriptions' = With(thumbnail_subscriptions, c, [node |-> n, interval |-> i])
    /\ shown' = (IF Subscribed(c, n) THEN shown ELSE With(shown, c, 0))
    /\ due' = (IF Subscribed(c, n) THEN due ELSE due \ {c})
    /\ UNCHANGED <<document, ws_clients, thumbnail_last_emit, rerun, now, serial, handed>>

\* node.unsubscribe_thumbnail erases the client's one subscription, whatever node it names.
Unsubscribe(c) ==
    /\ c \in ws_clients
    /\ thumbnail_subscriptions' = Without(thumbnail_subscriptions, c)
    /\ shown' = Without(shown, c) /\ due' = due \ {c}
    /\ UNCHANGED <<document, ws_clients, thumbnail_last_emit, rerun, now, serial, handed>>

---------------------------------------------------------------------------
(* Runs and the thumbnails they push. *)

\* The groups of push_thumbnail_frames.
Targets(n) ==
    {c \in DOMAIN thumbnail_subscriptions \cap ws_clients : thumbnail_subscriptions[c].node = n}

EffectiveInterval(n) ==
    IF Cardinality(Targets(n)) > FullRate THEN CapInterval
    ELSE Min({thumbnail_subscriptions[c].interval : c \in Targets(n)})

\* Mutant: a frame is held back when exactly the interval has passed.
EmitsLate(n) ==
    Targets(n) # {} /\ (n \in DOMAIN thumbnail_last_emit => now - thumbnail_last_emit[n] > EffectiveInterval(n))
Emits(n) ==
    Targets(n) # {} /\ (n \in DOMAIN thumbnail_last_emit => now - thumbnail_last_emit[n] >= EffectiveInterval(n))

\* Mutant: only one subscriber of a group is sent the frame.
ReceiversFirst(encoded) == UNION {{CHOOSE c \in Targets(n) : TRUE} : n \in encoded}
Receivers(encoded) == UNION {Targets(n) : n \in encoded}

\* Subscribers to whom the frame of a run is not promised: their group is served more
\* slowly than the debounce, or its frame could not be encoded.
Excused(failed) ==
    UNION {Targets(n) : n \in {n \in Nodes : Targets(n) # {} /\ (n \in failed \/ EffectiveInterval(n) > Debounce)}}

\* push_thumbnail_frames, when the nodes in encoded got a WebP out of the encoder.
PushThumbnails(emitted, encoded, run) ==
    /\ thumbnail_last_emit' = [n \in DOMAIN thumbnail_last_emit \cup emitted |->
                                  IF n \in emitted THEN now ELSE thumbnail_last_emit[n]]
    /\ shown' = [c \in DOMAIN shown |-> IF c \in Receivers(encoded) THEN run ELSE shown[c]]
    /\ due' = due \ (Receivers(encoded) \cup Excused(emitted \ encoded))

\* Mutant: the id is not advanced.
NextRunIdKept == next_run_id
NextRunId == next_run_id + 1

\* create_run_record (emplace keeps a record that is already there), then the frames.
CompleteRun ==
    /\ serial < MaxRuns
    /\ serial' = serial + 1 /\ next_run_id' = NextRunId
    /\ runs' = (IF next_run_id \in DOMAIN runs THEN runs ELSE With(runs, next_run_id, serial'))
    /\ LET emitted == {n \in Nodes : Emits(n)} IN
       \E encoded \in SUBSET emitted :
           PushThumbnails(emitted, encoded, serial')
    /\ UNCHANGED <<active_pipeline, replaced, subscribers, now>>

\* POST /api/pipelines/active/run.
PostRun ==
    /\ CompleteRun
    /\ handed' = handed \cup {[id |-> next_run_id, run |-> serial', replaced |-> replaced]}
    /\ UNCHANGED rerun

\* The debounce thread deferred emit_completed_run.
EmitCompletedRun ==
    /\ \E t \in rerun : now >= t
    /\ CompleteRun /\ rerun' = {}
    /\ UNCHANGED handed

Tick ==
    /\ now < MaxTime /\ now' = now + 1
    /\ UNCHANGED <<document, subscribers, thumbnails, rerun, serial, handed>>

Next ==
    \/ \E d \in Documents : Put(d)
    \/ \E n \in Nodes, v \in Values : PostParam(n, v) \/ \E c \in Clients : UpdateParam(c, n, v)
    \/ \E c \in Clients : Open(c) \/ Close(c) \/ Unsubscribe(c)
    \/ \E c \in Clients, n \in Nodes, i \in Intervals : Subscribe(c, n, i)
    \/ PostRun \/ EmitCompletedRun \/ Tick

Spec == Init /\ [][Next]_vars

---------------------------------------------------------------------------
(* The id that POST run answered finds the record of that very run for as long as the
   pipeline is not replaced, whatever the other clients and the re-runs do. *)
RunIdsKeepMeaning ==
    \A h \in handed : h.replaced = replaced => h.id \in DOMAIN runs /\ runs[h.id] = h.run

(* Frames go to open connections only, and the subscribers of one node that have a
   thumbnail have the same one, whenever they subscribed and whatever rates they asked for. *)
SharedFrames ==
    /\ DOMAIN thumbnail_subscriptions \subseteq ws_clients
    /\ \A c, d \in DOMAIN thumbnail_subscriptions :
          /\ thumbnail_subscriptions[c].node = thumbnail_subscriptions[d].node
          /\ shown[c] # 0 /\ shown[d] # 0
          => shown[c] = shown[d]

(* Once no re-run is due, everybody who was subscribed when an update was accepted has a
   thumbnail from after it: the rate cap may drop frames, but never the one that shows
   the last update.  It is not promised to a group served more slowly than the debounce
   (less than 5 fps), nor when the encoder fails. *)
UpdatesAreShown == rerun = {} => due = {}
=============================================================================
