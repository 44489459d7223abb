------------------------ MODULE EditorSessionProofs ------------------------
(***************************************************************************)
(* Proofs about the editor's session, for any number of clients, documents *)
(* and runs and whatever the rates and bounds are.                         *)
(***************************************************************************)
EXTENDS EditorSession, Sequences, WellFoundedInduction, TLAPS

\* A run id below next_run_id, and only such an id, has been given out since the last PUT.
RunInv ==
    /\ next_run_id \in Nat /\ replaced \in Nat /\ serial \in Nat
    /\ \A id \in DOMAIN runs : id \in Nat /\ id < next_run_id
    /\ \A h \in handed : h.replaced \in Nat /\ h.replaced <= replaced
    /\ RunIdsKeepMeaning

\* create_run_record and PUT /api/pipelines/active are the only handlers that touch the records.
LEMMA CompleteRunKeeps ==
    ASSUME RunInv, CompleteRun,
           handed' = handed \/ handed' = handed \cup {[id |-> next_run_id, run |-> serial', replaced |-> replaced]}
    PROVE  RunInv'
<1>1. next_run_id \notin DOMAIN runs
  BY DEF RunInv
<1>2. runs' = With(runs, next_run_id, serial') /\ next_run_id' = next_run_id + 1 /\ serial' = serial + 1 /\ replaced' = replaced
  BY <1>1 DEF CompleteRun, NextRunId
<1>3. DOMAIN runs' = DOMAIN runs \cup {next_run_id} /\ runs'[next_run_id] = serial' /\ \A id \in DOMAIN runs : runs'[id] = runs[id]
  BY <1>1, <1>2 DEF With
<1>4. /\ next_run_id' \in Nat /\ replaced' \in Nat /\ serial' \in Nat
      /\ \A id \in DOMAIN runs' : id \in Nat /\ id < next_run_id'
  BY <1>2, <1>3 DEF RunInv
<1>5. \A h \in handed : h.replaced \in Nat /\ h.replaced <= replaced' /\ (h.replaced = replaced' => h.id \in DOMAIN runs' /\ runs'[h.id] = h.run)
  BY <1>2, <1>3 DEF RunInv, RunIdsKeepMeaning
<1>6. \A h \in handed' : h \in handed \/ (h.id = next_run_id /\ h.run = serial' /\ h.replaced = replaced)
  OBVIOUS
<1>. QED
  BY <1>2, <1>3, <1>4, <1>5, <1>6 DEF RunInv, RunIdsKeepMeaning

\* The id that POST run answers keeps naming the record of that run until the pipeline is replaced
\* (create_run_record, set_active_pipeline).
THEOREM RunIdsMean == Spec => []RunIdsKeepMeaning
<1>1. Init => RunInv
  BY DEF Init, RunInv, RunIdsKeepMeaning, Empty
<1>2. RunInv /\ [Next]_vars => RunInv'
  <2> SUFFICES ASSUME RunInv, [Next]_vars PROVE RunInv'
    OBVIOUS
  <2>1. ASSUME NEW d \in Documents, Put(d) PROVE RunInv'
    BY <2>1 DEF RunInv, RunIdsKeepMeaning, Put, Empty
  <2>2. CASE PostRun
    BY <2>2, CompleteRunKeeps DEF PostRun
  <2>3. CASE EmitCompletedRun
    BY <2>3, CompleteRunKeeps DEF EmitCompletedRun
  <2>4. CASE UNCHANGED <<runs, next_run_id, replaced, serial, handed>>
    BY <2>4 DEF RunInv, RunIdsKeepMeaning
  <2>5. ASSUME NEW n \in Nodes, NEW v \in Values, PostParam(n, v) \/ \E c \in Clients : UpdateParam(c, n, v) PROVE RunInv'
    BY <2>4, <2>5 DEF PostParam, UpdateParam
  <2>6. ASSUME NEW c \in Clients, Open(c) \/ Close(c) \/ Unsubscribe(c) \/ \E n \in Nodes, i \in Intervals : Subscribe(c, n, i)
        PROVE  RunInv'
    BY <2>4, <2>6 DEF Open, Close, Unsubscribe, Subscribe, document
  <2>7. CASE Tick \/ UNCHANGED vars
    BY <2>4, <2>7 DEF Tick, vars, document
  <2>. QED
    BY <2>1, <2>2, <2>3, <2>5, <2>6, <2>7 DEF Next
<1>3. RunInv => RunIdsKeepMeaning
  BY DEF RunInv
<1>. QED
  BY <1>1, <1>2, <1>3, PTL DEF Spec

\* Every subscriber has a latest thumbnail or none.
ShownInv ==
    /\ DOMAIN shown = DOMAIN thumbnail_subscriptions
    /\ SharedFrames

\* A frame that one subscriber of a node gets, all of them get (push_thumbnail_frames).
LEMMA PushKeeps == ASSUME ShownInv, CompleteRun PROVE ShownInv'
<1>1. PICK encoded : shown' = [c \in DOMAIN shown |-> IF c \in Receivers(encoded) THEN serial' ELSE shown[c]]
  BY DEF CompleteRun, PushThumbnails
<1>2. thumbnail_subscriptions' = thumbnail_subscriptions /\ ws_clients' = ws_clients
  BY DEF CompleteRun, subscribers
<1>3. ASSUME NEW c \in DOMAIN thumbnail_subscriptions, NEW d \in DOMAIN thumbnail_subscriptions,
             thumbnail_subscriptions[c].node = thumbnail_subscriptions[d].node, c \in Receivers(encoded)
      PROVE  d \in Receivers(encoded)
  BY <1>3 DEF ShownInv, SharedFrames, Receivers, Targets
<1>. QED
  BY <1>1, <1>2, <1>3 DEF ShownInv, SharedFrames

\* Subscribers are connected, and those of one node never look at different runs (push_thumbnail_frames, with the handlers
\* that subscribe, unsubscribe and close).
THEOREM FramesAreShared == Spec => []SharedFrames
<1>1. Init => ShownInv
  BY DEF Init, ShownInv, SharedFrames, Empty
<1>2. ShownInv /\ [Next]_vars => ShownInv'
  <2> SUFFICES ASSUME ShownInv, [Next]_vars PROVE ShownInv'
    OBVIOUS
  <2>1. CASE PostRun \/ EmitCompletedRun
    BY <2>1, PushKeeps DEF PostRun, EmitCompletedRun
  <2>2. CASE UNCHANGED <<subscribers, shown>>
    BY <2>2 DEF ShownInv, SharedFrames, subscribers
  <2>3. ASSUME NEW d \in Documents, Put(d) PROVE ShownInv'
    BY <2>2, <2>3 DEF Put
  <2>4. ASSUME NEW n \in Nodes, NEW v \in Values, PostParam(n, v) \/ \E c \in Clients : UpdateParam(c, n, v) PROVE ShownInv'
    BY <2>2, <2>4 DEF PostParam, UpdateParam, thumbnails
  <2>5. ASSUME NEW c \in Clients, Open(c) PROVE ShownInv'
    BY <2>5 DEF Open, ShownInv, SharedFrames, thumbnails
  <2>6. ASSUME NEW c \in Clients, Close(c) \/ Unsubscribe(c) PROVE ShownInv'
    <3>1. /\ thumbnail_subscriptions' = Without(thumbnail_subscriptions, c) /\ shown' = Without(shown, c)
          /\ ws_clients' = ws_clients \/ ws_clients' = ws_clients \ {c}
      BY <2>6 DEF Close, Unsubscribe, SubscriptionsWithout
    <3>. QED
      BY <3>1 DEF ShownInv, SharedFrames, Without, Restrict
  <2>7. ASSUME NEW c \in Clients, NEW n \in Nodes, NEW i \in Intervals, Subscribe(c, n, i) PROVE ShownInv'
    <3>1. /\ thumbnail_subscriptions' = With(thumbnail_subscriptions, c, [node |-> n, interval |-> i])
          /\ c \in ws_clients /\ ws_clients' = ws_clients
      BY <2>7 DEF Subscribe
    <3>2. /\ DOMAIN thumbnail_subscriptions' = DOMAIN thumbnail_subscriptions \cup {c}
          /\ thumbnail_subscriptions'[c].node = n
          /\ \A d \in DOMAIN thumbnail_subscriptions : d # c => thumbnail_subscriptions'[d] = thumbnail_subscriptions[d]
      BY <3>1 DEF With
    <3>3. CASE Subscribed(c, n)
      <4>1. shown' = shown /\ \A d \in DOMAIN thumbnail_subscriptions' :
                d \in DOMAIN thumbnail_subscriptions /\ thumbnail_subscriptions'[d].node = thumbnail_subscriptions[d].node
        BY <2>7, <3>2, <3>3 DEF Subscribe, Subscribed
      <4>2. DOMAIN thumbnail_subscriptions' = DOMAIN thumbnail_subscriptions
        BY <3>2, <4>1
      <4>. QED
        BY <3>1, <4>1, <4>2, SMTT(30) DEF ShownInv, SharedFrames
    <3>4. CASE ~Subscribed(c, n)
      <4>1. shown' = With(shown, c, 0)
        BY <2>7, <3>4 DEF Subscribe
      <4>. QED
        BY <3>1, <3>2, <4>1 DEF ShownInv, SharedFrames, With
    <3>. QED
      BY <3>3, <3>4
  <2>8. CASE Tick \/ UNCHANGED vars
    BY <2>2, <2>8 DEF Tick, vars, thumbnails
  <2>. QED
    BY <2>1, <2>3, <2>4, <2>5, <2>6, <2>7, <2>8 DEF Next
<1>3. ShownInv => SharedFrames
  BY DEF ShownInv
<1>. QED
  BY <1>1, <1>2, <1>3, PTL DEF Spec

---------------------------------------------------------------------------
\* Every set of numbers has a least one, which Min gives.
LEMMA MinOfNumbers == ASSUME NEW S, S \subseteq Nat, S # {} PROVE Min(S) \in S
<1>1. PICK x \in S : \A y \in S : ~(<<y, x>> \in OpToRel(<, Nat))
  BY NatLessThanWellFounded, WFMin
<1>2. \A y \in S : ~(y < x)
  BY <1>1 DEF OpToRel
<1>3. \A y \in S : x <= y
  BY <1>2
<1>. QED
  BY <1>3 DEF Min

\* Subscriptions name nodes and intervals, so every group has an interval that is a number.
SubscriptionType ==
    /\ DOMAIN thumbnail_subscriptions \subseteq ws_clients
    /\ \A c \in DOMAIN thumbnail_subscriptions :
          thumbnail_subscriptions[c].node \in Nodes /\ thumbnail_subscriptions[c].interval \in Intervals

\* A subscriber who has yet to see an update was sent nothing since: the group's last frame is at
\* least the debounce older than the re-run that is due.
DueInv ==
    /\ SubscriptionType /\ now \in Nat
    /\ \A n \in DOMAIN thumbnail_last_emit : thumbnail_last_emit[n] \in Nat /\ thumbnail_last_emit[n] <= now
    /\ due \subseteq DOMAIN thumbnail_subscriptions
    /\ UpdatesAreShown
    /\ \A t \in rerun : /\ t \in Nat
                        /\ \A c \in due : LET n == thumbnail_subscriptions[c].node
                                          IN  n \in DOMAIN thumbnail_last_emit => thumbnail_last_emit[n] + Debounce <= t

\* The interval of a group that has subscribers is a number.
LEMMA IntervalIsNumber ==
    ASSUME SubscriptionType, NEW n, Targets(n) # {}
    PROVE  EffectiveInterval(n) \in Nat
<1>1. CASE Cardinality(Targets(n)) > FullRate
  BY <1>1, SessionAssumption DEF EffectiveInterval
<1>2. CASE ~(Cardinality(Targets(n)) > FullRate)
  <2> DEFINE S == {thumbnail_subscriptions[c].interval : c \in Targets(n)}
  <2>1. S \subseteq Nat /\ S # {}
    BY SessionAssumption DEF SubscriptionType, Targets
  <2>2. Min(S) \in Nat
    BY <2>1, MinOfNumbers
  <2>. QED
    BY <1>2, <2>2 DEF EffectiveInterval
<1>. QED
  BY <1>1, <1>2

\* Who has still to see an update after a run was held back by the rate cap less than the debounce ago.
LEMMA RunShows ==
    ASSUME DueInv, CompleteRun
    PROVE  /\ due' \subseteq due /\ UNCHANGED <<thumbnail_subscriptions, ws_clients, now>>
           /\ \A n \in DOMAIN thumbnail_last_emit' : thumbnail_last_emit'[n] \in Nat /\ thumbnail_last_emit'[n] <= now
           /\ \A c \in due' : LET n == thumbnail_subscriptions[c].node
                              IN  /\ n \in DOMAIN thumbnail_last_emit /\ thumbnail_last_emit'[n] = thumbnail_last_emit[n]
                                  /\ now - thumbnail_last_emit[n] < Debounce
<1>1. PICK emitted, encoded :
        /\ emitted = {n \in Nodes : Emits(n)} /\ encoded \subseteq emitted /\ PushThumbnails(emitted, encoded, serial')
  BY DEF CompleteRun
<1>2. UNCHANGED <<thumbnail_subscriptions, ws_clients, now>>
  BY DEF CompleteRun, subscribers
<1>3. /\ due' = due \ (Receivers(encoded) \cup Excused(emitted \ encoded))
      /\ thumbnail_last_emit' = [n \in DOMAIN thumbnail_last_emit \cup emitted |->
                                   IF n \in emitted THEN now ELSE thumbnail_last_emit[n]]
  BY <1>1 DEF PushThumbnails
<1>4. \A n \in DOMAIN thumbnail_last_emit' : thumbnail_last_emit'[n] \in Nat /\ thumbnail_last_emit'[n] <= now
  BY <1>3 DEF DueInv
<1>5. ASSUME NEW c \in due', NEW n, n = thumbnail_subscriptions[c].node
      PROVE  /\ n \in DOMAIN thumbnail_last_emit /\ thumbnail_last_emit'[n] = thumbnail_last_emit[n]
             /\ now - thumbnail_last_emit[n] < Debounce
  <2>1. c \in due /\ c \notin Receivers(encoded) /\ c \notin Excused(emitted \ encoded)
    BY <1>3
  <2>2. c \in Targets(n) /\ n \in Nodes
    BY <1>5, <2>1 DEF DueInv, SubscriptionType, Targets
  <2>3. n \notin encoded
    BY <2>1, <2>2 DEF Receivers
  <2>4. n \notin emitted /\ ~(EffectiveInterval(n) > Debounce)
    BY <2>1, <2>2, <2>3 DEF Excused
  <2>5. EffectiveInterval(n) \in Nat /\ Debounce \in Nat
    BY <2>2, IntervalIsNumber, SessionAssumption DEF DueInv
  <2>6. ~Emits(n)
    BY <1>1, <2>2, <2>4
  <2>7. n \in DOMAIN thumbnail_last_emit /\ ~(now - thumbnail_last_emit[n] >= EffectiveInterval(n))
    BY <2>2, <2>6 DEF Emits
  <2>8. thumbnail_last_emit[n] \in Nat /\ now \in Nat
    BY <2>7 DEF DueInv
  <2>. QED
    BY <1>3, <2>4, <2>5, <2>7, <2>8
<1>. QED
  BY <1>2, <1>3, <1>4, <1>5

\* The re-run shows every update to everybody who was subscribed when it was accepted, unless their
\* group is served more slowly than the debounce or its frame cannot be encoded
\* (schedule_param_rerun, push_thumbnail_frames).
THEOREM UpdatesShown == Spec => []UpdatesAreShown
<1>1. Init => DueInv
  BY DEF Init, DueInv, SubscriptionType, UpdatesAreShown, Empty
<1>2. DueInv /\ [Next]_vars => DueInv'
  <2> SUFFICES ASSUME DueInv, [Next]_vars PROVE DueInv'
    OBVIOUS
  <2>0. Debounce \in Nat
    BY SessionAssumption
  <2>1. CASE PostRun
    <3>1. CompleteRun /\ rerun' = rerun
      BY <2>1 DEF PostRun
    <3>. QED
      BY <2>0, <3>1, RunShows DEF DueInv, SubscriptionType, UpdatesAreShown
  <2>2. CASE EmitCompletedRun
    <3>1. CompleteRun /\ rerun' = {}
      BY <2>2 DEF EmitCompletedRun
    <3>2. PICK t \in rerun : now >= t
      BY <2>2 DEF EmitCompletedRun
    <3>3. ASSUME NEW c \in due' PROVE FALSE
      <4>1. PICK n : n = thumbnail_subscriptions[c].node
        OBVIOUS
      <4>2. n \in DOMAIN thumbnail_last_emit /\ now - thumbnail_last_emit[n] < Debounce /\ c \in due
        BY <3>1, <3>3, <4>1, RunShows
      <4>3. thumbnail_last_emit[n] + Debounce <= t /\ thumbnail_last_emit[n] \in Nat /\ t \in Nat /\ now \in Nat
        BY <3>2, <4>1, <4>2 DEF DueInv
      <4>. QED
        BY <2>0, <3>2, <4>2, <4>3
    <3>. QED
      BY <3>1, <3>3, RunShows DEF DueInv, SubscriptionType, UpdatesAreShown
  <2>3. ASSUME NEW d \in Documents, Put(d) PROVE DueInv'
    BY <2>3 DEF Put, DueInv, SubscriptionType, UpdatesAreShown, subscribers, Empty
  <2>4. ASSUME NEW n \in Nodes, NEW v \in Values, PostParam(n, v) PROVE DueInv'
    BY <2>4 DEF PostParam, DueInv, SubscriptionType, UpdatesAreShown, subscribers, thumbnails
  <2>5. ASSUME NEW n \in Nodes, NEW v \in Values, NEW c \in Clients, UpdateParam(c, n, v) PROVE DueInv'
    BY <2>0, <2>5 DEF UpdateParam, DueInv, SubscriptionType, UpdatesAreShown, subscribers
  <2>6. ASSUME NEW c \in Clients, Open(c) PROVE DueInv'
    BY <2>6 DEF Open, DueInv, SubscriptionType, UpdatesAreShown, thumbnails
  <2>7. ASSUME NEW c \in Clients, Close(c) \/ Unsubscribe(c) PROVE DueInv'
    <3>1. /\ thumbnail_subscriptions' = Without(thumbnail_subscriptions, c) /\ due' = due \ {c}
          /\ ws_clients' = ws_clients \/ ws_clients' = ws_clients \ {c}
          /\ UNCHANGED <<thumbnail_last_emit, rerun, now>>
      BY <2>7 DEF Close, Unsubscribe, SubscriptionsWithout
    <3>2. /\ DOMAIN thumbnail_subscriptions' = DOMAIN thumbnail_subscriptions \ {c}
          /\ \A d \in DOMAIN thumbnail_subscriptions' : thumbnail_subscriptions'[d] = thumbnail_subscriptions[d]
      BY <3>1 DEF Without, Restrict
    <3>. QED
      BY <3>1, <3>2 DEF DueInv, SubscriptionType, UpdatesAreShown
  <2>8. ASSUME NEW c \in Clients, NEW n \in Nodes, NEW i \in Intervals, Subscribe(c, n, i) PROVE DueInv'
    <3>1. /\ thumbnail_subscriptions' = With(thumbnail_subscriptions, c, [node |-> n, interval |-> i])
          /\ (due' = due /\ Subscribed(c, n)) \/ due' = due \ {c}
          /\ c \in ws_clients /\ UNCHANGED <<ws_clients, thumbnail_last_emit, rerun, now>>
      BY <2>8 DEF Subscribe
    <3>2. /\ DOMAIN thumbnail_subscriptions' = DOMAIN thumbnail_subscriptions \cup {c}
          /\ \A d \in DOMAIN thumbnail_subscriptions' : d # c => thumbnail_subscriptions'[d] = thumbnail_subscriptions[d]
          /\ thumbnail_subscriptions'[c].node = n /\ thumbnail_subscriptions'[c].interval = i
      BY <3>1 DEF With
    <3>3. due' \subseteq due /\ \A d \in due' : thumbnail_subscriptions'[d].node = thumbnail_subscriptions[d].node
      BY <3>1, <3>2 DEF DueInv, Subscribed
    <3>. QED
      BY <3>1, <3>2, <3>3 DEF DueInv, SubscriptionType, UpdatesAreShown
  <2>9. CASE Tick
    BY <2>9, SMTT(30) DEF Tick, DueInv, SubscriptionType, UpdatesAreShown, subscribers, thumbnails
  <2>10. CASE UNCHANGED vars
    BY <2>10 DEF vars, DueInv, SubscriptionType, UpdatesAreShown, subscribers, thumbnails
  <2>. QED
    BY <2>1, <2>2, <2>3, <2>4, <2>5, <2>6, <2>7, <2>8, <2>9, <2>10 DEF Next
<1>3. DueInv => UpdatesAreShown
  BY DEF DueInv
<1>. QED
  BY <1>1, <1>2, <1>3, PTL DEF Spec
=============================================================================
