------------------------- MODULE EditorClientProofs -------------------------
(***************************************************************************)
(* Proofs about the pages of the editor with its session, for any number   *)
(* of clients, pages, documents and runs, also where a page has connected  *)
(* more than once.                                                         *)
(***************************************************************************)
EXTENDS EditorClient, FiniteSetTheorems, TLAPS

\* Subscriptions name nodes and intervals.
SubscriptionType ==
    /\ DOMAIN thumbnail_subscriptions \subseteq ws_clients
    /\ \A c \in DOMAIN thumbnail_subscriptions :
          thumbnail_subscriptions[c].node \in Nodes /\ thumbnail_subscriptions[c].interval \in Intervals

(* Pages.  What a page stores, what it sends and what it is sent. *)

DocumentType == UNION {[D -> Values] : D \in SUBSET Nodes}
MessageType ==
    [type : {"node.update_param"}, node : Nodes, value : Values] \cup [type : {"node.subscribe_thumbnail"}, node : Nodes]
FrameType == [node : Nodes, run : Nat]
PageType ==
    [nodes : SUBSET DocumentType, selectedId : SUBSET Nodes, client : SUBSET Clients, latest : SUBSET FrameType,
     fetching : Nat, root : {"absent", "mounted", "unmounted"}, acts : Nat]

ClientTypeOK ==
    /\ cast \in [Clients -> Pages \cup {Other, Nobody}]
    /\ pages \in [Pages -> PageType]
    /\ socket \in [Clients -> {"unused", "connecting", "open", "closed"}]
    /\ toServer \in [Clients -> Seq(MessageType)]
    /\ toPage \in [Clients -> Seq(FrameType)]
    /\ edited \in [Pages -> SUBSET Nodes]
    /\ author \in [Nodes -> Pages \cup {Other, Nobody}]
    /\ serial \in Nat /\ SubscriptionType /\ DOMAIN shown = DOMAIN thumbnail_subscriptions

\* Documents are of the type of what a page stores, and edits keep them so.
LEMMA DocumentsTyped == Documents \subseteq DocumentType
<1> SUFFICES ASSUME NEW d \in Documents PROVE d \in DocumentType
  BY Zenon
<1>1. DOMAIN d \subseteq Nodes
  BY Zenon DEF Nodes
<1>. QED
  BY <1>1, CastAssumption, Zenon DEF DocumentType

LEMMA EditedTyped ==
    ASSUME NEW d \in DocumentType, NEW n, NEW v \in Values
    PROVE  [d EXCEPT ![n] = v] \in DocumentType
<1>1. PICK D \in SUBSET Nodes : d \in [D -> Values]
  BY Zenon DEF DocumentType
<1>2. [d EXCEPT ![n] = v] \in [D -> Values]
  BY <1>1, Zenon
<1>. QED
  BY <1>2, Zenon DEF DocumentType

\* The effect of the inspector sends at most one subscription.
LEMMA EffectTyped ==
    ASSUME NEW p, NEW page \in PageType
    PROVE  InspectorEffect(p, page) \in Seq(MessageType)
<1>1. Inspected(page) \subseteq Nodes
  BY Zenon DEF PageType, Inspected
<1>2. CASE Inspected(page) = {}
  BY <1>2 DEF InspectorEffect
<1>3. CASE Inspected(page) # {}
  <2>1. PICK n : n = CHOOSE x \in Inspected(page) : TRUE
    BY Zenon
  <2>2. n \in Nodes
    BY <1>1, <1>3, <2>1, Zenon
  <2>3. SubscribeMessage(n) \in MessageType
    BY <2>2, Zenon DEF SubscribeMessage, MessageType
  <2>. QED
    BY <1>3, <2>1, <2>3 DEF InspectorEffect
<1>. QED
  BY <1>2, <1>3, Zenon

\* What every act of a user does to the stores and the queues.
LEMMA RenderTyped ==
    ASSUME ClientTypeOK, NEW p \in Pages, NEW page \in PageType, NEW messages \in Seq(MessageType),
           Render(p, page, messages)
    PROVE  pages' \in [Pages -> PageType] /\ toServer' \in [Clients -> Seq(MessageType)]
<1> DEFINE sent == messages \o InspectorEffect(p, page)
<1>1. sent \in Seq(MessageType)
  BY EffectTyped
<1> DEFINE drawn == [page EXCEPT !.root = IF Throws(p) /\ sent # <<>> THEN "unmounted" ELSE @]
<1>2. drawn \in PageType
  BY Zenon DEF PageType
<1>3. pages' = [pages EXCEPT ![p] = drawn]
  BY Zenon DEF Render
<1>4. toServer' = [c \in Clients |-> IF Sends(p) /\ c \in page.client THEN toServer[c] \o sent ELSE toServer[c]]
  BY Zenon DEF Render
<1> HIDE DEF sent, drawn
<1>5. \A c \in Clients : toServer[c] \o sent \in Seq(MessageType)
  BY <1>1, SMTT(30) DEF ClientTypeOK
<1>. QED
  BY <1>2, <1>3, <1>4, <1>5, Zenon DEF ClientTypeOK

\* Every step of a page or of somebody else is a step of the session, or leaves it alone.
SessionStep == [Next]_vars

LEMMA SessionTypeKept ==
    ASSUME serial \in Nat, SubscriptionType, DOMAIN shown = DOMAIN thumbnail_subscriptions, SessionStep
    PROVE  (serial \in Nat /\ SubscriptionType /\ DOMAIN shown = DOMAIN thumbnail_subscriptions)'
<1> USE DEF SubscriptionType
<1>1. CASE PostRun \/ EmitCompletedRun
  <2>1. CompleteRun
    BY <1>1, Zenon DEF PostRun, EmitCompletedRun
  <2>. QED
    BY <2>1, SMTT(30) DEF CompleteRun, PushThumbnails, subscribers
<1>2. CASE UNCHANGED <<subscribers, shown, serial>>
  BY <1>2, Zenon DEF subscribers
<1>3. ASSUME NEW d \in Documents, Put(d) PROVE UNCHANGED <<subscribers, shown, serial>>
  BY <1>3, Zenon DEF Put
<1>4. ASSUME NEW n \in Nodes, NEW v \in Values, PostParam(n, v) \/ \E c \in Clients : UpdateParam(c, n, v)
      PROVE  UNCHANGED <<subscribers, shown, serial>>
  BY <1>4, Zenon DEF PostParam, UpdateParam, thumbnails
<1>5. ASSUME NEW c \in Clients, Open(c) PROVE (serial \in Nat /\ SubscriptionType /\ DOMAIN shown = DOMAIN thumbnail_subscriptions)'
  BY <1>5, Zenon DEF Open, thumbnails
<1>6. ASSUME NEW c \in Clients, Close(c) \/ Unsubscribe(c)
      PROVE  (serial \in Nat /\ SubscriptionType /\ DOMAIN shown = DOMAIN thumbnail_subscriptions)'
  <2>1. /\ thumbnail_subscriptions' = Without(thumbnail_subscriptions, c) /\ shown' = Without(shown, c)
        /\ ws_clients' = ws_clients \/ ws_clients' = ws_clients \ {c}
        /\ serial' = serial
    BY <1>6, Zenon DEF Close, Unsubscribe, SubscriptionsWithout
  <2>. QED
    BY <2>1, Zenon DEF Without, Restrict
<1>7. ASSUME NEW c \in Clients, NEW n \in Nodes, NEW i \in Intervals, Subscribe(c, n, i)
      PROVE  (serial \in Nat /\ SubscriptionType /\ DOMAIN shown = DOMAIN thumbnail_subscriptions)'
  <2>1. /\ thumbnail_subscriptions' = With(thumbnail_subscriptions, c, [node |-> n, interval |-> i])
        /\ (shown' = shown /\ Subscribed(c, n)) \/ shown' = With(shown, c, 0)
        /\ c \in ws_clients /\ UNCHANGED <<ws_clients, serial>>
    BY <1>7, Zenon DEF Subscribe
  <2>2. /\ DOMAIN thumbnail_subscriptions' = DOMAIN thumbnail_subscriptions \cup {c}
        /\ \A d \in DOMAIN thumbnail_subscriptions' : d # c => thumbnail_subscriptions'[d] = thumbnail_subscriptions[d]
        /\ thumbnail_subscriptions'[c].node = n /\ thumbnail_subscriptions'[c].interval = i
    BY <2>1, Zenon DEF With
  <2>3. DOMAIN shown' = DOMAIN shown \cup {c}
    BY <2>1, Zenon DEF With, Subscribed
  <2>. QED
    BY <2>1, <2>2, <2>3, Zenon
<1>8. CASE Tick \/ UNCHANGED vars
  BY <1>2, <1>8, Zenon DEF Tick, vars, thumbnails
<1>. QED
  BY <1>1, <1>2, <1>3, <1>4, <1>5, <1>6, <1>7, <1>8, Zenon DEF SessionStep, Next

\* The next message on a connection, and those behind it, are of the type of a message.
LEMMA HeadTyped ==
    ASSUME ClientTypeOK, NEW c \in Clients, toServer[c] # <<>>
    PROVE  Head(toServer[c]) \in MessageType /\ Tail(toServer[c]) \in Seq(MessageType)
BY SMTT(30) DEF ClientTypeOK

LEMMA StepOfSession == ASSUME ClientTypeOK, [ClientNext]_clientVars PROVE SessionStep
<1>1. ASSUME NEW p \in Pages,
             \/ \E d \in Documents : LoadPipeline(p, d)
             \/ \E n \in Nodes : Select(p, n) \/ \E v \in Values : Edit(p, n, v)
             \/ RegistryFails(p) \/ \E c \in Clients : RegistryAnswers(p, c)
      PROVE  SessionStep
  BY <1>1, Zenon DEF LoadPipeline, Select, Edit, RegistryFails, RegistryAnswers, SessionStep
<1>2. ASSUME NEW c \in Clients, ServerOpens(c) \/ ServerCloses(c) PROVE SessionStep
  BY <1>2, Zenon DEF ServerOpens, ServerCloses, Next, SessionStep
<1>3. ASSUME NEW c \in Clients, SocketOpens(c) \/ SocketCloses(c) \/ OnMessage(c) PROVE SessionStep
  BY <1>3, Zenon DEF SocketOpens, SocketCloses, OnMessage, SessionStep
<1>4. ASSUME NEW c \in Clients, HandleMessage(c) PROVE SessionStep
  <2>1. PICK m : m = Head(toServer[c])
    BY Zenon
  <2>2. m \in MessageType
    BY <1>4, <2>1, HeadTyped, Zenon DEF HandleMessage
  <2>3. CASE HandleUpdate(c, m)
    <3>1. m.node \in Nodes /\ m.value \in Values
      BY <2>2, <2>3, Zenon DEF HandleUpdate, MessageType
    <3>2. UpdateParam(c, m.node, m.value) \/ UNCHANGED vars
      BY <2>3, Zenon DEF HandleUpdate
    <3>. QED
      BY <3>1, <3>2, Zenon DEF Next, SessionStep
  <2>4. CASE HandleSubscribe(c, m)
    <3>1. m.node \in Nodes /\ PageInterval \in Intervals /\ Subscribe(c, m.node, PageInterval)
      BY <2>2, <2>4, CastAssumption, Zenon DEF HandleSubscribe, MessageType
    <3>. QED
      BY <3>1, Zenon DEF Next, SessionStep
  <2>. QED
    BY <1>4, <2>1, <2>3, <2>4, Zenon DEF HandleMessage
<1>5. CASE RunForPages
  BY <1>5, Zenon DEF RunForPages, Next, SessionStep
<1>6. CASE OtherRequests
  BY <1>6, CastAssumption, Zenon DEF OtherRequests, Next, SessionStep
<1>7. CASE UNCHANGED clientVars
  BY <1>7, Zenon DEF clientVars, SessionStep
<1>. QED
  BY <1>1, <1>2, <1>3, <1>4, <1>5, <1>6, <1>7, Zenon DEF ClientNext

\* What is done to one field of a page.
LEMMA PageKept ==
    ASSUME NEW page \in PageType
    PROVE  /\ [page EXCEPT !.acts = @ + 1] \in PageType
           /\ \A S \in SUBSET DocumentType : [page EXCEPT !.nodes = S] \in PageType
           /\ \A S \in SUBSET Nodes : [page EXCEPT !.selectedId = S] \in PageType
           /\ \A S \in SUBSET Clients : [page EXCEPT !.client = S] \in PageType
           /\ \A S \in SUBSET FrameType : [page EXCEPT !.latest = S] \in PageType
           /\ page.fetching > 0 => [page EXCEPT !.fetching = @ - 1] \in PageType
<1>1. [page EXCEPT !.acts = @ + 1] \in PageType
  BY DEF PageType
<1>2. \A S \in SUBSET DocumentType : [page EXCEPT !.nodes = S] \in PageType
  BY Zenon DEF PageType
<1>3. \A S \in SUBSET Nodes : [page EXCEPT !.selectedId = S] \in PageType
  BY Zenon DEF PageType
<1>4. \A S \in SUBSET Clients : [page EXCEPT !.client = S] \in PageType
  BY Zenon DEF PageType
<1>5. \A S \in SUBSET FrameType : [page EXCEPT !.latest = S] \in PageType
  BY Zenon DEF PageType
<1>6. page.fetching > 0 => [page EXCEPT !.fetching = @ - 1] \in PageType
  BY DEF PageType
<1>. QED
  BY <1>1, <1>2, <1>3, <1>4, <1>5, <1>6, Zenon

LEMMA ClientTypeStep == ASSUME ClientTypeOK, [ClientNext]_clientVars PROVE ClientTypeOK'
<1> DEFINE Session == serial \in Nat /\ SubscriptionType /\ DOMAIN shown = DOMAIN thumbnail_subscriptions
<1>0. Session'
  BY StepOfSession, SessionTypeKept, Zenon DEF ClientTypeOK
<1> HIDE DEF Session
<1>1. ASSUME NEW p \in Pages, NEW page \in PageType, NEW messages \in Seq(MessageType), Render(p, page, messages),
             edited' \in [Pages -> SUBSET Nodes], UNCHANGED <<cast, socket, toPage, author>>
      PROVE  ClientTypeOK'
  <2>1. pages' \in [Pages -> PageType] /\ toServer' \in [Clients -> Seq(MessageType)]
    BY <1>1, RenderTyped, Zenon
  <2>. QED
    BY <1>0, <1>1, <2>1, Zenon DEF ClientTypeOK, Session
<1>2. ASSUME NEW p \in Pages PROVE pages[p] \in PageType /\ Acting(p) \in PageType
  <2>1. pages[p] \in PageType
    BY Zenon DEF ClientTypeOK
  <2>. QED
    BY <2>1, PageKept, Zenon DEF Acting
<1>3. ASSUME NEW p \in Pages, NEW d \in Documents, LoadPipeline(p, d) PROVE ClientTypeOK'
  <2>1. [Acting(p) EXCEPT !.nodes = {d}] \in PageType
    BY <1>2, DocumentsTyped, PageKept, Zenon
  <2>2. edited' \in [Pages -> SUBSET Nodes]
    BY <1>3, Zenon DEF LoadPipeline, ClientTypeOK
  <2>3. <<>> \in Seq(MessageType) /\ Render(p, [Acting(p) EXCEPT !.nodes = {d}], <<>>)
    BY <1>3 DEF LoadPipeline
  <2>4. UNCHANGED <<cast, socket, toPage, author>>
    BY <1>3, Zenon DEF LoadPipeline
  <2>. QED
    BY <1>1, <2>1, <2>2, <2>3, <2>4, Zenon
<1>4. ASSUME NEW p \in Pages, NEW n \in Nodes, Select(p, n) PROVE ClientTypeOK'
  <2>1. [Acting(p) EXCEPT !.selectedId = {n}] \in PageType
    BY <1>2, PageKept, Zenon
  <2>2. edited' \in [Pages -> SUBSET Nodes]
    BY <1>4, Zenon DEF Select, ClientTypeOK
  <2>3. <<>> \in Seq(MessageType) /\ Render(p, [Acting(p) EXCEPT !.selectedId = {n}], <<>>)
    BY <1>4 DEF Select
  <2>4. UNCHANGED <<cast, socket, toPage, author>>
    BY <1>4, Zenon DEF Select
  <2>. QED
    BY <1>1, <2>1, <2>2, <2>3, <2>4, Zenon
<1>5. ASSUME NEW p \in Pages, NEW n \in Nodes, NEW v \in Values, Edit(p, n, v) PROVE ClientTypeOK'
  <2>1. UpdateNodeParam(Acting(p).nodes, n, v) \in SUBSET DocumentType
    <3>1. Acting(p).nodes \in SUBSET DocumentType
      BY <1>2, Zenon DEF PageType
    <3>2. \A d \in DocumentType : [d EXCEPT ![n] = v] \in DocumentType
      BY EditedTyped, Zenon
    <3>. QED
      BY <3>1, <3>2, Zenon DEF UpdateNodeParam
  <2>2. [Acting(p) EXCEPT !.nodes = UpdateNodeParam(@, n, v)] \in PageType
    BY <1>2, <2>1, PageKept, Zenon
  <2>3. <<UpdateMessage(n, v)>> \in Seq(MessageType)
    BY DEF UpdateMessage, MessageType
  <2>4. edited' \in [Pages -> SUBSET Nodes]
    BY <1>5, Zenon DEF Edit, ClientTypeOK
  <2>. QED
    BY <1>1, <1>5, <2>2, <2>3, <2>4, Zenon DEF Edit
<1>6. ASSUME NEW p \in Pages, NEW c \in Clients, RegistryAnswers(p, c) PROVE ClientTypeOK'
  <2>1. Answered(p) \in PageType
    BY <1>2, <1>6, PageKept, Zenon DEF RegistryAnswers, Answered
  <2>2. [Answered(p) EXCEPT !.client = {c}] \in PageType
    BY <2>1, PageKept, Zenon
  <2>3. pages' \in [Pages -> PageType]
    BY <1>6, <2>2, Zenon DEF RegistryAnswers, ClientTypeOK
  <2>. QED
    BY <1>0, <1>6, <2>3, Zenon DEF RegistryAnswers, ClientTypeOK, Session
<1>7. ASSUME NEW p \in Pages, RegistryFails(p) PROVE ClientTypeOK'
  <2>1. Answered(p) \in PageType
    BY <1>2, <1>7, PageKept, Zenon DEF RegistryFails, Answered
  <2>2. pages' \in [Pages -> PageType]
    BY <1>7, <2>1, Zenon DEF RegistryFails, ClientTypeOK
  <2>. QED
    BY <1>0, <1>7, <2>2, Zenon DEF RegistryFails, ClientTypeOK, Session, wires
<1>8. ASSUME NEW c \in Clients, ServerOpens(c) \/ SocketOpens(c) \/ SocketCloses(c) PROVE ClientTypeOK'
  <2>1. /\ socket' \in [Clients -> {"unused", "connecting", "open", "closed"}]
        /\ toPage' \in [Clients -> Seq(FrameType)]
        /\ UNCHANGED <<cast, pages, toServer, edited, author>>
    <3>1. CASE ServerOpens(c)
      BY <3>1, Zenon DEF ServerOpens, ClientTypeOK, wires
    <3>2. CASE SocketOpens(c)
      BY <3>2, Zenon DEF SocketOpens, ClientTypeOK
    <3>3. CASE SocketCloses(c)
      BY <3>3, SMTT(30) DEF SocketCloses, ClientTypeOK
    <3>. QED
      BY <1>8, <3>1, <3>2, <3>3, Zenon
  <2>. QED
    BY <1>0, <2>1, Zenon DEF ClientTypeOK, Session
<1>9. ASSUME NEW c \in Clients, ServerCloses(c) PROVE ClientTypeOK'
  BY <1>0, <1>9, SMTT(30) DEF ServerCloses, ClientTypeOK, Session
<1>10. ASSUME NEW c \in Clients, HandleMessage(c) PROVE ClientTypeOK'
  <2>1. PICK m \in MessageType : m = Head(toServer[c])
    BY <1>10, HeadTyped, Zenon DEF HandleMessage
  <2>2. author' \in [Nodes -> Pages \cup {Other, Nobody}]
    BY <1>10, <2>1, Zenon DEF HandleMessage, HandleUpdate, HandleSubscribe, ClientTypeOK
  <2>3. toServer' \in [Clients -> Seq(MessageType)]
    BY <1>10, HeadTyped, Zenon DEF HandleMessage, ClientTypeOK
  <2>. QED
    BY <1>0, <1>10, <2>2, <2>3, Zenon DEF HandleMessage, ClientTypeOK, Session
<1>11. CASE RunForPages
  <2>1. serial' \in Nat /\ thumbnail_subscriptions' = thumbnail_subscriptions /\ DOMAIN shown' = DOMAIN thumbnail_subscriptions
    BY <1>0, <1>11, Zenon DEF Session, RunForPages, PostRun, EmitCompletedRun, CompleteRun, subscribers
  <2>2. \A c \in Clients : c \in DOMAIN shown' => Frame(c) \in FrameType
    BY <2>1, Zenon DEF Frame, FrameType, ClientTypeOK, SubscriptionType
  <2>3. toPage' \in [Clients -> Seq(FrameType)]
    BY <1>11, <2>2, SMTT(30) DEF RunForPages, ClientTypeOK
  <2>. QED
    BY <1>0, <1>11, <2>3, Zenon DEF RunForPages, ClientTypeOK, Session
<1>12. ASSUME NEW c \in Clients, OnMessage(c) PROVE ClientTypeOK'
  <2>1. Head(toPage[c]) \in FrameType /\ Tail(toPage[c]) \in Seq(FrameType)
    BY <1>12 DEF OnMessage, ClientTypeOK
  <2>2. \A p \in Pages : [pages[p] EXCEPT !.latest = {Head(toPage[c])}] \in PageType
    BY <1>2, <2>1, PageKept, Zenon
  <2>3. pages' \in [Pages -> PageType]
    BY <1>12, <2>2, Zenon DEF OnMessage, ClientTypeOK
  <2>. QED
    BY <1>0, <1>12, <2>1, <2>3, Zenon DEF OnMessage, ClientTypeOK, Session
<1>13. CASE OtherRequests
  BY <1>0, <1>13, Zenon DEF OtherRequests, ClientTypeOK, Session, wires
<1>14. CASE UNCHANGED clientVars
  BY <1>0, <1>14, Zenon DEF clientVars, ClientTypeOK, Session, wires
<1>. QED
  BY <1>3, <1>4, <1>5, <1>6, <1>7, <1>8, <1>9, <1>10, <1>11, <1>12, <1>13, <1>14, Zenon DEF ClientNext

LEMMA ClientTypeInit == ASSUME ClientInit PROVE ClientTypeOK
<1>1. \A p \in Pages : Cardinality({c \in Clients : cast[c] = p}) \in Nat
  <2> TAKE p \in Pages
  <2>1. IsFiniteSet({c \in Clients : cast[c] = p})
    BY CastAssumption, FS_Subset, Zenon
  <2>. QED
    BY <2>1, FS_CardinalityType, Zenon
<1>2. \A k \in Nat : NewPage(k) \in PageType
  BY Zenon DEF NewPage, PageType
<1>3. pages \in [Pages -> PageType]
  BY <1>1, <1>2, Zenon DEF ClientInit
<1>4. serial \in Nat /\ SubscriptionType /\ DOMAIN shown = DOMAIN thumbnail_subscriptions
  BY Zenon DEF ClientInit, Init, Empty, SubscriptionType
<1>. QED
  BY <1>3, <1>4, CastAssumption DEF ClientInit, ClientTypeOK

\* What the pages and the others do together is what the session's clients may do, so that everything
\* proved of the session holds of the editor with its pages (rpc.ts, device.ts, EditorServer.cpp).
THEOREM PagesUseSession == ClientSpec => Spec
<1>1. ClientInit => Init /\ ClientTypeOK
  BY ClientTypeInit, Zenon DEF ClientInit
<1>2. ClientTypeOK /\ [ClientNext]_clientVars => ClientTypeOK' /\ [Next]_vars
  BY ClientTypeStep, StepOfSession, Zenon DEF SessionStep
<1>. QED
  BY <1>1, <1>2, PTL DEF ClientSpec, Spec

---------------------------------------------------------------------------
(* The value a page shows is the one it sent last. *)

IsUpdate(m, n) == m.type = "node.update_param" /\ m.node = n

\* The last update of n on the way, if there is one, has the value v.
LastIs(q, n, v) ==
    \A i \in 1..Len(q) : IsUpdate(q[i], n) /\ (\A j \in (i + 1)..Len(q) : ~IsUpdate(q[j], n)) => q[i].value = v

LEMMA UpdatedMeans ==
    ASSUME NEW q \in Seq(MessageType), NEW n
    PROVE  n \in Updated(q) <=> \E i \in 1..Len(q) : IsUpdate(q[i], n)
BY DEF Updated, IsUpdate, Range

\* Messages that do not update n change nothing for n.
LEMMA OthersAppended ==
    ASSUME NEW q \in Seq(MessageType), NEW s \in Seq(MessageType), NEW n, NEW v, LastIs(q, n, v),
           \A i \in 1..Len(s) : ~IsUpdate(s[i], n)
    PROVE  LastIs(q \o s, n, v) /\ (n \in Updated(q \o s) <=> n \in Updated(q))
<1>1. /\ q \o s \in Seq(MessageType) /\ Len(q \o s) = Len(q) + Len(s) /\ Len(q) \in Nat /\ Len(s) \in Nat
      /\ \A i \in 1..Len(q) : (q \o s)[i] = q[i]
      /\ \A i \in (Len(q) + 1)..(Len(q) + Len(s)) : (q \o s)[i] = s[i - Len(q)]
  OBVIOUS
<1>2. \A i \in (Len(q) + 1)..(Len(q) + Len(s)) : ~IsUpdate((q \o s)[i], n)
  BY <1>1, SMTT(30)
<1> DEFINE t == q \o s
<1> HIDE DEF t
<1>3. LastIs(t, n, v)
  BY <1>1, <1>2 DEF LastIs, t
<1>4. n \in Updated(t) <=> n \in Updated(q)
  <2>1. n \in Updated(t) <=> \E i \in 1..Len(t) : IsUpdate(t[i], n)
    BY <1>1, UpdatedMeans, Zenon DEF t
  <2>2. n \in Updated(q) <=> \E i \in 1..Len(q) : IsUpdate(q[i], n)
    BY UpdatedMeans, Zenon
  <2>. QED
    BY <1>1, <1>2, <2>1, <2>2 DEF t
<1>. QED
  BY <1>3, <1>4, Zenon DEF t

\* An update of n is the last one, whatever else follows it.
LEMMA UpdateAppended ==
    ASSUME NEW q \in Seq(MessageType), NEW s \in Seq(MessageType), NEW n, NEW v, Len(s) > 0,
           IsUpdate(s[1], n), s[1].value = v, \A i \in 2..Len(s) : ~IsUpdate(s[i], n)
    PROVE  LastIs(q \o s, n, v) /\ n \in Updated(q \o s)
<1>1. /\ q \o s \in Seq(MessageType) /\ Len(q \o s) = Len(q) + Len(s) /\ Len(q) \in Nat /\ Len(s) \in Nat /\ Len(s) >= 1
      /\ \A i \in (Len(q) + 1)..(Len(q) + Len(s)) : (q \o s)[i] = s[i - Len(q)]
  OBVIOUS
<1> DEFINE t == q \o s
<1>2. IsUpdate(t[Len(q) + 1], n) /\ t[Len(q) + 1].value = v /\ Len(q) + 1 \in 1..Len(t)
  BY <1>1
<1>3. \A i \in (Len(q) + 2)..Len(t) : ~IsUpdate(t[i], n)
  BY <1>1
<1> HIDE DEF t
<1>4. \A i \in 1..Len(t) : i = Len(q) + 1 \/ i \in (Len(q) + 2)..Len(t) \/ Len(q) + 1 \in (i + 1)..Len(t)
  BY <1>1, <1>2 DEF t
<1>5. LastIs(t, n, v)
  BY <1>2, <1>3, <1>4, Zenon DEF LastIs
<1>6. n \in Updated(t)
  BY <1>1, <1>2, UpdatedMeans, Zenon DEF t
<1>. QED
  BY <1>5, <1>6, Zenon DEF t

\* When the first message leaves, the last update is the same, or was the message that left.
LEMMA FirstLeaves ==
    ASSUME NEW q \in Seq(MessageType), q # <<>>, NEW n, NEW v, LastIs(q, n, v)
    PROVE  /\ LastIs(Tail(q), n, v)
           /\ n \in Updated(q) /\ n \notin Updated(Tail(q)) => IsUpdate(Head(q), n) /\ Head(q).value = v
           /\ ~IsUpdate(Head(q), n) /\ n \notin Updated(Tail(q)) => n \notin Updated(q)
<1> DEFINE t == Tail(q)
<1>1. /\ t \in Seq(MessageType) /\ Len(q) \in Nat /\ Len(q) >= 1 /\ Len(t) = Len(q) - 1 /\ Head(q) = q[1]
      /\ \A i \in 1..Len(t) : t[i] = q[i + 1]
  OBVIOUS
<1> HIDE DEF t
<1>2. \A i \in 2..Len(q) : q[i] = t[i - 1] /\ i - 1 \in 1..Len(t)
  BY <1>1
<1>3. LastIs(t, n, v)
  <2> SUFFICES ASSUME NEW i \in 1..Len(t), IsUpdate(t[i], n), \A j \in (i + 1)..Len(t) : ~IsUpdate(t[j], n)
               PROVE  t[i].value = v
    BY Zenon DEF LastIs
  <2>1. i + 1 \in 1..Len(q) /\ q[i + 1] = t[i]
    BY <1>1
  <2>2. \A j \in (i + 2)..Len(q) : ~IsUpdate(q[j], n)
    BY <1>1, <1>2
  <2>. QED
    BY <2>1, <2>2, <1>1 DEF LastIs
<1>4. n \in Updated(t) <=> \E i \in 1..Len(t) : IsUpdate(t[i], n)
  BY <1>1, UpdatedMeans, Zenon
<1>5. n \in Updated(q) <=> \E i \in 1..Len(q) : IsUpdate(q[i], n)
  BY UpdatedMeans, Zenon
<1>6. n \notin Updated(t) => \A i \in 2..Len(q) : ~IsUpdate(q[i], n)
  BY <1>2, <1>4, Zenon
<1>7. n \in Updated(q) /\ n \notin Updated(t) => IsUpdate(q[1], n)
  BY <1>1, <1>5, <1>6
<1>. QED
  BY <1>1, <1>3, <1>6, <1>7 DEF LastIs, t

\* Who is where: a page's client is one of its own sockets, and a node a page has set is in the pipeline.
PagesInv ==
    /\ \A d, e \in active_pipeline : d = e
    /\ \A n \in Nodes : author[n] \in Pages => Accepts(n)
    /\ \A p \in Pages : /\ \A d, e \in pages[p].nodes : d = e
                        /\ \A c \in pages[p].client : cast[c] = p /\ socket[c] # "unused"
                        /\ edited[p] # {} => \E c \in Clients : cast[c] = p /\ socket[c] # "unused"
    /\ \A c \in Clients : socket[c] = "unused" => toServer[c] = <<>>

\* The last value on the way is the one the page shows; when none is on the way, the server has it.
Agreed(q, latest, documents, n, d) ==
    /\ n \in DOMAIN d /\ LastIs(q, n, d[n])
    /\ n \notin Updated(q) /\ latest => \A e \in documents : e[n] = d[n]
AgreedInv ==
    \A p \in Pages, c \in Clients : OnlySocket(p, c) =>
        \A n \in edited[p], d \in pages[p].nodes : Agreed(toServer[c], author[n] = p, active_pipeline, n, d)

\* What a step leaves of the active pipeline and of the authors.
PipelineKept == UNCHANGED <<active_pipeline, author>>
PipelineSet(who) ==
    \E n \in Nodes, v \in Values :
        /\ Accepts(n) /\ ApplyDelta(n, v) /\ author' = [author EXCEPT ![n] = who]
PipelinePut == \E d \in Documents : active_pipeline' = {d} /\ author' = [n \in Nodes |-> Other]

LEMMA SetDocument ==
    ASSUME NEW n, NEW v, Accepts(n), ApplyDelta(n, v), \A d, e \in active_pipeline : d = e
    PROVE  /\ \A d, e \in active_pipeline' : d = e
           /\ \A m : Accepts(m)' <=> Accepts(m)
           /\ \A d \in active_pipeline' : d[n] = v
           /\ \A d \in active_pipeline' : \E e \in active_pipeline : \A m : m # n /\ Accepts(m) => d[m] = e[m]
<1>1. active_pipeline' = {[d EXCEPT ![n] = v] : d \in active_pipeline}
  BY Zenon DEF ApplyDelta
<1>2. PICK d \in active_pipeline : n \in DOMAIN d
  BY Zenon DEF Accepts
<1>3. active_pipeline' = {[d EXCEPT ![n] = v]} /\ active_pipeline = {d}
  BY <1>1, <1>2, Zenon
<1>4. DOMAIN [d EXCEPT ![n] = v] = DOMAIN d /\ [d EXCEPT ![n] = v][n] = v
  BY <1>2, Zenon
<1>5. \A m : m # n /\ m \in DOMAIN d => [d EXCEPT ![n] = v][m] = d[m]
  BY Zenon
<1>. QED
  BY <1>2, <1>3, <1>4, <1>5, Zenon DEF Accepts

LEMMA PipelineStep ==
    ASSUME ClientTypeOK, PagesInv, PipelineKept \/ PipelinePut \/ \E who \in Pages \cup {Other, Nobody} : PipelineSet(who)
    PROVE  /\ \A d, e \in active_pipeline' : d = e
           /\ \A n \in Nodes : author'[n] \in Pages => Accepts(n)'
<1>1. CASE PipelineKept
  BY <1>1, Zenon DEF PipelineKept, PagesInv, Accepts
<1>2. CASE PipelinePut
  BY <1>2, CastAssumption, Zenon DEF PipelinePut
<1>3. CASE \E who \in Pages \cup {Other, Nobody} : PipelineSet(who)
  <2>1. PICK who \in Pages \cup {Other, Nobody}, n \in Nodes, v \in Values :
           Accepts(n) /\ ApplyDelta(n, v) /\ author' = [author EXCEPT ![n] = who]
    BY <1>3, Zenon DEF PipelineSet
  <2>2. (\A d, e \in active_pipeline' : d = e) /\ \A m : Accepts(m)' <=> Accepts(m)
    BY <2>1, SetDocument, Zenon DEF PagesInv
  <2>3. ASSUME NEW k \in Nodes, author'[k] \in Pages PROVE Accepts(k)
    <3>1. CASE k = n
      BY <2>1, <3>1, Zenon
    <3>2. CASE k # n
      <4>1. author'[k] = author[k]
        BY <2>1, <3>2, Zenon DEF ClientTypeOK
      <4>. QED
        BY <2>3, <4>1, Zenon DEF PagesInv
    <3>. QED
      BY <3>1, <3>2, Zenon
  <2>. QED
    BY <2>2, <2>3, Zenon
<1>. QED
  BY <1>1, <1>2, <1>3, Zenon

\* The effect of the inspector updates nothing.
LEMMA EffectUpdatesNothing ==
    ASSUME NEW p, NEW page, NEW n
    PROVE  \A i \in 1..Len(InspectorEffect(p, page)) : ~IsUpdate(InspectorEffect(p, page)[i], n)
<1>1. \A k : ~IsUpdate(SubscribeMessage(k), n)
  BY Zenon DEF IsUpdate, SubscribeMessage
<1>2. CASE Inspected(page) = {}
  BY <1>2 DEF InspectorEffect
<1>3. CASE Inspected(page) # {}
  <2>1. PICK k : k = CHOOSE x \in Inspected(page) : TRUE
    BY Zenon
  <2>2. InspectorEffect(p, page) = <<SubscribeMessage(k)>>
    BY <1>3, <2>1, Zenon DEF InspectorEffect
  <2>3. \A i \in 1..Len(<<SubscribeMessage(k)>>) : <<SubscribeMessage(k)>>[i] = SubscribeMessage(k)
    OBVIOUS
  <2>. QED
    BY <1>1, <2>2, <2>3, Zenon
<1>. QED
  BY <1>2, <1>3, Zenon

\* What a user does in one page reaches the queue of that page's socket only.
LEMMA RenderReaches ==
    ASSUME ClientTypeOK, PagesInv, NEW p \in Pages, NEW page \in PageType, NEW messages,
           page.client = pages[p].client, Render(p, page, messages)
    PROVE  /\ pages'[p].nodes = page.nodes /\ pages'[p].client = pages[p].client
           /\ \A q \in Pages : q # p => pages'[q] = pages[q]
           /\ \A c \in Clients : cast[c] # p \/ socket[c] = "unused" \/ ~Sends(p) => toServer'[c] = toServer[c]
           /\ \A c \in Clients : Sends(p) /\ OnlySocket(p, c)
                                 => toServer'[c] = toServer[c] \o (messages \o InspectorEffect(p, page))
<1> DEFINE sent == messages \o InspectorEffect(p, page)
<1> DEFINE drawn == [page EXCEPT !.root = IF Throws(p) /\ sent # <<>> THEN "unmounted" ELSE @]
<1>1. drawn.nodes = page.nodes /\ drawn.client = page.client
  BY Zenon DEF PageType
<1>2. pages' = [pages EXCEPT ![p] = drawn]
  BY Zenon DEF Render
<1>3. toServer' = [c \in Clients |-> IF Sends(p) /\ c \in page.client THEN toServer[c] \o sent ELSE toServer[c]]
  BY Zenon DEF Render
<1> HIDE DEF sent, drawn
<1>4. \A c \in page.client : c \in Clients /\ cast[c] = p /\ socket[c] # "unused"
  BY Zenon DEF PagesInv, PageType
<1>5. \A c \in Clients : Sends(p) /\ OnlySocket(p, c) => c \in page.client
  <2> SUFFICES ASSUME NEW c \in Clients, Sends(p), OnlySocket(p, c) PROVE c \in page.client
    BY Zenon
  <2>1. PICK d \in page.client : TRUE
    BY Zenon DEF Sends
  <2>2. d \in {e \in Clients : cast[e] = p /\ socket[e] # "unused"}
    BY <1>4, Zenon
  <2>. QED
    BY <2>2, Zenon DEF OnlySocket
<1>6. pages'[p] = drawn /\ \A q \in Pages : q # p => pages'[q] = pages[q]
  BY <1>2, Zenon DEF ClientTypeOK
<1>7. \A c \in Clients : cast[c] # p \/ socket[c] = "unused" \/ ~Sends(p) => toServer'[c] = toServer[c]
  BY <1>3, <1>4, Zenon
<1>8. \A c \in Clients : Sends(p) /\ OnlySocket(p, c) => toServer'[c] = toServer[c] \o sent
  BY <1>3, <1>5, Zenon
<1>. QED
  BY <1>1, <1>6, <1>7, <1>8, Zenon DEF sent

\* What every act of a user keeps, given what it does to the page itself.
LEMMA ActKeeps ==
    ASSUME ClientTypeOK, PagesInv, AgreedInv, NEW p \in Pages, NEW page \in PageType, NEW messages,
           page.client = pages[p].client, Render(p, page, messages), \A d, e \in page.nodes : d = e,
           UNCHANGED <<vars, cast, socket, author>>,
           \A q \in Pages : q # p => edited'[q] = edited[q],
           edited'[p] # {} => \E c \in Clients : cast[c] = p /\ socket[c] # "unused",
           \A c \in Clients : OnlySocket(p, c) =>
               \A n \in edited'[p], d \in page.nodes : Agreed(toServer'[c], author[n] = p, active_pipeline, n, d)
    PROVE  PagesInv' /\ AgreedInv'
<1>1. /\ pages'[p].nodes = page.nodes /\ pages'[p].client = pages[p].client
      /\ \A q \in Pages : q # p => pages'[q] = pages[q]
      /\ \A c \in Clients : cast[c] # p \/ socket[c] = "unused" \/ ~Sends(p) => toServer'[c] = toServer[c]
  BY RenderReaches, Zenon
<1>2. UNCHANGED <<active_pipeline, cast, socket, author>>
  BY Zenon DEF vars, document
<1>3. PagesInv'
  <2>1. (\A d, e \in active_pipeline' : d = e) /\ \A n \in Nodes : author'[n] \in Pages => Accepts(n)'
    BY <1>2, PipelineStep, Zenon DEF PipelineKept
  <2>2. ASSUME NEW q \in Pages
        PROVE  /\ \A d, e \in pages'[q].nodes : d = e
               /\ \A c \in pages'[q].client : cast'[c] = q /\ socket'[c] # "unused"
               /\ edited'[q] # {} => \E c \in Clients : cast'[c] = q /\ socket'[c] # "unused"
    <3>1. CASE q = p
      BY <1>1, <1>2, <3>1 DEF PagesInv
    <3>2. CASE q # p
      BY <1>1, <1>2, <3>2 DEF PagesInv
    <3>. QED
      BY <3>1, <3>2, Zenon
  <2>3. \A c \in Clients : socket'[c] = "unused" => toServer'[c] = <<>>
    BY <1>1, <1>2, Zenon DEF PagesInv
  <2>. QED
    BY <2>1, <2>2, <2>3, Zenon DEF PagesInv
<1>4. AgreedInv'
  <2> SUFFICES ASSUME NEW q \in Pages, NEW c \in Clients, OnlySocket(q, c), NEW n \in edited'[q], NEW d \in pages'[q].nodes
               PROVE  Agreed(toServer'[c], author[n] = q, active_pipeline, n, d)
    BY <1>2 DEF AgreedInv, OnlySocket, Agreed
  <2>1. CASE q = p
    BY <1>1, <2>1, Zenon
  <2>2. CASE q # p
    <3>1. cast[c] = q
      BY Zenon DEF OnlySocket
    <3>. QED
      BY <1>1, <2>2, <3>1, Zenon DEF AgreedInv
  <2>. QED
    BY <2>1, <2>2, Zenon
<1>. QED
  BY <1>3, <1>4, Zenon

LEMMA ActingPage ==
    ASSUME ClientTypeOK, NEW p \in Pages
    PROVE  /\ pages[p] \in PageType /\ Acting(p) \in PageType
           /\ Acting(p).nodes = pages[p].nodes /\ Acting(p).client = pages[p].client
<1>1. pages[p] \in PageType
  BY Zenon DEF ClientTypeOK
<1>2. Acting(p) \in PageType
  BY <1>1, PageKept, Zenon DEF Acting
<1>. QED
  BY <1>1, <1>2, Zenon DEF Acting, PageType

LEMMA LoadKeeps ==
    ASSUME ClientTypeOK, PagesInv, AgreedInv, NEW p \in Pages, NEW d \in Documents, LoadPipeline(p, d)
    PROVE  PagesInv' /\ AgreedInv'
<1> DEFINE page == [Acting(p) EXCEPT !.nodes = {d}]
<1>1. page \in PageType
  BY ActingPage, DocumentsTyped, PageKept, Zenon
<1>2. page.client = pages[p].client /\ page.nodes = {d}
  BY ActingPage, Zenon DEF PageType
<1>3. Render(p, page, <<>>) /\ UNCHANGED <<vars, cast, socket, author>>
  BY Zenon DEF LoadPipeline
<1>4. edited'[p] = {} /\ \A q \in Pages : q # p => edited'[q] = edited[q]
  BY Zenon DEF LoadPipeline, ClientTypeOK
<1> HIDE DEF page
<1>. QED
  BY <1>1, <1>2, <1>3, <1>4, ActKeeps, Zenon

\* Messages that update no n leave what is agreed on n as it is.
LEMMA AgreedOthers ==
    ASSUME NEW q \in Seq(MessageType), NEW s \in Seq(MessageType), NEW latest, NEW documents, NEW n, NEW d, NEW e,
           Agreed(q, latest, documents, n, d), \A i \in 1..Len(s) : ~IsUpdate(s[i], n), n \in DOMAIN e, e[n] = d[n]
    PROVE  Agreed(q \o s, latest, documents, n, e)
<1>1. LastIs(q \o s, n, d[n]) /\ (n \in Updated(q \o s) <=> n \in Updated(q))
  BY OthersAppended, Zenon DEF Agreed
<1>. QED
  BY <1>1, Zenon DEF Agreed

LEMMA SelectKeeps ==
    ASSUME ClientTypeOK, PagesInv, AgreedInv, NEW p \in Pages, NEW n \in Nodes, Select(p, n)
    PROVE  PagesInv' /\ AgreedInv'
<1> DEFINE page == [Acting(p) EXCEPT !.selectedId = {n}]
<1>1. page \in PageType
  BY ActingPage, PageKept, Zenon
<1>2. page.client = pages[p].client /\ page.nodes = pages[p].nodes
  BY ActingPage, Zenon DEF PageType
<1>3. Render(p, page, <<>>) /\ UNCHANGED <<vars, cast, socket, author, edited>>
  BY Zenon DEF Select
<1> HIDE DEF page
<1>4. ASSUME NEW c \in Clients, OnlySocket(p, c), NEW m \in edited[p], NEW d \in page.nodes
      PROVE  Agreed(toServer'[c], author[m] = p, active_pipeline, m, d)
  <2>1. Agreed(toServer[c], author[m] = p, active_pipeline, m, d)
    BY <1>2, <1>4, Zenon DEF AgreedInv
  <2>2. CASE ~Sends(p)
    BY <1>1, <1>2, <1>3, <2>1, <2>2, RenderReaches, Zenon
  <2>3. CASE Sends(p)
    <3> DEFINE effect == InspectorEffect(p, page)
    <3>1. effect \in Seq(MessageType) /\ \A i \in 1..Len(effect) : ~IsUpdate(effect[i], m)
      BY <1>1, EffectTyped, EffectUpdatesNothing, Zenon
    <3>2. toServer'[c] = toServer[c] \o (<<>> \o effect)
      BY <1>1, <1>2, <1>3, <1>4, <2>3, RenderReaches, Zenon
    <3> HIDE DEF effect
    <3>3. toServer'[c] = toServer[c] \o effect /\ toServer[c] \in Seq(MessageType)
      BY <3>1, <3>2, SMTT(30) DEF ClientTypeOK
    <3>4. m \in DOMAIN d
      BY <2>1, Zenon DEF Agreed
    <3>. QED
      BY <2>1, <3>1, <3>3, <3>4, AgreedOthers, Zenon
  <2>. QED
    BY <2>2, <2>3, Zenon
<1>5. \A d, e \in page.nodes : d = e
  <2>1. \A d, e \in pages[p].nodes : d = e
    BY Zenon DEF PagesInv
  <2>. QED
    BY <1>2, <2>1
<1>6. edited' = edited /\ (edited[p] # {} => \E c \in Clients : cast[c] = p /\ socket[c] # "unused")
  BY <1>3, Zenon DEF PagesInv
<1>. QED
  BY <1>1, <1>2, <1>3, <1>4, <1>5, <1>6, ActKeeps, Zenon

LEMMA Concatenated ==
    ASSUME NEW s \in Seq(MessageType), NEW t \in Seq(MessageType)
    PROVE  s \o t \in Seq(MessageType) /\ Len(s \o t) = Len(s) + Len(t) /\ Len(s) \in Nat /\ Len(t) \in Nat
OBVIOUS

LEMMA OneThenMore ==
    ASSUME NEW s \in Seq(MessageType), NEW t \in Seq(MessageType), Len(s) = 1
    PROVE  /\ s \o t \in Seq(MessageType) /\ Len(s \o t) = 1 + Len(t) /\ Len(t) \in Nat
           /\ (s \o t)[1] = s[1]
           /\ \A i \in 2..Len(s \o t) : (s \o t)[i] = t[i - 1] /\ i - 1 \in 1..Len(t)
<1>1. s \o t \in Seq(MessageType) /\ Len(s \o t) = 1 + Len(t) /\ Len(t) \in Nat
  BY Concatenated, Zenon
<1>2. (s \o t)[1] = s[1]
  BY <1>1
<1>3. \A i \in 2..(1 + Len(t)) : (s \o t)[i] = t[i - 1] /\ i - 1 \in 1..Len(t)
  BY <1>1
<1>. QED
  BY <1>1, <1>2, <1>3, Zenon

LEMMA EditKeeps ==
    ASSUME ClientTypeOK, PagesInv, AgreedInv, NEW p \in Pages, NEW n \in Nodes, NEW v \in Values, Edit(p, n, v)
    PROVE  PagesInv' /\ AgreedInv'
<1> DEFINE after == UpdateNodeParam(pages[p].nodes, n, v)
           page == [Acting(p) EXCEPT !.nodes = UpdateNodeParam(@, n, v)]
           messages == <<UpdateMessage(n, v)>>
<1>1. Acting(p).nodes \in SUBSET DocumentType /\ Acting(p).nodes = pages[p].nodes
  BY ActingPage, Zenon DEF PageType
<1>2. after \in SUBSET DocumentType
  <2>1. \A d \in DocumentType : [d EXCEPT ![n] = v] \in DocumentType
    BY EditedTyped, Zenon
  <2>. QED
    BY <1>1, <2>1, Zenon DEF UpdateNodeParam
<1>3. page = [Acting(p) EXCEPT !.nodes = after]
  BY <1>1, Zenon
<1>4. page \in PageType
  BY <1>2, <1>3, ActingPage, PageKept, Zenon
<1>5. page.client = pages[p].client /\ page.nodes = after
  BY <1>3, ActingPage, Zenon DEF PageType
<1>6. Render(p, page, messages) /\ UNCHANGED <<vars, cast, socket, author>>
  BY Zenon DEF Edit
<1>7. /\ edited'[p] = IF Sends(p) THEN edited[p] \cup {n} ELSE edited[p] \ {n}
      /\ \A q \in Pages : q # p => edited'[q] = edited[q]
  BY Zenon DEF Edit, ClientTypeOK
<1>8. \A d \in pages[p].nodes : n \in DOMAIN d
  BY Zenon DEF Edit, Inspected, PagesInv
<1>9. \A d \in after : \E e \in pages[p].nodes : DOMAIN d = DOMAIN e /\ d[n] = v /\ \A m \in DOMAIN e : m # n => d[m] = e[m]
  BY <1>8, Zenon DEF UpdateNodeParam
<1>10. \A d, e \in after : d = e
  BY DEF PagesInv, UpdateNodeParam
<1>11. messages \in Seq(MessageType) /\ Len(messages) = 1 /\ messages[1] = UpdateMessage(n, v)
  BY DEF UpdateMessage, MessageType
<1> HIDE DEF page, after, messages
<1>12. edited'[p] # {} => \E c \in Clients : cast[c] = p /\ socket[c] # "unused"
  <2>1. CASE Sends(p)
    BY <1>4, <1>5, <2>1, Zenon DEF Sends, PagesInv, PageType
  <2>2. CASE ~Sends(p)
    BY <1>7, <2>2, Zenon DEF PagesInv
  <2>. QED
    BY <2>1, <2>2, Zenon
<1>13. ASSUME NEW c \in Clients, OnlySocket(p, c), NEW m \in edited'[p], NEW d \in after
       PROVE  Agreed(toServer'[c], author[m] = p, active_pipeline, m, d)
  <2>1. PICK e \in pages[p].nodes : DOMAIN d = DOMAIN e /\ d[n] = v /\ \A k \in DOMAIN e : k # n => d[k] = e[k]
    BY <1>9, Zenon
  <2>2. m # n => Agreed(toServer[c], author[m] = p, active_pipeline, m, e) /\ m \in DOMAIN d /\ d[m] = e[m]
    <3>1. m # n => m \in edited[p]
      BY <1>7, <1>13, Zenon
    <3>2. m # n => Agreed(toServer[c], author[m] = p, active_pipeline, m, e)
      BY <1>13, <3>1, Zenon DEF AgreedInv
    <3>3. m # n => m \in DOMAIN e
      BY <3>2, Zenon DEF Agreed
    <3>. QED
      BY <2>1, <3>2, <3>3, Zenon
  <2>3. CASE ~Sends(p)
    <3>1. toServer'[c] = toServer[c] /\ m # n
      BY <1>4, <1>5, <1>6, <1>7, <2>3, RenderReaches, Zenon
    <3>. QED
      BY <2>2, <3>1, Zenon DEF Agreed
  <2>4. CASE Sends(p)
    <3> DEFINE effect == InspectorEffect(p, page)
               sent == messages \o effect
    <3>1. effect \in Seq(MessageType) /\ \A k : \A i \in 1..Len(effect) : ~IsUpdate(effect[i], k)
      BY <1>4, EffectTyped, EffectUpdatesNothing, Zenon
    <3>2. toServer'[c] = toServer[c] \o sent /\ toServer[c] \in Seq(MessageType)
      BY <1>4, <1>5, <1>6, <1>13, <2>4, RenderReaches, Zenon DEF ClientTypeOK
    <3> HIDE DEF effect
    <3>3. /\ sent \in Seq(MessageType) /\ Len(sent) = 1 + Len(effect) /\ Len(effect) \in Nat
          /\ sent[1] = UpdateMessage(n, v)
          /\ \A i \in 2..Len(sent) : sent[i] = effect[i - 1] /\ i - 1 \in 1..Len(effect)
      BY <1>11, <3>1, OneThenMore, Zenon
    <3> HIDE DEF sent
    <3>4. CASE m = n
      <4>1. IsUpdate(sent[1], n) /\ sent[1].value = v
        BY <3>3 DEF IsUpdate, UpdateMessage
      <4>2. ASSUME NEW i \in 2..Len(sent) PROVE ~IsUpdate(sent[i], n)
        <5>1. sent[i] = effect[i - 1] /\ i - 1 \in 1..Len(effect)
          BY <3>3, Zenon
        <5>. QED
          BY <3>1, <5>1, Zenon
      <4>3. Len(sent) > 0 /\ sent \in Seq(MessageType) /\ toServer[c] \in Seq(MessageType)
        BY <3>2, <3>3
      <4>4. LastIs(toServer[c] \o sent, n, v) /\ n \in Updated(toServer[c] \o sent)
        BY <4>1, <4>2, <4>3, UpdateAppended, Zenon
      <4>. QED
        BY <1>8, <2>1, <3>2, <3>4, <4>4, Zenon DEF Agreed
    <3>5. CASE m # n
      <4>1. \A i \in 1..Len(sent) : i = 1 \/ i \in 2..Len(sent)
        BY <3>3
      <4>2. ~IsUpdate(sent[1], m)
        BY <3>3, <3>5, SMTT(30) DEF IsUpdate, UpdateMessage
      <4>3. \A i \in 1..Len(sent) : ~IsUpdate(sent[i], m)
        BY <3>1, <3>3, <4>1, <4>2, Zenon
      <4>4. Agreed(toServer[c] \o sent, author[m] = p, active_pipeline, m, d)
        BY <2>2, <3>2, <3>3, <3>5, <4>3, AgreedOthers, Zenon
      <4>. QED
        BY <3>2, <4>4, Zenon
    <3>. QED
      BY <3>4, <3>5, Zenon
  <2>. QED
    BY <2>3, <2>4, Zenon
<1>. QED
  BY <1>4, <1>5, <1>6, <1>7, <1>10, <1>12, <1>13, ActKeeps

\* Steps that leave alone what the pages show and send.
LEMMA ElsewhereKeeps ==
    ASSUME ClientTypeOK, PagesInv, AgreedInv, UNCHANGED <<active_pipeline, cast, toServer, edited, author>>,
           \A p \in Pages : pages'[p].nodes = pages[p].nodes /\ pages'[p].client = pages[p].client,
           \A c \in Clients : socket'[c] = "unused" <=> socket[c] = "unused"
    PROVE  PagesInv' /\ AgreedInv'
<1>1. \A p \in Pages : \A c \in pages[p].client : c \in Clients
  BY Zenon DEF ClientTypeOK, PageType
<1>2. PagesInv'
  BY <1>1, SMTT(30) DEF PagesInv, Accepts
<1>3. \A p, c : OnlySocket(p, c)' <=> OnlySocket(p, c)
  BY Zenon DEF OnlySocket
<1>4. AgreedInv'
  BY <1>3, SMTT(30) DEF AgreedInv, Agreed
<1>. QED
  BY <1>2, <1>4, Zenon

\* A page's first socket finds nothing edited yet, and with the second one nothing is claimed any more.
LEMMA AnswerKeeps ==
    ASSUME ClientTypeOK, PagesInv, AgreedInv, NEW p \in Pages, NEW c \in Clients, RegistryAnswers(p, c)
    PROVE  PagesInv' /\ AgreedInv'
<1>1. /\ cast[c] = p /\ socket[c] = "unused" /\ socket' = [socket EXCEPT ![c] = "connecting"]
      /\ UNCHANGED <<active_pipeline, cast, toServer, edited, author>>
  BY Zenon DEF RegistryAnswers, vars, document
<1>2. pages'[p].nodes = pages[p].nodes /\ pages'[p].client = {c} /\ \A q \in Pages : q # p => pages'[q] = pages[q]
  <2>0. pages[p] \in PageType /\ pages[p].fetching > 0
    BY Zenon DEF RegistryAnswers, ClientTypeOK
  <2>1. Answered(p) \in PageType /\ Answered(p).nodes = pages[p].nodes
    <3>1. Answered(p) \in PageType
      BY <2>0, PageKept, Zenon DEF Answered
    <3>. QED
      BY <2>0, <3>1, Zenon DEF Answered, PageType
  <2>2. pages' = [pages EXCEPT ![p] = [Answered(p) EXCEPT !.client = {c}]]
    BY Zenon DEF RegistryAnswers
  <2>3. [Answered(p) EXCEPT !.client = {c}].nodes = pages[p].nodes /\ [Answered(p) EXCEPT !.client = {c}].client = {c}
    BY <2>1, Zenon DEF PageType
  <2>. QED
    BY <2>2, <2>3, Zenon DEF ClientTypeOK
<1>3. socket'[c] = "connecting" /\ \A d \in Clients : d # c => socket'[d] = socket[d]
  BY <1>1, Zenon DEF ClientTypeOK
<1>4. \A q \in Pages : \A d \in pages[q].client : d \in Clients
  BY Zenon DEF ClientTypeOK, PageType
<1>5. PagesInv'
  <2>1. (\A d, e \in active_pipeline' : d = e) /\ \A n \in Nodes : author'[n] \in Pages => Accepts(n)'
    BY <1>1, PipelineStep, Zenon DEF PipelineKept
  <2>2. ASSUME NEW q \in Pages
        PROVE  /\ \A d, e \in pages'[q].nodes : d = e
               /\ \A d \in pages'[q].client : cast'[d] = q /\ socket'[d] # "unused"
               /\ edited'[q] # {} => \E d \in Clients : cast'[d] = q /\ socket'[d] # "unused"
    <3>1. CASE q = p
      BY <1>1, <1>2, <1>3, <3>1 DEF PagesInv
    <3>2. CASE q # p
      BY <1>1, <1>2, <1>3, <1>4, <3>2 DEF PagesInv
    <3>. QED
      BY <3>1, <3>2, Zenon
  <2>3. \A d \in Clients : socket'[d] = "unused" => toServer'[d] = <<>>
    BY <1>1, <1>3, Zenon DEF PagesInv
  <2>. QED
    BY <2>1, <2>2, <2>3, Zenon DEF PagesInv
<1>6. ASSUME NEW q \in Pages, NEW d \in Clients, OnlySocket(q, d)', edited[q] # {} PROVE q # p /\ OnlySocket(q, d)
  <2>1. {e \in Clients : cast[e] = q /\ socket'[e] # "unused"} = {d}
    BY <1>1, <1>6, Zenon DEF OnlySocket
  <2>2. q # p
    <3> SUFFICES ASSUME q = p PROVE FALSE
      BY Zenon
    <3>1. PICK e \in Clients : cast[e] = p /\ socket[e] # "unused"
      BY <1>6, Zenon DEF PagesInv
    <3>2. e = d /\ c = d
      BY <1>1, <1>3, <2>1, <3>1, Zenon
    <3>. QED
      BY <1>1, <3>1, <3>2, Zenon
  <2>. QED
    BY <1>1, <1>3, <2>1, <2>2, Zenon DEF OnlySocket
<1>7. AgreedInv'
  BY <1>1, <1>2, <1>6 DEF AgreedInv, Agreed
<1>. QED
  BY <1>5, <1>7, Zenon

\* What was on its way is lost, and no longer counts as sent.
LEMMA CloseKeeps ==
    ASSUME ClientTypeOK, PagesInv, AgreedInv, NEW c \in Clients, ServerCloses(c)
    PROVE  PagesInv' /\ AgreedInv'
<1>1. UNCHANGED <<active_pipeline, cast, pages, socket, author>> /\ cast[c] \in Pages
  BY Zenon DEF ServerCloses, Close, document
<1>2. toServer'[c] = <<>> /\ \A d \in Clients : d # c => toServer'[d] = toServer[d]
  BY Zenon DEF ServerCloses, ClientTypeOK
<1>3. \A q \in Pages : /\ edited'[q] \subseteq edited[q]
                       /\ q = cast[c] => edited'[q] \cap Updated(toServer[c]) = {}
  BY <1>1, Zenon DEF ServerCloses, ClientTypeOK
<1>4. PagesInv'
  <2>1. (\A d, e \in active_pipeline' : d = e) /\ \A n \in Nodes : author'[n] \in Pages => Accepts(n)'
    BY <1>1, PipelineStep, Zenon DEF PipelineKept
  <2>2. \A d \in Clients : socket'[d] = "unused" => toServer'[d] = <<>>
    BY <1>1, <1>2, Zenon DEF PagesInv
  <2>3. \A q \in Pages : edited'[q] # {} => edited[q] # {}
    BY <1>3, Zenon
  <2>. QED
    BY <1>1, <2>1, <2>2, <2>3, Zenon DEF PagesInv
<1>5. AgreedInv'
  <2> SUFFICES ASSUME NEW q \in Pages, NEW d \in Clients, OnlySocket(q, d), NEW n \in edited'[q], NEW e \in pages[q].nodes
               PROVE  Agreed(toServer'[d], author[n] = q, active_pipeline, n, e)
    BY <1>1, SMTT(30) DEF AgreedInv, OnlySocket, Agreed
  <2>1. Agreed(toServer[d], author[n] = q, active_pipeline, n, e) /\ cast[d] = q
    BY <1>3, Zenon DEF AgreedInv, OnlySocket
  <2>2. CASE d # c
    BY <1>2, <2>1, <2>2, Zenon
  <2>3. CASE d = c
    <3>1. n \notin Updated(toServer[c])
      BY <1>3, <2>1, <2>3, Zenon
    <3>2. LastIs(<<>>, n, e[n])
      BY DEF LastIs
    <3>. QED
      BY <1>2, <2>1, <2>3, <3>1, <3>2, Zenon DEF Agreed
  <2>. QED
    BY <2>2, <2>3, Zenon
<1>. QED
  BY <1>4, <1>5, Zenon

\* Pages and sockets are as they were, and queues at most shorter: the rest is about the pipeline.
LEMMA ServerKeepsPages ==
    ASSUME ClientTypeOK, PagesInv, UNCHANGED <<cast, pages, socket, edited>>,
           PipelineKept \/ PipelinePut \/ \E who \in Pages \cup {Other, Nobody} : PipelineSet(who),
           \A c \in Clients : toServer[c] = <<>> => toServer'[c] = <<>>
    PROVE  PagesInv'
<1>1. (\A d, e \in active_pipeline' : d = e) /\ \A n \in Nodes : author'[n] \in Pages => Accepts(n)'
  BY PipelineStep, Zenon
<1>2. \A c \in Clients : socket'[c] = "unused" => toServer'[c] = <<>>
  BY Zenon DEF PagesInv
<1>. QED
  BY <1>1, <1>2, ZenonT(30) DEF PagesInv

\* Somebody else's value takes the node over, and leaves the other nodes as they are.
LEMMA OthersKeep ==
    ASSUME ClientTypeOK, PagesInv, AgreedInv, UNCHANGED <<cast, pages, socket, toServer, edited>>,
           PipelineKept \/ PipelinePut \/ PipelineSet(Other)
    PROVE  PagesInv' /\ AgreedInv'
<1>1. PagesInv'
  BY ServerKeepsPages, Zenon
<1>2. ASSUME NEW p \in Pages, NEW n \in Nodes, author'[n] = p
      PROVE  author[n] = p /\ \A d \in active_pipeline' : \E e \in active_pipeline : d[n] = e[n]
  <2>1. CASE PipelineKept
    BY <1>2, <2>1, Zenon DEF PipelineKept
  <2>2. CASE PipelinePut
    BY <1>2, <2>2, CastAssumption, Zenon DEF PipelinePut
  <2>3. CASE PipelineSet(Other)
    <3>1. PICK m \in Nodes, v \in Values : Accepts(m) /\ ApplyDelta(m, v) /\ author' = [author EXCEPT ![m] = Other]
      BY <2>3, Zenon DEF PipelineSet
    <3>2. n # m /\ author[n] = p
      BY <1>2, <3>1, CastAssumption, Zenon DEF ClientTypeOK
    <3>3. Accepts(n)
      BY <3>2, Zenon DEF PagesInv
    <3>4. \A d \in active_pipeline' : \E e \in active_pipeline : \A k : k # m /\ Accepts(k) => d[k] = e[k]
      BY <3>1, SetDocument DEF PagesInv
    <3>. QED
      BY <3>2, <3>3, <3>4, Zenon
  <2>. QED
    BY <2>1, <2>2, <2>3, Zenon
<1>3. AgreedInv'
  <2> SUFFICES ASSUME NEW p \in Pages, NEW c \in Clients, OnlySocket(p, c), NEW n \in edited[p], NEW d \in pages[p].nodes
               PROVE  Agreed(toServer[c], author'[n] = p, active_pipeline', n, d)
    BY DEF AgreedInv, OnlySocket, Agreed
  <2>1. Agreed(toServer[c], author[n] = p, active_pipeline, n, d) /\ n \in Nodes
    BY Zenon DEF AgreedInv, ClientTypeOK
  <2>2. n \in DOMAIN d /\ LastIs(toServer[c], n, d[n])
    BY <2>1, Zenon DEF Agreed
  <2>3. ASSUME author'[n] = p, NEW e \in active_pipeline', n \notin Updated(toServer[c]) PROVE e[n] = d[n]
    <3>1. author[n] = p
      BY <1>2, <2>1, <2>3, Zenon
    <3>2. PICK old \in active_pipeline : e[n] = old[n]
      BY <1>2, <2>1, <2>3, Zenon
    <3>. QED
      BY <2>1, <2>3, <3>1, <3>2, Zenon DEF Agreed
  <2>. QED
    BY <2>2, <2>3, Zenon DEF Agreed
<1>. QED
  BY <1>1, <1>3, Zenon

LEMMA HandleKeeps ==
    ASSUME ClientTypeOK, PagesInv, AgreedInv, NEW c \in Clients, HandleMessage(c)
    PROVE  PagesInv' /\ AgreedInv'
<1>1. PICK m \in MessageType : m = Head(toServer[c])
  BY HeadTyped, Zenon DEF HandleMessage
<1>2. /\ toServer[c] # <<>> /\ toServer'[c] = Tail(toServer[c]) /\ \A d \in Clients : d # c => toServer'[d] = toServer[d]
      /\ UNCHANGED <<cast, pages, socket, edited>> /\ (HandleUpdate(c, m) \/ HandleSubscribe(c, m))
  BY <1>1, Zenon DEF HandleMessage, ClientTypeOK
<1>3. toServer[c] \in Seq(MessageType) /\ cast[c] \in Pages \cup {Other, Nobody}
  BY Zenon DEF ClientTypeOK
<1>4. \/ PipelineKept /\ (m.type = "node.update_param" => ~Accepts(m.node))
      \/ /\ m.type = "node.update_param" /\ m.node \in Nodes /\ m.value \in Values
         /\ Accepts(m.node) /\ ApplyDelta(m.node, m.value) /\ author' = [author EXCEPT ![m.node] = cast[c]]
  <2>1. CASE HandleSubscribe(c, m)
    BY <2>1, Zenon DEF HandleSubscribe, Subscribe, PipelineKept, document
  <2>2. CASE HandleUpdate(c, m) /\ ~Accepts(m.node)
    BY <2>2, Zenon DEF HandleUpdate, PipelineKept, vars, document
  <2>3. CASE HandleUpdate(c, m) /\ Accepts(m.node)
    <3>1. m.node \in Nodes /\ m.value \in Values
      BY <2>3, Zenon DEF HandleUpdate, MessageType
    <3>. QED
      BY <2>3, <3>1, Zenon DEF HandleUpdate, UpdateParam
  <2>. QED
    BY <1>2, <2>1, <2>2, <2>3, Zenon
<1>5. PagesInv'
  <2>1. PipelineKept \/ \E who \in Pages \cup {Other, Nobody} : PipelineSet(who)
    BY <1>3, <1>4, Zenon DEF PipelineSet
  <2>2. \A d \in Clients : toServer[d] = <<>> => toServer'[d] = <<>>
    BY <1>2, Zenon
  <2>. QED
    BY <1>2, <2>1, <2>2, ServerKeepsPages, Zenon
<1>6. ASSUME NEW p \in Pages, NEW d \in Clients, OnlySocket(p, d), NEW n \in edited[p], NEW doc \in pages[p].nodes
      PROVE  Agreed(toServer'[d], author'[n] = p, active_pipeline', n, doc)
  <2>1. /\ Agreed(toServer[d], author[n] = p, active_pipeline, n, doc) /\ n \in Nodes /\ n \in DOMAIN doc
        /\ LastIs(toServer[d], n, doc[n])
    <3>1. Agreed(toServer[d], author[n] = p, active_pipeline, n, doc)
      BY <1>6, Zenon DEF AgreedInv
    <3>2. n \in Nodes
      BY <1>6, Zenon DEF ClientTypeOK
    <3>. QED
      BY <3>1, <3>2, Zenon DEF Agreed
  <2>2. cast[c] = p => c = d
    <3>1. socket[c] # "unused"
      BY <1>2, Zenon DEF PagesInv
    <3>. QED
      BY <1>6, <3>1, Zenon DEF OnlySocket
  <2>3. LastIs(toServer'[d], n, doc[n])
    BY <1>2, <1>3, <2>1, FirstLeaves, Zenon
  <2>4. ASSUME n \notin Updated(toServer'[d]), author'[n] = p, NEW e \in active_pipeline' PROVE e[n] = doc[n]
    <3>1. CASE m.type = "node.update_param" /\ m.node = n /\ Accepts(n)
      <4>1. Accepts(n) /\ ApplyDelta(n, m.value) /\ author' = [author EXCEPT ![n] = cast[c]]
        BY <1>4, <3>1, Zenon
      <4>2. e[n] = m.value
        BY <2>4, <4>1, SetDocument DEF PagesInv
      <4>3. cast[c] = p
        BY <2>1, <2>4, <4>1, Zenon DEF ClientTypeOK
      <4>4. n \in Updated(toServer[c])
        <5>1. IsUpdate(toServer[c][1], n) /\ 1 \in 1..Len(toServer[c])
          BY <1>1, <1>2, <1>3, <3>1, SMTT(30) DEF IsUpdate
        <5>. QED
          BY <1>3, <5>1, UpdatedMeans, Zenon
      <4>. QED
        BY <1>1, <1>2, <1>3, <2>1, <2>2, <2>4, <4>2, <4>3, <4>4, FirstLeaves, Zenon
    <3>2. CASE ~(m.type = "node.update_param" /\ m.node = n /\ Accepts(n))
      <4>1. author[n] = p /\ Accepts(n)
        <5>1. author[n] = p
          BY <1>4, <2>1, <2>4, <3>2, Zenon DEF PipelineKept, ClientTypeOK
        <5>. QED
          BY <2>1, <5>1, Zenon DEF PagesInv
      <4>2. PICK old \in active_pipeline : e[n] = old[n]
        <5>1. CASE PipelineKept
          BY <2>4, <5>1, Zenon DEF PipelineKept
        <5>2. CASE ~PipelineKept
          BY <1>4, <2>4, <3>2, <4>1, <5>2, SetDocument DEF PagesInv
        <5>. QED
          BY <5>1, <5>2, Zenon
      <4>3. d = c => ~IsUpdate(Head(toServer[d]), n)
        BY <1>1, <3>2, <4>1, Zenon DEF IsUpdate
      <4>4. n \notin Updated(toServer[d])
        BY <1>2, <1>3, <2>1, <2>4, <4>3, FirstLeaves, Zenon
      <4>. QED
        BY <2>1, <4>1, <4>2, <4>4, Zenon DEF Agreed
    <3>. QED
      BY <3>1, <3>2, Zenon
  <2>. QED
    BY <2>1, <2>3, <2>4, Zenon DEF Agreed
<1>7. AgreedInv'
  <2>1. \A p, d : OnlySocket(p, d)' <=> OnlySocket(p, d)
    BY <1>2, Zenon DEF OnlySocket
  <2>2. edited' = edited /\ pages' = pages
    BY <1>2, Zenon
  <2>. QED
    BY <1>6, <2>1, <2>2, Zenon DEF AgreedInv
<1>. QED
  BY <1>5, <1>7, Zenon

PagesAgreeInv == ClientTypeOK /\ PagesInv /\ AgreedInv

LEMMA PagesInit == ASSUME ClientInit PROVE PagesAgreeInv
<1>1. ClientTypeOK
  BY ClientTypeInit, Zenon
<1>2. \A p \in Pages : pages[p].nodes = {} /\ pages[p].client = {} /\ edited[p] = {}
  BY Zenon DEF ClientInit, NewPage
<1>3. (\A d, e \in active_pipeline : d = e) /\ (\A n \in Nodes : author[n] \notin Pages) /\ \A c \in Clients : toServer[c] = <<>>
  BY CastAssumption, Zenon DEF ClientInit, Init
<1>. QED
  BY <1>1, <1>2, <1>3, Zenon DEF PagesAgreeInv, PagesInv, AgreedInv

LEMMA PagesStep == ASSUME PagesAgreeInv, [ClientNext]_clientVars PROVE PagesAgreeInv'
<1> SUFFICES ASSUME ClientTypeOK, PagesInv, AgreedInv PROVE PagesAgreeInv'
  BY Zenon DEF PagesAgreeInv
<1>0. ClientTypeOK'
  BY ClientTypeStep, Zenon
<1>1. ASSUME NEW p \in Pages,
             \/ \E d \in Documents : LoadPipeline(p, d)
             \/ \E n \in Nodes : Select(p, n) \/ \E v \in Values : Edit(p, n, v)
             \/ \E c \in Clients : RegistryAnswers(p, c)
      PROVE  PagesInv' /\ AgreedInv'
  BY <1>1, LoadKeeps, SelectKeeps, EditKeeps, AnswerKeeps, Zenon
<1>2. ASSUME NEW p \in Pages, RegistryFails(p) PROVE PagesInv' /\ AgreedInv'
  <2>1. pages[p] \in PageType /\ Answered(p).nodes = pages[p].nodes /\ Answered(p).client = pages[p].client
    BY Zenon DEF ClientTypeOK, PageType, Answered
  <2>2. \A q \in Pages : pages'[q].nodes = pages[q].nodes /\ pages'[q].client = pages[q].client
    BY <1>2, <2>1, Zenon DEF RegistryFails, ClientTypeOK
  <2>3. UNCHANGED <<active_pipeline, cast, toServer, edited, author, socket>>
    BY <1>2, Zenon DEF RegistryFails, wires, vars, document
  <2>. QED
    BY <2>2, <2>3, ElsewhereKeeps, Zenon
<1>3. ASSUME NEW c \in Clients, ServerOpens(c) \/ SocketOpens(c) \/ SocketCloses(c) PROVE PagesInv' /\ AgreedInv'
  <2>1. UNCHANGED <<active_pipeline, cast, pages, toServer, edited, author>>
    BY <1>3, Zenon DEF ServerOpens, Open, SocketOpens, SocketCloses, wires, vars, document
  <2>2. \A d \in Clients : socket'[d] = "unused" <=> socket[d] = "unused"
    BY <1>3, Zenon DEF ServerOpens, SocketOpens, SocketCloses, wires, ClientTypeOK
  <2>. QED
    BY <2>1, <2>2, ElsewhereKeeps, Zenon
<1>4. ASSUME NEW c \in Clients, ServerCloses(c) \/ HandleMessage(c) PROVE PagesInv' /\ AgreedInv'
  BY <1>4, CloseKeeps, HandleKeeps, Zenon
<1>5. ASSUME NEW c \in Clients, OnMessage(c) PROVE PagesInv' /\ AgreedInv'
  <2>1. \A q \in Pages : pages'[q].nodes = pages[q].nodes /\ pages'[q].client = pages[q].client
    BY <1>5 DEF OnMessage, ClientTypeOK, PageType
  <2>2. UNCHANGED <<active_pipeline, cast, toServer, edited, author, socket>>
    BY <1>5, Zenon DEF OnMessage, vars, document
  <2>. QED
    BY <2>1, <2>2, ElsewhereKeeps, Zenon
<1>6. CASE RunForPages
  <2>1. UNCHANGED <<active_pipeline, cast, pages, toServer, edited, author, socket>>
    BY <1>6, Zenon DEF RunForPages, PostRun, EmitCompletedRun, CompleteRun
  <2>. QED
    BY <1>0, <2>1, ElsewhereKeeps, Zenon DEF PagesAgreeInv
<1>7. CASE OtherRequests
  <2>1. UNCHANGED <<cast, pages, socket, toServer, edited>>
    BY <1>7, Zenon DEF OtherRequests, wires
  <2>2. PipelineKept \/ PipelinePut \/ PipelineSet(Other)
    BY <1>7, CastAssumption, Zenon DEF OtherRequests, Put, PostParam, UpdateParam, Open, Close, Unsubscribe, Subscribe, Tick,
                                PipelineKept, PipelinePut, PipelineSet, document
  <2>. QED
    BY <1>0, <2>1, <2>2, OthersKeep, Zenon DEF PagesAgreeInv
<1>8. CASE UNCHANGED clientVars
  <2>1. UNCHANGED <<active_pipeline, cast, pages, toServer, edited, author, socket>>
    BY <1>8, Zenon DEF clientVars, wires, vars, document
  <2>. QED
    BY <1>0, <2>1, ElsewhereKeeps, Zenon DEF PagesAgreeInv
<1>. QED
  BY <1>0, <1>1, <1>2, <1>3, <1>4, <1>5, <1>6, <1>7, <1>8, Zenon DEF ClientNext, PagesAgreeInv

\* Once its updates have arrived, the server has the values a page shows for the nodes it was the last to
\* set, though the page never asks (sendParamUpdate, updateNodeParam, apply_param_delta).
THEOREM PagesAgree == ClientSpec => []EditsAgree
<1>1. ClientInit => PagesAgreeInv
  BY PagesInit, Zenon
<1>2. PagesAgreeInv /\ [ClientNext]_clientVars => PagesAgreeInv'
  BY PagesStep, Zenon
<1>3. PagesAgreeInv => EditsAgree
  BY SMTT(30) DEF PagesAgreeInv, AgreedInv, Agreed, EditsAgree
<1>. QED
  BY <1>1, <1>2, <1>3, PTL DEF ClientSpec

---------------------------------------------------------------------------
(* The frame a page shows is the newest of the node it inspects. *)

IsSubscribe(m) == m.type = "node.subscribe_thumbnail"
NoneSubscribes(q) == \A i \in 1..Len(q) : ~IsSubscribe(q[i])

\* The last subscription on the way, if there is one, names n; when none is, the server's does.
LastNames(q, n) ==
    \A i \in 1..Len(q) : IsSubscribe(q[i]) /\ (\A j \in (i + 1)..Len(q) : ~IsSubscribe(q[j])) => q[i].node = n
Asks(q, subscriptions, c, n) ==
    /\ LastNames(q, n)
    /\ NoneSubscribes(q) /\ c \in DOMAIN subscriptions => subscriptions[c].node = n

\* The last frame of a queue, and without one what the page shows already.
Newest(q, latest, frame) == IF q = <<>> THEN latest = {frame} ELSE q[Len(q)] = frame

\* The one socket of a page, as long as it is not closed.
Linked(p, c) == OnlySocket(p, c) /\ socket[c] \in {"connecting", "open"}

\* A page inspects one node at most, sends on the socket it has, and has no subscription before it has one.
SocketsInv ==
    /\ \A p \in Pages : \A m, n \in pages[p].selectedId : m = n
    /\ \A p \in Pages, c \in Clients : OnlySocket(p, c) => c \in pages[p].client
    /\ \A c \in Clients : cast[c] \in Pages /\ socket[c] = "unused" => c \notin ws_clients
AsksInv ==
    \A p \in Pages, c \in Clients : Linked(p, c) /\ pages[p].root = "mounted" =>
        \A n \in Inspected(pages[p]) : Asks(toServer[c], thumbnail_subscriptions, c, n)
FramesInv ==
    \A p \in Pages, c \in Clients : Linked(p, c) /\ c \in DOMAIN shown /\ shown[c] # 0 =>
        Newest(toPage[c], pages[p].latest, [node |-> thumbnail_subscriptions[c].node, run |-> shown[c]])
\* No subscriber has a frame of a run that is yet to come.
ShownBound == \A c \in DOMAIN shown : shown[c] \in Nat /\ shown[c] <= serial

LEMMA ShownKept == ASSUME ClientTypeOK, ShownBound, SessionStep PROVE ShownBound'
<1>1. serial \in Nat
  BY Zenon DEF ClientTypeOK
<1>2. CASE PostRun \/ EmitCompletedRun
  <2>1. CompleteRun
    BY <1>2, Zenon DEF PostRun, EmitCompletedRun
  <2>2. serial' = serial + 1 /\ \E R : shown' = [c \in DOMAIN shown |-> IF c \in R THEN serial' ELSE shown[c]]
    BY <2>1, Zenon DEF CompleteRun, PushThumbnails
  <2>3. PICK R : shown' = [c \in DOMAIN shown |-> IF c \in R THEN serial' ELSE shown[c]]
    BY <2>2, Zenon
  <2>4. DOMAIN shown' = DOMAIN shown /\ \A c \in DOMAIN shown : shown'[c] \in {serial', shown[c]}
    BY <2>3, Zenon
  <2>5. \A a \in Nat : (\A b \in Nat : b <= a => b <= a + 1) /\ a + 1 \in Nat /\ a + 1 <= a + 1
    OBVIOUS
  <2>. QED
    BY <1>1, <2>2, <2>4, <2>5, Zenon DEF ShownBound
<1>3. CASE UNCHANGED <<shown, serial>>
  BY <1>3, Zenon DEF ShownBound
<1>4. ASSUME NEW d \in Documents, Put(d) PROVE UNCHANGED <<shown, serial>>
  BY <1>4, Zenon DEF Put
<1>5. ASSUME NEW n \in Nodes, NEW v \in Values, PostParam(n, v) \/ \E c \in Clients : UpdateParam(c, n, v)
      PROVE  UNCHANGED <<shown, serial>>
  BY <1>5, Zenon DEF PostParam, UpdateParam, thumbnails
<1>6. ASSUME NEW c \in Clients, Open(c) PROVE UNCHANGED <<shown, serial>>
  BY <1>6, Zenon DEF Open, thumbnails
<1>7. ASSUME NEW c \in Clients, Close(c) \/ Unsubscribe(c) PROVE ShownBound'
  <2>1. shown' = Without(shown, c) /\ serial' = serial
    BY <1>7, Zenon DEF Close, Unsubscribe
  <2>. QED
    BY <2>1, Zenon DEF Without, Restrict, ShownBound
<1>8. ASSUME NEW c \in Clients, NEW n \in Nodes, NEW i \in Intervals, Subscribe(c, n, i) PROVE ShownBound'
  <2>1. (shown' = shown \/ shown' = With(shown, c, 0)) /\ serial' = serial
    BY <1>8, Zenon DEF Subscribe
  <2>2. 0 \in Nat /\ 0 <= serial
    BY <1>1
  <2>3. ASSUME NEW x \in DOMAIN shown' PROVE shown'[x] = 0 \/ (x \in DOMAIN shown /\ shown'[x] = shown[x])
    <3>1. CASE shown' = shown
      BY <2>3, <3>1, Zenon
    <3>2. CASE shown' = With(shown, c, 0)
      BY <2>3, <3>2 DEF With
    <3>. QED
      BY <2>1, <3>1, <3>2, Zenon
  <2>. QED
    BY <2>1, <2>2, <2>3, Zenon DEF ShownBound
<1>9. CASE Tick \/ UNCHANGED vars
  BY <1>3, <1>9, Zenon DEF Tick, vars, thumbnails
<1>. QED
  BY <1>2, <1>3, <1>4, <1>5, <1>6, <1>7, <1>8, <1>9, Zenon DEF SessionStep, Next

\* A subscription that is sent is the last one.
LEMMA SubscriptionSent ==
    ASSUME NEW q \in Seq(MessageType), NEW s \in Seq(MessageType), NEW m \in MessageType, IsSubscribe(m),
           NEW subscriptions, NEW c
    PROVE  Asks(q \o (s \o <<m>>), subscriptions, c, m.node)
<1> DEFINE t == q \o (s \o <<m>>)
<1>1. t \in Seq(MessageType) /\ Len(t) \in Nat /\ Len(t) \in 1..Len(t) /\ t[Len(t)] = m
  OBVIOUS
<1> HIDE DEF t
<1>2. \A i \in 1..Len(t) : i = Len(t) \/ Len(t) \in (i + 1)..Len(t)
  BY <1>1
<1>3. LastNames(t, m.node)
  BY <1>1, <1>2, Zenon DEF LastNames
<1>4. ~NoneSubscribes(t)
  BY <1>1, Zenon DEF NoneSubscribes
<1>. QED
  BY <1>3, <1>4, Zenon DEF Asks, t

\* When the first message leaves, it was a subscription and is the server's now, or nothing changes.
LEMMA FirstHandled ==
    ASSUME NEW q \in Seq(MessageType), q # <<>>, NEW n, NEW c, NEW old, NEW new, Asks(q, old, c, n),
           IF IsSubscribe(Head(q)) THEN new[c].node = Head(q).node ELSE c \in DOMAIN new => c \in DOMAIN old /\ new[c] = old[c]
    PROVE  Asks(Tail(q), new, c, n)
<1> DEFINE t == Tail(q)
<1>1. /\ t \in Seq(MessageType) /\ Len(q) \in Nat /\ Len(q) >= 1 /\ Len(t) = Len(q) - 1 /\ Head(q) = q[1]
      /\ \A i \in 1..Len(t) : t[i] = q[i + 1]
  OBVIOUS
<1> HIDE DEF t
<1>2. \A i \in 2..Len(q) : q[i] = t[i - 1] /\ i - 1 \in 1..Len(t)
  BY <1>1
<1>3. LastNames(t, n)
  <2> SUFFICES ASSUME NEW i \in 1..Len(t), IsSubscribe(t[i]), \A j \in (i + 1)..Len(t) : ~IsSubscribe(t[j])
               PROVE  t[i].node = n
    BY Zenon DEF LastNames
  <2>1. i + 1 \in 1..Len(q) /\ q[i + 1] = t[i]
    BY <1>1
  <2>2. \A j \in (i + 2)..Len(q) : ~IsSubscribe(q[j])
    BY <1>1, <1>2
  <2>. QED
    BY <2>1, <2>2, <1>1 DEF LastNames, Asks
<1>4. NoneSubscribes(t) => \A i \in 2..Len(q) : ~IsSubscribe(q[i])
  BY <1>2, Zenon DEF NoneSubscribes
<1>5. NoneSubscribes(t) /\ IsSubscribe(q[1]) => q[1].node = n
  BY <1>1, <1>4 DEF LastNames, Asks
<1>6. NoneSubscribes(t) /\ ~IsSubscribe(q[1]) => NoneSubscribes(q)
  BY <1>1, <1>4 DEF NoneSubscribes
<1>. QED
  BY <1>1, <1>3, <1>5, <1>6, Zenon DEF Asks, t
\* What a page shows of the node it inspects, and where its frames come from.
ShowsInv == SocketsInv /\ AsksInv /\ FramesInv

LEMMA OnlySocketIs ==
    ASSUME NEW p, NEW c, OnlySocket(p, c)
    PROVE  c \in Clients /\ cast[c] = p /\ socket[c] # "unused" /\ \A d \in Clients : cast[d] = p /\ socket[d] # "unused" => d = c
BY Zenon DEF OnlySocket

\* Steps that send no page anything, and take nothing away from a page's socket but what its closing takes.
PagesKept ==
    \A p \in Pages : /\ pages'[p].nodes = pages[p].nodes /\ pages'[p].selectedId = pages[p].selectedId
                     /\ pages'[p].client = pages[p].client /\ pages'[p].root = pages[p].root
                     /\ pages'[p].latest = pages[p].latest
SocketsKept ==
    /\ UNCHANGED cast
    /\ \A c \in Clients : /\ socket'[c] = "unused" <=> socket[c] = "unused"
                          /\ socket'[c] \in {"connecting", "open"} =>
                                socket[c] \in {"connecting", "open"} /\ toPage'[c] = toPage[c]
SubscriptionsKept ==
    \A c \in Clients : cast[c] \in Pages =>
        /\ c \in ws_clients' => c \in ws_clients \/ socket[c] # "unused"
        /\ c \in DOMAIN thumbnail_subscriptions' =>
               /\ c \in DOMAIN thumbnail_subscriptions /\ thumbnail_subscriptions'[c] = thumbnail_subscriptions[c]
               /\ shown'[c] = shown[c] /\ toServer'[c] = toServer[c]
        /\ toServer'[c] \in {toServer[c], <<>>}

LEMMA QuietShows ==
    ASSUME ClientTypeOK, ClientTypeOK', PagesInv, ShowsInv, PagesKept, SocketsKept, SubscriptionsKept
    PROVE  ShowsInv'
<1>1. \A p, c : OnlySocket(p, c)' <=> OnlySocket(p, c)
  BY Zenon DEF OnlySocket, SocketsKept
<1>2. ASSUME NEW p \in Pages, NEW c \in Clients, Linked(p, c)'
      PROVE  Linked(p, c) /\ toPage'[c] = toPage[c] /\ cast[c] \in Pages
  <2>1. OnlySocket(p, c) /\ socket'[c] \in {"connecting", "open"}
    BY <1>1, <1>2, Zenon DEF Linked
  <2>2. cast[c] = p
    BY <2>1, OnlySocketIs, Zenon
  <2>3. socket[c] \in {"connecting", "open"} /\ toPage'[c] = toPage[c]
    BY <2>1, Zenon DEF SocketsKept
  <2>. QED
    BY <2>1, <2>2, <2>3, Zenon DEF Linked
<1>3. SocketsInv'
  <2>1. ASSUME NEW p \in Pages PROVE (\A m, n \in pages'[p].selectedId : m = n) /\ pages'[p].client = pages[p].client
    <3>1. pages'[p].selectedId = pages[p].selectedId /\ pages'[p].client = pages[p].client
      BY Zenon DEF PagesKept
    <3>. QED
      BY <3>1, Zenon DEF SocketsInv, ShowsInv
  <2>2. \A p \in Pages, c \in Clients : OnlySocket(p, c)' => c \in pages'[p].client
    BY <1>1, <2>1, Zenon DEF SocketsInv, ShowsInv
  <2>3. ASSUME NEW c \in Clients, cast'[c] \in Pages, socket'[c] = "unused" PROVE c \notin ws_clients'
    <3>1. cast[c] \in Pages /\ socket[c] = "unused"
      BY <2>3, Zenon DEF SocketsKept
    <3>2. c \notin ws_clients
      BY <3>1, Zenon DEF SocketsInv, ShowsInv
    <3>. QED
      BY <3>1, <3>2, Zenon DEF SubscriptionsKept
  <2>. QED
    BY <2>1, <2>2, <2>3, Zenon DEF SocketsInv
<1>4. DOMAIN shown = DOMAIN thumbnail_subscriptions /\ DOMAIN shown' = DOMAIN thumbnail_subscriptions'
  BY Zenon DEF ClientTypeOK
<1>5. AsksInv'
  <2> SUFFICES ASSUME NEW p \in Pages, NEW c \in Clients, Linked(p, c)', pages'[p].root = "mounted", NEW n \in Inspected(pages'[p])
               PROVE  Asks(toServer'[c], thumbnail_subscriptions', c, n)
    BY Zenon DEF AsksInv
  <2>1. n \in Inspected(pages[p]) /\ pages[p].root = "mounted"
    BY Zenon DEF Inspected, PagesKept
  <2>2. Asks(toServer[c], thumbnail_subscriptions, c, n) /\ cast[c] \in Pages
    BY <1>2, <2>1, Zenon DEF AsksInv, ShowsInv
  <2>3. LastNames(<<>>, n)
    BY DEF LastNames
  <2>. QED
    BY <2>2, <2>3, Zenon DEF Asks, SubscriptionsKept
<1>6. FramesInv'
  <2> SUFFICES ASSUME NEW p \in Pages, NEW c \in Clients, Linked(p, c)', c \in DOMAIN shown', shown'[c] # 0
               PROVE  Newest(toPage'[c], pages'[p].latest, [node |-> thumbnail_subscriptions'[c].node, run |-> shown'[c]])
    BY Zenon DEF FramesInv
  <2>1. Linked(p, c) /\ toPage'[c] = toPage[c] /\ cast[c] \in Pages
    BY <1>2, Zenon
  <2>2. c \in DOMAIN shown /\ shown'[c] = shown[c] /\ thumbnail_subscriptions'[c] = thumbnail_subscriptions[c]
    BY <1>4, <2>1, Zenon DEF SubscriptionsKept
  <2>3. pages'[p].latest = pages[p].latest
    BY Zenon DEF PagesKept
  <2>. QED
    BY <2>1, <2>2, <2>3, Zenon DEF FramesInv, ShowsInv
<1>. QED
  BY <1>3, <1>5, <1>6, Zenon DEF ShowsInv

\* What the inspector shows is one node, and its effect asks for that node.
LEMMA EffectAsks ==
    ASSUME NEW p, NEW page, \A m, n \in page.selectedId : m = n, NEW n \in Inspected(page)
    PROVE  InspectorEffect(p, page) = <<SubscribeMessage(n)>>
<1>1. \A m \in Inspected(page) : m = n
  BY Zenon DEF Inspected
<1>2. (CHOOSE m \in Inspected(page) : TRUE) = n
  BY <1>1, Zenon
<1>. QED
  BY <1>2, Zenon DEF InspectorEffect

\* An act asks the server for the node it leaves inspected, or unmounts the page.
LEMMA ActShows ==
    ASSUME ClientTypeOK, PagesInv, ShowsInv, NEW p \in Pages, NEW page \in PageType, NEW messages \in Seq(MessageType),
           page.client = pages[p].client, page.latest = pages[p].latest, Render(p, page, messages),
           \A m, n \in page.selectedId : m = n, UNCHANGED <<vars, cast, socket, toPage>>
    PROVE  ShowsInv'
<1> DEFINE sent == messages \o InspectorEffect(p, page)
<1> DEFINE drawn == [page EXCEPT !.root = IF Throws(p) /\ sent # <<>> THEN "unmounted" ELSE @]
<1>1. /\ drawn.nodes = page.nodes /\ drawn.client = page.client /\ drawn.selectedId = page.selectedId
      /\ drawn.latest = page.latest /\ (Throws(p) /\ sent # <<>> => drawn.root = "unmounted")
  BY Zenon DEF PageType
<1>2. pages' = [pages EXCEPT ![p] = drawn]
  BY Zenon DEF Render
<1>3. toServer' = [c \in Clients |-> IF Sends(p) /\ c \in page.client THEN toServer[c] \o sent ELSE toServer[c]]
  BY Zenon DEF Render
<1>4. UNCHANGED <<cast, socket, toPage, ws_clients, thumbnail_subscriptions, shown, serial>>
  BY Zenon DEF vars, subscribers, thumbnails
<1>5. pages'[p] = drawn /\ \A q \in Pages : q # p => pages'[q] = pages[q]
  BY <1>2, Zenon DEF ClientTypeOK
<1>6. \A c \in Clients : cast[c] # p => toServer'[c] = toServer[c]
  BY <1>3, Zenon DEF PagesInv
<1>7. \A q, c : (OnlySocket(q, c)' <=> OnlySocket(q, c)) /\ (Linked(q, c)' <=> Linked(q, c))
  BY <1>4, Zenon DEF OnlySocket, Linked
<1>8. \A n : n \in Inspected(drawn) => n \in Inspected(page)
  BY <1>1, Zenon DEF Inspected
<1>9. ASSUME NEW n \in Inspected(page) PROVE sent = messages \o <<SubscribeMessage(n)>> /\ sent # <<>>
  <2>1. InspectorEffect(p, page) = <<SubscribeMessage(n)>>
    BY <1>9, EffectAsks, Zenon
  <2>2. messages \o <<SubscribeMessage(n)>> # <<>>
    OBVIOUS
  <2>. QED
    BY <2>1, <2>2, Zenon
<1> HIDE DEF sent, drawn
<1>10. SocketsInv'
  <2>1. ASSUME NEW q \in Pages PROVE (\A m, n \in pages'[q].selectedId : m = n) /\ pages'[q].client = pages[q].client
    <3>1. CASE q = p
      BY <1>1, <1>5, <3>1, Zenon
    <3>2. CASE q # p
      BY <1>5, <3>2, Zenon DEF SocketsInv, ShowsInv
    <3>. QED
      BY <3>1, <3>2, Zenon
  <2>. QED
    BY <1>4, <1>7, <2>1, Zenon DEF SocketsInv, ShowsInv
<1>11. AsksInv'
  <2> SUFFICES ASSUME NEW q \in Pages, NEW c \in Clients, Linked(q, c), pages'[q].root = "mounted", NEW n \in Inspected(pages'[q])
               PROVE  Asks(toServer'[c], thumbnail_subscriptions, c, n)
    BY <1>4, <1>7, Zenon DEF AsksInv
  <2>1. cast[c] = q
    BY Zenon DEF Linked, OnlySocket
  <2>2. CASE q # p
    BY <1>5, <1>6, <2>1, <2>2, Zenon DEF AsksInv, ShowsInv
  <2>3. CASE q = p
    <3>1. n \in Inspected(page) /\ drawn.root = "mounted"
      BY <1>5, <1>8, <2>3, Zenon
    <3>2. sent = messages \o <<SubscribeMessage(n)>> /\ sent # <<>>
      BY <1>9, <3>1, Zenon
    <3>3. c \in page.client /\ c \in pages[p].client
      BY <2>3, Zenon DEF SocketsInv, ShowsInv, Linked
    <3>4. socket[c] = "open"
      <4>1. ~Throws(p)
        BY <1>1, <3>1, <3>2, Zenon
      <4>. QED
        BY <3>3, <4>1, Zenon DEF Throws, Linked
    <3>5. Sends(p)
      BY <3>3, <3>4, Zenon DEF Sends
    <3>6. toServer'[c] = toServer[c] \o (messages \o <<SubscribeMessage(n)>>)
      BY <1>3, <3>2, <3>3, <3>5, Zenon
    <3>7. n \in Nodes /\ toServer[c] \in Seq(MessageType)
      BY <3>1, Zenon DEF Inspected, PageType, ClientTypeOK
    <3>8. SubscribeMessage(n) \in MessageType /\ IsSubscribe(SubscribeMessage(n)) /\ SubscribeMessage(n).node = n
      BY <3>7, Zenon DEF SubscribeMessage, MessageType, IsSubscribe
    <3>. QED
      BY <3>6, <3>7, <3>8, SubscriptionSent, Zenon
  <2>. QED
    BY <2>2, <2>3, Zenon
<1>12. FramesInv'
  <2>1. ASSUME NEW q \in Pages PROVE pages'[q].latest = pages[q].latest
    BY <1>1, <1>5, Zenon
  <2>. QED
    BY <1>4, <1>7, <2>1, Zenon DEF FramesInv, ShowsInv
<1>. QED
  BY <1>10, <1>11, <1>12, Zenon DEF ShowsInv
LEMMA UserShows ==
    ASSUME ClientTypeOK, PagesInv, ShowsInv, NEW p \in Pages,
           \/ \E d \in Documents : LoadPipeline(p, d)
           \/ \E n \in Nodes : Select(p, n) \/ \E v \in Values : Edit(p, n, v)
    PROVE  ShowsInv'
<1>1. /\ Acting(p) \in PageType /\ Acting(p).nodes = pages[p].nodes /\ Acting(p).client = pages[p].client
      /\ Acting(p).latest = pages[p].latest /\ Acting(p).selectedId = pages[p].selectedId
  <2>1. pages[p] \in PageType /\ Acting(p) \in PageType
    BY ActingPage, Zenon
  <2>. QED
    BY <2>1, ActingPage, Zenon DEF Acting, PageType
<1>2. ASSUME NEW S \in SUBSET DocumentType
      PROVE  LET page == [Acting(p) EXCEPT !.nodes = S]
             IN  page \in PageType /\ page.client = pages[p].client /\ page.latest = pages[p].latest /\ page.selectedId = pages[p].selectedId
  <2>1. [Acting(p) EXCEPT !.nodes = S] \in PageType
    BY <1>1, <1>2, PageKept, Zenon
  <2>. QED
    BY <1>1, <2>1, Zenon DEF PageType
<1>3. \A m, n \in pages[p].selectedId : m = n
  BY Zenon DEF SocketsInv, ShowsInv
<1>4. <<>> \in Seq(MessageType)
  OBVIOUS
<1>5. ASSUME NEW d \in Documents, LoadPipeline(p, d) PROVE ShowsInv'
  <2>1. {d} \in SUBSET DocumentType
    BY DocumentsTyped, Zenon
  <2>2. PICK page : page = [Acting(p) EXCEPT !.nodes = {d}]
    BY Zenon
  <2>3. page \in PageType /\ page.client = pages[p].client /\ page.latest = pages[p].latest /\ page.selectedId = pages[p].selectedId
    BY <1>2, <2>1, <2>2, Zenon
  <2>4. Render(p, page, <<>>) /\ UNCHANGED <<vars, cast, socket, toPage>>
    BY <1>5, <2>2, Zenon DEF LoadPipeline
  <2>5. \A m, n \in page.selectedId : m = n
    BY <1>3, <2>3, Zenon
  <2>. QED
    BY <1>4, <2>3, <2>4, <2>5, ActShows, Zenon
<1>6. ASSUME NEW n \in Nodes, Select(p, n) PROVE ShowsInv'
  <2>1. PICK page : page = [Acting(p) EXCEPT !.selectedId = {n}]
    BY Zenon
  <2>2. page \in PageType
    BY <1>1, <2>1, PageKept, Zenon
  <2>3. page.client = pages[p].client /\ page.latest = pages[p].latest /\ page.selectedId = {n}
    BY <1>1, <2>1, Zenon DEF PageType
  <2>4. Render(p, page, <<>>) /\ UNCHANGED <<vars, cast, socket, toPage>>
    BY <1>6, <2>1, Zenon DEF Select
  <2>. QED
    BY <1>4, <2>2, <2>3, <2>4, ActShows, Zenon
<1>7. ASSUME NEW n \in Nodes, NEW v \in Values, Edit(p, n, v) PROVE ShowsInv'
  <2>1. UpdateNodeParam(Acting(p).nodes, n, v) \in SUBSET DocumentType
    <3>1. Acting(p).nodes \in SUBSET DocumentType
      BY <1>1, Zenon DEF PageType
    <3>2. \A d \in DocumentType : [d EXCEPT ![n] = v] \in DocumentType
      BY EditedTyped, Zenon
    <3>. QED
      BY <3>1, <3>2, Zenon DEF UpdateNodeParam
  <2>2. PICK page : page = [Acting(p) EXCEPT !.nodes = UpdateNodeParam(@, n, v)]
    BY Zenon
  <2>3. page \in PageType /\ page.client = pages[p].client /\ page.latest = pages[p].latest /\ page.selectedId = pages[p].selectedId
    BY <1>2, <2>1, <2>2, Zenon
  <2>4. <<UpdateMessage(n, v)>> \in Seq(MessageType)
    BY DEF UpdateMessage, MessageType
  <2>5. Render(p, page, <<UpdateMessage(n, v)>>) /\ UNCHANGED <<vars, cast, socket, toPage>>
    BY <1>7, <2>2, Zenon DEF Edit
  <2>6. \A m, k \in page.selectedId : m = k
    BY <1>3, <2>3, Zenon
  <2>. QED
    BY <2>3, <2>4, <2>5, <2>6, ActShows, Zenon
<1>. QED
  BY <1>5, <1>6, <1>7, Zenon

\* A page's first socket has no subscription yet, and with a second one nothing is claimed any more.
LEMMA AnswerShows ==
    ASSUME ClientTypeOK, PagesInv, ShowsInv, NEW p \in Pages, NEW c \in Clients, RegistryAnswers(p, c)
    PROVE  ShowsInv'
<1>1. /\ cast[c] = p /\ socket[c] = "unused" /\ socket' = [socket EXCEPT ![c] = "connecting"]
      /\ UNCHANGED <<cast, toServer, toPage, ws_clients, thumbnail_subscriptions, shown>>
  BY Zenon DEF RegistryAnswers, vars, subscribers, thumbnails
<1>2. /\ pages'[p].selectedId = pages[p].selectedId /\ pages'[p].client = {c} /\ \A q \in Pages : q # p => pages'[q] = pages[q]
  <2>0. pages[p] \in PageType /\ pages[p].fetching > 0
    BY Zenon DEF RegistryAnswers, ClientTypeOK
  <2>1. Answered(p) \in PageType /\ Answered(p).selectedId = pages[p].selectedId
    <3>1. Answered(p) \in PageType
      BY <2>0, PageKept, Zenon DEF Answered
    <3>. QED
      BY <2>0, <3>1, Zenon DEF Answered, PageType
  <2>2. pages' = [pages EXCEPT ![p] = [Answered(p) EXCEPT !.client = {c}]]
    BY Zenon DEF RegistryAnswers
  <2>3. [Answered(p) EXCEPT !.client = {c}].selectedId = pages[p].selectedId /\ [Answered(p) EXCEPT !.client = {c}].client = {c}
    BY <2>1, Zenon DEF PageType
  <2>. QED
    BY <2>2, <2>3, Zenon DEF ClientTypeOK
<1>3. socket'[c] = "connecting" /\ \A d \in Clients : d # c => socket'[d] = socket[d]
  BY <1>1, Zenon DEF ClientTypeOK
<1>4. c \notin DOMAIN thumbnail_subscriptions /\ DOMAIN shown = DOMAIN thumbnail_subscriptions /\ toServer[c] = <<>>
  BY <1>1, Zenon DEF SocketsInv, ShowsInv, ClientTypeOK, SubscriptionType, PagesInv
<1>5. ASSUME NEW q \in Pages, NEW d \in Clients, OnlySocket(q, d)' PROVE IF q = p THEN d = c ELSE OnlySocket(q, d)
  <2>1. {e \in Clients : cast[e] = q /\ socket'[e] # "unused"} = {d}
    BY <1>1, <1>5, Zenon DEF OnlySocket
  <2>. QED
    BY <1>1, <1>3, <2>1, Zenon DEF OnlySocket
<1>6. SocketsInv'
  <2>1. \A q \in Pages : \A m, n \in pages'[q].selectedId : m = n
    BY <1>2 DEF SocketsInv, ShowsInv
  <2>2. \A q \in Pages, d \in Clients : OnlySocket(q, d)' => d \in pages'[q].client
    BY <1>2, <1>5 DEF SocketsInv, ShowsInv
  <2>3. \A d \in Clients : cast'[d] \in Pages /\ socket'[d] = "unused" => d \notin ws_clients'
    BY <1>1, <1>3, Zenon DEF SocketsInv, ShowsInv
  <2>. QED
    BY <2>1, <2>2, <2>3, Zenon DEF SocketsInv
<1>7. ASSUME NEW q \in Pages, NEW d \in Clients, Linked(q, d)' PROVE IF q = p THEN d = c ELSE Linked(q, d)
  BY <1>1, <1>3, <1>5, <1>7, Zenon DEF Linked, OnlySocket
<1>8. AsksInv'
  <2> SUFFICES ASSUME NEW q \in Pages, NEW d \in Clients, Linked(q, d)', pages'[q].root = "mounted", NEW n \in Inspected(pages'[q])
               PROVE  Asks(toServer[d], thumbnail_subscriptions, d, n)
    BY <1>1, Zenon DEF AsksInv
  <2>1. CASE q = p
    <3>1. LastNames(<<>>, n)
      BY DEF LastNames
    <3>. QED
      BY <1>4, <1>7, <2>1, <3>1, Zenon DEF Asks
  <2>2. CASE q # p
    BY <1>2, <1>7, <2>2, Zenon DEF AsksInv, ShowsInv
  <2>. QED
    BY <2>1, <2>2, Zenon
<1>9. FramesInv'
  <2> SUFFICES ASSUME NEW q \in Pages, NEW d \in Clients, Linked(q, d)', d \in DOMAIN shown, shown[d] # 0
               PROVE  Newest(toPage[d], pages'[q].latest, [node |-> thumbnail_subscriptions[d].node, run |-> shown[d]])
    BY <1>1, Zenon DEF FramesInv
  <2>1. q # p
    BY <1>4, <1>7, Zenon
  <2>. QED
    BY <1>2, <1>7, <2>1, Zenon DEF FramesInv, ShowsInv
<1>. QED
  BY <1>6, <1>8, <1>9, Zenon DEF ShowsInv
\* A subscription that arrives starts over unless it names the same node; an update leaves subscriptions alone.
LEMMA HandleShows ==
    ASSUME ClientTypeOK, ClientTypeOK', PagesInv, ShowsInv, NEW c \in Clients, HandleMessage(c)
    PROVE  ShowsInv'
<1>1. PICK m \in MessageType : m = Head(toServer[c])
  BY HeadTyped, Zenon DEF HandleMessage
<1>2. /\ toServer[c] # <<>> /\ toServer'[c] = Tail(toServer[c]) /\ \A d \in Clients : d # c => toServer'[d] = toServer[d]
      /\ UNCHANGED <<cast, pages, socket, toPage>> /\ (HandleUpdate(c, m) \/ HandleSubscribe(c, m))
  BY <1>1, Zenon DEF HandleMessage, ClientTypeOK
<1>3. toServer[c] \in Seq(MessageType) /\ DOMAIN shown = DOMAIN thumbnail_subscriptions /\ DOMAIN shown' = DOMAIN thumbnail_subscriptions'
  BY Zenon DEF ClientTypeOK
<1>4. HandleUpdate(c, m) => ~IsSubscribe(m) /\ UNCHANGED <<thumbnail_subscriptions, shown, ws_clients>>
  BY Zenon DEF HandleUpdate, IsSubscribe, UpdateParam, vars, subscribers, thumbnails
<1>5. HandleSubscribe(c, m) =>
         /\ IsSubscribe(m) /\ ws_clients' = ws_clients
         /\ thumbnail_subscriptions' = With(thumbnail_subscriptions, c, [node |-> m.node, interval |-> PageInterval])
         /\ shown' = IF Subscribed(c, m.node) THEN shown ELSE With(shown, c, 0)
  BY Zenon DEF HandleSubscribe, IsSubscribe, Subscribe
<1>6. /\ ws_clients' = ws_clients
      /\ \A d : d # c /\ d \in DOMAIN thumbnail_subscriptions' =>
            /\ d \in DOMAIN thumbnail_subscriptions /\ thumbnail_subscriptions'[d] = thumbnail_subscriptions[d]
            /\ shown'[d] = shown[d]
      /\ IF IsSubscribe(m) THEN thumbnail_subscriptions'[c].node = m.node ELSE UNCHANGED <<thumbnail_subscriptions, shown>>
      /\ c \in DOMAIN shown' /\ shown'[c] # 0 =>
            c \in DOMAIN shown /\ shown'[c] = shown[c] /\ thumbnail_subscriptions'[c].node = thumbnail_subscriptions[c].node
  <2>1. CASE HandleUpdate(c, m)
    BY <1>3, <1>4, <2>1, Zenon
  <2>2. CASE HandleSubscribe(c, m) /\ Subscribed(c, m.node)
    <3>1. /\ thumbnail_subscriptions' = With(thumbnail_subscriptions, c, [node |-> m.node, interval |-> PageInterval])
          /\ shown' = shown /\ IsSubscribe(m) /\ ws_clients' = ws_clients
      BY <1>5, <2>2, Zenon
    <3>. QED
      BY <1>3, <2>2, <3>1, Zenon DEF With, Subscribed
  <2>3. CASE HandleSubscribe(c, m) /\ ~Subscribed(c, m.node)
    <3>1. /\ thumbnail_subscriptions' = With(thumbnail_subscriptions, c, [node |-> m.node, interval |-> PageInterval])
          /\ shown' = With(shown, c, 0) /\ IsSubscribe(m) /\ ws_clients' = ws_clients
      BY <1>5, <2>3, Zenon
    <3>. QED
      BY <1>3, <3>1, Zenon DEF With
  <2>. QED
    BY <1>2, <2>1, <2>2, <2>3, Zenon
<1>7. \A q, d : (OnlySocket(q, d)' <=> OnlySocket(q, d)) /\ (Linked(q, d)' <=> Linked(q, d))
  BY <1>2, Zenon DEF OnlySocket, Linked
<1>8. SocketsInv'
  BY <1>2, <1>6, <1>7, Zenon DEF SocketsInv, ShowsInv
<1>9. AsksInv'
  <2> SUFFICES ASSUME NEW p \in Pages, NEW d \in Clients, Linked(p, d), pages[p].root = "mounted", NEW n \in Inspected(pages[p])
               PROVE  Asks(toServer'[d], thumbnail_subscriptions', d, n)
    BY <1>2, <1>7, Zenon DEF AsksInv
  <2>1. Asks(toServer[d], thumbnail_subscriptions, d, n)
    BY Zenon DEF AsksInv, ShowsInv
  <2>2. CASE d = c
    <3>1. IF IsSubscribe(Head(toServer[c])) THEN thumbnail_subscriptions'[c].node = Head(toServer[c]).node
          ELSE c \in DOMAIN thumbnail_subscriptions' =>
                    c \in DOMAIN thumbnail_subscriptions /\ thumbnail_subscriptions'[c] = thumbnail_subscriptions[c]
      BY <1>1, <1>6, Zenon
    <3>2. Asks(Tail(toServer[c]), thumbnail_subscriptions', c, n)
      BY <1>2, <1>3, <2>1, <2>2, <3>1, FirstHandled, Zenon
    <3>. QED
      BY <1>2, <2>2, <3>2, Zenon
  <2>3. CASE d # c
    BY <1>2, <1>6, <2>1, <2>3, Zenon DEF Asks
  <2>. QED
    BY <2>2, <2>3, Zenon
<1>10. FramesInv'
  <2> SUFFICES ASSUME NEW p \in Pages, NEW d \in Clients, Linked(p, d), d \in DOMAIN shown', shown'[d] # 0
               PROVE  Newest(toPage[d], pages[p].latest, [node |-> thumbnail_subscriptions'[d].node, run |-> shown'[d]])
    BY <1>2, <1>7, Zenon DEF FramesInv
  <2>1. d \in DOMAIN shown /\ shown'[d] = shown[d] /\ thumbnail_subscriptions'[d].node = thumbnail_subscriptions[d].node
    BY <1>3, <1>6, Zenon
  <2>. QED
    BY <2>1, Zenon DEF FramesInv, ShowsInv
<1>. QED
  BY <1>8, <1>9, <1>10, Zenon DEF ShowsInv

LEMMA NewestSent == ASSUME NEW S, NEW q \in Seq(S), NEW latest, NEW x PROVE Newest(Append(q, x), latest, x)
<1>1. Append(q, x) # <<>> /\ Append(q, x)[Len(Append(q, x))] = x
  OBVIOUS
<1>. QED
  BY <1>1, Zenon DEF Newest

LEMMA NewestShown ==
    ASSUME NEW S, NEW q \in Seq(S), q # <<>>, NEW latest, NEW x, Newest(q, latest, x)
    PROVE  Newest(Tail(q), {Head(q)}, x)
<1>1. q[Len(q)] = x
  BY Zenon DEF Newest
<1>2. /\ Tail(q) \in Seq(S) /\ Len(q) \in Nat /\ Len(q) >= 1 /\ Len(Tail(q)) = Len(q) - 1 /\ Head(q) = q[1]
      /\ \A i \in 1..(Len(q) - 1) : Tail(q)[i] = q[i + 1]
  OBVIOUS
<1>3. CASE Tail(q) = <<>>
  <2>1. Len(<<>>) = 0 /\ \A n \in Nat : n - 1 = 0 => n = 1
    OBVIOUS
  <2>2. Len(q) = 1
    BY <1>2, <1>3, <2>1, Zenon
  <2>. QED
    BY <1>1, <1>2, <1>3, <2>2, Zenon DEF Newest
<1>4. CASE Tail(q) # <<>>
  <2>1. Len(Tail(q)) # 0
    BY <1>2, <1>4
  <2>2. Tail(q)[Len(Tail(q))] = q[Len(q)]
    BY <1>2, <2>1
  <2>. QED
    BY <1>1, <1>4, <2>2, Zenon DEF Newest
<1>. QED
  BY <1>3, <1>4, Zenon

\* A subscriber that a run's frame is shown to is sent it, on top of what it was sent before.
LEMMA RunShows ==
    ASSUME ClientTypeOK, ShownBound, PagesInv, ShowsInv, RunForPages
    PROVE  ShowsInv'
<1>1. CompleteRun /\ UNCHANGED <<cast, pages, socket, toServer>>
  BY Zenon DEF RunForPages, PostRun, EmitCompletedRun
<1>2. serial' = serial + 1 /\ \E R : shown' = [c \in DOMAIN shown |-> IF c \in R THEN serial' ELSE shown[c]]
  BY <1>1, Zenon DEF CompleteRun, PushThumbnails
<1>3. PICK R : shown' = [c \in DOMAIN shown |-> IF c \in R THEN serial' ELSE shown[c]]
  BY <1>2, Zenon
<1>4. UNCHANGED <<ws_clients, thumbnail_subscriptions>>
  BY <1>1, Zenon DEF CompleteRun, subscribers
<1>5. DOMAIN shown' = DOMAIN shown /\ \A c \in DOMAIN shown : shown'[c] = serial' \/ (shown'[c] = shown[c] /\ shown[c] # serial')
  <2>1. \A a, b \in Nat : b <= a => b # a + 1
    OBVIOUS
  <2>2. \A c \in DOMAIN shown : shown[c] # serial'
    BY <1>2, <2>1, Zenon DEF ShownBound, ClientTypeOK
  <2>. QED
    BY <1>3, <2>2, Zenon
<1>6. \A c \in Clients : c \in DOMAIN shown /\ socket[c] \in {"connecting", "open"} =>
         \/ shown'[c] = serial' /\ toPage'[c] = Append(toPage[c], Frame(c))
         \/ shown'[c] = shown[c] /\ toPage'[c] = toPage[c]
  BY <1>5, Zenon DEF RunForPages
<1>7. \A q, d : (OnlySocket(q, d)' <=> OnlySocket(q, d)) /\ (Linked(q, d)' <=> Linked(q, d))
  BY <1>1, Zenon DEF OnlySocket, Linked
<1>8. SocketsInv' /\ AsksInv'
  BY <1>1, <1>4, <1>7, Zenon DEF SocketsInv, AsksInv, ShowsInv
<1>9. FramesInv'
  <2> SUFFICES ASSUME NEW p \in Pages, NEW c \in Clients, Linked(p, c), c \in DOMAIN shown, shown'[c] # 0
               PROVE  Newest(toPage'[c], pages[p].latest, [node |-> thumbnail_subscriptions[c].node, run |-> shown'[c]])
    BY <1>1, <1>4, <1>5, <1>7, Zenon DEF FramesInv
  <2>1. socket[c] \in {"connecting", "open"}
    BY Zenon DEF Linked
  <2>2. CASE shown'[c] = shown[c] /\ toPage'[c] = toPage[c]
    BY <2>2, Zenon DEF FramesInv, ShowsInv
  <2>3. CASE shown'[c] = serial' /\ toPage'[c] = Append(toPage[c], Frame(c))
    <3>1. toPage[c] \in Seq(FrameType) /\ Frame(c) = [node |-> thumbnail_subscriptions[c].node, run |-> shown'[c]]
      BY <2>3, Zenon DEF ClientTypeOK, Frame
    <3>2. Newest(Append(toPage[c], Frame(c)), pages[p].latest, Frame(c))
      BY <3>1, NewestSent, Zenon
    <3>. QED
      BY <2>3, <3>1, <3>2, Zenon
  <2>. QED
    BY <1>6, <2>1, <2>2, <2>3, Zenon
<1>. QED
  BY <1>8, <1>9, Zenon DEF ShowsInv

\* A frame that arrives is the latest, and the last one to arrive is the newest.
LEMMA MessageShows ==
    ASSUME ClientTypeOK, PagesInv, ShowsInv, NEW c \in Clients, OnMessage(c)
    PROVE  ShowsInv'
<1>1. /\ socket[c] = "open" /\ toPage[c] # <<>> /\ pages' = [pages EXCEPT ![cast[c]].latest = {Head(toPage[c])}]
      /\ UNCHANGED <<cast, socket, toServer, ws_clients, thumbnail_subscriptions, shown>>
  BY Zenon DEF OnMessage, vars, subscribers, thumbnails
<1>2. toPage'[c] = Tail(toPage[c]) /\ \A d \in Clients : d # c => toPage'[d] = toPage[d]
  BY Zenon DEF OnMessage, ClientTypeOK
<1>3. \A q \in Pages : /\ pages'[q].nodes = pages[q].nodes /\ pages'[q].selectedId = pages[q].selectedId
                       /\ pages'[q].client = pages[q].client /\ pages'[q].root = pages[q].root
                       /\ pages'[q].latest = IF q = cast[c] THEN {Head(toPage[c])} ELSE pages[q].latest
  BY <1>1, SMTT(30) DEF ClientTypeOK, PageType
<1>4. \A q, d : (OnlySocket(q, d)' <=> OnlySocket(q, d)) /\ (Linked(q, d)' <=> Linked(q, d))
  BY <1>1, Zenon DEF OnlySocket, Linked
<1>5. SocketsInv'
  <2>1. ASSUME NEW q \in Pages PROVE \A m, n \in pages'[q].selectedId : m = n
    <3>1. pages'[q].selectedId = pages[q].selectedId
      BY <1>3, Zenon
    <3>. QED
      BY <3>1, Zenon DEF SocketsInv, ShowsInv
  <2>2. \A q \in Pages, d \in Clients : OnlySocket(q, d)' => d \in pages'[q].client
    BY <1>3, <1>4, Zenon DEF SocketsInv, ShowsInv
  <2>3. \A d \in Clients : cast'[d] \in Pages /\ socket'[d] = "unused" => d \notin ws_clients'
    BY <1>1, Zenon DEF SocketsInv, ShowsInv
  <2>. QED
    BY <2>1, <2>2, <2>3, Zenon DEF SocketsInv
<1>6. AsksInv'
  <2> SUFFICES ASSUME NEW q \in Pages, NEW d \in Clients, Linked(q, d), pages'[q].root = "mounted", NEW n \in Inspected(pages'[q])
               PROVE  Asks(toServer'[d], thumbnail_subscriptions', d, n)
    BY <1>4, Zenon DEF AsksInv
  <2>1. n \in Inspected(pages[q]) /\ pages[q].root = "mounted"
    BY <1>3, Zenon DEF Inspected
  <2>2. Asks(toServer[d], thumbnail_subscriptions, d, n)
    BY <2>1, Zenon DEF AsksInv, ShowsInv
  <2>. QED
    BY <1>1, <2>2, Zenon
<1>7. FramesInv'
  <2> SUFFICES ASSUME NEW p \in Pages, NEW d \in Clients, Linked(p, d), d \in DOMAIN shown, shown[d] # 0
               PROVE  Newest(toPage'[d], pages'[p].latest, [node |-> thumbnail_subscriptions[d].node, run |-> shown[d]])
    BY <1>1, <1>4, Zenon DEF FramesInv
  <2>1. cast[d] = p /\ (cast[c] = p => c = d)
    BY <1>1, Zenon DEF Linked, OnlySocket
  <2>2. Newest(toPage[d], pages[p].latest, [node |-> thumbnail_subscriptions[d].node, run |-> shown[d]])
    BY Zenon DEF FramesInv, ShowsInv
  <2>3. CASE d # c
    BY <1>2, <1>3, <2>1, <2>2, <2>3, Zenon
  <2>4. CASE d = c
    <3>1. toPage[c] \in Seq(FrameType)
      BY Zenon DEF ClientTypeOK
    <3>2. Newest(Tail(toPage[c]), {Head(toPage[c])}, [node |-> thumbnail_subscriptions[c].node, run |-> shown[c]])
      BY <1>1, <2>2, <2>4, <3>1, NewestShown, Zenon
    <3>. QED
      BY <1>2, <1>3, <2>1, <2>4, <3>2, Zenon
  <2>. QED
    BY <2>3, <2>4, Zenon
<1>. QED
  BY <1>5, <1>6, <1>7, Zenon DEF ShowsInv

LEMMA ShowsStep ==
    ASSUME PagesAgreeInv, PagesAgreeInv', ShownBound, ShowsInv, [ClientNext]_clientVars
    PROVE  ShowsInv'
<1>1. ClientTypeOK /\ ClientTypeOK' /\ PagesInv
  BY Zenon DEF PagesAgreeInv
<1>2. ASSUME NEW p \in Pages,
             \/ \E d \in Documents : LoadPipeline(p, d)
             \/ \E n \in Nodes : Select(p, n) \/ \E v \in Values : Edit(p, n, v)
             \/ \E c \in Clients : RegistryAnswers(p, c)
      PROVE  ShowsInv'
  BY <1>1, <1>2, UserShows, AnswerShows, Zenon
<1>3. ASSUME NEW p \in Pages, RegistryFails(p) PROVE ShowsInv'
  <2>0. pages[p] \in PageType
    BY <1>1, Zenon DEF ClientTypeOK
  <2>1. /\ Answered(p).nodes = pages[p].nodes /\ Answered(p).client = pages[p].client
        /\ Answered(p).selectedId = pages[p].selectedId /\ Answered(p).root = pages[p].root /\ Answered(p).latest = pages[p].latest
    BY <2>0 DEF PageType, Answered
  <2>2. \A q \in Pages : pages'[q] = IF q = p THEN Answered(p) ELSE pages[q]
    BY <1>1, <1>3, Zenon DEF RegistryFails, ClientTypeOK
  <2>3. UNCHANGED <<cast, socket, toServer, toPage, ws_clients, thumbnail_subscriptions, shown>>
    BY <1>3, Zenon DEF RegistryFails, wires, vars, subscribers, thumbnails
  <2>4. \A q \in Pages : /\ pages'[q].nodes = pages[q].nodes /\ pages'[q].selectedId = pages[q].selectedId
                         /\ pages'[q].client = pages[q].client /\ pages'[q].root = pages[q].root
                         /\ pages'[q].latest = pages[q].latest
    BY <2>1, <2>2, Zenon
  <2>. QED
    BY <1>1, <2>3, <2>4, QuietShows, Zenon DEF PagesKept, SocketsKept, SubscriptionsKept
<1>4. ASSUME NEW c \in Clients, ServerOpens(c) PROVE ShowsInv'
  <2>1. /\ UNCHANGED <<cast, pages, socket, toServer, toPage, thumbnail_subscriptions, shown>>
        /\ socket[c] # "unused" /\ ws_clients' = ws_clients \cup {c}
    BY <1>4, Zenon DEF ServerOpens, Open, wires, thumbnails
  <2>. QED
    BY <1>1, <2>1, QuietShows, Zenon DEF PagesKept, SocketsKept, SubscriptionsKept
<1>5. ASSUME NEW c \in Clients, SocketOpens(c) \/ SocketCloses(c) PROVE ShowsInv'
  <2>1. UNCHANGED <<cast, pages, toServer, ws_clients, thumbnail_subscriptions, shown>>
    BY <1>5, Zenon DEF SocketOpens, SocketCloses, vars, subscribers, thumbnails
  <2>2. \A d \in Clients : /\ socket'[d] = "unused" <=> socket[d] = "unused"
                           /\ socket'[d] \in {"connecting", "open"} =>
                                 socket[d] \in {"connecting", "open"} /\ toPage'[d] = toPage[d]
    BY <1>1, <1>5, Zenon DEF SocketOpens, SocketCloses, ClientTypeOK
  <2>. QED
    BY <1>1, <2>1, <2>2, QuietShows, Zenon DEF PagesKept, SocketsKept, SubscriptionsKept
<1>6. ASSUME NEW c \in Clients, ServerCloses(c) PROVE ShowsInv'
  <2>1. /\ UNCHANGED <<cast, pages, socket, toPage>> /\ ws_clients' \subseteq ws_clients
        /\ thumbnail_subscriptions' = Without(thumbnail_subscriptions, c) /\ shown' = Without(shown, c)
    BY <1>6, Zenon DEF ServerCloses, Close, SubscriptionsWithout
  <2>2. toServer'[c] = <<>> /\ \A d \in Clients : d # c => toServer'[d] = toServer[d]
    BY <1>1, <1>6, Zenon DEF ServerCloses, ClientTypeOK
  <2>3. DOMAIN shown = DOMAIN thumbnail_subscriptions
    BY <1>1, Zenon DEF ClientTypeOK
  <2>4. \A d \in DOMAIN thumbnail_subscriptions' :
           /\ d # c /\ d \in DOMAIN thumbnail_subscriptions /\ thumbnail_subscriptions'[d] = thumbnail_subscriptions[d]
           /\ shown'[d] = shown[d]
    BY <2>1, <2>3, Zenon DEF Without, Restrict
  <2>. QED
    BY <1>1, <2>1, <2>2, <2>4, QuietShows, Zenon DEF PagesKept, SocketsKept, SubscriptionsKept
<1>7. ASSUME NEW c \in Clients, HandleMessage(c) \/ OnMessage(c) PROVE ShowsInv'
  BY <1>1, <1>7, HandleShows, MessageShows, Zenon
<1>8. CASE RunForPages
  BY <1>1, <1>8, RunShows, Zenon
<1>9. CASE OtherRequests
  <2>1. UNCHANGED <<cast, pages, socket, toServer, toPage>>
    BY <1>9, Zenon DEF OtherRequests, wires
  <2>2. DOMAIN shown = DOMAIN thumbnail_subscriptions
    BY <1>1, Zenon DEF ClientTypeOK
  <2>3. \/ UNCHANGED <<ws_clients, thumbnail_subscriptions, shown>>
        \/ \E d \in Clients : cast[d] = Other /\ (Open(d) \/ Close(d) \/ Unsubscribe(d) \/ \E n \in Nodes, i \in Intervals : Subscribe(d, n, i))
    BY <1>9, Zenon DEF OtherRequests, Put, PostParam, UpdateParam, Tick, subscribers, thumbnails
  <2>4. ASSUME NEW d \in Clients, Open(d) \/ Close(d) \/ Unsubscribe(d) \/ \E n \in Nodes, i \in Intervals : Subscribe(d, n, i),
               NEW c, c # d
        PROVE  /\ c \in ws_clients' => c \in ws_clients
               /\ c \in DOMAIN thumbnail_subscriptions' =>
                     /\ c \in DOMAIN thumbnail_subscriptions /\ thumbnail_subscriptions'[c] = thumbnail_subscriptions[c]
                     /\ shown'[c] = shown[c]
    <3>1. CASE Open(d)
      BY <2>4, <3>1, Zenon DEF Open, thumbnails
    <3>2. CASE Close(d) \/ Unsubscribe(d)
      <4>1. /\ thumbnail_subscriptions' = Without(thumbnail_subscriptions, d) /\ shown' = Without(shown, d)
            /\ ws_clients' \subseteq ws_clients
        BY <3>2, Zenon DEF Close, Unsubscribe, SubscriptionsWithout
      <4>. QED
        BY <2>2, <2>4, <4>1, Zenon DEF Without, Restrict
    <3>3. ASSUME NEW n \in Nodes, NEW i \in Intervals, Subscribe(d, n, i)
          PROVE  /\ c \in ws_clients' => c \in ws_clients
                 /\ c \in DOMAIN thumbnail_subscriptions' =>
                       /\ c \in DOMAIN thumbnail_subscriptions /\ thumbnail_subscriptions'[c] = thumbnail_subscriptions[c]
                       /\ shown'[c] = shown[c]
      <4>1. /\ thumbnail_subscriptions' = With(thumbnail_subscriptions, d, [node |-> n, interval |-> i])
            /\ shown' = shown \/ shown' = With(shown, d, 0)
            /\ ws_clients' = ws_clients
        BY <3>3, Zenon DEF Subscribe
      <4>. QED
        BY <2>2, <2>4, <4>1, Zenon DEF With
    <3>. QED
      BY <2>4, <3>1, <3>2, <3>3, Zenon
  <2>5. \A c \in Clients : cast[c] \in Pages =>
           /\ c \in ws_clients' => c \in ws_clients
           /\ c \in DOMAIN thumbnail_subscriptions' =>
                 /\ c \in DOMAIN thumbnail_subscriptions /\ thumbnail_subscriptions'[c] = thumbnail_subscriptions[c]
                 /\ shown'[c] = shown[c]
    BY <2>3, <2>4, CastAssumption, Zenon
  <2>. QED
    BY <1>1, <2>1, <2>5, QuietShows, Zenon DEF PagesKept, SocketsKept, SubscriptionsKept
<1>10. CASE UNCHANGED clientVars
  <2>1. UNCHANGED <<cast, pages, socket, toServer, toPage, ws_clients, thumbnail_subscriptions, shown>>
    BY <1>10, Zenon DEF clientVars, wires, vars, subscribers, thumbnails
  <2>. QED
    BY <1>1, <2>1, QuietShows, Zenon DEF PagesKept, SocketsKept, SubscriptionsKept
<1>. QED
  BY <1>2, <1>3, <1>4, <1>5, <1>6, <1>7, <1>8, <1>9, <1>10, Zenon DEF ClientNext

\* Once the queues of a page's one connection are empty, its inspector shows the newest frame that the
\* server sent for the node inspected, though frames name no node and every change subscribes again
\* (NodeInspector's effect, onmessage, handle_subscribe, push_thumbnail_frames).
THEOREM InspectorLatest == ClientSpec => []InspectorShowsLatest
<1> DEFINE Inv == PagesAgreeInv /\ ShownBound /\ ShowsInv
<1>1. ClientInit => Inv
  <2> SUFFICES ASSUME ClientInit PROVE Inv
    BY Zenon
  <2>1. \A p \in Pages : pages[p].selectedId = {}
    BY Zenon DEF ClientInit, NewPage
  <2>2. ws_clients = {} /\ DOMAIN shown = {} /\ \A c \in Clients : socket[c] = "unused"
    BY Zenon DEF ClientInit, Init, Empty
  <2>3. \A p \in Pages, c \in Clients : ~OnlySocket(p, c)
    BY <2>2, Zenon DEF OnlySocket
  <2>4. ShownBound
    BY <2>2, Zenon DEF ShownBound
  <2>5. ShowsInv
    BY <2>1, <2>2, <2>3, Zenon DEF ShowsInv, SocketsInv, AsksInv, FramesInv, Linked
  <2>. QED
    BY <2>4, <2>5, PagesInit, Zenon
<1>2. Inv /\ [ClientNext]_clientVars => Inv'
  <2> SUFFICES ASSUME PagesAgreeInv, ShownBound, ShowsInv, [ClientNext]_clientVars PROVE Inv'
    BY Zenon
  <2>1. PagesAgreeInv'
    BY PagesStep, Zenon
  <2>2. ClientTypeOK
    BY Zenon DEF PagesAgreeInv
  <2>3. ShownBound'
    BY <2>2, StepOfSession, ShownKept, Zenon
  <2>4. ShowsInv'
    BY <2>1, ShowsStep, Zenon
  <2>. QED
    BY <2>1, <2>3, <2>4, Zenon
<1>3. Inv => InspectorShowsLatest
  <2> SUFFICES ASSUME Inv, NEW p \in Pages, NEW c \in Clients, OnlySocket(p, c), socket[c] = "open", pages[p].root = "mounted",
                      toServer[c] = <<>>, toPage[c] = <<>>, c \in DOMAIN shown, shown[c] # 0, NEW n \in Inspected(pages[p])
               PROVE  pages[p].latest = {[node |-> n, run |-> shown[c]]}
    BY Zenon DEF InspectorShowsLatest
  <2>1. Linked(p, c) /\ c \in DOMAIN thumbnail_subscriptions
    BY Zenon DEF Linked, PagesAgreeInv, ClientTypeOK
  <2>2. NoneSubscribes(<<>>)
    BY DEF NoneSubscribes
  <2>3. thumbnail_subscriptions[c].node = n
    BY <2>1, <2>2, Zenon DEF ShowsInv, AsksInv, Asks
  <2>4. Newest(<<>>, pages[p].latest, [node |-> thumbnail_subscriptions[c].node, run |-> shown[c]])
    BY <2>1, Zenon DEF ShowsInv, FramesInv
  <2>. QED
    BY <2>3, <2>4, Zenon DEF Newest
<1>. QED
  BY <1>1, <1>2, <1>3, PTL DEF ClientSpec
=============================================================================
