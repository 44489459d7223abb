---------------------------- MODULE EditorClient ----------------------------
(***************************************************************************)
(* The pages of the web editor over their WebSockets, composed with the    *)
(* session of the server.  A page edits its own copy of the pipeline and   *)
(* tells the server afterwards; it never reads the server's copy, as the   *)
(* server sends no pipeline.applied.  Acks,                                *)
(* profiles, logs, the status and the banner only change what the panes    *)
(* say, and are left out.                                                  *)
(***************************************************************************)
EXTENDS EditorSession, Sequences

CONSTANTS
    Pages,
    Other, Nobody,  \* whoever else talks to the server; no one
    Casts,          \* who is at the far end of each connection
    OtherValues,    \* those of Values that the others set
    PageInterval,   \* interval of the 5 fps a page asks for
    MaxActs         \* bound on what the user of a page does

ASSUME CastAssumption ==
    /\ IsFiniteSet(Clients)
    /\ Casts \subseteq [Clients -> Pages \cup {Other, Nobody}] /\ {Other, Nobody} \cap Pages = {}
    /\ PageInterval \in Intervals /\ OtherValues \subseteq Values
    /\ \A d \in Documents : d \in [DOMAIN d -> Values]

VARIABLES
    cast,
    pages,          \* the stores: [nodes, selectedId, client, latest, fetching, root, acts]
    socket,         \* readyState: unused, connecting, open or closed
    toServer,       \* messages on their way
    toPage,         \* thumbnails on their way
    edited,         \* of each page: nodes that show a value it sent
    author          \* who set the value a node has on the server

wires == <<socket, toServer, toPage>>
clientVars == <<vars, cast, pages, wires, edited, author>>

\* App has called connectRuntime: once, or twice where StrictMode mounts it twice; or nobody
\* has opened the page.
NewPage(calls) ==
    [nodes |-> {}, selectedId |-> {}, client |-> {}, latest |-> {}, fetching |-> calls,
     root |-> IF calls = 0 THEN "absent" ELSE "mounted", acts |-> 0]

ClientInit ==
    /\ Init
    /\ cast \in Casts
    /\ pages = [p \in Pages |-> NewPage(Cardinality({c \in Clients : cast[c] = p}))]
    /\ socket = [c \in Clients |-> "unused"]
    /\ toServer = [c \in Clients |-> <<>>] /\ toPage = [c \in Clients |-> <<>>]
    /\ edited = [p \in Pages |-> {}]
    /\ author = [n \in Nodes |-> Other]

---------------------------------------------------------------------------
(* What a page sends. *)

UpdateMessage(n, v) == [type |-> "node.update_param", node |-> n, value |-> v]
SubscribeMessage(n) == [type |-> "node.subscribe_thumbnail", node |-> n]

\* sendControl, where a WebSocket that is closed drops the message and one that is still
\* connecting throws.
Sends(p) == \E c \in pages[p].client : socket[c] = "open"
Throws(p) == \E c \in pages[p].client : socket[c] = "connecting"

\* The node that NodeInspector shows.
Inspected(page) == {n \in page.selectedId : \E d \in page.nodes : n \in DOMAIN d}

\* Mutant: the effect runs for the first node only.
InspectorEffectOnce(p, page) ==
    IF Inspected(page) = {} \/ pages[p].selectedId # {} THEN <<>>
    ELSE <<SubscribeMessage(CHOOSE n \in Inspected(page) : TRUE)>>
\* The effect of NodeInspector, which every change of the node runs again.
InspectorEffect(p, page) ==
    IF Inspected(page) = {} THEN <<>> ELSE <<SubscribeMessage(CHOOSE n \in Inspected(page) : TRUE)>>

\* A user acts: the stores change, the messages of the handler are sent, then the page is drawn
\* and its effect runs.  An exception in an effect makes React unmount the page.
Render(p, page, messages) ==
    LET sent == messages \o InspectorEffect(p, page)
    IN  /\ pages' = [pages EXCEPT ![p] = [page EXCEPT !.root = IF Throws(p) /\ sent # <<>> THEN "unmounted" ELSE @]]
        /\ toServer' = [c \in Clients |-> IF Sends(p) /\ c \in page.client THEN toServer[c] \o sent ELSE toServer[c]]

Acts(p) == pages[p].root = "mounted" /\ pages[p].acts < MaxActs
Acting(p) == [pages[p] EXCEPT !.acts = @ + 1]

\* loadPipeline: the example fetched at the start, a file, or a recent graph.
LoadPipeline(p, d) ==
    /\ Acts(p)
    /\ Render(p, [Acting(p) EXCEPT !.nodes = {d}], <<>>)
    /\ edited' = [edited EXCEPT ![p] = {}]
    /\ UNCHANGED <<vars, cast, socket, toPage, author>>

Select(p, n) ==
    /\ Acts(p) /\ {n} # pages[p].selectedId /\ \E d \in pages[p].nodes : n \in DOMAIN d
    /\ Render(p, [Acting(p) EXCEPT !.selectedId = {n}], <<>>)
    /\ UNCHANGED <<vars, cast, socket, toPage, edited, author>>

UpdateNodeParam(documents, n, v) == {[d EXCEPT ![n] = v] : d \in documents}

\* Mutant: the message holds the value from before the edit.
EditStale(p, n, v) ==
    /\ Acts(p) /\ n \in Inspected(pages[p])
    /\ \E d \in pages[p].nodes :
          Render(p, [Acting(p) EXCEPT !.nodes = {[d EXCEPT ![n] = v]}], <<UpdateMessage(n, d[n])>>)
    /\ edited' = [edited EXCEPT ![p] = IF Sends(p) THEN @ \cup {n} ELSE @ \ {n}]
    /\ UNCHANGED <<vars, cast, socket, toPage, author>>
\* sendParamUpdate: the page's own copy first, then the server.
Edit(p, n, v) ==
    /\ Acts(p) /\ n \in Inspected(pages[p])
    /\ Render(p, [Acting(p) EXCEPT !.nodes = UpdateNodeParam(@, n, v)], <<UpdateMessage(n, v)>>)
    /\ edited' = [edited EXCEPT ![p] = IF Sends(p) THEN @ \cup {n} ELSE @ \ {n}]
    /\ UNCHANGED <<vars, cast, socket, toPage, author>>

---------------------------------------------------------------------------
(* Connections of a page. *)

Answered(p) == [pages[p] EXCEPT !.fetching = @ - 1]

\* connectRuntime after its await: a new socket replaces the client, and an older one stays open.
RegistryAnswers(p, c) ==
    /\ pages[p].fetching > 0 /\ cast[c] = p /\ socket[c] = "unused"
    /\ pages' = [pages EXCEPT ![p] = [Answered(p) EXCEPT !.client = {c}]]
    /\ socket' = [socket EXCEPT ![c] = "connecting"]
    /\ UNCHANGED <<vars, cast, toServer, toPage, edited, author>>

RegistryFails(p) ==
    /\ pages[p].fetching > 0
    /\ pages' = [pages EXCEPT ![p] = Answered(p)]
    /\ UNCHANGED <<vars, cast, wires, edited, author>>

ServerOpens(c) ==
    /\ socket[c] = "connecting" /\ Open(c)
    /\ UNCHANGED <<cast, pages, wires, edited, author>>

SocketOpens(c) ==
    /\ socket[c] = "connecting" /\ c \in ws_clients
    /\ socket' = [socket EXCEPT ![c] = "open"]
    /\ UNCHANGED <<vars, cast, pages, toServer, toPage, edited, author>>

\* The page's end closes; nothing in the page reacts to it.
SocketCloses(c) ==
    /\ socket[c] \in {"connecting", "open"}
    /\ socket' = [socket EXCEPT ![c] = "closed"] /\ toPage' = [toPage EXCEPT ![c] = <<>>]
    /\ UNCHANGED <<vars, cast, pages, toServer, edited, author>>

Updated(messages) == {m.node : m \in {m \in Range(messages) : m.type = "node.update_param"}}

\* The server's end closes, and what was on its way there is lost.
ServerCloses(c) ==
    /\ cast[c] \in Pages /\ Close(c)
    /\ toServer' = [toServer EXCEPT ![c] = <<>>]
    /\ edited' = [edited EXCEPT ![cast[c]] = @ \ Updated(toServer[c])]
    /\ UNCHANGED <<cast, pages, socket, toPage, author>>

---------------------------------------------------------------------------
(* Messages that arrive. *)

\* The message handler of the server, on an update: one for a node it has not is refused.
HandleUpdate(c, m) ==
    /\ m.type = "node.update_param"
    /\ IF Accepts(m.node)
       THEN UpdateParam(c, m.node, m.value) /\ author' = [author EXCEPT ![m.node] = cast[c]]
       ELSE UNCHANGED <<vars, author>>

HandleSubscribe(c, m) ==
    m.type = "node.subscribe_thumbnail" /\ Subscribe(c, m.node, PageInterval) /\ UNCHANGED author

HandleMessage(c) ==
    /\ c \in ws_clients /\ toServer[c] # <<>>
    /\ toServer' = [toServer EXCEPT ![c] = Tail(@)]
    /\ HandleUpdate(c, Head(toServer[c])) \/ HandleSubscribe(c, Head(toServer[c]))
    /\ UNCHANGED <<cast, pages, socket, toPage, edited>>

\* Thumbnails of a run leave for the pages; a frame names neither its node nor its run.
Frame(c) == [node |-> thumbnail_subscriptions[c].node, run |-> serial']
RunForPages ==
    /\ PostRun \/ EmitCompletedRun
    /\ toPage' = [c \in Clients |-> IF /\ c \in DOMAIN shown' /\ shown'[c] = serial'
                                       /\ socket[c] \in {"connecting", "open"}
                                    THEN Append(toPage[c], Frame(c)) ELSE toPage[c]]
    /\ UNCHANGED <<cast, pages, socket, toServer, edited, author>>

\* onmessage: whatever node a thumbnail is of, it is the latest.
OnMessage(c) ==
    /\ socket[c] = "open" /\ toPage[c] # <<>>
    /\ pages' = [pages EXCEPT ![cast[c]].latest = {Head(toPage[c])}]
    /\ toPage' = [toPage EXCEPT ![c] = Tail(@)]
    /\ UNCHANGED <<vars, cast, socket, toServer, edited, author>>

---------------------------------------------------------------------------
(* Everybody else, whose requests arrive at once. *)

OtherRequests ==
    /\ \/ \E d \in Documents : Put(d) /\ author' = [n \in Nodes |-> Other]
       \/ \E n \in Nodes, v \in OtherValues :
             /\ PostParam(n, v) \/ \E c \in Clients : cast[c] = Other /\ UpdateParam(c, n, v)
             /\ author' = [author EXCEPT ![n] = Other]
       \/ /\ \E c \in Clients : /\ cast[c] = Other
                                /\ \/ Open(c) \/ Close(c) \/ Unsubscribe(c)
                                   \/ \E n \in Nodes, i \in Intervals : Subscribe(c, n, i)
          /\ UNCHANGED author
       \/ Tick /\ UNCHANGED author
    /\ UNCHANGED <<cast, pages, wires, edited>>

ClientNext ==
    \/ \E p \in Pages : \/ \E d \in Documents : LoadPipeline(p, d)
                        \/ \E n \in Nodes : Select(p, n) \/ \E v \in Values : Edit(p, n, v)
                        \/ RegistryFails(p) \/ \E c \in Clients : RegistryAnswers(p, c)
    \/ \E c \in Clients : \/ ServerOpens(c) \/ SocketOpens(c) \/ SocketCloses(c) \/ ServerCloses(c)
                          \/ HandleMessage(c) \/ OnMessage(c)
    \/ RunForPages \/ OtherRequests

ClientSpec == ClientInit /\ [][ClientNext]_clientVars

---------------------------------------------------------------------------
\* The page has opened one socket, which is c.
OnlySocket(p, c) == {d \in Clients : cast[d] = p /\ socket[d] # "unused"} = {c}

(* sendParamUpdate shows a value before the server has it, and nothing ever compares the
   two: still, once a page's updates have arrived, the server has the value the page shows,
   for every node the page edited and was the last to set, unless the update could not be
   sent or the connection broke.  A page with two sockets is excepted: what it sent on the
   older one may arrive last. *)
EditsAgree ==
    \A p \in Pages, c \in Clients : OnlySocket(p, c) =>
        \A n \in edited[p] \ Updated(toServer[c]), d \in active_pipeline :
            author[n] = p => \A shownDocument \in pages[p].nodes : d[n] = shownDocument[n]

(* Thumbnails name no node and land in one place, and every edit subscribes again: still,
   once the queues of an open connection are empty, the inspector shows the newest frame
   the server has sent for the node it inspects.  A page with two sockets is excepted: the
   older one keeps its subscription. *)
InspectorShowsLatest ==
    \A p \in Pages, c \in Clients :
        /\ OnlySocket(p, c) /\ socket[c] = "open" /\ pages[p].root = "mounted"
        /\ toServer[c] = <<>> /\ toPage[c] = <<>>
        /\ c \in DOMAIN shown /\ shown[c] # 0
        => \A n \in Inspected(pages[p]) : pages[p].latest = {[node |-> n, run |-> shown[c]]}
=============================================================================
