---------------------------- MODULE PipelineLoad ----------------------------
(***************************************************************************)
(* A Pipeline object under load() and set_source() (runtime/Pipeline.cpp). *)
(* load() reads a document in phases, any of which may reject it, and      *)
(* overwrites the object only at the end.  Paths, JSON text and parameter  *)
(* values are reduced to the verdicts readable and params_ok, the memory   *)
(* plan (see ColorBuffers) to the verdict over_cap.                        *)
(***************************************************************************)
EXTENDS Kahn, PrecisionPlanner, Status

CONSTANTS
    Documents,  \* [readable, nodes, edges, inputs, over_cap], see MCPipelineLoad
    Reloads,    \* the documents among them that are loaded into an object one after the other
    MaxLoads    \* bound on the number of those load() calls

\* What the schema admits.
DocumentNodes == [id : STRING, type : STRING, params_ok : BOOLEAN]
DocumentEdges == [from : STRING, to : STRING, from_port : STRING, to_port : STRING]
ASSUME DocumentsAssumption ==
    \A d \in Documents : d.nodes \in Seq(DocumentNodes) /\ d.edges \in Seq(DocumentEdges)

VARIABLES
    doc, phase, status, loads,
    k,              \* progress of the loop of this phase
    edges,          \* graph_edges: edges resolved to node indices
    order,          \* sorted_indices, then the order of planned_nodes
    cumulative,     \* cumulative_steps
    plan,           \* precision_plan: [nodes, edges]
    pipe,           \* the object: [nodes, inputs, sources]
    before          \* the object when the last load() was called

vars == <<doc, phase, status, loads, k, edges, order, cumulative, plan, pipe, before>>

EmptyPlan == [nodes |-> <<>>, edges |-> <<>>]
EmptyPipe == [nodes |-> <<>>, inputs |-> {}, sources |-> {}]

Init ==
    /\ doc = CHOOSE d \in Documents : TRUE
    /\ phase = "idle" /\ status = OK /\ loads = 0 /\ k = 1
    /\ edges = <<>> /\ order = <<>> /\ cumulative = <<>> /\ plan = EmptyPlan
    /\ pipe = EmptyPipe /\ before = EmptyPipe

Load(d) ==
    /\ phase = "idle" /\ loads < MaxLoads
    /\ loads > 0 => {doc, d} \subseteq Reloads
    /\ doc' = d /\ phase' = "read" /\ loads' = loads + 1 /\ k' = 1
    /\ edges' = <<>> /\ order' = <<>> /\ cumulative' = <<>> /\ plan' = EmptyPlan
    /\ before' = pipe
    /\ UNCHANGED <<status, pipe>>

Goto(p) == phase' = p /\ k' = 1
Reject(s) ==
    /\ Goto("idle") /\ status' = s
    /\ UNCHANGED <<doc, loads, edges, order, cumulative, plan, pipe, before>>

---------------------------------------------------------------------------
\* Opening, parsing and schema validation.
ReadDocument ==
    /\ phase = "read" /\ doc.readable
    /\ Goto("nodes")
    /\ UNCHANGED <<doc, status, loads, edges, order, cumulative, plan, pipe, before>>
RejectDocument == phase = "read" /\ ~doc.readable /\ Reject(Failed)

\* validate_node_params is the verdict params_ok.
NodeAccepted(node) ==
    node.type # PrecisionConvert /\ node.type \in DOMAIN Manifest /\ node.params_ok

ReadNode ==
    /\ phase = "nodes"
    /\ IF k > Len(doc.nodes) THEN Goto("edges")
       ELSE NodeAccepted(doc.nodes[k]) /\ k' = k + 1 /\ UNCHANGED phase
    /\ UNCHANGED <<doc, status, loads, edges, order, cumulative, plan, pipe, before>>
RejectNode ==
    phase = "nodes" /\ k <= Len(doc.nodes) /\ ~NodeAccepted(doc.nodes[k]) /\ Reject(BadIndex)

\* node_index.emplace: of several nodes with one id, edges mean the first.
Named(id) == {i \in DOMAIN doc.nodes : doc.nodes[i].id = id}
NodeIndex(id) == Min(Named(id))

ReadEdge ==
    /\ phase = "edges"
    /\ IF k > Len(doc.edges) THEN Goto("sort") /\ UNCHANGED edges
       ELSE LET e == doc.edges[k]
            IN  /\ Named(e.from) # {} /\ Named(e.to) # {}
                /\ edges' = Append(edges, [from |-> NodeIndex(e.from), to |-> NodeIndex(e.to),
                                           from_port |-> e.from_port, to_port |-> e.to_port])
                /\ k' = k + 1 /\ UNCHANGED phase
    /\ UNCHANGED <<doc, status, loads, order, cumulative, plan, pipe, before>>
RejectEdge ==
    /\ phase = "edges" /\ k <= Len(doc.edges)
    /\ Named(doc.edges[k].from) = {} \/ Named(doc.edges[k].to) = {}
    /\ Reject(BadIndex)

Sorted == Sort(Len(doc.nodes), edges)

SortNodesOfGraph ==
    /\ phase = "sort" /\ Len(Sorted) = Len(doc.nodes)
    /\ order' = Sorted
    /\ cumulative' = [v \in DOMAIN doc.nodes |-> {}]
    /\ Goto("steps")
    /\ UNCHANGED <<doc, status, loads, edges, plan, pipe, before>>
RejectCycle == phase = "sort" /\ Len(Sorted) # Len(doc.nodes) /\ Reject(Failed)

Into(v) == {e \in Range(edges) : e.to = v}
OutOf(v) == {e \in Range(edges) : e.from = v}

\* Mutant: only what the predecessors themselves set, not what they inherit.
StepsOfNeighbours(v) ==
    (UNION {Produced(doc.nodes, e).sets : e \in Into(v)}) \cup UNION {Produced(doc.nodes, e).sets : e \in OutOf(v)}
\* append_unique_steps over the edges into v and the output ports of v in use.
Steps(v) ==
    (UNION {cumulative[e.from] : e \in Into(v)}) \cup UNION {Produced(doc.nodes, e).sets : e \in OutOf(v)}

AccumulateSteps ==
    /\ phase = "steps"
    /\ IF k > Len(order) THEN Goto("checks") /\ UNCHANGED cumulative
       ELSE /\ cumulative' = [cumulative EXCEPT ![order[k]] = Steps(order[k])]
            /\ k' = k + 1 /\ UNCHANGED phase
    /\ UNCHANGED <<doc, status, loads, edges, order, plan, pipe, before>>

\* color_roles_compatible, on the roles of the two node types.
RolesCompatible(e) ==
    LET produced == Manifest[doc.nodes[e.from].type].output_role
        required == Manifest[doc.nodes[e.to].type].input_role
    IN  {produced, required} \cap {"", "any"} # {} \/ produced = required

EdgeAccepted(e) == Required(doc.nodes, e).requires \subseteq cumulative[e.from] /\ RolesCompatible(e)

CheckEdge ==
    /\ phase = "checks"
    /\ IF k > Len(edges)
         THEN Goto("precision") /\ plan' = [nodes |-> [i \in DOMAIN doc.nodes |-> [type |-> doc.nodes[i].type, target |-> ""]],
                                            edges |-> <<>>]
         ELSE EdgeAccepted(edges[k]) /\ k' = k + 1 /\ UNCHANGED <<phase, plan>>
    /\ UNCHANGED <<doc, status, loads, edges, order, cumulative, pipe, before>>
RejectCheckedEdge ==
    phase = "checks" /\ k <= Len(edges) /\ ~EdgeAccepted(edges[k]) /\ Reject(NeedMetadata)

---------------------------------------------------------------------------
\* auto_insert, one edge per step.
KeepEdge ==
    /\ phase = "precision" /\ k <= Len(edges) /\ Compatible(doc.nodes, edges[k])
    /\ plan' = [nodes |-> plan.nodes, edges |-> Append(plan.edges, edges[k])]
    /\ k' = k + 1
    /\ UNCHANGED <<doc, phase, status, loads, edges, order, cumulative, pipe, before>>

MayInsert(e) == Convertible(doc.nodes, e) /\ PrecisionConvert \in DOMAIN Manifest

InsertConverter ==
    /\ phase = "precision" /\ k <= Len(edges)
    /\ ~Compatible(doc.nodes, edges[k]) /\ MayInsert(edges[k])
    /\ plan' = [nodes |-> Append(plan.nodes, Converter(doc.nodes, edges[k])),
                edges |-> plan.edges \o ConverterEdges(edges[k], Len(plan.nodes) + 1)]
    /\ k' = k + 1
    /\ UNCHANGED <<doc, phase, status, loads, edges, order, cumulative, pipe, before>>

RejectPrecision ==
    /\ phase = "precision" /\ k <= Len(edges)
    /\ ~Compatible(doc.nodes, edges[k]) /\ ~MayInsert(edges[k])
    /\ Reject(BadPrecision)

\* Mutant: the first order, with the converters at its end.
ReplannedAppended == order \o [i \in 1..(Len(plan.nodes) - Len(order)) |-> Len(order) + i]
Replanned == Sort(Len(plan.nodes), plan.edges)

\* The second sort.
Replan ==
    /\ phase = "precision" /\ k > Len(edges)
    /\ IF Len(Replanned) = Len(plan.nodes)
         THEN Goto("commit") /\ order' = Replanned /\ UNCHANGED status
         ELSE Goto("idle") /\ status' = Failed /\ UNCHANGED order
    /\ UNCHANGED <<doc, loads, edges, cumulative, plan, pipe, before>>

Planned(sources) ==
    [nodes |-> [i \in DOMAIN order |-> plan.nodes[order[i]]], inputs |-> doc.inputs, sources |-> sources]

\* Mutant: the object is written before the cap is tested.
CommitFirst ==
    /\ phase = "commit" /\ pipe' = Planned({})
    /\ status' = IF doc.over_cap THEN OutOfMemory ELSE OK
    /\ Goto("idle")
    /\ UNCHANGED <<doc, loads, edges, order, cumulative, plan, before>>
Commit ==
    /\ phase = "commit" /\ ~doc.over_cap /\ pipe' = Planned({}) /\ status' = OK
    /\ Goto("idle")
    /\ UNCHANGED <<doc, loads, edges, order, cumulative, plan, before>>
RejectMemory == phase = "commit" /\ doc.over_cap /\ Reject(OutOfMemory)

\* set_source with a plugin that is registered; it fails for an unknown port.
SetSource(port) ==
    /\ phase = "idle" /\ port \in pipe.inputs
    /\ pipe' = [nodes |-> pipe.nodes, inputs |-> pipe.inputs, sources |-> pipe.sources \cup {port}]
    /\ UNCHANGED <<doc, phase, status, loads, k, edges, order, cumulative, plan, before>>

ReadStep == ReadDocument \/ RejectDocument \/ ReadNode \/ RejectNode \/ ReadEdge \/ RejectEdge
GraphStep == SortNodesOfGraph \/ RejectCycle \/ AccumulateSteps \/ CheckEdge \/ RejectCheckedEdge
PlanStep == KeepEdge \/ InsertConverter \/ RejectPrecision \/ Replan \/ Commit \/ RejectMemory

Ports == UNION {d.inputs : d \in Documents}
Terminated == phase = "idle" /\ loads > 0 /\ UNCHANGED vars

Next ==
    \/ \E d \in Documents : Load(d)
    \/ ReadStep \/ GraphStep \/ PlanStep
    \/ \E port \in Ports : SetSource(port)
    \/ Terminated
Spec == Init /\ [][Next]_vars

---------------------------------------------------------------------------
Returned == phase = "idle" /\ loads > 0
Accepted == Returned /\ status = OK
\* Position of node v of the plan in the order of execution.
Place(v) == CHOOSE i \in DOMAIN order : order[i] = v

(* The reference definition: a set of nodes each with a predecessor in the set
   contains, or hangs below, a cycle. *)
HasCycle ==
    \E S \in (SUBSET DOMAIN doc.nodes) \ {{}} : \A v \in S : \E e \in Into(v) : e.from \in S

(* Kahn's loop places no node twice and every producer before its consumers, with
   parallel edges too, and the test of the size of its result ("cycle in pipeline
   graph") is exact: nodes are left out if and only if the graph has a cycle. *)
SortIsExact ==
    phase = "sort" =>
        /\ IsInjective(Sorted)
        /\ \A j \in DOMAIN Sorted : \A e \in Into(Sorted[j]) : \E i \in 1..(j - 1) : Sorted[i] = e.from
        /\ Len(Sorted) # Len(doc.nodes) <=> HasCycle

IsPath ==
    /\ Len(edges) = Len(doc.nodes) - 1
    /\ \A v \in DOMAIN doc.nodes : Cardinality(Into(v)) <= 1 /\ Cardinality(OutOf(v)) <= 1
    /\ Cardinality(Range(edges)) = Len(edges)

\* Each node of the plan is there once, and each producer stands before its consumers.
InOrder ==
    /\ Len(order) = Len(plan.nodes) /\ Range(order) = DOMAIN plan.nodes
    /\ \A e \in Range(plan.edges) : Place(e.from) < Place(e.to)

\* Every node directly follows the one whose output it consumes.
IsChain ==
    \A i \in 1..(Len(order) - 1) : \E e \in Range(plan.edges) : e.from = order[i] /\ e.to = order[i + 1]

\* A converter stands where the node behind it takes the format it is told to produce from that of
\* the node before.
ConverterFits(c) ==
    \E d, e \in Range(plan.edges) :
        /\ d.to = c /\ e.from = c
        /\ FormatsFromCaps(Required(plan.nodes, e)) = {plan.nodes[c].target}
        /\ \E f \in FormatsFromCaps(Produced(plan.nodes, d)) : <<f, plan.nodes[c].target>> \in DirectConversions

(* The pipeline that run() will execute in sequence holds every node of the plan in an
   order that respects the edges, although load() sorts twice and appends converters
   behind all other nodes; a linear pipeline is a chain, which is what run_bound assumes
   when it passes the latest buffer to the next node.  Every edge joins ports with a
   common precision, or an undeclared port, and every converter fits where it stands. *)
AcceptedPlan ==
    Accepted =>
        /\ InOrder /\ (IsPath => IsChain)
        /\ \A e \in Range(plan.edges) : Compatible(plan.nodes, e)
        /\ \A c \in DOMAIN plan.nodes : plan.nodes[c].target # "" => ConverterFits(c)

\* The nodes from which v can be reached: in every set with v closed under predecessors.
Upstream(v) ==
    {u \in DOMAIN doc.nodes :
        \A S \in SUBSET DOMAIN doc.nodes :
            v \in S /\ (\A e \in Range(edges) : e.to \in S => e.from \in S) => u \in S}

(* The one-pass accumulation of steps is exact: a graph passes the metadata check
   if and only if every step an edge requires is set by some node upstream. *)
StepsAreThoseUpstream ==
    phase = "checks" =>
        \A v \in DOMAIN doc.nodes :
            cumulative[v] = UNION {UNION {Produced(doc.nodes, e).sets : e \in OutOf(u)} : u \in Upstream(v)}

(* A load that fails leaves the object as it was, still loaded and its sources bound;
   one that succeeds leaves nothing of the pipeline before it: only inputs of the
   pipeline that is loaded now have a source, and run_bound looks sources up by name. *)
LoadIsAllOrNothing ==
    /\ Returned /\ status # OK =>
          pipe.nodes = before.nodes /\ pipe.inputs = before.inputs /\ before.sources \subseteq pipe.sources
    /\ pipe.sources \subseteq pipe.inputs
=============================================================================
