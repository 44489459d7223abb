--------------------------- MODULE MCPipelineLoad ---------------------------
(* Four node types of src/cpipe/nodes with their manifests, and documents. *)
EXTENDS PipelineLoad, SequencesExt

P(kind, channels, precision, sets, requires) ==
    [kind |-> kind, name |-> kind, channels |-> channels, precision |-> precision,
     sets |-> sets, requires |-> requires]
T(in, out, role) == [ports |-> {in, out}, input_role |-> role, output_role |-> role]

MCManifest ==
    [t \in {"linearize", "blacklevel", "lut", "passthrough", PrecisionConvert} |->
        CASE t = "linearize" -> T(P("in", {"r"}, {"u16"}, {}, {}), P("out", {"r"}, {"f32"}, {"linearization"}, {}), "raw_camera")
          [] t = "blacklevel" -> T(P("in", {"r"}, {"f32"}, {}, {"linearization"}),
                                   P("out", {"r"}, {"f32"}, {"black_white_scaling"}, {}), "raw_camera")
          [] t = "lut" -> T(P("in", {"rgba"}, {"f16"}, {}, {}), P("out", {"rgba"}, {"f16"}, {"color.3d_lut"}, {}),
                            "scene_linear_rec2020")
          [] t = "passthrough" -> T(P("in", {"rgba"}, {"u8"}, {}, {}), P("out", {"rgba"}, {"u8"}, {}, {}), "any")
          [] OTHER -> T(P("in", {"r", "rgba"}, {"u16", "f32", "f16"}, {}, {}),
                        P("out", {"r", "rgba"}, {"f32", "f16", "u8", "u16"}, {"precision_convert"}, {}), "any")]

Id == <<"a", "b", "c", "d">>
Node(i, t) == [id |-> Id[i], type |-> t, params_ok |-> TRUE]
Edge(i, j) == [from |-> Id[i], to |-> Id[j], from_port |-> "out", to_port |-> "in"]
Doc(types, es) ==
    [readable |-> TRUE, nodes |-> [i \in DOMAIN types |-> Node(i, types[i])], edges |-> es,
     inputs |-> {"raw"}, over_cap |-> FALSE]

Types == {"linearize", "blacklevel", "lut", "passthrough"}
Pairs(n) == {Edge(p[1], p[2]) : p \in {p \in (1..n) \X (1..n) : p[1] # p[2]}}
\* Subsets of the possible edges, in one fixed order.
EdgeLists(n, max) ==
    LET all == SetToSeq(Pairs(n))
    IN  {SelectSeq(all, LAMBDA e : e \in s) : s \in {s \in SUBSET Pairs(n) : Cardinality(s) <= max}}

\* All graphs with three edges at most on three nodes of any types.
Graphs3 == {Doc(t, e) : t \in [1..3 -> Types], e \in EdgeLists(3, 3)}
\* A chain of four, and a producer with three consumers.
Chain4 == {Doc(t, <<Edge(3, 4), Edge(1, 2), Edge(2, 3)>>) : t \in [1..4 -> Types]}
FanOut == Doc(<<"lut", "passthrough", "passthrough", "lut">>, <<Edge(1, 2), Edge(1, 3), Edge(1, 4)>>)

\* Every list of at most three edges on three nodes, self-loops and parallel edges
\* included, and every graph on four nodes whose edges go up.
Plain(n) == [i \in 1..n |-> "passthrough"]
AllEdges(n) == {Edge(p[1], p[2]) : p \in (1..n) \X (1..n)}
Multigraphs == {Doc(Plain(3), e) : e \in UNION {[1..l -> AllEdges(3)] : l \in 0..3}}
Upward == <<Edge(1, 2), Edge(2, 4), Edge(1, 3), Edge(3, 4), Edge(2, 3), Edge(1, 4)>>
Dags4 == {Doc(Plain(4), SelectSeq(Upward, LAMBDA e : e \in s)) : s \in SUBSET Range(Upward)}

Good == Doc(<<"lut", "passthrough">>, <<Edge(1, 2)>>)
Odd ==
    {[Good EXCEPT !.readable = FALSE],
     [Good EXCEPT !.over_cap = TRUE],
     [Good EXCEPT !.nodes[2].type = PrecisionConvert],
     [Good EXCEPT !.nodes[2].type = "unknown"],
     [Good EXCEPT !.nodes[1].params_ok = FALSE],
     [Good EXCEPT !.edges[1].to = "nobody"],
     [Good EXCEPT !.edges[1].to = "a"],                       \* a self-loop
     [Good EXCEPT !.nodes[2].id = "a"],                       \* a duplicate id; "b" dangles
     [Good EXCEPT !.edges[1].to_port = "misspelled"],
     [FanOut EXCEPT !.nodes[4].id = "a", !.edges[3].to = "b"]}

MCReloads ==
    {[Good EXCEPT !.inputs = {"raw", "aux"}], Good, [Good EXCEPT !.over_cap = TRUE, !.inputs = {"aux"}],
     [Good EXCEPT !.readable = FALSE]}
MCDocuments == Graphs3 \cup Chain4 \cup Multigraphs \cup Dags4 \cup {FanOut} \cup Odd \cup MCReloads
=============================================================================
