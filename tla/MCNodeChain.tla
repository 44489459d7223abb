---------------------------- MODULE MCNodeChain ----------------------------
(***************************************************************************)
(* The example pipelines and what becomes of them when nodes are inserted, *)
(* left out or exchanged, on several cameras.                              *)
(***************************************************************************)
EXTENDS NodeChain

ParamsOf(type) ==
    CASE type = "color.scene_linear_to_display" -> {"sRGB", "BT2020-PQ", "DisplayP3", ""}
      [] type = "color.3d_lut" -> {"lut", ""}
      [] OTHER -> {""}
AllNodes == UNION {{Node(t, p) : p \in ParamsOf(t)} : t \in Types}
N1(type) == Node(type, "")
SrgbDisplay == Node("color.scene_linear_to_display", "sRGB")
PqDisplay == Node("color.scene_linear_to_display", "BT2020-PQ")

\* examples/pipelines/min-pipeline and full-classic-pipeline(-hdr).
MinPipeline ==
    <<N1("linearize.dng_lut"), N1("blacklevel.dng_levels"), N1("demosaic.bilinear"), N1("wb.dual_illuminant"),
      N1("colormatrix.dng_to_working"), SrgbDisplay, N1("output.heif_sdr")>>
FullPipeline(tone, display, sink) ==
    <<N1("demosaic.quad_bayer_remosaic"), N1("linearize.dng_lut"), N1("lens.shading_gainmap"), N1("blacklevel.dng_levels"),
      N1("demosaic.rcd"), N1("lens.dng_opcode_list_3"), N1("wb.dual_illuminant"), N1("colormatrix.dng_to_working"),
      N1("denoise.bm3d"), N1("denoise.wavelet_bayes_shrink"), N1(tone), Node("color.3d_lut", "lut"),
      N1("sharpen.edge_aware_usm"), display, N1(sink)>>

With(nodes, k, node) == SubSeq(nodes, 1, k) \o <<node>> \o SubSeq(nodes, k + 1, Len(nodes))
Inserted == {With(MinPipeline, k, node) : k \in 0..Len(MinPipeline), node \in AllNodes}
\* Two more nodes, of those whose order matters most.
Reordering ==
    {N1("wb.greyworld_auto"), N1("colormatrix.dng_to_working"), N1("demosaic.quad_bayer_remosaic"), SrgbDisplay, PqDisplay,
     N1("fusion.hdr_plus_derivative"), N1("demosaic.rcd"), N1("builtin.passthrough")}
InsertedTwice ==
    {With(With(MinPipeline, k, a), l, b) : k \in 0..7, l \in 0..8, a \in Reordering, b \in Reordering}
Replaced == {[MinPipeline EXCEPT ![k] = node] : k \in DOMAIN MinPipeline, node \in AllNodes}
Without == {SubSeq(MinPipeline, 1, k - 1) \o SubSeq(MinPipeline, k + 1, 7) : k \in DOMAIN MinPipeline}
Exchanged == {[MinPipeline EXCEPT ![k] = MinPipeline[l], ![l] = MinPipeline[k]] : k, l \in DOMAIN MinPipeline}
Full ==
    {FullPipeline(tone, SrgbDisplay, "output.heif_sdr") : tone \in Tones \cup {"tone.mertens_local"}}
    \cup {FullPipeline("tone.filmic_rgb", PqDisplay, sink) : sink \in {"output.heif_hdr_pq", "output.heif_sdr"}}
\* Pipelines into which load inserts converters.
Converted ==
    {<<N1("demosaic.quad_bayer_remosaic"), N1("lens.shading_gainmap")>>,
     <<N1("linearize.dng_lut"), N1("blacklevel.dng_levels"), N1("lens.dng_opcode_list_3"), N1("builtin.passthrough")>>}

GoodCamera ==
    [cfa |-> "bayer", table |-> "some", white |-> "some", matrices |-> "some", neutral |-> "some", op2 |-> "good", op3 |-> "good",
     exif |-> "some"]
QuadCamera == [GoodCamera EXCEPT !.cfa = "quad"]
Cameras ==
    {QuadCamera, [GoodCamera EXCEPT !.cfa = "none"], [GoodCamera EXCEPT !.table = "none"], [GoodCamera EXCEPT !.white = "none"],
     [GoodCamera EXCEPT !.matrices = "none"], [GoodCamera EXCEPT !.neutral = "none"]}
    \cup {[GoodCamera EXCEPT !.op2 = s] : s \in {"none", "empty", Failed, Unsupported}}
    \cup {[GoodCamera EXCEPT !.op3 = s] : s \in {"none", "empty", Failed, Unsupported}}

NodeShape(node) == [has_output |-> ManifestOf(node.type).out # NoPort, layout_ok |-> OutputFormats(node) # {}]
RunOf(mode, nodes, camera, linked) ==
    [mode |-> mode, unbound |-> 0, inputs |-> 1, opens |-> TRUE, chain |-> nodes,
     nodes |-> [k \in DOMAIN nodes |-> NodeShape(nodes[k])],
     source |-> Node("builtin.dng_input", "path"), camera |-> camera, linked |-> linked]
Loose(chains, cameras) == {RunOf("bound", c, m, FALSE) : c \in chains, m \in cameras}
Linked(chains, cameras) == {RunOf("bound", Spliced(c), m, TRUE) : c \in {c \in chains : Accepted(c)}, m \in cameras}

\* Chains of other plugins, which answer calls with any status.
Shapes == [has_output : BOOLEAN, layout_ok : BOOLEAN]
Plain == [has_output |-> TRUE, layout_ok |-> TRUE]
PluginRun(mode, shapes) ==
    [mode |-> mode, unbound |-> 0, inputs |-> 1, opens |-> TRUE,
     chain |-> [k \in DOMAIN shapes |-> Node("plugin", "any")], nodes |-> shapes,
     source |-> Node("plugin", "any"), camera |-> GoodCamera, linked |-> FALSE]
PluginRuns ==
    {PluginRun(m, shapes) : m \in {"bound", "file"}, shapes \in UNION {[1..n -> Shapes] : n \in 0..2}}
    \cup {PluginRun(m, <<Plain, a, [has_output |-> FALSE, layout_ok |-> TRUE]>>) : m \in {"bound", "file"}, a \in Shapes}
    \cup {[PluginRun("bound", <<Plain>>) EXCEPT !.unbound = 1], [PluginRun("bound", <<Plain>>) EXCEPT !.inputs = 2],
          [PluginRun("file", <<Plain>>) EXCEPT !.opens = FALSE]}
\* A built-in source, and plugins that edit the metadata.
EditRuns ==
    {[PluginRun("bound", <<Plain, Plain>>) EXCEPT
        !.source = Node("builtin.dng_input", "path"), !.chain = <<Node("plugin", "two"), Node("plugin", "one")>>, !.camera = camera]
       : camera \in {GoodCamera, [GoodCamera EXCEPT !.exif = "none"]}}

Edits ==
    {AddStep("demosaic"), RemoveStep("demosaic"), SetBlob("exif_raw", "some"), SetBlob("exif_raw", "matrix"),
     SetBlob("exif_raw", "none"), SetBlob("camera_to_xyz", "some"), SetBlob("camera_to_xyz", "none"), SetRole(Scene),
     SetNeutral("some"), SetCfa("quad"), ClearCfa}
    \cup {Call(op, "some", {}) : op \in {"orientation", "area", "quant", "share", "clear"}} \cup {Call("quant", "bad", {})}
EditPrograms(n) == {edits \o <<Write, Flush>> : edits \in [1..n -> Edits]}
MCPluginPrograms ==
    [any |-> {<<Write, Flush, Give(s)>> : s \in {OK, Failed, Unsupported}}, one |-> EditPrograms(1), two |-> EditPrograms(2)]

MCRuns ==
    Loose(Inserted \cup InsertedTwice \cup Replaced \cup Without \cup Exchanged, {GoodCamera})
    \cup Linked(Inserted \cup Replaced \cup Full \cup Converted, {GoodCamera, QuadCamera})
    \cup Linked({With(MinPipeline, 3, N1("wb.greyworld_auto"))} \cup Full, Cameras)
    \cup {RunOf("file", <<a, b>>, GoodCamera, FALSE) : a \in {N1("builtin.passthrough")}, b \in AllNodes}
    \cup PluginRuns \cup EditRuns
MCKeys == {"exif_raw", "opcode_list_2", "opcode_list_3", "camera_to_xyz"}
MCValues ==
    {"bayer", "quad", "some", "good", "empty", "matrix", "estimated", Failed, Unsupported, Raw, Scene, Srgb, Pq}
    \cup UNION {ManifestOf(t).sets : t \in Types \cup {"precision_convert"}}
MCErrors == {Failed, Unsupported, BadIndex, BadPrecision, NeedMetadata, NeedParam, InternalError}

MertensRuns == Linked({FullPipeline("tone.mertens_local", SrgbDisplay, "output.heif_sdr")}, {GoodCamera})
=============================================================================
