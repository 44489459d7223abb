----------------------------- MODULE Manifests -----------------------------
(***************************************************************************)
(* The manifests of the built-in nodes (nodes/**/*.json) as load and run   *)
(* read them: the formats of the ports, the steps and roles they declare.  *)
(* Types are the node ids without "com.cpipe.".                            *)
(***************************************************************************)
EXTENDS Naturals, Sequences, SequencesExt

R16 == [channels |-> {"r"}, precision |-> {"u16"}]
R32F == [channels |-> {"r"}, precision |-> {"f32"}]
RGBA16F == [channels |-> {"rgba"}, precision |-> {"f16"}]
RGBA8 == [channels |-> {"rgba"}, precision |-> {"u8"}]
RGBA16 == [channels |-> {"rgba"}, precision |-> {"u16"}]
AnyDisplay == [channels |-> {"rgba"}, precision |-> {"u8", "u16"}]
NoPort == [channels |-> {}, precision |-> {}]

Raw == "raw_camera"
Scene == "scene_linear_rec2020"
Srgb == "output_srgb"
Pq == "output_pq_rec2020"

\* inputs is the number of input ports, which all declare the same.
Manifest(inputs, in, out, role_in, role_out, requires, sets) ==
    [inputs |-> inputs, in |-> in, out |-> out, role_in |-> role_in, role_out |-> role_out,
     requires |-> requires, sets |-> sets]

BayerNode(in, out, requires, sets) == Manifest(1, in, out, Raw, Raw, requires, sets)
SceneNode(requires, sets) == Manifest(1, RGBA16F, RGBA16F, Scene, Scene, requires, sets)

Demosaics == {"demosaic.bilinear", "demosaic.rcd", "demosaic.amaze"}
WhiteBalances == {"wb.dual_illuminant", "wb.greyworld_auto"}
Denoises == {"denoise.guided_filter", "denoise.wavelet_bayes_shrink"}
Tones == {"tone.filmic_rgb", "tone.aces_filmic", "tone.reinhard"}

ManifestOf(type) ==
    CASE type = "builtin.dng_input" -> Manifest(0, NoPort, R16, "none", Raw, {}, {})
      [] type = "builtin.passthrough" -> Manifest(1, RGBA8, RGBA8, "any", "any", {}, {})
      [] type = "precision_convert" ->
            Manifest(1, [channels |-> {"r", "rgba"}, precision |-> {"u16", "f32", "f16"}],
                     [channels |-> {"r", "rgba"}, precision |-> {"f32", "f16", "u8", "u16"}],
                     "any", "any", {}, {"precision_convert"})
      [] type = "demosaic.quad_bayer_remosaic" -> BayerNode(R16, R16, {}, {"quad_bayer_remosaic"})
      [] type = "fusion.hdr_plus_derivative" -> Manifest(2, R16, R16, Raw, Raw, {}, {"burst_fusion_stub"})
      [] type = "linearize.dng_lut" -> BayerNode(R16, R32F, {}, {"linearization"})
      [] type = "lens.shading_gainmap" -> BayerNode(R32F, R32F, {}, {"lens_shading_gainmap"})
      [] type = "blacklevel.dng_levels" -> BayerNode(R32F, R32F, {"linearization"}, {"black_white_scaling"})
      [] type \in Demosaics -> BayerNode(R32F, RGBA16F, {"black_white_scaling"}, {"demosaic"})
      [] type = "lens.dng_opcode_list_3" -> BayerNode(RGBA16F, RGBA16F, {}, {"opcode_list_3"})
      [] type \in WhiteBalances -> BayerNode(RGBA16F, RGBA16F, {"demosaic"}, {"white_balance"})
      [] type = "colormatrix.dng_to_working" ->
            Manifest(1, RGBA16F, RGBA16F, Raw, Scene, {"white_balance"}, {"color_matrix"})
      [] type \in Denoises \cup {"denoise.bm3d"} -> SceneNode({"color_matrix"}, {type})
      [] type \in Tones -> SceneNode({"denoise.wavelet_bayes_shrink"}, {type})
      [] type = "tone.mertens_local" ->
            [SceneNode({"denoise.wavelet_bayes_shrink"}, {"tone_mertens_local"}) EXCEPT !.inputs = 3]
      [] type = "color.3d_lut" -> SceneNode({}, {type})
      [] type = "sharpen.edge_aware_usm" -> SceneNode({"color.3d_lut"}, {type})
      [] type = "color.scene_linear_to_display" ->
            Manifest(1, RGBA16F, AnyDisplay, Scene, "any", {}, {type})
      [] type = "output.heif_sdr" -> Manifest(1, RGBA8, NoPort, Srgb, "any", {"color.scene_linear_to_display"}, {})
      [] type = "output.heif_hdr_pq" -> Manifest(1, RGBA16, NoPort, Pq, "any", {"color.scene_linear_to_display"}, {})

Types ==
    {"builtin.passthrough", "demosaic.quad_bayer_remosaic", "fusion.hdr_plus_derivative", "linearize.dng_lut",
     "lens.shading_gainmap", "blacklevel.dng_levels", "lens.dng_opcode_list_3", "colormatrix.dng_to_working",
     "denoise.bm3d", "tone.mertens_local", "color.3d_lut", "sharpen.edge_aware_usm",
     "color.scene_linear_to_display", "output.heif_sdr", "output.heif_hdr_pq"}
    \cup Demosaics \cup WhiteBalances \cup Denoises \cup Tones

\* A node of a document: its type and the parameter that decides what it does,
\* display's target, precision_convert's target_format, 3d_lut's lut_path.
Node(type, param) == [type |-> type, param |-> param]

DirectConversions == {<<R16, R32F>>, <<R32F, RGBA16F>>, <<RGBA16F, RGBA8>>, <<RGBA16F, RGBA16>>}
FormatNames ==
    {<<"R16_UINT", R16>>, <<"R32_SFLOAT", R32F>>, <<"R16G16B16A16_SFLOAT", RGBA16F>>,
     <<"R8G8B8A8_UNORM", RGBA8>>, <<"R16G16B16A16_UNORM", RGBA16>>}
NameOf(format) == (CHOOSE f \in FormatNames : f[2] = format)[1]

\* output_layout_for_node: the formats the output can get, none or one.
OutputFormats(node) ==
    CASE node.type = "precision_convert" -> {f[2] : f \in {f \in FormatNames : f[1] = node.param}}
      [] node.type = "color.scene_linear_to_display" ->
            (CASE node.param \in {"sRGB", ""} -> {RGBA8} [] node.param = "BT2020-PQ" -> {RGBA16} [] OTHER -> {})
      [] OTHER -> {ManifestOf(node.type).out}

---------------------------------------------------------------------------
\* Pipeline::load on nodes connected in one line, each to all inputs of the next.
Declared(nodes, k) == UNION {ManifestOf(nodes[j].type).sets : j \in 1..k}

RolesCompatible(produced, required) == {produced, required} \cap {"any"} # {} \/ produced = required

Links(a, b) == ManifestOf(a.type).out.precision \cap ManifestOf(b.type).in.precision # {}
Bridges(a, b) == <<ManifestOf(a.type).out, ManifestOf(b.type).in>> \in DirectConversions

Accepted(nodes) ==
    \A k \in 1..(Len(nodes) - 1) :
        LET a == nodes[k]
            b == nodes[k + 1]
        IN  /\ ManifestOf(a.type).out # NoPort
            /\ ManifestOf(b.type).requires \subseteq Declared(nodes, k)
            /\ RolesCompatible(ManifestOf(a.type).role_out, ManifestOf(b.type).role_in)
            /\ Links(a, b) \/ Bridges(a, b)

\* Mutant: the converters are left out.
SplicedWithoutConverters(nodes) == nodes
\* The nodes in the order they run, with the converters auto_insert adds.
Spliced(nodes) ==
    FlattenSeq([k \in DOMAIN nodes |->
        IF k = Len(nodes) \/ Links(nodes[k], nodes[k + 1]) THEN <<nodes[k]>>
        ELSE <<nodes[k], Node("precision_convert", NameOf(ManifestOf(nodes[k + 1].type).in))>>])
=============================================================================
