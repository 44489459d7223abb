---------------------------- MODULE NodePrograms ----------------------------
(***************************************************************************)
(* What Node::process of every built-in node (nodes/**/*.cpp) does, as the *)
(* sequence of calls it makes on the host: locks of buffers, kernels, and  *)
(* changes of the metadata builder.  NodeChain executes the calls.         *)
(*                                                                         *)
(* A program is chosen from a view v of what process() was given:          *)
(*   type, param, given    the node, its parameter, whether params exist   *)
(*   n_in, n_out, in, out  numbers of buffers and their formats            *)
(*   md                    what the node asks of the input's metadata      *)
(*   cal                   its calibration block, as get_calibration shows *)
(* The inputs do not change during process(), so the checks a node makes   *)
(* on them are made when the program is chosen.  Images are not empty.     *)
(***************************************************************************)
EXTENDS Manifests, FiniteSetsExt, Status

\* One call; fail is the set of continuations it may take when it fails.
Call(op, arg, fail) == [op |-> op, key |-> "", arg |-> arg, fail |-> fail]
Give(status) == Call("give", status, {})
Lock(buffer) == Call("lock", buffer, {})
Unlock(buffer) == Call("unlock", buffer, {})
Flush == Call("flush", "out", {})
Write == Call("write", "out", {})
AddStep(step) == Call("step", step, {})
RemoveStep(step) == Call("unstep", step, {})
SetRole(role) == Call("role", role, {})
SetNeutral(neutral) == Call("neutral", neutral, {})
SetBlob(key, bytes) == [Call("blob", bytes, {}) EXCEPT !.key = key]
SetCfa(cfa) == Call("cfa", cfa, {})
ClearCfa == Call("clear_cfa", "", {})
\* Work outside the model that fails with one of these statuses.
Attempt(statuses) == Call("attempt", "", {<<Give(s)>> : s \in statuses})

Times(k, call) == [j \in 1..k |-> call]

\* The early returns of process(): checks is a sequence of <<condition, status>>.
Checked(checks, body) ==
    LET failing == {k \in DOMAIN checks : ~checks[k][1]}
    IN  IF failing = {} THEN body ELSE <<Give(checks[Min(failing)][2])>>

Arity(v, inputs) == <<v.n_in = inputs /\ v.n_out = 1, BadIndex>>
Formats(v, in, out) == <<v.in = in /\ v.out = out, BadPrecision>>

\* The list of opcodes as its parser sees it: none, empty, good, or refused with a status.
Parsed(list) == <<list \notin {Failed, Unsupported}, list>>

\* One HalideBufferAdapter per buffer locks it; its destructor unlocks, and flushes an output.
Adapters(v) == Times(v.n_in, Lock("in")) \o <<Lock("out")>>
\* Mutant: the adapters of the inputs do not unlock.
ReleaseOutputs(v) == <<Unlock("out"), Flush>>
Release(v) == <<Unlock("out"), Flush>> \o Times(v.n_in, Unlock("in"))

\* The compiled kernel, which refuses buffers with other element types than its own.
Kernel(v, statuses) ==
    Call(IF v.type = "precision_convert" \/ (v.in = ManifestOf(v.type).in /\ v.out \in OutputFormats(v)) THEN "write" ELSE "refuse",
         "out", {Release(v) \o <<Give(s)>> : s \in statuses})

\* submit_halide and submit_halide_with_params: whether or not the kernel fails, the
\* adapters are destroyed when the call returns.
Submit(v, statuses) == Adapters(v) \o <<Kernel(v, statuses)>> \o Release(v)

\* copy_r16_image, copy_r32_image and copy_rgba16_image; copy_ref_frame.
CopyImage == <<Lock("in"), Lock("out"), Write, Unlock("in"), Unlock("out"), Flush>>
CopyRefFrame == <<Lock("in"), Lock("out"), Write, Unlock("out"), Unlock("in"), Flush>>

---------------------------------------------------------------------------
DngInput(v) == Checked(<<<<v.given, NeedParam>>>>, <<Call("read", "out", {<<Give(Failed)>>})>>)

Passthrough(v) == Submit(v, {Failed})

Linearize(v) ==
    Checked(<<Arity(v, 1), Formats(v, R16, R32F), <<v.cal.table, NeedMetadata>>>>,
            Submit(v, {Failed}) \o <<AddStep("linearization")>>)

\* The kernel finds out whether a black level reaches the white level.
BlackLevel(v) ==
    Checked(<<Arity(v, 1), Formats(v, R32F, R32F), <<v.cal.cfa = "bayer" /\ v.cal.white, NeedMetadata>>>>,
            Submit(v, {NeedMetadata}) \o <<AddStep("black_white_scaling")>>)

IsSupportedBayer(v) == <<v.cal.cfa = "bayer", Unsupported>>

Demosaic(v) ==
    Checked(<<Arity(v, 1), IsSupportedBayer(v)>>, Submit(v, {Failed}) \o <<ClearCfa, AddStep("demosaic")>>)
DemosaicBilinear(v) == Demosaic(v)
DemosaicRcd(v) == Demosaic(v)
DemosaicAmaze(v) == Demosaic(v)

QuadBayerRemosaic(v) ==
    Checked(<<Arity(v, 1), <<v.cal.cfa \in {"bayer", "quad"}, Unsupported>>>>,
            (IF v.cal.cfa = "bayer" THEN CopyImage ELSE Submit(v, {Failed}) \o <<SetCfa("bayer")>>)
            \o <<AddStep("quad_bayer_remosaic")>>)

HdrPlusDerivative(v) ==
    Checked(<<Arity(v, 2), Formats(v, R16, R16)>>, CopyRefFrame \o <<AddStep("burst_fusion_stub")>>)

\* OpcodeList2 without gain maps, or none at all, is copied.
ShadingGainMap(v) ==
    Checked(<<Arity(v, 1), Formats(v, R32F, R32F), <<v.cal.cfa # "none", NeedMetadata>>, Parsed(v.md.op2)>>,
            (IF v.md.op2 \in {"none", "empty"} THEN CopyImage ELSE Submit(v, {Failed}))
            \o <<AddStep("lens_shading_gainmap")>>)

OpcodeList3(v) ==
    Checked(<<Arity(v, 1), Formats(v, RGBA16F, RGBA16F), Parsed(v.md.op3)>>,
            (IF v.md.op3 \in {"none", "empty"} THEN CopyImage ELSE Submit(v, {Unsupported}))
            \o <<AddStep("opcode_list_3")>>)

DualIlluminant(v) ==
    Checked(<<Arity(v, 1), Formats(v, RGBA16F, RGBA16F),
              <<v.cal.matrices, NeedMetadata>>, <<v.md.neutral, NeedMetadata>>>>,
            Submit(v, {Failed}) \o <<SetBlob("camera_to_xyz", "matrix"), AddStep("white_balance")>>)

\* The pixels are written before the calibration is looked at.
GreyworldAuto(v) ==
    Checked(<<Arity(v, 1), Formats(v, RGBA16F, RGBA16F)>>,
            <<Lock("in"), Lock("out"),
              Call("write", "out", {<<Unlock("out"), Unlock("in"), Give(NeedMetadata)>>}),
              Unlock("out"), Unlock("in"), Flush>>
            \o Checked(<<<<v.cal.matrices, NeedMetadata>>>>,
                       <<SetNeutral("estimated"), SetBlob("camera_to_xyz", "matrix"), AddStep("white_balance")>>))

\* Mutant: the role of the input is not looked at.
ColorMatrixAnyRole(v) ==
    Checked(<<Arity(v, 1), Formats(v, RGBA16F, RGBA16F), <<v.md.wb, NeedMetadata>>>>,
            Submit(v, {Failed}) \o <<SetRole(Scene), AddStep("color_matrix")>>)
ColorMatrix(v) ==
    Checked(<<Arity(v, 1), Formats(v, RGBA16F, RGBA16F),
              <<v.md.role = Raw /\ Contains(v.md.steps, "white_balance"), NeedMetadata>>, <<v.md.wb, NeedMetadata>>>>,
            Submit(v, {Failed}) \o <<SetRole(Scene), AddStep("color_matrix")>>)

\* Nodes that clamp their parameters and leave the formats to the kernel.
Adjust(v, step) == Checked(<<Arity(v, 1)>>, Submit(v, {Failed}) \o <<AddStep(step)>>)
GuidedFilter(v) == Adjust(v, "denoise.guided_filter")
WaveletBayesShrink(v) == Adjust(v, "denoise.wavelet_bayes_shrink")
FilmicRgb(v) == Adjust(v, "tone.filmic_rgb")
AcesFilmic(v) == Adjust(v, "tone.aces_filmic")
Reinhard(v) == Adjust(v, "tone.reinhard")
EdgeAwareUsm(v) == Adjust(v, "sharpen.edge_aware_usm")

Bm3d(v) == Checked(<<Arity(v, 1), Formats(v, RGBA16F, RGBA16F)>>, Submit(v, {Failed}) \o <<AddStep(v.type)>>)

MertensLocal(v) ==
    Checked(<<Arity(v, 3), Formats(v, RGBA16F, RGBA16F)>>, Submit(v, {Failed}) \o <<AddStep("tone_mertens_local")>>)

Lut3d(v) ==
    Checked(<<Arity(v, 1), Formats(v, RGBA16F, RGBA16F), <<v.given /\ v.param # "", NeedParam>>>>,
            <<Attempt({Failed})>> \o Submit(v, {Failed}) \o <<AddStep(v.type)>>)

PrecisionConvert(v) ==
    Checked(<<Arity(v, 1), <<v.given, NeedParam>>, <<v.out \in OutputFormats(v) \ {R16}, BadPrecision>>,
              <<<<v.in, v.out>> \in DirectConversions, BadPrecision>>>>,
            Submit(v, {Failed}) \o <<AddStep(v.type)>>)

\* submit_ocio_processor on buffers of the CPU: the input is copied out and unlocked.
SubmitOcio(v) ==
    Checked(<<<<v.in = RGBA16F, BadPrecision>>>>,
            <<Lock("in"), Unlock("in"), Attempt({InternalError}), Lock("out"), Write, Unlock("out"), Flush>>)

Display(v) ==
    Checked(<<Arity(v, 1), <<v.given /\ v.param # "", NeedParam>>,
              <<v.param \notin {"DisplayP3", "BT2020-HLG"}, Unsupported>>, <<v.param \in {"sRGB", "BT2020-PQ"}, NeedParam>>,
              <<v.in = RGBA16F /\ v.out \in OutputFormats(v), BadPrecision>>, <<v.md.role = Scene, NeedMetadata>>>>,
            <<Attempt({Failed})>> \o SubmitOcio(v)
            \o <<SetRole(IF v.param = "sRGB" THEN Srgb ELSE Pq), AddStep(v.type)>>)

Heif(v, format, role) ==
    Checked(<<<<v.n_in = 1 /\ v.n_out = 0, BadIndex>>, <<v.in = format, BadPrecision>>,
              <<v.md.role = role /\ Contains(v.md.steps, "color.scene_linear_to_display"), NeedMetadata>>,
              <<v.given, NeedParam>>>>,
            <<Lock("in"), Call("encode", role, {<<Unlock("in"), Give(Failed)>>}), Unlock("in")>>)

HeifSdr(v) == Heif(v, RGBA8, Srgb)
HeifHdrPq(v) == Heif(v, RGBA16, Pq)

Program(v) ==
    CASE v.type = "builtin.dng_input" -> DngInput(v)
      [] v.type = "builtin.passthrough" -> Passthrough(v)
      [] v.type = "precision_convert" -> PrecisionConvert(v)
      [] v.type = "linearize.dng_lut" -> Linearize(v)
      [] v.type = "blacklevel.dng_levels" -> BlackLevel(v)
      [] v.type = "demosaic.bilinear" -> DemosaicBilinear(v)
      [] v.type = "demosaic.rcd" -> DemosaicRcd(v)
      [] v.type = "demosaic.amaze" -> DemosaicAmaze(v)
      [] v.type = "demosaic.quad_bayer_remosaic" -> QuadBayerRemosaic(v)
      [] v.type = "fusion.hdr_plus_derivative" -> HdrPlusDerivative(v)
      [] v.type = "lens.shading_gainmap" -> ShadingGainMap(v)
      [] v.type = "lens.dng_opcode_list_3" -> OpcodeList3(v)
      [] v.type = "wb.dual_illuminant" -> DualIlluminant(v)
      [] v.type = "wb.greyworld_auto" -> GreyworldAuto(v)
      [] v.type = "colormatrix.dng_to_working" -> ColorMatrix(v)
      [] v.type = "denoise.guided_filter" -> GuidedFilter(v)
      [] v.type = "denoise.wavelet_bayes_shrink" -> WaveletBayesShrink(v)
      [] v.type = "tone.filmic_rgb" -> FilmicRgb(v)
      [] v.type = "tone.aces_filmic" -> AcesFilmic(v)
      [] v.type = "tone.reinhard" -> Reinhard(v)
      [] v.type = "sharpen.edge_aware_usm" -> EdgeAwareUsm(v)
      [] v.type = "denoise.bm3d" -> Bm3d(v)
      [] v.type = "tone.mertens_local" -> MertensLocal(v)
      [] v.type = "color.3d_lut" -> Lut3d(v)
      [] v.type = "color.scene_linear_to_display" -> Display(v)
      [] v.type = "output.heif_sdr" -> HeifSdr(v)
      [] v.type = "output.heif_hdr_pq" -> HeifHdrPq(v)
=============================================================================
