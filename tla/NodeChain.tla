----------------------------- MODULE NodeChain -----------------------------
(***************************************************************************)
(* A PipelineRun whose plugins are the built-in nodes, or others: between  *)
(* Buffers and Process the calls of the node's program are executed one by *)
(* one on the host (HostContext, ComputeContext, CpuBuffer, MetadataStore).*)
(*                                                                         *)
(* A run r also has source and chain, the nodes with their parameters,     *)
(* camera, what the DNG file says, and linked, whether the document        *)
(* connected them.                                                         *)
(***************************************************************************)
EXTENDS PipelineRun, NodePrograms, MetadataStore

CONSTANT PluginPrograms     \* what the plugins that are not built in may do, by their parameter

VARIABLES
    todo, status,       \* calls process() still makes, and what it returns
    wrote,              \* it has written its output
    format,             \* of every buffer
    locked, dirty,      \* CpuBuffer::locked_; written and not flushed
    files               \* images encoded: [role, pixels]

own == <<todo, status, wrote, format, locked, dirty, files>>

ChainInit ==
    /\ Init
    /\ todo = <<>> /\ status = OK /\ wrote = FALSE
    /\ format = [b \in 0..N |-> IF r.mode = "file" THEN RGBA8 ELSE NoPort]
    /\ locked = [b \in 0..N |-> FALSE] /\ dirty = [b \in 0..N |-> FALSE]
    /\ md = [b \in (IF r.mode = "file" THEN {0} ELSE {}) |-> Default]
    /\ cals = <<>> /\ builder = Default
    /\ files = {}

ThisNode == IF i = 0 THEN r.source ELSE r.chain[i]
IsPlugin == ThisNode.type = "plugin"
OutFormat ==
    CASE r.mode = "file" \/ IsPlugin -> RGBA8
      [] i = 0 -> R16
      [] OTHER -> IF HasOutput THEN CHOOSE f \in OutputFormats(ThisNode) : TRUE ELSE NoPort

\* What process() is given; run_bound and run_file pass one buffer for all inputs.
View ==
    LET m == IF i = 0 THEN Default ELSE md[current]
        block == get_calibration(m)
    IN  [type |-> ThisNode.type, param |-> ThisNode.param, given |-> r.mode = "bound",
         n_in |-> ManifestOf(ThisNode.type).inputs, n_out |-> IF HasOutput THEN 1 ELSE 0,
         in |-> format[current], out |-> OutFormat,
         md |-> [role |-> m.plain["cs_role"], neutral |-> m.plain["as_shot_neutral"] # Nothing, steps |-> m.steps,
                 op2 |-> get_blob(m, "opcode_list_2"), op3 |-> get_blob(m, "opcode_list_3"),
                 wb |-> get_blob(m, "camera_to_xyz") # Nothing],
         cal |-> [cfa |-> block.cfa, table |-> block.table # Nothing, white |-> block.white # Nothing,
                  matrices |-> block.matrices # Nothing]]
Programs == IF IsPlugin THEN PluginPrograms[ThisNode.param] ELSE {Program(View)}

\* CREATE and DESTROY of the built-in nodes cannot fail (sdk dispatch).
Answers == IF IsPlugin THEN Status ELSE {OK}
Host ==
    /\ \/ Enter \/ NextNode \/ \E written \in BOOLEAN : Finish(written)
       \/ r.source.type = "plugin" /\ NoSourceBuffer
       \/ pc \in {"create", "destroy"} /\ \E s \in Answers : Create(s) \/ Destroy(s)
    /\ UNCHANGED <<own, meta>>

Begin ==
    /\ Buffers
    /\ IF pc' = "process"
         THEN /\ todo' \in Programs /\ status' = OK /\ wrote' = FALSE
              /\ format' = [format EXCEPT ![i] = OutFormat]
              /\ IF i = 0 THEN UNCHANGED meta ELSE open_builder(current)
         ELSE UNCHANGED <<todo, status, wrote, format, meta>>
    /\ UNCHANGED <<locked, dirty, files>>

Running(op) == pc = "process" /\ todo # <<>> /\ Head(todo).op = op /\ UNCHANGED vars
Arg == Head(todo).arg
Key == Head(todo).key
Continue == todo' = Tail(todo)
Buffer(side) == IF side = "in" THEN current ELSE i

LockCpu ==
    /\ Running("lock") /\ Continue
    /\ locked' = [locked EXCEPT ![Buffer(Arg)] = TRUE]
    /\ UNCHANGED <<status, wrote, format, dirty, meta, files>>
UnlockCpu ==
    /\ Running("unlock") /\ Continue
    /\ locked' = [locked EXCEPT ![Buffer(Arg)] = FALSE]
    /\ UNCHANGED <<status, wrote, format, dirty, meta, files>>
WritePixels ==
    /\ Running("write") /\ Continue
    /\ wrote' = TRUE /\ dirty' = [dirty EXCEPT ![i] = TRUE]
    /\ UNCHANGED <<status, format, locked, meta, files>>
FlushWrites ==
    /\ Running("flush") /\ Continue
    /\ dirty' = [dirty EXCEPT ![i] = FALSE]
    /\ UNCHANGED <<status, wrote, format, locked, meta, files>>

\* The call fails and the node goes on with one of its error paths.
CallFails ==
    /\ pc = "process" /\ todo # <<>>
    /\ todo' \in Head(todo).fail
    /\ UNCHANGED <<vars, status, wrote, format, locked, dirty, meta, files>>
CallSucceeds ==
    /\ Running("attempt") /\ Continue
    /\ UNCHANGED <<status, wrote, format, locked, dirty, meta, files>>

GiveStatus ==
    /\ Running("give") /\ Continue
    /\ status' = Arg
    /\ UNCHANGED <<wrote, format, locked, dirty, meta, files>>

\* dng_input replaces the buffer of its output by the one DngReader filled.
ReadDng ==
    /\ Running("read") /\ Continue
    /\ wrote' = TRUE
    /\ set_metadata(0, [Default EXCEPT !.plain["cs_role"] = Raw, !.plain["as_shot_neutral"] = r.camera.neutral,
                                       !.native["exif_raw"] = r.camera.exif,
                                       !.ext["opcode_list_2"] = r.camera.op2, !.ext["opcode_list_3"] = r.camera.op3],
                    [cfa |-> r.camera.cfa, table |-> r.camera.table, white |-> r.camera.white, matrices |-> r.camera.matrices])
    /\ UNCHANGED <<status, format, locked, dirty, files>>

EditMetadata ==
    /\ \/ Running("neutral") /\ set_as_shot_neutral(Arg)
       \/ Running("orientation") /\ set_orientation(Arg)
       \/ Running("role") /\ set_cs_role(Arg)
       \/ Running("area") /\ set_active_area(Arg)
       \/ Running("quant") /\ set_tensor_quant(Arg)
       \/ Running("step") /\ add_applied_step(Arg)
       \/ Running("unstep") /\ remove_applied_step(Arg)
       \/ Running("blob") /\ set_blob(Key, Arg)
       \/ Running("cfa") /\ set_cfa(Arg)
       \/ Running("clear_cfa") /\ clear_cfa
       \/ Running("share") /\ share_calibration_from(current)
       \/ Running("clear") /\ clear_calibration
    /\ Continue
    /\ UNCHANGED <<status, wrote, format, locked, dirty, files>>

Encode ==
    /\ Running("encode") /\ Continue
    /\ files' = files \cup {[role |-> Arg, pixels |-> pixels[current]]}
    /\ UNCHANGED <<status, wrote, format, locked, dirty, meta>>

\* process() has returned: the host freezes the builder of an output and attaches it.
\* A source has no builder, and its buffer has default metadata if it gave it no other.
End ==
    /\ todo = <<>> /\ Process(status)
    /\ IF i \in next /\ i \notin DOMAIN md THEN freeze_into(i) ELSE UNCHANGED meta
    /\ UNCHANGED own

ChainNext ==
    \/ Host \/ Begin \/ End
    \/ LockCpu \/ UnlockCpu \/ WritePixels \/ FlushWrites \/ CallFails \/ CallSucceeds \/ GiveStatus
    \/ ReadDng \/ EditMetadata \/ Encode
    \/ (pc = "returned" /\ UNCHANGED <<vars, own, meta>>)
ChainSpec == ChainInit /\ [][ChainNext]_<<vars, own, meta>>

---------------------------------------------------------------------------
(* When process() returns, whatever it returns, no buffer is left locked or with
   writes that are not flushed; and CPIPE_OK means that the output was written. *)
ReturnedBuffersSettled ==
    pc # "process" =>
        /\ \A b \in 0..N : ~locked[b] /\ ~dirty[b]
        /\ pc = "destroy" /\ status = OK /\ next # {} => wrote

StepsOf(type) == SetToSeq(ManifestOf(type).sets)

Builtin == r.source.type # "plugin" /\ \A k \in DOMAIN r.chain : r.chain[k].type # "plugin"

Displays == {"color.scene_linear_to_display"}

(* What load assumed when it accepted a pipeline is what its nodes find and do.  Up to
   the display transform every node but the first finds the format, the colour role and
   the steps its manifest asks for; the output of the display transform depends on its
   target, and load takes any target for every consumer.  And the steps in the metadata
   that is handed on are those the manifests of the built-in nodes declare for the work
   its pixels carry, in order. *)
LoadChecksHoldAtRun ==
    /\ r.linked /\ pc = "process" /\ i > 1 /\ (\A k \in 1..(i - 1) : r.chain[k].type \notin Displays) =>
        LET m == ManifestOf(r.chain[i].type)
        IN  /\ format[current] = m.in \/ r.chain[i].type = "precision_convert"
            /\ m.role_in \in {"any", md[current].plain["cs_role"]}
            /\ m.requires \subseteq ToSet(md[current].steps)
    /\ Builtin /\ i > 0 => md[current].steps =
          FlattenSeq([k \in DOMAIN pixels[current] |->
              IF pixels[current][k] = 0 THEN <<>> ELSE StepsOf(r.chain[pixels[current][k]].type)])

Carries(p, k, types) == p[k] # 0 /\ r.chain[p[k]].type \in types

(* Whatever the nodes and their order, pixels that reach a file were balanced, then
   taken to the working space once, then to the display space the file is for. *)
EncodedImagesAreDisplayReferred ==
    \A f \in files :
        LET p == f.pixels
            matrices == {k \in DOMAIN p : Carries(p, k, {"colormatrix.dng_to_working"})}
            displays == {k \in DOMAIN p : Carries(p, k, Displays)}
        IN  \E c \in matrices, d \in displays :
                /\ matrices = {c} /\ displays = {d} /\ c < d
                /\ \E w \in DOMAIN p : w < c /\ Carries(p, w, WhiteBalances)
                /\ r.chain[p[d]].param = IF f.role = Srgb THEN "sRGB" ELSE "BT2020-PQ"

(* CpuBuffer.cpp:60 asserts that a buffer is not locked when it is locked. *)
NeverLockedTwice ==
    pc = "process" /\ todo # <<>> /\ Head(todo).op = "lock" => ~locked[Buffer(Head(todo).arg)]
=============================================================================
