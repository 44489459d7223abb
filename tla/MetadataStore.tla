--------------------------- MODULE MetadataStore ---------------------------
(***************************************************************************)
(* The metadata of buffers as the host keeps it: BufferMetadata, the       *)
(* MetadataBuilder (core/BufferMetadata.cpp) behind the builder suite, and *)
(* the metadata suite (runtime/HostContext.cpp).  A metadata record is     *)
(*   cal      index of a calibration block in cals, shared; 0 for none     *)
(*   plain    the fields that are plain values: cs_role, as_shot_neutral,  *)
(*            orientation, active_area, tensor_quant                       *)
(*   steps    applied_steps                                                *)
(*   native   exif_blob, xmp_blob and icc_blob, under their reserved keys  *)
(*   ext      ext_blobs                                                    *)
(***************************************************************************)
EXTENDS Naturals, Sequences

CONSTANTS
    Frames,             \* identities of buffers
    Keys, Reserved,     \* of blobs
    Values,             \* contents of fields, blobs, steps and CFAs
    Nothing, BadScheme

Fields == {"cs_role", "as_shot_neutral", "orientation", "active_area", "tensor_quant"}

ASSUME MetadataAssumption == Reserved \subseteq Keys /\ Nothing \notin Values

VARIABLES
    md,         \* the frozen metadata of the buffers that have some
    cals,       \* the calibration blocks
    builder     \* MetadataBuilder::metadata_ of the output being made

meta == <<md, cals, builder>>

EmptyBlock == [cfa |-> Nothing, table |-> Nothing, white |-> Nothing, matrices |-> Nothing]
Default ==
    [cal |-> 0, plain |-> [f \in Fields |-> Nothing], steps |-> <<>>,
     native |-> [k \in Reserved |-> Nothing], ext |-> [k \in Keys |-> Nothing]]

---------------------------------------------------------------------------
(* The metadata suite. *)

\* get_calibration shows an absent block as one without any content.
get_calibration(m) == IF m.cal = 0 THEN EmptyBlock ELSE cals[m.cal]
has_applied_step(m, step) == \E k \in DOMAIN m.steps : m.steps[k] = step
list_applied_steps(m) == m.steps
get_blob(m, key) == IF key \in Reserved /\ m.native[key] # Nothing THEN m.native[key] ELSE m.ext[key]

\* How often list_blob_keys names a key: once for each place that holds a blob under it.
list_blob_keys(m) ==
    [k \in Keys |-> (IF k \in Reserved /\ m.native[k] # Nothing THEN 1 ELSE 0) + (IF m.ext[k] # Nothing THEN 1 ELSE 0)]

---------------------------------------------------------------------------
(* MetadataBuilder: what an edit makes of metadata_. *)

WithAsShotNeutral(m, neutral) == [m EXCEPT !.plain["as_shot_neutral"] = neutral]
WithOrientation(m, orientation) == [m EXCEPT !.plain["orientation"] = orientation]
WithRole(m, role) == [m EXCEPT !.plain["cs_role"] = role]
WithActiveArea(m, area) == [m EXCEPT !.plain["active_area"] = area]
WithTensorQuant(m, quant) == [m EXCEPT !.plain["tensor_quant"] = quant]
WithStep(m, step) == [m EXCEPT !.steps = Append(@, step)]
\* std::erase
Erased(steps, step) ==
    LET kept[k \in 0..Len(steps)] ==
          IF k = 0 THEN <<>> ELSE IF steps[k] = step THEN kept[k - 1] ELSE Append(kept[k - 1], steps[k])
    IN  kept[Len(steps)]
WithoutStep(m, step) == [m EXCEPT !.steps = Erased(@, step)]
\* No blob erases the entry.
WithBlob(m, key, blob) == [m EXCEPT !.ext[key] = blob]
WithCalibration(m, cal) == [m EXCEPT !.cal = cal]

---------------------------------------------------------------------------
(* The builder suite. *)

Edited(m) == builder' = m /\ UNCHANGED <<md, cals>>

set_as_shot_neutral(rgb) == Edited(WithAsShotNeutral(builder, rgb))
set_orientation(orientation) == Edited(WithOrientation(builder, orientation))
set_cs_role(role) == Edited(WithRole(builder, role))
set_active_area(area) == Edited(WithActiveArea(builder, area))
\* A scheme outside the enumeration is refused.
set_tensor_quant(scheme) == Edited(IF scheme = BadScheme THEN builder ELSE WithTensorQuant(builder, scheme))
add_applied_step(step) == Edited(WithStep(builder, step))
remove_applied_step(step) == Edited(WithoutStep(builder, step))
\* Bytes are copied, and size 0 passes no blob on.  The native blobs are out of reach.
set_blob(key, bytes) == Edited(WithBlob(builder, key, bytes))
share_calibration_from(input) == Edited(WithCalibration(builder, md[input].cal))
clear_calibration == Edited(WithCalibration(builder, 0))

\* Mutant: the block is changed where it is.
set_cfa_in_place(cfa) ==
    /\ builder.cal # 0
    /\ cals' = [cals EXCEPT ![builder.cal].cfa = cfa] /\ UNCHANGED <<md, builder>>
\* Mutant: the rest of the block is not copied.
set_cfa_fresh(cfa) ==
    /\ cals' = Append(cals, [EmptyBlock EXCEPT !.cfa = cfa])
    /\ builder' = WithCalibration(builder, Len(cals) + 1)
    /\ UNCHANGED md
\* set_cfa changes a copy of the block, or a new block.
set_cfa(cfa) ==
    /\ cals' = Append(cals, [get_calibration(builder) EXCEPT !.cfa = cfa])
    /\ builder' = WithCalibration(builder, Len(cals) + 1)
    /\ UNCHANGED md
\* Without a block there is nothing to clear.
clear_cfa == IF builder.cal = 0 THEN UNCHANGED meta ELSE set_cfa(Nothing)

---------------------------------------------------------------------------
(* The host's side: make_metadata_builder_handle, set_metadata, freeze. *)

open_builder(base) == builder' = md[base] /\ UNCHANGED <<md, cals>>

Attached(b, m) == [c \in DOMAIN md \cup {b} |-> IF c = b THEN m ELSE md[c]]
\* The builder cannot be changed after freeze: its handle is gone.
freeze_into(b) == md' = Attached(b, builder) /\ UNCHANGED <<cals, builder>>

\* A source attaches metadata with a calibration block of its own.
set_metadata(b, m, block) ==
    /\ cals' = Append(cals, block)
    /\ md' = Attached(b, [m EXCEPT !.cal = Len(cals) + 1])
    /\ UNCHANGED builder

Edit ==
    \/ \E x \in Values : \/ set_as_shot_neutral(x) \/ set_orientation(x) \/ set_cs_role(x) \/ set_active_area(x)
                         \/ add_applied_step(x) \/ remove_applied_step(x) \/ set_cfa(x)
    \/ \E x \in Values \cup {BadScheme} : set_tensor_quant(x)
    \/ \E k \in Keys, x \in Values \cup {Nothing} : set_blob(k, x)
    \/ clear_cfa \/ clear_calibration
    \/ \E b \in DOMAIN md : share_calibration_from(b)
\* What a source may attach.
Brought ==
    [cal : {0}, plain : [Fields -> Values \cup {Nothing}], steps : Seq(Values),
     native : [Reserved -> Values \cup {Nothing}], ext : [Keys -> Values \cup {Nothing}]]
StoreNext ==
    \/ Edit
    \/ \E b \in DOMAIN md : open_builder(b)
    \/ \E b \in Frames \ DOMAIN md : freeze_into(b)
    \/ \E b \in Frames \ DOMAIN md, m \in Brought, block \in [DOMAIN EmptyBlock -> Values \cup {Nothing}] : set_metadata(b, m, block)
\* Buffers that the host fills itself have default metadata.
StoreInit == (\E filled \in SUBSET Frames : md = [b \in filled |-> Default]) /\ cals = <<>> /\ builder = Default
StoreSpec == StoreInit /\ [][StoreNext]_meta

---------------------------------------------------------------------------
\* What a step leaves alone.
KeepsPublished ==
    \A b \in DOMAIN md : /\ b \in DOMAIN md' /\ md'[b] = md[b]
                         /\ md[b].cal # 0 => cals'[md[b].cal] = cals[md[b].cal]

(* Metadata that is attached to a buffer never changes again, nor does the
   calibration block it shares with the metadata made from it. *)
PublishedMetadataIsImmutable == [][KeepsPublished]_meta

Seen(m) ==
    [cal |-> IF m.cal = 0 THEN {} ELSE {cals[m.cal]}, plain |-> m.plain, steps |-> list_applied_steps(m),
     blobs |-> [k \in Keys |-> get_blob(m, k)], keys |-> list_blob_keys(m),
     fixed |-> {k \in Reserved : m.native[k] # Nothing}]
Abstract ==
    INSTANCE MetadataValues WITH Buffers <- Frames, value <- [b \in DOMAIN md |-> Seen(md[b])], draft <- Seen(builder)

(* What a plugin can find out through the metadata suite are values that nobody
   else changes: that a block is shared does not show, a removed step is gone
   however often it was recorded and the other steps are listed as before, and
   set_blob changes one key.  (A blob the host keeps under a reserved key is
   fixed: what set_blob stores under that key is listed a second time, and
   get_blob never returns it.) *)
ImplementsValues == Abstract!Spec
=============================================================================
