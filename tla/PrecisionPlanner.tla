-------------------------- MODULE PrecisionPlanner --------------------------
(***************************************************************************)
(* PrecisionPlanner (runtime/PrecisionPlanner.cpp): which edges of a       *)
(* pipeline need a precision_convert node, as operators on manifests.      *)
(*                                                                         *)
(* Manifest[type] is [ports, input_role, output_role] for every registered *)
(* type; ports is the set of declared ports, records [kind, name, channels,*)
(* precision, sets, requires], where an empty set stands for a missing list*)
(***************************************************************************)
EXTENDS Naturals, Sequences

CONSTANT Manifest

PrecisionConvert == "com.cpipe.precision_convert"

NoPort == [channels |-> {}, precision |-> {}, sets |-> {}, requires |-> {}]

\* port_caps and manifest_metadata_steps: a port the manifest does not declare
\* has no capabilities, which later means that anything goes.
Port(type, kind, name) ==
    LET found == {p \in Manifest[type].ports : p.kind = kind /\ p.name = name}
    IN  IF found = {} THEN NoPort ELSE CHOOSE p \in found : TRUE

\* precision_convert.json: it takes and gives the precisions of the formats it converts between.
ASSUME ConverterAssumption ==
    PrecisionConvert \in DOMAIN Manifest =>
        /\ {"u16", "f32", "f16"} \subseteq Port(PrecisionConvert, "in", "in").precision
        /\ {"f32", "f16", "u8", "u16"} \subseteq Port(PrecisionConvert, "out", "out").precision

Formats ==
    {[channels |-> {"r"}, precision |-> {"u16"}, format |-> "R16_UINT"],
     [channels |-> {"r"}, precision |-> {"f32"}, format |-> "R32_SFLOAT"],
     [channels |-> {"rgba"}, precision |-> {"f16"}, format |-> "R16G16B16A16_SFLOAT"],
     [channels |-> {"rgba"}, precision |-> {"u8"}, format |-> "R8G8B8A8_UNORM"],
     [channels |-> {"rgba"}, precision |-> {"u16"}, format |-> "R16G16B16A16_UNORM"]}

\* format_from_caps: the formats of the lists (none or one).
FormatsFromCaps(port) ==
    {f.format : f \in {f \in Formats : f.channels = port.channels /\ f.precision = port.precision}}

DirectConversions ==
    {<<"R16_UINT", "R32_SFLOAT">>, <<"R32_SFLOAT", "R16G16B16A16_SFLOAT">>,
     <<"R16G16B16A16_SFLOAT", "R8G8B8A8_UNORM">>, <<"R16G16B16A16_SFLOAT", "R16G16B16A16_UNORM">>}

Intersects(lhs, rhs) == lhs = {} \/ rhs = {} \/ lhs \cap rhs # {}

\* An edge [from, to, from_port, to_port] of a graph whose node v has type nodes[v].type.
Produced(nodes, e) == Port(nodes[e.from].type, "out", e.from_port)
Required(nodes, e) == Port(nodes[e.to].type, "in", e.to_port)

Compatible(nodes, e) == Intersects(Produced(nodes, e).precision, Required(nodes, e).precision)

Convertible(nodes, e) ==
    \E f \in FormatsFromCaps(Produced(nodes, e)), g \in FormatsFromCaps(Required(nodes, e)) :
        <<f, g>> \in DirectConversions

\* The node that auto_insert appends for e, and the edges that replace e.
Converter(nodes, e) ==
    [type |-> PrecisionConvert,
     target |-> CHOOSE f \in FormatsFromCaps(Required(nodes, e)) : TRUE]

ConverterEdges(e, inserted) ==
    <<[from |-> e.from, to |-> inserted, from_port |-> e.from_port, to_port |-> "in"],
      [from |-> inserted, to |-> e.to, from_port |-> "out", to_port |-> e.to_port]>>
=============================================================================
