------------------------------ MODULE GainMaps ------------------------------
(***************************************************************************)
(* lens.shading_gainmap: the gain maps of opcode list 2 are parsed         *)
(* (ingest/dng_opcode/OpcodeList2.cpp), checked and packed into one blob   *)
(* (nodes/lens/shading_gainmap.cpp) and applied pixel by pixel             *)
(* (shading_gainmap_dispatch.cpp).                                         *)
(*                                                                         *)
(* Gains, spacings and origins are integers.  A gain between grid points   *)
(* is exact: it is counted in units of 1 / (spacing_v * spacing_h).        *)
(***************************************************************************)
EXTENDS OpcodeCells, FiniteSets, Status

CONSTANT GridSize       \* the image is GridSize x GridSize

VARIABLE g2             \* [pc, opcodes, repeat, cells, count, offset, index, maps, status, blob, out, at]

Positions == (0..GridSize - 1) \X (0..GridSize - 1)      \* <<x, y>>
GainMapHeaderCells == 19
GainMapId == 9

---------------------------------------------------------------------------
(* Parsing. *)

\* The fields of a map; the spacings and origins are doubles.
GainMap(p) ==
    [plane |-> p[5], planes |-> p[6], row_pitch |-> p[7], col_pitch |-> p[8], points_v |-> p[9], points_h |-> p[10],
     spacing_v |-> p[11], spacing_h |-> p[13], origin_v |-> p[15], origin_h |-> p[17], map_planes |-> p[19]]
checked_gain_count(map) == map.points_v > 0 /\ map.points_h > 0 /\ map.map_planes > 0
GainCount(map) == map.points_v * map.points_h * map.map_planes
valid_required_shape(map) ==
    /\ map.planes \in {1, 4} /\ map.plane < map.planes /\ map.map_planes = 1
    /\ map.row_pitch > 0 /\ map.col_pitch > 0 /\ map.spacing_v > 0 /\ map.spacing_h > 0

Fail2(status) == g2' = [g2 EXCEPT !.pc = "done", !.status = status]

\* params may be longer than the table needs.
parse_gain_map(params, offset) ==
    IF Len(params) < GainMapHeaderCells THEN Fail2(Failed)
    ELSE LET map == GainMap(params)
             size == GainMapHeaderCells + GainCount(map)
         IN  IF ~checked_gain_count(map) \/ Len(params) < size THEN Fail2(Failed)
             ELSE IF ~valid_required_shape(map) THEN Fail2(Unsupported)
             ELSE g2' = [g2 EXCEPT !.offset = offset, !.index = @ + 1,
                                   !.maps = Append(@, [map |-> map, gain |-> SubSeq(params, GainMapHeaderCells + 1, size)])]

ParseCount ==
    /\ g2.pc = "parse"
    /\ IF g2.cells = <<>> THEN g2' = [g2 EXCEPT !.pc = "process"]
       ELSE g2' = [g2 EXCEPT !.pc = "loop", !.count = Cell(g2.cells, 0), !.offset = 1]

\* One turn of the loop of OpcodeList2::parse_gain_maps: other opcodes are passed over.
parse_gain_maps ==
    /\ g2.pc = "loop" /\ g2.index < g2.count
    /\ IF ~can_read(g2.cells, g2.offset, HeaderCells) THEN Fail2(Failed)
       ELSE LET size == Cell(g2.cells, g2.offset + 3)
                start == g2.offset + HeaderCells
            IN  IF ~can_read(g2.cells, start, size) THEN Fail2(Failed)
                ELSE IF Cell(g2.cells, g2.offset) # GainMapId
                THEN g2' = [g2 EXCEPT !.offset = start + size, !.index = @ + 1]
                ELSE parse_gain_map(Span(g2.cells, start, size), start + size)
ParseDone == g2.pc = "loop" /\ g2.index = g2.count /\ g2' = [g2 EXCEPT !.pc = "process"]

---------------------------------------------------------------------------
(* The node. *)

\* One map for everything, or one for each of the four planes.
validate_gain_maps(maps) ==
    \/ Len(maps) = 1 /\ maps[1].map.planes = 1 /\ maps[1].map.plane = 0
    \/ /\ Len(maps) = 4
       /\ \A k \in 1..4 : maps[k].map.planes = 4 /\ \A j \in 1..k - 1 : maps[j].map.plane # maps[k].map.plane

\* Mutant: gain_offset is not advanced.
pack_at_zero(repeat, maps) ==
    [repeat |-> repeat, gains |-> FlattenSeq([k \in DOMAIN maps |-> maps[k].gain]),
     planes |-> [k \in DOMAIN maps |-> [map |-> maps[k].map, gain_offset |-> 0, gain_count |-> Len(maps[k].gain)]]]
pack_gain_maps(repeat, maps) ==
    [repeat |-> repeat, gains |-> FlattenSeq([k \in DOMAIN maps |-> maps[k].gain]),
     planes |-> [k \in DOMAIN maps |->
                    [map |-> maps[k].map, gain_count |-> Len(maps[k].gain),
                     gain_offset |-> Len(FlattenSeq([j \in 1..k - 1 |-> maps[j].gain]))]]]

\* The dispatcher's own look at the blob.
PlaneFits(plane, gains) ==
    /\ plane.map.points_v > 0 /\ plane.map.points_h > 0 /\ plane.gain_count > 0
    /\ plane.gain_offset + plane.gain_count <= Len(gains)
CheckedBlob(blob) ==
    CASE Len(blob.planes) \notin 1..4 -> NeedMetadata
      [] Len(blob.planes) \in 1..4 /\ (\E plane \in Range(blob.planes) : ~PlaneFits(plane, blob.gains)) -> BadIndex
      [] OTHER -> OK

Copied == [p \in Positions |-> 1]
Process2 ==
    /\ g2.pc = "process"
    /\ CASE g2.maps = <<>> -> g2' = [g2 EXCEPT !.pc = "done", !.status = OK, !.out = Copied]
         [] g2.maps # <<>> /\ ~validate_gain_maps(g2.maps) -> Fail2(Unsupported)
         [] OTHER -> LET blob == pack_gain_maps(g2.repeat, g2.maps)
                     IN  IF CheckedBlob(blob) = OK THEN g2' = [g2 EXCEPT !.pc = "apply", !.blob = <<blob>>]
                         ELSE Fail2(CheckedBlob(blob))

\* coord / spacing on an axis of points, the weight in units of 1 / spacing.
sample_axis(coord, spacing, points) ==
    IF points <= 1 \/ coord <= 0 THEN [low |-> 0, high |-> 0, weight |-> 0]
    ELSE IF coord >= (points - 1) * spacing THEN [low |-> points - 1, high |-> points - 1, weight |-> 0]
    ELSE [low |-> coord \div spacing, high |-> coord \div spacing + 1, weight |-> coord % spacing]
lerp(a, b, t, unit) == a * unit + (b - a) * t

\* The plane of a pixel follows the repeat of the mosaic.
PlaneAt(repeat, x, y) ==
    IF repeat = 4 THEN ((y % 4) \div 2) * 2 + ((x % 4) \div 2) ELSE (y % 2) * 2 + (x % 2)
select_map(blob, x, y) ==
    IF Len(blob.planes) = 1 THEN {blob.planes[1]}
    ELSE {blob.planes[k] : k \in {i \in DOMAIN blob.planes :
             /\ blob.planes[i].map.plane = PlaneAt(blob.repeat, x, y)
             /\ \A j \in 1..i - 1 : blob.planes[j].map.plane # blob.planes[i].map.plane}}
sample_gain(plane, gains, x, y) ==
    LET map == plane.map
        sy == sample_axis(y - map.origin_v, map.spacing_v, map.points_v)
        sx == sample_axis(x - map.origin_h, map.spacing_h, map.points_h)
        g(v, h) == gains[1 + plane.gain_offset + v * map.points_h + h]
    IN  lerp(lerp(g(sy.low, sx.low), g(sy.low, sx.high), sx.weight, map.spacing_h),
             lerp(g(sy.high, sx.low), g(sy.high, sx.high), sx.weight, map.spacing_h), sy.weight, map.spacing_v)

\* One pixel of lens_shading_gainmap_param, left to right and top to bottom.
ApplyGain ==
    /\ g2.pc = "apply"
    /\ LET x == g2.at % GridSize
           y == g2.at \div GridSize
           chosen == select_map(g2.blob[1], x, y)
       IN  IF chosen = {} THEN Fail2(NeedMetadata)
           ELSE g2' = [g2 EXCEPT !.out[<<x, y>>] = sample_gain(CHOOSE m \in chosen : TRUE, g2.blob[1].gains, x, y),
                                 !.at = @ + 1,
                                 !.pc = IF g2.at + 1 = GridSize * GridSize THEN "done" ELSE "apply",
                                 !.status = IF g2.at + 1 = GridSize * GridSize THEN OK ELSE ""]

Start2(opcodes, repeat, cells) ==
    [pc |-> "parse", opcodes |-> opcodes, repeat |-> repeat, cells |-> cells, count |-> 0, offset |-> 0, index |-> 0,
     maps |-> <<>>, status |-> "", blob |-> <<>>, out |-> [p \in Positions |-> 0], at |-> 0]
Next2 == ParseCount \/ parse_gain_maps \/ ParseDone \/ Process2 \/ ApplyGain

---------------------------------------------------------------------------
(* Properties. *)

\* The maps of the list, straight from the opcodes that were written to it.
Maps == {op \in Range(g2.opcodes) : op.id = GainMapId}
MapOf(x, y) == IF Cardinality(Maps) = 1 THEN CHOOSE op \in Maps : TRUE
               ELSE CHOOSE op \in Maps : op.params[5] = PlaneAt(g2.repeat, x, y)
\* The grid points that a pixel lies between on one axis, held to the grid at its edges.
Between(at, origin, spacing, points) ==
    {k \in 0..points - 1 : \/ at - spacing < origin + k * spacing /\ origin + k * spacing < at + spacing
                           \/ k = 0 /\ at <= origin
                           \/ k = points - 1 /\ at >= origin + k * spacing}

\* Every pixel gets a gain from the map of its own plane of the mosaic and from the grid points it
\* lies between: not above the largest of them, not below the smallest, and exactly the gain of
\* the point when there is only one.  Once the maps are accepted no pixel is left without one, so
\* the output is never written half (shading_gainmap.cpp validate_gain_maps and pack_gain_maps,
\* shading_gainmap_dispatch.cpp select_map and sample_gain).
GainsFromOwnPlane ==
    /\ g2.pc = "done" /\ g2.blob # <<>> => g2.status = OK
    /\ g2.pc = "done" /\ g2.status = OK /\ Maps # {} =>
        \A p \in Positions :
            LET params == MapOf(p[1], p[2]).params
                unit == params[11] * params[13]
                near == {params[GainMapHeaderCells + 1 + v * params[10] + h] * unit :
                            v \in Between(p[2], params[15], params[11], params[9]),
                            h \in Between(p[1], params[17], params[13], params[10])}
            IN  /\ \E g \in near : g <= g2.out[p]
                /\ \E g \in near : g >= g2.out[p]
=============================================================================
