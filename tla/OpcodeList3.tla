----------------------------- MODULE OpcodeList3 -----------------------------
(***************************************************************************)
(* lens.dng_opcode_list_3: the list is parsed (ingest/dng_opcode/          *)
(* OpcodeList3.cpp), packed into one parameter blob with shared tables of  *)
(* points and rectangles (nodes/lens/dng_opcode_list_3.cpp), checked again *)
(* and applied opcode by opcode, between two images that are swapped       *)
(* (dng_opcode_list_3_dispatch.cpp).                                       *)
(*                                                                         *)
(* Pixels are integers.  The radial polynomials keep their leading terms,  *)
(* kr0 and k[0], and the centre is a corner: positions are whole pixels,   *)
(* where the bicubic sample is the pixel itself.                           *)
(***************************************************************************)
EXTENDS OpcodeCells, FiniteSets, Status

CONSTANT CellValues \* how many values a cell has, 2^32 in the code

VARIABLE o3         \* [pc, file, cells, offset, count, opcodes, status, blob, working, next, index],
                    \* file with the opcodes3 that were written, the cut at the end of them and the size of the image

Width == o3.file.width
Height == o3.file.height
Pixels == (0..Width - 1) \X (0..Height - 1)
Channels == 0..3
Low(a, b) == IF a < b THEN a ELSE b
Clamp(v, last) == IF v < 0 THEN 0 ELSE Low(v, last)
Optional(flags) == flags % 2 = 1

---------------------------------------------------------------------------
(* Parsing: the record of an opcode, or a size that does not fit. *)

opcode_id_from_raw(raw) == IF raw \in {1, 3, 4, 5, 6} THEN raw ELSE 0
Parsed(id, flags) ==
    [id |-> id, optional |-> Optional(flags), warp |-> <<>>, gain |-> 0, centre |-> <<0, 0>>, constant |-> 0,
     points |-> <<>>, rects |-> <<>>, bounds |-> <<0, 0, 0, 0>>]

\* Each is the set of opcodes read: none when the parameters have the wrong size.
parse_warp_rectilinear(op, p) ==
    IF Len(p) < 1 \/ p[1] \notin 1..4 \/ Len(p) # 1 + 12 * p[1] + 4 THEN {}
    ELSE {[op EXCEPT !.warp = [k \in 1..p[1] |-> p[2 + 12 * (k - 1)]], !.centre = <<p[2 + 12 * p[1]], p[4 + 12 * p[1]]>>]}
parse_fix_vignette_radial(op, p) == IF Len(p) # 14 THEN {} ELSE {[op EXCEPT !.gain = p[1], !.centre = <<p[11], p[13]>>]}
parse_fix_bad_pixels_constant(op, p) == IF Len(p) # 2 THEN {} ELSE {[op EXCEPT !.constant = p[1]]}
checked_list_size(points, rects) == 3 + 2 * points + 4 * rects
parse_fix_bad_pixels_list(op, p) ==
    IF Len(p) < 3 THEN {}
    ELSE IF Len(p) # checked_list_size(p[2], p[3]) THEN {}
    ELSE {[op EXCEPT !.points = [k \in 1..p[2] |-> Span(p, 3 + 2 * (k - 1), 2)],
                     !.rects = [k \in 1..p[3] |-> Span(p, 3 + 2 * p[2] + 4 * (k - 1), 4)]]}
parse_trim_bounds(op, p) == IF Len(p) # 4 THEN {} ELSE {[op EXCEPT !.bounds = p]}
parse_known_opcode(op, p) ==
    CASE op.id = 1 -> parse_warp_rectilinear(op, p)
      [] op.id = 3 -> parse_fix_vignette_radial(op, p)
      [] op.id = 4 -> parse_fix_bad_pixels_constant(op, p)
      [] op.id = 5 -> parse_fix_bad_pixels_list(op, p)
      [] op.id = 6 -> parse_trim_bounds(op, p)

Fail3(status) == o3' = [o3 EXCEPT !.pc = "done", !.status = status]

\* OpcodeList3::parse up to the loop.  An empty list is no list.
Parse3 ==
    /\ o3.pc = "parse"
    /\ IF o3.cells = <<>> THEN o3' = [o3 EXCEPT !.pc = "process"]
       ELSE o3' = [o3 EXCEPT !.pc = "loop", !.count = Cell(o3.cells, 0), !.offset = 1]

ParseOpcode ==
    /\ o3.pc = "loop" /\ Len(o3.opcodes) < o3.count
    /\ IF ~can_read(o3.cells, o3.offset, HeaderCells) THEN Fail3(Failed)
       ELSE LET size == Cell(o3.cells, o3.offset + 3)
                op == Parsed(opcode_id_from_raw(Cell(o3.cells, o3.offset)), Cell(o3.cells, o3.offset + 2))
                start == o3.offset + HeaderCells
                read == IF op.id = 0 THEN {op} ELSE parse_known_opcode(op, Span(o3.cells, start, size))
            IN  IF ~can_read(o3.cells, start, size) THEN Fail3(Failed)
                ELSE IF op.id = 0 /\ ~op.optional THEN Fail3(Unsupported)
                ELSE IF read = {} THEN Fail3(Failed)
                ELSE o3' = [o3 EXCEPT !.offset = start + size, !.opcodes = Append(@, CHOOSE r \in read : TRUE)]
ParseEnds == o3.pc = "loop" /\ Len(o3.opcodes) = o3.count /\ o3' = [o3 EXCEPT !.pc = "process"]

---------------------------------------------------------------------------
(* The parameter blob: one record per opcode, then the points and the      *)
(* rectangles of all of them.                                              *)

Joined(tables) == FlattenSeq(tables)
PointsBefore(opcodes, k) == Joined([j \in 1..k - 1 |-> opcodes[j].points])
RectsBefore(opcodes, k) == Joined([j \in 1..k - 1 |-> opcodes[j].rects])

pack_warp(op) == op.warp
pack_vignette(op) == op.gain
Dispatch(op, point_offset, rect_offset) ==
    [id |-> op.id, optional |-> op.optional, coefficients |-> pack_warp(op), gain |-> pack_vignette(op),
     centre |-> op.centre, constant |-> op.constant, bounds |-> op.bounds,
     point_offset |-> point_offset, point_count |-> Len(op.points),
     rect_offset |-> rect_offset, rect_count |-> Len(op.rects)]

\* Mutant: every table of points starts at the beginning.
pack_without_offsets(opcodes) ==
    [records |-> [k \in DOMAIN opcodes |-> Dispatch(opcodes[k], 0, Len(RectsBefore(opcodes, k)))],
     table |-> Joined(PointsBefore(opcodes, Len(opcodes) + 1) \o RectsBefore(opcodes, Len(opcodes) + 1))]
pack_opcode_list_3(opcodes) ==
    [records |-> [k \in DOMAIN opcodes |->
                    IF opcodes[k].id = 5
                    THEN Dispatch(opcodes[k], Len(PointsBefore(opcodes, k)), Len(RectsBefore(opcodes, k)))
                    ELSE Dispatch(opcodes[k], 0, 0)],
     table |-> Joined(PointsBefore(opcodes, Len(opcodes) + 1) \o RectsBefore(opcodes, Len(opcodes) + 1))]

\* How many points and rectangles the records speak of, as checked_param_blob finds it.
Furthest(ends) == CHOOSE n \in ends \cup {0} : \A e \in ends \cup {0} : e <= n
PointCount(blob) == Furthest({blob.records[k].point_offset + blob.records[k].point_count : k \in DOMAIN blob.records})
RectCount(blob) == Furthest({blob.records[k].rect_offset + blob.records[k].rect_count : k \in DOMAIN blob.records})
checked_param_blob(blob) == Len(blob.table) >= 2 * PointCount(blob) + 4 * RectCount(blob)
Point(blob, k) == Span(blob.table, 2 * k, 2)
Rect(blob, k) == Span(blob.table, 2 * PointCount(blob) + 4 * k, 4)

---------------------------------------------------------------------------
(* The corrections.  A pixel is <<column, row>>. *)

sample_pixel(src, x, y, c) == src[<<Clamp(x, Width - 1), Clamp(y, Height - 1)>>][c]

\* The square of the distance to the centre, and to the furthest corner.
Square(p, q) == (p[1] - q[1]) * (p[1] - q[1]) + (p[2] - q[2]) * (p[2] - q[2])
Centre(record) == <<record.centre[1] * (Width - 1), record.centre[2] * (Height - 1)>>
max_corner_distance(centre) == Furthest({Square(p, centre) : p \in {0, Width - 1} \X {0, Height - 1}})

\* A channel without a coefficient of its own uses the last one.
apply_warp(record, src) ==
    IF record.coefficients = <<>> \/ Width <= 1 \/ Height <= 1 THEN src
    ELSE [p \in Pixels |-> [c \in Channels |->
            LET f == record.coefficients[1 + Low(c, Len(record.coefficients) - 1)]
                centre == Centre(record)
            IN  sample_pixel(src, centre[1] + f * (p[1] - centre[1]), centre[2] + f * (p[2] - centre[2]), c)]]

apply_vignette(record, src) ==
    IF Width <= 1 \/ Height <= 1 THEN src
    ELSE LET centre == Centre(record)
             m == max_corner_distance(centre)
         IN  [p \in Pixels |-> [c \in Channels |->
                IF c < 3 THEN (src[p][c] * (m + record.gain * Square(p, centre))) \div m ELSE src[p][c]]]

Around(p) == {q \in Pixels : \/ q[2] = p[2] /\ q[1] \in {p[1] - 1, p[1] + 1}
                             \/ q[1] = p[1] /\ q[2] \in {p[2] - 1, p[2] + 1}}
patched_channel(src, p, c) ==
    LET around == SetToSeq(Around(p))
        sum == FoldSeq(LAMBDA q, total : total + src[q][c], 0, around)
    IN  IF around = <<>> THEN src[p][c] ELSE sum \div Len(around)
patch_pixel(src, p) == [c \in Channels |-> IF c < 3 THEN patched_channel(src, p, c) ELSE src[p][c]]
Patched(src, bad) == [p \in Pixels |-> IF p \in bad THEN patch_pixel(src, p) ELSE src[p]]

apply_bad_pixels_constant(record, src) ==
    Patched(src, {p \in Pixels : \E c \in 0..2 : src[p][c] = record.constant})

\* Rectangles are cut to the image, points outside it passed over.  The corners of a rectangle are
\* taken as signed: one in the upper half of the values lies before the image.
Signed(rect) == [k \in DOMAIN rect |-> IF 2 * rect[k] < CellValues THEN rect[k] ELSE rect[k] - CellValues]
InRect(p, rect) == p[2] >= rect[1] /\ p[1] >= rect[2] /\ p[2] < rect[3] /\ p[1] < rect[4]
apply_bad_pixels_list(record, blob, src) ==
    Patched(src, {p \in Pixels :
        \/ \E k \in 0..record.point_count - 1 : Point(blob, record.point_offset + k) = <<p[2], p[1]>>
        \/ \E k \in 0..record.rect_count - 1 : InRect(p, Signed(Rect(blob, record.rect_offset + k)))})

apply_trim_bounds(record, src) ==
    [p \in Pixels |-> IF InRect(p, record.bounds) THEN src[p] ELSE [c \in Channels |-> 0]]

Applied(record, blob, src) ==
    CASE record.id = 1 -> apply_warp(record, src)
      [] record.id = 3 -> apply_vignette(record, src)
      [] record.id = 4 -> apply_bad_pixels_constant(record, src)
      [] record.id = 5 -> apply_bad_pixels_list(record, blob, src)
      [] record.id = 6 -> apply_trim_bounds(record, src)

---------------------------------------------------------------------------
(* The node and its dispatcher. *)

\* Without opcodes the image is copied, otherwise the blob is submitted.
Process3 ==
    /\ o3.pc = "process"
    /\ o3' = IF o3.opcodes = <<>> THEN [o3 EXCEPT !.pc = "done", !.status = OK]
             ELSE [o3 EXCEPT !.pc = "dispatch", !.blob = <<pack_opcode_list_3(o3.opcodes)>>]

\* The dispatcher looks at the blob and reads the image into working.
Dispatch3 ==
    /\ o3.pc = "dispatch"
    /\ IF ~checked_param_blob(o3.blob[1]) THEN Fail3(BadIndex)
       ELSE o3' = [o3 EXCEPT !.pc = "apply", !.next = o3.working, !.index = 1]

\* One opcode; working and next change places unless it is passed over.
ApplyOpcode ==
    /\ o3.pc = "apply" /\ o3.index <= Len(o3.opcodes)
    /\ LET record == o3.blob[1].records[o3.index] IN
         CASE record.id = 0 /\ ~record.optional -> Fail3(Unsupported)
           [] record.id = 0 /\ record.optional -> o3' = [o3 EXCEPT !.index = @ + 1]
           [] OTHER -> o3' = [o3 EXCEPT !.working = Applied(record, o3.blob[1], o3.working), !.next = o3.working, !.index = @ + 1]

\* write_image puts out working.
Write3 == o3.pc = "apply" /\ o3.index > Len(o3.opcodes) /\ o3' = [o3 EXCEPT !.pc = "done", !.status = OK]

\* An image all of whose values differ.
Source(width, height) ==
    [p \in (0..width - 1) \X (0..height - 1) |-> [c \in Channels |-> 10 * p[1] + 40 * p[2] + c]]
Source3 == Source(Width, Height)
Start3(file, cells) ==
    [pc |-> "parse", file |-> file, cells |-> cells, offset |-> 0, count |-> 0, opcodes |-> <<>>, status |-> "",
     blob |-> <<>>, working |-> Source(file.width, file.height), next |-> Source(file.width, file.height), index |-> 0]
Next3 == Parse3 \/ ParseOpcode \/ ParseEnds \/ Process3 \/ Dispatch3 \/ ApplyOpcode \/ Write3

---------------------------------------------------------------------------
(* Properties. *)

\* What one opcode of the file does to an image, from its own parameters alone.
Flat == Width <= 1 \/ Height <= 1
Corner(p, k) == <<p[k] * (Width - 1), p[k + 2] * (Height - 1)>>
Meant(image, op) ==
    LET p == op.params IN
    CASE op.id = 1 /\ ~Flat ->
            LET o == Corner(p, 2 + 12 * p[1]) IN
            [q \in Pixels |-> [c \in Channels |->
                LET f == p[2 + 12 * Low(c, p[1] - 1)]
                IN  sample_pixel(image, o[1] + f * (q[1] - o[1]), o[2] + f * (q[2] - o[2]), c)]]
      [] op.id = 3 /\ ~Flat ->
            LET o == Corner(p, 11)
                far == Square(<<Width - 1, Height - 1>>, <<0, 0>>)
            IN  [q \in Pixels |-> [c \in Channels |->
                    IF c = 3 THEN image[q][c] ELSE (image[q][c] * (far + p[1] * Square(q, o))) \div far]]
      [] op.id = 4 -> Patched(image, {q \in Pixels : \E c \in 0..2 : image[q][c] = p[1]})
      [] op.id = 5 -> Patched(image, {q \in Pixels :
                         \/ \E k \in 1..p[2] : q = <<p[3 + 2 * k], p[2 + 2 * k]>>
                         \/ \E k \in 0..p[3] - 1 : InRect(q, Signed(Span(p, 3 + 2 * p[2] + 4 * k, 4)))})
      [] op.id = 6 -> [q \in Pixels |-> IF InRect(q, p) THEN image[q] ELSE [c \in Channels |-> 0]]
      [] OTHER -> image

\* A list that is applied is applied completely, every opcode once, in the order of the file and
\* with its own points and rectangles, whatever the packing made of them; opcodes that are not
\* known are passed over if they are optional and refuse the list if they are not.  A list that was
\* cut short anywhere is refused, not applied up to the cut (OpcodeList3::parse looks at the count
\* and at the size of every opcode; a corner of a bad rectangle from 2^31 on counts as negative; dng_opcode_list_3.cpp process, dng_opcode_list_3_dispatch.cpp).
ListAppliedInOrder ==
    /\ o3.pc = "done" /\ o3.status = OK /\ o3.file.cut = 0 =>
        /\ o3.working = FoldLeft(Meant, Source3, o3.file.opcodes3)
        /\ \A k \in DOMAIN o3.file.opcodes3 : opcode_id_from_raw(o3.file.opcodes3[k].id) = 0 => Optional(o3.file.opcodes3[k].flags)
    /\ o3.pc = "done" /\ o3.file.cut > 0 /\ o3.cells # <<>> => o3.status # OK /\ o3.working = Source3
=============================================================================
