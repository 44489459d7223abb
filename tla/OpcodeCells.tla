----------------------------- MODULE OpcodeCells -----------------------------
(***************************************************************************)
(* The bytes of a DNG opcode list, in cells of four bytes: a 32-bit number *)
(* is one cell, a double two (its value in the first, 0 in the second).    *)
(***************************************************************************)
EXTENDS Integers, Sequences, SequencesExt

\* Reader of OpcodeList2.cpp and OpcodeList3.cpp, offset counted from 0.
can_read(cells, offset, n) == offset <= Len(cells) /\ n <= Len(cells) - offset
Cell(cells, offset) == cells[offset + 1]
Span(cells, offset, n) == SubSeq(cells, offset + 1, offset + n)

HeaderCells == 4

\* How a camera writes a list: the count, then [id, version, flags, size] and the parameters.
Opcode(id, flags, params) == [id |-> id, flags |-> flags, params |-> params]
Encode(opcodes) ==
    IF opcodes = <<>> THEN <<>>
    ELSE <<Len(opcodes)>> \o
         FlattenSeq([k \in DOMAIN opcodes |-> <<opcodes[k].id, 0, opcodes[k].flags, Len(opcodes[k].params)>> \o opcodes[k].params])
Doubles(values) == FlattenSeq([k \in DOMAIN values |-> <<values[k], 0>>])
=============================================================================
