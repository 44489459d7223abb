------------------------------ MODULE MCIngest ------------------------------
(***************************************************************************)
(* Files that differ from an ordinary one in one part at a time: the list  *)
(* 3 opcodes, the list 2 opcodes, or the directory and what LibRaw does.   *)
(***************************************************************************)
EXTENDS DngIngest

---------------------------------------------------------------------------
(* Opcodes. *)

Warp(k, centre) == Opcode(1, 0, <<Len(k)>> \o FlattenSeq([j \in DOMAIN k |-> Doubles(<<k[j], 0, 0, 0, 0, 0>>)]) \o Doubles(centre))
Vignette == Opcode(3, 0, Doubles(<<2, 0, 0, 0, 0, 0, 1>>))
Constant(v) == Opcode(4, 1, <<v, 0>>)
Bad(points, rects) == Opcode(5, 0, <<0, Len(points), Len(rects)>> \o FlattenSeq(points) \o FlattenSeq(rects))
Trim == Opcode(6, 0, <<0, 0, 2, 2>>)
UnknownOptional == Opcode(7, 1, <<5, 5>>)
UnknownMandatory == Opcode(2, 0, <<5>>)
ShortTrim == Opcode(6, 1, <<0, 0, 2>>)
MCOpcodes == {Warp(<<0, 2>>, <<1, 0>>), Vignette, Constant(11), Bad(<<<<0, 1>>, <<9, 9>>>>, <<>>),
              Bad(<<<<1, 0>>>>, <<<<0, 2, 9, 9>>>>), Trim, UnknownOptional, UnknownMandatory}

\* Rectangles with a bottom, or a top, that is negative once it is signed: no pixel, and all rows up to the second.
MCHuge == {Bad(<<>>, <<<<0, 0, 600, 9>>>>), Bad(<<>>, <<<<600, 0, 2, 9>>>>)}

\* A grid of 2 x 3 gains from base on, one point every 2 pixels.
Map(plane, planes, base) ==
    Opcode(GainMapId, 0, <<0, 0, 4, 4, plane, planes, 1, 1, 2, 3>> \o Doubles(<<2, 2, 1, 0>>) \o <<1>>
                         \o [k \in 1..6 |-> base + k * k])
Other2 == Opcode(4, 1, <<0, 0>>)
NoPitch == Opcode(GainMapId, 0, [Map(0, 1, 1).params EXCEPT ![7] = 0])
ShortMap == Opcode(GainMapId, 0, SubSeq(Map(0, 1, 1).params, 1, 24))
Four == <<Map(2, 4, 200), Map(0, 4, 0), Map(3, 4, 300), Map(1, 4, 100)>>
MCLists2 == {<<>>, <<Map(0, 1, 5)>>, <<Other2>>, <<Other2, Map(0, 1, 5)>>, Four, <<Other2>> \o Four, SubSeq(Four, 1, 3),
             [Four EXCEPT ![4] = Map(0, 4, 50)], <<Map(0, 4, 1)>>, <<NoPitch>>, <<ShortMap>>, <<Map(0, 1, 5), Map(0, 1, 6)>>}

---------------------------------------------------------------------------
(* Files. *)

E(tag, type, items) ==
    [tag |-> tag, type |-> type, count |-> IF type \in {"RATIONAL", "SRATIONAL"} THEN Len(items) \div 2 ELSE Len(items),
     value |-> 400, items |-> items]
CellsOf(tag, cells) == [tag |-> tag, type |-> "UNDEFINED", count |-> 4 * Len(cells), value |-> 400, items |-> cells]
Cfa(n) == <<E("CFARepeatPatternDim", "SHORT", <<n, n>>), E("CFAPattern", "BYTE", [k \in 1..n * n |-> k % 3])>>
Fields(w, h) ==
    <<E("ImageWidth", "SHORT", <<w>>), E("ImageLength", "LONG", <<h>>), E("BitsPerSample", "SHORT", <<16>>),
      E("StripOffsets", "LONG", <<300>>), E("StripByteCounts", "LONG", <<2 * w * h>>), E("Iso", "SHORT", <<100>>),
      E("BlackLevel", "RATIONAL", <<8, 2, 6, 0>>), E("ActiveArea", "SHORT", <<0, 0, h, w>>)>>
Libraw == [opens |-> TRUE, unpacks |-> TRUE, raw_width |-> 4, raw_height |-> 3, make |-> <<7>>, model |-> <<8>>, iso |-> 800,
           shutter |-> 3, timestamp |-> 9, aperture |-> 2, focal_len |-> 5, maximum |-> 1023, black |-> 64,
           xmp |-> <<>>, icc |-> <<1>>, lists |-> <<<<>>, <<>>, <<>>>>]

File(list2, list3, cut, w, h, repeat) ==
    LET all == Encode(list3)
        lists == <<CellsOf("OpcodeList2", Encode(list2)), CellsOf("OpcodeList3", SubSeq(all, 1, Len(all) - cut))>>
    IN  [size |-> 4000, magic |-> TRUE, ifd |-> 8, opcodes2 |-> list2, opcodes3 |-> list3, cut |-> cut, width |-> w, height |-> h, picture |-> 1,
         directories |-> [o \in {8} |-> Fields(w, h) \o Cfa(repeat) \o lists], libraw |-> Libraw]
Plain == File(<<>>, <<>>, 0, 3, 2, 2)
With(entries) == [Plain EXCEPT !.directories[8] = entries \o @]
Exif(offset, entries) ==
    [Plain EXCEPT !.directories = (8 :> (<<E("ExifIFD", "LONG", <<offset>>)>> \o Plain.directories[8])) @@ (offset :> entries)]
ExifEntries == <<E("Iso", "SHORT", <<200>>), E("ExposureTime", "RATIONAL", <<6, 2>>), E("FNumber", "ASCII", <<1>>)>>

MCFiles ==
    {File(<<>>, l, 0, 3, 2, 2) : l \in SeqOf(MCOpcodes, 3)}
        \cup {File(<<>>, l, 0, 1, 3, 2) : l \in SeqOf(MCOpcodes, 1)}
        \cup {File(<<>>, <<o, h>>, 0, 3, 2, 2) : o \in MCOpcodes, h \in MCHuge}
        \cup {File(<<>>, l, c, 3, 2, 2) : l \in SeqOf(MCOpcodes, 2) \ {<<>>}, c \in 1..7}
        \cup {File(<<>>, <<ShortTrim>>, 0, 3, 2, 2)}
        \cup {File(l, <<Trim>>, 0, 3, 2, r) : l \in MCLists2, r \in {2, 4}}
MCDirectories ==
    {[Plain EXCEPT !.ifd = o] : o \in {3999, 3998, AddressSpace - 1, AddressSpace - 2}}
        \cup {[Plain EXCEPT !.magic = FALSE], [Plain EXCEPT !.size = 140], [Plain EXCEPT !.size = 7], [Plain EXCEPT !.size = 310]}
        \cup {With(<<e>>) : e \in {E("Photometric", "SHORT", <<2>>), E("SamplesPerPixel", "SHORT", <<3>>),
                 E("CFARepeatPatternDim", "LONG", <<2, 2>>), E("CFARepeatPatternDim", "SHORT", <<2, 4>>),
                 E("CFARepeatPatternDim", "SHORT", <<4, 4>>), E("BitsPerSample", "LONG", <<65552>>), E("BitsPerSample", "LONG", <<17>>),
                 E("StripByteCounts", "LONG", <<7>>), E("StripByteCounts", "LONG", <<3701>>), E("Compression", "SHORT", <<7>>),
                 E("ActiveArea", "SHORT", <<2, 0, 1, 3>>), E("Make", "ASCII", <<65, 0, 66>>), E("Iso", "RATIONAL", <<4, 2>>)}}
        \cup {With(<<E("Compression", "SHORT", <<7>>), E("StripOffsets", "LONG", <<0>>)>>)}
        \cup {Exif(o, ExifEntries) : o \in {600, 3962, 3960, 3956, 3999, AddressSpace - 1}}
MCLibraw ==
    {[Plain EXCEPT !.libraw = l, !.directories[8] = d, !.opcodes3 = <<Trim>>] :
        l \in {[Libraw EXCEPT !.opens = FALSE], [Libraw EXCEPT !.unpacks = FALSE], [Libraw EXCEPT !.raw_width = 2],
               [Libraw EXCEPT !.raw_height = 1], [Libraw EXCEPT !.raw_width = 3, !.lists[3] = Encode(<<Trim>>)],
               [Libraw EXCEPT !.raw_width = 2, !.lists[3] = Encode(<<Trim>>)]},
        d \in {Fields(3, 2) \o Cfa(2), <<E("Iso", "SHORT", <<0>>)>> \o Fields(3, 2) \o Cfa(2),
               <<E("StripByteCounts", "LONG", <<7>>)>> \o Fields(3, 2) \o Cfa(2)}}
MCAllFiles == MCFiles \cup MCDirectories \cup MCLibraw
\* Another picture, whose values are all different, with LibRaw able to read it or not.
Another ==
    [Plain EXCEPT !.picture = 2, !.opcodes3 = <<Constant(11)>>,
                  !.directories[8] = <<E("BlackLevel", "RATIONAL", <<9, 1>>)>> \o Fields(4, 3) \o Cfa(2),
                  !.libraw = [Libraw EXCEPT !.iso = 1600, !.timestamp = 19, !.black = 128, !.lists[3] = Encode(<<Constant(11)>>)]]
MCReplacements == {[Another EXCEPT !.size = 305, !.libraw.opens = FALSE], [Another EXCEPT !.libraw.raw_width = 2], Another}
MCAddressSpace == 2^20
=============================================================================
