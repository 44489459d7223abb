------------------------------ MODULE DngReader ------------------------------
(***************************************************************************)
(* Reading a DNG: the TIFF directory and the metadata it holds             *)
(* (ingest/dng_opcode/OpcodeListParser.cpp), then the pixels, from LibRaw  *)
(* or from the strip as it lies in the file, and the buffer that the       *)
(* source node hands to the pipeline (ingest/dng/DngReader.cpp).           *)
(*                                                                         *)
(* A file is its size and its directories by offset.  An entry carries its *)
(* items, numbers, whether they lie in the entry or at its offset; a       *)
(* rational is two of them.  Offsets are added modulo AddressSpace, 2^32   *)
(* in the code.  The path is opened anew for each of the three readings,   *)
(* and what lies there may be replaced between them.                       *)
(***************************************************************************)
EXTENDS Integers, Sequences, SequencesExt, FiniteSets, Status

CONSTANTS
    AddressSpace,       \* offsets are unsigned and wrap here
    Files,              \* the files to read, with what LibRaw makes of each
    Replacements        \* files that may take the place of the one being read

VARIABLE rd             \* [pc, file, disk, entries, md, status, reads, raw, buffer]

Min2(a, b) == IF a < b THEN a ELSE b

---------------------------------------------------------------------------
(* Entries. *)

type_size(type) ==
    CASE type \in {"BYTE", "ASCII", "UNDEFINED"} -> 1
      [] type = "SHORT" -> 2
      [] type = "LONG" -> 4
      [] type \in {"RATIONAL", "SRATIONAL"} -> 8
      [] OTHER -> 0

\* The items of an entry, none if they do not lie inside the file.
entry_data(file, entry) ==
    LET bytes == entry.count * type_size(entry.type) IN
    IF bytes = 0 \/ bytes > file.size THEN <<>>
    ELSE IF bytes > 4 /\ (entry.value > file.size \/ bytes > file.size - entry.value) THEN <<>>
    ELSE entry.items

\* The first entry with the tag, if there is one.
Having(entries, tag) == {k \in DOMAIN entries : entries[k].tag = tag}
has(entries, tag) == Having(entries, tag) # {}
find_entry(entries, tag) == entries[CHOOSE k \in Having(entries, tag) : \A j \in Having(entries, tag) : k <= j]

\* The count read at an offset: past every bound where no directory lies.
CountAt(file, offset) == IF offset \in DOMAIN file.directories THEN Len(file.directories[offset]) ELSE file.size

\* What reading a directory at offset comes to: nothing, its entries, or a read of the count
\* outside the file, when the sum has wrapped.  Mutant: the entries are not held to the size.
read_entries_unchecked(file, offset) ==
    LET start == (offset + 2) % AddressSpace IN
    CASE start > file.size -> "none"
      [] start <= file.size /\ offset >= file.size -> "outside"
      [] OTHER -> "entries"
read_entries(file, offset) ==
    LET start == (offset + 2) % AddressSpace IN
    CASE start > file.size -> "none"
      [] start <= file.size /\ offset >= file.size -> "outside"
      [] OTHER -> IF start + 12 * CountAt(file, offset) > file.size THEN "none" ELSE "entries"
\* A directory as it is kept, with the offset of the next one behind it.
copy_ifd_bytes(file, offset) ==
    LET bytes == 2 + 12 * CountAt(file, offset) + 4 IN
    IF (offset + 2) % AddressSpace > file.size \/ bytes > file.size \/ offset > file.size - bytes THEN <<>>
    ELSE <<offset>>
Reading(file, offset) ==
    CASE read_entries(file, offset) = "none" -> {}
      [] read_entries(file, offset) = "outside" -> {[from |-> offset, to |-> offset + 2, size |-> file.size]}
      [] OTHER -> {[from |-> offset, to |-> offset + 2 + 12 * CountAt(file, offset), size |-> file.size]}

first_u32(file, entry) ==
    LET data == entry_data(file, entry)
    IN  IF data # <<>> /\ entry.type \in {"SHORT", "LONG", "BYTE"} THEN data[1] ELSE 0
u32_values(file, entry) == IF entry.type \in {"BYTE", "SHORT", "LONG"} THEN entry_data(file, entry) ELSE <<>>
shorts(file, entry) == IF entry.type = "SHORT" THEN u32_values(file, entry) ELSE <<>>
numeric_values(file, entry) ==
    LET data == entry_data(file, entry) IN
    IF entry.type \notin {"RATIONAL", "SRATIONAL"} \/ data = <<>> THEN u32_values(file, entry)
    ELSE [k \in 1..entry.count |-> IF data[2 * k] = 0 THEN 0 ELSE data[2 * k - 1] \div data[2 * k]]
\* Up to the first 0.
ascii(file, entry) ==
    LET data == entry_data(file, entry)
        ends == {k \in DOMAIN data : \A j \in 1..k : data[j] # 0}
    IN  IF entry.type = "ASCII" THEN SubSeq(data, 1, Cardinality(ends)) ELSE <<>>
blob(file, entry) == entry_data(file, entry)
\* Values that are too few leave the rest as it was.
Over(values, known) == [k \in DOMAIN known |-> IF k <= Len(values) THEN values[k] ELSE known[k]]
All(n, value) == [k \in 1..n |-> value]
matrix3(file, entry) == Over(numeric_values(file, entry), All(9, 0))

---------------------------------------------------------------------------
(* OpcodeListParser::parse. *)

Nothing ==
    [width |-> 0, height |-> 0, bits |-> 0, strip_offset |-> 0, strip_byte_count |-> 0, orientation |-> 1,
     white |-> 0, illuminant1 |-> 0, illuminant2 |-> 0, exposure |-> 0, iso |-> 0, aperture |-> 0, focal |-> 0,
     timestamp |-> 0, make |-> <<>>, model |-> <<>>, repeat |-> 0, pattern |-> <<>>, black |-> All(4, 0),
     table |-> <<>>, color1 |-> <<>>, color2 |-> <<>>, forward1 |-> <<>>, forward2 |-> <<>>,
     neutral |-> All(3, 1), active |-> <<>>, exif |-> <<>>, xmp |-> <<>>, icc |-> <<>>,
     list1 |-> <<>>, list2 |-> <<>>, list3 |-> <<>>]

PhotometricCfa == 32803
Fail(status) == rd' = [rd EXCEPT !.pc = "done", !.status = status]
Refuse == Fail(Unsupported)

\* An entry of the first directory, read one way, or what is there without it.
first_or(tag, otherwise) == IF has(rd.entries, tag) THEN first_u32(rd.file, find_entry(rd.entries, tag)) ELSE otherwise
Read(tag, Way(_, _), otherwise) == IF has(rd.entries, tag) THEN Way(rd.file, find_entry(rd.entries, tag)) ELSE otherwise

ParseHeader ==
    /\ rd.pc = "header"
    /\ LET found == read_entries(rd.file, rd.file.ifd) IN
       IF rd.file.size < 8 \/ ~rd.file.magic \/ found = "none" THEN Fail(Failed)
       ELSE rd' = [rd EXCEPT !.pc = IF found = "outside" THEN "undefined" ELSE "shape",
                             !.entries = IF found = "outside" THEN <<>> ELSE rd.file.directories[rd.file.ifd],
                             !.reads = @ \cup Reading(rd.file, rd.file.ifd)]

ParseShape ==
    /\ rd.pc = "shape"
    /\ IF first_or("Photometric", PhotometricCfa) # PhotometricCfa \/ first_or("SamplesPerPixel", 1) # 1 THEN Refuse
       ELSE rd' = [rd EXCEPT !.pc = "fields"]

\* Capture values of a directory, over those that are known.
Value(file, entries, tag, known) ==
    LET values == numeric_values(file, find_entry(entries, tag))
    IN  IF has(entries, tag) /\ values # <<>> THEN values[1] ELSE known
apply_capture_entries(file, entries, md) ==
    [md EXCEPT !.exposure = Value(file, entries, "ExposureTime", @),
               !.iso = IF has(entries, "Iso") THEN first_u32(file, find_entry(entries, "Iso")) ELSE @,
               !.aperture = Value(file, entries, "FNumber", @),
               !.focal = Value(file, entries, "FocalLength", @)]

\* BitsPerSample and the illuminants keep 16 bits of what is read, Orientation 8.
ParseFields ==
    /\ rd.pc = "fields"
    /\ LET read ==
            [rd.md EXCEPT !.width = first_or("ImageWidth", 0), !.height = first_or("ImageLength", 0),
                          !.bits = first_or("BitsPerSample", 0) % 2^16,
                          !.strip_offset = first_or("StripOffsets", 0), !.strip_byte_count = first_or("StripByteCounts", 0),
                          !.orientation = first_or("Orientation", 1) % 2^8, !.white = first_or("WhiteLevel", 0),
                          !.illuminant1 = first_or("Illuminant1", 0) % 2^16, !.illuminant2 = first_or("Illuminant2", 0) % 2^16,
                          !.make = Read("Make", ascii, <<>>), !.model = Read("Model", ascii, <<>>)]
       IN  rd' = [rd EXCEPT !.pc = "cfa", !.md = apply_capture_entries(rd.file, rd.entries, read)]

\* 2 x 2 or 4 x 4, with a pattern of that many colours.
ParseCfa ==
    /\ rd.pc = "cfa"
    /\ LET repeat == Read("CFARepeatPatternDim", shorts, <<>>)
           pattern == Read("CFAPattern", entry_data, <<>>)
       IN  IF \/ Len(repeat) # 2
              \/ repeat[1] # repeat[2]
              \/ repeat[1] \notin {2, 4}
              \/ Len(pattern) # repeat[1] * repeat[2]
           THEN Refuse
           ELSE rd' = [rd EXCEPT !.pc = "calibration", !.md.repeat = repeat[1], !.md.pattern = pattern]

\* The active area is [top, left, bottom, right] in the file and [x, y, width, height] here.
ActiveArea(v) == IF Len(v) = 4 /\ v[3] >= v[1] /\ v[4] >= v[2] THEN <<v[2], v[1], v[4] - v[2], v[3] - v[1]>> ELSE <<>>
ParseCalibration ==
    /\ rd.pc = "calibration"
    /\ rd' = [rd EXCEPT !.pc = "exif",
            !.md.black = Over(Read("BlackLevel", numeric_values, <<>>), @),
            !.md.table = Read("LinearizationTable", shorts, <<>>),
            !.md.color1 = Read("ColorMatrix1", matrix3, <<>>), !.md.color2 = Read("ColorMatrix2", matrix3, <<>>),
            !.md.forward1 = Read("ForwardMatrix1", matrix3, <<>>), !.md.forward2 = Read("ForwardMatrix2", matrix3, <<>>),
            !.md.neutral = Over(Read("AsShotNeutral", numeric_values, <<>>), @),
            !.md.active = ActiveArea(Read("ActiveArea", u32_values, <<>>))]

\* The Exif directory is kept as it is, and its capture values go over those of the first one.
ParseExif ==
    /\ rd.pc = "exif"
    /\ IF ~has(rd.entries, "ExifIFD") THEN rd' = [rd EXCEPT !.pc = "blobs"]
       ELSE LET offset == first_or("ExifIFD", 0)
                found == read_entries(rd.file, offset)
            IN  rd' = [rd EXCEPT !.pc = IF found = "outside" THEN "undefined" ELSE "blobs",
                                 !.reads = @ \cup Reading(rd.file, offset),
                                 !.md = IF found # "entries" THEN [@ EXCEPT !.exif = copy_ifd_bytes(rd.file, offset)]
                                        ELSE apply_capture_entries(rd.file, rd.file.directories[offset],
                                                [@ EXCEPT !.exif = copy_ifd_bytes(rd.file, offset)])]

ParseBlobs ==
    /\ rd.pc = "blobs"
    /\ IF \/ rd.md.width = 0 \/ rd.md.height = 0 \/ rd.md.bits \notin 1..16 \/ rd.md.strip_byte_count = 0
          \/ first_or("Compression", 1) # 1 /\ rd.md.strip_offset = 0
       THEN Fail(Failed)
       ELSE rd' = [rd EXCEPT !.pc = "libraw",
                !.md.xmp = Read("XMP", blob, <<>>), !.md.icc = Read("ICC", blob, <<>>),
                !.md.list1 = Read("OpcodeList1", blob, <<>>), !.md.list2 = Read("OpcodeList2", blob, <<>>),
                !.md.list3 = Read("OpcodeList3", blob, <<>>)]

---------------------------------------------------------------------------
(* DngReader::read: the pixels and the buffer. *)

\* Values of LibRaw where the file's own directory gave none.
Or(known, none, other) == IF known = none THEN other ELSE known
copy_opcode_blob(libraw, k) == libraw.lists[k]
apply_libraw_metadata(libraw, md) ==
    [md EXCEPT !.make = Or(@, <<>>, libraw.make), !.model = Or(@, <<>>, libraw.model), !.iso = Or(@, 0, libraw.iso),
               !.exposure = Or(@, 0, libraw.shutter), !.timestamp = Or(@, 0, libraw.timestamp),
               !.aperture = Or(@, 0, libraw.aperture), !.focal = Or(@, 0, libraw.focal_len),
               !.white = Or(@, 0, libraw.maximum), !.black = Or(@, All(4, 0), All(4, libraw.black)),
               !.xmp = Or(@, <<>>, libraw.xmp), !.icc = Or(@, <<>>, libraw.icc),
               !.list1 = Or(@, <<>>, copy_opcode_blob(libraw, 1)), !.list2 = Or(@, <<>>, copy_opcode_blob(libraw, 2)),
               !.list3 = Or(@, <<>>, copy_opcode_blob(libraw, 3))]

\* Samples, each with the picture it is of: the libraw image row by row as 1, 2, ..., those of the
\* strip as -1, -2, ..., and what nothing was read into.
Expected(md) == md.width * md.height
LibrawSample(file, x, y) == <<file.picture, y * file.libraw.raw_width + x + 1>>
StripSample(file, k) == <<file.picture, -k>>
Blank == <<>>

\* LibRaw may give up at any point; its values go into a copy of the metadata.
\* Mutant: into the metadata themselves.
decode_with_libraw_shared ==
    /\ rd.pc = "libraw"
    /\ LET libraw == rd.disk.libraw
           md == apply_libraw_metadata(libraw, rd.md)
       IN  IF ~libraw.opens \/ ~libraw.unpacks THEN rd' = [rd EXCEPT !.pc = "strip"]
           ELSE IF libraw.raw_width < md.width \/ libraw.raw_height < md.height THEN rd' = [rd EXCEPT !.pc = "strip", !.md = md]
           ELSE rd' = [rd EXCEPT !.pc = "deliver", !.md = md,
                        !.raw = [k \in 1..Expected(md) |-> LibrawSample(rd.disk, (k - 1) % md.width, (k - 1) \div md.width)]]
decode_with_libraw ==
    /\ rd.pc = "libraw"
    /\ LET libraw == rd.disk.libraw
           md == apply_libraw_metadata(libraw, rd.md)
       IN  IF ~libraw.opens \/ ~libraw.unpacks \/ libraw.raw_width < md.width \/ libraw.raw_height < md.height
           THEN rd' = [rd EXCEPT !.pc = "strip"]
           ELSE rd' = [rd EXCEPT !.pc = "deliver", !.md = md,
                        !.raw = [k \in 1..Expected(md) |-> LibrawSample(rd.disk, (k - 1) % md.width, (k - 1) \div md.width)]]

Replace ==
    /\ rd.pc \in {"libraw", "strip"} /\ rd.disk = rd.file
    /\ \E other \in Replacements \ {rd.file} : rd' = [rd EXCEPT !.disk = other]

\* Two bytes a sample, whatever the compression and BitsPerSample; a short strip is filled with 0.
decode_single_strip ==
    /\ rd.pc = "strip"
    /\ LET md == rd.md
           bytes == Min2(2 * Expected(md), md.strip_byte_count)
       IN  IF md.strip_offset > rd.disk.size \/ md.strip_byte_count > rd.disk.size - md.strip_offset THEN Fail(Failed)
           ELSE rd' = [rd EXCEPT !.pc = "deliver",
                                 !.reads = @ \cup {[from |-> md.strip_offset, to |-> md.strip_offset + bytes, size |-> rd.disk.size]},
                                 !.raw = [k \in 1..Expected(md) |-> IF 2 * k <= bytes THEN StripSample(rd.disk, k) ELSE Blank]]

\* Blobs that are empty are left out.
make_metadata(md) ==
    [calibration |-> [repeat |-> md.repeat, pattern |-> md.pattern, black |-> md.black, white |-> md.white,
                      table |-> md.table, matrices |-> <<md.color1, md.color2, md.forward1, md.forward2>>,
                      illuminants |-> <<md.illuminant1, md.illuminant2>>],
     capture |-> [make |-> md.make, model |-> md.model, iso |-> md.iso, exposure |-> md.exposure,
                  timestamp |-> md.timestamp, aperture |-> md.aperture, focal |-> md.focal,
                  orientation |-> md.orientation, neutral |-> md.neutral],
     active_area |-> md.active, cs_role |-> "raw_camera", applied_steps |-> <<>>,
     blobs |-> LET all == [exif_raw |-> md.exif, xmp_raw |-> md.xmp, icc_raw |-> md.icc, opcode_list_1 |-> md.list1,
                           opcode_list_2 |-> md.list2, opcode_list_3 |-> md.list3]
               IN  [key \in {k \in DOMAIN all : all[k] # <<>>} |-> all[key]]]
Deliver ==
    /\ rd.pc = "deliver"
    /\ rd' = [rd EXCEPT !.pc = "done", !.status = OK,
                        !.buffer = <<[dims |-> <<rd.md.width, rd.md.height>>, samples |-> rd.raw, metadata |-> make_metadata(rd.md)]>>]

\* What the caller sees: a file that is not supported has failed.
ReadStatus == IF rd.status = Unsupported THEN Failed ELSE rd.status

InitReader ==
    \E file \in Files :
        rd = [pc |-> "header", file |-> file, disk |-> file, entries |-> <<>>, md |-> Nothing, status |-> "", reads |-> {},
              raw |-> <<>>, buffer |-> <<>>]
NextReader ==
    \/ ParseHeader \/ ParseShape \/ ParseFields \/ ParseCfa \/ ParseCalibration \/ ParseExif \/ ParseBlobs
    \/ Replace \/ decode_with_libraw \/ decode_single_strip \/ Deliver

---------------------------------------------------------------------------
(* Properties. *)

\* Only bytes of the file are read, for directories and for the strip, and of the file as it is
\* when they are read: a strip that the old file had may be missing from the new one.  A directory said to begin
\* at one of the last two addresses is left out: the sum wraps before it is compared
\* (OpcodeListParser.cpp:137, read_entries and copy_ifd_bytes).
ReadsStayInside == \A r \in rd.reads : r.from + 2 < AddressSpace => r.to <= r.size

\* The metadata of a buffer belong to its pixels.  The samples are of one file, each at its row and
\* column although LibRaw's rows may be longer.  What the directory does not say is LibRaw's of that
\* same file if the samples are LibRaw's, and is missing if they are the strip's, also when LibRaw
\* had opened the file, or another one that lay there, before.  Size, calibration and lists are
\* those of the file that was parsed.  It is the pixels' file too, except when the file is replaced
\* after it was parsed: then the buffer has the pixels of one file and the calibration of another,
\* which the invariant accepts (DngReader.cpp decode_with_libraw, decode_single_strip, read).
Own(file) ==
    LET entries == file.directories[file.ifd]
        values(tag, Way(_, _)) == IF has(entries, tag) THEN Way(file, find_entry(entries, tag)) ELSE <<>>
    IN  [dims |-> <<values("ImageWidth", u32_values)[1], values("ImageLength", u32_values)[1]>>,
         iso |-> apply_capture_entries(file, entries, Nothing).iso,
         black |-> Over(values("BlackLevel", numeric_values), All(4, 0)),
         list3 |-> values("OpcodeList3", blob)]
BlobIs(b, cells) == IF cells = <<>> THEN "opcode_list_3" \notin DOMAIN b.metadata.blobs ELSE b.metadata.blobs.opcode_list_3 = cells
MetadataBelongToPixels ==
    \A b \in Range(rd.buffer) : \E of \in {rd.file, rd.disk}, with_libraw \in BOOLEAN :
        LET width == b.dims[1]
            at(x, y) == b.samples[y * width + x + 1]
            capture == b.metadata.capture
            first == Own(rd.file)
            filled(none, value, other) == IF with_libraw THEN Or(value, none, other) ELSE value
        IN  /\ \A x \in 0..width - 1, y \in 0..b.dims[2] - 1 :
                    IF with_libraw THEN at(x, y) = LibrawSample(of, x, y)
                    ELSE at(x, y) \in {Blank, StripSample(of, y * width + x + 1)}
            /\ with_libraw => of.libraw.opens /\ of.libraw.unpacks
            /\ capture.timestamp = filled(0, 0, of.libraw.timestamp)
            /\ ~has(rd.entries, "ExifIFD") => capture.iso = filled(0, first.iso, of.libraw.iso)
            /\ BlobIs(b, filled(<<>>, first.list3, of.libraw.lists[3]))
            /\ b.metadata.calibration.black = filled(All(4, 0), first.black, All(4, of.libraw.black))
            /\ b.dims = first.dims
=============================================================================
