------------------------------ MODULE DngIngest ------------------------------
(***************************************************************************)
(* From a DNG file to the lens corrections: the reader's metadata carry    *)
(* the opcode lists to the gain map node, which applies list 2 to the      *)
(* mosaic, and to the list 3 node, which corrects the demosaiced image.    *)
(***************************************************************************)
EXTENDS DngReader, GainMaps, OpcodeList3

ingest == <<rd, g2, o3>>

\* A blob that is not there and one that is empty are the same to both nodes.
BlobOf(key) == LET blobs == rd.buffer[1].metadata.blobs IN IF key \in DOMAIN blobs THEN blobs[key] ELSE <<>>

Init ==
    /\ InitReader
    /\ g2 = [Start2(rd.file.opcodes2, 2, <<>>) EXCEPT !.pc = "wait"]
    /\ o3 = [Start3(rd.file, <<>>) EXCEPT !.pc = "wait"]

\* The file that the list 3 of the buffer is of, the one LibRaw read if the parsed one has none.
List3 ==
    LET from == IF Own(rd.file).list3 # <<>> THEN rd.file ELSE rd.disk
    IN  [from EXCEPT !.opcodes3 = IF BlobOf("opcode_list_3") = <<>> THEN <<>> ELSE @]

\* The reader's buffer reaches the gain map node, and later the list 3 node.
StartGainMaps ==
    /\ rd.pc = "done" /\ rd.status = OK /\ g2.pc = "wait"
    /\ g2' = Start2(rd.file.opcodes2, rd.buffer[1].metadata.calibration.repeat, BlobOf("opcode_list_2"))
    /\ UNCHANGED <<rd, o3>>
StartList3 ==
    /\ g2.pc = "done" /\ g2.status = OK /\ o3.pc = "wait"
    /\ o3' = Start3([rd.file EXCEPT !.opcodes3 = List3.opcodes3, !.cut = List3.cut], BlobOf("opcode_list_3"))
    /\ UNCHANGED <<rd, g2>>

\* A failure of one ends the run.
Ended ==
    /\ \/ rd.pc = "undefined"
       \/ rd.pc = "done" /\ rd.status # OK
       \/ g2.pc = "done" /\ g2.status # OK
       \/ o3.pc = "done"
    /\ UNCHANGED ingest

Next ==
    \/ NextReader /\ UNCHANGED <<g2, o3>>
    \/ Next2 /\ UNCHANGED <<rd, o3>>
    \/ Next3 /\ UNCHANGED <<rd, g2>>
    \/ StartGainMaps \/ StartList3 \/ Ended
Spec == Init /\ [][Next]_ingest
=============================================================================
