----------------------------- MODULE PlannedRun -----------------------------
(***************************************************************************)
(* The memory plan that Pipeline::load checks against the device cap,      *)
(* composed with the buffers that calls of Pipeline::run_bound allocate.   *)
(* load plans with the dimensions the document declares for its input, the *)
(* run allocates by those of the image that the source left.               *)
(*                                                                         *)
(* A problem also has pixels, the dimensions the document declares, depth, *)
(* the bytes per pixel of the output formats, and outputs, the nodes with  *)
(* an output port.                                                         *)
(***************************************************************************)
EXTENDS ColorBuffers

CONSTANT Images     \* what a source may leave in its output handle: [pixels, bytes]

\* A manifest declares at least the bytes of its output format as out_pixel_bytes.
ASSUME RunsAssumption ==
    /\ \A q \in Problems :
        /\ q.outputs \subseteq 1..q.n /\ q.pixels \in Nat /\ q.depth \in [1..q.n -> Nat]
        /\ \A v \in q.outputs : q.pixels * q.depth[v] <= q.bytes[v]
    /\ Images \subseteq [pixels : Nat, bytes : Nat]

VARIABLES
    at,         \* nodes run so far
    read,       \* the source has returned,
    image,      \* and left this
    current,    \* the current buffer
    buffers     \* buffers that exist: 0 is source_output, v the output of node v

runVars == <<at, read, image, current, buffers>>

\* The buffer by which the source replaced source_output in its handle.
Replacement == problem.n + 1

NoImage == [pixels |-> 0, bytes |-> 0]
RunInit == Init /\ at = 0 /\ read = FALSE /\ image = NoImage /\ current = 0 /\ buffers = {}

Plan == (ColorBuffer \/ MakePlan) /\ UNCHANGED runVars

\* load refuses a graph with a cycle, whose nodes plan_graph takes in their own order.
Loads == \A e \in problem.edges : problem.start[e.from] < problem.start[e.to]

\* run_bound starts with source_output, of the dimensions the document declares.
RunSource ==
    /\ planned /\ Loads /\ buffers = {}
    /\ buffers' = {0}
    /\ UNCHANGED <<at, read, image, current, vars>>

\* The source fills source_output, or replaces it in the handle, as dng_input does.  The
\* frame of run_bound keeps source_output and the handle.
SourceReturns ==
    /\ buffers # {} /\ ~read /\ read' = TRUE
    /\ \/ image' = [pixels |-> problem.pixels, bytes |-> problem.input_bytes] /\ UNCHANGED <<current, buffers>>
       \/ image' \in Images /\ current' = Replacement /\ buffers' = buffers \cup {Replacement}
    /\ UNCHANGED <<at, vars>>

Upcoming == problem.order[at + 1]
HasOutput(v) == v \in problem.outputs

\* The lambda of the next node allocates its output while it holds its input.
StartNode ==
    /\ read /\ at < problem.n /\ HasOutput(Upcoming) /\ Upcoming \notin buffers
    /\ buffers' = buffers \cup {Upcoming}
    /\ UNCHANGED <<at, read, image, current, vars>>

\* Mutant: the old input stays referenced.
ReleasedNothing(v) == buffers
\* current = std::move(next) and the end of the lambda's handles.
Released(v) == (buffers \cap {0, Replacement}) \cup {v}

FinishNode ==
    /\ at < problem.n /\ Upcoming \in buffers
    /\ current' = Upcoming /\ buffers' = Released(Upcoming)
    /\ at' = at + 1
    /\ UNCHANGED <<read, image, vars>>

\* A node without output ports allocates nothing and leaves current alone.
RunSink ==
    /\ read /\ at < problem.n /\ ~HasOutput(Upcoming)
    /\ at' = at + 1
    /\ UNCHANGED <<read, image, current, buffers, vars>>

\* run_bound returns, after the last node or after a failure, and may be called again.
RunReturns ==
    /\ buffers # {}
    /\ at' = 0 /\ read' = FALSE /\ image' = NoImage /\ current' = 0 /\ buffers' = {}
    /\ UNCHANGED vars

Refused == planned /\ ~Loads /\ UNCHANGED <<vars, runVars>>

RunNext == Plan \/ RunSource \/ SourceReturns \/ StartNode \/ FinishNode \/ RunSink \/ RunReturns \/ Refused
RunSpec == RunInit /\ [][RunNext]_<<vars, runVars>>

---------------------------------------------------------------------------
\* A node's output has the dimensions of current, and so those of the image.
Bytes(b) ==
    IF b = 0 THEN problem.input_bytes ELSE IF b = Replacement THEN image.bytes ELSE image.pixels * problem.depth[b]
LiveBytes == SumFunction([b \in buffers |-> Bytes(b)])

\* The image is no larger than the input that the document declares.
AsDeclared == image.pixels <= problem.pixels /\ image.bytes <= problem.input_bytes

(* However long the pipeline, a run never holds more than four buffers: source_output, what
   replaced it, and the input and the output of the node at work.  If the image is no larger
   than the document declares, they have at most twice the bytes of the peak that load compared
   with the device cap; more than once, since the plan counts the input once and ends the range
   of a buffer before its last reader.  For a larger image, and a document that declares no
   dimensions plans for none, the plan bounds nothing. *)
WithinTwicePlan ==
    buffers # {} => Cardinality(buffers) <= 4 /\ (AsDeclared => LiveBytes <= 2 * peak)
=============================================================================
