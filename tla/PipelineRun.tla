---------------------------- MODULE PipelineRun ----------------------------
(***************************************************************************)
(* One run of a loaded Pipeline (runtime/Pipeline.cpp): run_bound, which   *)
(* starts from a source plugin, and run_file, which starts from a file.    *)
(* The nodes form a chain, so by Scheduler!ChainIsSequential their lambdas *)
(* run one after the other and stop at the first failure; the model runs   *)
(* them in one sequence.  Plugins answer every call with any status.       *)
(*                                                                         *)
(* Node 0 is the source.  A buffer is named after the node that writes it; *)
(* pixels[b] and metadata[b] are the nodes whose work b carries.           *)
(***************************************************************************)
EXTENDS Naturals, Sequences, FiniteSetsExt, Status

CONSTANTS
    Runs,       \* [mode, unbound, inputs, opens, nodes]
    Errors      \* statuses other than CPIPE_OK

ASSUME ErrorsAssumption == {Failed, Unsupported} \subseteq Errors /\ OK \notin Errors
ASSUME RunsAssumption ==
    \A r \in Runs : r.mode \in {"bound", "file"} /\ r.nodes \in Seq([has_output : BOOLEAN, layout_ok : BOOLEAN])

Status == Errors \cup {OK}

VARIABLES
    r,          \* the run
    pc, i,      \* where it is: the step, of the node
    current,
    next,       \* the output of the node: a set of at most one buffer
    pixels, metadata,
    calls,      \* the main_entry calls made: [node, action, status]
    ret

vars == <<r, pc, i, current, next, pixels, metadata, calls, ret>>

None == "none"
N == Len(r.nodes)

Init ==
    /\ r \in Runs
    /\ pc = "entry" /\ i = 0 /\ current = 0 /\ next = {}
    /\ pixels = [b \in 0..N |-> <<>>] /\ metadata = [b \in 0..N |-> <<>>]
    /\ calls = <<>> /\ ret = None

Return(s) == pc' = "returned" /\ ret' = s
Log(action, s) == calls' = Append(calls, [node |-> i, action |-> action, status |-> s])

\* The checks before anything runs; run_file reads the input into buffer 0.
EnterBound ==
    /\ r.mode = "bound" /\ UNCHANGED i
    /\ \/ r.unbound > 0 /\ Return(Failed)
       \/ r.unbound = 0 /\ r.inputs # 1 /\ Return(Unsupported)
       \/ r.unbound = 0 /\ r.inputs = 1 /\ pc' = "create" /\ UNCHANGED ret
EnterFile ==
    /\ r.mode = "file"
    /\ \/ ~r.opens /\ Return(Failed) /\ UNCHANGED i
       \/ r.opens /\ pc' = "next" /\ i' = 1 /\ UNCHANGED ret
Enter == pc = "entry" /\ (EnterBound \/ EnterFile) /\ UNCHANGED <<r, current, next, pixels, metadata, calls>>

\* run_file gives every node an output, run_bound those with an output port.
Writes(v) == v = 0 \/ r.mode = "file" \/ r.nodes[v].has_output
HasOutput == Writes(i)

Create(s) ==
    /\ pc = "create"
    /\ Log("create", s)
    /\ IF s = OK THEN pc' = "buffers" /\ UNCHANGED ret ELSE Return(s)
    /\ UNCHANGED <<r, i, current, next, pixels, metadata>>

\* Allocate the output; in run_bound its layout may be unknown.
Buffers ==
    /\ pc = "buffers"
    /\ IF i > 0 /\ r.mode = "bound" /\ HasOutput /\ ~r.nodes[i].layout_ok
         THEN Return(Failed) /\ UNCHANGED next
         ELSE pc' = "process" /\ next' = (IF HasOutput THEN {i} ELSE {}) /\ UNCHANGED ret
    /\ UNCHANGED <<r, i, current, pixels, metadata, calls>>

\* Mutant: builders start from the metadata of the pipeline's input.
InheritedFromSource == metadata[0]
\* The builder starts from the metadata of current.
Inherited == IF i = 0 THEN <<>> ELSE metadata[current]
Input == IF i = 0 THEN <<>> ELSE pixels[current]

\* PROCESS, after which the host freezes the builder whatever the status.
Process(s) ==
    /\ pc = "process"
    /\ Log("process", s)
    /\ pixels' = [b \in 0..N |-> IF b \notin next THEN pixels[b]
                                  ELSE IF s = OK THEN Append(Input, i) ELSE <<>>]
    /\ metadata' = [b \in 0..N |-> IF b \in next THEN Append(Inherited, i) ELSE metadata[b]]
    /\ pc' = "destroy"
    /\ UNCHANGED <<r, i, current, next, ret>>

ProcessStatus == calls[Len(calls)].status

\* The output, if any, becomes the input of the next node.
Advanced == IF next = {} THEN current ELSE i

\* Mutants: the output is taken over whatever the process status; a failed
\* process returns before DESTROY.
DestroyEarly(s) ==
    /\ pc = "destroy" /\ Log("destroy", s) /\ current' = Advanced
    /\ IF s # OK THEN Return(s) /\ UNCHANGED i ELSE pc' = "next" /\ i' = i + 1 /\ UNCHANGED ret
    /\ UNCHANGED <<r, next, pixels, metadata>>
DestroyIfProcessed(s) ==
    /\ pc = "destroy"
    /\ IF ProcessStatus # OK THEN Return(ProcessStatus) /\ UNCHANGED <<i, current, calls>>
       ELSE /\ Log("destroy", s)
            /\ IF s # OK THEN Return(s) /\ UNCHANGED <<i, current>>
               ELSE pc' = "next" /\ i' = i + 1 /\ current' = Advanced /\ UNCHANGED ret
    /\ UNCHANGED <<r, next, pixels, metadata>>
\* DESTROY; then the process status and the destroy status are tested, and only a
\* node that passes both hands its output on.
Destroy(s) ==
    /\ pc = "destroy"
    /\ Log("destroy", s)
    /\ IF ProcessStatus # OK THEN Return(ProcessStatus) /\ UNCHANGED <<i, current>>
       ELSE IF s # OK THEN Return(s) /\ UNCHANGED <<i, current>>
       ELSE /\ pc' = "next" /\ i' = i + 1
            /\ current' = Advanced
            /\ UNCHANGED ret
    /\ UNCHANGED <<r, next, pixels, metadata>>

\* run_bound: the source succeeded and left its output handle without a buffer.
NoSourceBuffer ==
    /\ pc = "next" /\ i = 1 /\ r.mode = "bound"
    /\ Return(Failed)
    /\ UNCHANGED <<r, i, current, next, pixels, metadata, calls>>

NextNode ==
    /\ pc = "next" /\ i <= N
    /\ pc' = "create" /\ next' = {}
    /\ UNCHANGED <<r, i, current, pixels, metadata, calls, ret>>

\* run_file writes the last buffer to the output file, which may fail.
Finish(written) ==
    /\ pc = "next" /\ i > N
    /\ Return(IF r.mode = "file" /\ ~written THEN Failed ELSE OK)
    /\ UNCHANGED <<r, i, current, next, pixels, metadata, calls>>

Terminated == pc = "returned" /\ UNCHANGED vars

Next ==
    \/ Enter \/ Buffers \/ NoSourceBuffer \/ NextNode
    \/ \E s \in Status : Create(s) \/ Process(s) \/ Destroy(s)
    \/ \E written \in BOOLEAN : Finish(written)
    \/ Terminated
Spec == Init /\ [][Next]_vars

---------------------------------------------------------------------------
First == IF r.mode = "file" THEN 1 ELSE 0
Called(v, action) == {j \in DOMAIN calls : calls[j].node = v /\ calls[j].action = action}
Ascending(s) == \A j, k \in DOMAIN s : j < k => s[j] < s[k]

(* A run that returns CPIPE_OK has processed every node, and its last buffer
   carries the work of all nodes with outputs, in order. *)
ResultIsComposition ==
    ret = OK =>
        /\ \A v \in First..N : Cardinality(Called(v, "process")) = 1
        /\ Range(pixels[current]) = {v \in First..N : Writes(v)} /\ Ascending(pixels[current])

(* The metadata of the buffer that is handed on records exactly the nodes whose
   work its pixels carry: a failed node's builder, which is frozen as well, never
   gets downstream. *)
MetadataFollowsPixels == i > 0 => metadata[current] = pixels[current]

Failures == {j \in DOMAIN calls : calls[j].status # OK}

(* run() returns the status of the first call that failed, and after it calls
   nothing but the DESTROY of that node. *)
FirstFailureReturned ==
    /\ ret # None /\ Failures # {} => ret = calls[Min(Failures)].status
    /\ \A j \in Failures : \A l \in DOMAIN calls :
          l > j => l = j + 1 /\ calls[l].node = calls[j].node /\ calls[l].action = "destroy"

Instances == {v \in 0..N : \E j \in Called(v, "create") : calls[j].status = OK}

(* When run() returns, every instance it created is destroyed, whatever failed;
   only a node without a known output layout is left behind. *)
InstancesReleased ==
    ret # None => \A v \in Instances :
        Called(v, "destroy") # {} \/ (v > 0 /\ r.mode = "bound" /\ ~r.nodes[v].layout_ok)
=============================================================================
