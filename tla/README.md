# A TLA+ model of cpipe

cpipe is a computational-photography pipeline: it reads a raw image, loads a JSON
graph of image nodes, plans precision and memory, runs the nodes on a TaskFlow
pool, transforms colours on a Vulkan device, and serves a web editor that edits
the graph live. This directory holds TLA+ modules of those parts, TLC
configurations that check them on small instances, and TLAPS proofs of the
properties that matter most. `PROJECT.json` lists runs, findings, hazards and
theorems, and maps every definition to the lines it models.

    tlc -config MCScheduler.cfg MCScheduler      # one run
    tlapm SchedulerProofs.tla                    # the proofs of one module

## The system

| Part | State | Operations | Who it interacts with |
|---|---|---|---|
| Scheduler | TaskFlow pool, first status, process-wide Halide executor pointer | `run`, nested `do_par_for`, constructor and destructor | Pipeline's node lambdas, Halide loops |
| Pipeline load | nodes, inputs, sources, planned peak | `load`, `set_source`, device cap | Registry, PrecisionPlanner, MemoryPlanner |
| PrecisionPlanner | a rewritten graph | `validate`, `auto_insert` | load |
| MemoryPlanner | live ranges, slots, peak | `plan_graph` | load |
| Pipeline run | current buffer, metadata, instances | `run_bound`, `run_file`, `run_to_file` | Scheduler, plugins, HostContext |
| Built-in nodes | nothing between calls | `process` | host suites, Halide kernels |
| Buffers, metadata, host suites | locks, frozen metadata, calibration blocks | suite functions | plugins |
| DNG ingest | a file, its directories, opcode lists | `DngReader::read`, list parsers, lens nodes | LibRaw, source node |
| Vulkan plane, OCIO processor | images, layouts, command buffers, timelines, pipeline cache | create, lock, transition, `compute_pass` | display nodes |
| EditorServer | three threads, loop and socket pointers, debounce flags | `start`, `stop`, handlers, debounce loop | CLI, uWebSockets, clients |
| Editor session | active pipeline, runs, connections, subscriptions | REST and WebSocket handlers | web editor |
| Web editor | device, pipeline and schema stores | connect, update, save | editor session |
| Command line | layered configuration | `run`, `serve` | Pipeline, EditorServer |

What makes it hard: nodes that block a pool thread on work of the same pool; a
global executor pointer shared by overlapping runs; a loader that rewrites its
graph in phases, each of which may fail; buffers that share memory slots, and
metadata that share blocks; some twenty nodes that each lock, flush and edit
metadata by hand, with an early return between any two calls; a device that
executes later than the host asks; a file that is opened three times; an I/O
thread that is served, started, stopped and joined by others; a debounce thread
whose deadline moves while it waits; a rate cap that drops frames; ids and
subscriptions used by several clients.

## Modules

| Module | Models | Notes |
|---|---|---|
| `Status` | the statuses of the plugin ABI | |
| `SchedulerContract` | what `Scheduler::run` promises | abstract: Begin, End, Return |
| `Scheduler` | `Scheduler::run` and the Halide loops of its nodes | threads, tasks, rows; refines the contract |
| `HalideExecutor` | `g_halide_executor` under overlapping Schedulers | |
| `Kahn` | Kahn's algorithm, as an operator | shared by load and the memory planner |
| `MemoryPlanner`, `ColorBuffers` | live ranges; first-fit colouring and peak | |
| `PrecisionPlanner`, `PipelineLoad` | converters; all phases of `load`, `set_source` | |
| `PipelineRun` | one run: instances, buffers, metadata, statuses | plugins answer anything |
| `PlannedRun` | the plan composed with the buffers of a run | EXTENDS `ColorBuffers` |
| `MetadataValues` | what the metadata suites promise a plugin | abstract: values |
| `MetadataStore` | builder, freezing, shared calibration blocks, two places for blobs | refines `MetadataValues` |
| `Manifests` | the manifests of the built-in nodes, and what load makes of a chain of them | |
| `NodePrograms` | the `process` of every built-in node, as the calls it makes | |
| `NodeChain` | a run of those programs on the host, call by call | EXTENDS `PipelineRun`, `NodePrograms`, `MetadataStore` |
| `DngReader` | TIFF walk, LibRaw, strip decoder, the buffer's metadata | LibRaw is external |
| `OpcodeCells`, `GainMaps`, `OpcodeList3` | opcode lists: parsers, lens nodes, packing, dispatch | |
| `DngIngest` | from the file to the corrected pixels | EXTENDS the three above |
| `WhiteBalance` | Brent's search for the colour temperature, the choice of matrices | |
| `VulkanOcio` | planes, images, transfers, the OCIO pass, devices | Vulkan and OCIO are external |
| `EditorServer` | caller, I/O thread, debounce thread | uWebSockets is external |
| `EditorSession` | the handlers' effect on the session | one step per handler |
| `EditorClient` | the stores of the web pages over their sockets, with the session | EXTENDS `EditorSession` |
| `*Proofs` | TLAPS proofs of the module they are named after | `SchedulerProofs` also of `HalideExecutor`, `ColorBuffersProofs` of `PlannedRun`, `NodeChainProofs` of `PipelineRun` and `MetadataStore`, `PipelineLoadProofs` of `Kahn` and `PrecisionPlanner` |
| `MC*` | instances for TLC | |

### Correspondence with the code

*Scheduler.* `caller` is the position in `run`; `onNode`/`onRow` say what each
thread executes. A node in `executor->run(taskflow).wait()` is *forked* and its
thread takes no other task, which is what `std::future::wait` does. The serial
path (no dependencies) and the taskflow path are separate actions. The first
failure is the compare-and-exchange on `first_status`.

*HalideExecutor.* The constructor stores the pointer, the destructor exchanges it
only if it is its own, then the member `executor_` waits for its taskflows; a
loop loads the pointer in one step and submits in another.

*Kahn.* `Sort` is the two loops step by step: the first looks at one node per step,
the second pops a node or follows an edge. Twice the nodes and once the edges are
all the steps the loops can make, which is proved.

*PipelineLoad.* `phase` follows the function from top to bottom; each early
return is an action that sets `status`. `doc` is abstracted to nodes with a type
and a verdict on their parameters, edges with endpoints and ports, inputs, and a
verdict on the memory cap. The object `pipe` is written only by the last phase,
as in the code, and `before` remembers it.

*ColorBuffers.* One step per buffer of the loop in `color_buffers`; `Problem` in
`MemoryPlanner` computes order and ranges as `plan_graph` does.

*PipelineRun.* One step per plugin call of the node lambda. A buffer carries the
sequence of nodes whose work it holds, so "the right pixels" can be said. The
plugins may answer every call with any status, and a source may succeed without
a buffer in its handle. The nodes run in sequence, which is justified by
`ChainIsSequential` of `Scheduler`.

*PlannedRun.* `load` plans with the dimensions that the document declares for its
input, 0 by default. A run begins with a `source_output` of those dimensions; the
source may replace it in its handle (`dng_input` does, by a buffer of the file's
dimensions), and all later layouts follow the image. The frame of `run_bound` keeps
`source_output` and the replacement. Actions: `RunSource`, `SourceReturns`,
`StartNode`, `FinishNode`, `RunSink`, `RunReturns`, after which it may be called
again, and `Refused`. `RunsAssumption` says that manifests declare at least the
bytes of their output format as `out_pixel_bytes`, as those of all built-in nodes do.

*NodeChain.* Between the allocation of buffers and the end of `process`, `todo`
holds the calls the node still makes. `NodePrograms` gives, for what the node
finds (formats, role, steps, blobs, calibration, parameters), that sequence, with
the error paths of every call that can fail: the checks in the order of the code
with their statuses, the lock and unlock of the adapters, the kernel, the flush,
the edits of the metadata. What a Halide kernel computes is one "write".
Plugins that are not built in may run any of `PluginPrograms`.

*MetadataStore.* A calibration block is an index into `cals`, as a `shared_ptr`
is in the code; `set_cfa` copies the block, the other edits copy the record.
`Seen` is what the suite shows of a record: every field, every entry of
`list_applied_steps` with its repetitions, every key of `list_blob_keys`, a
reserved one twice if both homes hold it, and the blob under each key. Under it
the store implements `MetadataValues`, in which nothing is shared.

*DngReader.* A file is its size and its directories by offset; an entry carries
its items as numbers. `read` opens the path three times (directory, LibRaw,
strip), so `Replace` may put another file there in between, once; a sample
carries the picture of the file it was read from. Offsets are added
modulo the address space, as `uint32_t` does. A status UNSUPPORTED of the parser
becomes FAILED in the reader.

*GainMaps, OpcodeList3.* Lists are cells of four bytes. The parsers, the
validation, the packing into the parameter block of the kernel and the kernel's
own unpacking are all modelled, because what a property is about (the right map,
point or rectangle for a pixel) is decided by all four together. Gains are whole
numbers scaled by the spacing of the grid.

*WhiteBalance.* One step per turn of the loop in `estimate_scene_cct`. A
temperature is a whole step of 50 K where the code has a double; a quotient is cut
towards zero to a whole step, never to less than the tolerance. The distance
function is a constant: the code computes it from matrices.

*VulkanOcio.* A method is the sequence of its Vulkan calls; a thread executes one
per step, and any call checked with `check_vk` may fail. Objects of classes with
destructors are dropped when an exception passes; bare handles are lost, and so is
a staging buffer whose constructor throws at `vmaMapMemory`. A cached pipeline is
destroyed on the device its entry names, parts of an earlier device included;
those are `foreign`, and may or may not survive. The device takes submissions off a queue in its own time, or never.

*EditorServer.* A step is what a thread does between two places where another
thread can interleave. Sections under `param_debounce_mutex_` are atomic;
`start_mutex` is explicit because `start()` keeps it across other steps. Time is
a clock in ticks; `Debounce` stands for 200 ms. `deferred` is the queue behind
`Loop::defer`; `IoReturns` is the return of `app.run()`, which needs the listen
socket and all connections gone. The WebSocket handler and the REST handlers with
bodies catch their exceptions; the handler of `POST /api/pipelines/active/run` and
the deferred re-run do not. `sound` says whether every node of the active document
is an object; if not, `profile_payload` throws and the exception leaves `app.run()`
(`PostRun`, `EmitThrows`). The sockets of that loop are then `left`: open, and
served by nobody.

*EditorSession.* Handlers run on the I/O thread and are single steps. The
debounce thread is reduced to the deadline of the re-run that is due. A run
always "completes": the server has no runtime behind it yet. `serial`, `handed`,
`shown` and `due` are history variables used by the properties.

*EditorClient.* A page is its zustand stores and its current socket. A user's
act is one step: the store, the message of the handler, the re-render and the
effect of the inspector, which subscribes again. Messages to the server and
thumbnails to the page travel in queues; a closed socket drops what it is given,
one that is connecting throws, and an exception in an effect unmounts the page.
`connectRuntime` runs twice where StrictMode mounts the page twice, so a page may
have two sockets. Requests of everybody else arrive at once.

## Runs

Passing runs:

| Run | Question | Instance |
|---|---|---|
| `scheduler` | frame lifetimes, sequence of a chain, refinement of the contract (order, statuses, first failure), termination | all DAGs on 3 nodes, any node forking 2 rows; the chain of `run_bound` with up to 3 rows; 2 workers |
| `halide_executor` | whose executor do loops get | 3 overlapping Schedulers |
| `planned_run` | are slots disjoint, does a value survive to its readers, how far can a run exceed its plan | all graphs on 3 nodes, upward graphs on 4, the diamond of the unit test, chains of up to 4 nodes; sources that leave an image of the declared size or a larger one, and a document that declares none |
| `pipeline_load` | is the sort exact, what does acceptance guarantee, what does a failed or repeated load leave | all graphs with at most 3 edges on 3 of 4 node types, all edge lists of length 3 with loops and parallel edges, chains of 4, odd documents, 3 loads of one object |
| `pipeline_run` | lineage of pixels and metadata, statuses, instances, locks and flushes, recorded steps, colour state of what is encoded, metadata as values | chains of up to 3 plugins with any failures and any two edits; the example pipelines with nodes inserted, exchanged, left out and replaced (2868 initial states), on cameras that lack one thing each |
| `ingest` | reads inside the file, whose metadata a buffer has, the right gain for every pixel, list 3 in order or not at all | 1184 files: all lists of up to 3 of 8 opcodes, lists cut anywhere, corners beyond the signed numbers, 12 gain map lists on 2x2 and 4x4 mosaics, directories at every edge, LibRaw giving up at each stage, the file replaced by one of three others before or after LibRaw |
| `white_balance` | does the search stay in its range and find the least distance | 110 valleys, at the ends and inside, flat, steep, skewed, curved; distances that are missing in parts |
| `vulkan_ocio` | lifetimes of objects in flight, layouts, results | 2 threads on one or two devices, one processor; two failing calls anywhere |
| `editor_server` | thread and pointer safety, the debounce; do `start` and `stop` return, does an update lead to a run | 2 clients, 2 starts, failed binds, exceptions before and out of `app.run()`, time-outs, early clients |
| `editor_pages` | run ids, subscriptions, shared frames, does the rate cap lose the last update; do a page and the server come to agree, does the inspector show the newest frame of its node | 2 connections of other clients, or one of a page whose user acts 4 times; 2 nodes, cap reached, intervals around the debounce, encoder failures |

Violations, each a disagreement between the code and a statement of the
repository (quoted in `PROJECT.json`):

| Run | What it shows |
|---|---|
| `scheduler_one_worker` | with one worker (two cores) a node that forks a Halide loop waits for its own thread |
| `pipeline_run_locks` | `tone.mertens_local` gets one buffer for its three inputs, which is then locked three times; `CpuBuffer.cpp:60` asserts that it never is |

### Exceptions written into the properties

Some passing properties carry an exception because the code does less than a
document says, or than one would like. Each exception is as narrow as TLC allows:
without it the property is violated on the same instance (for the two sockets of
`EditsAgree` and `InspectorShowsLatest`, on the instance of a page that connected
twice, whose state space is too large to be exhausted in a run).

| Property | Exception | Document |
|---|---|---|
| `NewestKeepsHook` | a loop of an older run may have loaded the executor of a newer one, and submit to it when it is destroyed (`Scheduler.cpp`, `cpipe_halide_do_par_for`) | `docs/architecture.md:137`, `:140` |
| `WithinTwicePlan` | a run may hold more than the peak that `load` compared with the device cap, up to twice as much; and any amount if the image is larger than the document declares (the example documents declare no dimensions and plan for none) | `docs/buffer.md:665` |
| `LoadChecksHoldAtRun` | the first node is not checked against its source, and `requires_fields` is read nowhere; behind the display transform load accepts any target | `docs/architecture.md:190` |
| `InstancesReleased` | a node whose output layout is unknown is not destroyed (`Pipeline.cpp:738`) | `docs/plugin-sdk.md:22` |
| `ImplementsValues` | a blob that the host keeps natively under a reserved key cannot be replaced by `set_blob` | `docs/plugin-sdk.md` |
| `ObjectLifetimes` | a pass whose wait times out or fails destroys objects of work in flight; fences, staging buffers and parts of unfinished pipelines are lost when a call fails or the format is refused; parts of a pipeline that could be finished neither on their device nor on a second one are destroyed on the second (`OcioVulkanProcessor.cpp:305`) | |
| `MetadataBelongToPixels` | a file replaced after it was parsed: its pixels get the size, the calibration and the lists of the file before it (`DngReader.cpp:204`) | |
| `ReadsStayInside` | a directory at one of the last two addresses: the sum wraps before it is compared (`OpcodeListParser.cpp:137`) | |
| `SearchStaysInRange` | an infinite distance makes steps that are not numbers, which can pass the end of the bracket | |
| `CallsReturn` | a `start()` that times out calls `stop()` with `start_mutex` held and waits for a thread that waits for it; `stop()` waits until the editors have left (`EditorServer.cpp:449`) | `docs/phase-03-editor-iqa.md:385` |
| `StoppedIsQuiescent` | sockets that were open when an exception left `app.run()` stay open without a loop (`EditorServer.cpp:406`) | |
| `UpdateReRuns` | an update accepted before `start()` resets the debounce flags may never be re-run (`EditorServer.cpp:436`), nor one that is pending when an exception leaves `app.run()` | `docs/phase-03-editor-iqa.md:90` |
| `LoopOutlivesDefer` | after a failed bind, or an exception out of `app.run()`, `stop()` and the debounce thread may use the loop of a thread that has ended (`EditorServer.cpp:447`, `:589`) | `docs/architecture.md:139` |
| `UpdatesAreShown` | a group served at less than 5 fps may never see the last update (`EditorServer.cpp:676`) | `docs/phase-03-editor-iqa.md:37` |
| `EditsAgree` | an update that could not be sent, or was lost with its connection, is never repeated; with two sockets the older one may deliver last | |
| `InspectorShowsLatest` | with two sockets the older one keeps its subscription, and frames name no node | |
| `RunIdsKeepMeaning` | a PUT forgets the runs and reuses their ids (`EditorServer.cpp:495`) | `docs/phase-03-editor-iqa.md:411` |

More divergences follow directly from the definitions. `InsertConverter`
converts an output once per consumer, not the "minimum number" of
`docs/architecture.md:186`. `Subscribe` and `Unsubscribe` keep one subscription
per client, whatever node is named, against `docs/phase-03-editor-iqa.md:459`.
When LibRaw gives up, `decode_single_strip` takes the bytes of a compressed strip
for samples and fills up with zeros. A `BitsPerSample` of type LONG is cut to 16
bits before it is compared. `quad_bayer_remosaic` does not look at the format of
its input. With two forward matrices the white balance returns CPIPE_OK even
if no temperature had a finite distance. The region and the pitch of a gain map
are parsed and not used. A corner of a bad rectangle from 2^31 on is taken as
negative, so that a bottom of that size patches nothing. After an exception out of
`app.run()` the connections in `ws_clients_` outlive their sockets; what a later
`start()` would do with them is not modelled.

### Bounds

Three nodes are the fewest with a dependency that is not direct, two that are
independent, and a join; two workers are the fewest that let one node wait while
another works. Loops of three rows exceed the workers. For graphs, self-loops,
parallel edges and two-cycles need two nodes and three edges. Slots need a
buffer that outlives another and a third that reuses its slot: four nodes. The
chains of `pipeline_run` vary the shortest example pipeline, which has every
kind of colour state, by one node of any type and by two of the types whose order
matters. Three opcodes let one be skipped between two that are packed. Two
threads are the fewest that share a device and the fewest that move the pipeline
cache between two; one failing call reaches every error path, two are needed for a
pipeline that fails on one device and then on another. The 50 K grid of
`white_balance` has 170 points, four times the tolerance at its coarsest.
`AddressSpace` is 2^20 instead of 2^32, the size of the files 4000; `CellValues` is
1024 instead of 2^32. Two images are enough for `planned_run`: what matters is
whether the image is larger than declared.

In the server two clients are needed for one to leave while another stays, two
starts for flags that survive a stop, and a clock of at least twice the debounce
for an update that moves a deadline. `FullRate` (4 in the code) is 1 in
`editor_pages` so that two clients exceed it; the intervals are the debounce
itself, where the comparison with the rate cap is at its edge, and one more.
Symmetry of the connections is used in `editor_pages`, which has no liveness
properties.

### Deadlock and fairness

Deadlock is checked except in instances that really can stop: a pool too small
for its loops (`scheduler`, `scheduler_one_worker`; `RunReturns` covers the calls
that must finish), the start-up time-out (`editor_server`; `CallsReturn` says
that it is the only such case), and the end of the search (`white_balance`).

`Scheduler` assumes weak fairness of the caller and of each worker: TaskFlow and
the operating system run a thread that can run. `EditorServer` assumes it of its three threads and of the clock; nobody has to
call `start`, `stop`, connect or send, and no property rests on the expiry of the
5 s wait in `start`. `LeavingSpec` adds that a connected client leaves some day,
without which `stop()` need not return. The other specifications have no liveness
properties and no fairness.

`VulkanOcio` also assumes how the processor is used: passes on different planes
with one processor do not overlap (one node runs at a time), and the processor is
destroyed before the planes.

## Proofs

Every proof holds for all values of the constants that satisfy the named
ASSUMEs of its module.

`SchedulerProofs`, for any number of nodes, rows and workers, any dependency
lists, and any statuses: type correctness, `DependenciesSucceeded`,
`ReturnTellsOutcome`, `NeverReentered`, `FramesOutliveTasks`,
`ChainIsSequential`, and that `Scheduler` implements `SchedulerContract`. The
inductive invariant is `IInv == TypeOK /\ ThreadInv /\ StatusInv`.
`DependenciesSucceeded` alone is not inductive: it needs that a failure is
visible in `first_status` before a successor is ready (`StatusInv`), and that a
status changes only while the node is on exactly one thread (`ThreadInv`).
`ChainIsSequential` adds that the started nodes of a chain are a prefix, all
complete but the last.

The same module proves `NewestKeepsHook` of `HalideExecutor`, for any number of
Schedulers. The invariant adds that a Scheduler which does not exist yet has no
loop.

`ColorBuffersProofs`, for any number of buffers, order, ranges and sizes:
`SlotsDisjoint`, `SlotsFit`, `ValuesSurviveToReaders`, that the plan of a
`PlannedRun` is one of `ColorBuffers` (`RunSpec => Spec`), and `WithinTwicePlan`,
for any images.
The invariant adds that the buffers are assigned in the given order, without
repetition (`InOrder`), so the buffer placed next is none of those assigned; the
lemma `Growth` says that slots never shrink. For `ValuesSurviveToReaders`
(`PlanInv`) the problems must be such as `plan_graph` poses: the order is one of
all nodes, ranges are not empty, and a reader starts no later than the range of
what it reads ends (`RangesAssumption`). `WithinTwicePlan` needs what a run holds
at each stage (`RunInv`: the source's output, what replaced it, the current buffer
and the one in the making; the peak is the input and the sum of the slots), that a
buffer of the declared dimensions is no larger than planned (`BytesPlanned`, from
`RunsAssumption`), and what the sum of a function is, which is proved from the fold
of the community modules (`SumExists`, `SumIs`).

`NodeChainProofs`, for chains of any length: `FirstFailureReturned`,
`MetadataFollowsPixels`, `InstancesReleased` and `ResultIsComposition`. `CallsInv`
says that before the end all calls have succeeded but at most the last, whose node
is then being destroyed. `FollowInv` adds the metadata of the output in the making:
between PROCESS and DESTROY it follows its pixels only if PROCESS succeeded, and
only then is it handed on. `ReleaseInv` says that an instance that was created is
destroyed, left behind, or the one in hand. `ComposeInv` says which nodes are in
the pixels of the current buffer and of the one in the making, at every stage of
the node in hand.

The same module, for any number of buffers, keys and values:
`PublishedMetadataIsImmutable`, and that `MetadataStore` implements
`MetadataValues`. The invariant says that the builder and all metadata name blocks
that exist (`StoreInv`), so a block appended by `set_cfa` is new to all, and that
the fields of a record have their types (`TypedInv`), without which an edit under
the refinement mapping `Seen` would not be the edit of one field. There is a lemma
for each field on what an edit changes of what is seen; `ErasedIs` says that
erasing a step leaves the other entries, repetitions included, in their order.

`WhiteBalanceProofs`, for any distance function, range and tolerance:
`SearchStaysInRange`, `BestIsLeastTried`, and `LeastStaysInBracket` where the
distance falls up to one point and rises after it. The invariant keeps the order
of the bracket and that the three remembered points were tried; the lemmas say
that a parabolic step and a golden step both land inside the bracket, the
tolerance included.

`EditorServerProofs`, for any clients and clock: `StoppedIsQuiescent`,
`LoopOutlivesDefer`, `CloseIsLast` and `QuietBeforeRerun`. The invariant relates
the positions of the three threads (`ThreadsInv`), what a successful start leaves
behind until the closing is deferred or an exception takes the I/O thread out of its
loop, which takes `start_success_` back (`StartInv`), the place of the closing in the
queue (`ClosingInv`) and the deadline (`DebounceInv`).

`EditorSessionProofs`, for any clients, documents, intervals and debounce time:
`RunIdsKeepMeaning`, `SharedFrames` and `UpdatesAreShown`. `DueInv` is the
strengthening that matters: while a re-run is due at t, every group that waits
for it has emitted at least a debounce time before t, so the rate cap lets the
frame pass.

`EditorClientProofs`, for any pages, also those with two sockets: that pages over their
queues do nothing to the session but what its clients may do (`ClientSpec =>
Spec`), by which the three theorems hold of the editor with its pages, and
`EditsAgree` and `InspectorShowsLatest`. The invariant of `EditsAgree` is
`ClientTypeOK /\ PagesInv /\ AgreedInv`: a page's socket is a connection of its own that was opened, and the server's document has
every node that a page set (`PagesInv`); for a node that the page was the last to
set, the last update on its way carries the value shown, or none is on its way and
the server has that value (`AgreedInv`). `InspectorShowsLatest` adds `ShowsInv`,
which says both halves of the way a frame takes while messages are still on it: the
last subscription on its way to the server, or else the one the server has, names
the node that the page inspects (`AsksInv`), and the last frame on its way to the
page, or else the one it shows, is the newest that was sent (`FramesInv`).

`PipelineLoadProofs`, for documents of any size, with loops and parallel edges, and
any sequence of loads: `LoadIsAllOrNothing`, `SortIsExact`, `StepsAreThoseUpstream`
and `AcceptedPlan`. `KahnInv` says of every step of the sort what the in-degrees
count (the edges whose producer is not placed, or placed and not yet followed), that
the queue holds just the nodes without such edges, and that no node is in the queue
or the order twice. The number of steps that are left decreases, so the bound of
`Sort` is enough. When nothing is left, every node that is not placed has a
predecessor that is not placed either; in a finite set such a knot holds a cycle, and
a cycle is never placed. `StepsInv` says that the nodes before a position have
accumulated what is upstream of them. `PlanInv` follows what `load` knows from phase
to phase: the converters that `auto_insert` puts in (`IsPlan`), the checks of ports,
the order of the rewritten graph. It rests on two assumptions: documents are
sequences of nodes and edges (`DocumentsAssumption`), and the registered converter
takes and gives the precisions it is inserted for (`ConverterAssumption`, which is
what its manifest says).

Induction over data is not automatic in the prover. Where it was needed (the sum of
a function, the steps that are left, the steps of the sort) the recursive function is
shown to exist, and then to have its property, by the least number at which that
would fail.

Only model-checked:

- liveness and deadlock freedom: no fairness reasoning in the prover;
- the results of the larger algorithms on data: the planned peak of `Problem`, the
  opcode lists (`GainsFromOwnPlane`, `ListAppliedInOrder`);
- `ReturnedBuffersSettled`, `LoadChecksHoldAtRun`,
  `EncodedImagesAreDisplayReferred`: statements about the programs of some twenty
  nodes, which TLC enumerates;
- `DngReader` and `VulkanOcio`, whose properties need an invariant for each place
  in the file walk and in the sequences of Vulkan calls.

## Not modelled

The arithmetic of the image filters (floating point): demosaicing, denoising,
sharpening, tone curves, LUT interpolation. Of the element strides of
`HalideBufferAdapter` and of half floats nothing is stated. HEIF, ICC and LUT
files are read and written by third-party codecs. Static files, the thumbnail
encoder and the CPU path of OCIO change no state. Of the web editor, the schema
cache, the list of recent graphs, and files. The byte layout of frames. Rendering in the web editor,
Tracy spans and logging. uWebSockets, TaskFlow, Halide, LibRaw, Vulkan and OCIO
are modelled as far as the code uses them.

## Plan

1. Operators with reference definitions: the frame codec on both sides,
   `size_bytes` with 64-bit wrap-around, the layering of the serve configuration.
2. Proofs: that a `NodeChain` is a `PipelineRun`, and that the problems `plan_graph`
   poses satisfy `RangesAssumption`.
