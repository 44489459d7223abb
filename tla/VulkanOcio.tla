----------------------------- MODULE VulkanOcio -----------------------------
(***************************************************************************)
(* The device plane (runtime/Vulkan*.cpp, runtime/Sync.cpp) and the colour *)
(* transform on it (color/OcioVulkanProcessor.cpp): threads that upload an *)
(* image, run compute_pass of one shared processor and read the result     *)
(* back, while each device executes what they submitted at its own pace.   *)
(*                                                                         *)
(* A method is the sequence of its Vulkan calls, and a thread executes one *)
(* call per step.  A call checked with check_vk may fail, which throws:    *)
(* objects with destructors are destroyed on the way out, bare handles are *)
(* lost.  A thread owns one input and one output image; a processor's      *)
(* passes on different planes do not overlap (PipelineRun runs one node at *)
(* a time), passes on the same plane may.                                  *)
(***************************************************************************)
EXTENDS Integers, Sequences

CONSTANTS
    Planes, Threads,
    Machines,       \* what create() finds: [empty_icd, env, loader, devices]
    Scripts,        \* assignments of [plane, input, format, ops] to the threads
    MaxFailures     \* bound on the Vulkan calls that fail

VARIABLES
    script,         \* the assignment of this behaviour
    planes,         \* planes[p]: "none", "live", "refused" or "gone"
    objects, lost,  \* the objects that exist; those nobody can destroy any more
    foreign,        \* those that were given to the vkDestroy of another device
    cache,          \* OcioVulkanProcessor pipelines_: [device, parts] by format
    processor,      \* the processor exists
    done, todo,     \* of a thread: operations begun, calls left of the current one
    passed,         \* whether its last pass returned CPIPE_OK
    failures,
    queue,          \* queue[p]: submissions the device has not executed
    layout,         \* VkImageLayout of an image
    tracked,        \* VulkanImage::current_layout_
    locked,         \* the images with VulkanImage::locked_
    pixels,         \* on the device
    mapped,         \* in the staging buffer of a transfer
    staging         \* in VulkanImage::staging_

gpu == <<queue, layout, pixels, mapped>>
shared == <<planes, cache, processor>>
vars == <<script, shared, objects, lost, foreign, done, todo, passed, failures, gpu, tracked, locked, staging>>

Images == Threads \X {"in", "out"}
Object(kind, p, id) == [kind |-> kind, plane |-> p, id |-> id]
Formats == UNION {{s[t].format : t \in Threads} : s \in Scripts}
Handle(image) == Object(image[2], script[image[1]].plane, image[1])
SetLayout(p, format) == Object("set_layout", p, format)
PipelineLayout(p, format) == Object("pipeline_layout", p, format)
Shader(p, format) == Object("shader", p, format)
ComputePipeline(p, format) == Object("pipeline", p, format)
PipelineParts(p, format) == <<SetLayout(p, format), PipelineLayout(p, format), Shader(p, format), ComputePipeline(p, format)>>
NoPipeline == [device |-> "none", parts |-> {}]

Init ==
    /\ script \in Scripts
    /\ planes = [p \in Planes |-> "none"] /\ objects = {} /\ lost = {} /\ foreign = {}
    /\ cache = [f \in Formats |-> NoPipeline] /\ processor = TRUE
    /\ done = [t \in Threads |-> 0] /\ todo = [t \in Threads |-> <<>>]
    /\ passed = [t \in Threads |-> FALSE] /\ failures = 0
    /\ queue = [p \in Planes |-> <<>>]
    /\ layout = [m \in Images |-> "UNDEFINED"] /\ tracked = [m \in Images |-> "UNDEFINED"]
    /\ locked = {}
    /\ pixels = [m \in Images |-> "junk"] /\ staging = [m \in Images |-> "junk"]
    /\ mapped = [t \in Threads |-> "junk"]

---------------------------------------------------------------------------
(* VulkanDevicePlane: create() and the destructor. *)

supports_timeline_semaphore(device) == device.timeline
find_graphics_compute_queue(device) == device.queue
is_eligible_device(device) == device.api >= 13 /\ supports_timeline_semaphore(device) /\ find_graphics_compute_queue(device)
\* CPIPE_VULKAN_DEVICE_INDEX: <<n>>, or <<>> when it is unset or not a number.
requested_device_index(machine) == IF machine.env = <<>> THEN -2 ELSE machine.env[1]
Eligible(machine) == {k \in DOMAIN machine.devices : is_eligible_device(machine.devices[k])}
\* An index from 0 asks for that device; otherwise the first eligible one is taken.
Selected(machine) ==
    LET index == requested_device_index(machine) IN
    IF index >= 0 THEN {index + 1} \cap Eligible(machine)
    ELSE {k \in Eligible(machine) : \A l \in Eligible(machine) : k <= l}
\* What is checked before there is an instance; -1 disables Vulkan.
Wanted(machine) == ~machine.empty_icd /\ requested_device_index(machine) # -1 /\ machine.loader >= 13

Parts == <<"instance", "device", "allocator">>
Part(p, k) == Object(Parts[k], p, p)
UsedPlanes == {script[t].plane : t \in Threads}
Made(p) == {k \in 1..3 : Part(p, k) \in objects}
create_rest == <<script, cache, processor, lost, foreign, done, todo, passed, gpu, tracked, locked, staging>>

\* One vkCreate call; after the allocator the plane is returned.
CreateNext(p) ==
    /\ planes[p] = "none"
    /\ LET k == 1 + Len(SelectSeq(<<1, 2, 3>>, LAMBDA j : j \in Made(p))) IN
         /\ \E machine \in Machines : Wanted(machine) /\ (k > 1 => Selected(machine) # {})
         /\ objects' = objects \cup {Part(p, k)}
         /\ planes' = [planes EXCEPT ![p] = IF k = 3 THEN "live" ELSE @]
    /\ UNCHANGED failures /\ UNCHANGED create_rest

\* Vulkan is not wanted, the driver incompatible, or no device usable: the instance, if there
\* is one, is destroyed.
CreateUnsupported(p) ==
    /\ planes[p] = "none" /\ Made(p) \subseteq {1}
    /\ \E machine \in Machines : Made(p) = {} \/ (Wanted(machine) /\ Selected(machine) = {})
    /\ objects' = objects \ {Part(p, 1)}
    /\ planes' = [planes EXCEPT ![p] = "refused"]
    /\ UNCHANGED failures /\ UNCHANGED create_rest

\* A call fails: the handler destroys what is not null.
CreateFails(p) ==
    /\ planes[p] = "none" /\ failures < MaxFailures
    /\ objects' = objects \ {Part(p, k) : k \in 1..3}
    /\ planes' = [planes EXCEPT ![p] = "refused"] /\ failures' = failures + 1
    /\ UNCHANGED create_rest

Ended(t) == done[t] = Len(script[t].ops) /\ todo[t] = <<>>

\* PipelineResources::destroy: all handles that are not null, on the device of the entry.
\* What vkDestroy does with an object of another device is undefined: it may survive.
Destroyed(entry) == IF entry.device = "none" THEN {} ELSE entry.parts
Foreign(entry) == {o \in Destroyed(entry) : o.plane # entry.device}
DestroyEntries(entries) ==
    LET destroyed == UNION {Destroyed(e) : e \in entries}
        strange == UNION {Foreign(e) : e \in entries}
    IN  /\ foreign' = foreign \cup strange
        /\ \E surviving \in SUBSET strange : objects' = objects \ (destroyed \ surviving) /\ lost' = lost \cup surviving

\* ~Impl: every cached pipeline is destroyed.
DestroyProcessor ==
    /\ processor /\ \A t \in Threads : Ended(t)
    /\ processor' = FALSE
    /\ DestroyEntries({cache[f] : f \in Formats})
    /\ cache' = [f \in Formats |-> NoPipeline]
    /\ UNCHANGED <<script, planes, done, todo, passed, failures, gpu, tracked, locked, staging>>

\* The last reference goes when the images are gone; vkDeviceWaitIdle waits for the queue.
\* The command pools take the command buffers allocated from them along.
DestroyPlane(p) ==
    /\ planes[p] = "live" /\ ~processor /\ \A t \in Threads : Ended(t)
    /\ queue[p] = <<>>
    /\ planes' = [planes EXCEPT ![p] = "gone"]
    /\ objects' = {o \in objects : o.plane # p \/ o.kind \notin {Parts[k] : k \in 1..3} \cup {"command_pool"}}
    /\ lost' = {o \in lost : o.plane # p \/ o.kind # "immediate"}
    /\ UNCHANGED <<script, cache, processor, foreign, done, todo, passed, failures, gpu, tracked, locked, staging>>

---------------------------------------------------------------------------
(* The methods, as the calls they make.  "make" makes an object that has a *)
(* destructor, "make_bare" a handle that has not.                          *)

Call(op, handles, image) == [op |-> op, handles |-> handles, image |-> image]
Make(object) == Call("make", {object}, <<>>)
Drop(object) == Call("drop", {object}, <<>>)
Check == Call("check", {}, <<>>)
Do(op, image) == Call(op, {}, image)

\* command_pool_for_current_thread
CommandPool(t) == Call("pool", {Object("command_pool", script[t].plane, t)}, <<>>)

\* submit_immediate: work is recorded, submitted, waited for without limit.
submit_immediate(t, work, image) ==
    LET buffer == Object("immediate", script[t].plane, t)
        fence == Object("fence", script[t].plane, t)
    IN  <<CommandPool(t), Call("make_bare", {buffer}, <<>>), Check, Call("make_bare", {fence}, <<>>),
          Do(work, image), Do("wait", image), Call("drop", {fence, buffer}, <<>>)>>

\* Mutant: the layout is noted before the device has been asked to change it.
transition_to_general_early(t, image) == <<Do("track", image)>> \o submit_immediate(t, "to_general", image)
transition_to_general(t, image) == submit_immediate(t, "to_general", image) \o <<Do("track", image)>>

\* The constructor of StagingBuffer makes the buffer, and maps it.
StagingBuffer(t) == Object("staging", script[t].plane, t)
make_staging(t) == <<Make(StagingBuffer(t)), Do("map", <<>>)>>
upload_from_staging(t, image) ==
    make_staging(t) \o <<Check>> \o submit_immediate(t, "upload", image)
        \o <<Do("track", image), Drop(StagingBuffer(t))>>
download_to_staging(t, image) ==
    make_staging(t) \o submit_immediate(t, "download", image)
        \o <<Do("track", image), Check, Do("copy_back", image), Drop(StagingBuffer(t))>>

\* locked_ is set after the download, and cleared after the upload.
lock_cpu(t, image, access) ==
    (IF access = "Write" THEN <<>> ELSE download_to_staging(t, image)) \o <<Do("lock", image)>>
unlock_cpu(t, image, access) ==
    (IF access = "Read" THEN <<>> ELSE upload_from_staging(t, image)) \o <<Do("unlock", image)>>
WriteImage(t, image) == lock_cpu(t, image, "Write") \o <<Do("fill", image)>> \o unlock_cpu(t, image, "Write")
ReadImage(t, image) == lock_cpu(t, image, "Read") \o unlock_cpu(t, image, "Read")

ImageView(image) == Object([in |-> "in_view", out |-> "out_view"][image[2]], script[image[1]].plane, image[1])
DescriptorPool(t) == Object("descriptor_pool", script[t].plane, t)
TimelineSemaphore(t) == Object("timeline", script[t].plane, t)
CommandBuffer(t) == Object("commands", script[t].plane, t)
allocate_descriptor_set == Check
begin_and_end == Check
wait_timeline == Do("wait_timeline", <<>>)
PassObjects(t) == {ImageView(<<t, "in">>), ImageView(<<t, "out">>), DescriptorPool(t), TimelineSemaphore(t), CommandBuffer(t)}

\* compute_pass; its objects go when it returns.
compute_pass(t) ==
    IF script[t].input # "R16G16B16A16_SFLOAT" THEN <<>> \* CPIPE_BAD_PRECISION
    ELSE <<Do("pipeline", <<>>)>>
        \o transition_to_general(t, <<t, "in">>) \o transition_to_general(t, <<t, "out">>)
        \o <<Make(ImageView(<<t, "in">>)), Make(ImageView(<<t, "out">>)), Make(DescriptorPool(t)), allocate_descriptor_set,
             Make(TimelineSemaphore(t)), CommandPool(t), Make(CommandBuffer(t)), begin_and_end,
             Do("dispatch", <<t, "out">>), wait_timeline, Call("drop", PassObjects(t), <<>>), Do("passed", <<>>)>>

\* The constructor of VulkanImage throws for a format it has no VkFormat for.
to_vk_format == {"R16_UINT", "R8G8B8A8_UNORM", "R16G16B16A16_SFLOAT", "R16G16B16A16_UNORM", "R32_SFLOAT", "R32G32B32A32_SFLOAT"}
\* The shader source can be written only for these outputs.
storage_format == {"R8G8B8A8_UNORM", "R16G16B16A16_UNORM", "R16G16B16A16_SFLOAT", "R32G32B32A32_SFLOAT"}
make_compute_shader(format) == format \in storage_format
VulkanImage(t) == {script[t].input, script[t].format} \subseteq to_vk_format

Operation(t, op) ==
    CASE op = "images" -> <<Call("keep", {Handle(<<t, "in">>)}, <<>>), Call("keep", {Handle(<<t, "out">>)}, <<>>)>>
      [] op = "write" -> WriteImage(t, <<t, "in">>)
      [] op = "pass" -> compute_pass(t)
      [] op = "read" -> ReadImage(t, <<t, "out">>)
      [] op = "drop" -> <<Call("drop", {Handle(<<t, "out">>), Handle(<<t, "in">>)}, <<>>)>>

---------------------------------------------------------------------------
(* The threads. *)

Next1(t) == Head(todo[t])
At(t, ops) == todo[t] # <<>> /\ Next1(t).op \in ops
Throw(t) == todo' = [todo EXCEPT ![t] = <<>>]
Advance(t) == todo' = [todo EXCEPT ![t] = Tail(@)]
Plane(t) == script[t].plane
local == <<script, shared, lost, foreign, done, passed, failures>>

InPass(t) == todo[t] # <<>> /\ script[t].ops[done[t]] = "pass"
\* A thread whose plane could not be created does nothing.
Begin(t) ==
    LET op == script[t].ops[done[t] + 1] IN
    /\ todo[t] = <<>> /\ done[t] < Len(script[t].ops) /\ planes[Plane(t)] \in {"live", "refused"}
    /\ op = "pass" => \A u \in Threads \ {t} : Plane(u) # Plane(t) => ~InPass(u)
    /\ done' = [done EXCEPT ![t] = @ + 1]
    /\ todo' = [todo EXCEPT ![t] = IF planes[Plane(t)] = "live" /\ VulkanImage(t) THEN Operation(t, op) ELSE <<>>]
    /\ passed' = [passed EXCEPT ![t] = @ /\ op # "pass"]
    /\ UNCHANGED <<script, shared, objects, lost, foreign, failures, gpu, tracked, locked, staging>>

MakeObject(t) ==
    /\ At(t, {"make", "make_bare", "keep", "pool"})
    /\ objects' = objects \cup Next1(t).handles /\ Advance(t)
    /\ UNCHANGED <<local, gpu, tracked, locked, staging>>
DropObject(t) ==
    /\ At(t, {"drop"})
    /\ objects' = objects \ Next1(t).handles /\ Advance(t)
    /\ UNCHANGED <<local, gpu, tracked, locked, staging>>

\* What a submission reads and writes on the device.
Uses(t, work, image) ==
    {Object("device", Plane(t), Plane(t)), Object("command_pool", Plane(t), t), Handle(image)} \cup
    CASE work = "dispatch" -> PassObjects(t) \cup {Handle(<<t, "in">>)} \cup cache[script[t].format].parts
      [] work = "to_general" -> {Object("immediate", Plane(t), t), Object("fence", Plane(t), t)}
      [] OTHER -> {Object("immediate", Plane(t), t), Object("fence", Plane(t), t), StagingBuffer(t)}

\* vkQueueSubmit, under queue_mutex_.
Submit(t) ==
    /\ At(t, {"upload", "download", "to_general", "dispatch"})
    /\ LET c == Next1(t)
           entry == [thread |-> t, work |-> c.op, image |-> c.image, from |-> tracked[c.image],
                     uses |-> Uses(t, c.op, c.image), abandoned |-> FALSE]
       IN  queue' = [queue EXCEPT ![Plane(t)] = Append(@, entry)]
    /\ mapped' = IF At(t, {"upload"}) THEN [mapped EXCEPT ![t] = staging[Next1(t).image]] ELSE mapped
    /\ Advance(t)
    /\ UNCHANGED <<local, objects, layout, pixels, tracked, locked, staging>>

Pending(t) == \E k \in DOMAIN queue[Plane(t)] : queue[Plane(t)][k].thread = t /\ ~queue[Plane(t)][k].abandoned
Abandoned(t) == [queue EXCEPT ![Plane(t)] = [k \in DOMAIN @ |-> IF @[k].thread = t THEN [@[k] EXCEPT !.abandoned = TRUE] ELSE @[k]]]

\* Mutant: the fence is not waited for.
WaitNot(t) ==
    /\ At(t, {"wait", "wait_timeline"})
    /\ Advance(t)
    /\ UNCHANGED <<local, objects, gpu, tracked, locked, staging>>
Wait(t) ==
    /\ At(t, {"wait", "wait_timeline"}) /\ ~Pending(t)
    /\ Advance(t)
    /\ UNCHANGED <<local, objects, gpu, tracked, locked, staging>>

Scoped(t) == objects \cap ({StagingBuffer(t)} \cup PassObjects(t))
\* What no destructor takes: handles, and the buffer of a StagingBuffer whose constructor throws.
Bare(t) == {o \in objects : o.id = t /\ o.kind \in {"immediate", "fence"} \cup (IF At(t, {"map"}) THEN {"staging"} ELSE {})}

\* wait_timeline gives up after two seconds, or fails: compute_pass returns CPIPE_FAILED.
TimeOut(t) ==
    /\ At(t, {"wait_timeline"}) /\ Pending(t)
    /\ queue' = Abandoned(t)
    /\ objects' = objects \ Scoped(t)
    /\ Throw(t)
    /\ UNCHANGED <<local, layout, pixels, mapped, tracked, locked, staging>>

\* A checked call fails and throws.  compute_pass catches; from the other methods the
\* exception reaches the owner of the images, who lets them go.
Fail(t) ==
    /\ At(t, {"make", "make_bare", "keep", "pool", "check", "map", "upload", "download", "to_general", "dispatch", "wait"})
    /\ At(t, {"pool"}) => ~(Next1(t).handles \subseteq objects)
    /\ failures < MaxFailures /\ failures' = failures + 1
    /\ objects' = objects \ (Scoped(t) \cup Bare(t)) /\ lost' = lost \cup Bare(t)
    /\ queue' = Abandoned(t)
    /\ Throw(t)
    /\ done' = [done EXCEPT ![t] = IF script[t].ops[@] = "pass" THEN @ ELSE Len(script[t].ops) - 1]
    /\ UNCHANGED <<script, shared, foreign, passed, layout, pixels, mapped, tracked, locked, staging>>

\* Mutant: the device of a cached pipeline is not compared.
PipelineHitAnyDevice(t) == \E o \in cache[script[t].format].parts : o.kind = "pipeline"
\* pipeline_for finds a finished pipeline of this device.
PipelineHit(t) ==
    LET entry == cache[script[t].format]
    IN  entry.device = Plane(t) /\ \E o \in entry.parts : o.kind = "pipeline"

UsePipeline(t) ==
    /\ At(t, {"pipeline"}) /\ PipelineHit(t)
    /\ Advance(t)
    /\ UNCHANGED <<local, objects, gpu, tracked, locked, staging>>

\* pipeline_for makes the parts in order, under mutex_, and throws at the first that fails.
\* A finished pipeline is destroyed first; what a failure left behind is overwritten.
MakePipeline(t) ==
    LET f == script[t].format
        entry == cache[f]
        finished == \E o \in entry.parts : o.kind = "pipeline"
        old == IF finished THEN {} ELSE entry.parts
    IN  /\ At(t, {"pipeline"}) /\ ~PipelineHit(t)
        /\ \E n \in 0..4 :
             LET made == {PipelineParts(Plane(t), f)[k] : k \in 1..n}
                 overwritten == {o \in old : \E m \in made : m.kind = o.kind}
             IN  /\ cache' = [cache EXCEPT ![f] = [device |-> Plane(t), parts |-> made \cup (old \ overwritten)]]
                 /\ lost' = lost \cup overwritten
                 /\ objects' = ((objects \ (IF finished THEN Destroyed(entry) ELSE {})) \ overwritten) \cup made
                 /\ foreign' = foreign \cup (IF finished THEN Foreign(entry) ELSE {})
                 /\ (~make_compute_shader(f) => n <= 2)
                 /\ \/ n = 4 /\ Advance(t) /\ UNCHANGED failures
                    \/ n = 2 /\ ~make_compute_shader(f) /\ Throw(t) /\ UNCHANGED failures
                    \/ n < 4 /\ failures < MaxFailures /\ Throw(t) /\ failures' = failures + 1
        /\ UNCHANGED <<script, planes, processor, done, passed, gpu, tracked, locked, staging>>

\* The steps that touch the image object alone.  lock_cpu for reading has downloaded.
Local(t) ==
    /\ At(t, {"check", "map", "lock", "unlock", "fill", "track", "copy_back", "passed"})
    /\ LET c == Next1(t) IN
         /\ locked' = CASE c.op = "lock" -> locked \cup {c.image} [] c.op = "unlock" -> locked \ {c.image} [] OTHER -> locked
         /\ tracked' = IF c.op = "track" THEN [tracked EXCEPT ![c.image] = "GENERAL"] ELSE tracked
         /\ staging' = CASE c.op = "fill" -> [staging EXCEPT ![c.image] = "raw"]
                         [] c.op = "copy_back" -> [staging EXCEPT ![c.image] = mapped[t]]
                         [] OTHER -> staging
         /\ passed' = IF c.op = "passed" THEN [passed EXCEPT ![t] = TRUE] ELSE passed
    /\ Advance(t)
    /\ UNCHANGED <<script, shared, objects, lost, foreign, done, failures, gpu>>

---------------------------------------------------------------------------
(* The device executes a queue in order. *)

\* transition_image: from UNDEFINED the contents are discarded.
Kept(entry) == IF entry.from = "UNDEFINED" THEN "junk" ELSE pixels[entry.image]

Execute(p) ==
    LET entry == Head(queue[p])
        t == entry.thread
    IN  /\ queue[p] # <<>>
        /\ queue' = [queue EXCEPT ![p] = Tail(@)]
        /\ layout' = [layout EXCEPT ![entry.image] = "GENERAL"]
        /\ pixels' = [pixels EXCEPT ![entry.image] =
                        CASE entry.work = "upload" -> mapped[t]
                          [] entry.work = "dispatch" -> IF pixels[<<t, "in">>] = "raw" THEN "converted" ELSE "junk"
                          [] OTHER -> Kept(entry)]
        /\ mapped' = IF entry.work = "download" THEN [mapped EXCEPT ![t] = Kept(entry)] ELSE mapped
        /\ UNCHANGED <<local, objects, todo, tracked, locked, staging>>

ThreadStep(t) ==
    \/ Begin(t) \/ MakeObject(t) \/ DropObject(t) \/ Submit(t) \/ Wait(t) \/ TimeOut(t)
    \/ UsePipeline(t) \/ MakePipeline(t) \/ Local(t)
PlaneStep(p) == CreateNext(p) \/ CreateUnsupported(p) \/ CreateFails(p) \/ DestroyPlane(p)
AllDone == ~processor /\ (\A p \in UsedPlanes : planes[p] \in {"gone", "refused"}) /\ UNCHANGED vars
Next ==
    \/ \E t \in Threads : ThreadStep(t) \/ Fail(t)
    \/ \E p \in UsedPlanes : PlaneStep(p) \/ Execute(p)
    \/ DestroyProcessor
    \/ AllDone

Spec == Init /\ [][Next]_vars

---------------------------------------------------------------------------
(* Properties. *)

\* Objects live long enough and no longer.  What a device has been given refers to live objects of
\* that device until it is executed: no destructor, pipeline eviction or second thread takes them
\* away.  The exception is a pass whose wait timed out or a wait that failed (compute_pass destroys
\* the command buffer, semaphore, views and descriptor pool of work in flight).  A plane that was
\* refused or destroyed leaves no object behind, but for the fences, staging buffers and unfinished
\* pipeline parts of calls that failed and of passes into a format that storage_format refuses
\* (submit_immediate, StagingBuffer and pipeline_for have no clean-up).  And objects are destroyed
\* on their own device, but for parts of a pipeline that could be finished neither on their device
\* nor, later, on a second one (pipeline_for overwrites the device and some of the handles).
ObjectLifetimes ==
    /\ \A p \in Planes : \A k \in DOMAIN queue[p] :
          LET entry == queue[p][k] IN
          entry.abandoned \/ entry.uses \subseteq {o \in objects : o.plane = p}
    /\ \A p \in Planes : planes[p] \in {"refused", "gone"} =>
          \A o \in objects \cup lost : o.plane = p =>
              /\ failures > 0 \/ o.id \in Formats \ storage_format
              /\ o.kind \in {"fence", "staging", "set_layout", "pipeline_layout", "shader"}
    /\ \A o \in foreign :
          /\ failures > 1 \/ (failures = 1 /\ o.id \in Formats \ storage_format)
          /\ o.kind \in {"set_layout", "pipeline_layout", "shader"}

\* A barrier names the layout the image has, or UNDEFINED, and a dispatch finds both images in
\* GENERAL: current_layout_ (VulkanImage.cpp) never runs ahead of the device, whichever call of an
\* earlier transfer failed.
BarriersNameTheLayout ==
    \A p \in Planes : queue[p] # <<>> =>
        LET entry == Head(queue[p]) IN
        IF entry.work = "dispatch" THEN layout[<<entry.thread, "in">>] = "GENERAL" /\ layout[entry.image] = "GENERAL"
        ELSE entry.from \in {"UNDEFINED", layout[entry.image]}

\* After a pass that returned CPIPE_OK, reading the output (VulkanImage lock_cpu) gives the
\* transformed input, also when earlier passes failed, timed out or finished late.
ReadBackIsResult ==
    \A t \in Threads : <<t, "out">> \in locked /\ passed[t] => staging[<<t, "out">>] = "converted"
=============================================================================
