--------------------------- MODULE MCVulkanOcio ---------------------------
(* Two threads with their images: on one plane, and on two planes with one *)
(* processor, so that its pipeline cache moves between devices.            *)
EXTENDS VulkanOcio

Device(api, timeline, queue_found) == [api |-> api, timeline |-> timeline, queue |-> queue_found]
Machine(empty_icd, env, loader, devices) ==
    [empty_icd |-> empty_icd, env |-> env, loader |-> loader, devices |-> devices]
MCMachines == {Machine(FALSE, <<>>, 13, <<Device(12, TRUE, TRUE), Device(13, TRUE, TRUE)>>),
               Machine(FALSE, <<0>>, 13, <<Device(12, TRUE, TRUE), Device(13, TRUE, TRUE)>>),
               Machine(FALSE, <<-1>>, 13, <<>>), Machine(TRUE, <<>>, 13, <<>>), Machine(FALSE, <<>>, 12, <<>>)}

Half == "R16G16B16A16_SFLOAT"
Job(p, input, format, ops) == [plane |-> p, input |-> input, format |-> format, ops |-> ops]
Session == <<"images", "write", "pass", "read", "drop">>
Twice == <<"images", "write", "pass", "pass", "read", "drop">>
Short == <<"images", "pass", "drop">>
Pair(first, second) == [t \in {"t1", "t2"} |-> IF t = "t1" THEN first ELSE second]
MCScripts ==
    {Pair(Job("p1", Half, Half, Session), Job("p1", Half, Half, Short)),
     Pair(Job("p1", Half, Half, Twice), Job("p2", Half, Half, Short)),
     Pair(Job("p1", Half, "R32_SFLOAT", <<"images", "pass", "pass", "drop">>), Job("p1", "R16_UINT", Half, Short)),
     Pair(Job("p1", Half, Half, Short), Job("p1", Half, "R16G16_SFLOAT", Short)),
     Pair(Job("p1", Half, "R32_SFLOAT", Short), Job("p2", Half, "R32_SFLOAT", Short))}
=============================================================================
