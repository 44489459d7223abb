---------------------------- MODULE MCEditorClient ----------------------------
(* Two other clients, or a page with its one connection; and a pipeline of two nodes. *)
EXTENDS EditorClient, TLC

CONSTANTS c1, c2, page, tone, wb, v1, v2
MCClients == {c1, c2}
TwoNodes == {(tone :> v1 @@ wb :> v1)}
TwoCasts == {(c1 :> Other @@ c2 :> Other), (c1 :> page @@ c2 :> Nobody), (c1 :> Nobody @@ c2 :> page)}
Symmetry == Permutations(MCClients)
=============================================================================
