--------------------------- MODULE MCEditorServer ---------------------------
(* Two clients, two starts, and a clock long enough for two debounced re-runs. *)
EXTENDS EditorServer

CONSTANTS c1, c2
MCClients == {c1, c2}
=============================================================================
