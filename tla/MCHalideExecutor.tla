-------------------------- MODULE MCHalideExecutor --------------------------
(* Three concurrent runs of separate Pipeline objects. *)
EXTENDS HalideExecutor

CONSTANTS r1, r2, r3
=============================================================================
