------------------------- MODULE MCInstanceLifecycle -------------------------
(* Bounds for TLC. *)
EXTENDS InstanceLifecycle
=============================================================================
