----------------------------- MODULE MCSlaveLink -----------------------------
(* Model checking of SlaveLink; the bounds are in the configurations. *)
EXTENDS SlaveLink
=============================================================================
