------------------------------ MODULE MCSlaveGC ------------------------------
(* Instances of SlaveGC for TLC. *)
EXTENDS SlaveGC
=============================================================================
