---------------------------- MODULE MCMasterConn ----------------------------
(* Model checking of MasterConn; the bounds are in the configurations. *)
EXTENDS MasterConn
=============================================================================
