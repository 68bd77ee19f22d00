---------------------------- MODULE MCClientSave ----------------------------
(* Model checking of ClientSave. *)
EXTENDS ClientSave, TLC
=============================================================================
