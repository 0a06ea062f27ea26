----------------------------- MODULE MCApiProcess -----------------------------
(* Values of ApiProcess' constants for TLC are all in the configuration. *)
EXTENDS ApiProcess
=============================================================================
