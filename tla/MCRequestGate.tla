---------------------------- MODULE MCRequestGate ----------------------------
(* Values of RequestGate's constants for TLC. *)
EXTENDS RequestGate, TLC

IPSymmetry == Permutations(IPs)
=============================================================================
