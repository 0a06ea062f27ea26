---------------------------- MODULE MCExplanations ----------------------------
(* Values of Explanations' constants for TLC. *)
EXTENDS Explanations

MCWeights == -2..2
MCValues == -2..2
MCOldNumbers == {-250, 0, 40}
=============================================================================
