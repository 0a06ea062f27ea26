--------------------------- MODULE MCFraudScoring ---------------------------
(* Values of FraudScoring's constants for TLC. *)
EXTENDS FraudScoring

CONSTANTS t1, p1, p2

\* Two models that disagree on everything a response shows.
MCInferences ==
  {[fraud |-> TRUE, score |-> 9, version |-> 1],
   [fraud |-> FALSE, score |-> 2, version |-> 2]}

MCSeedRecords ==
  {[tx |-> t1, payload |-> p1, label |-> TRUE, score |-> 9, version |-> 3, scored |-> TRUE],
   [tx |-> t1, payload |-> p1, label |-> FALSE, score |-> 0, version |-> 3, scored |-> FALSE]}
=============================================================================
