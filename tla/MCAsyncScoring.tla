--------------------------- MODULE MCAsyncScoring ---------------------------
(* Values of AsyncScoring's constants for TLC. *)
EXTENDS AsyncScoringProofs

CONSTANTS t1, p1

\* One verdict: what the calls of one id disagree on is FraudScoring's question.
MCInferences == {[fraud |-> TRUE, score |-> 9, version |-> 1]}

MCSeedRecords ==
  {[tx |-> t1, payload |-> p1, label |-> FALSE, score |-> 0, version |-> 3, scored |-> FALSE]}
=============================================================================
