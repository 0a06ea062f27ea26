----------------------------- MODULE MCReadApi ------------------------------
(* Values of ReadApi's constants for TLC. *)
EXTENDS ReadApi, TLC

CONSTANTS t1, t2, t3, p1, p2

MCFilters == {{p1}, {p1, p2}}

IdSymmetry == Permutations(TxIds \ BareIds)
=============================================================================
