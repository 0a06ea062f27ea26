--------------------------- MODULE MCRequestSchema ---------------------------
(* Values of RequestSchema's constants for TLC: one good request, the same  *)
(* written in other ways, and requests that differ from it or are refused.  *)
EXTENDS RequestSchema, TLC

MCFields == {"transaction_id", "customer_id", "merchant", "ip_address"}
MCRequired == {"transaction_id", "customer_id"}
MCWords == {"", "t", "c", "shop", "shopshop", "nul", "addr", "addr%zone"}
MCLength == [w \in MCWords |->
  CASE w = "" -> 0 [] w \in {"t", "c"} -> 1 [] w \in {"shop", "nul", "addr"} -> 3
    [] OTHER -> 8]
MCAdmitted == [f \in MCFields |->
  CASE f = "ip_address" -> {"addr", "addr%zone"}
    [] f = "merchant" -> MCWords
    [] OTHER -> MCWords \ {"", "nul"}]
MCLimit == [f \in MCFields |-> IF f = "ip_address" THEN 99 ELSE 3]
MCWidth == [f \in MCFields |-> IF f = "ip_address" THEN 5 ELSE 3]

Plain(w) == [word |-> w, padded |-> FALSE]
Padded(w) == [word |-> w, padded |-> TRUE]

Good == [texts |-> [f \in MCFields |->
           CASE f = "transaction_id" -> Plain("t") [] f = "customer_id" -> Plain("c")
             [] OTHER -> Null],
         amount |-> 1050, instant |-> 3, zone |-> "UTC", key |-> "transacted_at",
         features |-> "plain"]

With(r, f, t) == [r EXCEPT !.texts[f] = t]

SameWrittenOtherwise ==
  {Good, With(With(Good, "transaction_id", Padded("t")), "merchant", Padded("")),
   With(Good, "customer_id", Padded("c")), With(Good, "ip_address", Plain("")),
   [Good EXCEPT !.zone = "CET", !.key = "timestamp"],
   [Good EXCEPT !.features = "nonfinite"]}

Others ==
  {With(Good, "merchant", Plain("shop")), With(Good, "merchant", Padded("shop")),
   With(Good, "ip_address", Plain("addr")), With(Good, "ip_address", Plain("addr%zone")),
   With(Good, "merchant", Plain("nul")), [Good EXCEPT !.amount = 1060],
   [Good EXCEPT !.instant = 4]}

Bad ==
  {With(Good, "customer_id", Plain("")), With(Good, "merchant", Plain("shopshop")),
   [Good EXCEPT !.amount = 1055], [Good EXCEPT !.amount = 0], [Good EXCEPT !.zone = Null],
   [Good EXCEPT !.instant = 0], [Good EXCEPT !.instant = 9],
   [Good EXCEPT !.features = "bad"]}

MCRequests == SameWrittenOtherwise \cup Others \cup Bad

MCSeedRecords ==
  {[texts |-> Good.texts, amount |-> 1050, instant |-> 3],
   [texts |-> With(Good, "merchant", Padded("shop")).texts, amount |-> 1050, instant |-> 3]}
=============================================================================
