--------------------------- MODULE MCModelServing ---------------------------
(* Values of ModelServing's constants for TLC: specs and files like the packaged ones. *)
EXTENDS ModelServing

MCColumns == {"Time", "V1", "Amount", "Class", "txn_id", "Country", "amount"}

MCAttribute ==
  [c \in MCColumns |-> CASE c \in {"Amount", "amount"} -> "amount"
                         [] c = "Country" -> "country"
                         [] OTHER -> Null]

\* creditcard.json, the same with the labels the other way round, one like
\* tabular_mixed.example.json, and one that infers all columns.
MCSpecs ==
  LET Creditcard(label) == [target |-> "Class", ids |-> {}, drops |-> {"Time"}, numbers |-> Null,
                            categories |-> {}, positive |-> label]
  IN  {Creditcard(1), Creditcard(0),
       [target |-> "Class", ids |-> {"txn_id"}, drops |-> {}, numbers |-> {"amount"},
        categories |-> {"Country"}, positive |-> 1],
       [target |-> "Class", ids |-> {}, drops |-> {}, numbers |-> Null,
        categories |-> {"Country"}, positive |-> 0]}

\* The last one has no fraud in it.
MCFrames ==
  {[columns |-> {"Time", "V1", "Amount", "Class"}, numeric |-> {"Time", "V1", "Amount", "Class"},
    labels |-> {0, 1}],
   [columns |-> {"txn_id", "amount", "Country", "Class"}, numeric |-> {"amount", "Class"},
    labels |-> {0, 1}],
   [columns |-> {"V1", "Country", "Class"}, numeric |-> {"V1", "Class"}, labels |-> {0}]}

MCRequests ==
  LET R(n, a, t, g) == [numbers |-> n, nans |-> a, texts |-> t, given |-> g]
  IN  {R({}, {}, {}, {}), R({"V1", "Time"}, {}, {"txn_id"}, {"country"}),
       R({"V1"}, {}, {"Amount"}, {}), R({}, {"V1"}, {}, {})}
=============================================================================
