---------------------------- MODULE ScoredStore -----------------------------
(***************************************************************************)
(* What scoring calls and the seed script do to the two tables, commit by  *)
(* commit and without how they come to it.  FraudScoring implements it     *)
(* (Store there); the read API is modelled over it, so what readers see is *)
(* what FraudScoring lets happen.  created_at is the start of the writer's *)
(* transaction, which may be long ago when it commits: rows appear in any  *)
(* order of their times, and two of them may have the same.                *)
(***************************************************************************)
CONSTANTS TxIds,     \* business transaction ids
          Payloads,  \* persisted columns of a request
          Scores, Versions,
          BareIds,   \* ids the seed script stores without a prediction
          Times,     \* values of created_at
          Null

VARIABLES rows,      \* transactions, by business id
          preds,     \* model_predictions
          unscored   \* history: ids stored without a prediction

tables == <<rows, preds, unscored>>

Row == [payload: Payloads, fraud: BOOLEAN, score: Scores, version: Versions, at: Times]

Prediction == [tx: TxIds, label: BOOLEAN, score: Scores, at: Times]

History(t) == {c \in preds : c.tx = t}

Stored(t, row) == rows' = [rows EXCEPT ![t] = row]

Predicted(t, label, score, at) ==
  preds' = preds \cup {[tx |-> t, label |-> label, score |-> score, at |-> at]}

\* A row with other summary columns.
Summarised(row, fraud, score, version) ==
  [payload |-> row.payload, fraud |-> fraud, score |-> score, version |-> version,
   at |-> row.at]

\* A new id with its prediction, in one commit and with one created_at.
StoreScored(t) ==
  /\ rows[t] = Null
  /\ \E row \in Row :
       /\ Stored(t, row)
       /\ Predicted(t, row.fraud, row.score, row.at)
  /\ UNCHANGED unscored

\* A seeded row without a prediction.
StoreBare(t) ==
  /\ t \in BareIds
  /\ rows[t] = Null
  /\ \E row \in Row : ~row.fraud /\ Stored(t, row)
  /\ unscored' = unscored \cup {t}
  /\ UNCHANGED preds

\* A call scores a bare row.  Several calls may, each with a created_at of its own; then
\* the summary columns may be a mixture of their verdicts.
ScoreBare(t) ==
  /\ t \in unscored
  /\ \E label \in BOOLEAN, score \in Scores, at \in Times :
       /\ \A c \in History(t) : c.at # at
       /\ Predicted(t, label, score, at)
       /\ \E fraud \in BOOLEAN, sc \in Scores, version \in Versions :
            /\ History(t) = {} => fraud = label /\ sc = score
            /\ Stored(t, Summarised(rows[t], fraud, sc, version))
  /\ UNCHANGED unscored

StoreInit ==
  /\ rows = [t \in TxIds |-> Null]
  /\ preds = {}
  /\ unscored = {}

StoreNext == \E t \in TxIds : StoreScored(t) \/ StoreBare(t) \/ ScoreBare(t)

StoreSpec == StoreInit /\ [][StoreNext]_tables

-----------------------------------------------------------------------------
StoreTypeOK ==
  /\ rows \in [TxIds -> Row \cup {Null}]
  /\ preds \subseteq Prediction
  /\ unscored \subseteq BareIds

\* No id was scored by two calls.
ScoredAtMostOnce(t) == \A c, d \in History(t) : c = d
=============================================================================
