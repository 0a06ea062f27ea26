---------------------------- MODULE FraudScoring ----------------------------
(***************************************************************************)
(* One scoring call of FraudScoringService.score_transaction, run by many  *)
(* API threads and workers at once against one PostgreSQL database (READ   *)
(* COMMITTED, unique constraint on transactions.transaction_id) and one    *)
(* Redis score cache.  A step of this module is what the code does between *)
(* two points at which another process can be seen: one SQL statement, one *)
(* commit, one Redis command.  A payload stands for the persisted columns  *)
(* of a request (amount, customer, timestamp, ...): two requests have the  *)
(* same payload exactly when _stored_row_matches_payload says so.          *)
(* model_features are not persisted and not compared, so the same payload  *)
(* may be given different inferences; they are in the choice Predict makes.*)
(***************************************************************************)
EXTENDS Naturals

CONSTANTS TxIds,        \* business transaction ids
          Payloads,     \* the persisted columns of a request, as one value
          Scores,       \* fraud scores
          Versions,     \* model versions
          ZeroScore,    \* the score 0.0 of a seeded row without a prediction
          Inferences,   \* what the predictor may return
          SeedRecords,  \* the records of the demo file seed_postgres.py loads
          Procs,        \* API threads and workers
          MaxCalls,     \* bound on the calls of a behaviour
          Null

Inference == [fraud: BOOLEAN, score: Scores, version: Versions]

Row == [payload: Payloads, fraud: BOOLEAN, score: Scores, version: Versions, at: 0..MaxCalls]

Body == [fraud: BOOLEAN, label: BOOLEAN, score: Scores, version: Versions,
         at: 0..MaxCalls]

Prediction == [tx: TxIds, label: BOOLEAN, score: Scores, at: 0..MaxCalls, done: Nat]

Call == [tx: TxIds, payload: Payloads, at: 0..MaxCalls]

SeedRecord == [tx: TxIds, payload: Payloads, label: BOOLEAN, score: Scores,
               version: Versions, scored: BOOLEAN]

Kinds == {"ok", "unchecked", "mismatch", "duplicate"}

Answer == [tx: TxIds, payload: Payloads, kind: Kinds, body: Body \cup {Null}]

ASSUME MaxCallsAssumption == MaxCalls \in Nat
ASSUME InferencesAssumption == Inferences \subseteq Inference
ASSUME ZeroScoreAssumption == ZeroScore \in Scores
ASSUME SeedAssumption == SeedRecords \subseteq SeedRecord
ASSUME NullAssumption == Null \notin Row /\ Null \notin Body /\ Null \notin Call

VARIABLES
  rows,      \* transactions: the committed row of each id, Null if there is none
  preds,     \* model_predictions: the committed rows
  unscored,  \* history: ids that seeding stored without a prediction
  cache,     \* Redis: the cached body of each id, Null if there is none
  pc,        \* per process: where its call is
  call,      \* per process: the call it runs
  seen,      \* per process: `existing`, the row as its first SELECT returned it
  out,       \* per process: the body it is about to store or to cache
  answers,   \* history: every answer a caller got from the scoring service
  calls      \* the calls begun so far; also the clock of created_at

store == <<rows, preds, unscored>>
local == <<pc, call, seen, out>>
vars == <<rows, preds, unscored, cache, pc, call, seen, out, answers, calls>>

Steps == {"idle", "cache", "history", "predict", "insert", "commit", "put"}

-----------------------------------------------------------------------------
(* Helpers.  A definition named ...Without... or ...Before... is a variant of the one
   that follows it, as a slip in the code would make it; no action uses it.  Each
   breaks a property below, which shows what the property depends on. *)

\* Variant: no comparison with the stored row.
MayProceedWithoutCheck(t, pl) == TRUE

\* Nothing is stored for the id, or a row with the columns of this request.
MayProceed(t, pl) == rows[t] # Null => rows[t].payload = pl

History(t) == {c \in preds : c.tx = t}

\* ORDER BY created_at DESC, first row; created_at is the start of the writer's
\* database transaction, which is its first SELECT.
Newest(t) == {c \in History(t) : \A d \in History(t) : d.at <= c.at}

\* The answer of a replay: label, score and time of the prediction, the other
\* columns of the row the call read when it began.
ReplayBody(row, c) ==
  [fraud |-> row.fraud, label |-> c.label, score |-> c.score,
   version |-> row.version, at |-> c.at]

InferenceBody(inf, at) ==
  [fraud |-> inf.fraud, label |-> inf.fraud, score |-> inf.score,
   version |-> inf.version, at |-> at]

\* Variant: the id is taken before the row is inserted, and never by its own caller.
HoldsKeyBeforeInsert(p, t) == pc[p] \in {"insert", "commit"} /\ seen[p] = Null /\ call[p].tx = t

\* A call that has inserted its row and not committed it holds the id in the
\* unique index: PostgreSQL makes another INSERT of the id wait for it.
HoldsKey(p, t) == pc[p] = "commit" /\ seen[p] = Null /\ call[p].tx = t

\* Variant: transaction_id is not unique.
KeyFreeWithoutUnique(t) == TRUE

KeyFree(t) == \A q \in Procs : ~HoldsKey(q, t)

\* Variant: the fraud column is left at its default.
InsertedRowWithoutLabel(pl, b) ==
  [payload |-> pl, fraud |-> FALSE, score |-> b.score, version |-> b.version, at |-> b.at]

InsertedRow(pl, b) ==
  [payload |-> pl, fraud |-> b.fraud, score |-> b.score, version |-> b.version, at |-> b.at]

\* The ORM's UPDATE sets only the columns whose value differs from the loaded one.
Written(stored, loaded, new) == IF new = loaded THEN stored ELSE new

\* Variant: update_transaction_score_summary is not called.
UpdatedRowWithoutSummary(row, snap, b) == row

UpdatedRow(row, snap, b) ==
  [payload |-> row.payload,
   fraud   |-> Written(row.fraud, snap.fraud, b.fraud),
   score   |-> Written(row.score, snap.score, b.score),
   version |-> Written(row.version, snap.version, b.version),
   at      |-> row.at]

NewPrediction(p) ==
  [tx |-> call[p].tx, label |-> out[p].label, score |-> out[p].score,
   at |-> call[p].at, done |-> calls]

Goto(p, step) == pc' = [pc EXCEPT ![p] = step]

\* The call is over: its session is closed, and with it its transaction and locks.
EndCall(p) ==
  /\ Goto(p, "idle")
  /\ call' = [call EXCEPT ![p] = Null]
  /\ seen' = [seen EXCEPT ![p] = Null]
  /\ out' = [out EXCEPT ![p] = Null]

Told(t, pl, kind, body) ==
  answers' = answers \cup {[tx |-> t, payload |-> pl, kind |-> kind, body |-> body]}

-----------------------------------------------------------------------------
(* The steps of a call *)

\* SELECT the row; no row, or the row of this payload: the call goes on to Redis.
Lookup(p, t, pl) ==
  /\ pc[p] = "idle"
  /\ calls < MaxCalls
  /\ MayProceed(t, pl)
  /\ calls' = calls + 1
  /\ Goto(p, "cache")
  /\ call' = [call EXCEPT ![p] = [tx |-> t, payload |-> pl, at |-> calls + 1]]
  /\ seen' = [seen EXCEPT ![p] = rows[t]]
  /\ UNCHANGED <<store, cache, out, answers>>

\* SELECT the row; it holds other data: TransactionPayloadMismatchError (409).
RefuseMismatch(p, t, pl) ==
  /\ pc[p] = "idle"
  /\ calls < MaxCalls
  /\ ~MayProceed(t, pl)
  /\ calls' = calls + 1
  /\ Told(t, pl, "mismatch", Null)
  /\ UNCHANGED <<store, cache, local>>

\* GET hits: the cached body is the answer, whatever payload it was stored for.
\* "unchecked" marks an answer given although the call saw no row to compare with.
CacheHit(p) ==
  LET t == call[p].tx
  IN  /\ pc[p] = "cache"
      /\ cache[t] # Null
      /\ Told(t, call[p].payload, IF seen[p] = Null THEN "unchecked" ELSE "ok", cache[t])
      /\ EndCall(p)
      /\ UNCHANGED <<store, cache, calls>>

\* Variant: no replay from the database.
AfterMissWithoutReplay(row) == "predict"

AfterMiss(row) == IF row = Null THEN "predict" ELSE "history"

CacheMiss(p) ==
  /\ pc[p] = "cache"
  /\ cache[call[p].tx] = Null
  /\ Goto(p, AfterMiss(seen[p]))
  /\ UNCHANGED <<store, cache, call, seen, out, answers, calls>>

\* The row has predictions: answer from the newest, then cache that answer.
Replay(p) ==
  /\ pc[p] = "history"
  /\ \E c \in Newest(call[p].tx) : out' = [out EXCEPT ![p] = ReplayBody(seen[p], c)]
  /\ Goto(p, "put")
  /\ UNCHANGED <<store, cache, call, seen, answers, calls>>

\* The row has no prediction (a seeded row): it is scored like a new one.
NoHistory(p) ==
  /\ pc[p] = "history"
  /\ History(call[p].tx) = {}
  /\ Goto(p, "predict")
  /\ UNCHANGED <<store, cache, call, seen, out, answers, calls>>

\* Variant: the answer is cached before the row is committed.
AfterPredictBeforeCommit(row) == IF row = Null THEN "put" ELSE "commit"

AfterPredict(row) == IF row = Null THEN "insert" ELSE "commit"

Predict(p) ==
  /\ pc[p] = "predict"
  /\ \E inf \in Inferences :
       out' = [out EXCEPT ![p] = InferenceBody(inf, call[p].at)]
  /\ Goto(p, AfterPredict(seen[p]))
  /\ UNCHANGED <<store, cache, call, seen, answers, calls>>

\* The features do not fit the model: FraudModelInputError (422).
RejectInput(p) ==
  /\ pc[p] = "predict"
  /\ EndCall(p)
  /\ UNCHANGED <<store, cache, answers, calls>>

\* INSERT and flush: the row is in the open transaction, nobody else sees it.
Insert(p) ==
  /\ pc[p] = "insert"
  /\ KeyFree(call[p].tx)
  /\ rows[call[p].tx] = Null
  /\ Goto(p, "commit")
  /\ UNCHANGED <<store, cache, call, seen, out, answers, calls>>

\* INSERT meets a committed row: IntegrityError, rollback, DuplicateTransactionError.
RefuseDuplicate(p) ==
  /\ pc[p] = "insert"
  /\ KeyFree(call[p].tx)
  /\ rows[call[p].tx] # Null
  /\ Told(call[p].tx, call[p].payload, "duplicate", Null)
  /\ EndCall(p)
  /\ UNCHANGED <<store, cache, calls>>

CommittedRow(p) ==
  IF seen[p] = Null
  THEN InsertedRow(call[p].payload, out[p])
  ELSE UpdatedRow(rows[call[p].tx], seen[p], out[p])

\* Prediction, summary columns and (for a new id) the row are committed together.
Commit(p) ==
  /\ pc[p] = "commit"
  /\ rows' = [rows EXCEPT ![call[p].tx] = CommittedRow(p)]
  /\ preds' = preds \cup {NewPrediction(p)}
  /\ Goto(p, "put")
  /\ UNCHANGED <<unscored, cache, call, seen, out, answers, calls>>

\* SETEX and answer.
CachePut(p) ==
  /\ pc[p] = "put"
  /\ cache' = [cache EXCEPT ![call[p].tx] = out[p]]
  /\ Told(call[p].tx, call[p].payload, "ok", out[p])
  /\ EndCall(p)
  /\ UNCHANGED <<store, calls>>

\* SETEX takes effect, its reply is lost: the caller gets an error (500).
CachePutUnacked(p) ==
  /\ pc[p] = "put"
  /\ cache' = [cache EXCEPT ![call[p].tx] = out[p]]
  /\ EndCall(p)
  /\ UNCHANGED <<store, answers, calls>>

\* A database or Redis call raises, or the process dies.  Whatever is not committed
\* is rolled back; what is committed stays, and the caller gets no answer (or a 500).
Fail(p) ==
  /\ pc[p] # "idle"
  /\ EndCall(p)
  /\ UNCHANGED <<store, cache, answers, calls>>

-----------------------------------------------------------------------------
(* The other writers of the store *)

\* Variant: the score column is not given its 0.0.
SeededRowWithoutZero(rec) ==
  [payload |-> rec.payload,
   fraud   |-> rec.scored /\ rec.label,
   score   |-> IF rec.scored THEN rec.score ELSE Null,
   version |-> rec.version,
   at      |-> calls]

\* _insert_transaction: without a prediction the row is "legit" with score 0.0.
SeededRow(rec) ==
  [payload |-> rec.payload,
   fraud   |-> rec.scored /\ rec.label,
   score   |-> IF rec.scored THEN rec.score ELSE ZeroScore,
   version |-> rec.version,
   at      |-> calls]

SeededPredictions(rec) ==
  IF rec.scored
  THEN {[tx |-> rec.tx, label |-> rec.label, score |-> rec.score,
         at |-> calls, done |-> calls]}
  ELSE {}

\* One record of the seed script: SELECT, INSERT, COMMIT.  A record whose id is
\* stored is skipped, ends the script or is rolled back: nothing changes.
SeedRow(rec) ==
  /\ rows[rec.tx] = Null
  /\ KeyFree(rec.tx)
  /\ rows' = [rows EXCEPT ![rec.tx] = SeededRow(rec)]
  /\ preds' = preds \cup SeededPredictions(rec)
  /\ unscored' = IF rec.scored THEN unscored ELSE unscored \cup {rec.tx}
  /\ UNCHANGED <<cache, local, answers, calls>>

\* The TTL of a cached score passes, or Redis loses it.
Expire(t) ==
  /\ cache[t] # Null
  /\ cache' = [cache EXCEPT ![t] = Null]
  /\ UNCHANGED <<store, local, answers, calls>>

\* All calls of the bounded behaviour are over.
Rest ==
  /\ calls = MaxCalls
  /\ \A p \in Procs : pc[p] = "idle"
  /\ UNCHANGED vars

-----------------------------------------------------------------------------
Init ==
  /\ rows = [t \in TxIds |-> Null]
  /\ preds = {}
  /\ unscored = {}
  /\ cache = [t \in TxIds |-> Null]
  /\ pc = [p \in Procs |-> "idle"]
  /\ call = [p \in Procs |-> Null]
  /\ seen = [p \in Procs |-> Null]
  /\ out = [p \in Procs |-> Null]
  /\ answers = {}
  /\ calls = 0

Begin(p, t, pl) == Lookup(p, t, pl) \/ RefuseMismatch(p, t, pl)

Proceed(p) ==
  \/ CacheHit(p) \/ CacheMiss(p)
  \/ Replay(p) \/ NoHistory(p)
  \/ Predict(p) \/ RejectInput(p)
  \/ Insert(p) \/ RefuseDuplicate(p)
  \/ Commit(p)
  \/ CachePut(p) \/ CachePutUnacked(p)

Environment ==
  \/ \E rec \in SeedRecords : SeedRow(rec)
  \/ \E t \in TxIds : Expire(t)

Next ==
  \/ \E p \in Procs, t \in TxIds, pl \in Payloads : Begin(p, t, pl)
  \/ \E p \in Procs : Proceed(p) \/ Fail(p)
  \/ Environment
  \/ Rest

Spec == Init /\ [][Next]_vars

\* A thread that runs a call is scheduled, its statements are answered, and a
\* waiting INSERT is woken when the holder of the id is gone.  Nothing is assumed
\* of new calls, failures, seeding and expiry.
FairSpec == Spec /\ \A p \in Procs : WF_vars(Proceed(p))

-----------------------------------------------------------------------------
TypeOK ==
  /\ rows \in [TxIds -> Row \cup {Null}]
  /\ preds \subseteq Prediction
  /\ unscored \subseteq TxIds
  /\ cache \in [TxIds -> Body \cup {Null}]
  /\ pc \in [Procs -> Steps]
  /\ call \in [Procs -> Call \cup {Null}]
  /\ seen \in [Procs -> Row \cup {Null}]
  /\ out \in [Procs -> Body \cup {Null}]
  /\ answers \subseteq Answer
  /\ calls \in 0..MaxCalls

\* An id that was ever stored with its score (by a call, or by a seed record that
\* has a prediction).
Scored(t) == rows[t] # Null /\ t \notin unscored

IsAnswered(a) == a.kind \in {"ok", "unchecked"}

\* The row and a body give the same verdict.
SameVerdict(row, b) ==
  row.fraud = b.fraud /\ row.score = b.score /\ row.version = b.version

KeepsScores ==
  \A t \in TxIds :
    /\ Scored(t) => rows'[t] = rows[t] /\ History(t)' = History(t)
    /\ rows[t] # Null => rows'[t] # Null /\ rows'[t].payload = rows[t].payload

\* Once an id is stored with its score, no later call, retry, failure, crash or seed
\* run changes its row or adds, drops or changes a prediction of it (the replay
\* branches of score_transaction); of any stored id the payload columns stay.
StoredScoreIsFinal == [][KeepsScores]_vars

\* A stored id that was not seeded bare has exactly one prediction: not none (the row
\* and its prediction are one commit) and not two (no call scores it again), and the
\* summary columns of the row are those of that prediction.
OneScorePerTransaction ==
  \A t \in TxIds : Scored(t) =>
    \E c \in preds : /\ History(t) = {c}
                     /\ rows[t].score = c.score
                     /\ rows[t].fraud = c.label

\* Also for a row seeded bare: as long as it has a single prediction, the column-wise
\* UPDATE of update_transaction_score_summary left the row consistent with it.
LonePredictionMatchesRow ==
  \A t \in TxIds : \A c \in History(t) :
    History(t) = {c} => rows[t].score = c.score /\ rows[t].fraud = c.label

\* A call that begins after a score of the id is committed never adds a second one:
\* two predictions of one id come from calls that overlapped.
NoScoreAfterScore ==
  \A c, d \in preds : c.tx = d.tx => c.at <= d.done

\* Redis never holds, and no caller is told, a score that the database has not
\* committed: a cached or told body names a committed prediction of its id.
Backed(t, b) ==
  rows[t] # Null /\ \E c \in History(t) : c.label = b.label /\ c.score = b.score /\ c.at = b.at

CacheBackedByStore ==
  /\ \A t \in TxIds : cache[t] # Null => Backed(t, cache[t])
  /\ \A a \in answers : IsAnswered(a) => Backed(a.tx, a.body)

\* Whatever the order of calls, retries, expiries and failures, all callers who are
\* given a score of an id are given the same one (fresh, cached or replayed); only an
\* id seeded without a prediction is excepted.
AnswersAgree ==
  \A a, b \in answers :
    (IsAnswered(a) /\ IsAnswered(b) /\ a.tx = b.tx /\ a.tx \notin unscored)
      => a.body = b.body

\* Every answer is true of the store, also later: a score is given for the payload
\* stored (unless the call saw no row), 409 mismatch only if other data is stored,
\* 409 duplicate only if the id is stored.
AnswersMatchStore ==
  \A a \in answers :
    /\ rows[a.tx] # Null
    /\ a.kind = "ok" => rows[a.tx].payload = a.payload
    /\ a.kind = "mismatch" => rows[a.tx].payload # a.payload
    /\ IsAnswered(a) /\ a.tx \notin unscored => SameVerdict(rows[a.tx], a.body)

\* No call waits for ever, also not the INSERT that waits for another call's commit.
CallsEnd == \A p \in Procs : pc[p] # "idle" ~> pc[p] = "idle"

-----------------------------------------------------------------------------
(* The promise of ScoreLedger, read off the store and the answers. *)

PromisedRows == [t \in TxIds |-> IF t \in unscored THEN Null ELSE rows[t]]

PromisedAnswers ==
  {a \in answers : IsAnswered(a) /\ a.tx \notin unscored}

ToldVerdicts ==
  {[tx |-> a.tx, fraud |-> a.body.fraud, score |-> a.body.score,
    version |-> a.body.version] : a \in PromisedAnswers}

Ledger == INSTANCE ScoreLedger
  WITH Times <- 0..MaxCalls, ledger <- PromisedRows, told <- ToldVerdicts

\* FraudScoring, every interleaving, failure and expiry of it, behaves as the ledger.
ImplementsLedger == Ledger!Spec

\* What readers see of FraudScoring is what ScoredStore allows.
Shown(c) == [tx |-> c.tx, label |-> c.label, score |-> c.score, at |-> c.at]

ShownPreds == {Shown(c) : c \in preds}

BareIds == {rec.tx : rec \in {r \in SeedRecords : ~r.scored}}

Store == INSTANCE ScoredStore WITH Times <- 0..MaxCalls, preds <- ShownPreds

\* The tables change only as ScoredStore says, on which the read API is modelled.
ImplementsStore == Store!StoreSpec

-----------------------------------------------------------------------------
(* What the documents say of the service and the code does not do *)

\* README.md:144 and the docstring of FraudScoringService (fraud_scoring.py:37-40):
\* a score is only given for the persisted fields of the stored transaction, other
\* fields get a 409, also when the answer comes from Redis.
OtherDataIsRefused ==
  \A a \in answers : IsAnswered(a) => rows[a.tx].payload = a.payload
=============================================================================
