# Verification of the real-time fraud detection service

TLA+ models of the service under `src/`, the TLC runs that check them on small
instances, and proofs about them that TLAPS checks for every value of the constants.
Paths below are relative to `src/` (so `app/...` is `src/app/...`).

1. [The system](#1-the-system)
2. [The modules](#2-the-modules)
3. [The runs](#3-the-runs)
4. [Fairness](#4-fairness)
5. [The proofs](#5-the-proofs)
6. [Where documents and code disagree](#6-where-documents-and-code-disagree)
7. [What is not modelled](#7-what-is-not-modelled)
8. [Plan](#8-plan)

## 1. The system

A FastAPI service scores card transactions. A client posts a transaction under a business
`transaction_id`; the service runs a model (or a stub), stores transaction and prediction
in PostgreSQL, caches the answer in Redis and returns it. A client may instead queue the
transaction on a Redis list, from which worker processes take it. A read API lists what is
stored. A seed script fills the database with demo rows.

| Component | State | Operations | Talks to |
|---|---|---|---|
| Scoring service `app/services/fraud_scoring.py`, `transaction_persistence.py` | none of its own; a SQLAlchemy session per call | `score_transaction`: SELECT, compare, GET, replay, predict, INSERT, commit, SETEX | store, cache, predictor |
| Store `app/models`, `app/db`, `alembic` | `transactions` (unique `transaction_id`), `model_predictions` | SQL at READ COMMITTED | |
| Score cache `app/services/cache_service.py` | one body per id, with a TTL | GET, SETEX | Redis |
| Queue `app/queue/redis_score_queue.py` | one Redis list | LPUSH, BRPOP | Redis |
| Worker `app/workers/fraud_score_worker.py` | `_shutdown`, the job in its hands | pop, validate, score, log; SIGTERM | queue, scoring service |
| HTTP routes `app/api` | none | `POST /score`, `POST /score-async`, three GETs | everything above |
| Request gate `app/security` | two dicts of deques per client IP | limit, prune, refuse; check Content-Length | |
| Inference `app/ml/inference.py` | pipeline and metadata, or the stub | `load`, `predict` | artifacts |
| Read service `app/services/transaction_read_service.py` | none | list with filters, detail, recent predictions | store |
| Seed script `scripts/seed_postgres.py` | none | SELECT, INSERT, commit per record | store |
| Request schemas `app/schemas` | none | validate, normalise; build the response | |
| API process `app/main.py`, `app/db/session.py`, `app/redis_client.py`, `app/api/routes/health.py` | settings, `app.state.fraud_predictor`, worker threads, connection pool, the lazy Redis client | middlewares, predictor load, sessions, probes | everything above |
| Explanations `app/ml/explainability.py` | none | rank the features of a prediction, build the payload that is stored | inference, response |
| Training `app/ml/model_training.py`, `artifacts.py`, `dataset_spec.py` | bundle and sidecar files | resolve columns, fit, write both files | artifacts |
| Evaluation, observability, demo data | | | |

What is hard, and what makes each part correct:

* **Scoring.** API threads and workers run the same call at once, in any interleaving of its
  SQL statements, commits and Redis commands. The call decides on what it read at its beginning
  (`existing`) and acts later. Clients retry. Redis or the database may fail between any two
  steps, and the cache write comes after the commit. Correct means: an id is scored once;
  whatever is cached or told is committed; everybody is told the same verdict, the one that is
  stored; a stored score never changes; no call waits for ever.
* **Queue and workers.** BRPOP removes a job before it is scored. Workers are stopped, die and
  come back at any moment. The blocking pop has a timeout on both ends of its connection.
  Correct means: a job is in one place; it is lost only with the worker it was popped for; jobs
  are popped in order; scoring by a worker is the same as scoring by the API; jobs are drained
  and a stop request ends its worker.
* **Request gate.** Two sliding windows per client, pruned lazily, with an exact boundary.
  Correct means: no window holds more than the limit, wherever it begins; a 429 is deserved;
  who waits for the `Retry-After` passes.
* **Read API.** Count and page are two statements, row and history two more; the page is an
  OFFSET into a list that grows anywhere; the latest label is computed in two ways. Correct
  means: a page is as long as its total promises; a client that walks to the end misses
  nothing; it sees a row twice only if others committed; labels agree with each other.
* **Training and inference.** A bundle is overwritten in place while processes start; a feature
  contract between training metadata and request; a stub that stands in for a model that cannot
  be loaded. Correct means: what is loaded is the bundle of one finished job, unless a job
  wrote while it was read; a score by such a bundle rests on values of the request, and is the
  probability of fraud, not of its opposite.
* **Requests and rows.** A request is normalised, stored in columns, compared with columns by a
  later request, written as JSON for a worker and validated a second time. Correct means:
  retries are recognised however they are written, other data are not taken for a retry, what
  is accepted can be stored and survives the queue.
* **API process.** Every request passes through worker threads several times and takes a
  connection in between. Correct means: requests do not block each other for ever, whatever
  fails gives its thread and connection back, and racing requests settle on one Redis client.
* **Explanations.** A short list of factors speaks for all of them. Correct means: directions
  are true, what is left out is small, and what the code builds can be shown.

The list `hazards` in `PROJECT.json` names each of these at its line, with the properties
that would catch it going wrong.

## 2. The modules

| Module | What it is |
|---|---|
| `ScoreLedger` | the abstract promise: a score is written once per id, and callers are told only what is written |
| `FraudScoring` | `score_transaction` run by many processes against one database and one cache; seed script; expiry |
| `FraudScoringProofs` | its inductive invariant, the theorems, and that it implements `ScoreLedger` and `ScoredStore` |
| `AsyncScoring` | EXTENDS `FraudScoring`: the queue, the workers' loop, and API threads beside them |
| `AsyncScoringProofs` | EXTENDS both: the theorems about queue and workers, and that the composition implements `FraudScoring` |
| `RequestGate`, `RequestGateProofs` | rate limits and body size, and their theorems |
| `ScoredStore` | the two tables as their readers see them, written by anybody at any `created_at` |
| `ReadApi`, `ReadApiProofs` | EXTENDS `ScoredStore`: the statements of the three GETs, a client that pages; the theorems about them |
| `ModelServing`, `ModelServingProofs` | from a training job over the bundle file and a starting process to a score; the theorems about it |
| `RequestSchema`, `RequestSchemaProofs` | fields of a request: validation, normalisation, columns, comparison, JSON; the theorems about them |
| `ApiProcess`, `ApiProcessProofs` | threads, connections and the Redis client that requests of a process compete for; the theorems about them |
| `Explanations`, `ExplanationsProofs` | factors of a score, from the classifier to the response; the theorems about them |
| `MC...` | values for the constants |

How they compose: `AsyncScoring` contains `FraudScoring` and implements it (theorem and
run); `FraudScoring` implements `ScoreLedger` and `ScoredStore` (theorems and runs);
`ReadApi` runs over `ScoredStore`, so what it shows holds of reads beside the real writers.
`ModelServing` refines the one point that `FraudScoring` leaves open: which inference, or
which rejection, `Predict` and `RejectInput` choose. `RequestSchema` looks into what
`FraudScoring` calls a payload: its `RetriesAreRecognised` is why "the same payload" there
is the same as "`_stored_row_matches_payload` says so". `ApiProcess` looks into `Fail` of
the scoring call: where a thread or connection comes from and when it is given back.
`Explanations` looks into the JSON that travels with a prediction.

Operators marked `Variant:` in their comment (`...Without...`, `...Before...`,
`...OffByOne` and the like) are variants of the definition below them, as a slip in the
code would make it. No action uses them. Putting
one in the place of its definition breaks the property that `PROJECT.json` lists with it
under `mutants`.

### FraudScoring

The grain is one step per SQL statement, commit or Redis command: what another process can
see in between. `pc` is where a call is.

| `pc` | Next step of the call | Code |
|---|---|---|
| `idle` | `Lookup`, or `RefuseMismatch` (409) | `fraud_scoring.py:124-127` |
| `cache` | `CacheHit` (answer), `CacheMiss` | `:107-112` with a row, `:135-140` without |
| `history` | `Replay`, or `NoHistory` for a row seeded bare | `:114-121`, `:133` |
| `predict` | `Predict`, or `RejectInput` (422) | `:142-149` |
| `insert` | `Insert`, or `RefuseDuplicate` (409) | `transaction_persistence.py:35-43` |
| `commit` | `Commit`: row or summary UPDATE, prediction, commit | `fraud_scoring.py:157-177` |
| `put` | `CachePut` (answer), `CachePutUnacked` (500) | `:200-204`, `:119-120` |
| any | `Fail`: an exception or the death of the process | `:182-184`, `app/db/session.py:27-33` |

| Variable | Code |
|---|---|
| `rows`, `preds` | committed rows of `transactions` and `model_predictions` |
| `cache` | the Redis keys `fraud:score:v1:tx:<id>` |
| `call`, `seen`, `out` | per call: the payload, `existing`, and the `response` being built |
| `answers`, `unscored` | history: what callers were told; ids stored by the seed without a prediction |
| `calls` | bound on calls, and the clock of `created_at` |

Abstractions, and why they lose nothing the properties tell apart:

* A payload is one value: the columns `_stored_row_matches_payload` compares. Two requests
  have the same payload exactly when that function says so. `model_features` are neither
  stored nor compared, so the same payload may be given different inferences.
* `Predict` chooses among `Inferences`: two calls may run different models (a worker with
  the stub beside an API with a bundle) or send different features.
* `created_at` is PostgreSQL's `now()`, the start of the writer's transaction, which is its
  first SELECT: hence `at` is set by `Lookup`.
* A flushed row nobody else sees is not in `rows`; what others notice of it is that their
  INSERT of the id waits (`HoldsKey`, `KeyFree`).
* The ORM's UPDATE writes only changed columns (`Written`). Two calls that score the same
  bare seeded row may so leave a mixture, which the model reaches.
* The database is PostgreSQL at its default READ COMMITTED. SQLite, which the settings
  also accept and the tests use, serialises writers and shows fewer interleavings.

The history variables are read by properties only.

### AsyncScoring

`StartScoring`, `JobMismatch`, `ScoreStep`, `JobScored`, `JobRefused`, `JobFailed` conjoin
a step of `FraudScoring` with the step of the worker's loop, so nothing of the scoring call
is modelled twice. `jobs` holds the job of each push, `queue` the list, `fate` (history)
what became of each job: `queued`, `held`, `scored`, `refused` (409 logged), `failed`
(any other exception logged), `dropped` (unreadable), `lost` (its worker died). A pop is two
steps: `Pop` is the server's, after which the job is off the list and its reply on the way
(`wpc` is `sent`), `Receive` is the worker's.
`BrpopTimeout` and `SocketTimeout` are the two timeouts of the pop: `PopTimeout` (nil reply
first, `continue`) is possible if the first is at most the second, `IdleTimeout`
(`redis.TimeoutError` first, leaves `run()`) if the second is at most the first. At
equality, the default, both are. `ReplyMissed` is the same exception when BRPOP has taken a
job: the reply comes too late, or the server serves a client that has just given up, and the
job is lost. `JobsLostOnlyWithWorker` names this window and a crash as the only ones in which
a job is lost. `Sigterm` sets `_shutdown` wherever the worker is (a
system call that was interrupted is resumed). `Crash` takes the job in the worker's hands
along, and the session is rolled back. `Restart` is a new process. `Enqueue` covers a lost
reply of LPUSH, too: the job is in the list.

### RequestGate

One action per way through `dispatch`. There is no await between reading the clock and
the answer (the asyncio lock is never contended: nothing is awaited while it is held), so
a request is one step; `Tick` moves the clock. `fraudLog` and `generalLog` are histories of
every time ever appended; the properties compare the pruned deques with them. `_prune` is
`Expired`, how many entries it pops, given as the set of the one number that fits. That
`ScoreRefusedByApi` counts the refused request in the scoring bucket is the code's order
(`rate_limit.py:72` before `:77`).

### ScoredStore and ReadApi

`ScoredStore` has three ways in which committed rows change: a row comes with its
prediction (`StoreScored`), comes bare from the seed (`StoreBare`), or a row that came bare
gets a prediction and a new summary (`ScoreBare`, which two overlapping calls may do
twice). `created_at` is any time: it is when the writer's transaction began, so that rows
appear in the middle of the lists. `Summarised` is the ORM's UPDATE of the changed columns.
`FraudScoring` implements it under a mapping that forgets what its predictions carry for
the properties only (`ShownPreds`).

`ReadApi` has one action per SQL statement: `CountFirst` and `CountNext` (the COUNT of a
request for a page), `FetchPage` (its SELECT with LIMIT and OFFSET), `GetRow` and
`GetHistory` (the two statements of the detail). The client walks a list from offset 0 by
`NextOffset` until a page is empty. Where rows have equal `created_at`, the order of the
page is any order (`Heads`): the SQL has no tie-break. The filters by customer, country and
so on are a filter by payload, the filter by label is the join with the latest prediction
(`LatestJoin`); the label column is the other subquery (`Column`).

`WalkMissesNothing` and `RepeatsOnlyAfterCommits` speak of walks in which the rows seen have
different times (`DistinctTimes`), and the first also of lists that only grow
(`OnlyGrows`): with a filter by label, a bare row that is scored again may leave the list,
and the next OFFSET then skips a row. Both exceptions are real, and listed as hazards.

### ModelServing

| Part | Actions | Code |
|---|---|---|
| training job | `Train` (all up to opening the file), `BundleWritten`, `SidecarWritten`, `TrainerDies` | `model_training.py:79-161`, `artifacts.py:20-28` |
| process start | `StartStub`, `FindFile`, `CannotLook`, `Open`, `Load`, `LoadTorn`, `LoadFails`, `Stop` | `inference.py:61-96`, `main.py:22-48`, worker `:41-66` |
| prediction | `PredictByStub`, `Unavailable` (503), `Refuse` (422), `Predict`, `PredictTorn` | `inference.py:126-218`, `deps.py:26-45` |

`Numeric`, `Categorical` and `Trainable` are `resolve_feature_columns` and the checks around
it; `FeatureRow` says where the value of each column comes from (a feature, the amount, an
attribute, a blank, the imputer's median for a NaN). `joblib.dump` writes in place, so a
process may read on while jobs truncate and write the file under its hands (`opened` is no
longer what the file holds). Then `joblib` raises and the stub is used (`LoadFails`), or what
was read can be unpickled all the same (`LoadTorn`): the process serves with `Torn`, of which
nothing is assumed, neither columns nor labels nor the trees of one forest, and `PredictTorn`
answers with anything. `rewritten` remembers that a job wrote during a load. The properties say
that only such loads end torn, that every other one ends with the whole bundle of a job that
wrote it to its end (`written`), and what answers by such bundles are worth. Floats,
scikit-learn and the hash of the stub are not modelled; that scikit-learn refuses infinities,
texts in numeric columns and columns it does not find is.

### RequestSchema

A text is a word and whether white space surrounds it. What validators and columns tell
apart of a word is given by constants: which words each field's validators let through
(`Admitted`: the pattern of `transaction_id`, `ipaddress.ip_address`, control characters in
`customer_id`), its length, the field's `max_length` (`Limit`) and column width (`Width`),
and the words that no column takes (`Unstorable`: a NUL passes `merchant`). `ip_address` has no
`max_length`; an IPv6 address may have a zone of any length. That the code's own limits are
at most the widths of their columns, but for `ip_address`, was found by reading: the model
calls a field unlimited if they are not (`Unlimited`). `Unrepresentable` are the times whose
UTC form is outside of the years 1 to 9999. Amounts are in mills, so that a
third decimal exists.

| Action | Code |
|---|---|
| `Refuse` | a 422 of `FraudScoreRequest`, `schemas/fraud.py:29-96`, `schemas/common.py` |
| `CannotCheck` | `schemas/fraud.py:83`: `astimezone` raises OverflowError once all fields are valid, which is no validation error: a 500, before the bounds are compared |
| `Post` with `StoreNew`, `CannotStore`, `Replay`, `RefuseMismatch` | `fraud_scoring.py:123-184` in one step; `CannotStore` is the driver's or the database's error (500) |
| `PostAsync` | `routes/fraud.py:71-80`, `model_dump_json` of the normalised body (`Json`) |
| `Work`, `Drop` | `fraud_score_worker.py:70-102`: `model_validate_json`, by a clock that is `Lag` behind |
| `Seed` | `seed_postgres.py:54-76`: the record as it is written in the file, unchecked |

Two things are reachable that the properties except by name: a job with a NaN or an infinity
is read as `null` and dropped, and a worker whose clock is behind the API's drops a job
dated a day ahead. A seeded row with white space around a text is a mismatch for every
request, since requests are stripped: `RetriesAreRecognised` speaks of rows that the API or a
worker stored. In the columns `_stored_row_matches_payload` finds exactly what was posted,
because `max_length` and the amount's two decimals keep everything that the columns keep.

### ApiProcess

FastAPI runs synchronous dependencies, the route, and the serialisation of what it returned
each in a worker thread of AnyIO's limiter (`Threads`, 40); a session takes a connection of
SQLAlchemy's pool (`Connections`, 5 + 10) with its first statement and gives it back at
commit, rollback or close. `at` is where a request is.

| `at` | Next step | Code |
|---|---|---|
| `arrived` | `Resolve`, `FindNoClient` | `deps.py:17-46`, `redis_client.py:28-31` |
| `building` | `BuildClient` | `redis_client.py:30-38` |
| `resolved` | `Start`: the route begins; `Unavailable` (503), behind the Redis client | `routes/*.py`, `health.py:11-23`, `deps.py:26-38` |
| `wait` | `Checkout`, `PoolTimeout` (500 after `db_pool_timeout_seconds`) | `session.py:14-24` |
| `work` | `Commit` (and back to `wait`, for `db.refresh`), `Return`, `RaiseRefusal` | `fraud_scoring.py:177-179` |
| `wait`, `work`, `refreshed` | `Fail` | `fraud_scoring.py:180-184`, `error_handlers.py` |
| `returned` | `Validate`: serialisation, needs a thread again; a 500 if the response model refuses | FastAPI |
| `closing` | `Close`: `get_db`'s `finally`, in a thread that is not limited | `session.py:27-33` |

What the frameworks do (FastAPI 0.115, AnyIO, SQLAlchemy 2) is taken from how they are
used here and marked external in the map.

### Explanations

`Contribution`, `Direction`, `Orders`, `Strength` and `Payloads` are `_contributions`,
`_direction_for_contribution`, the `argsort`, the strength in proportion to the largest
contribution, and `build_risk_explanation_payload`. Numbers are integers: a preprocessed value
of 0 is the mean of the training data. `FromDomain` is `FraudScoreApiResponse.from_domain`,
which also meets flat maps of an older version and whatever JSON the seed script took from its
file, for `seed_postgres.py:83` looks at nothing of it: lists, nulls, texts and numbers
(`Scalar`), and objects shaped like a payload, as those of the repository's demo data
(`SeededPayloads`). Of those, one that lacks a method, has a further key or a strength outside
of 0..1 makes every response for its transaction a 500; `EverythingBuiltCanBeShown` says that
nothing else does. A classifier has a flag `greater`: whether the positive label is the second
of its sorted `classes_`, the one `coef_` is about. Texts are left out, except which feature
the headline names.

## 3. The runs

All passing runs finish with the complete state space. Deadlock is checked in all of them
but `reads` and `serving`, whose writers, clients and processes may simply stop
(`CHECK_DEADLOCK FALSE`); the other models have no dead end except the explicit `Rest` and
`Idle` at their bounds. The type invariants are proved (section 5), and no run repeats them.

| Run | Instance | Checks |
|---|---|---|
| `scoring` | 3 processes, 1 id, 2 payloads, 3 calls, 2 disagreeing inferences, a scored and a bare seed record; 170 thousand states | `OneScorePerTransaction`, `LonePredictionMatchesRow`, `NoScoreAfterScore`, `CacheBackedByStore`, `AnswersAgree`, `AnswersMatchStore`, `StoredScoreIsFinal`, `ImplementsLedger`, `ImplementsStore`, `CallsEnd` |
| `async` | 1 worker, 1 API thread, 2 jobs, 1 call, 1 fault, timeouts 5/5; 302 thousand | `JobsAccountedFor`, `PoppedInOrder`, `NoOrphanCall`, `LoggedOutcomeIsStored`, `JobsLostOnlyWithWorker`, `ScoringUnchanged` |
| `async_live` | 2 workers, 2 jobs, 1 fault, timeouts 5/30; 58 thousand | `JobsAreDrained`, `StopEndsWorker` |
| `gate` | 2 clients (symmetric), window 2, limits 1 and 2, 5 requests in 6 s; 299 thousand | `LimitsHold`, `RefusedOnlyWhenBusy`, `RetryAfterHonoured` |
| `reads` | 3 ids, 2 payloads, 3 commits at any of the times, pages of 1 row; 752 thousand | `PageHonoursTotal`, `WalkMissesNothing`, `RepeatsOnlyAfterCommits`, `LabelsAgree`, `DetailIsConsistent` |
| `serving` | 4 specs, 3 CSV files, 2 training jobs, an API and a worker, 4 requests; 1.1 million | `LoadedBundleIsWhole`, `OnlyIncompleteIsRefused`, `NothingMadeUp`, `ScoreIsOfFraud` |
| `explanations` | 3 features, weights and values -2..2, lists of 2, seeded payloads of up to 2 factors; 295 thousand | `DirectionIsTrue`, `ListAccountsForScore`, `EverythingBuiltCanBeShown` |
| `requests` | 4 text fields, 21 requests, 2 seed records, a queue of 1, 4 times, a worker's clock 1 behind; 23 thousand | `RetriesAreRecognised`, `JobsSurviveTheQueue`, `AcceptedCanBeStored` |
| `process` | 3 requests of 3 kinds, 2 threads, 1 connection; 343 thousand | `StallNeedsCrowd`, `NothingLeaks`, `ClientSettles`, `EveryRequestAnswered` |
| `other_data`, `async_deployed`, `inverted_direction` | as small as shows it | a sentence of the documents each, found violated (section 6) |

Why the bounds are enough. One id: calls of different ids share nothing but the connection
pool, no action reads another id's state. Three processes: one more than a race needs, so that
a third observes the outcome of the race of two. Three calls: two that race, and one after
them, which the cache answers or, after expiry, the replay. Two payloads: the stored one and
another. Two inferences that differ in every column, so that any mixture shows. Two jobs: an
order and an overlap need two. One fault: every place of the loop is hit by it; two faults add
only repetitions after a restart. Window 2 with limits 1 and 2: entries inside, exactly at and
outside the window, and time for three windows. Three rows with pages of one: a page before, at
and behind the place where a commit puts its row. Two training jobs: an overwriting needs two;
the specs are the packaged `creditcard.json`, the same with labels exchanged (same columns,
other positive label), one like `tabular_mixed.example.json`, and one that infers its columns.
Three features with a list of two: one is left out, and two tie at the edge of the list. A
queue of one job: a job's fate depends on the rows, the clocks and itself only, and other
requests are posted while it waits. Three requests for two threads and one connection: the
smallest crowd that can stall, by `StallsNeedCrowds`, and with it fewer that cannot. The
theorems hold without the bounds (`MaxCalls`, `MaxJobs`, `MaxApiCalls`, `MaxFaults`, `MaxTime`,
`MaxRequests`, `MaxQueue`, `Threads` and `Connections` are arbitrary numbers there).

What the runs show that the code leaves to chance and gets right: uniqueness is enforced
only by the constraint, and yet the two calls that race never both store; the cache is
written without any lock after the commit, and yet no stale body ever replaces a newer one,
because all bodies of an id are equal; a worker that is stopped always finishes its job.
What they do not claim: an id that was seeded without a prediction has no such guarantee.
Two calls may both score it (`NoScoreAfterScore` says only if they overlap), its summary may
mix both verdicts, and its callers may be told different ones. This is the exception
`unscored` of `OneScorePerTransaction`, `AnswersAgree` and `AnswersMatchStore`. Nor does
`serving` claim that two processes run the same model: each serves what it loaded at its
start, and a retrained bundle has the old one's `model_version` if it was trained with it.
Nor does it claim anything of a process that was started while a training job wrote the same
file: its predictor may be of bytes of several jobs (`Torn`). `async` does not claim that a job
outlives the default timeouts: one that BRPOP pops for a client that is giving up is lost. And
`explanations` does not claim that seeded JSON can be shown.
A NaN in `model_features` is accepted as a number and scored as the training median
(`NothingMadeUp` excepts columns for which the request says NaN). A bundle that cannot be
loaded gives scores of the stub, as `README.md:49` says, and not a 503, which
`README.md:301` speaks of: only an exception outside `load_training_bundle`
(`CannotLook`) leads to it.

## 4. Fairness

`FairSpec` has weak fairness of `Proceed(p)`: a thread in a call is scheduled, its
statements are answered, an INSERT that waits for a lock is woken when its holder ends
(PostgreSQL wakes it at commit and at rollback). A failing call ends by `Fail`, which needs
no fairness. A waiting INSERT is enabled again only when the holder's call proceeds, which
the holder's own fairness gives. Nothing is assumed of new calls, seeding, expiry or faults.

`AsyncFairSpec` has weak fairness of each worker's loop and of each API call. Nobody need
restart a worker: `docker-compose.yml:44-57` has no restart policy. So `JobsAreDrained`
holds with a second worker, at most one fault, and a socket timeout larger than BRPOP's.
With the defaults (5 s and 5 s) it fails: run `async_deployed`.

`FairProcessSpec` has weak fairness of each request's next step and of the pool's timeout. That
a thread becomes free is not assumed: in a stall none does, and the timeout
(`DB_POOL_TIMEOUT_SECONDS`, 30 s; for SQLite SQLAlchemy's own default) is what breaks it. Weak
fairness per request is enough although requests compete, because only finitely many do.

## 5. The proofs

`tlapm` checks the eight `*Proofs` modules to the last leaf. Assumptions are only those
the modules declare about their constants (`Null` is no value, the inferences and seed
records are well-typed, `Procs` is the disjoint union of threads and workers, bounds and
limits are numbers, times are natural numbers, `MaxCalls >= MaxJobs + MaxApiCalls`).

**FraudScoring.** None of the properties is inductive. `IndInv` (`InductiveInvariant`) adds
to the types what the calls in flight know:
* the shape of a call: `call`, `seen` and `out` are set exactly at the steps that have them;
* at most one call holds an uncommitted id, and then no row of it is committed
  (so `Commit` of a new id never overwrites);
* a row that a call has `seen` is still stored with the same payload, and unchanged unless it
  was seeded bare;
* what a call is about to cache is backed by a committed prediction;
* times are ordered: `created_at` of a prediction is not after its commit, and a call that
  will write a prediction began before every prediction of its id was committed.

From it: `ScoredOnce`, `LonePredictionAgrees`, `OnlyOverlapScoresTwice`, `CacheBacked`,
`CallersAgree`, `AnswersBorneOut` as invariants, `ScoresAreFinal` as a property of steps,
and `LedgerImplemented`: with the rows of ids that were not seeded bare as the ledger and
the verdicts told about them, every step is a `Record`, a `Tell` or a stutter.

`StoreImplemented`: every step maps to a step of `ScoredStore` or
a stutter. The store promises one thing that `IndInv` does not say: that the predictions of
one id have a `created_at` of their own. `ClockInv` (`ClockInvariant`) adds it: calls in
flight differ in theirs, and a call that scores a bare row has one that no prediction of
the id has.

How far the promise that finding `other_data` breaks still holds is `OtherDataNeedsOverlap`:
only a cache hit tells the score of other data, and only to a call whose first SELECT found
no row and which began before every prediction of the id was committed (`BlindInv`). No
call that begins after the id was scored is told it.

**AsyncScoring.** `ScoringIsUnchanged` shows that each step of the composition is a step of
`FraudScoring` or leaves its variables alone, hence all theorems above hold with queue and
workers, and both paths together are the ledger and the store that the read API reads
(`BothPathsAgree`). `AsyncInv` adds where jobs are (`QueueInv`: the list is increasing, without
gaps to the last push, and holds exactly the queued jobs; `HeldInv`: held jobs and the workers
they were popped for match one to one; `WorkerInv`: a worker's scoring call is open exactly in
its step `scoring` and is the call of its job).

**RequestGate.** `GateInv` says of each bucket (`Tier`) that the deque is the end of the log,
that the part pruned away is out of the window, that the log is ordered and not in the
future, and that it is spread out as the limit demands. `QuietClientsPass` follows: when
all of the log is out of the window a prune empties the deque.

**ReadApi.** `ReadInv` says of the store what a reader may build on: a row that came with its
prediction has that one and agrees with it for ever (`Whole`), the predictions of any row
have times of their own (`OwnTimes`), so that the latest is one, and a row that was scored
once agrees with its prediction (`Agrees`). `LabelsAlwaysAgree` and `DetailsAreConsistent`
follow. `WalkInv` is about the walk: for an entry `e` of the list, `Newer(e)` are the
entries before it. Commits add to `Newer(e)` and take nothing away (`ListGrows`), so an
entry of the first page's list that is not yet shown keeps at least `Reached` newer ones,
the number that the next OFFSET skips; the page of the next `Limit` rows either shows it or
leaves `Limit` more before it (`HeadsCount`). An empty page is then the end for all of them
(`WalksMissNothing`). While the list is the same, what was shown has fewer than `Reached`
newer entries, and the next page begins behind it (`OnlyCommitsRepeatEntries`).
`PagesHonourTheirTotal` needs only that the list grows between count and page.

**ModelServing.** `FileInv` says that the file, whole or not, holds what the last job that
opened it made of a spec and a CSV file that it accepts (`Made`), and that a whole one was
written to its end. A process that reads (`Reads`) has begun with the bundle that is in the
file, or else a job has opened the file since, which `rewritten` remembers. Hence a predictor
is the bundle of one finished job, or torn, and then `rewritten` (`Serves`): the invariant has
no assumption about how the bytes of two jobs lie. The properties of answers follow at the step
that gives the answer.

**RequestSchema.** `RequestInv` says that the row of an id, if a request stored it, is the row
of that request's normal form, that this request was valid when it was accepted, and that a
queued job is the JSON of a normalised valid request. The lemmas about the operators carry the
rest: cleaning is idempotent and keeps what is said (`Clean`, `Said`), a valid amount is
unchanged by rounding, and the normal form of a body's JSON is the body, unless a feature is not
finite. `RetriesAlwaysRecognised` follows for any fields, words, limits and columns.

**ApiProcess.** `ProcessInv` says which steps hold a thread (`building`, `wait`, `work`,
`refreshed`: exactly those), which may hold a connection, that a request waiting for a
connection has none, and that capacities are kept. In a stall some request in flight waits
for a thread or for a connection. If one waits for a thread, all threads are taken, by
requests that are stuck, hence wait for a connection and have none; so the connections are all
taken, too, by other requests. `StallsNeedCrowds` counts them.

**Explanations.** `ExplanationInv` says of what is stored that the stub, another writer (a flat
map or any seeded JSON) or the model made it, the model from the row, and of what is shown that
it was made of what is stored. `BuiltCanAlwaysBeShown` leaves out exactly what the seed script
stores unread. The invariant is inductive because a prediction is stored once; `NullAssumption`
(None is no payload and no row) is what it needs of the constants. The theorems then speak of
one payload, and rest on lemmas about the operators:
* Sums. `Score` and the sum of the listed contributions are folds over sets, that is, the value
  at the whole set of a function defined by recursion on subsets. The library's induction
  theorems take an operator, which no installed prover can instantiate. Its theorems about
  well-founded relations are first-order (`WFMin` with `NatLessThanWellFounded` and
  `FS_StrictSubsetOrderingWellFounded`), and give every set of counterexamples a least one
  (`LeastNumber`, `LeastSubset`). So the recursion has a solution (`SumExists`), any element
  may be taken out first (`SumTake`), a sum splits (`SumSplit`), may be taken over positions
  (`SumReindex`), and is bounded by its number of terms times their bound (`SumBound`).
* Ranking. `OrdersAreRanked`: an argsort lists every feature once, neighbours in order are all
  in order (`Sorted`), hence the prefix that `top_k` cuts has the largest contribution in front
  and none behind its end is larger than its last.
* Strengths. `StrengthFacts`: a share of at most `Full`, and all of it for the largest.

`DirectionsAreTrue` takes the factor's feature out of both sums: they differ by its
contribution. `OtherwiseNoneIs` uses the same lemma for the models of the finding
`inverted_direction`: not some of their directions are false, but all, whatever the weights.
`ListsAccountForScores` splits the score into what is listed and the rest, and bounds the rest.

Only model-checked: `CallsEnd`, `JobsAreDrained`, `StopEndsWorker`, `EveryRequestAnswered`.
Liveness under fairness needs ENABLED, which is out of this prover's reach. Every other property
of a passing run is proved. The theorems whose statements are checked by a run are listed with
it in `PROJECT.json`.

## 6. Where documents and code disagree

| Run | Document | Code |
|---|---|---|
| `other_data` | `README.md:144`: other fields under a stored id get a 409; docstring `fraud_scoring.py:37-40`: Redis is used only after the database confirmed that there is no conflicting row | The confirmation is stale by the time of the GET (`:135`): a call that began before the first commit and reads the cache after it is told the score of other data; no other call is (`OtherDataNeedsOverlap`) |
| `async_deployed` | `README.md:163`: the worker drains the jobs | With the default timeouts a waiting worker may end with `redis.TimeoutError` (`fraud_score_worker.py:70`), and nothing restarts it |
| `inverted_direction` | docstring `explainability.py:7-8`: `coef_j * x_j` has the sign of the effect on the log-odds of the positive class | `coef_` is about the second of the sorted classes (`:51`). A spec whose positive label is the first gets every direction inverted, while the score is looked up by label (`inference.py:175-188`) |

Noted while modelling, without a run of their own:

* `README.md:144`, identical retries hit Redis or the replay path: one that overlaps the
  original is refused as a duplicate (`transaction_persistence.py:40`).
* `data/demo/README.md:53`, `:69`, `scripts/demo_api_requests.py:90`, stored ids get a 409:
  only with other fields; the same fields are answered with 200 (`fraud_scoring.py:128`).
* `README.md:71`, asynchronous scoring has the same business logic: NaN and infinities
  in `model_features` become `null` in the job (`redis_score_queue.py:23`), which the worker drops.
* Docstring `session.py:28`, the session is closed after the response is sent: FastAPI from
  0.106 on closes it before (`Close` comes before `answered`).
* Docstring `redis_client.py:29`, a singleton client: requests that race for the first use
  build one each; `ClientSettles` is what remains.
* `seed_postgres.py:83` stores explanations unread; one that `from_domain` refuses makes every
  replay of its transaction a 500, and no document speaks of it.
* `explainability.py:82-85`, "higher value pushes this transaction toward fraud": the sign is
  that of weight times value; with a negative weight and a value below the mean, a lower
  value does.
* `README.md:301`, a 503 when the bundle cannot load: the stub answers.

## 7. What is not modelled

* Fitting, metrics and evaluation of models: numbers of scikit-learn and XGBoost.
* Which exceptions of the read API's filters are a 422: they reach no statement.
* The wording of explanations, and the rounding of their floats.
* Logging and request ids: set and cleared within one request, and read by nobody.
* Reading settings from the environment (pydantic-settings), and `close_redis` at shutdown, when no
  request is left.
* Demo data generator and demo client: clients of the system, whose requests are among those
  the models let any client send.
* Several API processes: each has its own rate-limit buckets, as the module's docstring
  says; `RequestGate` is one process. `FraudScoring` does not care which process a thread
  belongs to.
* Redis' own failover and persistence: a lost key is `Expire`; a lost list is not modelled.

## 8. Plan

Done: the scoring path with its abstract ledger, the asynchronous path composed with it,
the request gate, the read API over the store, and the proof that the scoring path
implements that store; training, loading and the feature row; requests from validation to
columns and JSON; what requests of a process compete for; explanations; proofs of all
properties of the passing runs but the four of liveness.

1. A composition of `FraudScoring` with the statements of `ReadApi`, of which the walk's
   theorems follow by `StoreImplemented`.
2. The safety that liveness rests on, as theorems: what a waiting INSERT, worker or request
   waits for is never itself waiting, and each step brings a call nearer to its end.
3. A composition of `FraudScoring` with `ModelServing`'s processes, in which a restart
   changes the model between a call and its retry.
4. `ApiProcess` with several processes sharing PostgreSQL's own connection limit.
