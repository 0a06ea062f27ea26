---------------------------- MODULE RequestSchema ----------------------------
(***************************************************************************)
(* What becomes of the fields of a FraudScoreRequest: pydantic checks and  *)
(* normalises them, the row keeps them in columns, a later request for the *)
(* id is compared with the columns, and a queued request goes through JSON *)
(* and is checked once more by a worker, later and by another clock.  The  *)
(* seed script stores its records unchecked.  A score is one step here:    *)
(* its interleavings are FraudScoring's, and a request that the model      *)
(* refuses changes nothing.                                                *)
(***************************************************************************)
EXTENDS Integers, Sequences

CONSTANTS Words,      \* texts without white space around them, with Empty
          Empty,
          Length,     \* of a word
          Fields,     \* the text fields, with "transaction_id"
          Required,   \* those that may not be null
          Admitted,   \* per field: the words its validators let through
          Limit,      \* per field: max_length
          Width,      \* per field: the width of the column
          Unstorable, \* words no column takes (a NUL character)
          Zones,      \* time zones
          Unrepresentable, \* instants that are no datetime in UTC: years 1 and 9999
          MaxAmount,  \* in mills, as all amounts
          Day, Earliest,  \* the bounds of transacted_at
          Lag,        \* how far a worker's clock is behind the API's
          Requests,   \* bodies that clients post
          SeedRecords,
          MaxTime, MaxQueue,  \* bounds
          Null

Cent == 10

\* A text with or without white space around it.
Text == [word: Words, padded: BOOLEAN]

TimeKeys == {"transacted_at", "timestamp"}

\* model_features: none or numbers and texts; a NaN or infinity among them; a null among
\* them; a name that is not allowed, or too many.
Features == {"plain", "nonfinite", "null", "bad"}

\* A JSON body; zone Null is a naive time, key the name it has.
Raw == [texts: [Fields -> Text \cup {Null}], amount: Int, instant: Nat,
        zone: Zones \cup {Null}, key: TimeKeys, features: Features]

\* A FraudScoreRequest, and a row of transactions.
Body == [texts: [Fields -> Text \cup {Null}], amount: Int, instant: Nat,
         zone: Zones \cup {Null}, features: Features]
Row == [texts: [Fields -> Text \cup {Null}], amount: Int, instant: Nat]

ASSUME FieldsAssumption ==
  /\ "transaction_id" \in Required /\ Required \subseteq Fields
  /\ Admitted \in [Fields -> SUBSET Words]
  /\ Limit \in [Fields -> Nat] /\ Width \in [Fields -> Nat]
  /\ Empty \in Words /\ Length \in [Words -> Nat] /\ Unstorable \subseteq Words
ASSUME InputAssumption ==
  /\ Requests \subseteq Raw
  /\ SeedRecords \subseteq Row
  /\ \A rec \in SeedRecords : rec.texts["transaction_id"] # Null
ASSUME NumbersAssumption ==
  /\ MaxAmount \in Nat /\ Day \in Nat /\ Earliest \in Nat /\ Lag \in Nat
  /\ MaxTime \in Nat /\ MaxQueue \in Nat /\ Unrepresentable \subseteq Nat
ASSUME NullAssumption == Null \notin Text \cup Row \cup Raw \cup Zones

VARIABLES
  now,      \* the API's clock
  rows,     \* per id: the row, or Null
  origin,   \* history, per id: the request whose row it is, Null if it is the seed's
  queue,    \* jobs: the JSON, and (history) the request accepted and when
  answer    \* the last request and what became of it

vars == <<now, rows, origin, queue, answer>>

-----------------------------------------------------------------------------
(* Validation and normalisation *)

\* str_strip_whitespace, and a blank is null.
Clean(t) ==
  IF t = Null THEN Null
  ELSE IF t.word = Empty THEN Null ELSE [word |-> t.word, padded |-> FALSE]

\* Variant: max_length is forgotten.
ValidTextUnlimited(f, t) ==
  IF t = Null THEN f \notin Required ELSE t.word \in Admitted[f]

\* t is clean.
ValidText(f, t) ==
  IF t = Null THEN f \notin Required
  ELSE t.word \in Admitted[f] /\ Length[t.word] <= Limit[f]

\* Variant: decimals are not counted.
ValidAmountAnyScale(a) == a > 0 /\ a <= MaxAmount

ValidAmount(a) == a > 0 /\ a <= MaxAmount /\ a % Cent = 0

ValidTime(r, at) ==
  /\ r.zone # Null
  /\ r.instant \notin Unrepresentable
  /\ r.instant <= at + Day
  /\ r.instant >= Earliest

\* Variant: only the alias.
TimeNamesAliasOnly == {"timestamp"}

\* AliasChoices: the names under which transacted_at is found.
TimeNames == {"transacted_at", "timestamp"}

FieldsValid(r) ==
  /\ \A f \in Fields : ValidText(f, Clean(r.texts[f]))
  /\ ValidAmount(r.amount)
  /\ r.key \in TimeNames
  /\ r.features \in {"plain", "nonfinite"}

Valid(r, at) == FieldsValid(r) /\ ValidTime(r, at)

\* The bounds are checked once all fields are valid: astimezone(utc) raises OverflowError,
\* which is no validation error.
Overflows(r) == FieldsValid(r) /\ r.zone # Null /\ r.instant \in Unrepresentable

Normal(r) ==
  [texts |-> [f \in Fields |-> Clean(r.texts[f])], amount |-> r.amount,
   instant |-> r.instant, zone |-> r.zone, features |-> r.features]

\* model_dump_json: field names, null for a number that JSON does not have.
Json(b) ==
  [texts |-> b.texts, amount |-> b.amount, instant |-> b.instant, zone |-> b.zone,
   key |-> "transacted_at",
   features |-> IF b.features = "nonfinite" THEN "null" ELSE b.features]

-----------------------------------------------------------------------------
(* Rows *)

\* Numeric(14, 2).
Rounded(a) == ((a + Cent \div 2) \div Cent) * Cent

\* _transaction_row_from_request, and what the columns keep of it: a timestamptz is an
\* instant.
RowOf(b) == [texts |-> b.texts, amount |-> Rounded(b.amount), instant |-> b.instant]

TextLength(t) == Length[t.word] + IF t.padded THEN 1 ELSE 0

Fits(texts) ==
  \A f \in Fields : texts[f] # Null =>
    TextLength(texts[f]) <= Width[f] /\ texts[f].word \notin Unstorable

\* _stored_row_matches_payload, of rows found by their id.
Matches(row, b) ==
  /\ \A f \in Fields : row.texts[f] = b.texts[f]
  /\ row.amount = b.amount
  /\ row.instant = b.instant

IdOf(b) == b.texts["transaction_id"]

-----------------------------------------------------------------------------
Answered(r, kind, first) == answer' = [request |-> r, kind |-> kind, first |-> first]

\* score_transaction: the body b of request r.
StoreNew(r, b) ==
  /\ rows[IdOf(b)] = Null
  /\ Fits(b.texts)
  /\ rows' = [rows EXCEPT ![IdOf(b)] = RowOf(b)]
  /\ origin' = [origin EXCEPT ![IdOf(b)] = r]
  /\ Answered(r, "scored", Null)

\* The database or its driver refuses the INSERT: 500.
CannotStore(r, b) ==
  /\ rows[IdOf(b)] = Null
  /\ ~Fits(b.texts)
  /\ Answered(r, "error", Null)
  /\ UNCHANGED <<rows, origin>>

Replay(r, b) ==
  /\ rows[IdOf(b)] # Null
  /\ Matches(rows[IdOf(b)], b)
  /\ Answered(r, "replayed", origin[IdOf(b)])
  /\ UNCHANGED <<rows, origin>>

RefuseMismatch(r, b) ==
  /\ rows[IdOf(b)] # Null
  /\ ~Matches(rows[IdOf(b)], b)
  /\ Answered(r, "mismatch", origin[IdOf(b)])
  /\ UNCHANGED <<rows, origin>>

Score(r, b) == StoreNew(r, b) \/ CannotStore(r, b) \/ Replay(r, b) \/ RefuseMismatch(r, b)

\* POST /score and /score-async: 422.
Refuse(r) ==
  /\ ~Valid(r, now) /\ ~Overflows(r)
  /\ Answered(r, "invalid", Null)
  /\ UNCHANGED <<now, rows, origin, queue>>

\* Both: 500.
CannotCheck(r) ==
  /\ Overflows(r)
  /\ Answered(r, "failed", Null)
  /\ UNCHANGED <<now, rows, origin, queue>>

Post(r) ==
  /\ Valid(r, now)
  /\ Score(r, Normal(r))
  /\ UNCHANGED <<now, queue>>

PostAsync(r) ==
  /\ Valid(r, now)
  /\ Len(queue) < MaxQueue
  /\ queue' = Append(queue, [json |-> Json(Normal(r)), request |-> r, at |-> now])
  /\ Answered(r, "queued", Null)
  /\ UNCHANGED <<now, rows, origin>>

WorkerNow == now - Lag

\* The worker: model_validate_json, score.
Work ==
  /\ queue # <<>>
  /\ Valid(Head(queue).json, WorkerNow)
  /\ queue' = Tail(queue)
  /\ Score(Head(queue).request, Normal(Head(queue).json))
  /\ UNCHANGED now

Drop ==
  /\ queue # <<>>
  /\ ~Valid(Head(queue).json, WorkerNow)
  /\ queue' = Tail(queue)
  /\ Answered(Head(queue).request, "dropped", Null)
  /\ UNCHANGED <<now, rows, origin>>

\* seed_postgres.py: the record as it is written.
Seed(rec) ==
  /\ rows[IdOf(rec)] = Null
  /\ Fits(rec.texts)
  /\ rows' = [rows EXCEPT ![IdOf(rec)] = RowOf(rec)]
  /\ UNCHANGED <<now, origin, queue, answer>>

Tick == now < MaxTime /\ now' = now + 1 /\ UNCHANGED <<rows, origin, queue, answer>>

Init ==
  /\ now = 0
  /\ rows = [id \in Text |-> Null]
  /\ origin = [id \in Text |-> Null]
  /\ queue = <<>>
  /\ answer = Null

Next ==
  \/ \E r \in Requests : Refuse(r) \/ CannotCheck(r) \/ Post(r) \/ PostAsync(r)
  \/ Work \/ Drop
  \/ \E rec \in SeedRecords : Seed(rec)
  \/ Tick

RequestSpec == Init /\ [][Next]_vars

-----------------------------------------------------------------------------
(* What requests are promised *)

\* What a client says in a text field: the word, whatever surrounds it; a blank is nothing.
Said(r, f) ==
  IF r.texts[f] = Null THEN Empty ELSE r.texts[f].word

\* Two bodies tell of the same transaction: white space, blanks for nulls, the zone in
\* which the time is given and the name it has do not count; features neither, as no
\* column holds them.
SameTransaction(r, s) ==
  /\ \A f \in Fields : Said(r, f) = Said(s, f)
  /\ r.amount = s.amount
  /\ r.instant = s.instant

\* Duplicate protection goes by what is said (README.md:144): a request for an id that the
\* API or a worker stored is answered with the stored score exactly when it tells of the
\* same transaction as the request that was stored, and refused otherwise, however both
\* were written and whichever of them went through the queue.
RetriesAreRecognised ==
  answer # Null =>
    /\ answer.kind = "replayed" =>
         answer.first = Null \/ SameTransaction(answer.request, answer.first)
    /\ answer.kind = "mismatch" =>
         answer.first = Null \/ ~SameTransaction(answer.request, answer.first)

\* A worker reads a queued job as the request that the API accepted, however long the job
\* waits, unless a feature of it is NaN or infinite: the JSON passes the same checks again
\* and is normalised to the same body, once the worker's clock has come to the time at
\* which the API checked.
JobsSurviveTheQueue ==
  \A i \in DOMAIN queue :
    LET job == queue[i]
    IN  WorkerNow >= job.at /\ job.request.features # "nonfinite" =>
          Valid(job.json, WorkerNow) /\ Normal(job.json) = Normal(job.request)

\* Fields without a limit, or with one above the width of their column.
Unlimited == {f \in Fields : Limit[f] > Width[f]}

\* What is accepted can be stored: a request that passed validation fails at the INSERT
\* only by a NUL character, or by a text that has no limit (ip_address, whose IPv6 zone
\* may be any text).
AcceptedCanBeStored ==
  answer # Null /\ answer.kind = "error" =>
    \E f \in Fields :
      /\ answer.request.texts[f] # Null
      /\ \/ answer.request.texts[f].word \in Unstorable
         \/ f \in Unlimited
=============================================================================
