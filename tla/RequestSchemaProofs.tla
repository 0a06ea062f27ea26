------------------------- MODULE RequestSchemaProofs -------------------------
(***************************************************************************)
(* RequestSchema for all fields, words, limits, requests and clocks.  The  *)
(* invariant: a row that a request stored is what its normal form becomes  *)
(* in the columns, and a queued job is the JSON of the normal form of a    *)
(* request that was valid when it was queued.  The rest is that            *)
(* normalisation is idempotent, that it forgets exactly what Said does not *)
(* tell, and that an amount with two decimals survives Numeric(14, 2).     *)
(***************************************************************************)
EXTENDS RequestSchema, TLAPS

Job == [json : Raw, request : Requests, at : Nat]

\* The part of Valid that does not depend on the clock.
Accepted(r) == (\A f \in Fields : ValidText(f, Clean(r.texts[f]))) /\ ValidAmount(r.amount)

RequestTypeOK ==
  /\ now \in Nat
  /\ rows \in [Text -> Row \cup {Null}]
  /\ origin \in [Text -> Requests \cup {Null}]
  /\ queue \in Seq(Job)

OriginInv ==
  \A id \in Text : origin[id] # Null =>
    Accepted(origin[id]) /\ rows[id] = RowOf(Normal(origin[id]))

Carries(job) ==
  /\ job.json = Json(Normal(job.request))
  /\ Valid(job.request, job.at)
  /\ job.at <= now

QueueInv == \A i \in DOMAIN queue : Carries(queue[i])

AnswerInv == RetriesAreRecognised /\ AcceptedCanBeStored

RequestInv == RequestTypeOK /\ OriginInv /\ QueueInv /\ AnswerInv

-----------------------------------------------------------------------------
(* Normalisation *)

MaybeText == Text \cup {Null}

\* Clean is idempotent and changes nothing but padding and blanks.
LEMMA CleanText ==
  ASSUME NEW t \in MaybeText
  PROVE  /\ Clean(t) \in MaybeText
         /\ Clean(Clean(t)) = Clean(t)
         /\ Clean(t) # Null => t # Null /\ Clean(t).word = t.word /\ ~Clean(t).padded
BY NullAssumption DEF MaybeText, Clean, Text

\* Two texts have the same normal form exactly when they say the same.
LEMMA CleanSays ==
  ASSUME NEW t \in MaybeText, NEW u \in MaybeText
  PROVE  Clean(t) = Clean(u) <=>
           (IF t = Null THEN Empty ELSE t.word) = (IF u = Null THEN Empty ELSE u.word)
<1> DEFINE S(v) == IF v = Null THEN Empty ELSE v.word
<1>1. ASSUME NEW v \in MaybeText
      PROVE  Clean(v) = IF S(v) = Empty THEN Null ELSE [word |-> S(v), padded |-> FALSE]
  BY DEF Clean
<1>2. ASSUME NEW w \in Words
      PROVE  [word |-> w, padded |-> FALSE].word = w /\ [word |-> w, padded |-> FALSE] # Null
  <2>1. [word |-> w, padded |-> FALSE] \in Text
    BY DEF Text
  <2> QED BY <2>1, NullAssumption
<1>3. S(t) \in Words /\ S(u) \in Words
  BY FieldsAssumption DEF MaybeText, Text
<1> HIDE DEF S
<1>4. Clean(t) = Clean(u) <=> S(t) = S(u)
  BY <1>1, <1>2, <1>3
<1> QED BY <1>4 DEF S

\* The types of a request's fields.
LEMMA RequestFields ==
  ASSUME NEW r \in Raw
  PROVE  /\ r.texts \in [Fields -> MaybeText]
         /\ \A f \in Fields : r.texts[f] \in MaybeText
         /\ r.amount \in Int /\ r.instant \in Nat /\ r.zone \in Zones \cup {Null}
         /\ r.features \in Features
BY DEF Raw, MaybeText

\* What a normal form is made of, and its JSON.
LEMMA NormalFields ==
  ASSUME NEW r \in Raw
  PROVE  /\ Normal(r).texts = [f \in Fields |-> Clean(r.texts[f])]
         /\ \A f \in Fields : Normal(r).texts[f] = Clean(r.texts[f])
         /\ Normal(r).amount = r.amount /\ Normal(r).instant = r.instant
         /\ Normal(r).zone = r.zone /\ Normal(r).features = r.features
         /\ Json(Normal(r)).texts = Normal(r).texts
         /\ Json(Normal(r)).amount = r.amount /\ Json(Normal(r)).instant = r.instant
         /\ Json(Normal(r)).zone = r.zone /\ Json(Normal(r)).key = "transacted_at"
         /\ Json(Normal(r)).features =
              IF r.features = "nonfinite" THEN "null" ELSE r.features
BY DEF Normal, Json

LEMMA JsonType ==
  ASSUME NEW r \in Raw
  PROVE  Json(Normal(r)) \in Raw
<1>1. [f \in Fields |-> Clean(r.texts[f])] \in [Fields -> MaybeText]
  BY RequestFields, CleanText
<1>2. (IF r.features = "nonfinite" THEN "null" ELSE r.features) \in Features
  BY RequestFields DEF Features
<1> QED BY <1>1, <1>2, RequestFields DEF Json, Normal, Raw, MaybeText, TimeKeys

\* The JSON of a normal form normalises to the same texts.
LEMMA NormalAgain ==
  ASSUME NEW r \in Raw
  PROVE  Normal(Json(Normal(r))).texts = Normal(r).texts
<1>1. ASSUME NEW f \in Fields
      PROVE  Clean(Normal(r).texts[f]) = Normal(r).texts[f]
  <2>1. r.texts[f] \in MaybeText
    BY RequestFields
  <2>2. Clean(Clean(r.texts[f])) = Clean(r.texts[f])
    BY <2>1, CleanText
  <2> QED BY <2>2, NormalFields
<1>2. Json(Normal(r)).texts = Normal(r).texts
  BY NormalFields
<1>3. Normal(Json(Normal(r))).texts = [f \in Fields |-> Clean(Normal(r).texts[f])]
  BY <1>2 DEF Normal
<1>4. Normal(r).texts = [f \in Fields |-> Normal(r).texts[f]]
  BY NormalFields
<1> QED BY <1>1, <1>3, <1>4

\* A column Numeric(14, 2) keeps an amount of whole cents.
LEMMA CentsAreKept ==
  ASSUME NEW a \in Int, a % Cent = 0
  PROVE  Rounded(a) = a
BY DEF Rounded, Cent

LEMMA RowType ==
  ASSUME NEW r \in Raw
  PROVE  RowOf(Normal(r)) \in Row /\ RowOf(Normal(r)) # Null
<1>1. [f \in Fields |-> Clean(r.texts[f])] \in [Fields -> MaybeText]
  BY RequestFields, CleanText
<1>2. Rounded(r.amount) \in Int
  BY RequestFields DEF Rounded, Cent
<1>3. RowOf(Normal(r)) \in Row
  BY <1>1, <1>2, RequestFields, NormalFields DEF RowOf, Row, MaybeText
<1> QED BY <1>3, NullAssumption

\* A valid request has an id.
LEMMA IdIsText ==
  ASSUME NEW r \in Raw, Accepted(r)
  PROVE  IdOf(Normal(r)) \in Text
<1>1. "transaction_id" \in Fields /\ "transaction_id" \in Required
  BY FieldsAssumption
<1>2. Clean(r.texts["transaction_id"]) # Null
  BY <1>1 DEF Accepted, ValidText
<1>3. Clean(r.texts["transaction_id"]) \in MaybeText
  BY <1>1, RequestFields, CleanText
<1> QED BY <1>1, <1>2, <1>3, NormalFields DEF IdOf, MaybeText

\* The comparison with the row that another request stored goes by what both say.
LEMMA MatchesIsSame ==
  ASSUME NEW r \in Raw, NEW s \in Raw, Accepted(s)
  PROVE  Matches(RowOf(Normal(s)), Normal(r)) <=> SameTransaction(r, s)
<1>1. Rounded(s.amount) = s.amount
  BY RequestFields, CentsAreKept DEF Accepted, ValidAmount
<1>2. \A f \in Fields : Clean(s.texts[f]) = Clean(r.texts[f]) <=> Said(r, f) = Said(s, f)
  BY RequestFields, CleanSays DEF Said
<1>3. /\ RowOf(Normal(s)).texts = Normal(s).texts
      /\ RowOf(Normal(s)).amount = s.amount
      /\ RowOf(Normal(s)).instant = s.instant
  BY <1>1, NormalFields DEF RowOf
<1>4. \A f \in Fields : Normal(s).texts[f] = Clean(s.texts[f])
  BY NormalFields
<1>5. /\ \A f \in Fields : Normal(r).texts[f] = Clean(r.texts[f])
      /\ Normal(r).amount = r.amount /\ Normal(r).instant = r.instant
  BY NormalFields
<1>6. (\A f \in Fields : Normal(s).texts[f] = Normal(r).texts[f]) <=>
        \A f \in Fields : Said(r, f) = Said(s, f)
  BY <1>2, <1>4, <1>5
<1>7. Matches(RowOf(Normal(s)), Normal(r)) <=>
        /\ \A f \in Fields : Normal(s).texts[f] = Normal(r).texts[f]
        /\ s.amount = r.amount
        /\ s.instant = r.instant
  BY <1>3, <1>5 DEF Matches
<1> QED BY <1>6, <1>7 DEF SameTransaction

-----------------------------------------------------------------------------
(* Scoring *)

\* Only texts, amount and instant of a body reach the store.
LEMMA SameBody ==
  ASSUME NEW r \in Raw, NEW b, Score(r, b),
         b.texts = Normal(r).texts, b.amount = Normal(r).amount, b.instant = Normal(r).instant
  PROVE  Score(r, Normal(r))
<1>1. IdOf(b) = IdOf(Normal(r)) /\ RowOf(b) = RowOf(Normal(r))
  BY DEF IdOf, RowOf
<1>2. Matches(rows[IdOf(b)], b) <=> Matches(rows[IdOf(b)], Normal(r))
  BY DEF Matches
<1> QED
  BY <1>1, <1>2 DEF Score, StoreNew, CannotStore, Replay, RefuseMismatch

ScoreInv ==
  /\ rows \in [Text -> Row \cup {Null}]
  /\ origin \in [Text -> Requests \cup {Null}]
  /\ OriginInv /\ AnswerInv

\* A body that does not fit has a NUL character, or is longer than its column.
LEMMA OnlyTheseDoNotFit ==
  ASSUME NEW r \in Raw, Accepted(r), ~Fits(Normal(r).texts)
  PROVE  \E f \in Fields :
           /\ r.texts[f] # Null
           /\ r.texts[f].word \in Unstorable \/ f \in Unlimited
<1>1. PICK f \in Fields :
        /\ Normal(r).texts[f] # Null
        /\ TextLength(Normal(r).texts[f]) > Width[f] \/ Normal(r).texts[f].word \in Unstorable
  <2>1. PICK f \in Fields :
          /\ Normal(r).texts[f] # Null
          /\ ~(/\ TextLength(Normal(r).texts[f]) <= Width[f]
               /\ Normal(r).texts[f].word \notin Unstorable)
    BY DEF Fits
  <2>2. r.texts[f] \in MaybeText /\ Normal(r).texts[f] = Clean(r.texts[f])
    BY RequestFields, NormalFields
  <2>3. Clean(r.texts[f]) \in MaybeText
    BY <2>2, CleanText
  <2>4. Normal(r).texts[f] \in Text
    BY <2>1, <2>2, <2>3 DEF MaybeText
  <2>5. Length[Normal(r).texts[f].word] \in Nat
    BY <2>4, FieldsAssumption DEF Text
  <2>6. TextLength(Normal(r).texts[f]) \in Int /\ Width[f] \in Int
    BY <2>5, FieldsAssumption DEF TextLength
  <2> QED BY <2>1, <2>6
<1>2. r.texts[f] \in MaybeText /\ Normal(r).texts[f] = Clean(r.texts[f])
  BY RequestFields, NormalFields
<1>3. /\ r.texts[f] # Null
      /\ Clean(r.texts[f]).word = r.texts[f].word
      /\ ~Clean(r.texts[f]).padded
      /\ Clean(r.texts[f]).word \in Words
  BY <1>1, <1>2, CleanText DEF MaybeText, Text
<1>4. Length[Clean(r.texts[f]).word] <= Limit[f]
  BY <1>1, <1>2 DEF Accepted, ValidText
<1>5. CASE TextLength(Normal(r).texts[f]) > Width[f]
  <2>1. TextLength(Clean(r.texts[f])) = Length[Clean(r.texts[f]).word]
    BY <1>3, FieldsAssumption DEF TextLength
  <2>2. Limit[f] > Width[f]
    BY <1>2, <1>3, <1>4, <1>5, <2>1, FieldsAssumption
  <2> QED BY <1>3, <2>2 DEF Unlimited
<1> QED BY <1>1, <1>2, <1>3, <1>5

\* A score keeps what is known of rows, and answers truly.
LEMMA ScoreKeeps ==
  ASSUME NEW r \in Requests, Accepted(r), ScoreInv, Score(r, Normal(r))
  PROVE  ScoreInv'
<1> DEFINE b == Normal(r)
           id == IdOf(b)
<1>1. r \in Raw
  BY InputAssumption
<1>2. id \in Text
  BY <1>1, IdIsText
<1>3. RowOf(b) \in Row /\ RowOf(b) # Null
  BY <1>1, RowType
<1>4. origin[id] # Null => origin[id] \in Raw /\ Accepted(origin[id])
                          /\ rows[id] = RowOf(Normal(origin[id]))
  BY <1>2, InputAssumption DEF ScoreInv, OriginInv
<1>5. origin[id] # Null => (Matches(rows[id], b) <=> SameTransaction(r, origin[id]))
  BY <1>1, <1>4, MatchesIsSame
<1> HIDE DEF b, id
<1>6. CASE StoreNew(r, b)
  <2>1. /\ rows' = [rows EXCEPT ![id] = RowOf(b)]
        /\ origin' = [origin EXCEPT ![id] = r]
        /\ answer' = [request |-> r, kind |-> "scored", first |-> Null]
    BY <1>6 DEF StoreNew, Answered, id
  <2>2. rows' \in [Text -> Row \cup {Null}] /\ origin' \in [Text -> Requests \cup {Null}]
    BY <1>3, <2>1 DEF ScoreInv
  <2>3. OriginInv'
    <3> SUFFICES ASSUME NEW x \in Text, origin'[x] # Null
                 PROVE  Accepted(origin'[x]) /\ rows'[x] = RowOf(Normal(origin'[x]))
      BY DEF OriginInv
    <3>1. CASE x = id
      BY <1>2, <2>1, <3>1 DEF ScoreInv, b
    <3>2. CASE x # id
      BY <1>2, <2>1, <3>2 DEF ScoreInv, OriginInv
    <3> QED BY <3>1, <3>2
  <2>4. AnswerInv'
    BY <2>1 DEF AnswerInv, RetriesAreRecognised, AcceptedCanBeStored
  <2> QED BY <2>2, <2>3, <2>4 DEF ScoreInv
<1>7. ASSUME UNCHANGED <<rows, origin>>, AnswerInv'
      PROVE  ScoreInv'
  BY <1>7 DEF ScoreInv, OriginInv
<1>8. CASE CannotStore(r, b)
  <2>1. /\ ~Fits(b.texts)
        /\ answer' = [request |-> r, kind |-> "error", first |-> Null]
        /\ UNCHANGED <<rows, origin>>
    BY <1>8 DEF CannotStore, Answered
  <2>2. \E f \in Fields :
          /\ r.texts[f] # Null
          /\ r.texts[f].word \in Unstorable \/ f \in Unlimited
    BY <1>1, <2>1, OnlyTheseDoNotFit DEF b
  <2>3. AnswerInv'
    BY <2>1, <2>2 DEF AnswerInv, RetriesAreRecognised, AcceptedCanBeStored, Unlimited
  <2> QED BY <1>7, <2>1, <2>3
<1>9. CASE Replay(r, b)
  <2>1. /\ Matches(rows[id], b)
        /\ answer' = [request |-> r, kind |-> "replayed", first |-> origin[id]]
        /\ UNCHANGED <<rows, origin>>
    BY <1>9 DEF Replay, Answered, id
  <2>2. AnswerInv'
    BY <1>5, <2>1 DEF AnswerInv, RetriesAreRecognised, AcceptedCanBeStored
  <2> QED BY <1>7, <2>1, <2>2
<1>10. CASE RefuseMismatch(r, b)
  <2>1. /\ ~Matches(rows[id], b)
        /\ answer' = [request |-> r, kind |-> "mismatch", first |-> origin[id]]
        /\ UNCHANGED <<rows, origin>>
    BY <1>10 DEF RefuseMismatch, Answered, id
  <2>2. AnswerInv'
    BY <1>5, <2>1 DEF AnswerInv, RetriesAreRecognised, AcceptedCanBeStored
  <2> QED BY <1>7, <2>1, <2>2
<1> QED BY <1>6, <1>8, <1>9, <1>10 DEF Score, b

-----------------------------------------------------------------------------
(* The invariant *)

\* Valid, at any time, has the part that does not depend on it.
LEMMA ValidIsAccepted ==
  ASSUME NEW r, NEW at, Valid(r, at)
  PROVE  Accepted(r)
BY DEF Valid, FieldsValid, Accepted

LEMMA RequestInvInit == Init => RequestInv
<1> SUFFICES ASSUME Init PROVE RequestInv
  OBVIOUS
<1>1. RequestTypeOK
  BY DEF Init, RequestTypeOK
<1>2. OriginInv /\ QueueInv /\ AnswerInv
  BY DEF Init, OriginInv, QueueInv, AnswerInv, RetriesAreRecognised, AcceptedCanBeStored
<1> QED BY <1>1, <1>2 DEF RequestInv

\* What a queued job carries, it carries at any later time.
LEMMA CarriesOn ==
  ASSUME NEW job, Carries(job), now \in Nat, now' \in Nat, now <= now', job.at \in Nat
  PROVE  Carries(job)'
<1>1. job.at <= now'
  BY DEF Carries
<1> QED BY <1>1 DEF Carries

LEMMA QueueKept ==
  ASSUME RequestInv, now' = now, queue' = queue
  PROVE  QueueInv'
BY DEF RequestInv, QueueInv, Carries

LEMMA TailKept ==
  ASSUME RequestInv, now' = now, queue # <<>>, queue' = Tail(queue)
  PROVE  queue' \in Seq(Job) /\ QueueInv'
<1>1. queue \in Seq(Job) /\ \A i \in 1..Len(queue) : Carries(queue[i])
  BY DEF RequestInv, RequestTypeOK, QueueInv
<1>2. Tail(queue) \in Seq(Job) /\ Len(Tail(queue)) = Len(queue) - 1
  BY <1>1
<1>3. \A i \in 1..Len(Tail(queue)) : Tail(queue)[i] = queue[i + 1] /\ i + 1 \in 1..Len(queue)
  BY <1>1, <1>2
<1>4. \A i \in 1..Len(Tail(queue)) : Carries(Tail(queue)[i])
  BY <1>1, <1>3
<1> QED BY <1>2, <1>4 DEF QueueInv, Carries

LEMMA HeadCarries ==
  ASSUME RequestInv, queue # <<>>
  PROVE  /\ Head(queue) \in Job
         /\ Carries(Head(queue))
<1>1. queue \in Seq(Job) /\ \A i \in 1..Len(queue) : Carries(queue[i])
  BY DEF RequestInv, RequestTypeOK, QueueInv
<1>2. 1 \in 1..Len(queue) /\ Head(queue) = queue[1]
  BY <1>1
<1> QED BY <1>1, <1>2

\* A step that only gives an answer of these kinds.
LEMMA OtherAnswer ==
  ASSUME NEW r, NEW kind \in {"invalid", "failed", "queued", "dropped"}, Answered(r, kind, Null)
  PROVE  AnswerInv'
BY DEF Answered, AnswerInv, RetriesAreRecognised, AcceptedCanBeStored

LEMMA ScoreOfInv ==
  ASSUME RequestInv
  PROVE  ScoreInv
BY DEF RequestInv, RequestTypeOK, ScoreInv

LEMMA RequestInvNext ==
  ASSUME RequestInv, [Next]_vars
  PROVE  RequestInv'
<1>1. CASE UNCHANGED vars
  BY <1>1 DEF vars, RequestInv, RequestTypeOK, OriginInv, QueueInv, Carries, AnswerInv,
              RetriesAreRecognised, AcceptedCanBeStored
<1>2. ASSUME NEW r \in Requests, Refuse(r) \/ CannotCheck(r)
      PROVE  RequestInv'
  <2>1. AnswerInv'
    BY <1>2, OtherAnswer DEF Refuse, CannotCheck
  <2>2. RequestTypeOK' /\ OriginInv' /\ QueueInv'
    BY <1>2 DEF Refuse, CannotCheck, RequestInv, RequestTypeOK, OriginInv, QueueInv, Carries
  <2> QED BY <2>1, <2>2 DEF RequestInv
<1>3. ASSUME NEW r \in Requests, Post(r)
      PROVE  RequestInv'
  <2>1. Accepted(r) /\ Score(r, Normal(r)) /\ UNCHANGED <<now, queue>>
    BY <1>3, ValidIsAccepted DEF Post
  <2>2. ScoreInv'
    BY <2>1, ScoreOfInv, ScoreKeeps
  <2>3. QueueInv'
    BY <2>1, QueueKept
  <2> QED BY <2>1, <2>2, <2>3 DEF RequestInv, RequestTypeOK, ScoreInv
<1>4. ASSUME NEW r \in Requests, PostAsync(r)
      PROVE  RequestInv'
  <2> DEFINE job == [json |-> Json(Normal(r)), request |-> r, at |-> now]
  <2>1. job \in Job
    BY JsonType, InputAssumption DEF Job, RequestInv, RequestTypeOK
  <2>2. Carries(job) /\ UNCHANGED <<now, rows, origin>> /\ queue' = Append(queue, job)
    BY <1>4 DEF PostAsync, Carries, RequestInv, RequestTypeOK
  <2>3. queue \in Seq(Job) /\ \A i \in 1..Len(queue) : Carries(queue[i])
    BY DEF RequestInv, RequestTypeOK, QueueInv
  <2> HIDE DEF job
  <2>4. /\ queue' \in Seq(Job) /\ Len(queue') = Len(queue) + 1
        /\ \A i \in 1..Len(queue) : queue'[i] = queue[i]
        /\ queue'[Len(queue) + 1] = job
    BY <2>1, <2>2, <2>3
  <2>5. \A i \in 1..Len(queue') : Carries(queue'[i])
    BY <2>2, <2>3, <2>4
  <2>6. QueueInv'
    BY <2>2, <2>4, <2>5 DEF QueueInv, Carries
  <2>7. AnswerInv'
    BY <1>4, OtherAnswer DEF PostAsync
  <2> QED
    BY <2>2, <2>4, <2>6, <2>7 DEF RequestInv, RequestTypeOK, OriginInv
<1>5. CASE Work
  <2> DEFINE job == Head(queue)
  <2>1. /\ queue # <<>> /\ queue' = Tail(queue) /\ now' = now
        /\ Score(job.request, Normal(job.json))
    BY <1>5 DEF Work
  <2>2. job \in Job /\ Carries(job)
    BY <2>1, HeadCarries
  <2> HIDE DEF job
  <2>3. job.request \in Requests /\ job.request \in Raw
    BY <2>2, InputAssumption DEF Job
  <2>4. Accepted(job.request)
    BY <2>2, ValidIsAccepted DEF Carries
  <2>5. job.json = Json(Normal(job.request))
    BY <2>2 DEF Carries
  <2>6. /\ Normal(job.json).texts = Normal(job.request).texts
        /\ Normal(job.json).amount = Normal(job.request).amount
        /\ Normal(job.json).instant = Normal(job.request).instant
    <3>1. Normal(job.json).texts = Normal(job.request).texts
      BY <2>3, <2>5, NormalAgain
    <3>2. /\ Normal(job.json).amount = Normal(job.request).amount
          /\ Normal(job.json).instant = Normal(job.request).instant
      BY <2>5 DEF Normal, Json
    <3> QED BY <3>1, <3>2
  <2>7. Score(job.request, Normal(job.request))
    BY <2>1, <2>3, <2>6, SameBody
  <2>8. ScoreInv'
    BY <2>3, <2>4, <2>7, ScoreOfInv, ScoreKeeps
  <2>9. queue' \in Seq(Job) /\ QueueInv'
    BY <2>1, TailKept
  <2> QED BY <2>1, <2>8, <2>9 DEF RequestInv, RequestTypeOK, ScoreInv
<1>6. CASE Drop
  <2>1. queue' \in Seq(Job) /\ QueueInv'
    BY <1>6, TailKept DEF Drop
  <2>2. AnswerInv'
    BY <1>6, OtherAnswer DEF Drop
  <2> QED BY <1>6, <2>1, <2>2 DEF Drop, RequestInv, RequestTypeOK, OriginInv
<1>7. ASSUME NEW rec \in SeedRecords, Seed(rec)
      PROVE  RequestInv'
  <2>1. rec \in Row /\ rec.texts["transaction_id"] # Null
    BY InputAssumption
  <2>2. IdOf(rec) \in Text
    BY <2>1, FieldsAssumption DEF IdOf, Row
  <2>3. RowOf(rec) \in Row
    BY <2>1 DEF RowOf, Row, Rounded, Cent
  <2>4. origin[IdOf(rec)] = Null
    <3>1. rows[IdOf(rec)] = Null
      BY <1>7 DEF Seed
    <3>2. origin[IdOf(rec)] # Null => origin[IdOf(rec)] \in Raw
      BY <2>2, InputAssumption DEF RequestInv, RequestTypeOK
    <3> QED BY <2>2, <3>1, <3>2, RowType DEF RequestInv, OriginInv
  <2>5. /\ rows' = [rows EXCEPT ![IdOf(rec)] = RowOf(rec)]
        /\ UNCHANGED <<now, origin, queue, answer>>
    BY <1>7 DEF Seed
  <2>6. RequestTypeOK'
    BY <2>3, <2>5 DEF RequestInv, RequestTypeOK
  <2>7. OriginInv'
    BY <2>4, <2>5 DEF RequestInv, RequestTypeOK, OriginInv
  <2>8. QueueInv' /\ AnswerInv'
    BY <2>5 DEF RequestInv, QueueInv, Carries, AnswerInv, RetriesAreRecognised,
                AcceptedCanBeStored
  <2> QED BY <2>6, <2>7, <2>8 DEF RequestInv
<1>8. CASE Tick
  <2>1. /\ now' \in Nat /\ now <= now'
        /\ UNCHANGED <<rows, origin, queue, answer>>
    BY <1>8 DEF Tick, RequestInv, RequestTypeOK
  <2>2. queue \in Seq(Job) /\ \A i \in DOMAIN queue : queue[i].at \in Nat
    <3>1. queue \in Seq(Job)
      BY DEF RequestInv, RequestTypeOK
    <3>2. \A i \in DOMAIN queue : queue[i] \in Job
      BY <3>1
    <3> QED BY <3>1, <3>2 DEF Job
  <2>3. QueueInv'
    <3> SUFFICES ASSUME NEW i \in DOMAIN queue PROVE Carries(queue[i])'
      BY <2>1 DEF QueueInv
    <3>1. Carries(queue[i]) /\ queue[i].at \in Nat
      BY <2>2 DEF RequestInv, QueueInv
    <3> QED BY <2>1, <3>1 DEF Carries, RequestInv, RequestTypeOK
  <2>4. RequestTypeOK' /\ OriginInv' /\ AnswerInv'
    BY <2>1 DEF RequestInv, RequestTypeOK, OriginInv, AnswerInv, RetriesAreRecognised,
                AcceptedCanBeStored
  <2> QED BY <2>3, <2>4 DEF RequestInv
<1> QED BY <1>1, <1>2, <1>3, <1>4, <1>5, <1>6, <1>7, <1>8 DEF Next

\* The strengthening holds in every reachable state.
THEOREM RequestInvariant == RequestSpec => []RequestInv
BY RequestInvInit, RequestInvNext, PTL DEF RequestSpec

\* Every variable keeps its type.
THEOREM RequestTypeCorrect == RequestSpec => []RequestTypeOK
<1>1. RequestInv => RequestTypeOK
  BY DEF RequestInv
<1> QED BY <1>1, RequestInvariant, PTL

\* _stored_row_matches_payload (services/fraud_scoring.py:43-65) recognises a request by
\* what it says, through validators, columns and the queue.
THEOREM RetriesAlwaysRecognised == RequestSpec => []RetriesAreRecognised
<1>1. RequestInv => RetriesAreRecognised
  BY DEF RequestInv, AnswerInv
<1> QED BY <1>1, RequestInvariant, PTL

\* The validators of FraudScoreRequest (schemas/fraud.py) accept and keep what
\* model_dump_json writes of a request that they accepted before.
THEOREM QueuedRequestsSurvive == RequestSpec => []JobsSurviveTheQueue
<1>1. RequestInv => JobsSurviveTheQueue
  <2> SUFFICES ASSUME RequestInv, NEW i \in DOMAIN queue, WorkerNow >= queue[i].at,
                      queue[i].request.features # "nonfinite"
               PROVE  /\ Valid(queue[i].json, WorkerNow)
                      /\ Normal(queue[i].json) = Normal(queue[i].request)
    BY DEF JobsSurviveTheQueue
  <2> DEFINE job == queue[i]
             r == job.request
  <2>1. job \in Job /\ Carries(job)
    <3>1. queue \in Seq(Job) /\ Carries(queue[i])
      BY DEF RequestInv, RequestTypeOK, QueueInv
    <3> QED BY <3>1
  <2>2. job.json = Json(Normal(r)) /\ Valid(r, job.at) /\ job.at \in Nat /\ r \in Raw
    BY <2>1, InputAssumption DEF Carries, Job
  <2>3. WorkerNow \in Int /\ WorkerNow >= job.at
    BY NumbersAssumption DEF WorkerNow, RequestInv, RequestTypeOK
  <2> HIDE DEF job
  <2>4. r.features = "plain"
    BY <2>2 DEF job, Valid, FieldsValid
  <2>5. Normal(job.json) = Normal(r)
    <3>1. Normal(job.json).texts = Normal(r).texts
      BY <2>2, NormalAgain
    <3>2. [f \in Fields |-> Clean(job.json.texts[f])] = [f \in Fields |-> Clean(r.texts[f])]
      BY <3>1 DEF Normal
    <3> QED BY <2>2, <2>4, <3>2, NormalFields DEF Normal
  <2>6. \A f \in Fields : Clean(job.json.texts[f]) = Clean(r.texts[f])
    BY <2>5 DEF Normal
  <2>7. ValidTime(job.json, WorkerNow)
    <3>1. job.json.zone = r.zone /\ job.json.instant = r.instant
      BY <2>2, NormalFields
    <3>2. r.instant \in Nat /\ Day \in Nat /\ Earliest \in Nat
      BY <2>2, RequestFields, NumbersAssumption
    <3>3. /\ r.zone # Null /\ r.instant \notin Unrepresentable
          /\ r.instant <= job.at + Day /\ r.instant >= Earliest
      BY <2>2 DEF Valid, ValidTime
    <3>4. r.instant <= WorkerNow + Day
      BY <2>2, <2>3, <3>2, <3>3
    <3> QED BY <3>1, <3>3, <3>4 DEF ValidTime
  <2>8. Valid(job.json, WorkerNow)
    BY <2>2, <2>4, <2>6, <2>7, NormalFields DEF Valid, FieldsValid, TimeNames
  <2> QED BY <2>5, <2>8 DEF job
<1> QED BY <1>1, RequestInvariant, PTL

\* The INSERT of an accepted request fails only for its NUL characters and unlimited texts.
THEOREM AcceptedAlwaysStorable == RequestSpec => []AcceptedCanBeStored
<1>1. RequestInv => AcceptedCanBeStored
  BY DEF RequestInv, AnswerInv
<1> QED BY <1>1, RequestInvariant, PTL
=============================================================================
