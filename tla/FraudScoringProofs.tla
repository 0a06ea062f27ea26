------------------------- MODULE FraudScoringProofs -------------------------
(***************************************************************************)
(* Proofs about FraudScoring, for any sets of ids, payloads, scores,       *)
(* inferences, seed records and processes.  The inductive invariant IndInv *)
(* says of every id how its row, predictions and cached body hang together *)
(* (IdInv), of every running call what it knows and will do (CallInv), of  *)
(* two calls that they never hold the same id (KeyInv), of the predictions *)
(* that they overlap (TimeInv), and of every answer given so far that the  *)
(* store bears it out (AnswerInv).                                         *)
(***************************************************************************)
EXTENDS FraudScoring, TLAPS

\* b is the answer a replay of t gives now, whichever prediction it takes.
Exact(t, b) == \A c \in History(t) : b = ReplayBody(rows[t], c)

AgreesWith(row, c) == row.score = c.score /\ row.fraud = c.label

IdInv(t) ==
  /\ rows[t] = Null => /\ History(t) = {}
                       /\ t \notin unscored
                       /\ cache[t] = Null
                       /\ \A a \in answers : a.tx # t
  /\ Scored(t) => \E c \in preds : History(t) = {c}
  /\ \A c \in History(t) : History(t) = {c} => AgreesWith(rows[t], c)
  /\ cache[t] # Null => /\ Backed(t, cache[t])
                        /\ t \notin unscored => Exact(t, cache[t])

\* What a call that read a row still knows of it.
SnapshotInv(p) ==
  LET t == call[p].tx
  IN  /\ rows[t] # Null
      /\ rows[t].payload = call[p].payload
      /\ t \notin unscored \/ History(t) = {} => seen[p] = rows[t]

\* A call that scores a stored row: the row was seeded bare, and nobody had
\* committed a prediction of it when the call began.
RescoreInv(p) ==
  /\ call[p].tx \in unscored
  /\ \A c \in History(call[p].tx) : call[p].at <= c.done

FreshInv(p) ==
  /\ out[p] # Null
  /\ out[p].label = out[p].fraud
  /\ out[p].at = call[p].at

\* What a call is about to cache and to answer.
PutInv(p) ==
  LET t == call[p].tx
  IN  /\ out[p] # Null
      /\ Backed(t, out[p])
      /\ rows[t].payload = call[p].payload
      /\ t \notin unscored => Exact(t, out[p])

CallInv(p) ==
  pc[p] # "idle" =>
    /\ call[p] # Null
    /\ call[p].at <= calls
    /\ seen[p] # Null => SnapshotInv(p)
    /\ pc[p] = "history" => seen[p] # Null
    /\ pc[p] = "insert" => seen[p] = Null
    /\ pc[p] \in {"insert", "commit"} => FreshInv(p)
    /\ pc[p] \in {"predict", "commit"} /\ seen[p] # Null => RescoreInv(p)
    /\ pc[p] = "commit" /\ seen[p] = Null => rows[call[p].tx] = Null
    /\ pc[p] = "put" => PutInv(p)

KeyInv ==
  \A p, q \in Procs, t \in TxIds : HoldsKey(p, t) /\ HoldsKey(q, t) => p = q

TimeInv ==
  /\ \A c \in preds : c.at <= calls /\ c.done <= calls
  /\ NoScoreAfterScore

AnswerInv(a) ==
  /\ rows[a.tx] # Null
  /\ a.kind = "ok" => rows[a.tx].payload = a.payload
  /\ a.kind = "mismatch" => rows[a.tx].payload # a.payload
  /\ IsAnswered(a) => /\ a.body # Null
                      /\ Backed(a.tx, a.body)
                      /\ a.tx \notin unscored => Exact(a.tx, a.body)

IndInv ==
  /\ TypeOK
  /\ \A t \in TxIds : IdInv(t)
  /\ \A p \in Procs : CallInv(p)
  /\ KeyInv
  /\ TimeInv
  /\ \A a \in answers : AnswerInv(a)
-----------------------------------------------------------------------------
(* Types *)

LEMMA BodyTypes ==
  /\ \A row \in Row, c \in Prediction : ReplayBody(row, c) \in Body
  /\ \A inf \in Inference, at \in 0..MaxCalls : InferenceBody(inf, at) \in Body
  /\ \A pl \in Payloads, b \in Body : InsertedRow(pl, b) \in Row
  /\ \A row, snap \in Row, b \in Body : UpdatedRow(row, snap, b) \in Row
BY DEF Row, Body, Prediction, Inference, ReplayBody, InferenceBody, InsertedRow,
       UpdatedRow, Written

LEMMA EndCallTypes ==
  ASSUME TypeOK, NEW p \in Procs, EndCall(p)
  PROVE  /\ pc' \in [Procs -> Steps]
         /\ call' \in [Procs -> Call \cup {Null}]
         /\ seen' \in [Procs -> Row \cup {Null}]
         /\ out' \in [Procs -> Body \cup {Null}]
BY DEF TypeOK, EndCall, Goto, Steps

LEMMA SeedTypes ==
  ASSUME calls \in 0..MaxCalls, NEW rec \in SeedRecords
  PROVE  rec.tx \in TxIds /\ SeededRow(rec) \in Row
         /\ SeededPredictions(rec) \subseteq Prediction
BY SeedAssumption, ZeroScoreAssumption, MaxCallsAssumption
   DEF SeedRecord, SeededRow, SeededPredictions, Row, Prediction

\* Every step keeps the variables in their types, given what the invariant says of
\* the running calls.
LEMMA TypeStep ==
  ASSUME IndInv, [Next]_vars
  PROVE  TypeOK'
<1> USE DEF IndInv
<1>a. MaxCalls \in Nat /\ calls \in Nat
  BY MaxCallsAssumption DEF TypeOK
<1>1. CASE UNCHANGED vars
  BY <1>1 DEF vars, TypeOK
<1>2. ASSUME NEW p \in Procs, NEW t \in TxIds, NEW pl \in Payloads, Lookup(p, t, pl)
      PROVE  TypeOK'
  BY <1>2, <1>a DEF Lookup, TypeOK, Goto, Steps, Call, store
<1>3. ASSUME NEW p \in Procs, NEW t \in TxIds, NEW pl \in Payloads, RefuseMismatch(p, t, pl)
      PROVE  TypeOK'
  BY <1>3, <1>a DEF RefuseMismatch, TypeOK, Told, Answer, Kinds, store, local
<1>4. ASSUME NEW p \in Procs, Proceed(p) \/ Fail(p)
      PROVE  TypeOK'
  <2>0. pc[p] # "idle"
    BY <1>4 DEF Proceed, Fail, CacheHit, CacheMiss, Replay, NoHistory, Predict, RejectInput,
               Insert, RefuseDuplicate, Commit, CachePut, CachePutUnacked
  <2>a. CallInv(p) /\ call[p] \in Call /\ call[p].tx \in TxIds /\ call[p].at \in 0..MaxCalls
        /\ call[p].payload \in Payloads
    BY <2>0 DEF CallInv, TypeOK, Call
  <2>1. CASE CacheHit(p)
    <3>1. cache[call[p].tx] \in Body
      BY <2>1, <2>a DEF CacheHit, TypeOK
    <3>2. answers' \subseteq Answer
      BY <2>1, <2>a, <3>1 DEF CacheHit, Told, Answer, Kinds, TypeOK
    <3> QED BY <2>1, <3>2, EndCallTypes DEF CacheHit, TypeOK, store
  <2>2. CASE CacheMiss(p)
    BY <2>2 DEF CacheMiss, AfterMiss, Goto, Steps, TypeOK, store
  <2>3. CASE Replay(p)
    <3>1. PICK c \in Newest(call[p].tx) : out' = [out EXCEPT ![p] = ReplayBody(seen[p], c)]
      BY <2>3 DEF Replay
    <3>2. c \in Prediction /\ seen[p] \in Row
      BY <2>3, <2>a, <2>0 DEF Replay, Newest, History, TypeOK, CallInv
    <3>3. ReplayBody(seen[p], c) \in Body
      BY <3>2, BodyTypes
    <3> QED BY <2>3, <3>1, <3>3 DEF Replay, Goto, Steps, TypeOK, store
  <2>4. CASE NoHistory(p)
    BY <2>4 DEF NoHistory, Goto, Steps, TypeOK, store
  <2>5. CASE Predict(p)
    <3>1. PICK inf \in Inferences : out' = [out EXCEPT ![p] = InferenceBody(inf, call[p].at)]
      BY <2>5 DEF Predict
    <3>2. InferenceBody(inf, call[p].at) \in Body
      BY <2>a, InferencesAssumption, BodyTypes
    <3> QED BY <2>5, <3>1, <3>2 DEF Predict, AfterPredict, Goto, Steps, TypeOK, store
  <2>6. CASE RejectInput(p)
    BY <2>6, EndCallTypes DEF RejectInput, TypeOK, store
  <2>7. CASE Insert(p)
    BY <2>7 DEF Insert, Goto, Steps, TypeOK, store
  <2>8. CASE RefuseDuplicate(p)
    <3>1. answers' \subseteq Answer
      BY <2>8, <2>a DEF RefuseDuplicate, Told, Answer, Kinds, TypeOK
    <3> QED BY <2>8, <3>1, EndCallTypes DEF RefuseDuplicate, TypeOK, store
  <2>9. CASE Commit(p)
    <3>1. out[p] \in Body
      BY <2>9, <2>a, <2>0 DEF Commit, CallInv, FreshInv, TypeOK
    <3>2. CommittedRow(p) \in Row
      BY <2>a, <2>0, <3>1, BodyTypes DEF CommittedRow, TypeOK, CallInv, SnapshotInv
    <3>3. NewPrediction(p) \in Prediction
      BY <2>a, <3>1, <1>a DEF NewPrediction, Prediction, Body
    <3> QED BY <2>9, <3>2, <3>3, <2>a DEF Commit, Goto, Steps, TypeOK
  <2>10. CASE CachePut(p)
    <3>1. out[p] \in Body
      BY <2>10, <2>a, <2>0 DEF CachePut, CallInv, PutInv, TypeOK
    <3>2. answers' \subseteq Answer
      BY <2>10, <2>a, <3>1 DEF CachePut, Told, Answer, Kinds, TypeOK
    <3> QED BY <2>10, <3>1, <3>2, <2>a, EndCallTypes DEF CachePut, TypeOK, store
  <2>11. CASE CachePutUnacked(p)
    <3>1. out[p] \in Body
      BY <2>11, <2>a, <2>0 DEF CachePutUnacked, CallInv, PutInv, TypeOK
    <3> QED BY <2>11, <3>1, <2>a, EndCallTypes DEF CachePutUnacked, TypeOK, store
  <2>12. CASE Fail(p)
    BY <2>12, EndCallTypes DEF Fail, TypeOK, store
  <2> QED BY <1>4, <2>1, <2>2, <2>3, <2>4, <2>5, <2>6, <2>7, <2>8, <2>9, <2>10, <2>11, <2>12
          DEF Proceed
<1>5. ASSUME NEW rec \in SeedRecords, SeedRow(rec)
      PROVE  TypeOK'
  BY <1>5, <1>a, SeedTypes DEF SeedRow, TypeOK, local
<1>6. ASSUME NEW t \in TxIds, Expire(t)
      PROVE  TypeOK'
  BY <1>6 DEF Expire, TypeOK, store, local
<1> QED BY <1>1, <1>2, <1>3, <1>4, <1>5, <1>6 DEF Next, Begin, Environment, Rest
-----------------------------------------------------------------------------
(* What steps leave alone *)

OthersSame(p) ==
  \A q \in Procs \ {p} :
    /\ pc'[q] = pc[q]
    /\ call'[q] = call[q]
    /\ seen'[q] = seen[q]
    /\ out'[q] = out[q]

\* A step that leaves the store, the cache and the answers alone keeps what is said
\* of them.
LEMMA StoreStays ==
  ASSUME IndInv, UNCHANGED <<rows, preds, unscored, cache, answers>>,
         calls' \in Nat, calls <= calls'
  PROVE  /\ \A t \in TxIds : IdInv(t)'
         /\ TimeInv'
         /\ \A a \in answers' : AnswerInv(a)'
<1>1. \A t \in TxIds : IdInv(t)'
  BY DEF IndInv, IdInv, Scored, History, Backed, Exact, AgreesWith, ReplayBody
<1>2. \A a \in answers' : AnswerInv(a)'
  BY DEF IndInv, AnswerInv, IsAnswered, History, Backed, Exact, ReplayBody
<1>3. TimeInv'
  <2>1. \A c \in preds : c.at \in Nat /\ c.done \in Nat
    BY DEF IndInv, TypeOK, Prediction
  <2>2. calls \in Nat
    BY MaxCallsAssumption DEF IndInv, TypeOK
  <2> QED BY <2>1, <2>2 DEF IndInv, TimeInv, NoScoreAfterScore
<1> QED BY <1>1, <1>2, <1>3

\* The calls of the other processes are as they were if the store is.
LEMMA OthersStay ==
  ASSUME IndInv, NEW p \in Procs, OthersSame(p), UNCHANGED store,
         calls' \in Nat, calls <= calls'
  PROVE  \A q \in Procs \ {p} : CallInv(q)'
<1> SUFFICES ASSUME NEW q \in Procs \ {p}, pc[q] # "idle"
             PROVE  CallInv(q)'
  BY DEF OthersSame, CallInv
<1>1. CallInv(q)
  BY DEF IndInv
<1>2. calls \in Nat /\ call[q].at \in Nat
  BY <1>1, MaxCallsAssumption DEF IndInv, TypeOK, CallInv, Call
<1>3. call'[q].at <= calls'
  BY <1>1, <1>2 DEF CallInv, OthersSame
<1>4. SnapshotInv(q) => SnapshotInv(q)'
  BY DEF SnapshotInv, OthersSame, store, History
<1>5. RescoreInv(q) => RescoreInv(q)'
  BY DEF RescoreInv, OthersSame, store, History
<1>6. FreshInv(q) => FreshInv(q)'
  BY DEF FreshInv, OthersSame
<1>7. PutInv(q) => PutInv(q)'
  BY DEF PutInv, OthersSame, store, Backed, Exact, History, ReplayBody
<1> QED BY <1>1, <1>3, <1>4, <1>5, <1>6, <1>7 DEF CallInv, OthersSame, store

LEMMA EndedCall ==
  ASSUME TypeOK, NEW p \in Procs, EndCall(p)
  PROVE  OthersSame(p) /\ pc'[p] = "idle" /\ CallInv(p)'
BY DEF EndCall, Goto, OthersSame, CallInv, TypeOK

\* No call takes an id in a step in which p does not.
LEMMA KeyStays ==
  ASSUME IndInv, NEW p \in Procs, OthersSame(p), pc'[p] # "commit" \/ seen'[p] # Null
  PROVE  KeyInv'
BY DEF IndInv, KeyInv, HoldsKey, OthersSame
-----------------------------------------------------------------------------
(* One lemma per kind of step *)

InvBody ==
  /\ \A t \in TxIds : IdInv(t)
  /\ \A p \in Procs : CallInv(p)
  /\ KeyInv
  /\ TimeInv
  /\ \A a \in answers : AnswerInv(a)

LEMMA CallsNat ==
  ASSUME TypeOK
  PROVE  calls \in Nat /\ calls \in 0..MaxCalls
BY MaxCallsAssumption DEF TypeOK

LEMMA BusyCall ==
  ASSUME IndInv, NEW p \in Procs, pc[p] # "idle"
  PROVE  /\ call[p] \in Call
         /\ call[p].tx \in TxIds
         /\ call[p].payload \in Payloads
         /\ call[p].at \in 0..MaxCalls /\ call[p].at \in Nat
         /\ call[p].at <= calls
         /\ CallInv(p)
         /\ IdInv(call[p].tx)
BY MaxCallsAssumption DEF IndInv, CallInv, TypeOK, Call

LEMMA LookupStep ==
  ASSUME IndInv, NEW p \in Procs, NEW t \in TxIds, NEW pl \in Payloads, Lookup(p, t, pl)
  PROVE  InvBody'
<1> USE DEF Lookup
<1>1. calls \in Nat /\ calls' = calls + 1
  BY CallsNat DEF IndInv
<1>2. OthersSame(p) /\ UNCHANGED store
  BY DEF OthersSame, Goto, IndInv, TypeOK
<1>3. /\ pc'[p] = "cache"
      /\ call'[p] = [tx |-> t, payload |-> pl, at |-> calls + 1]
      /\ seen'[p] = rows[t]
  BY DEF IndInv, TypeOK, Goto
<1>4. call'[p] # Null
  <2>1. call'[p] \in Call
    BY <1>1, <1>3, MaxCallsAssumption DEF Call
  <2> QED BY <2>1, NullAssumption
<1>5. CallInv(p)'
  <2>1. rows[t] # Null => rows[t].payload = pl
    BY DEF MayProceed
  <2>2. seen'[p] # Null => SnapshotInv(p)'
    BY <2>1, <1>3 DEF SnapshotInv, store
  <2> QED BY <1>1, <1>3, <1>4, <2>2 DEF CallInv
<1>6. \A q \in Procs : CallInv(q)'
  BY <1>1, <1>2, <1>5, OthersStay
<1>7. KeyInv'
  BY <1>2, <1>3, KeyStays
<1> QED BY <1>1, <1>6, <1>7, StoreStays DEF InvBody, store

\* The steps of a call between its SELECT and its commit, and its end without an
\* answer: they change nothing but the call.
LEMMA LocalStep ==
  ASSUME IndInv, NEW p \in Procs,
         \/ CacheMiss(p) \/ Replay(p) \/ NoHistory(p) \/ Predict(p)
         \/ RejectInput(p) \/ Insert(p) \/ Fail(p)
  PROVE  InvBody'
<1>0. pc[p] # "idle"
  BY DEF CacheMiss, Replay, NoHistory, Predict, RejectInput, Insert, Fail
<1>1. UNCHANGED <<store, cache, answers, calls>>
  BY DEF CacheMiss, Replay, NoHistory, Predict, RejectInput, Insert, Fail
<1>2. calls \in Nat /\ calls' = calls
  BY <1>1, CallsNat DEF IndInv
<1>3. OthersSame(p)
  <2>1. CASE CacheMiss(p) BY <2>1 DEF CacheMiss, OthersSame, Goto, IndInv, TypeOK
  <2>2. CASE Replay(p) BY <2>2 DEF Replay, OthersSame, Goto, IndInv, TypeOK
  <2>3. CASE NoHistory(p) BY <2>3 DEF NoHistory, OthersSame, Goto, IndInv, TypeOK
  <2>4. CASE Predict(p) BY <2>4 DEF Predict, OthersSame, Goto, IndInv, TypeOK
  <2>5. CASE RejectInput(p) BY <2>5, EndedCall DEF RejectInput, IndInv
  <2>6. CASE Insert(p) BY <2>6 DEF Insert, OthersSame, Goto, IndInv, TypeOK
  <2>7. CASE Fail(p) BY <2>7, EndedCall DEF Fail, IndInv
  <2> QED BY <2>1, <2>2, <2>3, <2>4, <2>5, <2>6, <2>7
<1>4. CallInv(p)'
  <2>a. CallInv(p) /\ pc[p] # "idle" /\ IdInv(call[p].tx) /\ call[p].tx \in TxIds
    BY <1>0, BusyCall
  <2>b. ASSUME call'[p] = call[p], seen'[p] = seen[p]
        PROVE  /\ SnapshotInv(p) => SnapshotInv(p)'
               /\ RescoreInv(p) => RescoreInv(p)'
               /\ call[p] # Null /\ call'[p].at <= calls'
    BY <2>a, <2>b, <1>1 DEF SnapshotInv, RescoreInv, store, History, CallInv
  <2>1. CASE CacheMiss(p)
    <3>1. call' = call /\ seen' = seen /\ pc'[p] = AfterMiss(seen[p])
      BY <2>1 DEF CacheMiss, Goto, IndInv, TypeOK
    <3> QED BY <3>1, <2>a, <2>b DEF CallInv, AfterMiss
  <2>2. CASE Replay(p)
    <3>1. call' = call /\ seen' = seen /\ pc'[p] = "put"
      BY <2>2 DEF Replay, Goto, IndInv, TypeOK
    <3>2. PICK c \in Newest(call[p].tx) : out'[p] = ReplayBody(seen[p], c)
      BY <2>2 DEF Replay, IndInv, TypeOK
    <3>3. c \in History(call[p].tx) /\ c \in Prediction /\ seen[p] \in Row
      BY <2>a, <2>2 DEF Newest, History, IndInv, TypeOK, Replay, CallInv
    <3>4. out'[p] # Null
      BY <3>2, <3>3, BodyTypes, NullAssumption
    <3>5. SnapshotInv(p)
      BY <2>a, <2>2 DEF CallInv, Replay
    <3>6. Backed(call[p].tx, out'[p])
      BY <3>2, <3>3, <3>5 DEF Backed, ReplayBody, SnapshotInv
    <3>7. ASSUME call[p].tx \notin unscored
          PROVE  Exact(call[p].tx, out'[p])
      <4>1. History(call[p].tx) = {c}
        BY <3>7, <3>3, <3>5, <2>a DEF IdInv, Scored, SnapshotInv
      <4> QED BY <4>1, <3>2, <3>5, <3>7 DEF Exact, SnapshotInv
    <3>8. PutInv(p)'
      BY <3>1, <3>4, <3>5, <3>6, <3>7, <1>1
         DEF PutInv, SnapshotInv, Backed, Exact, History, ReplayBody, store
    <3> QED BY <3>1, <3>8, <2>a, <2>b DEF CallInv
  <2>3. CASE NoHistory(p)
    <3>1. call' = call /\ seen' = seen /\ pc'[p] = "predict"
      BY <2>3 DEF NoHistory, Goto, IndInv, TypeOK
    <3>2. RescoreInv(p)
      <4>1. History(call[p].tx) = {} /\ rows[call[p].tx] # Null
        BY <2>3, <2>a DEF NoHistory, CallInv, SnapshotInv
      <4>2. call[p].tx \in unscored
        BY <4>1, <2>a DEF IdInv, Scored
      <4> QED BY <4>1, <4>2 DEF RescoreInv
    <3> QED BY <3>1, <3>2, <2>a, <2>b DEF CallInv
  <2>4. CASE Predict(p)
    <3>1. call' = call /\ seen' = seen /\ pc'[p] = AfterPredict(seen[p])
      BY <2>4 DEF Predict, Goto, IndInv, TypeOK
    <3>2. PICK inf \in Inferences : out'[p] = InferenceBody(inf, call[p].at)
      BY <2>4 DEF Predict, IndInv, TypeOK
    <3>3. out'[p] # Null
      BY <3>2, <1>0, BusyCall, InferencesAssumption, BodyTypes, NullAssumption
    <3>4. FreshInv(p)'
      BY <3>1, <3>2, <3>3 DEF FreshInv, InferenceBody
    <3>5. pc[p] = "predict"
      BY <2>4 DEF Predict
    <3>6. CASE seen[p] = Null
      BY <3>1, <3>4, <3>6, <2>a, <2>b DEF CallInv, AfterPredict
    <3>7. CASE seen[p] # Null
      BY <3>1, <3>4, <3>5, <3>7, <2>a, <2>b DEF CallInv, AfterPredict
    <3> QED BY <3>6, <3>7
  <2>5. CASE RejectInput(p) BY <2>5, EndedCall DEF RejectInput, IndInv
  <2>6. CASE Insert(p)
    <3>1. call' = call /\ seen' = seen /\ out' = out /\ rows' = rows
          /\ pc'[p] = "commit" /\ rows[call[p].tx] = Null /\ pc[p] = "insert"
      BY <2>6 DEF Insert, Goto, IndInv, TypeOK, store
    <3>2. FreshInv(p)'
      BY <3>1, <2>a DEF FreshInv, CallInv
    <3> QED BY <3>1, <3>2, <2>a, <2>b DEF CallInv
  <2>7. CASE Fail(p) BY <2>7, EndedCall DEF Fail, IndInv
  <2> QED BY <2>1, <2>2, <2>3, <2>4, <2>5, <2>6, <2>7
<1>5. \A q \in Procs : CallInv(q)'
  BY <1>1, <1>2, <1>3, <1>4, OthersStay
<1>6. KeyInv'
  <2>1. CASE Insert(p)
    <3>1. \A q \in Procs : ~HoldsKey(q, call[p].tx)
      BY <2>1 DEF Insert, KeyFree
    <3>2. call' = call /\ seen' = seen
      BY <2>1 DEF Insert
    <3> QED BY <3>1, <3>2, <1>3 DEF IndInv, KeyInv, HoldsKey, OthersSame
  <2>2. CASE ~Insert(p)
    <3>1. pc'[p] # "commit" \/ seen'[p] # Null
      <4>1. CASE RejectInput(p) \/ Fail(p)
        BY <4>1, EndedCall DEF RejectInput, Fail, IndInv
      <4>2. CASE Predict(p)
        BY <4>2 DEF Predict, AfterPredict, Goto, IndInv, TypeOK
      <4>3. CASE CacheMiss(p) \/ Replay(p) \/ NoHistory(p)
        BY <4>3 DEF CacheMiss, AfterMiss, Replay, NoHistory, Goto, IndInv, TypeOK
      <4> QED BY <2>2, <4>1, <4>2, <4>3
    <3> QED BY <3>1, <1>3, KeyStays
  <2> QED BY <2>1, <2>2
<1> QED BY <1>1, <1>2, <1>5, <1>6, StoreStays DEF InvBody, store

\* A step that only gives answers, or only changes cached bodies, keeps what is said
\* of calls; a step that ends p's call keeps the calls of the others.
LEMMA EndStays ==
  ASSUME IndInv, NEW p \in Procs, EndCall(p), UNCHANGED <<store, calls>>
  PROVE  /\ \A q \in Procs : CallInv(q)'
         /\ KeyInv'
         /\ TimeInv'
<1>1. OthersSame(p) /\ pc'[p] = "idle" /\ CallInv(p)'
  BY EndedCall DEF IndInv
<1>2. calls' \in Nat /\ calls <= calls'
  BY CallsNat DEF IndInv
<1>3. \A q \in Procs : CallInv(q)'
  BY <1>1, <1>2, OthersStay
<1>4. TimeInv'
  BY DEF IndInv, TimeInv, NoScoreAfterScore, store
<1> QED BY <1>1, <1>3, <1>4, KeyStays

\* Answers given so far are borne out as long as the store does not change.
LEMMA AnswersStay ==
  ASSUME NEW a, AnswerInv(a), UNCHANGED store
  PROVE  AnswerInv(a)'
BY DEF AnswerInv, IsAnswered, Backed, Exact, History, ReplayBody, store

\* One more answer about a stored id disturbs nothing that is said of the ids.
LEMMA IdsAfterAnswer ==
  ASSUME IndInv, UNCHANGED <<store, cache>>, NEW t0 \in TxIds, rows[t0] # Null,
         \A a \in answers' : a \in answers \/ a.tx = t0
  PROVE  \A t \in TxIds : IdInv(t)'
BY DEF IndInv, IdInv, Scored, History, Backed, Exact, AgreesWith, ReplayBody, store

\* One more cached body, true of the store, disturbs nothing either.
LEMMA IdsAfterPut ==
  ASSUME IndInv, UNCHANGED store, NEW t0 \in TxIds, rows[t0] # Null, NEW b,
         cache' = [cache EXCEPT ![t0] = b], Backed(t0, b),
         t0 \notin unscored => Exact(t0, b),
         \A a \in answers' : a \in answers \/ a.tx = t0
  PROVE  \A t \in TxIds : IdInv(t)'
<1> SUFFICES ASSUME NEW t \in TxIds
             PROVE  IdInv(t)'
  OBVIOUS
<1>1. IdInv(t)
  BY DEF IndInv
<1>2. cache' [t] = IF t = t0 THEN b ELSE cache[t]
  BY DEF IndInv, TypeOK
<1> QED BY <1>1, <1>2
        DEF IdInv, Scored, History, Backed, Exact, AgreesWith, ReplayBody, store

LEMMA MismatchStep ==
  ASSUME IndInv, NEW p \in Procs, NEW t \in TxIds, NEW pl \in Payloads,
         RefuseMismatch(p, t, pl)
  PROVE  InvBody'
<1> USE DEF RefuseMismatch
<1>1. calls \in Nat /\ calls' = calls + 1
  BY CallsNat DEF IndInv
<1>2. rows[t] # Null /\ rows[t].payload # pl
  BY DEF MayProceed
<1>3. OthersSame(p) /\ UNCHANGED store /\ pc[p] = "idle" /\ pc' = pc
  BY DEF OthersSame, local
<1>4. \A q \in Procs : CallInv(q)'
  BY <1>1, <1>3, OthersStay DEF CallInv
<1>5. KeyInv'
  BY <1>3, KeyStays
<1>6. \A u \in TxIds : IdInv(u)'
  BY <1>2, <1>3, IdsAfterAnswer DEF Told
<1>7. \A a \in answers' : AnswerInv(a)'
  <2>1. ASSUME NEW a \in answers PROVE AnswerInv(a)'
    BY <2>1, <1>3, AnswersStay DEF IndInv
  <2>2. AnswerInv([tx |-> t, payload |-> pl, kind |-> "mismatch", body |-> Null])'
    BY <1>2, <1>3 DEF AnswerInv, IsAnswered, store
  <2> QED BY <2>1, <2>2 DEF Told
<1>8. TimeInv'
  <2>1. \A c \in preds : c.at \in Nat /\ c.done \in Nat
    BY DEF IndInv, TypeOK, Prediction
  <2> QED BY <1>1, <1>3, <2>1 DEF IndInv, TimeInv, NoScoreAfterScore, store
<1> QED BY <1>4, <1>5, <1>6, <1>7, <1>8 DEF InvBody

LEMMA AnswerStep ==
  ASSUME IndInv, NEW p \in Procs, CacheHit(p) \/ RefuseDuplicate(p)
  PROVE  InvBody'
<1>0. pc[p] # "idle" /\ EndCall(p) /\ UNCHANGED <<store, cache, calls>>
  BY DEF CacheHit, RefuseDuplicate
<1> DEFINE t == call[p].tx
<1>1. t \in TxIds /\ IdInv(t) /\ CallInv(p)
  BY <1>0, BusyCall
<1>2. rows[t] # Null
  BY <1>1 DEF CacheHit, RefuseDuplicate, IdInv
<1>3. PICK a0 : answers' = answers \cup {a0} /\ a0.tx = t /\ AnswerInv(a0)'
  <2>1. CASE CacheHit(p)
    <3> DEFINE k == IF seen[p] = Null THEN "unchecked" ELSE "ok"
               a1 == [tx |-> t, payload |-> call[p].payload, kind |-> k, body |-> cache[t]]
    <3>1. answers' = answers \cup {a1} /\ cache[t] # Null
      BY <2>1 DEF CacheHit, Told
    <3>2. k = "ok" => rows[t].payload = call[p].payload
      BY <1>0, <1>1 DEF CallInv, SnapshotInv
    <3>3. AnswerInv(a1)
      BY <1>1, <1>2, <3>1, <3>2 DEF AnswerInv, IsAnswered, IdInv
    <3> QED BY <1>0, <3>1, <3>3, AnswersStay
  <2>2. CASE RefuseDuplicate(p)
    <3> DEFINE a1 == [tx |-> t, payload |-> call[p].payload, kind |-> "duplicate",
                      body |-> Null]
    <3>1. answers' = answers \cup {a1}
      BY <2>2 DEF RefuseDuplicate, Told
    <3>2. AnswerInv(a1)
      BY <1>2 DEF AnswerInv, IsAnswered
    <3> QED BY <1>0, <3>1, <3>2, AnswersStay
  <2> QED BY <2>1, <2>2
<1>4. \A a \in answers' : AnswerInv(a)'
  BY <1>0, <1>3, AnswersStay DEF IndInv
<1>5. \A u \in TxIds : IdInv(u)'
  BY <1>0, <1>1, <1>2, <1>3, IdsAfterAnswer
<1> QED BY <1>0, <1>4, <1>5, EndStays DEF InvBody

LEMMA PutStep ==
  ASSUME IndInv, NEW p \in Procs, CachePut(p) \/ CachePutUnacked(p)
  PROVE  InvBody'
<1>0. pc[p] = "put" /\ EndCall(p) /\ UNCHANGED <<store, calls>>
  BY DEF CachePut, CachePutUnacked
<1> DEFINE t == call[p].tx
           a1 == [tx |-> t, payload |-> call[p].payload, kind |-> "ok", body |-> out[p]]
<1>1. t \in TxIds /\ PutInv(p)
  BY <1>0, BusyCall DEF CallInv
<1>2. rows[t] # Null /\ Backed(t, out[p]) /\ out[p] # Null
  BY <1>1 DEF PutInv, Backed
<1>3. \A a \in answers' : a \in answers \/ a = a1
  BY DEF CachePut, CachePutUnacked, Told
<1>4. AnswerInv(a1)
  BY <1>1, <1>2 DEF PutInv, AnswerInv, IsAnswered
<1>5. \A a \in answers' : AnswerInv(a)'
  BY <1>0, <1>3, <1>4, AnswersStay DEF IndInv
<1>6. cache' = [cache EXCEPT ![t] = out[p]]
  BY DEF CachePut, CachePutUnacked
<1>7. \A u \in TxIds : IdInv(u)'
  <2>1. t \notin unscored => Exact(t, out[p])
    BY <1>1 DEF PutInv
  <2>2. \A a \in answers' : a \in answers \/ a.tx = t
    BY <1>3
  <2> HIDE DEF t, a1
  <2> QED BY <1>0, <1>1, <1>2, <1>6, <2>1, <2>2, IdsAfterPut
<1> QED BY <1>0, <1>5, <1>7, EndStays DEF InvBody

LEMMA ExpireStep ==
  ASSUME IndInv, NEW t0 \in TxIds, Expire(t0)
  PROVE  InvBody'
<1> USE DEF Expire
<1>1. \A t \in TxIds : IdInv(t)'
  BY DEF IndInv, TypeOK, IdInv, Scored, History, Backed, Exact, AgreesWith, ReplayBody, store
<1>2. \A p \in Procs : CallInv(p)'
  BY DEF IndInv, CallInv, SnapshotInv, RescoreInv, FreshInv, PutInv, Backed, Exact,
         History, ReplayBody, store, local
<1>3. KeyInv' /\ TimeInv'
  BY DEF IndInv, KeyInv, HoldsKey, TimeInv, NoScoreAfterScore, store, local
<1>4. \A a \in answers' : AnswerInv(a)'
  BY AnswersStay DEF IndInv
<1> QED BY <1>1, <1>2, <1>3, <1>4 DEF InvBody

\* What a commit does to the store.
LEMMA CommitFacts ==
  ASSUME IndInv, NEW p \in Procs, Commit(p), NEW t, t = call[p].tx,
         NEW c0, c0 = NewPrediction(p)
  PROVE  /\ t \in TxIds /\ CallInv(p) /\ IdInv(t) /\ FreshInv(p)
         /\ out[p] \in Body
         /\ rows'[t] = CommittedRow(p) /\ rows'[t] # Null
         /\ \A u \in TxIds \ {t} : rows'[u] = rows[u] /\ History(u)' = History(u)
         /\ History(t)' = History(t) \cup {c0}
         /\ c0 \in Prediction /\ c0.tx = t
         /\ seen[p] = Null => rows[t] = Null /\ t \notin unscored /\ History(t) = {}
         /\ seen[p] # Null => /\ SnapshotInv(p) /\ RescoreInv(p)
                              /\ rows'[t].payload = rows[t].payload
<1> USE DEF Commit
<1>1. t \in TxIds /\ CallInv(p) /\ IdInv(t) /\ call[p].at \in 0..MaxCalls
      /\ call[p].at \in Nat /\ call[p].payload \in Payloads
  BY BusyCall
<1>2. FreshInv(p) /\ out[p] \in Body
  BY <1>1 DEF CallInv, FreshInv, IndInv, TypeOK
<1>3. calls \in Nat
  BY CallsNat DEF IndInv
<1>4. c0 \in Prediction /\ c0.tx = t
  BY <1>1, <1>2, <1>3 DEF NewPrediction, Prediction, Body
<1>5. CommittedRow(p) \in Row
  BY <1>1, <1>2, BodyTypes DEF CommittedRow, IndInv, TypeOK, CallInv, SnapshotInv
<1>6. rows'[t] = CommittedRow(p) /\ rows'[t] # Null
      /\ \A u \in TxIds \ {t} : rows'[u] = rows[u]
  BY <1>1, <1>5, NullAssumption DEF IndInv, TypeOK
<1>7. History(t)' = History(t) \cup {c0} /\ \A u \in TxIds \ {t} : History(u)' = History(u)
  BY <1>4 DEF History
<1>8. seen[p] = Null => rows[t] = Null /\ t \notin unscored /\ History(t) = {}
  BY <1>1 DEF CallInv, IdInv
<1>9. seen[p] # Null => SnapshotInv(p) /\ RescoreInv(p)
  BY <1>1 DEF CallInv
<1>10. seen[p] # Null => rows'[t].payload = rows[t].payload
  BY <1>6 DEF CommittedRow, UpdatedRow
<1> QED BY <1>1, <1>2, <1>4, <1>6, <1>7, <1>8, <1>9, <1>10

LEMMA CommitStep ==
  ASSUME IndInv, NEW p \in Procs, Commit(p)
  PROVE  InvBody'
<1>t. PICK t : t = call[p].tx
  OBVIOUS
<1>c. PICK c0 : c0 = NewPrediction(p)
  OBVIOUS
<1>1. /\ t \in TxIds /\ CallInv(p) /\ IdInv(t) /\ FreshInv(p)
      /\ out[p] \in Body
      /\ rows'[t] = CommittedRow(p) /\ rows'[t] # Null
      /\ \A u \in TxIds \ {t} : rows'[u] = rows[u] /\ History(u)' = History(u)
      /\ History(t)' = History(t) \cup {c0}
      /\ c0 \in Prediction /\ c0.tx = t
      /\ seen[p] = Null => rows[t] = Null /\ t \notin unscored /\ History(t) = {}
      /\ seen[p] # Null => /\ SnapshotInv(p) /\ RescoreInv(p)
                           /\ rows'[t].payload = rows[t].payload
  BY <1>t, <1>c, CommitFacts
<1>2. /\ c0.label = out[p].label /\ c0.score = out[p].score
      /\ c0.at = out[p].at /\ c0.at = call[p].at /\ c0.done = calls
      /\ out[p].label = out[p].fraud
  BY <1>1, <1>c DEF NewPrediction, FreshInv
<1>3. /\ UNCHANGED <<unscored, cache, call, seen, out, answers, calls>>
      /\ pc'[p] = "put" /\ pc[p] = "commit" /\ OthersSame(p)
      /\ preds' = preds \cup {c0}
  BY <1>c DEF Commit, Goto, OthersSame, IndInv, TypeOK
<1>4. calls \in Nat /\ \A c \in preds : c \in Prediction /\ c.at \in Nat /\ c.done \in Nat
  BY CallsNat DEF IndInv, TypeOK, Prediction
<1>5. /\ AgreesWith(rows[t], c0) \/ History(t) = {} => AgreesWith(rows'[t], c0)
      /\ seen[p] = Null => rows'[t] = InsertedRow(call[p].payload, out[p])
  <2>1. CASE seen[p] = Null
    BY <2>1, <1>1, <1>2 DEF CommittedRow, InsertedRow, AgreesWith
  <2>2. CASE seen[p] # Null
    <3>1. rows'[t] = UpdatedRow(rows[t], seen[p], out[p])
      BY <1>t, <2>2, <1>1 DEF CommittedRow
    <3>2. History(t) = {} => seen[p] = rows[t]
      BY <1>t, <2>2, <1>1 DEF SnapshotInv
    <3> QED BY <2>2, <3>1, <3>2, <1>2 DEF UpdatedRow, Written, AgreesWith
  <2> QED BY <2>1, <2>2
<1>6. \A u \in TxIds : IdInv(u)'
  <2>1. IdInv(t)'
    <3>1. (Scored(t) => \E c \in preds : History(t) = {c})'
      <4>1. Scored(t)' => History(t)' = {c0}
        BY <1>t, <1>1, <1>3 DEF Scored, RescoreInv
      <4> QED BY <4>1, <1>3
    <3>2. (\A c \in History(t) : History(t) = {c} => AgreesWith(rows[t], c))'
      <4>1. ASSUME NEW c \in History(t)', History(t)' = {c}
            PROVE  AgreesWith(rows'[t], c)
        <5>1. c = c0 /\ (History(t) = {} \/ History(t) = {c0})
          BY <4>1, <1>1
        <5>2. History(t) = {c0} => AgreesWith(rows[t], c0)
          BY <1>1 DEF IdInv
        <5> QED BY <5>1, <5>2, <1>5
      <4> QED BY <4>1
    <3>3. (cache[t] # Null => /\ Backed(t, cache[t])
                              /\ t \notin unscored => Exact(t, cache[t]))'
      BY <1>t, <1>1, <1>3 DEF IdInv, Backed, RescoreInv
    <3> QED BY <3>1, <3>2, <3>3, <1>1 DEF IdInv
  <2>2. ASSUME NEW u \in TxIds, u # t
        PROVE  IdInv(u)'
    <3>1. IdInv(u) /\ rows'[u] = rows[u] /\ History(u)' = History(u)
      BY <2>2, <1>1 DEF IndInv
    <3> QED BY <3>1, <1>3 DEF IdInv, Scored, Backed, Exact, AgreesWith, ReplayBody
  <2> QED BY <2>1, <2>2
<1>7. \A q \in Procs : CallInv(q)'
  <2>1. CallInv(p)'
    <3>1. seen[p] # Null => SnapshotInv(p)'
      BY <1>t, <1>1, <1>3 DEF SnapshotInv, RescoreInv
    <3>2. PutInv(p)'
      <4>1. Backed(t, out[p])'
        BY <1>1, <1>2, <1>3 DEF Backed
      <4>2. rows'[t].payload = call[p].payload
        BY <1>t, <1>1, <1>5 DEF SnapshotInv, InsertedRow
      <4>3. t \notin unscored => Exact(t, out[p])'
        <5>1. ASSUME t \notin unscored
              PROVE  History(t)' = {c0} /\ rows'[t] = InsertedRow(call[p].payload, out[p])
          BY <1>t, <5>1, <1>1, <1>5 DEF RescoreInv
        <5>2. out[p] = ReplayBody(InsertedRow(call[p].payload, out[p]), c0)
          BY <1>1, <1>2 DEF ReplayBody, InsertedRow, Body
        <5> QED BY <5>1, <5>2, <1>3 DEF Exact
      <4>4. out[p] # Null
        BY <1>1 DEF FreshInv
      <4> QED BY <1>t, <4>1, <4>2, <4>3, <4>4, <1>3 DEF PutInv
    <3> QED BY <3>1, <3>2, <1>1, <1>3 DEF CallInv
  <2>2. ASSUME NEW q \in Procs, q # p, pc[q] # "idle"
        PROVE  CallInv(q)'
    <3>0. CallInv(q) /\ pc'[q] = pc[q] /\ call'[q] = call[q] /\ seen'[q] = seen[q]
          /\ out'[q] = out[q] /\ call[q].tx \in TxIds /\ call[q].at \in Nat
      BY <2>2, <1>3, BusyCall DEF OthersSame
    <3>1. CASE call[q].tx # t
      <4>1. rows'[call[q].tx] = rows[call[q].tx] /\ History(call[q].tx)' = History(call[q].tx)
        BY <3>0, <3>1, <1>1
      <4> QED BY <4>1, <3>0, <1>3
              DEF CallInv, SnapshotInv, RescoreInv, FreshInv, PutInv, Backed, Exact, ReplayBody
    <3>2. CASE call[q].tx = t
      <4>1. SnapshotInv(q) => SnapshotInv(q)'
        BY <1>t, <3>0, <3>2, <1>1, <1>3 DEF SnapshotInv, RescoreInv
      <4>2. RescoreInv(q) => RescoreInv(q)'
        <5>1. call[q].at <= c0.done
          BY <1>2, <2>2, BusyCall
        <5> QED BY <5>1, <3>0, <3>2, <1>1, <1>3 DEF RescoreInv
      <4>3. FreshInv(q) => FreshInv(q)'
        BY <3>0 DEF FreshInv
      <4>4. PutInv(q) => PutInv(q)'
        <5>1. ASSUME PutInv(q)
              PROVE  /\ rows[t] # Null /\ t \in unscored /\ Backed(t, out[q])'
                     /\ rows'[t].payload = call[q].payload /\ out[q] # Null
          BY <1>t, <5>1, <3>2, <1>1, <1>3 DEF PutInv, Backed, RescoreInv
        <5> QED BY <5>1, <3>0, <3>2, <1>3 DEF PutInv
      <4>5. ~(pc[q] = "commit" /\ seen[q] = Null)
        <5>1. SUFFICES ASSUME pc[q] = "commit", seen[q] = Null
                       PROVE  FALSE
          OBVIOUS
        <5>2. rows[t] = Null
          BY <5>1, <3>0, <3>2 DEF CallInv
        <5>3. seen[p] = Null
          BY <1>t, <5>2, <1>1 DEF SnapshotInv
        <5>4. HoldsKey(p, t) /\ HoldsKey(q, t)
          BY <1>t, <5>1, <5>3, <3>2, <1>3 DEF HoldsKey
        <5> QED BY <5>4, <2>2, <1>1 DEF IndInv, KeyInv
      <4> QED BY <4>1, <4>2, <4>3, <4>4, <4>5, <3>0, <1>3 DEF CallInv
    <3> QED BY <3>1, <3>2
  <2>3. ASSUME NEW q \in Procs, q # p, pc[q] = "idle"
        PROVE  CallInv(q)'
    BY <2>3, <1>3 DEF CallInv, OthersSame
  <2> QED BY <2>1, <2>2, <2>3
<1>8. KeyInv'
  BY <1>3, KeyStays
<1>9. TimeInv'
  <2>1. c0.at <= calls /\ c0.done = calls /\ c0.at \in Nat
    BY <1>t, <1>1, <1>2, <1>3, BusyCall
  <2>2. \A c \in History(t) : c0.at <= c.done
    BY <1>t, <1>1, <1>2 DEF RescoreInv
  <2>3. \A c \in preds : c.at <= calls /\ c.done <= calls
    BY DEF IndInv, TimeInv
  <2>4. \A c, d \in preds : c.tx = d.tx => c.at <= d.done
    BY DEF IndInv, TimeInv, NoScoreAfterScore
  <2>5. \A c, d \in preds' : c.tx = d.tx => c.at <= d.done
    BY <2>1, <2>2, <2>3, <2>4, <1>1, <1>3, <1>4 DEF History
  <2> QED BY <2>1, <2>3, <2>5, <1>3, <1>4 DEF TimeInv, NoScoreAfterScore
<1>10. \A a \in answers' : AnswerInv(a)'
  <2> SUFFICES ASSUME NEW a \in answers
               PROVE  AnswerInv(a)'
    BY <1>3
  <2>0. AnswerInv(a) /\ a.tx \in TxIds
    BY DEF IndInv, TypeOK, Answer
  <2>1. CASE a.tx # t
    <3>1. rows'[a.tx] = rows[a.tx] /\ History(a.tx)' = History(a.tx)
      BY <2>0, <2>1, <1>1
    <3> QED BY <3>1, <2>0, <1>3 DEF AnswerInv, IsAnswered, Backed, Exact, ReplayBody
  <2>2. CASE a.tx = t
    <3>1. rows[t] # Null /\ t \in unscored /\ rows'[t].payload = rows[t].payload
      BY <1>t, <2>0, <2>2, <1>1 DEF AnswerInv, RescoreInv
    <3>2. Backed(t, a.body) => Backed(t, a.body)'
      BY <1>1 DEF Backed
    <3> QED BY <3>1, <3>2, <2>0, <2>2, <1>1, <1>3 DEF AnswerInv, IsAnswered
  <2> QED BY <2>1, <2>2
<1> QED BY <1>6, <1>7, <1>8, <1>9, <1>10 DEF InvBody

LEMMA SeedStep ==
  ASSUME IndInv, NEW rec \in SeedRecords, SeedRow(rec)
  PROVE  InvBody'
<1>t. PICK t : t = rec.tx
  OBVIOUS
<1>1. calls \in 0..MaxCalls /\ calls \in Nat /\ t \in TxIds /\ IdInv(t) /\ rows[t] = Null
  BY <1>t, CallsNat, SeedTypes DEF IndInv, SeedRow
<1>2. /\ UNCHANGED <<cache, local, answers, calls>>
      /\ preds' = preds \cup SeededPredictions(rec)
      /\ unscored' = IF rec.scored THEN unscored ELSE unscored \cup {t}
      /\ rows'[t] = SeededRow(rec)
      /\ \A u \in TxIds \ {t} : rows'[u] = rows[u]
  BY <1>t, <1>1 DEF SeedRow, IndInv, TypeOK
<1>3. rows'[t] # Null
  BY <1>1, <1>2, SeedTypes, NullAssumption
<1>4. History(t)' = SeededPredictions(rec) /\ \A u \in TxIds \ {t} : History(u)' = History(u)
  <2>1. \A c \in SeededPredictions(rec) : c.tx = t
    BY <1>t DEF SeededPredictions
  <2>2. History(t) = {}
    BY <1>1 DEF IdInv
  <2> QED BY <1>2, <2>1, <2>2 DEF History
<1>5. \A u \in TxIds : IdInv(u)'
  <2>1. IdInv(t)'
    <3>1. t \notin unscored /\ cache'[t] = Null
      BY <1>1, <1>2 DEF IdInv
    <3>2. (Scored(t) => \E c \in preds : History(t) = {c})'
      BY <1>2, <1>4, <3>1 DEF Scored, SeededPredictions
    <3>3. \A c \in SeededPredictions(rec) : AgreesWith(SeededRow(rec), c)
      BY SeedAssumption DEF SeededPredictions, SeededRow, AgreesWith, SeedRecord
    <3> QED BY <1>2, <1>3, <1>4, <3>1, <3>2, <3>3 DEF IdInv
  <2>2. ASSUME NEW u \in TxIds, u # t
        PROVE  IdInv(u)'
    <3>1. IdInv(u) /\ rows'[u] = rows[u] /\ History(u)' = History(u)
          /\ (u \in unscored' <=> u \in unscored)
      BY <2>2, <1>2, <1>4 DEF IndInv
    <3> QED BY <3>1, <1>2 DEF IdInv, Scored, Backed, Exact, AgreesWith, ReplayBody
  <2> QED BY <2>1, <2>2
<1>6. ASSUME NEW q \in Procs
      PROVE  CallInv(q)'
  <2> SUFFICES ASSUME pc[q] # "idle"
               PROVE  CallInv(q)'
    BY <1>2 DEF CallInv, local
  <2>0. CallInv(q) /\ call[q].tx \in TxIds
    BY BusyCall
  <2>1. CASE call[q].tx # t
    <3>1. /\ rows'[call[q].tx] = rows[call[q].tx]
          /\ History(call[q].tx)' = History(call[q].tx)
          /\ (call[q].tx \in unscored' <=> call[q].tx \in unscored)
      BY <2>0, <2>1, <1>2, <1>4 DEF local
    <3> QED BY <3>1, <2>0, <1>2
            DEF CallInv, SnapshotInv, RescoreInv, FreshInv, PutInv, Backed, Exact, ReplayBody, local
  <2>2. CASE call[q].tx = t
    <3>1. seen[q] = Null /\ pc[q] # "put"
      BY <2>0, <2>2, <1>1 DEF CallInv, SnapshotInv, PutInv, Backed
    <3>2. pc[q] # "commit"
      BY <3>1, <2>2, <1>t DEF SeedRow, KeyFree, HoldsKey
    <3> QED BY <3>1, <3>2, <2>0, <1>2 DEF CallInv, FreshInv, local
  <2> QED BY <2>1, <2>2
<1>7. KeyInv'
  BY <1>2 DEF IndInv, KeyInv, HoldsKey, local
<1>8. TimeInv'
  <2>1. \A c \in SeededPredictions(rec) : c.tx = t /\ c.at = calls /\ c.done = calls
    BY <1>t DEF SeededPredictions
  <2>2. \A c \in preds : c.tx # t
    BY <1>1 DEF IdInv, History
  <2> QED BY <2>1, <2>2, <1>1, <1>2 DEF IndInv, TimeInv, NoScoreAfterScore
<1>9. \A a \in answers' : AnswerInv(a)'
  <2> SUFFICES ASSUME NEW a \in answers
               PROVE  AnswerInv(a)'
    BY <1>2
  <2>1. AnswerInv(a) /\ a.tx \in TxIds /\ a.tx # t
    BY <1>1 DEF IndInv, TypeOK, Answer, IdInv
  <2>2. rows'[a.tx] = rows[a.tx] /\ History(a.tx)' = History(a.tx)
        /\ (a.tx \in unscored' <=> a.tx \in unscored)
    BY <2>1, <1>2, <1>4
  <2> QED BY <2>1, <2>2, <1>2 DEF AnswerInv, IsAnswered, Backed, Exact, ReplayBody
<1> QED BY <1>5, <1>6, <1>7, <1>8, <1>9 DEF InvBody

-----------------------------------------------------------------------------
(* The theorems *)

LEMMA InitInv == Init => IndInv
BY MaxCallsAssumption
   DEF Init, IndInv, TypeOK, Steps, IdInv, History, Scored, CallInv, KeyInv, HoldsKey,
       TimeInv, NoScoreAfterScore

LEMMA StutterStep ==
  ASSUME IndInv, UNCHANGED vars
  PROVE  InvBody'
<1>1. UNCHANGED <<rows, preds, unscored, cache, answers>> /\ calls' \in Nat /\ calls <= calls'
  BY CallsNat DEF IndInv, vars
<1>2. \A p \in Procs : CallInv(p)'
  BY DEF IndInv, vars, CallInv, SnapshotInv, RescoreInv, FreshInv, PutInv, Backed, Exact,
         History, ReplayBody
<1>3. KeyInv'
  BY DEF IndInv, vars, KeyInv, HoldsKey
<1> QED BY <1>1, <1>2, <1>3, StoreStays DEF InvBody

\* Every step of every actor keeps the inductive invariant.
LEMMA NextInv ==
  ASSUME IndInv, [Next]_vars
  PROVE  IndInv'
<1>1. InvBody'
  <2>1. ASSUME NEW p \in Procs, NEW t \in TxIds, NEW pl \in Payloads, Begin(p, t, pl)
        PROVE  InvBody'
    BY <2>1, LookupStep, MismatchStep DEF Begin
  <2>2. ASSUME NEW p \in Procs, Proceed(p) \/ Fail(p)
        PROVE  InvBody'
    BY <2>2, LocalStep, AnswerStep, PutStep, CommitStep DEF Proceed
  <2>3. ASSUME Environment
        PROVE  InvBody'
    BY <2>3, SeedStep, ExpireStep DEF Environment
  <2>4. ASSUME UNCHANGED vars
        PROVE  InvBody'
    BY <2>4, StutterStep
  <2> QED BY <2>1, <2>2, <2>3, <2>4 DEF Next, Rest
<1> QED BY <1>1, TypeStep DEF InvBody, IndInv

\* IndInv holds in every state of every behaviour.
THEOREM InductiveInvariant == Spec => []IndInv
<1>1. Init => IndInv
  BY InitInv
<1>2. IndInv /\ [Next]_vars => IndInv'
  BY NextInv
<1> QED BY <1>1, <1>2, PTL DEF Spec

\* The variables stay in their types.
THEOREM TypeCorrect == Spec => []TypeOK
<1>1. IndInv => TypeOK
  BY DEF IndInv
<1> QED BY <1>1, InductiveInvariant, PTL

\* A stored id that was not seeded bare has exactly one prediction, and its row
\* agrees with it.
THEOREM ScoredOnce == Spec => []OneScorePerTransaction
<1>1. IndInv => OneScorePerTransaction
  <2> SUFFICES ASSUME IndInv, NEW t \in TxIds, Scored(t)
               PROVE  \E c \in preds : /\ History(t) = {c}
                                       /\ rows[t].score = c.score
                                       /\ rows[t].fraud = c.label
    BY DEF OneScorePerTransaction
  <2>1. PICK c \in preds : History(t) = {c}
    BY DEF IndInv, IdInv
  <2>2. AgreesWith(rows[t], c)
    BY <2>1 DEF IndInv, IdInv
  <2> QED BY <2>1, <2>2 DEF AgreesWith
<1> QED BY <1>1, InductiveInvariant, PTL

\* A row with a single prediction agrees with it, seeded bare or not.
THEOREM LonePredictionAgrees == Spec => []LonePredictionMatchesRow
<1>1. IndInv => LonePredictionMatchesRow
  BY DEF IndInv, IdInv, LonePredictionMatchesRow, AgreesWith
<1> QED BY <1>1, InductiveInvariant, PTL

\* Two predictions of one id come from calls that overlapped.
THEOREM OnlyOverlapScoresTwice == Spec => []NoScoreAfterScore
<1>1. IndInv => NoScoreAfterScore
  BY DEF IndInv, TimeInv
<1> QED BY <1>1, InductiveInvariant, PTL

\* What Redis holds and what callers are told is committed in the database.
THEOREM CacheBacked == Spec => []CacheBackedByStore
<1>1. IndInv => CacheBackedByStore
  BY DEF IndInv, IdInv, AnswerInv, CacheBackedByStore
<1> QED BY <1>1, InductiveInvariant, PTL

\* Two answers of an id that was not seeded bare are the same answer: both are the
\* replay of its only prediction.
THEOREM CallersAgree == Spec => []AnswersAgree
<1>1. IndInv => AnswersAgree
  <2> SUFFICES ASSUME IndInv, NEW a \in answers, NEW b \in answers,
                      IsAnswered(a), IsAnswered(b), a.tx = b.tx, a.tx \notin unscored
               PROVE  a.body = b.body
    BY DEF AnswersAgree
  <2>1. AnswerInv(a) /\ AnswerInv(b)
    BY DEF IndInv
  <2>2. PICK c : c \in History(a.tx)
    BY <2>1 DEF AnswerInv, Backed
  <2> QED BY <2>1, <2>2 DEF AnswerInv, Exact
<1> QED BY <1>1, InductiveInvariant, PTL

\* Every answer is borne out by the store, when it is given and ever after.
THEOREM AnswersBorneOut == Spec => []AnswersMatchStore
<1>1. IndInv => AnswersMatchStore
  <2> SUFFICES ASSUME IndInv, NEW a \in answers
               PROVE  /\ rows[a.tx] # Null
                      /\ a.kind = "ok" => rows[a.tx].payload = a.payload
                      /\ a.kind = "mismatch" => rows[a.tx].payload # a.payload
                      /\ IsAnswered(a) /\ a.tx \notin unscored => SameVerdict(rows[a.tx], a.body)
    BY DEF AnswersMatchStore
  <2>1. AnswerInv(a)
    BY DEF IndInv
  <2>2. ASSUME IsAnswered(a), a.tx \notin unscored
        PROVE  SameVerdict(rows[a.tx], a.body)
    <3>1. PICK c \in History(a.tx) : c.label = a.body.label /\ c.score = a.body.score
      BY <2>1, <2>2 DEF AnswerInv, Backed
    <3>2. a.body = ReplayBody(rows[a.tx], c)
      BY <2>1, <2>2, <3>1 DEF AnswerInv, Exact
    <3>3. History(a.tx) = {c} /\ a.tx \in TxIds
      <4>1. a.tx \in TxIds /\ Scored(a.tx)
        BY <2>1, <2>2 DEF IndInv, TypeOK, Answer, AnswerInv, Scored
      <4> QED BY <4>1, <3>1 DEF IndInv, IdInv
    <3>4. rows[a.tx].score = c.score
      BY <3>3, <3>1 DEF IndInv, IdInv, AgreesWith
    <3> QED BY <3>2, <3>4 DEF SameVerdict, ReplayBody
  <2> QED BY <2>1, <2>2 DEF AnswerInv
<1> QED BY <1>1, InductiveInvariant, PTL

\* Only a commit and a seeded record change the store.
LEMMA StoreSteps ==
  ASSUME [Next]_vars
  PROVE  \/ UNCHANGED store
         \/ \E p \in Procs : Commit(p)
         \/ \E rec \in SeedRecords : SeedRow(rec)
<1>1. ASSUME NEW p \in Procs, Proceed(p) \/ Fail(p), ~Commit(p)
      PROVE  UNCHANGED store
  BY <1>1 DEF Proceed, CacheHit, CacheMiss, Replay, NoHistory, Predict, RejectInput, Insert,
              RefuseDuplicate, CachePut, CachePutUnacked, Fail
<1>2. ASSUME NEW p \in Procs, NEW t \in TxIds, NEW pl \in Payloads, Begin(p, t, pl)
      PROVE  UNCHANGED store
  BY <1>2 DEF Begin, Lookup, RefuseMismatch
<1>3. ASSUME NEW t \in TxIds, Expire(t)
      PROVE  UNCHANGED store
  BY <1>3 DEF Expire
<1>4. UNCHANGED vars => UNCHANGED store
  BY DEF vars, store
<1> QED BY <1>1, <1>2, <1>3, <1>4 DEF Next, Environment, Rest

\* No step changes a committed score or rewrites payload columns.
LEMMA KeepStep ==
  ASSUME IndInv, [Next]_vars
  PROVE  KeepsScores
<1>1. CASE UNCHANGED store
  BY <1>1 DEF store, KeepsScores, History
<1>2. ASSUME NEW p \in Procs, Commit(p)
      PROVE  KeepsScores
  <2> SUFFICES ASSUME NEW t \in TxIds
               PROVE  /\ Scored(t) => rows'[t] = rows[t] /\ History(t)' = History(t)
                      /\ rows[t] # Null => rows'[t] # Null /\ rows'[t].payload = rows[t].payload
    BY DEF KeepsScores
  <2>1. CASE t # call[p].tx
    BY <1>2, <2>1, CommitFacts
  <2>2. CASE t = call[p].tx
    <3>1. Scored(t) => seen[p] # Null
      BY <1>2, <2>2, CommitFacts DEF Scored
    <3>2. ~Scored(t)
      BY <1>2, <2>2, <3>1, CommitFacts DEF Scored, RescoreInv
    <3> QED BY <1>2, <2>2, <3>2, CommitFacts
  <2> QED BY <2>1, <2>2
<1>3. ASSUME NEW rec \in SeedRecords, SeedRow(rec)
      PROVE  KeepsScores
  <2> SUFFICES ASSUME NEW t \in TxIds, rows[t] # Null
               PROVE  rows'[t] = rows[t] /\ History(t)' = History(t)
    BY DEF KeepsScores, Scored
  <2>1. t # rec.tx
    BY <1>3 DEF SeedRow
  <2>2. rows'[t] = rows[t]
    BY <1>3, <2>1 DEF SeedRow, IndInv, TypeOK
  <2>3. \A c \in SeededPredictions(rec) : c.tx # t
    BY <2>1 DEF SeededPredictions
  <2> QED BY <1>3, <2>2, <2>3 DEF SeedRow, History
<1> QED BY <1>1, <1>2, <1>3, StoreSteps

\* A committed score is never rescored, and payload columns are never rewritten.
THEOREM ScoresAreFinal == Spec => StoredScoreIsFinal
<1>1. IndInv /\ [Next]_vars => [KeepsScores]_vars
  BY KeepStep
<1> QED BY <1>1, InductiveInvariant, PTL DEF Spec, StoredScoreIsFinal

-----------------------------------------------------------------------------
(* FraudScoring implements ScoreLedger *)


LEMMA PromisedRow ==
  ASSUME NEW t \in TxIds
  PROVE  PromisedRows[t] = IF t \in unscored THEN Null ELSE rows[t]
BY DEF PromisedRows

\* The answers of a step that gives none, or a refusal, tell no verdict.
LEMMA NothingTold ==
  ASSUME UNCHANGED unscored, answers \subseteq answers',
         \A a \in answers' \ answers : ~IsAnswered(a) \/ a.tx \in unscored
  PROVE  UNCHANGED ToldVerdicts
<1>1. PromisedAnswers' = PromisedAnswers
  BY DEF PromisedAnswers, IsAnswered
<1> QED BY <1>1 DEF ToldVerdicts

LEMMA LedgerStep ==
  ASSUME IndInv, IndInv', [Next]_vars
  PROVE  [Ledger!Next]_<<PromisedRows, ToldVerdicts>>
<1>1. ASSUME UNCHANGED <<store, answers>>
      PROVE  UNCHANGED <<PromisedRows, ToldVerdicts>>
  BY <1>1, NothingTold DEF store, PromisedRows
<1>2. ASSUME NEW a0, answers' = answers \cup {a0}, UNCHANGED store, a0 \in answers'
      PROVE  [Ledger!Next]_<<PromisedRows, ToldVerdicts>>
  <2>0. UNCHANGED PromisedRows /\ unscored' = unscored
    BY <1>2 DEF PromisedRows, store
  <2>1. CASE ~IsAnswered(a0) \/ a0.tx \in unscored
    BY <2>1, <2>0, <1>2, NothingTold
  <2>2. CASE IsAnswered(a0) /\ a0.tx \notin unscored
    <3> DEFINE t == a0.tx
               v == [tx |-> a0.tx, fraud |-> a0.body.fraud, score |-> a0.body.score,
                     version |-> a0.body.version]
    <3>1. AnswerInv(a0)' /\ t \in TxIds
      BY <1>2 DEF IndInv, TypeOK, Answer
    <3>2. rows[t] # Null /\ PromisedRows[t] = rows[t]
      BY <3>1, <2>2, <1>2, PromisedRow DEF AnswerInv, store
    <3>3. SameVerdict(rows[t], a0.body)
      <4>1. PICK c \in History(t)' : c.label = a0.body.label /\ c.score = a0.body.score
        BY <3>1, <2>2 DEF AnswerInv, Backed, IsAnswered
      <4>2. a0.body = ReplayBody(rows[t], c)
        BY <4>1, <3>1, <2>2, <2>0, <1>2 DEF AnswerInv, Exact, IsAnswered, store
      <4>3. c \in History(t)
        BY <4>1, <1>2 DEF History, store
      <4>4. History(t) = {c}
        BY <3>1, <3>2, <2>2, <4>3 DEF IndInv, IdInv, Scored
      <4>5. rows[t].score = c.score
        BY <4>3, <4>4, <3>1 DEF IndInv, IdInv, AgreesWith
      <4> QED BY <4>2, <4>5 DEF SameVerdict, ReplayBody
    <3>4. v = Ledger!Verdict(t)
      BY <3>2, <3>3 DEF SameVerdict, Ledger!Verdict
    <3>5. PromisedAnswers' = PromisedAnswers \cup {a0}
      BY <1>2, <2>0, <2>2 DEF PromisedAnswers, IsAnswered
    <3>6. ToldVerdicts' = ToldVerdicts \cup {v}
      BY <3>5 DEF ToldVerdicts
    <3>7. Ledger!Tell(t)
      BY <2>0, <3>2, <3>4, <3>6 DEF Ledger!Tell
    <3> QED BY <3>1, <3>7 DEF Ledger!Next
  <2> QED BY <2>1, <2>2
<1>3. ASSUME NEW t \in TxIds, UNCHANGED answers, rows' = [rows EXCEPT ![t] = rows'[t]],
             rows[t] = Null, unscored' = unscored, rows'[t] \in Row
      PROVE  [Ledger!Next]_<<PromisedRows, ToldVerdicts>>
  <2>1. UNCHANGED ToldVerdicts
    BY <1>3, NothingTold
  <2>2. t \notin unscored
    BY <1>3 DEF IndInv, IdInv
  <2>3. PromisedRows[t] = Null
    BY <1>3, <2>2, PromisedRow
  <2>4. PromisedRows' = [PromisedRows EXCEPT ![t] = rows'[t]]
    BY <1>3, <2>2 DEF PromisedRows, IndInv, TypeOK
  <2>5. rows'[t] \in Ledger!Entry
    BY <1>3 DEF Row, Ledger!Entry
  <2>6. Ledger!Record(t)
    BY <2>1, <2>3, <2>4, <2>5 DEF Ledger!Record
  <2> QED BY <2>6 DEF Ledger!Next
<1>4. ASSUME NEW p \in Procs, Commit(p)
      PROVE  [Ledger!Next]_<<PromisedRows, ToldVerdicts>>
  <2>t. PICK t : t = call[p].tx
    OBVIOUS
  <2>1. UNCHANGED <<answers, unscored>> /\ rows' = [rows EXCEPT ![t] = rows'[t]] /\ t \in TxIds
    <3>1. rows' = [rows EXCEPT ![t] = CommittedRow(p)] /\ UNCHANGED <<answers, unscored>>
      BY <1>4, <2>t DEF Commit
    <3>2. rows'[t] = CommittedRow(p) /\ t \in TxIds
      BY <1>4, <2>t, CommitFacts
    <3> QED BY <3>1, <3>2
  <2>2. rows'[t] \in Row
    BY <1>4, <2>t, <2>1, CommitFacts DEF IndInv, TypeOK
  <2>3. CASE seen[p] = Null
    BY <1>3, <1>4, <2>t, <2>1, <2>2, <2>3, CommitFacts
  <2>4. CASE seen[p] # Null
    <3>1. t \in unscored
      BY <1>4, <2>t, <2>4, CommitFacts DEF RescoreInv
    <3>2. UNCHANGED PromisedRows
      BY <3>1, <2>1 DEF PromisedRows, IndInv, TypeOK
    <3> QED BY <3>2, <2>1, NothingTold
  <2> QED BY <2>3, <2>4
<1>5. ASSUME NEW rec \in SeedRecords, SeedRow(rec)
      PROVE  [Ledger!Next]_<<PromisedRows, ToldVerdicts>>
  <2>t. PICK t : t = rec.tx
    OBVIOUS
  <2>1. /\ UNCHANGED answers /\ t \in TxIds /\ rows[t] = Null
        /\ rows' = [rows EXCEPT ![t] = rows'[t]] /\ rows'[t] \in Row
    BY <1>5, <2>t, CallsNat, SeedTypes DEF SeedRow, IndInv, TypeOK
  <2>2. CASE rec.scored
    BY <1>3, <1>5, <2>1, <2>2 DEF SeedRow
  <2>3. CASE ~rec.scored
    <3>1. unscored' = unscored \cup {t}
      BY <1>5, <2>t, <2>3 DEF SeedRow
    <3>2. UNCHANGED PromisedRows
      BY <2>1, <3>1 DEF PromisedRows, IndInv, TypeOK
    <3>3. \A a \in answers : a.tx # t
      BY <2>1 DEF IndInv, IdInv
    <3>4. PromisedAnswers' = PromisedAnswers
      BY <2>1, <3>1, <3>3 DEF PromisedAnswers, IsAnswered
    <3> QED BY <3>2, <3>4 DEF ToldVerdicts
  <2> QED BY <2>2, <2>3
<1>6. ASSUME NEW p \in Procs, NEW t \in TxIds, NEW pl \in Payloads, Begin(p, t, pl)
      PROVE  [Ledger!Next]_<<PromisedRows, ToldVerdicts>>
  BY <1>1, <1>2, <1>6 DEF Begin, Lookup, RefuseMismatch, Told
<1>7. ASSUME NEW p \in Procs, Proceed(p) \/ Fail(p), ~Commit(p)
      PROVE  [Ledger!Next]_<<PromisedRows, ToldVerdicts>>
  <2>1. CASE CacheHit(p) \/ RefuseDuplicate(p) \/ CachePut(p)
    BY <2>1, <1>2 DEF CacheHit, RefuseDuplicate, CachePut, Told
  <2>2. CASE ~(CacheHit(p) \/ RefuseDuplicate(p) \/ CachePut(p))
    BY <2>2, <1>1, <1>7 DEF Proceed, CacheMiss, Replay, NoHistory, Predict, RejectInput, Insert,
                            CachePutUnacked, Fail
  <2> QED BY <2>1, <2>2
<1>8. ASSUME NEW t \in TxIds, Expire(t)
      PROVE  [Ledger!Next]_<<PromisedRows, ToldVerdicts>>
  BY <1>1, <1>8 DEF Expire
<1>9. ASSUME UNCHANGED vars
      PROVE  [Ledger!Next]_<<PromisedRows, ToldVerdicts>>
  BY <1>1, <1>9 DEF vars, store
<1> QED BY <1>4, <1>5, <1>6, <1>7, <1>8, <1>9 DEF Next, Environment, Rest

\* The concurrent service with its cache and its failures is the write-once ledger.
THEOREM LedgerImplemented == Spec => ImplementsLedger
<1>1. Init => Ledger!Init
  BY DEF Init, Ledger!Init, PromisedRows, ToldVerdicts, PromisedAnswers
<1>2. IndInv /\ IndInv' /\ [Next]_vars => [Ledger!Next]_<<PromisedRows, ToldVerdicts>>
  BY LedgerStep
<1> QED BY <1>1, <1>2, InductiveInvariant, PTL DEF Spec, ImplementsLedger, Ledger!Spec

-----------------------------------------------------------------------------
(***************************************************************************)
(* FraudScoring implements ScoredStore, on which the read API is modelled. *)
(* IndInv says what a commit does to the tables; what it does not say, and *)
(* the store promises, is that the predictions of one id have created_at's *)
(* of their own: ClockInv.                                                 *)
(***************************************************************************)
\* p is in a call.
Busy(p) == pc[p] # "idle"

\* p scores a row that was stored without a prediction.
Rescores(p) == pc[p] \in {"predict", "commit"} /\ seen[p] # Null

OwnTimes == \A p, q \in Procs : Busy(p) /\ Busy(q) /\ call[p].at = call[q].at => p = q

FreeTime(p) == \A c \in History(call[p].tx) : c.at # call[p].at

ClockInv == OwnTimes /\ \A p \in Procs : Rescores(p) => FreeTime(p)
-----------------------------------------------------------------------------
\* A step of a call that neither begins it nor commits keeps the times.
LEMMA ClockLocal ==
  ASSUME IndInv, ClockInv, NEW p \in Procs, OthersSame(p), UNCHANGED store,
         pc'[p] # "idle" => /\ Busy(p) /\ UNCHANGED <<call, seen>>
                            /\ Rescores(p)' => Rescores(p) \/ History(call[p].tx) = {}
  PROVE  ClockInv'
<1>1. OwnTimes'
  BY DEF ClockInv, OwnTimes, Busy, OthersSame
<1>2. ASSUME NEW q \in Procs, Rescores(q)'
      PROVE  FreeTime(q)'
  <2>1. CASE q # p
    BY <1>2, <2>1 DEF ClockInv, Rescores, FreeTime, OthersSame, History, store
  <2>2. CASE q = p
    <3>1. pc'[p] # "idle"
      BY <1>2, <2>2 DEF Rescores
    <3>2. FreeTime(p)
      BY <1>2, <2>2, <3>1 DEF ClockInv, FreeTime
    <3> QED BY <2>2, <3>1, <3>2 DEF FreeTime, History, store
  <2> QED BY <2>1, <2>2
<1> QED BY <1>1, <1>2 DEF ClockInv

LEMMA ClockLookup ==
  ASSUME IndInv, ClockInv, NEW p \in Procs, NEW t \in TxIds, NEW pl \in Payloads, Lookup(p, t, pl)
  PROVE  ClockInv'
<1> USE DEF Lookup
<1>1. /\ calls \in Nat /\ pc'[p] = "cache" /\ OthersSame(p) /\ UNCHANGED store
      /\ call'[p] = [tx |-> t, payload |-> pl, at |-> calls + 1]
  BY CallsNat DEF IndInv, TypeOK, Goto, OthersSame
<1>2. \A q \in Procs \ {p} : Busy(q) => call[q].at \in Nat /\ call[q].at <= calls
  BY BusyCall DEF Busy
<1>3. \A q \in Procs \ {p} : Busy(q)' => call'[q].at # call'[p].at
  BY <1>1, <1>2 DEF OthersSame, Busy
<1>4. OwnTimes'
  BY <1>1, <1>3 DEF ClockInv, OwnTimes, Busy, OthersSame
<1>5. ASSUME NEW q \in Procs, Rescores(q)'
      PROVE  FreeTime(q)'
  <2>1. q # p
    BY <1>1, <1>5 DEF Rescores
  <2> QED BY <1>1, <1>5, <2>1 DEF ClockInv, Rescores, FreeTime, OthersSame, History, store
<1> QED BY <1>4, <1>5 DEF ClockInv

\* A commit adds a prediction with the time of its call, which is no other call's.
LEMMA ClockCommit ==
  ASSUME IndInv, ClockInv, NEW p \in Procs, Commit(p)
  PROVE  ClockInv'
<1>1. /\ OthersSame(p) /\ UNCHANGED <<call, seen, unscored>>
      /\ pc[p] = "commit" /\ pc'[p] = "put"
      /\ preds' = preds \cup {NewPrediction(p)}
  BY DEF Commit, Goto, OthersSame, IndInv, TypeOK
<1>2. OwnTimes'
  BY <1>1 DEF ClockInv, OwnTimes, Busy, OthersSame
<1>3. ASSUME NEW q \in Procs, Rescores(q)'
      PROVE  FreeTime(q)'
  <2>1. q # p
    BY <1>1, <1>3 DEF Rescores
  <2>2. Rescores(q) /\ Busy(q) /\ Busy(p)
    BY <1>1, <1>3, <2>1 DEF Rescores, OthersSame, Busy
  <2>3. FreeTime(q) /\ call[q].at # call[p].at
    BY <2>1, <2>2 DEF ClockInv, OwnTimes
  <2>4. NewPrediction(p).at = call[p].at
    BY DEF NewPrediction
  <2> QED BY <1>1, <2>3, <2>4 DEF FreeTime, History
<1> QED BY <1>2, <1>3 DEF ClockInv

\* A seeded prediction belongs to an id that nobody scores again.
LEMMA ClockSeed ==
  ASSUME IndInv, ClockInv, NEW rec \in SeedRecords, SeedRow(rec)
  PROVE  ClockInv'
<1>1. UNCHANGED <<pc, call, seen>> /\ preds' = preds \cup SeededPredictions(rec)
      /\ rows[rec.tx] = Null
  BY DEF SeedRow, local
<1>2. OwnTimes'
  BY <1>1 DEF ClockInv, OwnTimes, Busy
<1>3. ASSUME NEW q \in Procs, Rescores(q)'
      PROVE  FreeTime(q)'
  <2>1. Rescores(q) /\ Busy(q)
    BY <1>1, <1>3 DEF Rescores, Busy
  <2>2. rows[call[q].tx] # Null
    BY <2>1, BusyCall DEF Rescores, CallInv, SnapshotInv, Busy
  <2>3. \A c \in SeededPredictions(rec) : c.tx # call[q].tx
    BY <1>1, <2>2 DEF SeededPredictions
  <2> QED BY <1>1, <2>1, <2>3 DEF ClockInv, FreeTime, History
<1> QED BY <1>2, <1>3 DEF ClockInv

LEMMA ClockStep ==
  ASSUME IndInv, ClockInv, [Next]_vars
  PROVE  ClockInv'
<1>1. CASE UNCHANGED vars
  BY <1>1 DEF vars, ClockInv, OwnTimes, Busy, Rescores, FreeTime, History
<1>2. ASSUME NEW p \in Procs, NEW t \in TxIds, NEW pl \in Payloads, RefuseMismatch(p, t, pl)
      PROVE  ClockInv'
  BY <1>2 DEF RefuseMismatch, store, local, ClockInv, OwnTimes, Busy, Rescores, FreeTime, History
<1>3. ASSUME NEW p \in Procs, Proceed(p) \/ Fail(p), ~Commit(p)
      PROVE  ClockInv'
  <2>1. CASE CacheHit(p) \/ RejectInput(p) \/ RefuseDuplicate(p) \/ CachePut(p)
             \/ CachePutUnacked(p) \/ Fail(p)
    <3>1. EndCall(p) /\ UNCHANGED store
      BY <2>1 DEF CacheHit, RejectInput, RefuseDuplicate, CachePut, CachePutUnacked, Fail
    <3> QED BY <3>1, EndedCall, ClockLocal DEF IndInv
  <2>2. CASE CacheMiss(p) \/ Replay(p) \/ NoHistory(p) \/ Predict(p) \/ Insert(p)
    <3>1. UNCHANGED <<store, call, seen>> /\ OthersSame(p) /\ Busy(p)
      BY <2>2 DEF CacheMiss, Replay, NoHistory, Predict, Insert, Goto, OthersSame, Busy,
                  IndInv, TypeOK
    <3>2. Rescores(p)' => Rescores(p) \/ History(call[p].tx) = {}
      <4>1. CASE CacheMiss(p)
        BY <4>1 DEF CacheMiss, AfterMiss, Goto, Rescores, IndInv, TypeOK
      <4>2. CASE Replay(p)
        BY <4>2 DEF Replay, Goto, Rescores, IndInv, TypeOK
      <4>3. CASE NoHistory(p)
        BY <4>3 DEF NoHistory
      <4>4. CASE Predict(p)
        BY <4>4 DEF Predict, Rescores
      <4>5. CASE Insert(p)
        BY <4>5, BusyCall DEF Insert, Rescores, CallInv
      <4> QED BY <2>2, <4>1, <4>2, <4>3, <4>4, <4>5
    <3> QED BY <3>1, <3>2, ClockLocal
  <2> QED BY <1>3, <2>1, <2>2 DEF Proceed
<1>4. ASSUME NEW t \in TxIds, Expire(t)
      PROVE  ClockInv'
  BY <1>4 DEF Expire, store, local, ClockInv, OwnTimes, Busy, Rescores, FreeTime, History
<1> QED BY <1>1, <1>2, <1>3, <1>4, ClockLookup, ClockCommit, ClockSeed
        DEF Next, Begin, Environment, Rest

THEOREM ClockInvariant == Spec => []ClockInv
<1>1. Init => ClockInv
  BY DEF Init, ClockInv, OwnTimes, Busy, Rescores
<1> QED BY <1>1, ClockStep, InductiveInvariant, PTL DEF Spec

-----------------------------------------------------------------------------
(* The refinement *)

LEMMA ShownHistory ==
  ASSUME NEW t
  PROVE  Store!History(t) = {Shown(c) : c \in History(t)}
BY DEF Store!History, History, ShownPreds, Shown

\* A step that writes one row and adds one prediction of it.
LEMMA ShownCommit ==
  ASSUME IndInv, NEW p \in Procs, Commit(p), NEW t, t = call[p].tx
  PROVE  /\ t \in TxIds
         /\ Store!Stored(t, CommittedRow(p))
         /\ Store!Predicted(t, out[p].label, out[p].score, call[p].at)
         /\ UNCHANGED unscored
         /\ CommittedRow(p) \in Row
         /\ out[p] \in Body /\ out[p].label = out[p].fraud /\ out[p].at = call[p].at
<1>1. t \in TxIds /\ out[p] \in Body /\ out[p].label = out[p].fraud /\ out[p].at = call[p].at
  BY CommitFacts DEF FreshInv
<1>2. Store!Stored(t, CommittedRow(p)) /\ UNCHANGED unscored
  BY DEF Commit, Store!Stored
<1>3. Store!Predicted(t, out[p].label, out[p].score, call[p].at)
  <2>1. preds' = preds \cup {NewPrediction(p)}
    BY DEF Commit
  <2>2. Shown(NewPrediction(p))
          = [tx |-> t, label |-> out[p].label, score |-> out[p].score, at |-> call[p].at]
    BY DEF NewPrediction, Shown
  <2>3. ShownPreds' = ShownPreds \cup {Shown(NewPrediction(p))}
    BY <2>1 DEF ShownPreds, Shown
  <2> QED BY <2>2, <2>3 DEF Store!Predicted
<1>4. CommittedRow(p) \in Row
  <2>1. CASE seen[p] = Null
    <3>1. call[p].payload \in Payloads
      BY BusyCall DEF Commit
    <3> QED BY <1>1, <2>1, <3>1, BodyTypes DEF CommittedRow
  <2>2. CASE seen[p] # Null
    <3>1. rows[t] \in Row /\ seen[p] \in Row
      BY <1>1, <2>2, CommitFacts DEF SnapshotInv, IndInv, TypeOK
    <3> QED BY <1>1, <2>2, <3>1, BodyTypes DEF CommittedRow
  <2> QED BY <2>1, <2>2
<1> QED BY <1>1, <1>2, <1>3, <1>4

LEMMA StoreStep ==
  ASSUME IndInv, ClockInv, [Next]_vars
  PROVE  [Store!StoreNext]_<<rows, ShownPreds, unscored>>
<1>1. CASE UNCHANGED store
  BY <1>1 DEF store, ShownPreds
<1>2. ASSUME NEW p \in Procs, Commit(p)
      PROVE  Store!StoreNext
  <2>t. PICK t : t = call[p].tx
    OBVIOUS
  <2>1. /\ t \in TxIds
        /\ Store!Stored(t, CommittedRow(p))
        /\ Store!Predicted(t, out[p].label, out[p].score, call[p].at)
        /\ UNCHANGED unscored
        /\ CommittedRow(p) \in Row
        /\ out[p] \in Body /\ out[p].label = out[p].fraud /\ out[p].at = call[p].at
    BY <1>2, <2>t, ShownCommit
  <2>2. CASE seen[p] = Null
    <3>1. rows[t] = Null
      BY <1>2, <2>t, <2>2, CommitFacts
    <3>2. CommittedRow(p).fraud = out[p].label /\ CommittedRow(p).score = out[p].score
          /\ CommittedRow(p).at = call[p].at
      BY <2>1, <2>2 DEF CommittedRow, InsertedRow
    <3>3. CommittedRow(p) \in Store!Row
      BY <2>1 DEF Row, Store!Row
    <3>4. Store!StoreScored(t)
      BY <2>1, <3>1, <3>2, <3>3 DEF Store!StoreScored
    <3> QED BY <2>1, <3>4 DEF Store!StoreNext
  <2>3. CASE seen[p] # Null
    <3> DEFINE row == CommittedRow(p)
    <3>1. t \in unscored /\ rows[t] \in Row /\ SnapshotInv(p)
      BY <1>2, <2>t, <2>1, <2>3, CommitFacts DEF RescoreInv, SnapshotInv, IndInv, TypeOK
    <3>2. row = UpdatedRow(rows[t], seen[p], out[p])
      BY <2>t, <2>3 DEF CommittedRow
    <3>3. row = Store!Summarised(rows[t], row.fraud, row.score, row.version)
      BY <3>2 DEF UpdatedRow, Store!Summarised
    <3>4. History(t) = {} => row.fraud = out[p].label /\ row.score = out[p].score
      BY <2>t, <2>1, <3>1, <3>2 DEF SnapshotInv, UpdatedRow, Written
    <3>5. Store!History(t) = {} => History(t) = {}
      BY ShownHistory
    <3>6. \A c \in Store!History(t) : c.at # call[p].at
      <4>1. Rescores(p)
        BY <1>2, <2>3 DEF Commit, Rescores
      <4>2. FreeTime(p)
        BY <4>1 DEF ClockInv
      <4> QED BY <2>t, <4>2, ShownHistory DEF FreeTime, Shown
    <3>7. row.fraud \in BOOLEAN /\ row.score \in Scores /\ row.version \in Versions
      BY <2>1 DEF Row
    <3>8. out[p].label \in BOOLEAN /\ out[p].score \in Scores /\ call[p].at \in 0..MaxCalls
      BY <2>1 DEF Body
    <3>9. Store!ScoreBare(t)
      <4> HIDE DEF row
      <4>1. Store!Stored(t, Store!Summarised(rows[t], row.fraud, row.score, row.version))
        BY <2>1, <3>3 DEF row
      <4>2. \E fraud \in BOOLEAN, sc \in Scores, version \in Versions :
              /\ Store!History(t) = {} => fraud = out[p].label /\ sc = out[p].score
              /\ Store!Stored(t, Store!Summarised(rows[t], fraud, sc, version))
        BY <4>1, <3>4, <3>5, <3>7
      <4> QED BY <2>1, <3>1, <3>6, <3>8, <4>2 DEF Store!ScoreBare
    <3> QED BY <2>1, <3>9 DEF Store!StoreNext
  <2> QED BY <2>2, <2>3
<1>3. ASSUME NEW rec \in SeedRecords, SeedRow(rec)
      PROVE  Store!StoreNext
  <2>1. rec.tx \in TxIds /\ SeededRow(rec) \in Store!Row /\ rows[rec.tx] = Null
        /\ Store!Stored(rec.tx, SeededRow(rec))
    BY <1>3, CallsNat, SeedTypes DEF SeedRow, IndInv, Row, Store!Row, Store!Stored
  <2>2. CASE rec.scored
    <3>1. ShownPreds' = ShownPreds \cup {Shown(c) : c \in SeededPredictions(rec)}
      BY <1>3 DEF SeedRow, ShownPreds, Shown
    <3>2. Store!Predicted(rec.tx, SeededRow(rec).fraud, SeededRow(rec).score, SeededRow(rec).at)
      <4>1. rec.label \in BOOLEAN
        BY SeedAssumption DEF SeedRecord
      <4> QED BY <2>2, <3>1, <4>1 DEF SeededPredictions, SeededRow, Shown, Store!Predicted
    <3>3. Store!StoreScored(rec.tx)
      BY <1>3, <2>1, <2>2, <3>2 DEF Store!StoreScored, SeedRow
    <3> QED BY <2>1, <3>3 DEF Store!StoreNext
  <2>3. CASE ~rec.scored
    <3>1. rec.tx \in BareIds /\ ~SeededRow(rec).fraud
      BY <2>3 DEF BareIds, SeededRow
    <3>2. UNCHANGED ShownPreds
      BY <1>3, <2>3 DEF SeedRow, SeededPredictions, ShownPreds
    <3>3. Store!StoreBare(rec.tx)
      BY <1>3, <2>1, <2>3, <3>1, <3>2 DEF Store!StoreBare, SeedRow
    <3> QED BY <2>1, <3>3 DEF Store!StoreNext
  <2> QED BY <2>2, <2>3
<1> QED BY <1>1, <1>2, <1>3, StoreSteps

\* Whatever calls, failures and seed runs do, the tables change as ScoredStore says.
THEOREM StoreImplemented == Spec => ImplementsStore
<1>1. Init => Store!StoreInit
  BY DEF Init, Store!StoreInit, ShownPreds
<1>2. IndInv /\ ClockInv /\ [Next]_vars => [Store!StoreNext]_<<rows, ShownPreds, unscored>>
  BY StoreStep
<1> QED BY <1>1, <1>2, InductiveInvariant, ClockInvariant, PTL
        DEF Spec, ImplementsStore, Store!StoreSpec, Store!tables

-----------------------------------------------------------------------------
(***************************************************************************)
(* Which callers may be told the score of other data.  A cache hit is not  *)
(* compared with the stored row, so OtherDataIsRefused does not hold; it   *)
(* fails only for a call that read the row before anybody committed it.    *)
(***************************************************************************)
\* p is in a call that found no row: the id had no prediction when it began.
Blind(p) == Busy(p) /\ seen[p] = Null

BeganBeforeScores(p) == \A c \in History(call[p].tx) : call[p].at <= c.done

BlindInv == \A p \in Procs : Blind(p) => BeganBeforeScores(p)

\* A step that is not the SELECT of a call.
LEMMA BlindStays ==
  ASSUME IndInv, BlindInv,
         \A p \in Procs : Blind(p)' => Blind(p) /\ call'[p] = call[p],
         \A c \in preds' \ preds : c.done = calls
  PROVE  BlindInv'
<1> SUFFICES ASSUME NEW p \in Procs, Blind(p)', NEW c \in preds', c.tx = call'[p].tx
             PROVE  call'[p].at <= c.done
  BY DEF BlindInv, BeganBeforeScores, History
<1>1. Blind(p) /\ call'[p] = call[p]
  OBVIOUS
<1>2. call[p].at <= calls
  BY <1>1, BusyCall DEF Blind, Busy
<1> QED BY <1>1, <1>2 DEF BlindInv, BeganBeforeScores, History

LEMMA BlindLookup ==
  ASSUME IndInv, BlindInv, NEW p \in Procs, NEW t \in TxIds, NEW pl \in Payloads, Lookup(p, t, pl)
  PROVE  BlindInv'
<1>1. /\ OthersSame(p) /\ UNCHANGED preds
      /\ call'[p] = [tx |-> t, payload |-> pl, at |-> calls + 1]
      /\ seen'[p] = rows[t]
  BY DEF Lookup, store, IndInv, TypeOK, Goto, OthersSame
<1>2. Blind(p)' => BeganBeforeScores(p)'
  <2>1. rows[t] = Null => History(t) = {}
    BY DEF IndInv, IdInv
  <2> QED BY <1>1, <2>1 DEF Blind, BeganBeforeScores, History
<1>3. \A q \in Procs \ {p} : Blind(q)' => BeganBeforeScores(q)'
  BY <1>1 DEF BlindInv, Blind, Busy, BeganBeforeScores, History, OthersSame
<1> QED BY <1>2, <1>3 DEF BlindInv

LEMMA BlindStep ==
  ASSUME IndInv, BlindInv, [Next]_vars
  PROVE  BlindInv'
<1>1. CASE UNCHANGED vars
  BY <1>1, BlindStays DEF vars, Blind, Busy
<1>2. ASSUME NEW p \in Procs, Proceed(p) \/ Fail(p)
      PROVE  BlindInv'
  <2>1. ASSUME EndCall(p), UNCHANGED store
        PROVE  BlindInv'
    BY <2>1, EndedCall, BlindStays DEF IndInv, Blind, Busy, OthersSame, store
  <2>2. CASE \/ CacheHit(p) \/ RejectInput(p) \/ RefuseDuplicate(p) \/ CachePut(p)
             \/ CachePutUnacked(p) \/ Fail(p)
    BY <2>1, <2>2 DEF CacheHit, RejectInput, RefuseDuplicate, CachePut, CachePutUnacked, Fail
  <2>3. CASE CacheMiss(p) \/ Replay(p) \/ NoHistory(p) \/ Predict(p) \/ Insert(p) \/ Commit(p)
    <3>1. UNCHANGED <<call, seen>> /\ OthersSame(p) /\ Busy(p)
      BY <2>3 DEF CacheMiss, Replay, NoHistory, Predict, Insert, Commit, Goto, OthersSame, Busy,
                  IndInv, TypeOK
    <3>2. \A c \in preds' \ preds : c.done = calls
      BY <2>3 DEF CacheMiss, Replay, NoHistory, Predict, Insert, Commit, NewPrediction, store
    <3> QED BY <3>1, <3>2, BlindStays DEF Blind, Busy, OthersSame
  <2> QED BY <1>2, <2>2, <2>3 DEF Proceed
<1>3. ASSUME NEW p \in Procs, NEW t \in TxIds, NEW pl \in Payloads, RefuseMismatch(p, t, pl)
      PROVE  BlindInv'
  BY <1>3, BlindStays DEF RefuseMismatch, store, local, Blind, Busy
<1>4. ASSUME NEW rec \in SeedRecords, SeedRow(rec)
      PROVE  BlindInv'
  <2>1. \A c \in preds' \ preds : c.done = calls
    BY <1>4 DEF SeedRow, SeededPredictions
  <2> QED BY <1>4, <2>1, BlindStays DEF SeedRow, local, Blind, Busy
<1>5. ASSUME NEW t \in TxIds, Expire(t)
      PROVE  BlindInv'
  BY <1>5, BlindStays DEF Expire, store, local, Blind, Busy
<1> QED BY <1>1, <1>2, <1>3, <1>4, <1>5, BlindLookup DEF Next, Begin, Environment, Rest

\* p is given a score although other columns than those it sent are stored.
GivenOtherData(p) ==
  (CacheHit(p) \/ CachePut(p)) /\ rows[call[p].tx].payload # call[p].payload

\* Only a cache hit tells the score of other data, and only to a call whose first
\* SELECT found no row and which began before every committed prediction of the id
\* was committed: the comparison of score_transaction was made too early for it.  A
\* call that begins after the id was scored is never given the score of other data.
OtherDataOnlyInOverlap ==
  [][\A p \in Procs : GivenOtherData(p) => CacheHit(p) /\ seen[p] = Null /\ BeganBeforeScores(p)]_vars

\* How far the promise OtherDataIsRefused, which the code breaks, still holds.
THEOREM OtherDataNeedsOverlap == Spec => OtherDataOnlyInOverlap
<1>1. Init => BlindInv
  BY DEF Init, BlindInv, Blind, Busy
<1>2. ASSUME IndInv, BlindInv, NEW p \in Procs, GivenOtherData(p)
      PROVE  CacheHit(p) /\ seen[p] = Null /\ BeganBeforeScores(p)
  <2>1. Busy(p) /\ CallInv(p)
    BY <1>2 DEF GivenOtherData, CacheHit, CachePut, Busy, IndInv
  <2>2. CacheHit(p)
    BY <1>2, <2>1 DEF GivenOtherData, CachePut, CallInv, PutInv, Busy
  <2>3. seen[p] = Null
    BY <1>2, <2>1 DEF GivenOtherData, CallInv, SnapshotInv, Busy
  <2> QED BY <1>2, <2>1, <2>2, <2>3 DEF BlindInv, Blind
<1>3. IndInv /\ BlindInv =>
        \A p \in Procs : GivenOtherData(p) => CacheHit(p) /\ seen[p] = Null /\ BeganBeforeScores(p)
  BY <1>2
<1> QED BY <1>1, <1>3, BlindStep, InductiveInvariant, PTL DEF Spec, OtherDataOnlyInOverlap
=============================================================================
