---------------------------- MODULE ReadApiProofs ----------------------------
(***************************************************************************)
(* ReadApi for all values of its constants.  What readers may rely on is   *)
(* what ScoredStore keeps: a row that came with its prediction has this    *)
(* one and agrees with it for ever, and the predictions of a row that came *)
(* bare have times of their own.  For a client that walks through a list:  *)
(* commits put entries before others, so an entry that is not yet shown    *)
(* stays behind the next offset.                                           *)
(***************************************************************************)
EXTENDS ReadApi, FiniteSetTheorems, TLAPS

Stands(t) == rows[t] # Null

\* A row that was stored with its prediction, or scored once since.
Agrees(t) ==
  \A c \in History(t) : ScoredAtMostOnce(t) => rows[t].fraud = c.label

Whole(t) ==
  \E c \in History(t) :
    /\ History(t) = {c}
    /\ rows[t].fraud = c.label /\ rows[t].score = c.score /\ rows[t].at = c.at

OwnTimes(t) == \A c, d \in History(t) : c.at = d.at => c = d

TxInv(t) ==
  /\ ~Stands(t) => History(t) = {} /\ t \notin unscored
  /\ Stands(t) /\ t \notin unscored => Whole(t)
  /\ OwnTimes(t)
  /\ Agrees(t)

StoreInv == StoreTypeOK /\ \A t \in TxIds : TxInv(t)

\* What a detail has read of a row that was stored with its prediction is still so.
DetailInv ==
  /\ detail \in Detail \cup {Null}
  /\ rpc = "history" => detail # Null
  /\ detail # Null =>
       /\ query = Null /\ rpc # "page" /\ Stands(detail.tx)
       /\ detail.tx \notin unscored =>
            /\ detail.row = rows[detail.tx]
            /\ rpc = "idle" => detail.preds = History(detail.tx)

ReadInv == StoreInv /\ DetailInv

-----------------------------------------------------------------------------
\* A commit to one transaction leaves the others alone.
LEMMA OthersKeepInv ==
  ASSUME NEW t \in TxIds, NEW u \in TxIds \ {t}, TxInv(u),
         rows'[u] = rows[u], History(u)' = History(u), u \in unscored' <=> u \in unscored
  PROVE  TxInv(u)'
BY DEF TxInv, Stands, Agrees, Whole, OwnTimes, ScoredAtMostOnce

LEMMA StoredOnly ==
  ASSUME StoreTypeOK, NEW t \in TxIds, NEW row \in Row, Stored(t, row)
  PROVE  /\ rows' \in [TxIds -> Row \cup {Null}] /\ rows'[t] = row /\ rows'[t] # Null
         /\ \A u \in TxIds \ {t} : rows'[u] = rows[u]
BY NoValueAssumption DEF StoreTypeOK, Stored

LEMMA PredictedOnly ==
  ASSUME StoreTypeOK, NEW t \in TxIds, NEW label \in BOOLEAN, NEW score \in Scores,
         NEW at \in Times, Predicted(t, label, score, at)
  PROVE  LET new == [tx |-> t, label |-> label, score |-> score, at |-> at]
         IN  /\ preds' \subseteq Prediction
             /\ History(t)' = History(t) \cup {new}
             /\ \A u \in TxIds \ {t} : History(u)' = History(u)
BY DEF StoreTypeOK, Predicted, Prediction, History

LEMMA StoreScoredKeepsInv ==
  ASSUME StoreInv, NEW t \in TxIds, StoreScored(t)
  PROVE  StoreInv' /\ \A u \in TxIds : Stands(u) => UNCHANGED <<rows[u], History(u)>>
<1>1. PICK row \in Row : Stored(t, row) /\ Predicted(t, row.fraud, row.score, row.at)
  BY DEF StoreScored
<1> DEFINE new == [tx |-> t, label |-> row.fraud, score |-> row.score, at |-> row.at]
<1>2. row.fraud \in BOOLEAN /\ row.score \in Scores /\ row.at \in Times
  BY DEF Row
<1>3. /\ rows' \in [TxIds -> Row \cup {Null}] /\ rows'[t] = row /\ rows'[t] # Null
      /\ \A u \in TxIds \ {t} : rows'[u] = rows[u]
  BY <1>1, StoredOnly DEF StoreInv
<1>4. /\ preds' \subseteq Prediction
      /\ History(t)' = History(t) \cup {new}
      /\ \A u \in TxIds \ {t} : History(u)' = History(u)
  BY <1>1, <1>2, PredictedOnly DEF StoreInv
<1>5. History(t) = {} /\ t \notin unscored /\ UNCHANGED unscored /\ ~Stands(t)
  BY DEF StoreScored, StoreInv, TxInv, Stands
<1>6. History(t)' = {new}
  BY <1>4, <1>5
<1>7. TxInv(t)'
  <2>1. Whole(t)'
    BY <1>3, <1>6 DEF Whole
  <2>2. OwnTimes(t)'
    BY <1>6 DEF OwnTimes
  <2>3. Agrees(t)'
    BY <1>3, <1>6 DEF Agrees
  <2> QED BY <1>3, <2>1, <2>2, <2>3 DEF TxInv, Stands
<1>8. \A u \in TxIds \ {t} : TxInv(u)'
  BY <1>3, <1>4, <1>5, OthersKeepInv DEF StoreInv
<1>9. StoreTypeOK'
  BY <1>3, <1>4, <1>5 DEF StoreInv, StoreTypeOK
<1> QED BY <1>3, <1>4, <1>5, <1>7, <1>8, <1>9 DEF StoreInv

LEMMA StoreBareKeepsInv ==
  ASSUME StoreInv, NEW t \in TxIds, StoreBare(t)
  PROVE  StoreInv' /\ \A u \in TxIds : Stands(u) => UNCHANGED <<rows[u], History(u)>>
<1>1. PICK row \in Row : Stored(t, row)
  BY DEF StoreBare
<1>2. /\ rows' \in [TxIds -> Row \cup {Null}] /\ rows'[t] = row /\ rows'[t] # Null
      /\ \A u \in TxIds \ {t} : rows'[u] = rows[u]
  BY <1>1, StoredOnly DEF StoreInv
<1>3. \A u \in TxIds : History(u)' = History(u)
  BY DEF StoreBare, History
<1>4. History(t) = {} /\ ~Stands(t) /\ unscored' = unscored \cup {t} /\ UNCHANGED preds
  BY DEF StoreBare, StoreInv, TxInv, Stands
<1>5. TxInv(t)'
  BY <1>2, <1>3, <1>4 DEF TxInv, Stands, OwnTimes, Agrees
<1>6. \A u \in TxIds \ {t} : TxInv(u)'
  BY <1>2, <1>3, <1>4, OthersKeepInv DEF StoreInv
<1>7. StoreTypeOK'
  BY <1>2, <1>4 DEF StoreInv, StoreTypeOK, StoreBare
<1> QED BY <1>2, <1>3, <1>4, <1>5, <1>6, <1>7 DEF StoreInv

LEMMA ScoreBareKeepsInv ==
  ASSUME StoreInv, NEW t \in TxIds, ScoreBare(t)
  PROVE  /\ StoreInv' /\ t \in unscored /\ Stands(t)'
         /\ \A u \in TxIds \ {t} : UNCHANGED <<rows[u], History(u)>>
<1>1. PICK label \in BOOLEAN, score \in Scores, at \in Times :
        /\ \A c \in History(t) : c.at # at
        /\ Predicted(t, label, score, at)
        /\ \E fraud \in BOOLEAN, sc \in Scores, version \in Versions :
             /\ History(t) = {} => fraud = label /\ sc = score
             /\ Stored(t, Summarised(rows[t], fraud, sc, version))
  BY DEF ScoreBare
<1>2. PICK fraud \in BOOLEAN, sc \in Scores, version \in Versions :
        /\ History(t) = {} => fraud = label /\ sc = score
        /\ Stored(t, Summarised(rows[t], fraud, sc, version))
  BY <1>1
<1> DEFINE new == [tx |-> t, label |-> label, score |-> score, at |-> at]
           row == Summarised(rows[t], fraud, sc, version)
<1>3. t \in unscored /\ UNCHANGED unscored
  BY DEF ScoreBare
<1>4. rows[t] \in Row
  BY <1>3 DEF StoreInv, StoreTypeOK, TxInv, Stands
<1>5. row \in Row /\ row.fraud = fraud
  BY <1>4 DEF Summarised, Row
<1> HIDE DEF row
<1>6. Stored(t, row)
  BY <1>2 DEF row
<1>7. /\ rows' \in [TxIds -> Row \cup {Null}] /\ rows'[t] = row /\ rows'[t] # Null
      /\ \A u \in TxIds \ {t} : rows'[u] = rows[u]
  BY <1>5, <1>6, StoredOnly DEF StoreInv
<1>8. /\ preds' \subseteq Prediction
      /\ History(t)' = History(t) \cup {new}
      /\ \A u \in TxIds \ {t} : History(u)' = History(u)
  BY <1>1, PredictedOnly DEF StoreInv
<1>9. TxInv(t)'
  <2>1. OwnTimes(t)'
    BY <1>1, <1>8 DEF OwnTimes, StoreInv, TxInv
  <2>2. Agrees(t)'
    <3>1. CASE History(t) = {}
      BY <1>2, <1>5, <1>7, <1>8, <3>1 DEF Agrees
    <3>2. CASE History(t) # {}
      <4>1. PICK c \in History(t) : c.at # new.at
        BY <1>1, <3>2
      <4>2. c \in History(t)' /\ new \in History(t)' /\ c # new
        BY <1>8, <4>1
      <4>3. ~ScoredAtMostOnce(t)'
        BY <4>2 DEF ScoredAtMostOnce
      <4> QED BY <4>3 DEF Agrees
    <3> QED BY <3>1, <3>2
  <2> QED BY <1>3, <1>7, <2>1, <2>2 DEF TxInv, Stands
<1>10. \A u \in TxIds \ {t} : TxInv(u)'
  BY <1>3, <1>7, <1>8, OthersKeepInv DEF StoreInv
<1>11. StoreTypeOK'
  BY <1>3, <1>7, <1>8 DEF StoreInv, StoreTypeOK
<1> QED BY <1>3, <1>7, <1>8, <1>9, <1>10, <1>11 DEF StoreInv, Stands

-----------------------------------------------------------------------------
LEMMA ReadInvInit == ReadInit => ReadInv
<1> SUFFICES ASSUME ReadInit PROVE ReadInv
  OBVIOUS
<1>1. StoreTypeOK
  BY DEF ReadInit, StoreInit, StoreTypeOK
<1>2. \A t \in TxIds : TxInv(t)
  BY DEF ReadInit, StoreInit, TxInv, Stands, OwnTimes, Agrees, History
<1>3. DetailInv
  BY DEF ReadInit, DetailInv
<1> QED BY <1>1, <1>2, <1>3 DEF ReadInv, StoreInv

LEMMA ReadInvNext == ReadInv /\ [ReadNext]_<<tables, readVars>> => ReadInv'
<1> SUFFICES ASSUME ReadInv, [ReadNext]_<<tables, readVars>> PROVE ReadInv'
  OBVIOUS
<1> DEFINE t == detail.tx
<1>0. detail # Null => detail \in Detail /\ t \in TxIds
  BY DEF ReadInv, DetailInv, Detail
<1>1. CASE Write
  <2>1. UNCHANGED <<rpc, query, detail>>
    BY <1>1 DEF Write, readVars, walkVars
  <2>2. PICK u \in TxIds : StoreScored(u) \/ StoreBare(u) \/ ScoreBare(u)
    BY <1>1 DEF Write, StoreNext
  <2>3. StoreInv' /\ unscored \subseteq unscored'
    BY <2>2, StoreScoredKeepsInv, StoreBareKeepsInv, ScoreBareKeepsInv
       DEF ReadInv, StoreScored, StoreBare, ScoreBare
  <2>4. ASSUME detail # Null
        PROVE  /\ Stands(t)'
               /\ t \notin unscored => UNCHANGED <<rows[t], History(t)>>
    <3>1. t \in TxIds /\ Stands(t)
      BY <1>0, <2>4 DEF ReadInv, DetailInv
    <3>2. CASE StoreScored(u) \/ StoreBare(u)
      <4>1. UNCHANGED <<rows[t], History(t)>>
        BY <2>1, <3>1, <3>2, StoreScoredKeepsInv, StoreBareKeepsInv DEF ReadInv, History
      <4> QED BY <2>1, <3>1, <4>1 DEF Stands
    <3>3. CASE ScoreBare(u)
      <4>1. /\ u \in unscored /\ Stands(u)'
            /\ t # u => UNCHANGED <<rows[t], History(t)>>
        BY <2>1, <3>1, <3>3, ScoreBareKeepsInv DEF ReadInv, History
      <4> QED BY <2>1, <3>1, <4>1 DEF Stands
    <3> QED BY <2>2, <3>2, <3>3
  <2>5. DetailInv'
    BY <2>1, <2>3, <2>4 DEF ReadInv, DetailInv
  <2> QED BY <2>3, <2>5 DEF ReadInv
<1>2. ASSUME UNCHANGED tables
      PROVE  StoreInv' /\ \A u \in TxIds : History(u)' = History(u)
  BY <1>2 DEF ReadInv, StoreInv, StoreTypeOK, TxInv, Stands, Whole, Agrees, OwnTimes,
              ScoredAtMostOnce, History, tables
<1>3. CASE /\ UNCHANGED tables
           /\ \/ UNCHANGED <<rpc, query, detail>>
              \/ detail' = Null /\ rpc' # "history"
  <2>1. DetailInv'
    BY <1>2, <1>3 DEF ReadInv, DetailInv, Stands, History, tables
  <2> QED BY <1>2, <1>3, <2>1 DEF ReadInv
<1>4. ASSUME NEW q \in Query, CountFirst(q)
      PROVE  ReadInv'
  BY <1>3, <1>4 DEF CountFirst
<1>5. CASE CountNext \/ FetchPage
  <2>1. UNCHANGED <<query, detail>> /\ UNCHANGED tables
    BY <1>5 DEF CountNext, FetchPage
  <2>2. detail = Null
    BY <1>5 DEF CountNext, FetchPage, ReadInv, DetailInv
  <2>3. rpc' # "history"
    BY <1>5 DEF CountNext, FetchPage
  <2> QED BY <1>3, <2>1, <2>2, <2>3
<1>6. ASSUME NEW u \in TxIds, GetRow(u)
      PROVE  ReadInv'
  <2>1. UNCHANGED tables /\ Stands(u) /\ rpc' = "history" /\ query' = Null
    BY <1>6 DEF GetRow, Forget, Stands
  <2>2. detail' = [tx |-> u, row |-> rows[u], preds |-> {}]
    BY <1>6 DEF GetRow
  <2>3. detail' \in Detail
    BY <2>1, <2>2 DEF Detail, ReadInv, StoreInv, StoreTypeOK, Stands
  <2>4. DetailInv'
    BY <2>1, <2>2, <2>3, NoValueAssumption DEF DetailInv, Stands, tables
  <2> QED BY <1>2, <2>1, <2>4 DEF ReadInv
<1>7. CASE GetHistory
  <2>1. UNCHANGED tables /\ rpc' = "idle" /\ UNCHANGED query
    BY <1>7 DEF GetHistory, walkVars
  <2>2. detail' = [detail EXCEPT !.preds = History(detail.tx)]
    BY <1>7 DEF GetHistory
  <2>3. detail \in Detail /\ detail # Null
    BY <1>7 DEF GetHistory, ReadInv, DetailInv
  <2>4. History(detail.tx) \subseteq Prediction
    BY DEF History, ReadInv, StoreInv, StoreTypeOK
  <2>5. /\ detail' \in Detail /\ detail'.tx = detail.tx /\ detail'.row = detail.row
        /\ detail'.preds = History(detail.tx)
    BY <2>2, <2>3, <2>4 DEF Detail
  <2>6. detail.tx \in TxIds
    BY <2>3 DEF Detail
  <2>7. DetailInv'
    BY <1>2, <2>1, <2>3, <2>5, <2>6, NoValueAssumption
       DEF DetailInv, ReadInv, Stands, History, tables
  <2> QED BY <1>2, <2>1, <2>7 DEF ReadInv
<1>8. CASE UNCHANGED <<tables, readVars>>
  BY <1>3, <1>8 DEF readVars, walkVars
<1> QED BY <1>1, <1>4, <1>5, <1>6, <1>7, <1>8 DEF ReadNext

-----------------------------------------------------------------------------
\* The strengthening holds in every reachable state.
THEOREM ReadInvariant == ReadSpec => []ReadInv
BY ReadInvInit, ReadInvNext, PTL DEF ReadSpec

\* Of the predictions of one transaction at most one is the latest.
LEMMA OneNewest ==
  ASSUME NEW t \in TxIds, OwnTimes(t), preds \subseteq Prediction
  PROVE  \A c, d \in Newest(t) : c = d
<1> SUFFICES ASSUME NEW c \in Newest(t), NEW d \in Newest(t) PROVE c = d
  OBVIOUS
<1>1. c \in History(t) /\ d \in History(t) /\ c.at <= d.at /\ d.at <= c.at
  BY DEF Newest
<1>2. c.at \in Nat /\ d.at \in Nat
  BY <1>1, TimesAssumption DEF History, Prediction
<1>3. c.at = d.at
  BY <1>1, <1>2
<1> QED BY <1>1, <1>3 DEF OwnTimes

\* The filter of list_transactions (transaction_read_service.py:90-97) lists a transaction
\* exactly if a latest prediction of it has the label.
LEMMA ListedByNewest ==
  ASSUME NEW t \in TxIds, rows[t] \in Row, NEW fraud \in BOOLEAN
  PROVE  Listed(t, fraud) <=> \E c \in Newest(t) : c.label = fraud
<1>1. \A u \in TxIds : \A c \in Newest(u) : c.tx = u
  BY DEF Newest, History
<1>2. t \in Matching(Payloads) /\ Matching(Payloads) \subseteq TxIds
  BY NoValueAssumption DEF Matching, Row
<1>3. Labelled(Payloads, fraud) =
        {Entry(c.tx, c) : c \in {d \in UNION {Newest(u) : u \in Matching(Payloads)} :
                                   d.label = fraud}}
  BY DEF Labelled, LatestJoin
<1>4. ASSUME Listed(t, fraud)
      PROVE  \E c \in Newest(t) : c.label = fraud
  <2>1. PICK u \in Matching(Payloads) :
          \E c \in Newest(u) : c.label = fraud /\ Entry(c.tx, c).tx = t
    BY <1>3, <1>4 DEF Listed
  <2> QED BY <1>1, <1>2, <2>1 DEF Entry
<1>5. ASSUME NEW c \in Newest(t), c.label = fraud
      PROVE  Listed(t, fraud)
  <2>1. Entry(c.tx, c) \in Labelled(Payloads, fraud)
    BY <1>2, <1>3, <1>5
  <2> QED BY <1>1, <1>5, <2>1 DEF Listed, Entry
<1> QED BY <1>4, <1>5

\* Filter, label column and row of a transaction agree.
THEOREM LabelsAlwaysAgree == ReadSpec => []LabelsAgree
<1>1. ReadInv => LabelsAgree
  <2> SUFFICES ASSUME ReadInv, NEW t \in TxIds, NEW fraud \in BOOLEAN, rows[t] # Null
               PROVE  /\ Listed(t, fraud) <=> Column(t) = {fraud}
                      /\ Listed(t, fraud) /\ ScoredAtMostOnce(t) => rows[t].fraud = fraud
    BY DEF LabelsAgree
  <2>1. OwnTimes(t) /\ Agrees(t) /\ preds \subseteq Prediction /\ rows[t] \in Row
    BY DEF ReadInv, StoreInv, StoreTypeOK, TxInv
  <2>2. Listed(t, fraud) <=> \E c \in Newest(t) : c.label = fraud
    BY <2>1, ListedByNewest
  <2>3. Newest(t) \subseteq History(t) /\ \A c, d \in Newest(t) : c = d
    BY <2>1, OneNewest DEF Newest
  <2>4. ASSUME NEW c \in Newest(t), c.label = fraud
        PROVE  Column(t) = {fraud} /\ (ScoredAtMostOnce(t) => rows[t].fraud = fraud)
    BY <2>1, <2>3, <2>4 DEF Column, Agrees
  <2>5. ASSUME Column(t) = {fraud}
        PROVE  \E c \in Newest(t) : c.label = fraud
    BY <2>5, NoValueAssumption DEF Column
  <2> QED BY <2>2, <2>4, <2>5
<1> QED BY <1>1, ReadInvariant, PTL

\* The two statements of a detail fit together.
THEOREM DetailsAreConsistent == ReadSpec => []DetailIsConsistent
<1>1. ReadInv => DetailIsConsistent
  <2> SUFFICES ASSUME ReadInv, rpc = "idle", detail # Null, detail.tx \notin unscored
               PROVE  \E c \in detail.preds :
                        /\ detail.preds = {c}
                        /\ detail.row.fraud = c.label /\ detail.row.score = c.score
                        /\ detail.row.at = c.at
    BY DEF DetailIsConsistent
  <2>1. detail.tx \in TxIds /\ Stands(detail.tx)
    BY DEF ReadInv, DetailInv, Detail
  <2>2. Whole(detail.tx)
    BY <2>1 DEF ReadInv, StoreInv, TxInv
  <2>3. detail.row = rows[detail.tx] /\ detail.preds = History(detail.tx)
    BY DEF ReadInv, DetailInv
  <2> QED BY <2>2, <2>3 DEF Whole
<1> QED BY <1>1, ReadInvariant, PTL

-----------------------------------------------------------------------------
(* Walks through a list *)

\* The entries before e in the list.
Newer(e) == {f \in Entries(query) : At(query, e) < At(query, f)}

FiniteInv == IsFiniteSet(preds) /\ IsFiniteSet({t \in TxIds : Stands(t)})

\* Commits add rows and predictions, and keep payloads and times.
LEMMA StoreGrows ==
  ASSUME StoreInv, NEW t \in TxIds, StoreScored(t) \/ StoreBare(t) \/ ScoreBare(t)
  PROVE  /\ preds \subseteq preds'
         /\ \A u \in TxIds :
              Stands(u) => /\ Stands(u)'
                           /\ rows'[u].payload = rows[u].payload
                           /\ rows'[u].at = rows[u].at
<1>1. CASE StoreScored(t) \/ StoreBare(t)
  <2>1. preds \subseteq preds'
    BY <1>1 DEF StoreScored, StoreBare, Predicted
  <2>2. \A u \in TxIds : Stands(u) => rows'[u] = rows[u]
    BY <1>1, StoreScoredKeepsInv, StoreBareKeepsInv
  <2> QED BY <2>1, <2>2 DEF Stands
<1>2. CASE ScoreBare(t)
  <2>1. preds \subseteq preds'
    BY <1>2 DEF ScoreBare, Predicted
  <2>2. PICK fraud \in BOOLEAN, sc \in Scores, version \in Versions :
          Stored(t, Summarised(rows[t], fraud, sc, version))
    BY <1>2 DEF ScoreBare
  <2>3. /\ Stands(t)'
        /\ \A u \in TxIds \ {t} : rows'[u] = rows[u]
    BY <1>2, ScoreBareKeepsInv
  <2>4. rows'[t] = Summarised(rows[t], fraud, sc, version)
    BY <2>2 DEF Stored, StoreInv, StoreTypeOK
  <2> QED BY <2>1, <2>3, <2>4 DEF Stands, Summarised
<1> QED BY <1>1, <1>2

LEMMA StoreStaysFinite ==
  ASSUME StoreInv, FiniteInv, NEW t \in TxIds, StoreScored(t) \/ StoreBare(t) \/ ScoreBare(t)
  PROVE  FiniteInv'
<1> DEFINE standing == {u \in TxIds : Stands(u)}
<1>1. preds' = preds \/ \E c : preds' = preds \cup {c}
  BY DEF StoreScored, StoreBare, ScoreBare, Predicted
<1>2. IsFiniteSet(preds')
  BY <1>1, FS_AddElement DEF FiniteInv
<1>3. standing' \subseteq standing \cup {t}
  BY DEF StoreScored, StoreBare, ScoreBare, Stored, Stands, StoreInv, StoreTypeOK
<1>4. IsFiniteSet(standing \cup {t})
  BY FS_AddElement DEF FiniteInv
<1>5. IsFiniteSet(standing')
  BY <1>3, <1>4, FS_Subset
<1> QED BY <1>2, <1>5 DEF FiniteInv

LEMMA EntriesFinite ==
  ASSUME StoreInv, FiniteInv, query \in Query
  PROVE  /\ IsFiniteSet(Entries(query)) /\ Entries(query) \subseteq EntryType
         /\ \A e \in Entries(query) : At(query, e) \in Nat
<1> DEFINE E == Entries(query)
<1>1. preds \subseteq Prediction /\ rows \in [TxIds -> Row \cup {Null}]
  BY DEF StoreInv, StoreTypeOK
<1>2. \A t \in TxIds : LatestJoin(t) \subseteq preds
  BY DEF LatestJoin, Newest, History
<1>3. Matching(query.where) \subseteq {t \in TxIds : Stands(t)}
  BY DEF Matching, Stands
<1>4. CASE query.feed # "recent" /\ query.label = "any"
  <2>1. E = {Entry(t, Null) : t \in Matching(query.where)}
    BY <1>4 DEF Entries
  <2>2. \A e \in E : e.tx \in {t \in TxIds : Stands(t)} /\ e = Entry(e.tx, Null)
    BY <1>3, <2>1 DEF Entry
  <2>3. [e \in E |-> e.tx] \in Injection(E, {t \in TxIds : Stands(t)})
    BY <2>2 DEF Injection, IsInjective
  <2>4. IsFiniteSet(E)
    BY <2>3, FS_Injection DEF FiniteInv
  <2>5. E \subseteq EntryType
    BY <2>1, <2>2 DEF EntryType, Entry
  <2>6. \A e \in E : At(query, e) \in Nat
    BY <1>1, <1>4, <2>2, TimesAssumption DEF At, Stands, Row
  <2> QED BY <2>4, <2>5, <2>6
<1>5. CASE query.feed = "recent" \/ query.label # "any"
  <2>1. \A e \in E : e.pred \in preds /\ e = Entry(e.pred.tx, e.pred)
    <3>1. CASE query.feed = "recent"
      BY <3>1 DEF Entries, Entry
    <3>2. CASE query.feed # "recent"
      <4>1. E = Labelled(query.where, query.label = "fraud")
        BY <1>5, <3>2 DEF Entries
      <4> QED BY <1>2, <1>3, <4>1 DEF Labelled, Entry
    <3> QED BY <3>1, <3>2
  <2>2. [e \in E |-> e.pred] \in Injection(E, preds)
    BY <2>1 DEF Injection, IsInjective
  <2>3. IsFiniteSet(E)
    BY <2>2, FS_Injection DEF FiniteInv
  <2>4. \A e \in E : e.tx \in TxIds /\ e.tx = e.pred.tx
    BY <1>1, <2>1 DEF Entry, Prediction
  <2>5. E \subseteq EntryType
    BY <1>1, <2>1, <2>4 DEF EntryType, Entry
  <2>6. \A e \in E : rows[e.tx] \in Row
    BY <1>1, <2>1, <2>4 DEF StoreInv, TxInv, Stands, History
  <2>7. \A e \in E : At(query, e) \in Nat
    BY <1>1, <2>1, <2>6, TimesAssumption DEF At, Prediction, Row
  <2> QED BY <2>3, <2>5, <2>7
<1> QED BY <1>4, <1>5

ListInv ==
  query \in Query =>
    /\ IsFiniteSet(Entries(query)) /\ Entries(query) \subseteq EntryType
    /\ \A e \in Entries(query) : At(query, e) \in Nat

LEMMA ListFinite == StoreInv /\ FiniteInv => ListInv
BY EntriesFinite DEF ListInv

\* A commit puts entries anywhere into the list, and takes none out of it or moves it.
LEMMA ListGrows ==
  ASSUME StoreInv, NEW t \in TxIds, StoreScored(t) \/ StoreBare(t) \/ ScoreBare(t),
         query \in Query, UNCHANGED query, OnlyGrows', StoreInv'
  PROVE  /\ OnlyGrows
         /\ Entries(query) \subseteq Entries(query)'
         /\ \A e \in Entries(query) : At(query, e)' = At(query, e)
<1>1. /\ preds \subseteq preds'
      /\ \A u \in TxIds :
           Stands(u) => /\ Stands(u)'
                        /\ rows'[u].payload = rows[u].payload
                        /\ rows'[u].at = rows[u].at
  BY StoreGrows
<1>2. \A u \in TxIds : History(u) \subseteq History(u)'
  BY <1>1 DEF History
<1>3. OnlyGrows
  BY <1>2 DEF OnlyGrows, ScoredAtMostOnce
<1>4. Matching(query.where) \subseteq Matching(query.where)'
  BY <1>1 DEF Matching, Stands
<1>5. ASSUME NEW e \in Entries(query)
      PROVE  e \in Entries(query)' /\ At(query, e)' = At(query, e)
  <2>1. CASE query.feed = "recent"
    BY <1>1, <1>5, <2>1 DEF Entries, At
  <2>2. CASE query.feed # "recent" /\ query.label = "any"
    <3>1. PICK u \in Matching(query.where) : e = Entry(u, Null)
      BY <1>5, <2>2 DEF Entries
    <3>2. u \in TxIds /\ Stands(u) /\ e.tx = u
      BY <3>1 DEF Matching, Stands, Entry
    <3>3. At(query, e)' = At(query, e)
      BY <1>1, <2>2, <3>2 DEF At
    <3>4. e \in {Entry(v, Null) : v \in Matching(query.where)'}
      BY <1>4, <3>1
    <3> QED BY <2>2, <3>3, <3>4 DEF Entries, Entry
  <2>3. CASE query.feed # "recent" /\ query.label # "any"
    <3> DEFINE fraud == query.label = "fraud"
    <3>1. PICK u \in Matching(query.where) :
            \E c \in Newest(u) : c.label = fraud /\ e = Entry(c.tx, c)
      BY <1>5, <2>3 DEF Entries, Labelled, LatestJoin
    <3>2. PICK c \in Newest(u) : c.label = fraud /\ e = Entry(c.tx, c)
      BY <3>1
    <3>3. u \in TxIds /\ Stands(u) /\ c \in History(u) /\ c.tx = u /\ e.tx = u
      BY <3>1, <3>2 DEF Matching, Stands, Newest, History, Entry
    <3>4. At(query, e)' = At(query, e)
      BY <1>1, <2>3, <3>3 DEF At
    <3>5. \A d \in History(u)' : d = c
      BY <1>2, <2>3, <3>3 DEF OnlyGrows, ScoredAtMostOnce
    <3>6. c.at \in Nat
      BY <3>3, TimesAssumption DEF StoreInv, StoreTypeOK, History, Prediction
    <3>7. c \in Newest(u)' /\ u \in Matching(query.where)'
      BY <1>2, <1>4, <3>1, <3>3, <3>5, <3>6 DEF Newest
    <3>8. Labelled(query.where, fraud)' =
            {Entry(b.tx, b) : b \in {d \in UNION {Newest(v)' : v \in Matching(query.where)'} :
                                       d.label = fraud}}
      BY DEF Labelled, LatestJoin, Entry
    <3>9. e \in Labelled(query.where, fraud)'
      BY <3>2, <3>7, <3>8
    <3>10. Entries(query)' = Labelled(query.where, fraud)'
      BY <2>3 DEF Entries
    <3> QED BY <3>4, <3>9, <3>10
  <2> QED BY <2>1, <2>2, <2>3
<1> QED BY <1>3, <1>5

\* What the first n entries leave out has n newer ones before it, and what they show has
\* fewer.
LEMMA HeadsCount ==
  ASSUME NEW n \in Nat, NEW H \in Heads(query, n), DistinctTimes,
         IsFiniteSet(Entries(query)), \A e \in Entries(query) : At(query, e) \in Nat,
         NEW e \in Entries(query)
  PROVE  /\ IsFiniteSet(H) /\ IsFiniteSet(Newer(e))
         /\ e \notin H => Cardinality(H) = n /\ n <= Cardinality(Newer(e))
         /\ e \in H => Cardinality(Newer(e)) < n
<1> DEFINE E == Entries(query)
<1>1. /\ H \subseteq E /\ Cardinality(H) = Least(n, Cardinality(E))
      /\ \A g \in H, f \in E \ H : At(query, f) <= At(query, g)
  BY DEF Heads
<1>2. /\ IsFiniteSet(H) /\ IsFiniteSet(Newer(e)) /\ Newer(e) \subseteq E
      /\ Cardinality(H) \in Nat /\ Cardinality(E) \in Nat /\ Cardinality(Newer(e)) \in Nat
  <2>1. Newer(e) \subseteq E
    BY DEF Newer
  <2>2. IsFiniteSet(H) /\ IsFiniteSet(Newer(e))
    BY <1>1, <2>1, FS_Subset
  <2> QED BY <2>1, <2>2, FS_CardinalityType
<1>3. ASSUME e \notin H
      PROVE  Cardinality(H) = n /\ n <= Cardinality(Newer(e))
  <2>1. H \subseteq Newer(e)
    BY <1>1, <1>3 DEF Newer, DistinctTimes
  <2>2. Cardinality(H) <= Cardinality(Newer(e))
    BY <1>2, <2>1, FS_Subset
  <2>3. Cardinality(H) # Cardinality(E)
    BY <1>1, <1>3, FS_Subset
  <2> QED BY <1>1, <1>2, <2>2, <2>3 DEF Least
<1>4. ASSUME e \in H
      PROVE  Cardinality(Newer(e)) < n
  <2>1. Newer(e) \subseteq H /\ e \notin Newer(e)
    BY <1>1, <1>4 DEF Newer
  <2>2. Cardinality(Newer(e)) <= Cardinality(H) /\ Cardinality(Newer(e)) # Cardinality(H)
    BY <1>2, <1>4, <2>1, FS_Subset
  <2> QED BY <1>1, <1>2, <2>2 DEF Least
<1> QED BY <1>2, <1>3, <1>4

\* How many entries the walk has passed when the next page is read.
Reached == IF rpc = "page" THEN offset ELSE offset + Limit

WalkTypeOK ==
  /\ rpc \in {"idle", "page", "history"}
  /\ query \in Query \cup {Null}
  /\ offset \in Nat /\ total \in Nat
  /\ page = Null \/ page \subseteq EntryType
  /\ since \subseteq EntryType /\ shown \subseteq EntryType /\ repeated \in BOOLEAN
  /\ rpc = "page" => query # Null
  /\ rpc = "page" /\ offset = 0 => since = {} /\ shown = {} /\ ~repeated
  /\ page # Null => query # Null /\ rpc # "history"

\* Entries of the first page's list that are not yet shown are behind the next offset, and
\* those that are shown, if the list is still the same, are before it.
PlacesInv ==
  /\ \A e \in since \ shown : Reached <= Cardinality(Newer(e))
  /\ PageRead /\ page = {} => since \subseteq shown
  /\ Entries(query) = since => /\ ~repeated
                               /\ \A e \in shown : Cardinality(Newer(e)) < Reached

CountInv ==
  /\ rpc = "page" => total <= Cardinality(Entries(query))
  /\ PageRead => Cardinality(page) >= Least(Limit, total - offset)

WalkInv ==
  /\ FiniteInv
  /\ WalkTypeOK
  /\ query # Null /\ OnlyGrows =>
       /\ since \subseteq Entries(query) /\ shown \subseteq Entries(query)
       /\ CountInv
       /\ DistinctTimes => PlacesInv

LEMMA WalkInvInit == ReadInit => WalkInv
<1> SUFFICES ASSUME ReadInit PROVE WalkInv
  OBVIOUS
<1>1. preds = {} /\ {t \in TxIds : Stands(t)} = {}
  BY DEF ReadInit, StoreInit, Stands
<1>2. FiniteInv
  BY <1>1, FS_EmptySet DEF FiniteInv
<1>3. query = Null /\ WalkTypeOK
  BY DEF ReadInit, WalkTypeOK
<1> QED BY <1>2, <1>3 DEF WalkInv

\* Commits.
LEMMA WriteKeepsWalk ==
  ASSUME ReadInv, WalkInv, Write, ReadInv'
  PROVE  WalkInv'
<1>1. UNCHANGED <<rpc, query, offset, total, page, since, shown, repeated, detail>>
  BY DEF Write, readVars, walkVars
<1>2. PICK t \in TxIds : StoreScored(t) \/ StoreBare(t) \/ ScoreBare(t)
  BY DEF Write, StoreNext
<1>3. FiniteInv'
  BY <1>2, StoreStaysFinite DEF ReadInv, WalkInv
<1>4. WalkTypeOK'
  BY <1>1 DEF WalkInv, WalkTypeOK, EntryType
<1>5. ASSUME query # Null, OnlyGrows'
      PROVE  /\ (since \subseteq Entries(query) /\ shown \subseteq Entries(query))'
             /\ CountInv'
             /\ DistinctTimes' => PlacesInv'
  <2> DEFINE E == Entries(query)
  <2>1. query \in Query
    BY <1>5 DEF WalkInv, WalkTypeOK
  <2>2. /\ OnlyGrows /\ E \subseteq E'
        /\ \A e \in E : At(query, e)' = At(query, e)
    BY <1>1, <1>2, <1>5, <2>1, ListGrows DEF ReadInv
  <2>3. /\ IsFiniteSet(E) /\ IsFiniteSet(E')
        /\ \A e \in E' : At(query, e)' \in Nat
    <3>1. ListInv
      BY ListFinite DEF ReadInv, WalkInv
    <3>2. (StoreInv /\ FiniteInv => ListInv)'
      BY ListFinite, PTL
    <3>3. ListInv'
      BY <1>3, <3>2 DEF ReadInv
    <3> QED BY <1>1, <2>1, <3>1, <3>3 DEF ListInv
  <2>4. (since \subseteq Entries(query) /\ shown \subseteq Entries(query))'
    BY <1>1, <1>5, <2>2 DEF WalkInv
  <2>5. Cardinality(E) \in Nat /\ Cardinality(E') \in Nat /\ Cardinality(E) <= Cardinality(E')
    BY <2>2, <2>3, FS_Subset, FS_CardinalityType
  <2>6. CountInv'
    BY <1>1, <1>5, <2>2, <2>5 DEF WalkInv, WalkTypeOK, CountInv, PageRead
  <2>7. ASSUME DistinctTimes'
        PROVE  PlacesInv'
    <3>1. DistinctTimes
      BY <1>1, <2>2, <2>7 DEF DistinctTimes
    <3>2. PlacesInv /\ since \subseteq E /\ shown \subseteq E
      BY <1>5, <2>2, <3>1 DEF WalkInv
    <3>3. \A e \in E : Cardinality(Newer(e)) <= Cardinality(Newer(e)')
                       /\ Cardinality(Newer(e)) \in Nat /\ Cardinality(Newer(e)') \in Nat
      <4> TAKE e \in E
      <4>1. Newer(e) \subseteq Newer(e)' /\ Newer(e)' \subseteq E'
        BY <1>1, <2>2 DEF Newer
      <4> QED BY <2>3, <4>1, FS_Subset, FS_CardinalityType
    <3>4. Reached' = Reached /\ Reached \in Nat
      BY <1>1, LimitAssumption DEF Reached, WalkInv, WalkTypeOK
    <3>5. ASSUME E' = since
          PROVE  E = since /\ \A e \in E : Newer(e)' = Newer(e)
      <4>1. E = since
        BY <2>2, <3>2, <3>5
      <4> QED BY <1>1, <2>2, <3>5, <4>1 DEF Newer
    <3>6. (\A e \in since \ shown : Reached <= Cardinality(Newer(e)))'
      BY <1>1, <3>2, <3>3, <3>4 DEF PlacesInv
    <3>7. (PageRead /\ page = {} => since \subseteq shown)'
      BY <1>1, <3>2 DEF PlacesInv, PageRead
    <3>8. (Entries(query) = since => /\ ~repeated
                                     /\ \A e \in shown : Cardinality(Newer(e)) < Reached)'
      BY <1>1, <3>2, <3>4, <3>5 DEF PlacesInv
    <3> QED BY <3>6, <3>7, <3>8 DEF PlacesInv
  <2> QED BY <2>4, <2>6, <2>7
<1> QED BY <1>1, <1>3, <1>4, <1>5 DEF WalkInv

\* Two states with the same tables have the same lists.
LEMMA TablesGiveLists ==
  ASSUME NEW q, UNCHANGED tables, query' = q
  PROVE  Entries(query)' = Entries(q)
<1>1. \A t : History(t)' = History(t)
  BY DEF History, tables
<1>2. \A t : Newest(t)' = Newest(t)
  BY <1>1 DEF Newest
<1>3. Matching(query.where)' = Matching(q.where)
  BY DEF Matching, tables
<1>4. {Entry(c.tx, c) : c \in preds}' = {Entry(c.tx, c) : c \in preds}
  BY DEF Entry, tables
<1>5. {Entry(t, Null) : t \in Matching(query.where)}' = {Entry(t, Null) : t \in Matching(q.where)}
  BY <1>3 DEF Entry
<1>6. Labelled(query.where, query.label = "fraud")' = Labelled(q.where, q.label = "fraud")
  <2> DEFINE now == UNION {Newest(t) : t \in Matching(q.where)}
             next == (UNION {Newest(t) : t \in Matching(query.where)})'
  <2>1. next = now
    BY <1>2, <1>3
  <2>2. (query.label = "fraud")' = (q.label = "fraud")
    OBVIOUS
  <2>3. Labelled(q.where, q.label = "fraud") =
          {Entry(c.tx, c) : c \in {d \in now : d.label = (q.label = "fraud")}}
    BY DEF Labelled, LatestJoin
  <2>4. Labelled(query.where, query.label = "fraud")' =
          {Entry(c.tx, c) : c \in {d \in next : d.label = (q.label = "fraud")}}
    BY DEF Labelled, LatestJoin, Entry
  <2> HIDE DEF now, next
  <2> QED BY <2>1, <2>3, <2>4
<1> QED BY <1>4, <1>5, <1>6 DEF Entries

\* The tables are the same, and so are the lists of the same query.
LEMMA SameLists ==
  ASSUME UNCHANGED <<tables, query>>
  PROVE  /\ Entries(query)' = Entries(query) /\ OnlyGrows' = OnlyGrows
         /\ DistinctTimes' = DistinctTimes
         /\ \A e : Newer(e)' = Newer(e)
<1>1. \A t : History(t)' = History(t)
  BY DEF History, tables
<1>2. Entries(query)' = Entries(query)
  <2>1. PICK q : q = query
    OBVIOUS
  <2>2. query' = q /\ UNCHANGED tables
    BY <2>1
  <2>3. Entries(query)' = Entries(q)
    BY <2>2, TablesGiveLists DEF tables
  <2> QED BY <2>1, <2>3
<1>3. \A e : At(query, e)' = At(query, e)
  BY DEF At, tables
<1>4. OnlyGrows' = OnlyGrows
  BY <1>1 DEF OnlyGrows, ScoredAtMostOnce
<1> QED BY <1>2, <1>3, <1>4 DEF DistinctTimes, Newer

LEMMA SameFinite ==
  ASSUME FiniteInv, UNCHANGED tables
  PROVE  FiniteInv'
BY DEF FiniteInv, Stands, tables

\* Beginning or giving up a walk.
LEMMA NewWalk ==
  ASSUME ReadInv, WalkInv, UNCHANGED tables, ReadInv',
         (\E q \in Query : CountFirst(q)) \/ (\E t \in TxIds : GetRow(t))
  PROVE  WalkInv'
<1>1. FiniteInv'
  BY SameFinite DEF WalkInv
<1>2. since' = {} /\ shown' = {} /\ repeated' = FALSE /\ page' = Null /\ offset' = 0
  BY DEF CountFirst, GetRow, Forget
<1>3. CASE \E t \in TxIds : GetRow(t)
  <2>1. query' = Null /\ total' = 0 /\ rpc' = "history"
    BY <1>3 DEF GetRow, Forget
  <2>2. WalkTypeOK'
    BY <1>2, <2>1, Zenon DEF WalkTypeOK, EntryType
  <2> QED BY <1>1, <2>1, <2>2 DEF WalkInv
<1>4. CASE \E q \in Query : CountFirst(q)
  <2>1. PICK q \in Query : CountFirst(q)
    BY <1>4
  <2>2. /\ query' = q /\ rpc' = "page" /\ total' = CountOf(q)
        /\ query' \in Query /\ query' # Null
    BY <2>1, NoValueAssumption DEF CountFirst
  <2>3. (StoreInv /\ FiniteInv => ListInv)'
    BY ListFinite, PTL
  <2>4. IsFiniteSet(Entries(query)') /\ Cardinality(Entries(query)') \in Nat
    BY <1>1, <2>2, <2>3, FS_CardinalityType DEF ReadInv, ListInv
  <2>5. Entries(query)' = Entries(q)
    BY <2>2, TablesGiveLists
  <2>6. total' = Cardinality(Entries(query)')
    BY <2>2, <2>5 DEF CountOf
  <2>7. WalkTypeOK'
    BY <1>2, <2>2, <2>4, <2>6 DEF WalkTypeOK, EntryType
  <2>8. CountInv'
    BY <2>2, <2>4, <2>6 DEF CountInv, PageRead
  <2>9. PlacesInv'
    BY <1>2, <2>2 DEF PlacesInv, PageRead
  <2> QED BY <1>1, <1>2, <2>7, <2>8, <2>9 DEF WalkInv
<1> QED BY <1>3, <1>4

\* Going on to the next page.
LEMMA CountNextKeepsWalk ==
  ASSUME ReadInv, WalkInv, CountNext
  PROVE  WalkInv'
<1>1. /\ UNCHANGED <<tables, query, since, shown, repeated>> /\ page' = Null
      /\ rpc = "idle" /\ rpc' = "page" /\ query # Null
      /\ offset' = offset + Limit /\ total' = CountOf(query)
  BY DEF CountNext, NextOffset
<1>2. FiniteInv'
  BY <1>1, SameFinite DEF WalkInv
<1>3. offset \in Nat /\ Limit \in Nat /\ offset' \in Nat /\ offset' # 0
  BY <1>1, LimitAssumption DEF WalkInv, WalkTypeOK
<1>4. Cardinality(Entries(query)) \in Nat
  BY <1>1, EntriesFinite, FS_CardinalityType DEF ReadInv, WalkInv, WalkTypeOK
<1>5. WalkTypeOK'
  BY <1>1, <1>3, <1>4 DEF WalkInv, WalkTypeOK, CountOf, EntryType
<1>6. /\ Entries(query)' = Entries(query) /\ OnlyGrows' = OnlyGrows
      /\ DistinctTimes' = DistinctTimes
      /\ \A e : Newer(e)' = Newer(e)
  BY <1>1, SameLists
<1>7. Reached' = Reached
  BY <1>1 DEF Reached
<1>8. ASSUME OnlyGrows
      PROVE  CountInv' /\ (DistinctTimes => PlacesInv')
  <2>1. CountInv'
    BY <1>1, <1>4, <1>6 DEF CountInv, CountOf, PageRead
  <2>2. ASSUME DistinctTimes
        PROVE  PlacesInv'
    BY <1>1, <1>6, <1>7, <1>8, <2>2 DEF WalkInv, PlacesInv, PageRead
  <2> QED BY <2>1, <2>2
<1> QED BY <1>1, <1>2, <1>5, <1>6, <1>8 DEF WalkInv

\* Reading a page.
LEMMA FetchPageKeepsWalk ==
  ASSUME ReadInv, WalkInv, FetchPage
  PROVE  WalkInv'
<1> DEFINE E == Entries(query)
<1>1. PICK P \in Pages(query, offset) :
        page' = P /\ shown' = shown \cup P /\ repeated' = (repeated \/ shown \cap P # {})
  BY DEF FetchPage
<1>2. /\ rpc = "page" /\ rpc' = "idle" /\ UNCHANGED <<tables, query, offset, total>>
      /\ since' = IF offset = 0 THEN E ELSE since
  BY DEF FetchPage
<1>3. query \in Query /\ query # Null /\ offset \in Nat /\ total \in Nat /\ Limit \in Nat \ {0}
  BY <1>2, LimitAssumption DEF WalkInv, WalkTypeOK
<1>4. FiniteInv'
  BY <1>2, SameFinite DEF WalkInv
<1>5. /\ IsFiniteSet(E) /\ E \subseteq EntryType
      /\ \A e \in E : At(query, e) \in Nat
  BY <1>3, EntriesFinite DEF ReadInv, WalkInv
<1>6. PICK H \in Heads(query, offset) :
        P \subseteq E /\ H \cap P = {} /\ H \cup P \in Heads(query, offset + Limit)
  BY DEF Pages
<1>7. WalkTypeOK'
  BY <1>1, <1>2, <1>3, <1>5, <1>6 DEF WalkInv, WalkTypeOK, EntryType
<1>8. /\ Entries(query)' = E /\ OnlyGrows' = OnlyGrows
      /\ DistinctTimes' = DistinctTimes
      /\ \A e : Newer(e)' = Newer(e)
  BY <1>2, SameLists
<1>9. ASSUME OnlyGrows
      PROVE  /\ (since \subseteq Entries(query) /\ shown \subseteq Entries(query))'
             /\ CountInv'
             /\ DistinctTimes => PlacesInv'
  <2>1. since' \subseteq E /\ shown' \subseteq E
    BY <1>1, <1>2, <1>3, <1>6, <1>9 DEF WalkInv
  <2>2. Cardinality(P) >= Least(Limit, total - offset)
    <3>1. /\ H \subseteq E
          /\ Cardinality(H) = Least(offset, Cardinality(E))
          /\ Cardinality(H \cup P) = Least(offset + Limit, Cardinality(E))
      BY <1>6 DEF Heads
    <3>2. IsFiniteSet(H) /\ IsFiniteSet(P)
      BY <1>5, <1>6, <3>1, FS_Subset
    <3>3. /\ Cardinality(H) \in Nat /\ Cardinality(P) \in Nat /\ Cardinality(E) \in Nat
      BY <1>5, <3>2, FS_CardinalityType
    <3>4. Cardinality(H \cup P) = Cardinality(H) + Cardinality(P) - Cardinality({})
      BY <1>6, <3>2, FS_Union
    <3>5. Cardinality({}) = 0
      BY FS_EmptySet
    <3>6. total <= Cardinality(E)
      BY <1>2, <1>3, <1>9 DEF WalkInv, CountInv
    <3> QED BY <1>3, <3>1, <3>3, <3>4, <3>5, <3>6 DEF Least
  <2>3. CountInv'
    BY <1>1, <1>2, <2>2 DEF CountInv, PageRead
  <2>4. ASSUME DistinctTimes
        PROVE  PlacesInv'
    <3>1. ASSUME NEW e \in E
          PROVE  /\ Cardinality(Newer(e)) \in Nat
                 /\ e \notin H => Cardinality(H) = offset /\ offset <= Cardinality(Newer(e))
                 /\ e \in H => Cardinality(Newer(e)) < offset
                 /\ e \notin H \cup P => /\ Cardinality(H \cup P) = offset + Limit
                                         /\ offset + Limit <= Cardinality(Newer(e))
                 /\ e \in H \cup P => Cardinality(Newer(e)) < offset + Limit
      <4>1. offset + Limit \in Nat
        BY <1>3
      <4>2. IsFiniteSet(Newer(e))
        BY <1>3, <1>5, <1>6, <2>4, HeadsCount
      <4>3. /\ e \notin H => Cardinality(H) = offset /\ offset <= Cardinality(Newer(e))
            /\ e \in H => Cardinality(Newer(e)) < offset
        BY <1>3, <1>5, <1>6, <2>4, HeadsCount
      <4>4. /\ e \notin H \cup P => /\ Cardinality(H \cup P) = offset + Limit
                                    /\ offset + Limit <= Cardinality(Newer(e))
            /\ e \in H \cup P => Cardinality(Newer(e)) < offset + Limit
        BY <1>5, <1>6, <2>4, <4>1, HeadsCount
      <4> QED BY <4>2, <4>3, <4>4, FS_CardinalityType
    <3>2. ASSUME NEW e \in since' \ shown'
          PROVE  e \in E /\ e \notin H \cup P
      <4>1. e \in E /\ offset <= Cardinality(Newer(e))
        <5>1. CASE offset = 0
          BY <1>2, <1>3, <2>1, <3>1, <5>1
        <5>2. CASE offset # 0
          BY <1>1, <1>2, <1>3, <1>9, <2>1, <2>4, <5>2 DEF WalkInv, PlacesInv, Reached
        <5> QED BY <5>1, <5>2
      <4> QED BY <1>1, <1>3, <3>1, <4>1
    <3>3. \A e \in since' \ shown' : offset + Limit <= Cardinality(Newer(e))
      BY <3>1, <3>2
    <3>4. P = {} => since' \subseteq shown'
      <4> SUFFICES ASSUME P = {}, NEW e \in since' \ shown'
                   PROVE  FALSE
        OBVIOUS
      <4>1. Cardinality(H) = offset /\ Cardinality(H) = offset + Limit
        BY <3>1, <3>2
      <4> QED BY <1>3, <4>1
    <3>5. ASSUME E = since'
          PROVE  /\ repeated' = FALSE
                 /\ \A e \in shown' : Cardinality(Newer(e)) < offset + Limit
      <4>1. ~repeated /\ shown \subseteq E /\ \A e \in shown : Cardinality(Newer(e)) < offset
        <5>1. CASE offset = 0
          BY <1>2, <5>1 DEF WalkInv, WalkTypeOK
        <5>2. CASE offset # 0
          BY <1>2, <1>3, <1>9, <2>4, <3>5, <5>2 DEF WalkInv, PlacesInv, Reached
        <5> QED BY <5>1, <5>2
      <4>2. shown \cap P = {}
        BY <1>3, <1>6, <3>1, <4>1
      <4>3. \A e \in shown' : Cardinality(Newer(e)) < offset + Limit
        BY <1>1, <1>3, <1>6, <3>1, <4>1
      <4> QED BY <1>1, <4>1, <4>2, <4>3
    <3>6. Reached' = offset + Limit
      BY <1>2 DEF Reached
    <3> QED BY <1>1, <1>8, <3>3, <3>4, <3>5, <3>6 DEF PlacesInv, PageRead
  <2> QED BY <1>8, <2>1, <2>3, <2>4
<1> QED BY <1>4, <1>7, <1>8, <1>9 DEF WalkInv

LEMMA WalkInvNext ==
  ASSUME ReadInv, WalkInv, [ReadNext]_<<tables, readVars>>, ReadInv'
  PROVE  WalkInv'
<1>1. ASSUME UNCHANGED <<tables, walkVars>>,
             rpc' = rpc \/ (rpc = "history" /\ rpc' = "idle")
      PROVE  WalkInv'
  <2>1. UNCHANGED <<query, offset, total, page, since, shown, repeated>>
    BY <1>1 DEF walkVars
  <2>2. FiniteInv'
    BY <1>1, SameFinite DEF WalkInv
  <2>3. /\ Entries(query)' = Entries(query) /\ OnlyGrows' = OnlyGrows
        /\ DistinctTimes' = DistinctTimes
        /\ \A e : Newer(e)' = Newer(e)
    BY <1>1, <2>1, SameLists
  <2>4. WalkTypeOK'
    BY <1>1, <2>1 DEF WalkInv, WalkTypeOK, EntryType
  <2>5. Reached' = Reached /\ PageRead' = PageRead /\ (rpc' = "page" => rpc = "page")
    BY <1>1, <2>1 DEF Reached, PageRead, WalkInv, WalkTypeOK
  <2>6. CountInv => CountInv'
    BY <2>1, <2>3, <2>5 DEF CountInv
  <2>7. PlacesInv => PlacesInv'
    BY <2>1, <2>3, <2>5 DEF PlacesInv
  <2> QED BY <2>1, <2>2, <2>3, <2>4, <2>6, <2>7 DEF WalkInv
<1>2. CASE Write
  BY <1>2, WriteKeepsWalk
<1>3. CASE (\E q \in Query : CountFirst(q)) \/ (\E t \in TxIds : GetRow(t))
  <2>1. UNCHANGED tables
    BY <1>3 DEF CountFirst, GetRow
  <2> QED BY <1>3, <2>1, NewWalk
<1>4. CASE CountNext
  BY <1>4, CountNextKeepsWalk
<1>5. CASE FetchPage
  BY <1>5, FetchPageKeepsWalk
<1>6. CASE GetHistory
  <2>1. UNCHANGED <<tables, walkVars>> /\ rpc = "history" /\ rpc' = "idle"
    BY <1>6 DEF GetHistory
  <2> QED BY <1>1, <2>1
<1>7. CASE UNCHANGED <<tables, readVars>>
  BY <1>1, <1>7 DEF readVars
<1> QED BY <1>2, <1>3, <1>4, <1>5, <1>6, <1>7 DEF ReadNext

\* Every state of the read API keeps the walk in step with the list.
THEOREM WalkInvariant == ReadSpec => []WalkInv
<1>1. ReadInv /\ WalkInv /\ [ReadNext]_<<tables, readVars>> /\ ReadInv' => WalkInv'
  BY WalkInvNext
<1> QED BY <1>1, ReadInvariant, WalkInvInit, PTL DEF ReadSpec

\* The tables, and what a client has read of them, are well formed.
THEOREM ReadTypeCorrect == ReadSpec => []ReadTypeOK
<1>1. ReadInv /\ WalkInv => ReadTypeOK
  BY DEF ReadInv, StoreInv, DetailInv, WalkInv, WalkTypeOK, ReadTypeOK
<1> QED BY <1>1, ReadInvariant, WalkInvariant, PTL

\* A page is never shorter than the total beside it promises.
THEOREM PagesHonourTheirTotal == ReadSpec => []PageHonoursTotal
<1>1. WalkInv => PageHonoursTotal
  BY DEF WalkInv, WalkTypeOK, CountInv, PageHonoursTotal, PageRead
<1> QED BY <1>1, WalkInvariant, PTL

\* A walk to the end of a list has shown all that was in it at the beginning.
THEOREM WalksMissNothing == ReadSpec => []WalkMissesNothing
<1>1. WalkInv => WalkMissesNothing
  BY DEF WalkInv, WalkTypeOK, PlacesInv, WalkMissesNothing, PageRead
<1> QED BY <1>1, WalkInvariant, PTL

\* A walk repeats an entry only if the list has changed under it.
THEOREM OnlyCommitsRepeatEntries == ReadSpec => []RepeatsOnlyAfterCommits
<1>1. WalkInv => RepeatsOnlyAfterCommits
  BY DEF WalkInv, WalkTypeOK, PlacesInv, RepeatsOnlyAfterCommits, PageRead
<1> QED BY <1>1, WalkInvariant, PTL
=============================================================================
