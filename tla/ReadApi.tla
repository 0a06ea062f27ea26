------------------------------ MODULE ReadApi -------------------------------
(***************************************************************************)
(* The read API beside the writers of the store: GET /transactions and GET *)
(* /predictions/recent, each a count and then a page (two statements, each *)
(* with a snapshot of its own at READ COMMITTED), and GET                  *)
(* /transactions/{id}, the row and then its predictions.  A client walks   *)
(* through a list page by page, with other requests and commits in         *)
(* between.  Readers change nothing and do not meet, so one is enough.     *)
(***************************************************************************)
EXTENDS ScoredStore, Naturals, FiniteSets

CONSTANTS Filters,    \* what customer_id, merchant and country let through: sets of payloads
          Limit,      \* page size
          MaxCommits  \* bound on the commits of a behaviour

ASSUME FiltersAssumption == Filters \subseteq SUBSET Payloads
ASSUME LimitAssumption == Limit \in Nat \ {0}
ASSUME TimesAssumption == Times \subseteq Nat

\* The normalised predicted_label (blank and absent are "any").
Labels == {"any", "fraud", "legit"}

Query == [feed: {"transactions"}, where: Filters, label: Labels]
         \cup [feed: {"recent"}, where: {Payloads}, label: {"any"}]

\* A TransactionDetail.
Detail == [tx: TxIds, row: Row, preds: SUBSET Prediction]

ASSUME NoValueAssumption == Null \notin BOOLEAN \cup Row \cup Detail \cup Query

VARIABLES
  rpc,       \* "idle", or the statement that comes next: "page", "history"
  query,     \* the list the client walks through, or Null
  offset,    \* of the last page asked for
  total,     \* its pagination.total
  page,      \* its items, or Null
  since,     \* history: the entries of the list when the first page was read
  shown,     \* history: the entries shown on the pages of this walk
  repeated,  \* history: an entry was shown on two of them
  detail     \* the last detail asked for: the row, and its predictions once read

walkVars == <<query, offset, total, page, since, shown, repeated>>
readVars == <<rpc, walkVars, detail>>

-----------------------------------------------------------------------------
(* The statements *)

Newest(t) == {c \in History(t) : \A d \in History(t) : d.at <= c.at}

\* The latest_prediction_label column of the list: what the scalar subquery
\* (ORDER BY created_at DESC LIMIT 1) may return.
Column(t) == IF History(t) = {} THEN {Null} ELSE {c.label : c \in Newest(t)}

Matching(where) == {t \in TxIds : rows[t] # Null /\ rows[t].payload \in where}

\* An entry of a list: the transaction and, if the statement joins it, the prediction.
Entry(t, c) == [tx |-> t, pred |-> c]

\* Variant: joined to every prediction of the transaction, not the latest.
LatestJoinWithoutMax(t) == History(t)

\* The join with max(created_at).
LatestJoin(t) == Newest(t)

Labelled(where, fraud) ==
  {Entry(c.tx, c) : c \in {d \in UNION {LatestJoin(t) : t \in Matching(where)} : d.label = fraud}}

Entries(q) ==
  IF q.feed = "recent" THEN {Entry(c.tx, c) : c \in preds}
  ELSE IF q.label = "any" THEN {Entry(t, Null) : t \in Matching(q.where)}
  ELSE Labelled(q.where, q.label = "fraud")

\* created_at, by which the list is ordered.
At(q, e) == IF q.feed = "recent" THEN e.pred.at ELSE rows[e.tx].at

Least(m, n) == IF m <= n THEN m ELSE n

\* Variant: the count statement lost the join and the label.
CountOfWithoutLabel(q) == Cardinality(Entries([q EXCEPT !.label = "any"]))

CountOf(q) == Cardinality(Entries(q))

\* Variant: no ORDER BY.
HeadsUnordered(q, n) ==
  {H \in SUBSET Entries(q) : Cardinality(H) = Least(n, Cardinality(Entries(q)))}

\* The first n entries of the list, newest first; entries with the same time come in any
\* order, and in another one the next time.
Heads(q, n) ==
  {H \in SUBSET Entries(q) :
     /\ Cardinality(H) = Least(n, Cardinality(Entries(q)))
     /\ \A e \in H, f \in Entries(q) \ H : At(q, f) <= At(q, e)}

\* OFFSET and LIMIT.
Pages(q, from) ==
  {P \in SUBSET Entries(q) :
     \E H \in Heads(q, from) : H \cap P = {} /\ H \cup P \in Heads(q, from + Limit)}

-----------------------------------------------------------------------------
(* The requests *)

Forget ==
  /\ query' = Null /\ offset' = 0 /\ total' = 0 /\ page' = Null
  /\ since' = {} /\ shown' = {} /\ repeated' = FALSE

\* The count of the first page of a walk.
CountFirst(q) ==
  /\ rpc = "idle"
  /\ rpc' = "page"
  /\ query' = q
  /\ offset' = 0
  /\ total' = CountOf(q)
  /\ page' = Null
  /\ since' = {} /\ shown' = {} /\ repeated' = FALSE
  /\ detail' = Null
  /\ UNCHANGED tables

\* Variant: the next page starts a row early.
NextOffsetMinusOne(from) == from + Limit - 1

NextOffset(from) == from + Limit

\* The count of the page after the last one; the client stops at an empty page.
CountNext ==
  /\ rpc = "idle"
  /\ query # Null /\ page # Null /\ page # {}
  /\ rpc' = "page"
  /\ offset' = NextOffset(offset)
  /\ total' = CountOf(query)
  /\ page' = Null
  /\ UNCHANGED <<tables, query, since, shown, repeated, detail>>

FetchPage ==
  /\ rpc = "page"
  /\ rpc' = "idle"
  /\ \E P \in Pages(query, offset) :
       /\ page' = P
       /\ shown' = shown \cup P
       /\ repeated' = (repeated \/ shown \cap P # {})
  /\ since' = IF offset = 0 THEN Entries(query) ELSE since
  /\ UNCHANGED <<tables, query, offset, total, detail>>

\* Variant: no 404.
GetRowUnchecked(t) ==
  /\ rpc = "idle"
  /\ rpc' = "history"
  /\ detail' = [tx |-> t, row |-> rows[t], preds |-> {}]
  /\ Forget
  /\ UNCHANGED tables

\* The first statement of the detail; an id that is not stored is answered with a 404.
GetRow(t) ==
  /\ rpc = "idle"
  /\ rows[t] # Null
  /\ rpc' = "history"
  /\ detail' = [tx |-> t, row |-> rows[t], preds |-> {}]
  /\ Forget
  /\ UNCHANGED tables

\* Variant: the predictions of all transactions.
GetHistoryOfAll ==
  /\ rpc = "history"
  /\ rpc' = "idle"
  /\ detail' = [detail EXCEPT !.preds = preds]
  /\ UNCHANGED <<tables, walkVars>>

GetHistory ==
  /\ rpc = "history"
  /\ rpc' = "idle"
  /\ detail' = [detail EXCEPT !.preds = History(detail.tx)]
  /\ UNCHANGED <<tables, walkVars>>

ReadInit ==
  /\ StoreInit
  /\ rpc = "idle"
  /\ query = Null /\ offset = 0 /\ total = 0 /\ page = Null
  /\ since = {} /\ shown = {} /\ repeated = FALSE
  /\ detail = Null

Write ==
  /\ Cardinality(preds) + Cardinality(unscored) < MaxCommits
  /\ StoreNext
  /\ UNCHANGED readVars

ReadNext ==
  \/ Write
  \/ \E q \in Query : CountFirst(q)
  \/ CountNext \/ FetchPage
  \/ \E t \in TxIds : GetRow(t)
  \/ GetHistory

ReadSpec == ReadInit /\ [][ReadNext]_<<tables, readVars>>

-----------------------------------------------------------------------------
EntryType == [tx: TxIds, pred: Prediction \cup {Null}]

ReadTypeOK ==
  /\ StoreTypeOK
  /\ rpc \in {"idle", "page", "history"}
  /\ query \in Query \cup {Null}
  /\ offset \in Nat /\ total \in Nat
  /\ page = Null \/ page \subseteq EntryType
  /\ since \subseteq EntryType /\ shown \subseteq EntryType /\ repeated \in BOOLEAN
  /\ detail \in Detail \cup {Null}

\* A complete page was read and no request is under way.
PageRead == rpc = "idle" /\ page # Null

\* No entry of the list can have left it: that takes a second prediction of a transaction
\* in a list filtered by label.
OnlyGrows == query.label = "any" \/ \A t \in TxIds : ScoredAtMostOnce(t)

DistinctTimes == \A e, f \in Entries(query) : At(query, e) = At(query, f) => e = f

\* Although count and page see different snapshots, a page is never shorter than its
\* pagination.total promises.
PageHonoursTotal ==
  PageRead /\ OnlyGrows => Cardinality(page) >= Least(Limit, total - offset)

\* A client that walks through a list to its end misses no entry that was there when it
\* read the first page, whatever is committed during the walk: later commits may push
\* entries behind the next OFFSET, never before it.
WalkMissesNothing ==
  PageRead /\ page = {} /\ OnlyGrows /\ DistinctTimes => since \subseteq shown

\* A walk shows an entry twice only if the list has changed since its first page.
RepeatsOnlyAfterCommits ==
  PageRead /\ OnlyGrows /\ DistinctTimes /\ Entries(query) = since => ~repeated

Listed(t, fraud) == \E e \in Labelled(Payloads, fraud) : e.tx = t

\* Three ways of asking whether a transaction is fraud give the same answer: a filter on
\* predicted_label finds it for the label its latest_prediction_label column shows and no
\* other, also if several calls scored it; and unless they did, that is is_fraud_predicted
\* of the row.
LabelsAgree ==
  \A t \in TxIds, fraud \in BOOLEAN :
    rows[t] # Null =>
      /\ Listed(t, fraud) <=> Column(t) = {fraud}
      /\ Listed(t, fraud) /\ ScoredAtMostOnce(t) => rows[t].fraud = fraud

\* A detail, whose row and predictions are read by two statements, shows the one
\* prediction the row was stored with, unless the row was seeded without.
DetailIsConsistent ==
  rpc = "idle" /\ detail # Null /\ detail.tx \notin unscored =>
    \E c \in detail.preds : /\ detail.preds = {c}
                            /\ detail.row.fraud = c.label /\ detail.row.score = c.score
                            /\ detail.row.at = c.at
=============================================================================
