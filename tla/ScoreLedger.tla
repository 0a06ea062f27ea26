---------------------------- MODULE ScoreLedger -----------------------------
(***************************************************************************)
(* What the scoring service promises its callers, without databases,       *)
(* caches or processes: a ledger in which the score of an id is written    *)
(* once, and from which callers are told nothing else than what is         *)
(* written.  FraudScoring implements it (Ledger there): the ledger is the  *)
(* transactions table without the ids that were seeded without a           *)
(* prediction, whose score the service does not promise.                   *)
(***************************************************************************)
CONSTANTS TxIds,     \* business transaction ids
          Payloads,  \* persisted columns of a request
          Scores, Versions,
          Times,     \* when an entry may have been created
          Null

Entry == [payload: Payloads, fraud: BOOLEAN, score: Scores, version: Versions, at: Times]

VARIABLES ledger,  \* the entry of each id, Null as long as there is none
          told     \* what callers were told: an id and its verdict

Verdict(t) ==
  [tx |-> t, fraud |-> ledger[t].fraud, score |-> ledger[t].score,
   version |-> ledger[t].version]

Init ==
  /\ ledger = [t \in TxIds |-> Null]
  /\ told = {}

\* The one time an id is written.
Record(t) ==
  /\ ledger[t] = Null
  /\ UNCHANGED told
  /\ \E e \in Entry : ledger' = [ledger EXCEPT ![t] = e]

\* A caller is told what is written.
Tell(t) ==
  /\ ledger[t] # Null
  /\ told' = told \cup {Verdict(t)}
  /\ UNCHANGED ledger

Next == \E t \in TxIds : Tell(t) \/ Record(t)

Spec == Init /\ [][Next]_<<ledger, told>>
=============================================================================
