-------------------------- MODULE RequestGateProofs --------------------------
(***************************************************************************)
(* Proofs about RequestGate, for any set of clients, any window and any    *)
(* limits.  A deque is always the end of its log, is no longer than the    *)
(* limit, and what was popped from it is older than the window (Tier): so  *)
(* the entry `limit` places before a new one has left the window.          *)
(***************************************************************************)
EXTENDS RequestGate, TLAPS

\* dq, with its log, is a deque of the given limit at time t.
Tier(dq, log, limit, t) ==
  /\ Len(dq) <= limit /\ Len(dq) <= Len(log)
  /\ \A i \in 1..Len(dq) : dq[i] = log[Len(log) - Len(dq) + i]
  /\ \A i \in 1..(Len(log) - Len(dq)) : log[i] + Window < t
  /\ limit > 0 => Spread(log, limit)

GateInv ==
  /\ GateTypeOK
  /\ \A ip \in IPs : /\ Tier(fraud[ip], fraudLog[ip], FraudLimit, now)
                     /\ Tier(general[ip], generalLog[ip], ApiLimit, now)
  /\ RefusedOnlyWhenBusy

-----------------------------------------------------------------------------
(* A deque and its log *)

LEMMA GateNat == Window \in Nat /\ FraudLimit \in Nat /\ ApiLimit \in Nat /\ Times \subseteq Nat
BY GateAssumption DEF Times

LEMMA KeptFacts ==
  ASSUME NEW dq \in Seq(Times), NEW k \in 0..Len(dq)
  PROVE  /\ Kept(dq, k) \in Seq(Times)
         /\ Len(Kept(dq, k)) = Len(dq) - k
         /\ \A i \in 1..(Len(dq) - k) : Kept(dq, k)[i] = dq[k + i]
BY DEF Kept

\* Pruning keeps the deque the end of its log.
LEMMA PruneKeepsTier ==
  ASSUME NEW dq \in Seq(Times), NEW log \in Seq(Times), NEW limit \in Nat, NEW t \in Times,
         Tier(dq, log, limit, t), NEW k \in Expired(dq, t)
  PROVE  Tier(Kept(dq, k), log, limit, t)
<1> DEFINE kept == Kept(dq, k)
<1>1. k \in 0..Len(dq) /\ \A i \in 1..k : dq[i] + Window < t
  BY DEF Expired
<1>2. /\ Len(kept) = Len(dq) - k /\ Len(dq) \in Nat /\ Len(log) \in Nat
      /\ \A i \in 1..(Len(dq) - k) : kept[i] = dq[k + i]
  BY <1>1, KeptFacts
<1>3. \A i \in 1..Len(kept) : kept[i] = log[Len(log) - Len(kept) + i]
  <2> SUFFICES ASSUME NEW i \in 1..Len(kept)
               PROVE  kept[i] = log[Len(log) - Len(kept) + i]
    OBVIOUS
  <2>1. k + i \in 1..Len(dq) /\ kept[i] = dq[k + i]
    BY <1>1, <1>2
  <2>2. dq[k + i] = log[Len(log) - Len(dq) + (k + i)]
    BY <2>1 DEF Tier
  <2>3. Len(log) - Len(dq) + (k + i) = Len(log) - Len(kept) + i
    BY <1>1, <1>2
  <2> QED BY <2>1, <2>2, <2>3
<1>4. \A i \in 1..(Len(log) - Len(kept)) : log[i] + Window < t
  <2> SUFFICES ASSUME NEW i \in 1..(Len(log) - Len(kept))
               PROVE  log[i] + Window < t
    OBVIOUS
  <2>1. CASE i <= Len(log) - Len(dq)
    BY <2>1, <1>2 DEF Tier
  <2>2. CASE i > Len(log) - Len(dq)
    <3>1. PICK m \in 1..k : i = Len(log) - Len(dq) + m
      <4>1. i - (Len(log) - Len(dq)) \in 1..k
        BY <1>1, <1>2, <2>2 DEF Tier
      <4>2. i = Len(log) - Len(dq) + (i - (Len(log) - Len(dq)))
        BY <1>2
      <4> QED BY <4>1, <4>2
    <3>2. m \in 1..Len(dq) /\ dq[m] = log[i]
      BY <1>1, <1>2, <3>1 DEF Tier
    <3> QED BY <1>1, <3>1, <3>2
  <2> QED BY <1>1, <1>2, <2>1, <2>2
<1>5. Len(kept) <= limit /\ Len(kept) <= Len(log)
  BY <1>1, <1>2 DEF Tier
<1> QED BY <1>3, <1>4, <1>5 DEF Tier

\* A full deque has not lost an entry: the last `limit` entries are in the window.
LEMMA FullIsBusy ==
  ASSUME NEW dq \in Seq(Times), NEW log \in Seq(Times), NEW limit \in Nat \ {0}, NEW t \in Times,
         Tier(dq, log, limit, t), NEW dq2 \in Full(dq, limit, t)
  PROVE  dq2 \in Seq(Times) /\ Tier(dq2, log, limit, t) /\ Busy(log, limit, t)
<1>1. PICK k \in Expired(dq, t) : dq2 = Kept(dq, k) /\ Len(dq) - k >= limit
  BY DEF Full
<1>2. k \in 0..Len(dq) /\ Len(dq) \in Nat /\ Len(log) \in Nat
  BY <1>1 DEF Expired
<1>3. k = 0 /\ Len(dq) = limit
  BY <1>1, <1>2 DEF Tier
<1>4. dq[1] + Window >= t
  BY <1>1, <1>2, <1>3 DEF Expired
<1>5. dq[1] = log[Len(log) - limit + 1]
  BY <1>3 DEF Tier
<1>6. dq2 \in Seq(Times)
  BY <1>1, <1>2, KeptFacts
<1>7. Tier(dq2, log, limit, t)
  BY <1>1, PruneKeepsTier
<1>8. Len(log) >= limit
  BY <1>2, <1>3 DEF Tier
<1> QED BY <1>4, <1>5, <1>6, <1>7, <1>8 DEF Busy

\* An entry that is let in leaves the log spread.
LEMMA EnteredIsSpread ==
  ASSUME NEW dq \in Seq(Times), NEW log \in Seq(Times), NEW limit \in Nat, NEW t \in Times,
         Tier(dq, log, limit, t), NEW dq2 \in Entered(dq, limit, t)
  PROVE  dq2 \in Seq(Times) /\ Append(log, t) \in Seq(Times) /\ Tier(dq2, Append(log, t), limit, t)
<1>1. PICK k \in Expired(dq, t) : dq2 = Append(Kept(dq, k), t) /\ Len(dq) - k < limit
  BY DEF Entered
<1>a. PICK kept : kept = Kept(dq, k)
  OBVIOUS
<1>b. PICK log2 : log2 = Append(log, t)
  OBVIOUS
<1>2. /\ kept \in Seq(Times) /\ Len(kept) < limit /\ Tier(kept, log, limit, t)
      /\ Len(kept) \in Nat /\ Len(log) \in Nat
  <2>1. k \in 0..Len(dq)
    BY <1>1 DEF Expired
  <2>2. kept \in Seq(Times) /\ Len(kept) = Len(dq) - k
    BY <2>1, <1>a, KeptFacts
  <2>3. Tier(kept, log, limit, t)
    BY <1>1, <1>a, PruneKeepsTier
  <2> QED BY <1>1, <2>2, <2>3
<1>3. /\ dq2 \in Seq(Times) /\ Len(dq2) = Len(kept) + 1 /\ dq2[Len(kept) + 1] = t
      /\ \A i \in 1..Len(kept) : dq2[i] = kept[i]
  BY <1>1, <1>2, <1>a
<1>4. /\ log2 \in Seq(Times) /\ Len(log2) = Len(log) + 1 /\ log2[Len(log) + 1] = t
      /\ \A i \in 1..Len(log) : log2[i] = log[i]
  BY <1>2, <1>b
<1>5. \A i \in 1..Len(dq2) : dq2[i] = log2[Len(log2) - Len(dq2) + i]
  <2> SUFFICES ASSUME NEW i \in 1..Len(dq2)
               PROVE  dq2[i] = log2[Len(log2) - Len(dq2) + i]
    OBVIOUS
  <2>1. CASE i = Len(kept) + 1
    BY <2>1, <1>2, <1>3, <1>4
  <2>2. CASE i \in 1..Len(kept)
    <3>1. dq2[i] = log[Len(log) - Len(kept) + i]
      BY <2>2, <1>2, <1>3 DEF Tier
    <3>2. Len(log) - Len(kept) + i \in 1..Len(log)
      BY <2>2, <1>2 DEF Tier
    <3>3. Len(log2) - Len(dq2) + i = Len(log) - Len(kept) + i
      BY <1>2, <1>3, <1>4
    <3> QED BY <3>1, <3>2, <3>3, <1>4
  <2> QED BY <2>1, <2>2, <1>2, <1>3
<1>6. \A i \in 1..(Len(log2) - Len(dq2)) : log2[i] + Window < t
  <2> SUFFICES ASSUME NEW i \in 1..(Len(log2) - Len(dq2))
               PROVE  log2[i] + Window < t
    OBVIOUS
  <2>1. i \in 1..(Len(log) - Len(kept)) /\ i \in 1..Len(log)
    BY <1>2, <1>3, <1>4
  <2>2. log[i] + Window < t
    BY <2>1, <1>2 DEF Tier
  <2> QED BY <2>1, <2>2, <1>4
<1>7. Spread(log2, limit)
  <2> SUFFICES ASSUME NEW i \in 1..Len(log2), i + limit <= Len(log2)
               PROVE  log2[i] + Window < log2[i + limit]
    BY DEF Spread
  <2>1. CASE i + limit = Len(log2)
    <3>1. i \in 1..(Len(log2) - Len(dq2))
      BY <2>1, <1>2, <1>3, <1>4
    <3> QED BY <2>1, <3>1, <1>4, <1>6
  <2>2. CASE i + limit # Len(log2)
    <3>a. Len(log) \in Nat /\ Len(log2) = Len(log) + 1
      BY <1>4
    <3>b. limit > 0
      BY <1>2
    <3>1. i \in 1..Len(log) /\ i + limit \in 1..Len(log) /\ limit > 0
      BY <2>2, <3>a, <3>b
    <3>2. log[i] + Window < log[i + limit]
      BY <3>1, <1>2 DEF Tier, Spread
    <3> QED BY <3>1, <3>2, <1>4
  <2> QED BY <2>1, <2>2
<1>8. Len(dq2) <= limit /\ Len(dq2) <= Len(log2)
  BY <1>2, <1>3, <1>4 DEF Tier
<1>9. Tier(dq2, log2, limit, t)
  BY <1>5, <1>6, <1>7, <1>8 DEF Tier
<1> QED BY <1>b, <1>3, <1>4, <1>9

-----------------------------------------------------------------------------
(* The two buckets *)

FraudOK ==
  /\ fraud \in [IPs -> Seq(Times)] /\ fraudLog \in [IPs -> Seq(Times)]
  /\ \A ip \in IPs : Tier(fraud[ip], fraudLog[ip], FraudLimit, now)

GeneralOK ==
  /\ general \in [IPs -> Seq(Times)] /\ generalLog \in [IPs -> Seq(Times)]
  /\ \A ip \in IPs : Tier(general[ip], generalLog[ip], ApiLimit, now)

LEMMA BucketsOK ==
  ASSUME GateInv
  PROVE  FraudOK /\ GeneralOK /\ now \in Times
BY DEF GateInv, GateTypeOK, FraudOK, GeneralOK

LEMMA ScoresFullStep ==
  ASSUME GateInv, NEW ip \in IPs, ScoresFull(ip), now' = now
  PROVE  FraudOK' /\ Busy(fraudLog'[ip], FraudLimit, now)
<1>1. FraudLimit \in Nat \ {0} /\ FraudOK /\ now \in Times
  BY GateNat, BucketsOK DEF ScoresFull
<1>2. PICK dq \in Full(fraud[ip], FraudLimit, now) : fraud' = [fraud EXCEPT ![ip] = dq]
  BY DEF ScoresFull
<1>3. dq \in Seq(Times) /\ Tier(dq, fraudLog[ip], FraudLimit, now)
      /\ Busy(fraudLog[ip], FraudLimit, now)
  BY <1>1, FullIsBusy DEF FraudOK
<1> QED BY <1>1, <1>2, <1>3 DEF FraudOK, ScoresFull

LEMMA CountScoreStep ==
  ASSUME GateInv, NEW ip \in IPs, CountScore(ip), now' = now
  PROVE  FraudOK'
<1>1. FraudLimit \in Nat /\ FraudOK /\ now \in Times
  BY GateNat, BucketsOK
<1>2. CASE FraudLimit = 0
  BY <1>1, <1>2 DEF CountScore, FraudOK
<1>3. CASE FraudLimit # 0
  <2>1. PICK dq \in Entered(fraud[ip], FraudLimit, now) : fraud' = [fraud EXCEPT ![ip] = dq]
    BY <1>3 DEF CountScore
  <2>2. PICK log : log = Append(fraudLog[ip], now)
    OBVIOUS
  <2>3. dq \in Seq(Times) /\ log \in Seq(Times) /\ Tier(dq, log, FraudLimit, now)
    BY <1>1, <2>2, EnteredIsSpread DEF FraudOK
  <2>4. fraudLog' = [fraudLog EXCEPT ![ip] = log]
    BY <1>3, <2>2 DEF CountScore
  <2> QED BY <1>1, <2>1, <2>3, <2>4 DEF FraudOK
<1> QED BY <1>2, <1>3

LEMMA RequestsFullStep ==
  ASSUME GateInv, NEW ip \in IPs, RequestsFull(ip), now' = now
  PROVE  GeneralOK' /\ Busy(generalLog'[ip], ApiLimit, now)
<1>1. ApiLimit \in Nat \ {0} /\ GeneralOK /\ now \in Times
  BY GateNat, BucketsOK DEF RequestsFull
<1>2. PICK dq \in Full(general[ip], ApiLimit, now) : general' = [general EXCEPT ![ip] = dq]
  BY DEF RequestsFull
<1>3. dq \in Seq(Times) /\ Tier(dq, generalLog[ip], ApiLimit, now)
      /\ Busy(generalLog[ip], ApiLimit, now)
  BY <1>1, FullIsBusy DEF GeneralOK
<1> QED BY <1>1, <1>2, <1>3 DEF GeneralOK, RequestsFull

LEMMA CountRequestStep ==
  ASSUME GateInv, NEW ip \in IPs, CountRequest(ip), now' = now
  PROVE  GeneralOK'
<1>1. ApiLimit \in Nat /\ GeneralOK /\ now \in Times
  BY GateNat, BucketsOK
<1>2. CASE ApiLimit = 0
  BY <1>1, <1>2 DEF CountRequest, GeneralOK
<1>3. CASE ApiLimit # 0
  <2>1. PICK dq \in Entered(general[ip], ApiLimit, now) : general' = [general EXCEPT ![ip] = dq]
    BY <1>3 DEF CountRequest
  <2>2. PICK log : log = Append(generalLog[ip], now)
    OBVIOUS
  <2>3. dq \in Seq(Times) /\ log \in Seq(Times) /\ Tier(dq, log, ApiLimit, now)
    BY <1>1, <2>2, EnteredIsSpread DEF GeneralOK
  <2>4. generalLog' = [generalLog EXCEPT ![ip] = log]
    BY <1>3, <2>2 DEF CountRequest
  <2> QED BY <1>1, <2>1, <2>3, <2>4 DEF GeneralOK
<1> QED BY <1>2, <1>3

\* What was popped stays old as time goes on.
LEMMA TickStep ==
  ASSUME GateInv, Tick
  PROVE  FraudOK' /\ GeneralOK' /\ now' \in Times
<1>1. now \in Nat /\ now' = now + 1 /\ now' \in Times /\ Times \subseteq Nat /\ Window \in Nat
  BY GateNat, GateAssumption DEF GateInv, GateTypeOK, Tick, Times
<1>2. ASSUME NEW dq \in Seq(Times), NEW log \in Seq(Times), NEW limit, Tier(dq, log, limit, now)
      PROVE  Tier(dq, log, limit, now + 1)
  <2>1. \A i \in 1..(Len(log) - Len(dq)) : log[i] + Window < now + 1
    <3> SUFFICES ASSUME NEW i \in 1..(Len(log) - Len(dq))
                 PROVE  log[i] + Window < now + 1
      OBVIOUS
    <3>1. i \in 1..Len(log)
      BY DEF Tier
    <3>2. log[i] \in Times
      BY <3>1
    <3>3. log[i] + Window < now
      BY <1>2 DEF Tier
    <3>4. log[i] \in Nat
      BY <3>2, <1>1
    <3> QED BY <3>3, <3>4, <1>1
  <2> QED BY <1>2, <2>1 DEF Tier
<1>3. FraudOK /\ GeneralOK
  BY BucketsOK
<1>4. UNCHANGED <<fraud, fraudLog, general, generalLog>>
  BY DEF Tick
<1> QED BY <1>1, <1>2, <1>3, <1>4 DEF FraudOK, GeneralOK

LEMMA RepliedFacts ==
  ASSUME GateInv, NEW ip \in IPs, NEW v \in Verdicts, Replied(ip, v)
  PROVE  /\ now' = now /\ now' \in Times /\ requests' \in 0..MaxRequests
         /\ reply' \in [ip: IPs, at: Times, verdict: Verdicts]
         /\ reply' = [ip |-> ip, at |-> now, verdict |-> v]
         /\ requests' # requests
BY GateAssumption DEF GateInv, GateTypeOK, Replied

\* A step is right if the buckets are, and if a 429 it gives is deserved.
LEMMA VerdictStep ==
  ASSUME GateInv, NEW ip \in IPs, NEW v \in Verdicts, Replied(ip, v), FraudOK', GeneralOK',
         v = "too many scores" => Busy(fraudLog'[ip], FraudLimit, now),
         v = "too many requests" => Busy(generalLog'[ip], ApiLimit, now)
  PROVE  GateInv'
<1>1. RefusedOnlyWhenBusy'
  <2>1. reply'.ip = ip /\ reply'.at = now /\ reply'.verdict = v
    BY DEF Replied
  <2> QED BY <2>1 DEF RefusedOnlyWhenBusy
<1>2. GateTypeOK'
  BY RepliedFacts DEF FraudOK, GeneralOK, Tier, GateTypeOK
<1> QED BY <1>1, <1>2 DEF GateInv, FraudOK, GeneralOK

LEMMA RequestStep ==
  ASSUME GateInv, NEW ip \in IPs, Request(ip)
  PROVE  GateInv'
<1>n. now' = now
  BY DEF Request, Health, ScoreRefused, ScoreRefusedByApi, Score, ReadRefused, Read, Replied
<1>k. /\ UNCHANGED <<fraud, fraudLog>> => FraudOK'
      /\ UNCHANGED <<general, generalLog>> => GeneralOK'
  BY <1>n, BucketsOK DEF FraudOK, GeneralOK
<1>1. CASE Health(ip)
  BY <1>1, <1>k, VerdictStep DEF Health, Verdicts
<1>2. CASE ScoreRefused(ip)
  <2>1. FraudOK' /\ Busy(fraudLog'[ip], FraudLimit, now)
    BY <1>2, <1>n, ScoresFullStep DEF ScoreRefused
  <2> QED BY <1>2, <2>1, <1>k, VerdictStep DEF ScoreRefused, Verdicts
<1>3. CASE ScoreRefusedByApi(ip) \/ ReadRefused(ip)
  <2>1. GeneralOK' /\ Busy(generalLog'[ip], ApiLimit, now)
    BY <1>3, <1>n, RequestsFullStep DEF ScoreRefusedByApi, ReadRefused
  <2>2. FraudOK'
    BY <1>3, <1>n, <1>k, CountScoreStep DEF ScoreRefusedByApi, ReadRefused
  <2> QED BY <1>3, <2>1, <2>2, VerdictStep DEF ScoreRefusedByApi, ReadRefused, Verdicts
<1>4. ASSUME NEW length \in Lengths, Score(ip, length)
      PROVE  GateInv'
  <2>1. BodyVerdict(length) \in {"passed", "bad length", "too large"}
    BY DEF BodyVerdict, Lengths
  <2>2. FraudOK' /\ GeneralOK'
    BY <1>4, <1>n, CountScoreStep, CountRequestStep DEF Score
  <2> QED BY <1>4, <2>1, <2>2, VerdictStep DEF Score, Verdicts
<1>5. CASE Read(ip)
  <2>1. GeneralOK'
    BY <1>5, <1>n, CountRequestStep DEF Read
  <2> QED BY <1>5, <2>1, <1>k, VerdictStep DEF Read, Verdicts
<1> QED BY <1>1, <1>2, <1>3, <1>4, <1>5 DEF Request

-----------------------------------------------------------------------------
(* The theorems *)

LEMMA GateInitInv == GateInit => GateInv
<1> SUFFICES ASSUME GateInit
             PROVE  GateInv
  OBVIOUS
<1>1. FraudLimit \in Nat /\ ApiLimit \in Nat /\ 0 \in Times /\ 0 \in 0..MaxRequests
  BY GateAssumption DEF Times
<1>2. \A limit \in Nat : Tier(<<>>, <<>>, limit, now)
  BY DEF Tier, Spread
<1>r. PICK ip \in IPs : reply = [ip |-> ip, at |-> 0, verdict |-> "none"]
  BY DEF GateInit
<1>3. GateTypeOK
  BY <1>1, <1>r DEF GateInit, GateTypeOK, Verdicts
<1>4. RefusedOnlyWhenBusy
  BY <1>r DEF RefusedOnlyWhenBusy
<1> QED BY <1>1, <1>2, <1>3, <1>4 DEF GateInit, GateInv

\* The deques are the ends of their logs in every state of every behaviour.
THEOREM GateInductiveInvariant == GateSpec => []GateInv
<1>1. GateInit => GateInv
  BY GateInitInv
<1>2. GateInv /\ [GateNext]_gateVars => GateInv'
  <2> SUFFICES ASSUME GateInv, [GateNext]_gateVars
               PROVE  GateInv'
    OBVIOUS
  <2>1. CASE Tick
    <3>1. RefusedOnlyWhenBusy'
      BY <2>1 DEF Tick, GateInv, RefusedOnlyWhenBusy
    <3>2. FraudOK' /\ GeneralOK' /\ now' \in Times
      BY <2>1, TickStep
    <3>3. GateTypeOK'
      BY <2>1, <3>2 DEF Tick, GateInv, GateTypeOK
    <3> QED BY <3>1, <3>2, <3>3 DEF GateInv, FraudOK, GeneralOK
  <2>2. CASE UNCHANGED gateVars
    BY <2>2 DEF gateVars, GateInv, GateTypeOK, RefusedOnlyWhenBusy
  <2> QED BY <2>1, <2>2, RequestStep DEF GateNext, Idle
<1> QED BY <1>1, <1>2, PTL DEF GateSpec

\* The variables stay in their types and no deque outgrows its limit.
THEOREM GateTypeCorrect == GateSpec => []GateTypeOK
<1>1. GateInv => GateTypeOK
  BY DEF GateInv
<1> QED BY <1>1, GateInductiveInvariant, PTL

\* No client gets more than the limit into any window.
THEOREM LimitsAlwaysHold == GateSpec => []LimitsHold
<1>1. GateInv => LimitsHold
  BY DEF GateInv, Tier, LimitsHold
<1> QED BY <1>1, GateInductiveInvariant, PTL

\* A 429 is deserved.
THEOREM RefusalsDeserved == GateSpec => []RefusedOnlyWhenBusy
<1>1. GateInv => RefusedOnlyWhenBusy
  BY DEF GateInv
<1> QED BY <1>1, GateInductiveInvariant, PTL

\* A log whose entries have all left the window is not busy.
LEMMA QuietNotBusy ==
  ASSUME NEW log \in Seq(Times), NEW limit \in Nat \ {0}, NEW t \in Times,
         \A i \in 1..Len(log) : log[i] + Window < t
  PROVE  ~Busy(log, limit, t)
<1> SUFFICES ASSUME Busy(log, limit, t)
             PROVE  FALSE
  OBVIOUS
<1>1. Len(log) - limit + 1 \in 1..Len(log)
  BY DEF Busy
<1>2. log[Len(log) - limit + 1] \in Times
  BY <1>1
<1>3. log[Len(log) - limit + 1] \in Nat /\ t \in Nat /\ Window \in Nat
  BY <1>2, GateNat
<1>4. log[Len(log) - limit + 1] + Window < t
  BY <1>1
<1> QED BY <1>3, <1>4 DEF Busy

\* A client that was quiet for longer than the window is not busy, so not refused.
THEOREM QuietClientsPass == GateSpec => RetryAfterHonoured
<1>1. GateInv /\ [GateNext]_gateVars => [PassesIfQuiet]_gateVars
  <2> SUFFICES ASSUME GateInv, [GateNext]_gateVars, NEW ip \in IPs, Quiet(ip),
                      requests' # requests, reply'.ip = ip
               PROVE  reply'.verdict \notin {"too many scores", "too many requests"}
    BY DEF PassesIfQuiet
  <2>0. PICK c \in IPs : Request(c)
    BY DEF GateNext, Tick, Idle, gateVars
  <2>1. PICK v : Replied(c, v)
    BY <2>0 DEF Request, Health, ScoreRefused, ScoreRefusedByApi, Score, ReadRefused, Read
  <2>2. c = ip /\ reply'.verdict = v /\ now' = now
    BY <2>1 DEF Replied
  <2>n. now \in Times /\ FraudLimit \in Nat /\ ApiLimit \in Nat
        /\ fraudLog[ip] \in Seq(Times) /\ generalLog[ip] \in Seq(Times)
    BY BucketsOK, GateNat DEF FraudOK, GeneralOK
  <2>3. ASSUME ScoresFull(ip)
        PROVE  FALSE
    <3>1. Busy(fraudLog'[ip], FraudLimit, now)
      BY <2>2, <2>3, ScoresFullStep
    <3>2. fraudLog' = fraudLog /\ FraudLimit > 0
      BY <2>3 DEF ScoresFull
    <3> QED BY <2>n, <3>1, <3>2, QuietNotBusy DEF Quiet
  <2>4. ASSUME RequestsFull(ip)
        PROVE  FALSE
    <3>1. Busy(generalLog'[ip], ApiLimit, now)
      BY <2>2, <2>4, RequestsFullStep
    <3>2. generalLog' = generalLog /\ ApiLimit > 0
      BY <2>4 DEF RequestsFull
    <3> QED BY <2>n, <3>1, <3>2, QuietNotBusy DEF Quiet
  <2>5. Health(ip) \/ (\E length \in Lengths : Score(ip, length)) \/ Read(ip)
    BY <2>0, <2>2, <2>3, <2>4 DEF Request, ScoreRefused, ScoreRefusedByApi, ReadRefused
  <2>6. CASE Health(ip) \/ Read(ip)
    <3>1. reply' = [ip |-> ip, at |-> now, verdict |-> "passed"]
      BY <2>6 DEF Health, Read, Replied
    <3> QED BY <3>1
  <2>7. ASSUME NEW length \in Lengths, Score(ip, length)
        PROVE  reply'.verdict \notin {"too many scores", "too many requests"}
    <3>1. BodyVerdict(length) \in {"passed", "bad length", "too large"}
      BY DEF BodyVerdict, Lengths
    <3>2. reply'.verdict = BodyVerdict(length)
      BY <2>7 DEF Score, Replied
    <3> QED BY <3>1, <3>2
  <2> QED BY <2>5, <2>6, <2>7
<1> QED BY <1>1, GateInductiveInvariant, PTL DEF GateSpec, RetryAfterHonoured
=============================================================================
