----------------------------- MODULE RequestGate -----------------------------
(***************************************************************************)
(* What a request passes before it reaches a route: the sliding-window     *)
(* rate limits per client IP and then the check of Content-Length          *)
(* (main.create_app adds them in this order, outermost last).  Between     *)
(* reading the clock and answering or calling the next layer the limiter   *)
(* does not wait, so on the event loop one request is one step.  A limit   *)
(* of 0 switches a bucket off.                                             *)
(***************************************************************************)
EXTENDS Naturals, Sequences

CONSTANTS IPs,          \* client addresses (get_client_ip)
          Window,       \* seconds (60 in the code)
          FraudLimit,   \* fraud_post_rate_limit_per_minute
          ApiLimit,     \* api_rate_limit_per_minute
          CheckBody,    \* max_request_body_bytes > 0
          MaxTime,      \* bound on the clock
          MaxRequests   \* bound on the requests of a behaviour

ASSUME GateAssumption ==
  /\ Window \in Nat /\ FraudLimit \in Nat /\ ApiLimit \in Nat
  /\ MaxTime \in Nat /\ MaxRequests \in Nat
  /\ CheckBody \in BOOLEAN

VARIABLES
  now,         \* time.monotonic()
  fraud,       \* _fraud: per IP the times of scoring POSTs
  general,     \* _general: per IP the times of API requests
  fraudLog,    \* history: every time ever appended to the deque of _fraud
  generalLog,  \* history: every time ever appended to the deque of _general
  requests,    \* the requests so far
  reply        \* the last request and its verdict

gateVars == <<now, fraud, general, fraudLog, generalLog, requests, reply>>

Times == 0..MaxTime

Verdicts == {"none", "passed", "bad length", "too large", "too many scores", "too many requests"}

Lengths == {"absent", "malformed", "fits", "exceeds"}

-----------------------------------------------------------------------------
(* Helpers.  A definition named ...Without... or ...OffByOne is a variant of the one
   that follows it, as a slip in the code would make it; no action uses it. *)

\* Variant: entries are never popped.
ExpiredWithoutPrune(dq, t) == {0}

\* Variant: `<=` instead of `<` cutoff.
ExpiredOffByOne(dq, t) ==
  {k \in 0..Len(dq) : /\ \A i \in 1..k : dq[i] + Window <= t
                      /\ k < Len(dq) => dq[k + 1] + Window > t}

\* _prune: how many entries it pops from the left (one number, given as a set).
Expired(dq, t) ==
  {k \in 0..Len(dq) : /\ \A i \in 1..k : dq[i] + Window < t
                      /\ k < Len(dq) => dq[k + 1] + Window >= t}

Kept(dq, k) == SubSeq(dq, k + 1, Len(dq))

\* The deque after a prune that leaves it full.
Full(dq, limit, t) ==
  {Kept(dq, k) : k \in {j \in Expired(dq, t) : Len(dq) - j >= limit}}

\* Variant: `>` instead of `>=` limit.
EnteredOffByOne(dq, limit, t) ==
  {Append(Kept(dq, k), t) : k \in {j \in Expired(dq, t) : Len(dq) - j <= limit}}

\* The deque after a prune that leaves room, with the request appended.
Entered(dq, limit, t) ==
  {Append(Kept(dq, k), t) : k \in {j \in Expired(dq, t) : Len(dq) - j < limit}}

Replied(ip, verdict) ==
  /\ requests < MaxRequests
  /\ requests' = requests + 1
  /\ reply' = [ip |-> ip, at |-> now, verdict |-> verdict]
  /\ UNCHANGED now

ScoresFull(ip) ==
  /\ FraudLimit > 0
  /\ \E dq \in Full(fraud[ip], FraudLimit, now) : fraud' = [fraud EXCEPT ![ip] = dq]
  /\ UNCHANGED fraudLog

CountScore(ip) ==
  IF FraudLimit = 0 THEN UNCHANGED <<fraud, fraudLog>>
  ELSE /\ \E dq \in Entered(fraud[ip], FraudLimit, now) : fraud' = [fraud EXCEPT ![ip] = dq]
       /\ fraudLog' = [fraudLog EXCEPT ![ip] = Append(@, now)]

RequestsFull(ip) ==
  /\ ApiLimit > 0
  /\ \E dq \in Full(general[ip], ApiLimit, now) : general' = [general EXCEPT ![ip] = dq]
  /\ UNCHANGED generalLog

CountRequest(ip) ==
  IF ApiLimit = 0 THEN UNCHANGED <<general, generalLog>>
  ELSE /\ \E dq \in Entered(general[ip], ApiLimit, now) : general' = [general EXCEPT ![ip] = dq]
       /\ generalLog' = [generalLog EXCEPT ![ip] = Append(@, now)]

\* MaxBodySizeMiddleware, for a POST.
BodyVerdict(length) ==
  IF ~CheckBody THEN "passed"
  ELSE CASE length \in {"absent", "fits"} -> "passed"
         [] length = "malformed" -> "bad length"
         [] length = "exceeds" -> "too large"

-----------------------------------------------------------------------------
(* The requests of a client *)

\* A path outside /api/: not limited.
Health(ip) ==
  /\ Replied(ip, "passed")
  /\ UNCHANGED <<fraud, general, fraudLog, generalLog>>

\* POST /score or /score-async over the scoring limit.
ScoreRefused(ip) ==
  /\ ScoresFull(ip)
  /\ Replied(ip, "too many scores")
  /\ UNCHANGED <<general, generalLog>>

\* Within the scoring limit, over the general one: the request is refused and has all
\* the same been counted by the scoring limit.
ScoreRefusedByApi(ip) ==
  /\ CountScore(ip)
  /\ RequestsFull(ip)
  /\ Replied(ip, "too many requests")

\* Counted by both limits, also if the body is refused then.
Score(ip, length) ==
  /\ CountScore(ip)
  /\ CountRequest(ip)
  /\ Replied(ip, BodyVerdict(length))

\* Any other request of the API (they have no body).
ReadRefused(ip) ==
  /\ RequestsFull(ip)
  /\ Replied(ip, "too many requests")
  /\ UNCHANGED <<fraud, fraudLog>>

Read(ip) ==
  /\ CountRequest(ip)
  /\ Replied(ip, "passed")
  /\ UNCHANGED <<fraud, fraudLog>>

Tick ==
  /\ now < MaxTime
  /\ now' = now + 1
  /\ UNCHANGED <<fraud, general, fraudLog, generalLog, requests, reply>>

Idle ==
  /\ now = MaxTime /\ requests = MaxRequests
  /\ UNCHANGED gateVars

-----------------------------------------------------------------------------
GateInit ==
  /\ now = 0
  /\ fraud = [ip \in IPs |-> <<>>]
  /\ general = [ip \in IPs |-> <<>>]
  /\ fraudLog = [ip \in IPs |-> <<>>]
  /\ generalLog = [ip \in IPs |-> <<>>]
  /\ requests = 0
  /\ reply \in {[ip |-> ip, at |-> 0, verdict |-> "none"] : ip \in IPs}

Request(ip) ==
  \/ Health(ip)
  \/ ScoreRefused(ip) \/ ScoreRefusedByApi(ip) \/ \E length \in Lengths : Score(ip, length)
  \/ ReadRefused(ip) \/ Read(ip)

GateNext == (\E ip \in IPs : Request(ip)) \/ Tick \/ Idle

GateSpec == GateInit /\ [][GateNext]_gateVars

-----------------------------------------------------------------------------
\* Types; and the deques do not grow beyond their limits.
GateTypeOK ==
  /\ now \in Times /\ requests \in 0..MaxRequests
  /\ fraud \in [IPs -> Seq(Times)] /\ general \in [IPs -> Seq(Times)]
  /\ fraudLog \in [IPs -> Seq(Times)] /\ generalLog \in [IPs -> Seq(Times)]
  /\ \A ip \in IPs : Len(fraud[ip]) <= FraudLimit /\ Len(general[ip]) <= ApiLimit
  /\ reply \in [ip: IPs, at: Times, verdict: Verdicts]

\* limit + 1 entries of a log that follow each other span more than the window.
Spread(log, limit) ==
  \A i \in 1..Len(log) : i + limit <= Len(log) => log[i] + Window < log[i + limit]

\* Never more than the limit in any window, wherever the window begins: neither scoring
\* POSTs nor API requests of one client, also across prunes and at both ends of the
\* window.
LimitsHold ==
  \A ip \in IPs :
    /\ FraudLimit > 0 => Spread(fraudLog[ip], FraudLimit)
    /\ ApiLimit > 0 => Spread(generalLog[ip], ApiLimit)

\* The last `limit` entries are all within the window that ends at t.
Busy(log, limit, t) ==
  Len(log) >= limit /\ log[Len(log) - limit + 1] + Window >= t

\* A 429 is only given to a client that has used up the limit in the window before: a
\* refused request does not count against the limit that refused it.
RefusedOnlyWhenBusy ==
  /\ reply.verdict = "too many scores" => Busy(fraudLog[reply.ip], FraudLimit, reply.at)
  /\ reply.verdict = "too many requests" => Busy(generalLog[reply.ip], ApiLimit, reply.at)

Quiet(ip) ==
  /\ \A i \in 1..Len(fraudLog[ip]) : fraudLog[ip][i] + Window < now
  /\ \A i \in 1..Len(generalLog[ip]) : generalLog[ip][i] + Window < now

PassesIfQuiet ==
  \A ip \in IPs : Quiet(ip) /\ requests' # requests /\ reply'.ip = ip
    => reply'.verdict \notin {"too many scores", "too many requests"}

\* A client that waited for longer than the window (the Retry-After of a 429) is not
\* refused by a limit, whatever it and others did before.
RetryAfterHonoured == [][PassesIfQuiet]_gateVars
=============================================================================
