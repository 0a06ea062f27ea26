------------------------------ MODULE ApiProcess ------------------------------
(***************************************************************************)
(* Requests inside one API process, and what they compete for.  FastAPI    *)
(* runs every synchronous function of a request in a worker thread: its    *)
(* dependencies, its route, and the validation of what the route returned; *)
(* between them the request has no thread.  A session takes a connection   *)
(* from the pool with its first statement, gives it back at commit or      *)
(* rollback, and otherwise keeps it until get_db closes the session, after *)
(* the validation.  Closing needs no thread of the limited kind.  The      *)
(* Redis client of the process is built by the first request that needs    *)
(* it.                                                                     *)
(***************************************************************************)
EXTENDS Integers, FiniteSets

CONSTANTS Requests,
          Kinds,         \* of requests, see Kind
          Threads,       \* capacity of the thread limiter
          Connections,   \* of the pool: size and overflow
          Null

Kind == {"health", "ready", "score", "async", "read"}
UsesDatabase == {"ready", "score", "read"}
UsesRedis == {"ready", "score", "async"}

ASSUME KindsAssumption == Kinds \subseteq Kind
ASSUME CapacityAssumption == Threads \in Nat \ {0} /\ Connections \in Nat \ {0}
ASSUME RequestsAssumption == IsFiniteSet(Requests) /\ Null \notin Requests

VARIABLES
  kind,         \* per request
  at,           \* per request: its step, see Step
  threads,      \* requests that run in a thread
  connections,  \* requests whose session has a connection
  committed,    \* scores that are committed
  client,       \* the process' Redis client, named after the request that built it
  using,        \* per request: the Redis client it has
  outcome       \* per request: Null, "ok", "refused" (4xx) or "error" (500)

resources == <<threads, connections>>
vars == <<kind, at, resources, committed, client, using, outcome>>

\* away: not sent; arrived; building: get_redis has found no client; resolved: the
\* dependencies are there; wait: for a connection; work; refreshed: after db.refresh;
\* returned: the route is done; closing; answered.
Step == {"away", "arrived", "building", "resolved", "wait", "work", "refreshed", "returned",
         "closing", "answered"}

-----------------------------------------------------------------------------
FreeThread == Cardinality(threads) < Threads
FreeConnection == Cardinality(connections) < Connections

Goto(r, step) == at' = [at EXCEPT ![r] = step]

Arrive(r, k) ==
  /\ at[r] = "away"
  /\ kind' = [kind EXCEPT ![r] = k]
  /\ Goto(r, "arrived")
  /\ UNCHANGED <<resources, committed, client, using, outcome>>

\* Dependencies: the session (without a connection) and the Redis client.
Resolve(r) ==
  /\ at[r] = "arrived"
  /\ FreeThread
  /\ kind[r] \in UsesRedis => client # Null
  /\ using' = [using EXCEPT ![r] = IF kind[r] \in UsesRedis THEN client ELSE Null]
  /\ Goto(r, "resolved")
  /\ UNCHANGED <<kind, resources, committed, client, outcome>>

\* get_redis: `_client is None`.
FindNoClient(r) ==
  /\ at[r] = "arrived"
  /\ FreeThread
  /\ kind[r] \in UsesRedis /\ client = Null
  /\ threads' = threads \cup {r}
  /\ Goto(r, "building")
  /\ UNCHANGED <<kind, connections, committed, client, using, outcome>>

\* Variant: the client is not made the process'.
KeptClientNotAtAll(r) == client

KeptClient(r) == r

\* get_redis: the client is built and becomes the process', whoever built one meanwhile.
BuildClient(r) ==
  /\ at[r] = "building"
  /\ client' = KeptClient(r)
  /\ using' = [using EXCEPT ![r] = r]
  /\ threads' = threads \ {r}
  /\ Goto(r, "resolved")
  /\ UNCHANGED <<kind, connections, committed, outcome>>

\* The route begins; its first statement needs a connection.
Start(r) ==
  /\ at[r] = "resolved"
  /\ FreeThread
  /\ threads' = threads \cup {r}
  /\ Goto(r, IF kind[r] \in UsesDatabase THEN "wait" ELSE "work")
  /\ UNCHANGED <<kind, connections, committed, client, using, outcome>>

Checkout(r) ==
  /\ at[r] = "wait"
  /\ FreeConnection
  /\ connections' = connections \cup {r}
  /\ Goto(r, IF r \in committed THEN "refreshed" ELSE "work")
  /\ UNCHANGED <<kind, threads, committed, client, using, outcome>>

\* Variant: the connection is kept beyond the commit.
AfterCommitHeld(r) == connections

\* commit() gives the connection back.
AfterCommit(r) == connections \ {r}

\* db.commit(), db.refresh(tx): the next statement needs a connection again.
Commit(r) ==
  /\ at[r] = "work" /\ kind[r] = "score"
  /\ committed' = committed \cup {r}
  /\ connections' = AfterCommit(r)
  /\ Goto(r, "wait")
  /\ UNCHANGED <<kind, threads, client, using, outcome>>

\* The route returns (a score that was replayed does so without a commit).
Return(r) ==
  /\ at[r] \in {"work", "refreshed"}
  /\ threads' = threads \ {r}
  /\ Goto(r, "returned")
  /\ UNCHANGED <<kind, connections, committed, client, using, outcome>>

Ends(r, how) ==
  /\ outcome' = [outcome EXCEPT ![r] = how]
  /\ threads' = threads \ {r}
  /\ Goto(r, "closing")
  /\ UNCHANGED <<kind, committed, client, using>>

\* HTTPException: 404, 409, 422.
RaiseRefusal(r) ==
  /\ at[r] = "work" /\ kind[r] \in {"score", "read"}
  /\ Ends(r, "refused")
  /\ UNCHANGED connections

\* get_fraud_scoring_service, after the Redis client: without a predictor, 503.
Unavailable(r) ==
  /\ at[r] = "resolved" /\ kind[r] = "score"
  /\ FreeThread
  /\ Ends(r, "refused")
  /\ UNCHANGED connections

\* A statement, PING, SETEX or LPUSH fails; score_transaction rolls back if it is before
\* the end of its second try block.
Fail(r) ==
  /\ at[r] \in {"wait", "work", "refreshed"} /\ kind[r] # "health"
  /\ at[r] = "wait" => FreeConnection
  /\ Ends(r, "error")
  /\ \/ UNCHANGED connections
     \/ kind[r] = "score" /\ connections' = connections \ {r}

\* Variant: the pool waits without a limit.
PoolTimeoutNever(r) == at[r] = "wait" /\ FALSE /\ UNCHANGED vars

\* pool_timeout: no connection came free.
PoolTimeout(r) ==
  /\ at[r] = "wait"
  /\ ~FreeConnection
  /\ Ends(r, "error")
  /\ UNCHANGED connections

\* serialize_response, in a thread: the response model may refuse what the route returned.
Validate(r) ==
  /\ at[r] = "returned"
  /\ FreeThread
  /\ \E how \in {"ok", "error"} : outcome' = [outcome EXCEPT ![r] = how]
  /\ Goto(r, "closing")
  /\ UNCHANGED <<kind, resources, committed, client, using>>

\* Variant: the session of a request that failed is not closed.
AfterCloseOnlyIfOk(r) == IF outcome[r] = "ok" THEN connections \ {r} ELSE connections

AfterClose(r) == connections \ {r}

\* get_db's finally, in a thread of its own; then the response is sent.
Close(r) ==
  /\ at[r] = "closing"
  /\ connections' = AfterClose(r)
  /\ Goto(r, "answered")
  /\ UNCHANGED <<kind, threads, committed, client, using, outcome>>

-----------------------------------------------------------------------------
Init ==
  /\ kind = [r \in Requests |-> Null]
  /\ at = [r \in Requests |-> "away"]
  /\ threads = {} /\ connections = {} /\ committed = {}
  /\ client = Null
  /\ using = [r \in Requests |-> Null]
  /\ outcome = [r \in Requests |-> Null]

\* What a request does without giving up.
Proceed(r) ==
  \/ Resolve(r) \/ FindNoClient(r) \/ BuildClient(r)
  \/ Start(r) \/ Checkout(r) \/ Commit(r) \/ Return(r)
  \/ Validate(r) \/ Close(r)

Rest == (\A r \in Requests : at[r] = "answered") /\ UNCHANGED vars

Next ==
  \/ \E r \in Requests, k \in Kinds : Arrive(r, k)
  \/ \E r \in Requests :
       Proceed(r) \/ Unavailable(r) \/ RaiseRefusal(r) \/ Fail(r) \/ PoolTimeout(r)
  \/ Rest

ProcessSpec == Init /\ [][Next]_vars

\* Threads are scheduled, statements are answered or fail, and the pool's wait has a limit.
FairProcessSpec ==
  ProcessSpec /\ \A r \in Requests : WF_vars(Proceed(r)) /\ WF_vars(PoolTimeout(r))

-----------------------------------------------------------------------------
InFlight == {r \in Requests : at[r] \notin {"away", "answered"}}

\* A request that can do nothing but wait.
Stuck(r) ==
  \/ at[r] \in {"arrived", "resolved", "returned"} /\ ~FreeThread
  \/ at[r] = "wait" /\ ~FreeConnection

Stalled == InFlight # {} /\ \A r \in InFlight : Stuck(r)

ProcessTypeOK ==
  /\ kind \in [Requests -> Kind \cup {Null}]
  /\ at \in [Requests -> Step]
  /\ threads \subseteq Requests /\ connections \subseteq Requests
  /\ committed \subseteq Requests
  /\ client \in Requests \cup {Null}
  /\ using \in [Requests -> Requests \cup {Null}]
  /\ outcome \in [Requests -> {Null, "ok", "refused", "error"}]

\* Threads and connections are two resources that requests take in both orders: a route
\* waits for a connection in its thread, and a route that has returned waits for a thread
\* with its connection.  All requests in flight can so wait for each other, until the
\* pool's timeout, but only if there are at least as many as threads and connections
\* together; fewer requests never need the timeout (session.py:14-16).
StallNeedsCrowd == Stalled => Cardinality(InFlight) >= Threads + Connections

\* The capacities are kept, and whoever is answered holds nothing, however it ended: no
\* sequence of failures, refusals and timeouts wears the pool or the threads down
\* (session.py:27-33).
NothingLeaks ==
  /\ Cardinality(threads) <= Threads /\ Cardinality(connections) <= Connections
  /\ threads \cup connections \subseteq InFlight

Builders == {r \in Requests : at[r] = "building"}

\* Requests may race for the lazy Redis client and each build one (redis_client.py:30-38),
\* but the process settles on one: it has one as soon as any request has, and once nobody
\* is building, it is never replaced and never built again.
ClientSettles ==
  [][/\ \A r \in Requests : using'[r] # Null => client' # Null
     /\ client # Null /\ Builders = {} => client' = client /\ Builders' = {}]_vars

\* Every request that arrives is answered, also in a stall: the pool's timeout breaks it.
EveryRequestAnswered == \A r \in Requests : at[r] = "arrived" ~> at[r] = "answered"
=============================================================================
