-------------------------- MODULE ApiProcessProofs --------------------------
(***************************************************************************)
(* ApiProcess for any number of requests, threads and connections.  The    *)
(* invariant says who holds what: a request holds a thread exactly while   *)
(* its route runs (or it builds the client), and a connection at most      *)
(* between a statement and the close of its session, but never while it    *)
(* waits for one.  In a stall every thread is therefore held by a request  *)
(* that waits for a connection and every connection by one that waits for  *)
(* a thread: these are different requests.                                 *)
(***************************************************************************)
EXTENDS ApiProcess, FiniteSetTheorems, TLAPS

InThread == {r \in Requests : at[r] \in {"building", "wait", "work", "refreshed"}}
MayHoldConnection ==
  {r \in Requests : at[r] \in {"work", "refreshed", "returned", "closing"}}

HoldInv ==
  /\ threads = InThread
  /\ connections \subseteq MayHoldConnection

CapacityInv == Cardinality(threads) <= Threads /\ Cardinality(connections) <= Connections

ClientInv == \A r \in Requests : using[r] # Null => client # Null

ProcessInv == ProcessTypeOK /\ HoldInv /\ CapacityInv /\ ClientInv

-----------------------------------------------------------------------------
LEMMA ProcessInvInit == Init => ProcessInv
<1> SUFFICES ASSUME Init PROVE ProcessInv
  OBVIOUS
<1>1. ProcessTypeOK
  BY DEF Init, ProcessTypeOK, Step
<1>2. HoldInv /\ ClientInv
  BY DEF Init, HoldInv, ClientInv, InThread, MayHoldConnection
<1>3. CapacityInv
  BY FS_EmptySet, CapacityAssumption DEF Init, CapacityInv
<1> QED BY <1>1, <1>2, <1>3 DEF ProcessInv

\* Sets of requests are finite, and their cardinalities numbers.
LEMMA RequestSets ==
  ASSUME NEW S \in SUBSET Requests
  PROVE  IsFiniteSet(S) /\ Cardinality(S) \in Nat
BY RequestsAssumption, FS_Subset, FS_CardinalityType

\* Taking one more when one is free keeps a capacity, and giving one back does.
LEMMA TakeOne ==
  ASSUME NEW S \in SUBSET Requests, NEW r \in Requests, NEW n \in Nat, Cardinality(S) < n
  PROVE  Cardinality(S \cup {r}) <= n
BY RequestSets, FS_AddElement

LEMMA GiveBack ==
  ASSUME NEW S \in SUBSET Requests, NEW r \in Requests, NEW n \in Nat, Cardinality(S) <= n
  PROVE  Cardinality(S \ {r}) <= n
<1>1. Cardinality(S \ {r}) <= Cardinality(S)
  BY RequestSets, FS_Subset
<1>2. Cardinality(S \ {r}) \in Nat /\ Cardinality(S) \in Nat
  BY RequestSets
<1> QED BY <1>1, <1>2

\* Where a request goes decides what holding requires of it; the others stay.
LEMMA MovesOn ==
  ASSUME ProcessInv, NEW r \in Requests, NEW step \in Step, Goto(r, step)
  PROVE  /\ at' \in [Requests -> Step]
         /\ at'[r] = step
         /\ \A q \in Requests \ {r} : at'[q] = at[q]
         /\ InThread' = IF step \in {"building", "wait", "work", "refreshed"}
                        THEN InThread \cup {r} ELSE InThread \ {r}
         /\ MayHoldConnection' = IF step \in {"work", "refreshed", "returned", "closing"}
                                 THEN MayHoldConnection \cup {r} ELSE MayHoldConnection \ {r}
<1>1. at \in [Requests -> Step] /\ at' = [at EXCEPT ![r] = step]
  BY DEF ProcessInv, ProcessTypeOK, Goto
<1>2. /\ at' \in [Requests -> Step] /\ at'[r] = step
      /\ \A q \in Requests \ {r} : at'[q] = at[q]
  BY <1>1
<1>3. \A q \in Requests : q \in InThread' <=>
        IF q = r THEN step \in {"building", "wait", "work", "refreshed"} ELSE q \in InThread
  BY <1>2 DEF InThread
<1>4. \A q \in Requests : q \in MayHoldConnection' <=>
        IF q = r THEN step \in {"work", "refreshed", "returned", "closing"}
        ELSE q \in MayHoldConnection
  BY <1>2 DEF MayHoldConnection
<1>5. InThread \subseteq Requests /\ InThread' \subseteq Requests
      /\ MayHoldConnection \subseteq Requests /\ MayHoldConnection' \subseteq Requests
  BY DEF InThread, MayHoldConnection
<1> QED BY <1>2, <1>3, <1>4, <1>5

\* What a move keeps of holding and capacities, given what it does to the two sets.
LEMMA HoldsOn ==
  ASSUME ProcessInv, NEW r \in Requests, NEW step \in Step, Goto(r, step),
         threads' = InThread',
         \/ threads' = threads
         \/ threads' = threads \ {r}
         \/ FreeThread /\ threads' = threads \cup {r},
         \/ connections' = connections /\ (r \in connections => r \in MayHoldConnection')
         \/ connections' = connections \ {r}
         \/ FreeConnection /\ connections' = connections \cup {r} /\ r \in MayHoldConnection'
  PROVE  HoldInv' /\ CapacityInv' /\ threads' \subseteq Requests /\ connections' \subseteq Requests
<1>1. threads \in SUBSET Requests /\ connections \in SUBSET Requests
  BY DEF ProcessInv, ProcessTypeOK
<1>2. Cardinality(threads) <= Threads /\ Cardinality(connections) <= Connections
  BY DEF ProcessInv, CapacityInv
<1>3. Threads \in Nat /\ Connections \in Nat
  BY CapacityAssumption
<1>4. Cardinality(threads') <= Threads
  BY <1>1, <1>2, <1>3, TakeOne, GiveBack DEF FreeThread
<1>5. Cardinality(connections') <= Connections
  BY <1>1, <1>2, <1>3, TakeOne, GiveBack DEF FreeConnection
<1>6. connections' \subseteq MayHoldConnection'
  BY MovesOn DEF ProcessInv, HoldInv
<1>7. threads' \subseteq Requests /\ connections' \subseteq Requests
  BY <1>1
<1> QED BY <1>4, <1>5, <1>6, <1>7 DEF HoldInv, CapacityInv

LEMMA ProcessInvNext ==
  ASSUME ProcessInv, [Next]_vars
  PROVE  ProcessInv'
<1> USE DEF Step
<1>1. CASE UNCHANGED vars
  BY <1>1 DEF vars, resources, ProcessInv, ProcessTypeOK, HoldInv, InThread, MayHoldConnection,
              CapacityInv, ClientInv
<1>2. ASSUME NEW r \in Requests, NEW step \in Step, Goto(r, step),
             HoldInv', CapacityInv', threads' \subseteq Requests, connections' \subseteq Requests,
             kind' \in [Requests -> Kind \cup {Null}], committed' \subseteq Requests,
             client' \in Requests \cup {Null},
             using' \in [Requests -> Requests \cup {Null}],
             outcome' \in [Requests -> {Null, "ok", "refused", "error"}],
             ClientInv'
      PROVE  ProcessInv'
  BY <1>2, MovesOn DEF ProcessInv, ProcessTypeOK
<1>3. /\ kind \in [Requests -> Kind \cup {Null}] /\ committed \subseteq Requests
      /\ client \in Requests \cup {Null} /\ using \in [Requests -> Requests \cup {Null}]
      /\ outcome \in [Requests -> {Null, "ok", "refused", "error"}]
      /\ threads = InThread /\ connections \subseteq MayHoldConnection /\ ClientInv
  BY DEF ProcessInv, ProcessTypeOK, HoldInv
<1>4. UNCHANGED <<client, using>> => ClientInv'
  BY <1>3 DEF ClientInv
<1>5. ASSUME NEW r \in Requests, NEW k \in Kinds, Arrive(r, k)
      PROVE  ProcessInv'
  <2>1. /\ r \notin InThread /\ r \notin MayHoldConnection /\ Goto(r, "arrived")
        /\ kind' = [kind EXCEPT ![r] = k]
        /\ UNCHANGED <<threads, connections, committed, client, using, outcome>>
    BY <1>5 DEF Arrive, resources, InThread, MayHoldConnection
  <2>2. threads' = InThread'
    BY <1>3, <2>1, MovesOn
  <2>3. HoldInv' /\ CapacityInv' /\ threads' \subseteq Requests /\ connections' \subseteq Requests
    BY <1>3, <2>1, <2>2, HoldsOn
  <2>4. kind' \in [Requests -> Kind \cup {Null}]
    BY <1>3, <2>1, KindsAssumption
  <2> QED BY <1>2, <1>3, <1>4, <2>1, <2>3, <2>4
<1>6. ASSUME NEW r \in Requests, Resolve(r)
      PROVE  ProcessInv'
  <2>1. /\ r \notin InThread /\ r \notin MayHoldConnection /\ Goto(r, "resolved")
        /\ kind[r] \in UsesRedis => client # Null
        /\ using' = [using EXCEPT ![r] = IF kind[r] \in UsesRedis THEN client ELSE Null]
        /\ UNCHANGED <<kind, threads, connections, committed, client, outcome>>
    BY <1>6 DEF Resolve, resources, InThread, MayHoldConnection
  <2>2. threads' = InThread'
    <3>1. InThread' = InThread \ {r}
      BY <2>1, MovesOn
    <3> QED BY <1>3, <2>1, <3>1
  <2>3. HoldInv' /\ CapacityInv' /\ threads' \subseteq Requests /\ connections' \subseteq Requests
    BY <1>3, <2>1, <2>2, HoldsOn
  <2>4. using' \in [Requests -> Requests \cup {Null}] /\ ClientInv'
    BY <1>3, <2>1 DEF ClientInv
  <2> QED BY <1>2, <1>3, <2>1, <2>3, <2>4
<1>7. ASSUME NEW r \in Requests, FindNoClient(r)
      PROVE  ProcessInv'
  <2>1. /\ r \notin MayHoldConnection /\ Goto(r, "building")
        /\ FreeThread /\ threads' = threads \cup {r}
        /\ UNCHANGED <<kind, connections, committed, client, using, outcome>>
    BY <1>7 DEF FindNoClient, MayHoldConnection
  <2>2. threads' = InThread'
    BY <1>3, <2>1, MovesOn
  <2>3. HoldInv' /\ CapacityInv' /\ threads' \subseteq Requests /\ connections' \subseteq Requests
    BY <1>3, <2>1, <2>2, HoldsOn
  <2> QED BY <1>2, <1>3, <1>4, <2>1, <2>3
<1>8. ASSUME NEW r \in Requests, BuildClient(r)
      PROVE  ProcessInv'
  <2>1. /\ r \notin MayHoldConnection /\ Goto(r, "resolved")
        /\ client' = r /\ using' = [using EXCEPT ![r] = r]
        /\ threads' = threads \ {r}
        /\ UNCHANGED <<kind, connections, committed, outcome>>
    BY <1>8 DEF BuildClient, KeptClient, MayHoldConnection
  <2>2. threads' = InThread'
    BY <1>3, <2>1, MovesOn
  <2>3. HoldInv' /\ CapacityInv' /\ threads' \subseteq Requests /\ connections' \subseteq Requests
    BY <1>3, <2>1, <2>2, HoldsOn
  <2>4. using' \in [Requests -> Requests \cup {Null}] /\ ClientInv'
    BY <1>3, <2>1, RequestsAssumption DEF ClientInv
  <2> QED BY <1>2, <1>3, <2>1, <2>3, <2>4
<1>9. ASSUME NEW r \in Requests, Start(r)
      PROVE  ProcessInv'
  <2>1. PICK step \in {"wait", "work"} : Goto(r, step)
    BY <1>9 DEF Start
  <2>2. /\ r \notin MayHoldConnection
        /\ FreeThread /\ threads' = threads \cup {r}
        /\ UNCHANGED <<kind, connections, committed, client, using, outcome>>
    BY <1>9 DEF Start, MayHoldConnection
  <2>3. threads' = InThread'
    BY <1>3, <2>1, <2>2, MovesOn
  <2>4. HoldInv' /\ CapacityInv' /\ threads' \subseteq Requests /\ connections' \subseteq Requests
    BY <1>3, <2>1, <2>2, <2>3, HoldsOn
  <2> QED BY <1>2, <1>3, <1>4, <2>1, <2>2, <2>4
<1>10. ASSUME NEW r \in Requests, Checkout(r)
      PROVE  ProcessInv'
  <2>1. PICK step \in {"refreshed", "work"} : Goto(r, step)
    BY <1>10 DEF Checkout
  <2>2. /\ r \in InThread
        /\ FreeConnection /\ connections' = connections \cup {r}
        /\ UNCHANGED <<kind, threads, committed, client, using, outcome>>
    BY <1>10 DEF Checkout, InThread
  <2>3. threads' = InThread' /\ r \in MayHoldConnection'
    BY <1>3, <2>1, <2>2, MovesOn
  <2>4. HoldInv' /\ CapacityInv' /\ threads' \subseteq Requests /\ connections' \subseteq Requests
    BY <1>3, <2>1, <2>2, <2>3, HoldsOn
  <2> QED BY <1>2, <1>3, <1>4, <2>1, <2>2, <2>4
<1>11. ASSUME NEW r \in Requests, Commit(r)
      PROVE  ProcessInv'
  <2>1. /\ r \in InThread /\ Goto(r, "wait")
        /\ committed' = committed \cup {r}
        /\ connections' = connections \ {r}
        /\ UNCHANGED <<kind, threads, client, using, outcome>>
    BY <1>11 DEF Commit, AfterCommit, InThread
  <2>2. threads' = InThread'
    <3>1. InThread' = InThread \cup {r}
      BY <2>1, MovesOn
    <3> QED BY <1>3, <2>1, <3>1
  <2>3. HoldInv' /\ CapacityInv' /\ threads' \subseteq Requests /\ connections' \subseteq Requests
    BY <1>3, <2>1, <2>2, HoldsOn
  <2> QED BY <1>2, <1>3, <1>4, <2>1, <2>3
<1>12. ASSUME NEW r \in Requests, Return(r)
      PROVE  ProcessInv'
  <2>1. /\ Goto(r, "returned") /\ threads' = threads \ {r}
        /\ UNCHANGED <<kind, connections, committed, client, using, outcome>>
    BY <1>12 DEF Return
  <2>2. threads' = InThread' /\ r \in MayHoldConnection'
    BY <1>3, <2>1, MovesOn
  <2>3. HoldInv' /\ CapacityInv' /\ threads' \subseteq Requests /\ connections' \subseteq Requests
    BY <1>3, <2>1, <2>2, HoldsOn
  <2> QED BY <1>2, <1>3, <1>4, <2>1, <2>3
<1>13. ASSUME NEW r \in Requests, NEW how \in {"refused", "error"}, Ends(r, how),
              connections' = connections \/ connections' = connections \ {r}
      PROVE  ProcessInv'
  <2>1. /\ Goto(r, "closing") /\ threads' = threads \ {r}
        /\ outcome' = [outcome EXCEPT ![r] = how]
        /\ UNCHANGED <<kind, committed, client, using>>
    BY <1>13 DEF Ends
  <2>2. threads' = InThread' /\ r \in MayHoldConnection'
    BY <1>3, <2>1, MovesOn
  <2>3. HoldInv' /\ CapacityInv' /\ threads' \subseteq Requests /\ connections' \subseteq Requests
    BY <1>3, <1>13, <2>1, <2>2, HoldsOn
  <2>4. outcome' \in [Requests -> {Null, "ok", "refused", "error"}]
    BY <1>3, <2>1
  <2> QED BY <1>2, <1>3, <1>4, <2>1, <2>3, <2>4
<1>14. ASSUME NEW r \in Requests, Unavailable(r) \/ RaiseRefusal(r) \/ Fail(r) \/ PoolTimeout(r)
      PROVE  ProcessInv'
  BY <1>13, <1>14 DEF Unavailable, RaiseRefusal, Fail, PoolTimeout
<1>15. ASSUME NEW r \in Requests, Validate(r)
      PROVE  ProcessInv'
  <2>1. /\ r \notin InThread /\ Goto(r, "closing")
        /\ \E how \in {"ok", "error"} : outcome' = [outcome EXCEPT ![r] = how]
        /\ UNCHANGED <<kind, threads, connections, committed, client, using>>
    BY <1>15 DEF Validate, resources, InThread
  <2>2. threads' = InThread' /\ r \in MayHoldConnection'
    <3>1. InThread' = InThread \ {r} /\ r \in MayHoldConnection'
      BY <2>1, MovesOn
    <3> QED BY <1>3, <2>1, <3>1
  <2>3. HoldInv' /\ CapacityInv' /\ threads' \subseteq Requests /\ connections' \subseteq Requests
    BY <1>3, <2>1, <2>2, HoldsOn
  <2>4. outcome' \in [Requests -> {Null, "ok", "refused", "error"}]
    BY <1>3, <2>1
  <2> QED BY <1>2, <1>3, <1>4, <2>1, <2>3, <2>4
<1>16. ASSUME NEW r \in Requests, Close(r)
      PROVE  ProcessInv'
  <2>1. /\ r \notin InThread /\ Goto(r, "answered")
        /\ connections' = connections \ {r}
        /\ UNCHANGED <<kind, threads, committed, client, using, outcome>>
    BY <1>16 DEF Close, AfterClose, InThread
  <2>2. threads' = InThread'
    <3>1. InThread' = InThread \ {r}
      BY <2>1, MovesOn
    <3> QED BY <1>3, <2>1, <3>1
  <2>3. HoldInv' /\ CapacityInv' /\ threads' \subseteq Requests /\ connections' \subseteq Requests
    BY <1>3, <2>1, <2>2, HoldsOn
  <2> QED BY <1>2, <1>3, <1>4, <2>1, <2>3
<1> QED
  BY <1>1, <1>5, <1>6, <1>7, <1>8, <1>9, <1>10, <1>11, <1>12, <1>14, <1>15, <1>16
     DEF Next, Proceed, Rest

\* The strengthening holds in every reachable state.
THEOREM ProcessInvariant == ProcessSpec => []ProcessInv
BY ProcessInvInit, ProcessInvNext, PTL DEF ProcessSpec

\* Every variable keeps its type.
THEOREM ProcessTypeCorrect == ProcessSpec => []ProcessTypeOK
<1>1. ProcessInv => ProcessTypeOK
  BY DEF ProcessInv
<1> QED BY <1>1, ProcessInvariant, PTL

\* get_db (db/session.py:27-33) and the thread limiter get back what they gave.
THEOREM NothingEverLeaks == ProcessSpec => []NothingLeaks
<1>1. ProcessInv => NothingLeaks
  BY DEF ProcessInv, HoldInv, CapacityInv, InThread, MayHoldConnection, NothingLeaks, InFlight
<1> QED BY <1>1, ProcessInvariant, PTL

\* The pool (db/session.py:14-16) and the threads are not waited for in a circle by fewer
\* requests than there are of both.
THEOREM StallsNeedCrowds == ProcessSpec => []StallNeedsCrowd
<1>1. ProcessInv => StallNeedsCrowd
  <2> SUFFICES ASSUME ProcessInv, Stalled
               PROVE  Cardinality(InFlight) >= Threads + Connections
    BY DEF StallNeedsCrowd
  <2>1. \A r \in Requests : r \in InFlight => Stuck(r)
    BY DEF Stalled
  <2>2. threads \subseteq {r \in Requests : at[r] = "wait"}
    BY <2>1 DEF ProcessInv, HoldInv, InThread, InFlight, Stuck
  <2>3. connections \subseteq {r \in Requests : at[r] = "returned"}
    BY <2>1 DEF ProcessInv, HoldInv, MayHoldConnection, InFlight, Stuck, ProcessTypeOK
  <2>4. threads \in SUBSET Requests /\ connections \in SUBSET Requests
    BY DEF ProcessInv, ProcessTypeOK
  <2>5. /\ Cardinality(threads) \in Nat /\ Cardinality(connections) \in Nat
        /\ IsFiniteSet(threads) /\ IsFiniteSet(connections)
        /\ Threads \in Nat \ {0} /\ Connections \in Nat \ {0}
    BY <2>4, RequestSets, CapacityAssumption
  <2>6. threads # {} => ~FreeConnection
    BY <2>1, <2>2 DEF InFlight, Stuck
  <2>7. connections # {} => ~FreeThread
    BY <2>1, <2>3 DEF InFlight, Stuck
  <2>8. ~FreeThread => threads # {}
    BY <2>5, FS_EmptySet DEF FreeThread
  <2>9. ~FreeConnection => connections # {}
    BY <2>5, FS_EmptySet DEF FreeConnection
  <2>10. ~FreeThread \/ ~FreeConnection
    BY DEF Stalled, Stuck
  <2>11. Cardinality(threads) >= Threads /\ Cardinality(connections) >= Connections
    BY <2>5, <2>6, <2>7, <2>8, <2>9, <2>10 DEF FreeThread, FreeConnection
  <2>12. threads \cap connections = {}
    BY <2>2, <2>3
  <2>13. Cardinality(threads \cup connections) = Cardinality(threads) + Cardinality(connections)
    <3>1. Cardinality(threads \cup connections) =
            Cardinality(threads) + Cardinality(connections) - Cardinality(threads \cap connections)
      BY <2>5, FS_Union
    <3>2. Cardinality(threads \cap connections) = 0
      BY <2>12, FS_EmptySet
    <3> QED BY <2>5, <3>1, <3>2
  <2>14. threads \cup connections \in SUBSET InFlight /\ InFlight \in SUBSET Requests
    BY <2>2, <2>3 DEF InFlight
  <2>15. /\ Cardinality(threads \cup connections) <= Cardinality(InFlight)
         /\ Cardinality(InFlight) \in Nat
    BY <2>14, RequestSets, FS_Subset
  <2> QED BY <2>5, <2>11, <2>13, <2>15
<1> QED BY <1>1, ProcessInvariant, PTL

\* get_redis (db/redis_client.py:30-38) settles on one client.
THEOREM ClientAlwaysSettles == ProcessSpec => ClientSettles
<1> DEFINE Settles == /\ \A r \in Requests : using'[r] # Null => client' # Null
                      /\ client # Null /\ Builders = {} => client' = client /\ Builders' = {}
<1>1. ProcessInv /\ ProcessInv' /\ [Next]_vars => [Settles]_vars
  <2> SUFFICES ASSUME ProcessInv, ProcessInv', Next
               PROVE  Settles
    BY DEF vars
  <2>1. \A r \in Requests : using'[r] # Null => client' # Null
    BY DEF ProcessInv, ClientInv
  <2>2. ASSUME client # Null, Builders = {}
        PROVE  client' = client /\ Builders' = {}
    <3>1. at \in [Requests -> Step]
      BY DEF ProcessInv, ProcessTypeOK
    <3>2. \A r \in Requests : at[r] # "building"
      BY <2>2 DEF Builders
    <3>3. ASSUME NEW r \in Requests, NEW step \in Step \ {"building"}, Goto(r, step)
          PROVE  Builders' = {}
      BY <3>1, <3>2, <3>3 DEF Goto, Builders
    <3>4. ASSUME NEW r \in Requests, NEW k \in Kinds, Arrive(r, k)
          PROVE  client' = client /\ Builders' = {}
      BY <3>3, <3>4 DEF Arrive, Step
    <3>5. ASSUME NEW r \in Requests, Proceed(r)
          PROVE  client' = client /\ Builders' = {}
      <4>1. ~FindNoClient(r) /\ ~BuildClient(r)
        BY <2>2, <3>2 DEF FindNoClient, BuildClient
      <4>2. CASE Resolve(r)
        BY <3>3, <4>2 DEF Resolve, Step
      <4>3. CASE Start(r)
        BY <3>3, <4>3 DEF Start, Step
      <4>4. CASE Checkout(r)
        BY <3>3, <4>4 DEF Checkout, Step
      <4>5. CASE Commit(r) \/ Return(r)
        BY <3>3, <4>5 DEF Commit, Return, Step
      <4>6. CASE Validate(r) \/ Close(r)
        BY <3>3, <4>6 DEF Validate, Close, Step
      <4> QED BY <3>5, <4>1, <4>2, <4>3, <4>4, <4>5, <4>6 DEF Proceed
    <3>6. ASSUME NEW r \in Requests, Unavailable(r) \/ RaiseRefusal(r) \/ Fail(r) \/ PoolTimeout(r)
          PROVE  client' = client /\ Builders' = {}
      BY <3>3, <3>6 DEF Unavailable, RaiseRefusal, Fail, PoolTimeout, Ends, Step
    <3>7. CASE Rest
      BY <2>2, <3>7 DEF Rest, vars, Builders
    <3> QED BY <3>4, <3>5, <3>6, <3>7 DEF Next
  <2> QED BY <2>1, <2>2
<1> QED BY <1>1, ProcessInvariant, PTL DEF ProcessSpec, ClientSettles
=============================================================================
