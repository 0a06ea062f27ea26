------------------------- MODULE AsyncScoringProofs -------------------------
(***************************************************************************)
(* Proofs about AsyncScoring, for any sets of API threads, workers, jobs   *)
(* and payloads.  The scoring part of every step is a step of              *)
(* FraudScoring, so what FraudScoringProofs shows carries over.  What is   *)
(* added is AsyncInv: the list holds exactly the queued jobs in the order  *)
(* of their LPUSHes (QueueInv), each popped job is in one worker's hands   *)
(* (HeldInv), a worker's call is the call of its job (WorkerInv), and what *)
(* was logged of a job is stored.                                          *)
(***************************************************************************)
EXTENDS AsyncScoring, FraudScoringProofs

QueueInv ==
  /\ \A i, k \in 1..Len(queue) : i < k => queue[i] < queue[k]
  /\ \A j \in JobIds : fate[j] = "queued" <=> \E i \in 1..Len(queue) : queue[i] = j
  /\ \A j \in JobIds : fate[j] = "none" <=> j > pushed
  /\ \A j \in JobIds : fate[j] # "none" => jobs[j] # Null
  /\ PoppedInOrder

HeldInv ==
  /\ \A j \in JobIds : fate[j] = "held" <=> \E w \in Workers : held[w] = j
  /\ \A v, w \in Workers : held[v] = held[w] /\ held[v] # Null => v = w

WorkerInv ==
  /\ NoOrphanCall
  /\ \A w \in Workers : wpc[w] = "scoring" => call[w].tx = jobs[held[w]].tx

AsyncInv ==
  /\ AsyncTypeOK
  /\ IndInv
  /\ QueueInv
  /\ HeldInv
  /\ WorkerInv
  /\ LoggedOutcomeIsStored

-----------------------------------------------------------------------------
(* Every step is a step of FraudScoring *)

LEMMA ProcsOf == Workers \subseteq Procs /\ ApiProcs \subseteq Procs
BY ProcsAssumption

\* What a worker has in its hands is a job that was pushed.
LEMMA HeldJob ==
  ASSUME AsyncInv, NEW w \in Workers, wpc[w] \in {"sent", "popped", "scoring"}
  PROVE  /\ held[w] \in JobIds /\ held[w] # Null
         /\ fate[held[w]] = "held"
         /\ jobs[held[w]] \in Job
         /\ jobs[held[w]].tx \in TxIds /\ jobs[held[w]].payload \in Payloads
<1>1. held[w] # Null
  BY DEF AsyncInv, WorkerInv, NoOrphanCall
<1>2. held[w] \in JobIds
  BY <1>1 DEF AsyncInv, AsyncTypeOK
<1>3. fate[held[w]] = "held"
  BY <1>2 DEF AsyncInv, HeldInv
<1>4. jobs[held[w]] \in Job
  BY <1>2, <1>3 DEF AsyncInv, QueueInv, AsyncTypeOK
<1> QED BY <1>1, <1>2, <1>3, <1>4 DEF Job

LEMMA ScoringStep ==
  ASSUME AsyncInv, [AsyncNext]_allVars
  PROVE  [Next]_vars
<1>1. ASSUME NEW w \in Workers, WorkerStep(w)
      PROVE  [Next]_vars
  <2>1. CASE StartScoring(w) \/ JobMismatch(w)
    <3>1. wpc[w] = "popped"
      BY <2>1 DEF StartScoring, JobMismatch
    <3>2. Begin(w, jobs[held[w]].tx, jobs[held[w]].payload)
      BY <2>1 DEF StartScoring, JobMismatch, Begin
    <3> QED BY <3>1, <3>2, HeldJob, ProcsOf DEF Next
  <2>2. CASE ScoreStep(w) \/ JobScored(w) \/ JobRefused(w) \/ JobFailed(w)
    <3>1. Proceed(w) \/ Fail(w)
      BY <2>2 DEF ScoreStep, Advance, JobScored, JobRefused, JobFailed, Proceed
    <3> QED BY <3>1, ProcsOf DEF Next
  <2>3. CASE \/ StartPop(w) \/ Exit(w) \/ Pop(w) \/ Receive(w) \/ PopTimeout(w)
             \/ IdleTimeout(w) \/ ReplyMissed(w) \/ DropInvalid(w)
    BY <2>3 DEF StartPop, Exit, Pop, Receive, PopTimeout, IdleTimeout, ReplyMissed, DropInvalid
  <2> QED BY <1>1, <2>1, <2>2, <2>3 DEF WorkerStep
<1>2. ASSUME NEW w \in Workers, Sigterm(w) \/ Crash(w) \/ Restart(w)
      PROVE  [Next]_vars
  BY <1>2, ProcsOf DEF Sigterm, Crash, AbortCall, Restart, Next
<1>3. ASSUME NEW p \in ApiProcs, ApiStep(p) \/ ApiFail(p)
      PROVE  [Next]_vars
  BY <1>3, ProcsOf DEF ApiStep, ApiFail, Next
<1>4. ASSUME NEW p \in ApiProcs, NEW t \in TxIds, NEW pl \in Payloads, ApiBegin(p, t, pl)
      PROVE  [Next]_vars
  BY <1>4, ProcsOf DEF ApiBegin, Next
<1>5. ASSUME NEW job \in Job, Enqueue(job)
      PROVE  [Next]_vars
  BY <1>5 DEF Enqueue
<1>6. Background \/ UNCHANGED allVars => [Next]_vars
  BY DEF Background, Next, allVars
<1> QED BY <1>1, <1>2, <1>3, <1>4, <1>5, <1>6 DEF AsyncNext

-----------------------------------------------------------------------------
(* What a step does to the list and to the jobs *)

Ends == {"scored", "refused", "failed", "dropped", "lost"}

\* w lets go of its job, whose fate becomes f; what f says of the call is true.
JobDone(w, f) ==
  /\ wpc[w] \in {"sent", "popped", "scoring"}
  /\ f \in Ends
  /\ fate' = [fate EXCEPT ![held[w]] = f]
  /\ held' = [held EXCEPT ![w] = Null]
  /\ UNCHANGED <<jobs, queue, pushed>>
  /\ f = "scored" => wpc[w] = "scoring" /\ (CacheHit(w) \/ CachePut(w))
  /\ f = "refused" => \/ wpc[w] = "scoring" /\ RefuseDuplicate(w)
                      \/ RefuseMismatch(w, jobs[held[w]].tx, jobs[held[w]].payload)
  /\ f = "lost" => DeathThatLoses(w)

JobsSame == UNCHANGED <<jobs, queue, fate, pushed, held>>

LEMMA QueueMoves ==
  ASSUME AsyncInv, [AsyncNext]_allVars
  PROVE  \/ JobsSame
         \/ \E job \in Job : Enqueue(job)
         \/ \E w \in Workers : Pop(w)
         \/ \E w \in Workers, f \in Ends : JobDone(w, f)
<1>1. ASSUME NEW w \in Workers, WorkerStep(w)
      PROVE  JobsSame \/ Pop(w) \/ \E f \in Ends : JobDone(w, f)
  <2>1. CASE DropInvalid(w)
    <3>1. JobDone(w, "dropped")
      BY <2>1 DEF DropInvalid, Settle, SetFate, JobDone, Ends
    <3> QED BY <3>1 DEF Ends
  <2>2. CASE JobMismatch(w)
    <3>1. JobDone(w, "refused")
      BY <2>2 DEF JobMismatch, Settle, SetFate, JobDone, Ends
    <3> QED BY <3>1 DEF Ends
  <2>3. CASE JobScored(w)
    <3>1. JobDone(w, "scored")
      BY <2>3 DEF JobScored, Settle, SetFate, JobDone, Ends
    <3> QED BY <3>1 DEF Ends
  <2>4. CASE JobRefused(w)
    <3>1. JobDone(w, "refused")
      BY <2>4 DEF JobRefused, Settle, SetFate, JobDone, Ends
    <3> QED BY <3>1 DEF Ends
  <2>5. CASE JobFailed(w)
    <3>1. JobDone(w, "failed")
      BY <2>5 DEF JobFailed, Settle, SetFate, JobDone, Ends
    <3> QED BY <3>1 DEF Ends
  <2>6. CASE ReplyMissed(w)
    <3>1. DeathThatLoses(w)
      BY <2>6 DEF ReplyMissed, DeathThatLoses, WGoto, AsyncInv, AsyncTypeOK
    <3>2. JobDone(w, "lost")
      BY <2>6, <3>1 DEF ReplyMissed, SetFate, JobDone, Ends
    <3> QED BY <3>2 DEF Ends
  <2>7. CASE \/ StartPop(w) \/ Exit(w) \/ Receive(w) \/ PopTimeout(w) \/ IdleTimeout(w)
             \/ StartScoring(w) \/ ScoreStep(w)
    BY <2>7 DEF StartPop, Exit, Receive, PopTimeout, IdleTimeout, StartScoring, ScoreStep,
                JobsSame, queueVars, asyncVars
  <2> QED BY <1>1, <2>1, <2>2, <2>3, <2>4, <2>5, <2>6, <2>7 DEF WorkerStep
<1>2. ASSUME NEW w \in Workers, Crash(w)
      PROVE  JobsSame \/ JobDone(w, "lost")
  <2>1. CASE held[w] = Null
    BY <1>2, <2>1 DEF Crash, JobsSame, AsyncInv, AsyncTypeOK
  <2>2. CASE held[w] # Null
    <3>1. wpc[w] \in {"sent", "popped", "scoring"}
      BY <2>2 DEF AsyncInv, WorkerInv, NoOrphanCall
    <3>2. DeathThatLoses(w)
      BY <1>2, BoundsAssumption DEF Crash, WGoto, DeathThatLoses, AsyncInv, AsyncTypeOK
    <3> QED BY <1>2, <2>2, <3>1, <3>2 DEF Crash, SetFate, JobDone, Ends
  <2> QED BY <2>1, <2>2
<1>3. ASSUME NEW w \in Workers, Sigterm(w) \/ Restart(w)
      PROVE  JobsSame
  BY <1>3 DEF Sigterm, Restart, JobsSame, queueVars
<1>4. ASSUME NEW p \in ApiProcs, ApiStep(p) \/ ApiFail(p)
      PROVE  JobsSame
  BY <1>4 DEF ApiStep, ApiFail, JobsSame, asyncVars
<1>5. ASSUME NEW p \in ApiProcs, NEW t \in TxIds, NEW pl \in Payloads, ApiBegin(p, t, pl)
      PROVE  JobsSame
  BY <1>5 DEF ApiBegin, JobsSame, queueVars, workerVars
<1>6. Background \/ UNCHANGED allVars => JobsSame
  BY DEF Background, JobsSame, allVars, asyncVars
<1> QED BY <1>1, <1>2, <1>3, <1>4, <1>5, <1>6 DEF AsyncNext, Ends

-----------------------------------------------------------------------------
(* The list, the hands of the workers and the log *)

LEMMA Bounds ==
  ASSUME AsyncTypeOK
  PROVE  /\ pushed \in Nat /\ MaxJobs \in Nat /\ pushed <= MaxJobs /\ Len(queue) \in Nat
         /\ \A i \in 1..Len(queue) : queue[i] \in JobIds
         /\ \A j \in JobIds : j \in Nat
BY BoundsAssumption DEF AsyncTypeOK, JobIds

LEMMA PushFacts ==
  ASSUME AsyncTypeOK, NEW job \in Job, Enqueue(job)
  PROVE  /\ pushed + 1 \in JobIds /\ pushed' = pushed + 1
         /\ Len(queue') = Len(queue) + 1
         /\ \A i \in 1..Len(queue) : queue'[i] = queue[i]
         /\ queue'[Len(queue) + 1] = pushed + 1
         /\ queue' \in Seq(JobIds)
         /\ \A j \in JobIds \ {pushed + 1} : fate'[j] = fate[j] /\ jobs'[j] = jobs[j]
         /\ fate'[pushed + 1] = "queued" /\ jobs'[pushed + 1] = job
         /\ UNCHANGED <<vars, wpc, held, stopping, apiCalls, faults>>
<1>1. pushed + 1 \in JobIds /\ pushed' = pushed + 1 /\ queue' = Append(queue, pushed + 1)
  BY Bounds DEF Enqueue, JobIds, Pushed
<1>2. queue \in Seq(JobIds)
  BY DEF AsyncTypeOK
<1>3. fate' = [fate EXCEPT ![pushed + 1] = "queued"] /\ jobs' = [jobs EXCEPT ![pushed + 1] = job]
      /\ UNCHANGED <<vars, wpc, held, stopping, apiCalls, faults>>
  BY DEF Enqueue, SetFate, workerVars
<1> QED BY <1>1, <1>2, <1>3 DEF AsyncTypeOK

LEMMA PopFacts ==
  ASSUME AsyncTypeOK, NEW w \in Workers, Pop(w)
  PROVE  /\ 1 \in 1..Len(queue) /\ queue[1] \in JobIds
         /\ held' = [held EXCEPT ![w] = queue[1]]
         /\ fate' = [fate EXCEPT ![queue[1]] = "held"]
         /\ Len(queue') = Len(queue) - 1
         /\ \A i \in 1..(Len(queue) - 1) : queue'[i] = queue[i + 1]
         /\ queue' \in Seq(JobIds)
         /\ wpc[w] = "popping" /\ wpc' = [wpc EXCEPT ![w] = "sent"]
         /\ UNCHANGED <<vars, jobs, pushed, stopping, apiCalls, faults>>
<1>1. queue \in Seq(JobIds) /\ queue # <<>>
  BY DEF AsyncTypeOK, Pop
<1>2. 1 \in 1..Len(queue) /\ queue[1] \in JobIds /\ NextJob = queue[1] /\ Len(queue) \in Nat
  BY <1>1 DEF NextJob
<1>3. queue' = Tail(queue)
  BY DEF Pop
<1>4. /\ Len(queue') = Len(queue) - 1 /\ queue' \in Seq(JobIds)
      /\ \A i \in 1..(Len(queue) - 1) : queue'[i] = queue[i + 1]
  BY <1>1, <1>2, <1>3
<1> QED BY <1>2, <1>4 DEF Pop, SetFate, WGoto

LEMMA DoneFacts ==
  ASSUME AsyncInv, NEW w \in Workers, NEW f \in Ends, JobDone(w, f)
  PROVE  /\ held[w] \in JobIds /\ fate[held[w]] = "held"
         /\ fate'[held[w]] = f
         /\ \A j \in JobIds \ {held[w]} : fate'[j] = fate[j]
         /\ held'[w] = Null
         /\ \A v \in Workers \ {w} : held'[v] = held[v]
BY HeldJob DEF JobDone, AsyncInv, AsyncTypeOK

\* The list is in the order of the LPUSHes and holds exactly the queued jobs.
LEMMA QueueStep ==
  ASSUME AsyncInv, [AsyncNext]_allVars
  PROVE  QueueInv'
<1> USE DEF AsyncInv
<1>b. /\ pushed \in Nat /\ Len(queue) \in Nat /\ \A i \in 1..Len(queue) : queue[i] \in JobIds
      /\ \A j \in JobIds : j \in Nat
  BY Bounds
<1>1. CASE JobsSame
  BY <1>1 DEF JobsSame, QueueInv, PoppedInOrder
<1>2. ASSUME NEW job \in Job, Enqueue(job)
      PROVE  QueueInv'
  <2>1. \A j \in JobIds : fate[j] = "none" <=> j > pushed
    BY DEF QueueInv
  <2>2. \A i \in 1..Len(queue) : queue[i] <= pushed
    BY <2>1, <1>b DEF QueueInv
  <2>3. \A i, k \in 1..Len(queue') : i < k => queue'[i] < queue'[k]
    <3> SUFFICES ASSUME NEW i \in 1..Len(queue'), NEW k \in 1..Len(queue'), i < k
                 PROVE  queue'[i] < queue'[k]
      OBVIOUS
    <3>1. i \in 1..Len(queue) /\ (k \in 1..Len(queue) \/ k = Len(queue) + 1)
      BY <1>2, <1>b, PushFacts
    <3>2. queue'[i] = queue[i] /\ queue[i] \in Nat
      BY <3>1, <1>2, <1>b, PushFacts
    <3>3. CASE k \in 1..Len(queue)
      BY <3>1, <3>2, <3>3, <1>2, PushFacts DEF QueueInv
    <3>4. CASE k = Len(queue) + 1
      <4>1. queue'[k] = pushed + 1
        BY <3>4, <1>2, PushFacts
      <4>2. queue[i] <= pushed
        BY <3>1, <3>4, <2>2, <1>b
      <4> QED BY <4>1, <4>2, <3>2, <1>b
    <3> QED BY <3>1, <3>3, <3>4
  <2>4. ASSUME NEW j \in JobIds
        PROVE  fate'[j] = "queued" <=> \E i \in 1..Len(queue') : queue'[i] = j
    <3>1. CASE j = pushed + 1
      <4>1. fate'[j] = "queued" /\ queue'[Len(queue) + 1] = j /\ Len(queue) + 1 \in 1..Len(queue')
        BY <3>1, <1>2, <1>b, PushFacts
      <4> QED BY <4>1
    <3>2. CASE j # pushed + 1
      <4>1. fate'[j] = fate[j]
        BY <3>2, <1>2, PushFacts
      <4>2. ASSUME NEW i \in 1..Len(queue), queue[i] = j
            PROVE  i \in 1..Len(queue') /\ queue'[i] = j
        BY <4>2, <1>2, <1>b, PushFacts
      <4>3. ASSUME NEW i \in 1..Len(queue'), queue'[i] = j
            PROVE  i \in 1..Len(queue) /\ queue[i] = j
        BY <4>3, <3>2, <1>2, <1>b, PushFacts
      <4> QED BY <4>1, <4>2, <4>3 DEF QueueInv
    <3> QED BY <3>1, <3>2
  <2>5. ASSUME NEW j \in JobIds
        PROVE  /\ fate'[j] = "none" <=> j > pushed'
               /\ fate'[j] # "none" => jobs'[j] # Null
    <3>1. CASE j = pushed + 1
      BY <3>1, <1>2, <1>b, PushFacts, JobNullAssumption
    <3>2. CASE j # pushed + 1
      BY <3>2, <1>2, <1>b, <2>1, PushFacts DEF QueueInv
    <3> QED BY <3>1, <3>2
  <2>6. PoppedInOrder'
    <3> SUFFICES ASSUME NEW i \in JobIds, NEW j \in JobIds, i < j, fate'[i] = "queued"
                 PROVE  fate'[j] \in {"none", "queued"}
      BY DEF PoppedInOrder
    <3>1. CASE j = pushed + 1
      BY <3>1, <1>2, PushFacts
    <3>2. CASE j # pushed + 1 /\ i = pushed + 1
      BY <3>2, <1>2, <1>b, <2>1, PushFacts
    <3>3. CASE j # pushed + 1 /\ i # pushed + 1
      BY <3>3, <1>2, PushFacts DEF QueueInv, PoppedInOrder
    <3> QED BY <3>1, <3>2, <3>3
  <2> QED BY <2>3, <2>4, <2>5, <2>6 DEF QueueInv
<1>3. ASSUME NEW w \in Workers, Pop(w)
      PROVE  QueueInv'
  <2>j. PICK first \in JobIds : first = queue[1]
    BY <1>3, PopFacts
  <2>1. /\ fate[first] = "queued" /\ fate'[first] = "held"
        /\ \A j \in JobIds \ {first} : fate'[j] = fate[j]
        /\ jobs' = jobs /\ pushed' = pushed
    BY <1>3, <2>j, PopFacts DEF QueueInv, AsyncTypeOK
  <2>2. \A i \in 1..Len(queue') : i + 1 \in 1..Len(queue) /\ queue'[i] = queue[i + 1]
    BY <1>3, <1>b, PopFacts
  <2>3. \A i, k \in 1..Len(queue') : i < k => queue'[i] < queue'[k]
    BY <2>2 DEF QueueInv
  <2>4. \A i \in 1..Len(queue) : i # 1 => first < queue[i]
    BY <2>j, <1>3, PopFacts DEF QueueInv
  <2>5. ASSUME NEW j \in JobIds
        PROVE  fate'[j] = "queued" <=> \E i \in 1..Len(queue') : queue'[i] = j
    <3>1. CASE j = first
      <4>1. \A i \in 1..Len(queue') : first < queue'[i]
        BY <2>2, <2>4
      <4> QED BY <3>1, <4>1, <2>1, <1>b
    <3>2. CASE j # first
      <4>1. fate'[j] = fate[j]
        BY <3>2, <2>1
      <4>2. ASSUME NEW i \in 1..Len(queue), queue[i] = j
            PROVE  i - 1 \in 1..Len(queue') /\ queue'[i - 1] = j
        BY <4>2, <3>2, <2>j, <1>3, <1>b, PopFacts
      <4>3. ASSUME NEW i \in 1..Len(queue'), queue'[i] = j
            PROVE  i + 1 \in 1..Len(queue) /\ queue[i + 1] = j
        BY <4>3, <2>2
      <4> QED BY <4>1, <4>2, <4>3 DEF QueueInv
    <3> QED BY <3>1, <3>2
  <2>6. \A j \in JobIds : /\ fate'[j] = "none" <=> j > pushed'
                          /\ fate'[j] # "none" => jobs'[j] # Null
    BY <2>1 DEF QueueInv
  <2>7. PoppedInOrder'
    <3> SUFFICES ASSUME NEW i \in JobIds, NEW j \in JobIds, i < j, fate'[i] = "queued"
                 PROVE  fate'[j] \in {"none", "queued"}
      BY DEF PoppedInOrder
    <3>1. i # first /\ fate[i] = "queued"
      BY <2>1
    <3>2. first < i
      BY <3>1, <2>4, <2>j DEF QueueInv
    <3>3. j # first
      BY <3>2, <1>b
    <3> QED BY <3>1, <3>3, <2>1 DEF QueueInv, PoppedInOrder
  <2> QED BY <2>3, <2>5, <2>6, <2>7 DEF QueueInv
<1>4. ASSUME NEW w \in Workers, NEW f \in Ends, JobDone(w, f)
      PROVE  QueueInv'
  <2>1. /\ held[w] \in JobIds /\ fate[held[w]] = "held" /\ fate'[held[w]] \in Ends
        /\ \A j \in JobIds \ {held[w]} : fate'[j] = fate[j]
        /\ UNCHANGED <<jobs, queue, pushed>>
    BY <1>4, DoneFacts DEF JobDone
  <2>2. PoppedInOrder'
    BY <2>1 DEF QueueInv, PoppedInOrder, Ends
  <2> QED BY <2>1, <2>2 DEF QueueInv, Ends
<1> QED BY <1>1, <1>2, <1>3, <1>4, QueueMoves

\* A popped job is in one worker's hands.
LEMMA HeldStep ==
  ASSUME AsyncInv, [AsyncNext]_allVars
  PROVE  HeldInv'
<1> USE DEF AsyncInv
<1>1. CASE JobsSame
  BY <1>1 DEF JobsSame, HeldInv
<1>2. ASSUME NEW job \in Job, Enqueue(job)
      PROVE  HeldInv'
  <2>1. fate[pushed + 1] = "none" /\ pushed + 1 \in JobIds
    BY <1>2, Bounds, PushFacts DEF QueueInv
  <2>2. held' = held /\ fate'[pushed + 1] = "queued"
        /\ \A j \in JobIds \ {pushed + 1} : fate'[j] = fate[j]
    BY <1>2, PushFacts
  <2> QED BY <2>1, <2>2 DEF HeldInv
<1>3. ASSUME NEW w \in Workers, Pop(w)
      PROVE  HeldInv'
  <2>j. PICK first \in JobIds : first = queue[1]
    BY <1>3, PopFacts
  <2>1. fate[first] = "queued"
    BY <1>3, <2>j, PopFacts DEF QueueInv
  <2>2. \A v \in Workers : held[v] # first
    BY <2>1 DEF HeldInv
  <2>3. held[w] = Null
    BY <1>3, PopFacts DEF WorkerInv, NoOrphanCall
  <2>4. /\ held'[w] = first /\ \A v \in Workers \ {w} : held'[v] = held[v]
        /\ fate'[first] = "held" /\ \A j \in JobIds \ {first} : fate'[j] = fate[j]
    BY <1>3, <2>j, PopFacts DEF AsyncTypeOK
  <2> QED BY <2>2, <2>3, <2>4, JobNullAssumption DEF HeldInv
<1>4. ASSUME NEW w \in Workers, NEW f \in Ends, JobDone(w, f)
      PROVE  HeldInv'
  BY <1>4, DoneFacts, JobNullAssumption DEF HeldInv, Ends
<1> QED BY <1>1, <1>2, <1>3, <1>4, QueueMoves

-----------------------------------------------------------------------------
(* The workers and their calls *)

WInv(w) ==
  /\ pc[w] # "idle" <=> wpc[w] = "scoring"
  /\ held[w] # Null <=> wpc[w] \in {"sent", "popped", "scoring"}
  /\ wpc[w] = "scoring" => call[w].tx = jobs[held[w]].tx

WorkerSame(w) ==
  /\ wpc'[w] = wpc[w] /\ held'[w] = held[w]
  /\ pc'[w] = pc[w] /\ call'[w] = call[w]

LEMMA OneCaller ==
  ASSUME IndInv, NEW p \in Procs, NEW t, NEW pl, Begin(p, t, pl) \/ Proceed(p) \/ Fail(p)
  PROVE  \A q \in Procs \ {p} : pc'[q] = pc[q] /\ call'[q] = call[q]
<1>0. pc \in [Procs -> Steps] /\ call \in [Procs -> Call \cup {Null}]
  BY DEF IndInv, TypeOK
<1>1. CASE Begin(p, t, pl)
  BY <1>0, <1>1 DEF Begin, Lookup, RefuseMismatch, Goto, local
<1>2. CASE Proceed(p) \/ Fail(p)
  <2>1. CASE CacheHit(p) \/ RejectInput(p) \/ RefuseDuplicate(p) \/ CachePut(p)
             \/ CachePutUnacked(p) \/ Fail(p)
    BY <1>0, <2>1 DEF CacheHit, RejectInput, RefuseDuplicate, CachePut, CachePutUnacked, Fail,
                      EndCall, Goto
  <2>2. CASE CacheMiss(p) \/ Replay(p) \/ NoHistory(p) \/ Predict(p) \/ Insert(p) \/ Commit(p)
    BY <1>0, <2>2 DEF CacheMiss, Replay, NoHistory, Predict, Insert, Commit, Goto
  <2> QED BY <1>2, <2>1, <2>2 DEF Proceed
<1> QED BY <1>1, <1>2

\* The steps that end a call, and those that do not.
LEMMA CallOver ==
  ASSUME IndInv, NEW p \in Procs,
         \/ CacheHit(p) \/ CachePut(p) \/ RefuseDuplicate(p) \/ RejectInput(p)
         \/ CachePutUnacked(p) \/ Fail(p)
  PROVE  pc'[p] = "idle"
BY DEF IndInv, TypeOK, CacheHit, CachePut, RefuseDuplicate, RejectInput, CachePutUnacked, Fail,
       EndCall, Goto

LEMMA CallGoesOn ==
  ASSUME IndInv, NEW p \in Procs, Advance(p)
  PROVE  pc[p] # "idle" /\ pc'[p] # "idle" /\ call' = call
BY DEF IndInv, TypeOK, Advance, CacheMiss, AfterMiss, Replay, NoHistory, Predict, AfterPredict,
       Insert, Commit, Goto

\* No step changes the job in a worker's hands.
LEMMA SameWorker ==
  ASSUME AsyncInv, [AsyncNext]_allVars, NEW w \in Workers, WorkerSame(w)
  PROVE  WInv(w)'
<1>1. WInv(w)
  BY DEF AsyncInv, WorkerInv, NoOrphanCall, WInv
<1>2. wpc[w] = "scoring" => jobs'[held[w]] = jobs[held[w]]
  <2>1. ASSUME NEW job \in Job, Enqueue(job), wpc[w] = "scoring"
        PROVE  jobs'[held[w]] = jobs[held[w]]
    <3>1. fate[held[w]] = "held" /\ held[w] \in JobIds
      BY <2>1, HeldJob
    <3>2. fate[pushed + 1] = "none" /\ \A j \in JobIds \ {pushed + 1} : jobs'[j] = jobs[j]
      BY <2>1, Bounds, PushFacts DEF AsyncInv, QueueInv
    <3> QED BY <3>1, <3>2
  <2>2. JobsSame \/ (\E v \in Workers : Pop(v)) \/ (\E v \in Workers, f \in Ends : JobDone(v, f))
        => jobs' = jobs
    BY DEF JobsSame, Pop, JobDone
  <2> QED BY <2>1, <2>2, QueueMoves
<1> QED BY <1>1, <1>2 DEF WInv, WorkerSame

LEMMA WorkerMoves ==
  ASSUME AsyncInv, NEW w \in Workers, WorkerStep(w)
  PROVE  WInv(w)' /\ \A v \in Workers \ {w} : WorkerSame(v)
<1>0. /\ wpc \in [Workers -> WorkerSteps] /\ held \in [Workers -> JobIds \cup {Null}]
      /\ IndInv /\ WInv(w) /\ w \in Procs /\ Workers \subseteq Procs
  BY ProcsOf DEF AsyncInv, AsyncTypeOK, WorkerInv, NoOrphanCall, WInv
<1>1. CASE \/ StartPop(w) \/ Exit(w) \/ Receive(w) \/ PopTimeout(w) \/ IdleTimeout(w)
           \/ ReplyMissed(w)
  BY <1>0, <1>1 DEF StartPop, Exit, Receive, PopTimeout, IdleTimeout, ReplyMissed, WGoto, WInv,
                    WorkerSame, vars
<1>2. CASE Pop(w)
  <2>1. pc' = pc /\ call' = call /\ wpc'[w] = "sent" /\ held'[w] # Null
        /\ wpc[w] = "popping"
    BY <1>0, <1>2, PopFacts, JobNullAssumption DEF AsyncInv, vars
  <2>2. \A v \in Workers \ {w} : wpc'[v] = wpc[v] /\ held'[v] = held[v]
    BY <1>0, <1>2, PopFacts DEF AsyncInv
  <2> QED BY <1>0, <2>1, <2>2 DEF WInv, WorkerSame
<1>3. CASE DropInvalid(w)
  BY <1>0, <1>3 DEF DropInvalid, Settle, WGoto, WInv, WorkerSame, vars
<1>4. CASE StartScoring(w)
  <2>1. /\ wpc[w] = "popped" /\ wpc' = [wpc EXCEPT ![w] = "scoring"] /\ held' = held
        /\ jobs' = jobs /\ Lookup(w, jobs[held[w]].tx, jobs[held[w]].payload)
    BY <1>4 DEF StartScoring, WGoto, queueVars
  <2>2. pc'[w] = "cache" /\ call'[w].tx = jobs[held[w]].tx
    BY <1>0, <2>1 DEF Lookup, Goto, IndInv, TypeOK
  <2>3. \A q \in Procs \ {w} : pc'[q] = pc[q] /\ call'[q] = call[q]
    BY <1>0, <2>1, OneCaller DEF Begin
  <2> QED BY <1>0, <2>1, <2>2, <2>3 DEF WInv, WorkerSame
<1>5. CASE JobMismatch(w)
  BY <1>0, <1>5 DEF JobMismatch, RefuseMismatch, local, Settle, WGoto, WInv, WorkerSame
<1>6. CASE ScoreStep(w)
  <2>1. Advance(w) /\ wpc' = wpc /\ held' = held /\ jobs' = jobs /\ wpc[w] = "scoring"
    BY <1>6 DEF ScoreStep, asyncVars
  <2>2. pc'[w] # "idle" /\ call' = call
    BY <1>0, <2>1, CallGoesOn
  <2>3. \A q \in Procs \ {w} : pc'[q] = pc[q] /\ call'[q] = call[q]
    BY <1>0, <2>1, OneCaller DEF Advance, Proceed
  <2> QED BY <1>0, <2>1, <2>2, <2>3 DEF WInv, WorkerSame
<1>7. CASE JobScored(w) \/ JobRefused(w) \/ JobFailed(w)
  <2>1. pc'[w] = "idle"
    BY <1>0, <1>7, CallOver DEF JobScored, JobRefused, JobFailed
  <2>2. Proceed(w) \/ Fail(w)
    BY <1>7 DEF JobScored, JobRefused, JobFailed, Proceed
  <2>3. \A q \in Procs \ {w} : pc'[q] = pc[q] /\ call'[q] = call[q]
    BY <1>0, <2>2, OneCaller
  <2>4. wpc' = [wpc EXCEPT ![w] = "check"] /\ held' = [held EXCEPT ![w] = Null]
    BY <1>7 DEF JobScored, JobRefused, JobFailed, Settle, WGoto
  <2> QED BY <1>0, <2>1, <2>3, <2>4 DEF WInv, WorkerSame
<1> QED BY <1>1, <1>2, <1>3, <1>4, <1>5, <1>6, <1>7 DEF WorkerStep

LEMMA WorkerInvStep ==
  ASSUME AsyncInv, [AsyncNext]_allVars
  PROVE  WorkerInv'
<1> SUFFICES \A w \in Workers : WInv(w)'
  BY DEF WorkerInv, NoOrphanCall, WInv
<1>0. /\ wpc \in [Workers -> WorkerSteps] /\ held \in [Workers -> JobIds \cup {Null}]
      /\ IndInv /\ (\A v \in Workers : WInv(v)) /\ Workers \subseteq Procs
  BY ProcsOf DEF AsyncInv, AsyncTypeOK, WorkerInv, NoOrphanCall, WInv
<1>1. ASSUME NEW w \in Workers, WorkerStep(w)
      PROVE  \A v \in Workers : WInv(v)'
  BY <1>1, WorkerMoves, SameWorker
<1>2. ASSUME NEW w \in Workers, Crash(w)
      PROVE  \A v \in Workers : WInv(v)'
  <2>1. wpc' = [wpc EXCEPT ![w] = "dead"] /\ held' = [held EXCEPT ![w] = Null] /\ AbortCall(w)
    BY <1>2 DEF Crash, WGoto
  <2>2. pc'[w] = "idle"
    BY <1>0, <2>1, CallOver DEF AbortCall, vars
  <2>3. \A q \in Procs \ {w} : pc'[q] = pc[q] /\ call'[q] = call[q]
    BY <1>0, <2>1, OneCaller DEF AbortCall, vars
  <2>4. WInv(w)'
    BY <1>0, <2>1, <2>2 DEF WInv
  <2>5. \A v \in Workers \ {w} : WorkerSame(v)
    BY <1>0, <2>1, <2>3 DEF WorkerSame
  <2> QED BY <2>4, <2>5, SameWorker
<1>3. ASSUME NEW w \in Workers, Restart(w)
      PROVE  \A v \in Workers : WInv(v)'
  <2>1. /\ wpc[w] \in {"exited", "dead"} /\ wpc' = [wpc EXCEPT ![w] = "check"]
        /\ held' = held /\ pc' = pc /\ call' = call
    BY <1>0, <1>3 DEF Restart, Alive, WGoto, vars
  <2>2. WInv(w)'
    BY <1>0, <2>1 DEF WInv
  <2>3. \A v \in Workers \ {w} : WorkerSame(v)
    BY <1>0, <2>1 DEF WorkerSame
  <2> QED BY <2>2, <2>3, SameWorker
<1>4. ASSUME NEW w \in Workers, Sigterm(w)
      PROVE  \A v \in Workers : WInv(v)'
  <2>1. \A v \in Workers : WorkerSame(v)
    BY <1>4 DEF Sigterm, WorkerSame, vars
  <2> QED BY <2>1, SameWorker
<1>5. ASSUME NEW p \in ApiProcs, NEW t, NEW pl,
             (ApiBegin(p, t, pl) /\ t \in TxIds /\ pl \in Payloads) \/ ApiStep(p) \/ ApiFail(p)
      PROVE  \A v \in Workers : WInv(v)'
  <2>1. wpc' = wpc /\ held' = held /\ (Begin(p, t, pl) \/ Proceed(p) \/ Fail(p))
    BY <1>5 DEF ApiBegin, ApiStep, ApiFail, workerVars, asyncVars
  <2>2. p \in Procs /\ p \notin Workers
    BY ProcsAssumption
  <2>3. \A v \in Workers : WorkerSame(v)
    BY <1>0, <2>1, <2>2, OneCaller DEF WorkerSame
  <2> QED BY <2>3, SameWorker
<1>6. ASSUME NEW job \in Job, Enqueue(job)
      PROVE  \A v \in Workers : WInv(v)'
  <2>1. \A v \in Workers : WorkerSame(v)
    BY <1>6 DEF Enqueue, WorkerSame, vars, workerVars
  <2> QED BY <2>1, SameWorker
<1>7. ASSUME Background \/ UNCHANGED allVars
      PROVE  \A v \in Workers : WInv(v)'
  <2>1. \A v \in Workers : WorkerSame(v)
    BY <1>7 DEF Background, Environment, SeedRow, Expire, local, asyncVars, allVars, vars,
                WorkerSame
  <2> QED BY <2>1, SameWorker
<1> QED BY <1>1, <1>2, <1>3, <1>4, <1>5, <1>6, <1>7 DEF AsyncNext

-----------------------------------------------------------------------------
(* The log and the types *)

\* Stored rows and predictions stay.
LEMMA StoreGrows ==
  ASSUME IndInv, [Next]_vars
  PROVE  /\ \A t \in TxIds : rows[t] # Null => rows'[t] # Null
         /\ preds \subseteq preds'
<1>1. \A t \in TxIds : rows[t] # Null => rows'[t] # Null
  BY KeepStep DEF KeepsScores
<1>2. preds \subseteq preds'
  BY StoreSteps DEF store, Commit, SeedRow
<1> QED BY <1>1, <1>2

LoggedTruly(j) ==
  /\ fate[j] = "scored" => rows[jobs[j].tx] # Null /\ History(jobs[j].tx) # {}
  /\ fate[j] = "refused" => rows[jobs[j].tx] # Null

\* A job that is logged now was truly logged.
LEMMA LoggedNow ==
  ASSUME AsyncInv, [AsyncNext]_allVars, NEW w \in Workers, NEW f \in Ends, JobDone(w, f),
         NEW j, j = held[w]
  PROVE  LoggedTruly(j)'
<1>1. /\ held[w] \in JobIds /\ jobs' = jobs /\ fate'[held[w]] = f
      /\ jobs[held[w]].tx \in TxIds /\ w \in Procs /\ IndInv
  BY DoneFacts, HeldJob, ProcsOf DEF JobDone, AsyncInv
<1>t. PICK t \in TxIds : t = jobs[held[w]].tx
  BY <1>1
<1>2. ASSUME f = "scored"
      PROVE  rows'[t] # Null /\ History(t)' # {}
  <2>1. wpc[w] = "scoring" /\ (CacheHit(w) \/ CachePut(w)) /\ call[w].tx = t
    BY <1>2, <1>t DEF JobDone, AsyncInv, WorkerInv
  <2>2. UNCHANGED <<rows, preds>> /\ pc[w] # "idle"
    BY <2>1 DEF CacheHit, CachePut, store
  <2>3. \E b : Backed(t, b)
    <3>1. CASE CacheHit(w)
      BY <1>1, <2>1, <3>1 DEF CacheHit, IndInv, IdInv
    <3>2. CASE CachePut(w)
      BY <1>1, <2>1, <3>2 DEF CachePut, IndInv, CallInv, PutInv
    <3> QED BY <2>1, <3>1, <3>2
  <2> QED BY <2>2, <2>3 DEF Backed, History
<1>3. ASSUME f = "refused"
      PROVE  rows'[t] # Null
  <2>1. CASE wpc[w] = "scoring" /\ RefuseDuplicate(w)
    BY <1>t, <2>1 DEF RefuseDuplicate, store, AsyncInv, WorkerInv
  <2>2. CASE RefuseMismatch(w, jobs[held[w]].tx, jobs[held[w]].payload)
    BY <1>t, <2>2 DEF RefuseMismatch, MayProceed, store
  <2> QED BY <1>3, <2>1, <2>2 DEF JobDone
<1>4. jobs'[j].tx = t /\ fate'[j] = f
  BY <1>1, <1>t
<1> QED BY <1>2, <1>3, <1>4 DEF LoggedTruly

LEMMA LogStep ==
  ASSUME AsyncInv, [AsyncNext]_allVars
  PROVE  LoggedOutcomeIsStored'
<1> SUFFICES ASSUME NEW j \in JobIds
             PROVE  LoggedTruly(j)'
  BY DEF LoggedOutcomeIsStored, LoggedTruly
<1>0. LoggedTruly(j) /\ IndInv /\ [Next]_vars /\ (fate[j] # "none" => jobs[j].tx \in TxIds)
  BY ScoringStep DEF AsyncInv, LoggedOutcomeIsStored, LoggedTruly, QueueInv, AsyncTypeOK, Job
<1>1. ASSUME fate'[j] = fate[j], fate[j] # "none" => jobs'[j] = jobs[j]
      PROVE  LoggedTruly(j)'
  BY <1>0, <1>1, StoreGrows DEF LoggedTruly, History
<1>2. CASE JobsSame
  BY <1>1, <1>2 DEF JobsSame
<1>3. ASSUME NEW job \in Job, Enqueue(job)
      PROVE  LoggedTruly(j)'
  <2>1. CASE j = pushed + 1
    BY <1>3, <2>1, PushFacts DEF AsyncInv, LoggedTruly
  <2>2. CASE j # pushed + 1
    BY <1>1, <1>3, <2>2, PushFacts DEF AsyncInv
  <2> QED BY <2>1, <2>2
<1>4. ASSUME NEW w \in Workers, Pop(w)
      PROVE  LoggedTruly(j)'
  <2>1. CASE j = queue[1]
    BY <1>4, <2>1, PopFacts DEF AsyncInv, AsyncTypeOK, LoggedTruly
  <2>2. CASE j # queue[1]
    BY <1>1, <1>4, <2>2, PopFacts DEF AsyncInv, AsyncTypeOK
  <2> QED BY <2>1, <2>2
<1>5. ASSUME NEW w \in Workers, NEW f \in Ends, JobDone(w, f)
      PROVE  LoggedTruly(j)'
  <2>1. CASE j = held[w]
    BY <1>5, <2>1, LoggedNow
  <2>2. CASE j # held[w]
    BY <1>1, <1>5, <2>2, DoneFacts DEF JobDone
  <2> QED BY <2>1, <2>2
<1> QED BY <1>2, <1>3, <1>4, <1>5, QueueMoves

QueueTypes ==
  /\ jobs \in [JobIds -> Job \cup {Null}] /\ queue \in Seq(JobIds)
  /\ fate \in [JobIds -> Fates] /\ pushed \in 0..MaxJobs
  /\ held \in [Workers -> JobIds \cup {Null}]

LoopTypes ==
  /\ wpc \in [Workers -> WorkerSteps] /\ stopping \in [Workers -> BOOLEAN]
  /\ apiCalls \in 0..MaxApiCalls /\ faults \in 0..MaxFaults

LEMMA AsyncTypeStep ==
  ASSUME AsyncInv, [AsyncNext]_allVars
  PROVE  AsyncTypeOK'
<1>0. AsyncTypeOK /\ MaxApiCalls \in Nat /\ MaxFaults \in Nat
  BY BoundsAssumption DEF AsyncInv
<1>1. TypeOK'
  BY ScoringStep, NextInv DEF AsyncInv, IndInv
<1>2. QueueTypes'
  <2> USE DEF QueueTypes
  <2>1. CASE JobsSame
    BY <1>0, <2>1 DEF JobsSame, AsyncTypeOK
  <2>2. ASSUME NEW job \in Job, Enqueue(job)
        PROVE  QueueTypes'
    <3>1. pushed + 1 \in 0..MaxJobs
      BY <1>0, <2>2, Bounds DEF Enqueue
    <3> QED BY <1>0, <2>2, <3>1, PushFacts DEF Enqueue, SetFate, Fates, AsyncTypeOK
  <2>3. ASSUME NEW w \in Workers, Pop(w)
        PROVE  QueueTypes'
    BY <1>0, <2>3, PopFacts DEF Fates, AsyncTypeOK
  <2>4. ASSUME NEW w \in Workers, NEW f \in Ends, JobDone(w, f)
        PROVE  QueueTypes'
    BY <1>0, <2>4 DEF JobDone, Ends, Fates, AsyncTypeOK
  <2> QED BY <2>1, <2>2, <2>3, <2>4, QueueMoves
<1>3. LoopTypes'
  <2> USE <1>0 DEF AsyncTypeOK, LoopTypes, WorkerSteps, WGoto
  <2>1. ASSUME NEW w \in Workers, WorkerStep(w)
        PROVE  LoopTypes'
    <3>1. CASE \/ StartPop(w) \/ Exit(w) \/ Pop(w) \/ Receive(w) \/ PopTimeout(w)
               \/ IdleTimeout(w) \/ ReplyMissed(w)
      BY <3>1 DEF StartPop, Exit, Pop, Receive, PopTimeout, IdleTimeout, ReplyMissed
    <3>2. CASE StartScoring(w) \/ ScoreStep(w)
      BY <3>2 DEF StartScoring, ScoreStep, asyncVars
    <3>3. CASE DropInvalid(w) \/ JobMismatch(w) \/ JobScored(w) \/ JobRefused(w) \/ JobFailed(w)
      <4>1. wpc' = [wpc EXCEPT ![w] = "check"] /\ UNCHANGED <<stopping, apiCalls, faults>>
        BY <3>3 DEF DropInvalid, JobMismatch, JobScored, JobRefused, JobFailed, Settle
      <4> QED BY <4>1
    <3> QED BY <2>1, <3>1, <3>2, <3>3 DEF WorkerStep
  <2>2. ASSUME NEW w \in Workers, Sigterm(w) \/ Crash(w) \/ Restart(w)
        PROVE  LoopTypes'
    <3>1. CASE Sigterm(w) \/ Crash(w)
      <4>1. faults' \in 0..MaxFaults
        BY <3>1 DEF Sigterm, Crash
      <4> QED BY <3>1, <4>1 DEF Sigterm, Crash
    <3>2. CASE Restart(w)
      BY <3>2 DEF Restart
    <3> QED BY <2>2, <3>1, <3>2
  <2>3. ASSUME NEW p \in ApiProcs, NEW t, NEW pl, ApiBegin(p, t, pl) \/ ApiStep(p) \/ ApiFail(p)
        PROVE  LoopTypes'
    BY <2>3 DEF ApiBegin, ApiStep, ApiFail, asyncVars, workerVars
  <2>4. ASSUME NEW job \in Job, Enqueue(job)
        PROVE  LoopTypes'
    BY <2>4 DEF Enqueue, workerVars
  <2>5. ASSUME Background \/ UNCHANGED allVars
        PROVE  LoopTypes'
    BY <2>5 DEF Background, asyncVars, allVars
  <2> QED BY <2>1, <2>2, <2>3, <2>4, <2>5 DEF AsyncNext
<1> QED BY <1>1, <1>2, <1>3 DEF QueueTypes, LoopTypes, AsyncTypeOK

-----------------------------------------------------------------------------
(* The theorems *)

LEMMA AsyncInitInv == AsyncInit => AsyncInv
<1> SUFFICES ASSUME AsyncInit
             PROVE  AsyncInv
  OBVIOUS
<1>1. IndInv
  BY InitInv DEF AsyncInit
<1>2. MaxJobs \in Nat /\ MaxApiCalls \in Nat /\ MaxFaults \in Nat
  BY BoundsAssumption
<1>3. AsyncTypeOK
  BY <1>1, <1>2 DEF IndInv, AsyncInit, AsyncTypeOK, Fates, WorkerSteps
<1>4. QueueInv
  BY <1>2 DEF AsyncInit, QueueInv, PoppedInOrder, JobIds
<1>5. HeldInv /\ LoggedOutcomeIsStored
  BY JobNullAssumption DEF AsyncInit, HeldInv, LoggedOutcomeIsStored
<1>6. WorkerInv
  BY ProcsOf DEF AsyncInit, Init, WorkerInv, NoOrphanCall
<1> QED BY <1>1, <1>3, <1>4, <1>5, <1>6 DEF AsyncInv

\* AsyncInv holds in every state of every behaviour.
THEOREM AsyncInductiveInvariant == AsyncSpec => []AsyncInv
<1>1. AsyncInit => AsyncInv
  BY AsyncInitInv
<1>2. AsyncInv /\ [AsyncNext]_allVars => AsyncInv'
  <2> SUFFICES ASSUME AsyncInv, [AsyncNext]_allVars
               PROVE  AsyncInv'
    OBVIOUS
  <2>1. IndInv'
    BY ScoringStep, NextInv DEF AsyncInv
  <2> QED BY <2>1, AsyncTypeStep, QueueStep, HeldStep, WorkerInvStep, LogStep DEF AsyncInv
<1> QED BY <1>1, <1>2, PTL DEF AsyncSpec

\* The variables stay in their types.
THEOREM AsyncTypeCorrect == AsyncSpec => []AsyncTypeOK
<1>1. AsyncInv => AsyncTypeOK
  BY DEF AsyncInv
<1> QED BY <1>1, AsyncInductiveInvariant, PTL

\* Every pushed job is in the list once, in one worker's hands, or settled.
THEOREM EveryJobAccountedFor == AsyncSpec => []JobsAccountedFor
<1>1. AsyncInv => JobsAccountedFor
  <2> SUFFICES ASSUME AsyncInv
               PROVE  JobsAccountedFor
    OBVIOUS
  <2>1. \A i, k \in 1..Len(queue) : queue[i] = queue[k] => i = k
    <3> SUFFICES ASSUME NEW i \in 1..Len(queue), NEW k \in 1..Len(queue), i < k
                 PROVE  queue[i] # queue[k]
      BY Bounds DEF AsyncInv
    <3>1. queue[i] < queue[k] /\ queue[i] \in Nat /\ queue[k] \in Nat
      BY Bounds DEF AsyncInv, QueueInv
    <3> QED BY <3>1
  <2> QED BY <2>1 DEF AsyncInv, QueueInv, HeldInv, JobsAccountedFor
<1> QED BY <1>1, AsyncInductiveInvariant, PTL

\* Jobs are popped in the order in which they were pushed.
THEOREM JobsPoppedInOrder == AsyncSpec => []PoppedInOrder
<1>1. AsyncInv => PoppedInOrder
  BY DEF AsyncInv, QueueInv
<1> QED BY <1>1, AsyncInductiveInvariant, PTL

\* A worker has a scoring call open only while it scores a job.
THEOREM CallsBelongToJobs == AsyncSpec => []NoOrphanCall
<1>1. AsyncInv => NoOrphanCall
  BY DEF AsyncInv, WorkerInv
<1> QED BY <1>1, AsyncInductiveInvariant, PTL

\* What was logged of a job is true of the store.
THEOREM LogIsTrue == AsyncSpec => []LoggedOutcomeIsStored
<1>1. AsyncInv => LoggedOutcomeIsStored
  BY DEF AsyncInv
<1> QED BY <1>1, AsyncInductiveInvariant, PTL

\* A popped job is lost only by a crash of the worker it was popped for, or by the
\* socket timeout that catches it on the way to that worker.
THEOREM LossNeedsCrashOrLateReply == AsyncSpec => JobsLostOnlyWithWorker
<1>1. AsyncInv /\ [AsyncNext]_allVars => [LostWithItsWorker]_allVars
  <2> SUFFICES ASSUME AsyncInv, [AsyncNext]_allVars, NEW j \in JobIds,
                      fate[j] # "lost", fate'[j] = "lost"
               PROVE  \E w \in Workers : held[w] = j /\ DeathThatLoses(w)
    BY DEF LostWithItsWorker
  <2>1. ~JobsSame
    BY DEF JobsSame
  <2>2. ASSUME NEW job \in Job, Enqueue(job)
        PROVE  FALSE
    BY <2>2, PushFacts DEF AsyncInv
  <2>3. ASSUME NEW w \in Workers, Pop(w)
        PROVE  FALSE
    BY <2>3, PopFacts DEF AsyncInv, AsyncTypeOK
  <2>4. ASSUME NEW w \in Workers, NEW f \in Ends, JobDone(w, f)
        PROVE  held[w] = j /\ DeathThatLoses(w)
    BY <2>4, DoneFacts DEF JobDone
  <2> QED BY <2>1, <2>2, <2>3, <2>4, QueueMoves
<1> QED BY <1>1, AsyncInductiveInvariant, PTL DEF AsyncSpec, JobsLostOnlyWithWorker

\* Workers, the queue and the API threads together only take steps of FraudScoring.
THEOREM ScoringIsUnchanged == AsyncSpec => ScoringUnchanged
<1>1. AsyncInit => Init
  BY DEF AsyncInit
<1>2. AsyncInv /\ [AsyncNext]_allVars => [Next]_vars
  BY ScoringStep
<1> QED BY <1>1, <1>2, AsyncInductiveInvariant, PTL DEF AsyncSpec, ScoringUnchanged, Spec

\* So a worker and an API thread that score the same transaction give the same answer,
\* borne out by the store, and both paths together are the write-once ledger and the
\* store that the read API reads.
THEOREM BothPathsAgree ==
  AsyncSpec => /\ [](AnswersAgree /\ AnswersMatchStore /\ OneScorePerTransaction)
               /\ ImplementsLedger
               /\ ImplementsStore
<1>1. Spec => /\ [](AnswersAgree /\ AnswersMatchStore /\ OneScorePerTransaction)
              /\ ImplementsLedger
              /\ ImplementsStore
  BY CallersAgree, AnswersBorneOut, ScoredOnce, LedgerImplemented, StoreImplemented, PTL
<1> QED BY <1>1, ScoringIsUnchanged, PTL DEF ScoringUnchanged
=============================================================================
