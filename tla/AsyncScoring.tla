---------------------------- MODULE AsyncScoring ----------------------------
(***************************************************************************)
(* The asynchronous path: POST /score-async pushes a job on a Redis list,  *)
(* workers pop jobs and run FraudScoringService.score_transaction on them, *)
(* beside the API threads that score synchronously.  A worker's scoring    *)
(* call is a call of FraudScoring, step by step; this module adds the      *)
(* queue, the worker's loop, the end of workers (SIGTERM, crash, an        *)
(* exception that leaves run()) and what becomes of every job.             *)
(***************************************************************************)
EXTENDS FraudScoring, Sequences

CONSTANTS ApiProcs,       \* API threads
          Workers,        \* worker processes
          MaxJobs,        \* bound on the jobs of a behaviour
          MaxApiCalls,    \* bound on the synchronous calls of a behaviour
          MaxFaults,      \* bound on crashes and stop requests of workers
          BrpopTimeout,   \* seconds BRPOP blocks on the server (worker, line 68)
          SocketTimeout   \* redis_socket_timeout_seconds of the client

ASSUME ProcsAssumption == Procs = ApiProcs \cup Workers /\ ApiProcs \cap Workers = {}
ASSUME BoundsAssumption ==
  /\ MaxJobs \in Nat /\ MaxApiCalls \in Nat /\ MaxFaults \in Nat
  /\ MaxCalls >= MaxJobs + MaxApiCalls
ASSUME TimeoutAssumption == BrpopTimeout \in Nat /\ SocketTimeout \in Nat

JobIds == 1..MaxJobs

\* finite: every number in model_features is finite.
Job == [tx: TxIds, payload: Payloads, finite: BOOLEAN]

ASSUME JobNullAssumption == Null \notin JobIds /\ Null \notin Job

Fates == {"none", "queued", "held", "scored", "refused", "failed", "dropped", "lost"}

VARIABLES
  jobs,      \* the job of each id; ids are given in the order of the LPUSHes
  queue,     \* the Redis list of job ids, read from its right end
  fate,      \* history: what has become of each job
  wpc,       \* per worker: where its loop is
  held,      \* per worker: the job that Redis popped for it, or Null
  stopping,  \* per worker: _shutdown
  pushed,    \* the jobs pushed so far
  apiCalls,  \* the synchronous calls begun so far
  faults     \* crashes and stop requests so far

queueVars == <<jobs, queue, fate, pushed>>
workerVars == <<wpc, held, stopping>>
asyncVars == <<jobs, queue, fate, pushed, wpc, held, stopping, apiCalls, faults>>
allVars == <<vars, asyncVars>>

\* "sent": Redis has taken a job off the list for the worker, its reply is on the way.
WorkerSteps == {"check", "popping", "sent", "popped", "scoring", "exited", "dead"}

Alive(w) == wpc[w] \notin {"exited", "dead"}

WGoto(w, step) == wpc' = [wpc EXCEPT ![w] = step]

SetFate(j, f) == fate' = [fate EXCEPT ![j] = f]

\* Variant: the job stays in the worker's hands.
SettleWithoutRelease(w, f) ==
  /\ SetFate(held[w], f)
  /\ WGoto(w, "check")
  /\ UNCHANGED <<jobs, queue, pushed, held, stopping, apiCalls, faults>>

\* The worker is done with its job and goes back to its loop.
Settle(w, f) ==
  /\ SetFate(held[w], f)
  /\ held' = [held EXCEPT ![w] = Null]
  /\ WGoto(w, "check")
  /\ UNCHANGED <<jobs, queue, pushed, stopping, apiCalls, faults>>

\* Variant: RPUSH, at the end BRPOP reads from.
PushedBeforeOthers(q, j) == <<j>> \o q

\* LPUSH works at the left end of the list, BRPOP at its right end.
Pushed(q, j) == Append(q, j)
NextJob == Head(queue)

-----------------------------------------------------------------------------
(* The API *)

\* LPUSH.  The database is not asked and no predictor is needed.  If Redis' reply is
\* lost the caller gets a 500 instead of the 202 and the job is queued all the same.
Enqueue(job) ==
  /\ pushed < MaxJobs
  /\ pushed' = pushed + 1
  /\ jobs' = [jobs EXCEPT ![pushed + 1] = job]
  /\ queue' = Pushed(queue, pushed + 1)
  /\ SetFate(pushed + 1, "queued")
  /\ UNCHANGED <<vars, workerVars, apiCalls, faults>>

\* A synchronous POST /score begins.
ApiBegin(p, t, pl) ==
  /\ apiCalls < MaxApiCalls
  /\ apiCalls' = apiCalls + 1
  /\ Begin(p, t, pl)
  /\ UNCHANGED <<queueVars, workerVars, faults>>

ApiStep(p) ==
  /\ Proceed(p)
  /\ UNCHANGED asyncVars

ApiFail(p) ==
  /\ Fail(p)
  /\ UNCHANGED asyncVars

-----------------------------------------------------------------------------
(* The loop of a worker *)

\* Variant: `while True`.
StartPopWithoutCheck(w) ==
  /\ wpc[w] = "check"
  /\ WGoto(w, "popping")
  /\ UNCHANGED <<vars, queueVars, held, stopping, apiCalls, faults>>

\* `while not _shutdown`, and then BRPOP is sent.
StartPop(w) ==
  /\ wpc[w] = "check"
  /\ ~stopping[w]
  /\ WGoto(w, "popping")
  /\ UNCHANGED <<vars, queueVars, held, stopping, apiCalls, faults>>

\* Variant: _shutdown is looked at before the popped job is scored.
ExitBeforeScoring(w) ==
  /\ wpc[w] \in {"check", "popped"}
  /\ stopping[w]
  /\ WGoto(w, "exited")
  /\ IF held[w] = Null THEN UNCHANGED fate ELSE SetFate(held[w], "lost")
  /\ held' = [held EXCEPT ![w] = Null]
  /\ UNCHANGED <<vars, jobs, queue, pushed, stopping, apiCalls, faults>>

Exit(w) ==
  /\ wpc[w] = "check"
  /\ stopping[w]
  /\ WGoto(w, "exited")
  /\ UNCHANGED <<vars, queueVars, held, stopping, apiCalls, faults>>

\* Variant: the job is read from the list without being removed.
PopWithoutRemoval(w) ==
  /\ wpc[w] = "popping"
  /\ queue # <<>>
  /\ held' = [held EXCEPT ![w] = NextJob]
  /\ SetFate(NextJob, "held")
  /\ WGoto(w, "sent")
  /\ UNCHANGED <<vars, jobs, queue, pushed, stopping, apiCalls, faults>>

\* Redis serves the BRPOP: the job leaves the list before the worker knows of it.
Pop(w) ==
  /\ wpc[w] = "popping"
  /\ queue # <<>>
  /\ held' = [held EXCEPT ![w] = NextJob]
  /\ SetFate(NextJob, "held")
  /\ queue' = Tail(queue)
  /\ WGoto(w, "sent")
  /\ UNCHANGED <<vars, jobs, pushed, stopping, apiCalls, faults>>

\* The worker reads the reply.
Receive(w) ==
  /\ wpc[w] = "sent"
  /\ WGoto(w, "popped")
  /\ UNCHANGED <<vars, queueVars, held, stopping, apiCalls, faults>>

\* BRPOP's nil reply is there before the client gives up on the socket.
ReplyInTime == BrpopTimeout <= SocketTimeout

\* Variant: the two timeouts are swapped.
ReplyTooLateBeforeReply == BrpopTimeout <= SocketTimeout

\* The client gives up on the socket before BRPOP's nil reply is there.
ReplyTooLate == SocketTimeout <= BrpopTimeout

\* No job for BrpopTimeout seconds: None, `continue`.
PopTimeout(w) ==
  /\ wpc[w] = "popping"
  /\ queue = <<>>
  /\ ReplyInTime
  /\ WGoto(w, "check")
  /\ UNCHANGED <<vars, queueVars, held, stopping, apiCalls, faults>>

\* No reply for SocketTimeout seconds: redis.TimeoutError, raised outside the loop's
\* try, leaves run() and ends the process.
IdleTimeout(w) ==
  /\ wpc[w] = "popping"
  /\ queue = <<>>
  /\ ReplyTooLate
  /\ WGoto(w, "dead")
  /\ UNCHANGED <<vars, queueVars, held, stopping, apiCalls, faults>>

\* The same exception with a job in the reply that comes too late: nobody has the job
\* any more.  (So it is if Redis serves the BRPOP of a client that has just given up.)
ReplyMissed(w) ==
  /\ wpc[w] = "sent"
  /\ ReplyTooLate
  /\ WGoto(w, "dead")
  /\ SetFate(held[w], "lost")
  /\ held' = [held EXCEPT ![w] = Null]
  /\ UNCHANGED <<vars, jobs, queue, pushed, stopping, apiCalls, faults>>

\* JSON has no NaN and no infinities: model_dump_json writes null for them, and the
\* request schema refuses a null feature.
Readable(job) == job.finite

DropInvalid(w) ==
  /\ wpc[w] = "popped"
  /\ ~Readable(jobs[held[w]])
  /\ Settle(w, "dropped")
  /\ UNCHANGED vars

\* Variant: the worker's call goes to the cache without a SELECT.
StartScoringWithoutLookup(w) ==
  /\ wpc[w] = "popped"
  /\ Readable(jobs[held[w]])
  /\ calls' = calls + 1
  /\ Goto(w, "cache")
  /\ call' = [call EXCEPT ![w] = [tx |-> jobs[held[w]].tx,
                                  payload |-> jobs[held[w]].payload, at |-> calls + 1]]
  /\ WGoto(w, "scoring")
  /\ UNCHANGED <<store, cache, seen, out, answers>>
  /\ UNCHANGED <<queueVars, held, stopping, apiCalls, faults>>

StartScoring(w) ==
  /\ wpc[w] = "popped"
  /\ Readable(jobs[held[w]])
  /\ Lookup(w, jobs[held[w]].tx, jobs[held[w]].payload)
  /\ WGoto(w, "scoring")
  /\ UNCHANGED <<queueVars, held, stopping, apiCalls, faults>>

JobMismatch(w) ==
  /\ wpc[w] = "popped"
  /\ Readable(jobs[held[w]])
  /\ RefuseMismatch(w, jobs[held[w]].tx, jobs[held[w]].payload)
  /\ Settle(w, "refused")

\* The steps of the call that do not end it.
Advance(w) ==
  \/ CacheMiss(w) \/ Replay(w) \/ NoHistory(w) \/ Predict(w) \/ Insert(w) \/ Commit(w)

ScoreStep(w) ==
  /\ wpc[w] = "scoring"
  /\ Advance(w)
  /\ UNCHANGED asyncVars

\* Variant: a call that raises is logged as scored.
JobScoredWithoutAnswer(w) ==
  /\ wpc[w] = "scoring"
  /\ CacheHit(w) \/ CachePut(w) \/ RejectInput(w)
  /\ Settle(w, "scored")

JobScored(w) ==
  /\ wpc[w] = "scoring"
  /\ CacheHit(w) \/ CachePut(w)
  /\ Settle(w, "scored")

JobRefused(w) ==
  /\ wpc[w] = "scoring"
  /\ RefuseDuplicate(w)
  /\ Settle(w, "refused")

\* Variant: a job that fails leaves its session open (no `finally: db.close()`).
JobFailedWithoutClose(w) ==
  /\ wpc[w] = "scoring"
  /\ pc[w] # "idle"
  /\ UNCHANGED vars
  /\ Settle(w, "failed")

\* FraudModelInputError, or any other exception: it is logged and the job is gone.
JobFailed(w) ==
  /\ wpc[w] = "scoring"
  /\ RejectInput(w) \/ CachePutUnacked(w) \/ Fail(w)
  /\ Settle(w, "failed")

WorkerStep(w) ==
  \/ StartPop(w) \/ Exit(w)
  \/ Pop(w) \/ Receive(w) \/ PopTimeout(w) \/ IdleTimeout(w) \/ ReplyMissed(w)
  \/ DropInvalid(w) \/ StartScoring(w) \/ JobMismatch(w)
  \/ ScoreStep(w) \/ JobScored(w) \/ JobRefused(w) \/ JobFailed(w)

-----------------------------------------------------------------------------
(* The end of workers *)

\* SIGTERM or SIGINT sets _shutdown, wherever the worker is.
Sigterm(w) ==
  /\ faults < MaxFaults
  /\ Alive(w) /\ ~stopping[w]
  /\ faults' = faults + 1
  /\ stopping' = [stopping EXCEPT ![w] = TRUE]
  /\ UNCHANGED <<vars, queueVars, wpc, held, apiCalls>>

AbortCall(w) == IF pc[w] = "idle" THEN UNCHANGED vars ELSE Fail(w)

\* The process dies or Redis drops the connection of its BRPOP.  A popped job is in no
\* list any more.
Crash(w) ==
  /\ faults < MaxFaults
  /\ Alive(w)
  /\ faults' = faults + 1
  /\ WGoto(w, "dead")
  /\ IF held[w] = Null THEN UNCHANGED fate ELSE SetFate(held[w], "lost")
  /\ held' = [held EXCEPT ![w] = Null]
  /\ AbortCall(w)
  /\ UNCHANGED <<jobs, queue, pushed, stopping, apiCalls>>

\* Somebody starts the worker again.
Restart(w) ==
  /\ ~Alive(w)
  /\ WGoto(w, "check")
  /\ stopping' = [stopping EXCEPT ![w] = FALSE]
  /\ UNCHANGED <<vars, queueVars, held, apiCalls, faults>>

-----------------------------------------------------------------------------
AsyncInit ==
  /\ Init
  /\ jobs = [j \in JobIds |-> Null]
  /\ queue = <<>>
  /\ fate = [j \in JobIds |-> "none"]
  /\ pushed = 0
  /\ wpc = [w \in Workers |-> "check"]
  /\ held = [w \in Workers |-> Null]
  /\ stopping = [w \in Workers |-> FALSE]
  /\ apiCalls = 0
  /\ faults = 0

\* Seeding and expiry.
Background == Environment /\ UNCHANGED asyncVars

AsyncNext ==
  \/ \E job \in Job : Enqueue(job)
  \/ \E p \in ApiProcs, t \in TxIds, pl \in Payloads : ApiBegin(p, t, pl)
  \/ \E p \in ApiProcs : ApiStep(p) \/ ApiFail(p)
  \/ \E w \in Workers : WorkerStep(w) \/ Sigterm(w) \/ Crash(w) \/ Restart(w)
  \/ Background

AsyncSpec == AsyncInit /\ [][AsyncNext]_allVars

\* A running worker and a running API call go on.  Nobody need restart a worker.
AsyncFairSpec ==
  /\ AsyncSpec
  /\ \A w \in Workers : WF_allVars(WorkerStep(w))
  /\ \A p \in ApiProcs : WF_allVars(ApiStep(p))

-----------------------------------------------------------------------------
AsyncTypeOK ==
  /\ TypeOK
  /\ jobs \in [JobIds -> Job \cup {Null}]
  /\ queue \in Seq(JobIds)
  /\ fate \in [JobIds -> Fates]
  /\ pushed \in 0..MaxJobs
  /\ wpc \in [Workers -> WorkerSteps]
  /\ held \in [Workers -> JobIds \cup {Null}]
  /\ stopping \in [Workers -> BOOLEAN]
  /\ apiCalls \in 0..MaxApiCalls
  /\ faults \in 0..MaxFaults

Settled(j) == fate[j] \in {"scored", "refused", "failed", "dropped", "lost"}

\* No job is in two places or in none: pushed and not yet settled means once in the
\* list or in the hands of exactly one worker, so no two workers score one push.
JobsAccountedFor ==
  /\ \A j \in JobIds : fate[j] = "queued" <=> \E i \in 1..Len(queue) : queue[i] = j
  /\ \A i, k \in 1..Len(queue) : queue[i] = queue[k] => i = k
  /\ \A j \in JobIds : fate[j] = "held" <=> \E w \in Workers : held[w] = j
  /\ \A v, w \in Workers : held[v] = held[w] /\ held[v] # Null => v = w

\* FIFO: no job is popped before one that was pushed earlier (LPUSH and BRPOP work at
\* opposite ends of the list).
PoppedInOrder ==
  \A i, j \in JobIds : i < j /\ fate[i] = "queued" => fate[j] \in {"none", "queued"}

\* No database session outlives its job: a worker that waits, has stopped or is dead has
\* no scoring call open, so holds no id another INSERT waits for; and a worker that
\* stopped on request has no job in its hands.
NoOrphanCall ==
  \A w \in Workers :
    /\ pc[w] # "idle" <=> wpc[w] = "scoring"
    /\ held[w] # Null <=> wpc[w] \in {"sent", "popped", "scoring"}

\* What the worker's log line says is true of the store: a job logged as scored has its
\* row and a prediction, a job logged as duplicate or mismatch has a row.
LoggedOutcomeIsStored ==
  \A j \in JobIds :
    /\ fate[j] = "scored" => rows[jobs[j].tx] # Null /\ History(jobs[j].tx) # {}
    /\ fate[j] = "refused" => rows[jobs[j].tx] # Null

\* A crash, or a socket timeout no longer than BRPOP's while the reply is on the way.
DeathThatLoses(w) ==
  wpc'[w] = "dead" /\ (faults' > faults \/ (wpc[w] = "sent" /\ ReplyTooLate))

LostWithItsWorker ==
  \A j \in JobIds : fate[j] # "lost" /\ fate'[j] = "lost"
    => \E w \in Workers : held[w] = j /\ DeathThatLoses(w)

\* A popped job is lost only with the worker it was popped for: by a crash or, if the
\* client's socket timeout is no longer than BRPOP's, by the exception that finds the
\* job between Redis and the worker.  No stop request loses one, and no timeout loses
\* one that the worker has received.
JobsLostOnlyWithWorker == [][LostWithItsWorker]_allVars

\* Beside the queue and the workers' loops, everything is as FraudScoring says.
ScoringUnchanged == Spec

\* README.md:163 ("run the worker service so jobs are drained from Redis"): a pushed
\* job is popped by a worker some time and comes to an end.
JobsAreDrained == \A j \in JobIds : fate[j] = "queued" ~> Settled(j)

\* A stop request ends the worker (the loop looks at _shutdown after every pop).
StopEndsWorker == \A w \in Workers : stopping[w] ~> ~Alive(w)
=============================================================================
