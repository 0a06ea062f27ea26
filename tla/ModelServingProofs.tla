------------------------- MODULE ModelServingProofs -------------------------
(***************************************************************************)
(* ModelServing for every set of specs, files, requests and processes, and *)
(* any number of training jobs.  The invariant: what is in the file, and   *)
(* what a process has begun to read, was made by one job, and what is      *)
(* there as a whole was written to its end; a process whose reading no job *)
(* overlapped has begun with what is still there; and what serves is the   *)
(* bundle of one finished writing, unless it is torn.                      *)
(***************************************************************************)
EXTENDS ModelServing, TLAPS

\* One job of a spec and a file that it accepts made b.
Made(b) == \E s \in Specs, f \in Frames : Trainable(s, f) /\ b = Trained(s, f, b.pipeline.job)

Fits(b) ==
  /\ b.pipeline.numeric = b.metadata.numeric
  /\ b.pipeline.categorical = b.metadata.categorical
  /\ b.pipeline.numeric \cap b.pipeline.categorical = {}
  /\ b.metadata.positive \in b.pipeline.classes

FileInv ==
  /\ writing # "nothing" => file # Null
  /\ file # Null =>
       /\ Made(file.bundle)
       /\ file.bundle.pipeline.job = jobs
       /\ file.whole => jobs \in written

\* The bundle p reads is the one in the file, or a job has written since.
Reads(p) ==
  /\ file # Null
  /\ opened[p] # Null
  /\ Made(opened[p])
  /\ opened[p] = file.bundle \/ (rewritten[p] /\ opened[p].pipeline.job < jobs)

\* p serves the bundle of one job that wrote it to its end, or with Torn.
Serves(p) ==
  /\ predictor[p] \notin {Torn, Stub, Null} =>
       Made(predictor[p]) /\ predictor[p].pipeline.job \in written
  /\ predictor[p] = Torn => rewritten[p]

ProcInv ==
  \A p \in Procs :
    /\ state[p] = "loading" => file # Null
    /\ state[p] = "reading" => Reads(p)
    /\ Serves(p)

AnswerInv == OnlyIncompleteIsRefused /\ NothingMadeUp /\ ScoreIsOfFraud

ServingInv == ServingTypeOK /\ FileInv /\ ProcInv /\ AnswerInv

-----------------------------------------------------------------------------
\* What a job makes is a bundle, and its two halves fit together.
LEMMA TrainedFits ==
  ASSUME NEW s \in Specs, NEW f \in Frames, NEW n \in 1..MaxTrainings, Trainable(s, f)
  PROVE  Trained(s, f, n) \in Bundle /\ Fits(Trained(s, f, n)) /\ Made(Trained(s, f, n))
<1>1. s \in Spec /\ f \in Frame
  BY InputAssumption
<1>2. Numeric(s, f) \in SUBSET Columns
  BY <1>1 DEF Numeric, Explicit, Remaining, Spec, Frame
<1>3. Categorical(s, f) \in SUBSET Columns
  BY <1>1 DEF Categorical, Explicit, Remaining, Spec, Frame
<1>4. s.positive \in Labels /\ f.labels \in SUBSET Labels /\ s.positive \in f.labels
  BY <1>1 DEF Spec, Frame, Trainable
<1>5. Trained(s, f, n) \in Bundle
  BY <1>2, <1>3, <1>4 DEF Trained, Bundle, Pipeline, Metadata
<1>6. Fits(Trained(s, f, n))
  BY <1>4 DEF Trained, Fits, Trainable
<1>7. Trained(s, f, n).pipeline.job = n
  BY DEF Trained
<1> QED BY <1>5, <1>6, <1>7 DEF Made

\* A bundle that one job made fits together.
LEMMA MadeFits ==
  ASSUME NEW b \in Bundle, Made(b)
  PROVE  Fits(b) /\ b.pipeline.job = b.metadata.job
<1>1. PICK s \in Specs, f \in Frames : Trainable(s, f) /\ b = Trained(s, f, b.pipeline.job)
  BY DEF Made
<1>2. b.pipeline.job \in 1..MaxTrainings
  BY DEF Bundle, Pipeline
<1>3. Fits(b)
  BY <1>1, <1>2, TrainedFits
<1>4. Trained(s, f, b.pipeline.job).metadata.job = b.pipeline.job
  BY DEF Trained
<1> QED BY <1>1, <1>3, <1>4

-----------------------------------------------------------------------------
\* The answer of a step that asks for no prediction stays good.
LEMMA AnswerKept ==
  ASSUME AnswerInv, UNCHANGED answer
  PROVE  AnswerInv'
BY DEF AnswerInv, OnlyIncompleteIsRefused, NothingMadeUp, ScoreIsOfFraud, ByBundle

\* A training job changes the file and nothing that is already loaded.
LEMMA TrainKeepsInv ==
  ASSUME ServingInv, NEW s \in Specs, NEW f \in Frames, Train(s, f)
  PROVE  ServingInv'
<1> DEFINE new == Trained(s, f, jobs + 1)
<1>1. jobs + 1 \in 1..MaxTrainings /\ jobs \in Nat
  BY MaxTrainingsAssumption DEF ServingInv, ServingTypeOK, Train
<1>2. new \in Bundle /\ Made(new) /\ new.pipeline.job = jobs + 1
  BY <1>1, TrainedFits DEF Train, Trained
<1> HIDE DEF new
<1>3. file' = [bundle |-> new, whole |-> FALSE]
  BY DEF Train, new
<1>4. file' \in Content /\ file' # Null /\ file'.bundle = new
  <2>1. file' \in Content
    BY <1>2, <1>3 DEF Content
  <2> QED BY <1>3, <2>1, MarksAssumption
<1>5. ServingTypeOK'
  BY <1>1, <1>4 DEF ServingInv, ServingTypeOK, Train, serveVars
<1>6. FileInv'
  BY <1>1, <1>2, <1>3, <1>4 DEF FileInv, Train, Made
<1>7. ASSUME NEW p \in Procs
      PROVE  /\ state'[p] = "loading" => file' # Null
             /\ state'[p] = "reading" => Reads(p)'
             /\ Serves(p)'
  <2>1. UNCHANGED <<written, state, opened, predictor>>
    BY DEF Train, serveVars
  <2>2. rewritten'[p] = (rewritten[p] \/ state[p] = "reading")
    BY DEF Train
  <2>3. ASSUME state[p] = "reading"
        PROVE  Reads(p)'
    <3>1. Reads(p)
      BY <2>3 DEF ServingInv, ProcInv
    <3>2. opened[p] \in Bundle /\ Made(opened[p]) /\ opened[p] # Null
      BY <3>1 DEF Reads, ServingInv, ServingTypeOK
    <3>3. opened[p].pipeline.job \in Nat
      BY <3>2 DEF Bundle, Pipeline
    <3>4. opened[p].pipeline.job <= jobs
      BY <1>1, <3>1, <3>3 DEF Reads, ServingInv, FileInv
    <3>5. opened[p].pipeline.job < jobs'
      BY <1>1, <3>3, <3>4 DEF Train
    <3> QED BY <1>4, <2>1, <2>2, <2>3, <3>2, <3>5 DEF Reads, Made
  <2>4. Serves(p)'
    BY <2>1, <2>2 DEF ServingInv, ProcInv, Serves, Made
  <2> QED BY <1>4, <2>1, <2>3, <2>4
<1>8. ProcInv'
  BY <1>7 DEF ProcInv
<1>9. AnswerInv'
  BY AnswerKept DEF ServingInv, Train
<1> QED BY <1>5, <1>6, <1>8, <1>9 DEF ServingInv

\* The other steps of the trainer keep file.bundle; the one that makes it whole is
\* remembered in written.
LEMMA WriteKeepsInv ==
  ASSUME ServingInv, BundleWritten \/ SidecarWritten \/ TrainerDies
  PROVE  ServingInv'
<1>1. writing # "nothing" /\ file # Null /\ file \in Content /\ file.bundle \in Bundle
  BY DEF ServingInv, ServingTypeOK, FileInv, BundleWritten, SidecarWritten, TrainerDies, Content
<1>2. file' \in Content /\ file'.bundle = file.bundle
  BY <1>1 DEF BundleWritten, SidecarWritten, TrainerDies, Content
<1>3. file' # Null
  BY <1>2, MarksAssumption
<1>4. UNCHANGED <<jobs, state, opened, predictor, rewritten, answer>>
  BY DEF BundleWritten, SidecarWritten, TrainerDies, serveVars
<1>w. /\ written \subseteq written' /\ written' \subseteq 1..MaxTrainings
      /\ file'.whole => jobs \in written'
  <2>1. jobs \in 1..MaxTrainings
    BY <1>1 DEF ServingInv, FileInv, Bundle, Pipeline
  <2>2. CASE BundleWritten
    BY <2>1, <2>2 DEF BundleWritten, ServingInv, ServingTypeOK
  <2>3. CASE SidecarWritten \/ TrainerDies
    BY <1>1, <2>3 DEF SidecarWritten, TrainerDies, ServingInv, ServingTypeOK, FileInv
  <2> QED BY <2>2, <2>3
<1>5. sidecar' \in Metadata \cup {Null} /\ writing' \in {"nothing", "bundle", "sidecar"}
  BY <1>1 DEF ServingInv, ServingTypeOK, BundleWritten, SidecarWritten, TrainerDies, Bundle
<1>6. ServingTypeOK'
  BY <1>2, <1>4, <1>5, <1>w DEF ServingInv, ServingTypeOK
<1>7. FileInv'
  BY <1>1, <1>2, <1>3, <1>4, <1>w DEF ServingInv, FileInv, Made
<1>8. ProcInv'
  BY <1>1, <1>2, <1>3, <1>4, <1>w DEF ServingInv, ProcInv, Reads, Serves, Made
<1>9. AnswerInv'
  BY <1>4, AnswerKept DEF ServingInv
<1> QED BY <1>6, <1>7, <1>8, <1>9 DEF ServingInv

\* A step of one process that leaves the others and the files alone.
LEMMA OwnStepKeepsProcs ==
  ASSUME ServingInv, NEW p \in Procs, UNCHANGED <<file, jobs, written>>,
         \A q \in Procs \ {p} : /\ state'[q] = state[q] /\ opened'[q] = opened[q]
                                /\ predictor'[q] = predictor[q]
                                /\ rewritten'[q] = rewritten[q],
         state'[p] = "loading" => file # Null,
         state'[p] = "reading" => Reads(p)',
         Serves(p)'
  PROVE  ProcInv'
<1>1. ASSUME NEW q \in Procs \ {p}
      PROVE  /\ state'[q] = "loading" => file' # Null
             /\ state'[q] = "reading" => Reads(q)'
             /\ Serves(q)'
  <2>1. UNCHANGED <<state[q], opened[q], predictor[q], rewritten[q]>>
    OBVIOUS
  <2>2. state[q] = "reading" => Reads(q)'
    BY <2>1 DEF ServingInv, ProcInv, Reads, Made
  <2>3. Serves(q)'
    BY <2>1 DEF ServingInv, ProcInv, Serves, Made
  <2> QED BY <2>1, <2>2, <2>3 DEF ServingInv, ProcInv
<1> QED BY <1>1 DEF ProcInv

\* What a process comes up with is the stub, nothing, Torn, or the bundle of one job.
LEMMA UpKeepsInv ==
  ASSUME ServingInv, NEW p \in Procs, NEW pred \in Bundle \cup {Torn, Stub, Null}, Up(p, pred),
         pred \notin {Torn, Stub, Null} => Made(pred) /\ pred.pipeline.job \in written,
         pred = Torn => rewritten[p]
  PROVE  ServingInv'
<1>1. UNCHANGED <<file, sidecar, writing, jobs, written, opened, rewritten, answer>>
  BY DEF Up, trainVars
<1>2. /\ state' = [state EXCEPT ![p] = "up"] /\ state'[p] = "up"
      /\ predictor' = [predictor EXCEPT ![p] = pred] /\ predictor'[p] = pred
  BY DEF Up, ServingInv, ServingTypeOK
<1>3. ServingTypeOK'
  BY <1>1, <1>2 DEF ServingInv, ServingTypeOK
<1>4. FileInv'
  BY <1>1 DEF ServingInv, FileInv, Made
<1>5. Serves(p)'
  BY <1>1, <1>2 DEF Serves, Made
<1>6. ProcInv'
  BY <1>1, <1>2, <1>5, OwnStepKeepsProcs DEF ServingInv, ServingTypeOK
<1>7. AnswerInv'
  BY <1>1, AnswerKept DEF ServingInv
<1> QED BY <1>3, <1>4, <1>6, <1>7 DEF ServingInv

\* Loading gives the bundle of the last job, which is whole; a torn one takes a job that
\* wrote meanwhile.
LEMMA LoadKeepsInv ==
  ASSUME ServingInv, NEW p \in Procs, Load(p) \/ LoadTorn(p)
  PROVE  ServingInv'
<1>1. Reads(p)
  BY DEF ServingInv, ProcInv, Load, LoadTorn
<1>2. CASE Load(p)
  <2>1. /\ opened[p] \in Bundle /\ Made(opened[p])
        /\ opened[p] = file.bundle /\ file.bundle.pipeline.job \in written
    BY <1>1, <1>2 DEF Load, Reads, ServingInv, ServingTypeOK, FileInv
  <2>2. Up(p, opened[p])
    BY <1>2 DEF Load, Loaded
  <2> QED BY <2>1, <2>2, UpKeepsInv, MarksAssumption
<1>3. CASE LoadTorn(p)
  <2>1. rewritten[p] /\ Up(p, Torn)
    BY <1>1, <1>3 DEF LoadTorn, Reads
  <2> QED BY <2>1, UpKeepsInv
<1> QED BY <1>2, <1>3

\* Starting, reading and stopping.
LEMMA StartsKeepInv ==
  ASSUME ServingInv, NEW p \in Procs, Starts(p)
  PROVE  ServingInv'
<1>1. CASE StartStub(p) \/ LoadFails(p)
  <2>1. Up(p, Stub)
    BY <1>1 DEF StartStub, LoadFails
  <2> QED BY <2>1, UpKeepsInv, MarksAssumption
<1>2. CASE CannotLook(p)
  <2>1. Up(p, Null)
    BY <1>2 DEF CannotLook
  <2> QED BY <2>1, UpKeepsInv, MarksAssumption
<1>3. CASE Load(p) \/ LoadTorn(p)
  BY <1>3, LoadKeepsInv
<1>4. CASE FindFile(p)
  <2>1. /\ UNCHANGED <<file, sidecar, writing, jobs, written, opened, predictor, rewritten, answer>>
        /\ state' = [state EXCEPT ![p] = "loading"] /\ state'[p] = "loading" /\ file # Null
    BY <1>4 DEF FindFile, trainVars, ServingInv, ServingTypeOK
  <2>2. ServingTypeOK'
    BY <2>1 DEF ServingInv, ServingTypeOK
  <2>3. FileInv'
    BY <2>1 DEF ServingInv, FileInv, Made
  <2>4. Serves(p)'
    BY <2>1 DEF ServingInv, ProcInv, Serves, Made
  <2>5. ProcInv'
    BY <2>1, <2>4, OwnStepKeepsProcs DEF ServingInv, ServingTypeOK
  <2>6. AnswerInv'
    BY <2>1, AnswerKept DEF ServingInv
  <2> QED BY <2>2, <2>3, <2>5, <2>6 DEF ServingInv
<1>5. CASE Open(p)
  <2>1. file # Null /\ file \in Content /\ file.bundle \in Bundle
    BY <1>5 DEF Open, ServingInv, ServingTypeOK, ProcInv, Content
  <2>2. /\ UNCHANGED <<file, sidecar, writing, jobs, written, predictor, rewritten, answer>>
        /\ state' = [state EXCEPT ![p] = "reading"] /\ state'[p] = "reading"
        /\ opened' = [opened EXCEPT ![p] = file.bundle] /\ opened'[p] = file.bundle
    BY <1>5 DEF Open, trainVars, ServingInv, ServingTypeOK
  <2>3. ServingTypeOK'
    BY <2>1, <2>2 DEF ServingInv, ServingTypeOK
  <2>4. FileInv'
    BY <2>2 DEF ServingInv, FileInv, Made
  <2>5. Reads(p)'
    <3>1. Made(file.bundle) /\ file.bundle # Null
      BY <2>1, MarksAssumption DEF ServingInv, FileInv
    <3>2. Made(opened[p])'
      BY <2>2, <3>1 DEF Made
    <3>3. file' # Null /\ opened'[p] # Null /\ opened'[p] = file'.bundle
      BY <2>1, <2>2, <3>1
    <3> QED BY <3>2, <3>3 DEF Reads
  <2>6. Serves(p)'
    BY <2>2 DEF ServingInv, ProcInv, Serves, Made
  <2>7. ProcInv'
    BY <2>2, <2>5, <2>6, OwnStepKeepsProcs DEF ServingInv, ServingTypeOK
  <2>8. AnswerInv'
    BY <2>2, AnswerKept DEF ServingInv
  <2> QED BY <2>3, <2>4, <2>7, <2>8 DEF ServingInv
<1>6. CASE Stop(p)
  <2>1. /\ UNCHANGED <<file, sidecar, writing, jobs, written, answer>>
        /\ state' = [state EXCEPT ![p] = "down"] /\ state'[p] = "down"
        /\ opened' = [opened EXCEPT ![p] = Null]
        /\ predictor' = [predictor EXCEPT ![p] = Null] /\ predictor'[p] = Null
        /\ rewritten' = [rewritten EXCEPT ![p] = FALSE]
    BY <1>6 DEF Stop, trainVars, ServingInv, ServingTypeOK
  <2>2. ServingTypeOK'
    BY <2>1 DEF ServingInv, ServingTypeOK
  <2>3. FileInv'
    BY <2>1 DEF ServingInv, FileInv, Made
  <2>4. ProcInv'
    BY <2>1, OwnStepKeepsProcs, MarksAssumption DEF ServingInv, ServingTypeOK, Serves
  <2>5. AnswerInv'
    BY <2>1, AnswerKept DEF ServingInv
  <2> QED BY <2>2, <2>3, <2>4, <2>5 DEF ServingInv
<1> QED BY <1>1, <1>2, <1>3, <1>4, <1>5, <1>6 DEF Starts

-----------------------------------------------------------------------------
\* An answer that is of the right types and good keeps the rest as it is.
LEMMA AnswerKeepsInv ==
  ASSUME ServingInv, NEW p \in Procs, NEW r \in Requests, NEW kind, NEW row, NEW class,
         kind \in {"stub", "unavailable", "refused", "scored"},
         row \in [DOMAIN row -> Sources], class \in Labels \cup {Null},
         Answered(p, r, kind, row, class), UNCHANGED <<trainVars, serveVars, rewritten>>,
         AnswerInv'
  PROVE  ServingInv'
<1>1. UNCHANGED <<file, sidecar, writing, jobs, written, state, opened, predictor, rewritten>>
  BY DEF trainVars, serveVars
<1>2. predictor[p] \in Bundle \cup {Torn, Stub, Null}
  BY DEF ServingInv, ServingTypeOK
<1>3. ServingTypeOK'
  BY <1>1, <1>2 DEF ServingInv, ServingTypeOK, Answered
<1>4. FileInv'
  BY <1>1 DEF ServingInv, FileInv, Made
<1>5. ProcInv'
  BY <1>1 DEF ServingInv, ProcInv, Reads, Serves, Made
<1> QED BY <1>3, <1>4, <1>5 DEF ServingInv

LEMMA NoScoreKeepsInv ==
  ASSUME ServingInv, NEW p \in Procs, NEW r \in Requests, PredictByStub(p, r) \/ Unavailable(p, r)
  PROVE  ServingInv'
<1>1. NoRow \in [DOMAIN NoRow -> Sources]
  BY DEF NoRow
<1>2. PICK kind \in {"stub", "unavailable"} : Answered(p, r, kind, NoRow, Null)
  BY DEF PredictByStub, Unavailable
<1>3. AnswerInv'
  BY <1>2 DEF Answered, AnswerInv, OnlyIncompleteIsRefused, NothingMadeUp, ScoreIsOfFraud,
              ByBundle
<1> QED BY <1>1, <1>2, <1>3, AnswerKeepsInv DEF PredictByStub, Unavailable

\* A request is refused only for what it lacks or misspells.
LEMMA RefuseKeepsInv ==
  ASSUME ServingInv, NEW p \in Procs, NEW r \in Requests, Refuse(p, r)
  PROVE  ServingInv'
<1> DEFINE b == predictor[p]
<1>1. Fits(b)
  BY MadeFits, MarksAssumption DEF ServingInv, ProcInv, Serves, Refuse
<1>2. Refused(b, r) /\ Answered(p, r, "refused", NoRow, Null)
  BY DEF Refuse
<1>3. \E c \in b.pipeline.numeric :
        c \in r.texts \/ NumberSource(r, c) = "missing"
  BY <1>1, <1>2 DEF Fits, Refused
<1>4. \A c : NumberSource(r, c) = "missing" =>
        c \notin Features(r) /\ Attribute[c] # "amount"
  BY DEF NumberSource, Features
<1>5. /\ answer'.kind = "refused" /\ answer'.by = b /\ answer'.request = r
  BY <1>2 DEF Answered
<1>6. AnswerInv'
  BY <1>3, <1>4, <1>5 DEF AnswerInv, OnlyIncompleteIsRefused, NothingMadeUp, ScoreIsOfFraud,
                         ByBundle, Features
<1>7. NoRow \in [DOMAIN NoRow -> Sources]
  BY DEF NoRow
<1> QED BY <1>2, <1>6, <1>7, AnswerKeepsInv DEF Refuse

\* A score rests on the request and is of the label of fraud.
LEMMA PredictKeepsInv ==
  ASSUME ServingInv, NEW p \in Procs, NEW r \in Requests, Predict(p, r)
  PROVE  ServingInv'
<1> DEFINE b == predictor[p]
           row == FeatureRow(b.metadata, r)
<1>1. PICK class \in ScoredClasses(b) : Answered(p, r, "scored", row, class)
  BY DEF Predict
<1>2. b \in Bundle /\ Made(b) /\ ~Refused(b, r)
  BY MarksAssumption DEF ServingInv, ProcInv, Serves, Predict
<1>3. Fits(b)
  BY <1>2, MadeFits
<1>4. class = b.metadata.positive
  BY <1>1, <1>3 DEF ScoredClasses, Fits
<1>5. answer' = [proc |-> p, request |-> r, by |-> b, kind |-> "scored", row |-> row,
                 class |-> class]
  BY <1>1 DEF Answered
<1>6. DOMAIN row = b.pipeline.numeric \cup b.pipeline.categorical
  BY <1>3 DEF FeatureRow, Fits
<1>7. b.pipeline.numeric \subseteq Columns /\ b.pipeline.categorical \subseteq Columns
      /\ b.metadata.positive \in Labels
  BY <1>2 DEF Bundle, Pipeline, Metadata
<1>8. r.given \subseteq Attributes
  BY InputAssumption DEF Request
<1>9. \A c \in DOMAIN row : row[c] \in Sources
  <2>1. \A c \in Columns : NumberSource(r, c) \in Sources /\ TextSource(r, c) \in Sources
    BY <1>8 DEF NumberSource, TextSource, Sources
  <2> QED BY <1>6, <1>7, <2>1 DEF FeatureRow
<1>10. NothingMadeUp'
  <2>1. ASSUME NEW c \in b.pipeline.numeric, c \notin b.pipeline.categorical
        PROVE  row[c] \in {"feature", "amount"} \/ c \in r.nans
    <3>1. c \in b.metadata.numeric /\ c \notin b.metadata.categorical
      BY <1>3, <2>1 DEF Fits
    <3>2. row[c] = NumberSource(r, c) /\ NumberSource(r, c) # "missing"
      BY <1>2, <3>1 DEF FeatureRow, Refused
    <3> QED BY <3>2 DEF NumberSource
  <2>2. ASSUME NEW c \in b.pipeline.categorical
        PROVE  row[c] = "blank" => c \notin Features(r) /\ Attribute[c] \notin r.given
    <3>1. c \in b.metadata.categorical
      BY <1>3 DEF Fits
    <3>2. row[c] = TextSource(r, c)
      BY <3>1 DEF FeatureRow
    <3> QED BY <1>8, <3>2 DEF TextSource, Attributes
  <2>3. b.pipeline.numeric \cap b.pipeline.categorical = {}
    BY <1>3 DEF Fits
  <2> QED BY <1>5, <1>6, <2>1, <2>2, <2>3 DEF NothingMadeUp, Features
<1>11. ScoreIsOfFraud'
  <2>1. PICK s \in Specs, f \in Frames :
          Trainable(s, f) /\ b = Trained(s, f, b.pipeline.job)
    BY <1>2 DEF Made
  <2>2. Trained(s, f, b.pipeline.job).metadata.positive = s.positive
    BY DEF Trained
  <2> QED BY <1>4, <1>5, <2>1, <2>2 DEF ScoreIsOfFraud
<1>12. OnlyIncompleteIsRefused'
  BY <1>5 DEF OnlyIncompleteIsRefused
<1>13. row \in [DOMAIN row -> Sources]
  BY <1>9 DEF FeatureRow
<1>14. class \in Labels
  BY <1>4, <1>7
<1> QED
  BY <1>1, <1>10, <1>11, <1>12, <1>13, <1>14, AnswerKeepsInv DEF AnswerInv, Predict

\* Nothing is said of what a torn predictor answers.
LEMMA TornKeepsInv ==
  ASSUME ServingInv, NEW p \in Procs, NEW r \in Requests, PredictTorn(p, r)
  PROVE  ServingInv'
<1>1. NoRow \in [DOMAIN NoRow -> Sources]
  BY DEF NoRow
<1>2. PICK kind \in {"refused", "scored"}, class \in Labels \cup {Null} :
        Answered(p, r, kind, NoRow, class)
  BY DEF PredictTorn
<1>3. AnswerInv'
  <2>1. answer'.by = Torn
    BY <1>2 DEF Answered, PredictTorn
  <2> QED BY <2>1 DEF AnswerInv, OnlyIncompleteIsRefused, NothingMadeUp, ScoreIsOfFraud, ByBundle
<1> QED BY <1>1, <1>2, <1>3, AnswerKeepsInv DEF PredictTorn

-----------------------------------------------------------------------------
LEMMA ServingInvInit == Init => ServingInv
<1> SUFFICES ASSUME Init PROVE ServingInv
  OBVIOUS
<1>1. ServingTypeOK
  BY MaxTrainingsAssumption DEF Init, ServingTypeOK
<1>2. FileInv /\ ProcInv
  BY MarksAssumption DEF Init, FileInv, ProcInv, Serves
<1>3. AnswerInv
  BY DEF Init, AnswerInv, OnlyIncompleteIsRefused, NothingMadeUp, ScoreIsOfFraud, ByBundle
<1> QED BY <1>1, <1>2, <1>3 DEF ServingInv

LEMMA ServingInvNext == ServingInv /\ [Next]_vars => ServingInv'
<1> SUFFICES ASSUME ServingInv, [Next]_vars PROVE ServingInv'
  OBVIOUS
<1>1. CASE Trainer
  BY <1>1, TrainKeepsInv, WriteKeepsInv DEF Trainer
<1>2. CASE \E p \in Procs : Starts(p)
  BY <1>2, StartsKeepInv
<1>3. CASE \E p \in Procs, r \in Requests : Predicts(p, r)
  BY <1>3, NoScoreKeepsInv, RefuseKeepsInv, PredictKeepsInv, TornKeepsInv DEF Predicts
<1>4. CASE UNCHANGED vars
  <2>1. UNCHANGED <<file, sidecar, writing, jobs, written, state, opened, predictor, rewritten,
                    answer>>
    BY <1>4 DEF vars, trainVars, serveVars
  <2>2. ServingTypeOK'
    BY <2>1 DEF ServingInv, ServingTypeOK
  <2>3. FileInv' /\ ProcInv'
    BY <2>1 DEF ServingInv, FileInv, ProcInv, Reads, Serves, Made
  <2>4. AnswerInv'
    BY <2>1, AnswerKept DEF ServingInv
  <2> QED BY <2>2, <2>3, <2>4 DEF ServingInv
<1> QED BY <1>1, <1>2, <1>3, <1>4 DEF Next

\* The strengthening holds in every reachable state.
THEOREM ServingInvariant == ServingSpec => []ServingInv
BY ServingInvInit, ServingInvNext, PTL DEF ServingSpec

\* Every variable keeps its type.
THEOREM ServingTypeCorrect == ServingSpec => []ServingTypeOK
<1>1. ServingInv => ServingTypeOK
  BY DEF ServingInv
<1> QED BY <1>1, ServingInvariant, PTL

\* Pipeline and metadata that load_training_bundle gives a process (ml/artifacts.py:31-43)
\* are of one job that finished its bundle, at whatever moment of save_training_bundle the
\* process starts; only a job that writes under its hands can leave it a torn one.
THEOREM BundlesLoadWhole == ServingSpec => []LoadedBundleIsWhole
<1>1. ServingInv => LoadedBundleIsWhole
  BY DEF ServingInv, ProcInv, Serves, Made, LoadedBundleIsWhole
<1> QED BY <1>1, ServingInvariant, PTL

\* _build_feature_row (ml/inference.py:126-173) refuses no request that has its numbers.
THEOREM RefusalsAreDeserved == ServingSpec => []OnlyIncompleteIsRefused
<1>1. ServingInv => OnlyIncompleteIsRefused
  BY DEF ServingInv, AnswerInv
<1> QED BY <1>1, ServingInvariant, PTL

\* ... and makes up no value of a row that is scored.
THEOREM RowsAreOfRequests == ServingSpec => []NothingMadeUp
<1>1. ServingInv => NothingMadeUp
  BY DEF ServingInv, AnswerInv
<1> QED BY <1>1, ServingInvariant, PTL

\* _positive_proba (ml/inference.py:175-188) takes the probability of the positive label of
\* the job.
THEOREM ScoresAreOfFraud == ServingSpec => []ScoreIsOfFraud
<1>1. ServingInv => ScoreIsOfFraud
  BY DEF ServingInv, AnswerInv
<1> QED BY <1>1, ServingInvariant, PTL
=============================================================================
