---------------------------- MODULE ModelServing ----------------------------
(***************************************************************************)
(* From a training job to a score: train_and_save writes a bundle (pipe-   *)
(* line and metadata in one file) to the path that API and workers are     *)
(* configured with, the processes load it when they start, at any moment   *)
(* of that writing, and predict builds a row of the model's columns from a *)
(* request.  The trainer may die between two writes and be run again with  *)
(* the same --model-version, which overwrites the files in place, also     *)
(* under the hands of a process that is reading; another version is        *)
(* another path.  Values of columns are abstracted to where they come      *)
(* from, scores to the class whose probability they are.                   *)
(***************************************************************************)
EXTENDS Naturals, FiniteSets

CONSTANTS Columns,      \* names of columns
          Attribute,    \* of a name: the request attribute it is, whatever its case, or Null
          Labels,       \* values of target columns
          Specs,        \* DatasetSpecs the trainer is run with
          Frames,       \* CSV files it is run on
          Requests,     \* requests, as far as the model sees them
          Api, Workers, \* processes
          Configured,   \* those with a MODEL_BUNDLE_PATH
          MaxTrainings, \* bound on training jobs
          Torn,         \* a predictor of bytes that several jobs wrote: nothing is known of it
          Stub, Null

Procs == Api \cup Workers

Attributes == {"merchant", "category", "country", "city", "device_type"}

\* numbers and categories are the explicit lists; numbers is Null if they are inferred.
Spec == [target: Columns, ids: SUBSET Columns, drops: SUBSET Columns,
         numbers: (SUBSET Columns) \cup {Null}, categories: SUBSET Columns, positive: Labels]

Frame == [columns: SUBSET Columns, numeric: SUBSET Columns, labels: SUBSET Labels]

\* numbers, nans, texts: the model_features that are finite numbers, that are NaN, and
\* those that float() or the pipeline refuses (texts, infinities); given: the optional
\* attributes that are not null.
Request == [numbers: SUBSET Columns, nans: SUBSET Columns, texts: SUBSET Columns,
            given: SUBSET Attributes]

Pipeline == [numeric: SUBSET Columns, categorical: SUBSET Columns, classes: SUBSET Labels,
             job: 1..MaxTrainings]

Metadata == [numeric: SUBSET Columns, categorical: SUBSET Columns, positive: Labels,
             job: 1..MaxTrainings]

Bundle == [pipeline: Pipeline, metadata: Metadata]

\* The file while and after a bundle is written to it.
Content == [bundle: Bundle, whole: BOOLEAN]

ASSUME AttributeAssumption ==
  /\ Attribute \in [Columns -> Attributes \cup {"amount", Null}]
  /\ Null \notin Attributes \cup {"amount"}
ASSUME InputAssumption ==
  /\ Specs \subseteq Spec /\ Frames \subseteq Frame /\ Requests \subseteq Request
  /\ \A r \in Requests : /\ r.numbers \cap r.texts = {}
                          /\ r.nans \cap (r.numbers \cup r.texts) = {}
ASSUME ProcsAssumption == Configured \subseteq Procs /\ Api \cap Workers = {}
ASSUME MaxTrainingsAssumption == MaxTrainings \in Nat
ASSUME MarksAssumption ==
  /\ Stub \notin Bundle /\ Stub # Null
  /\ Torn \notin Bundle \cup {Stub, Null}
  /\ Null \notin Bundle \cup Metadata \cup Content

VARIABLES
  file,       \* the bundle file: Null, or the bundle written to it and whether all of it is
  sidecar,    \* the metadata JSON beside it
  writing,    \* what the trainer writes: "nothing", "bundle", "sidecar"
  jobs,       \* training jobs that wrote
  written,    \* history: those whose bundle was written to its end
  state,      \* per process: "down", "loading" (it has found the file), "reading", "up"
  opened,     \* per process: the bundle it began to read
  predictor,  \* per process: a bundle, Torn, Stub, or Null (no predictor: 503)
  rewritten,  \* history, per process: a job wrote while it was reading
  answer      \* the last prediction asked for

trainVars == <<file, sidecar, writing, jobs, written>>
serveVars == <<state, opened, predictor>>
vars == <<trainVars, serveVars, rewritten, answer>>

-----------------------------------------------------------------------------
(* Training *)

Forbidden(s) == s.ids \cup {s.target} \cup s.drops

Remaining(s, f) == f.columns \ Forbidden(s)

Explicit(s) == s.numbers # Null

Numeric(s, f) ==
  IF Explicit(s) THEN s.numbers \cap f.columns
  ELSE {c \in Remaining(s, f) \ s.categories : c \in f.numeric}

Categorical(s, f) ==
  IF Explicit(s) THEN s.categories \cap f.columns
  ELSE Remaining(s, f) \ Numeric(s, f)

\* What the job checks before it fits, and what scikit-learn refuses to fit: texts in a
\* numeric column, and a column that is selected twice.
Trainable(s, f) ==
  /\ {s.target} \cup s.ids \cup s.drops \subseteq f.columns
  /\ Explicit(s) => s.numbers \cup s.categories \subseteq f.columns
  /\ Numeric(s, f) \cup Categorical(s, f) # {}
  /\ Numeric(s, f) \subseteq f.numeric
  /\ Numeric(s, f) \cap Categorical(s, f) = {}
  /\ Cardinality(f.labels) = 2 /\ s.positive \in f.labels

Trained(s, f, n) ==
  [pipeline |-> [numeric |-> Numeric(s, f), categorical |-> Categorical(s, f),
                 classes |-> f.labels, job |-> n],
   metadata |-> [numeric |-> Numeric(s, f), categorical |-> Categorical(s, f),
                 positive |-> s.positive, job |-> n]]

\* A job that gets as far as opening the bundle file; one that raises before changes nothing.
Train(s, f) ==
  /\ writing = "nothing"
  /\ jobs < MaxTrainings
  /\ Trainable(s, f)
  /\ jobs' = jobs + 1
  /\ writing' = "bundle"
  /\ file' = [bundle |-> Trained(s, f, jobs + 1), whole |-> FALSE]
  /\ rewritten' = [p \in Procs |-> rewritten[p] \/ state[p] = "reading"]
  /\ UNCHANGED <<sidecar, written, serveVars, answer>>

BundleWritten ==
  /\ writing = "bundle"
  /\ file' = [file EXCEPT !.whole = TRUE]
  /\ written' = written \cup {jobs}
  /\ writing' = "sidecar"
  /\ UNCHANGED <<sidecar, jobs, serveVars, rewritten, answer>>

SidecarWritten ==
  /\ writing = "sidecar"
  /\ sidecar' = file.bundle.metadata
  /\ writing' = "nothing"
  /\ UNCHANGED <<file, jobs, written, serveVars, rewritten, answer>>

TrainerDies ==
  /\ writing # "nothing"
  /\ writing' = "nothing"
  /\ UNCHANGED <<file, sidecar, jobs, written, serveVars, rewritten, answer>>

-----------------------------------------------------------------------------
(* Starting a process *)

Up(p, pred) ==
  /\ state' = [state EXCEPT ![p] = "up"]
  /\ predictor' = [predictor EXCEPT ![p] = pred]
  /\ UNCHANGED <<trainVars, opened, rewritten, answer>>

\* No path, or no file there.
StartStub(p) ==
  /\ state[p] = "down"
  /\ p \in Configured => file = Null
  /\ Up(p, Stub)

\* is_file() says there is one.
FindFile(p) ==
  /\ state[p] = "down"
  /\ p \in Configured
  /\ file # Null
  /\ state' = [state EXCEPT ![p] = "loading"]
  /\ UNCHANGED <<trainVars, opened, predictor, rewritten, answer>>

\* is_file() raises (no permission for the directory): the API goes on without a
\* predictor, a worker ends.
CannotLook(p) ==
  /\ state[p] = "down"
  /\ p \in Configured /\ p \in Api
  /\ Up(p, Null)

\* joblib.load begins to read.
Open(p) ==
  /\ state[p] = "loading"
  /\ state' = [state EXCEPT ![p] = "reading"]
  /\ opened' = [opened EXCEPT ![p] = file.bundle]
  /\ UNCHANGED <<trainVars, predictor, rewritten, answer>>

\* Variant: the metadata is taken from the JSON beside the bundle.
LoadedWithSidecar(p) ==
  [opened[p] EXCEPT !.metadata = IF sidecar = Null THEN opened[p].metadata ELSE sidecar]

\* Pipeline and metadata are both taken from the one dict.
Loaded(p) == opened[p]

\* joblib comes to the end of the file it began with.
Load(p) ==
  /\ state[p] = "reading"
  /\ file.whole /\ opened[p] = file.bundle
  /\ Up(p, Loaded(p))

\* Jobs have written in place under joblib's hands, and what it has read can be unpickled
\* all the same.
LoadTorn(p) ==
  /\ state[p] = "reading"
  /\ opened[p] # file.bundle
  /\ Up(p, Torn)

\* joblib raises, as it does for a file that is torn or not whole, or that cannot be read:
\* the process goes on with the stub.
LoadFails(p) ==
  /\ state[p] = "reading"
  /\ Up(p, Stub)

Stop(p) ==
  /\ state[p] # "down"
  /\ state' = [state EXCEPT ![p] = "down"]
  /\ opened' = [opened EXCEPT ![p] = Null]
  /\ predictor' = [predictor EXCEPT ![p] = Null]
  /\ rewritten' = [rewritten EXCEPT ![p] = FALSE]
  /\ UNCHANGED <<trainVars, answer>>

-----------------------------------------------------------------------------
(* A prediction *)

Features(r) == r.numbers \cup r.nans \cup r.texts

\* Variant: only the name "Amount" is taken from the amount.
NumberSourceExactCase(r, c) ==
  IF c \in r.nans THEN "median"
  ELSE IF c \in Features(r) THEN "feature"
  ELSE IF c = "Amount" THEN "amount"
  ELSE "missing"

\* Where the value of a numeric column comes from: the pipeline's imputer puts the median
\* of the training data for a NaN.
NumberSource(r, c) ==
  IF c \in r.nans THEN "median"
  ELSE IF c \in Features(r) THEN "feature"
  ELSE IF Attribute[c] = "amount" THEN "amount"
  ELSE "missing"

\* Variant: an attribute that is null is not made a blank.
TextSourceWithoutBlank(r, c) == IF c \in Features(r) THEN "feature" ELSE Attribute[c]

TextSource(r, c) ==
  IF c \in Features(r) THEN "feature"
  ELSE IF Attribute[c] \in r.given THEN Attribute[c]
  ELSE "blank"

FeatureRow(m, r) ==
  [c \in m.numeric \cup m.categorical |->
     IF c \in m.categorical THEN TextSource(r, c) ELSE NumberSource(r, c)]

\* Variant: a missing number is left to the imputer.
RefusedWithoutMissing(b, r) == b.metadata.numeric \cap r.texts # {}

\* ValueError of the row or of the pipeline: float() of a text, missing numbers, columns
\* the pipeline was fitted on and the row does not have.
Refused(b, r) ==
  \/ b.metadata.numeric \cap r.texts # {}
  \/ \E c \in b.metadata.numeric : NumberSource(r, c) = "missing"
  \/ ~(b.pipeline.numeric \cup b.pipeline.categorical
         \subseteq b.metadata.numeric \cup b.metadata.categorical)

\* Variant: the positive label of the metadata is not looked at.
ScoredClassesByPosition(b) == b.pipeline.classes

\* The class whose probability is the score; argmax of the classes if none is the positive.
ScoredClasses(b) ==
  IF b.metadata.positive \in b.pipeline.classes
  THEN {b.metadata.positive}
  ELSE b.pipeline.classes

Answered(p, r, kind, row, class) ==
  answer' = [proc |-> p, request |-> r, by |-> predictor[p], kind |-> kind, row |-> row,
             class |-> class]

NoRow == [c \in {} |-> Null]

PredictByStub(p, r) ==
  /\ state[p] = "up" /\ predictor[p] = Stub
  /\ Answered(p, r, "stub", NoRow, Null)
  /\ UNCHANGED <<trainVars, serveVars, rewritten>>

\* get_fraud_scoring_service: 503.
Unavailable(p, r) ==
  /\ state[p] = "up" /\ predictor[p] = Null
  /\ Answered(p, r, "unavailable", NoRow, Null)
  /\ UNCHANGED <<trainVars, serveVars, rewritten>>

\* FraudModelInputError: 422.
Refuse(p, r) ==
  /\ state[p] = "up" /\ predictor[p] \in Bundle
  /\ Refused(predictor[p], r)
  /\ Answered(p, r, "refused", NoRow, Null)
  /\ UNCHANGED <<trainVars, serveVars, rewritten>>

Predict(p, r) ==
  /\ state[p] = "up" /\ predictor[p] \in Bundle
  /\ ~Refused(predictor[p], r)
  /\ \E class \in ScoredClasses(predictor[p]) :
       Answered(p, r, "scored", FeatureRow(predictor[p].metadata, r), class)
  /\ UNCHANGED <<trainVars, serveVars, rewritten>>

\* Whatever the torn pipeline and metadata make of the request.
PredictTorn(p, r) ==
  /\ state[p] = "up" /\ predictor[p] = Torn
  /\ \/ Answered(p, r, "refused", NoRow, Null)
     \/ \E class \in Labels : Answered(p, r, "scored", NoRow, class)
  /\ UNCHANGED <<trainVars, serveVars, rewritten>>

-----------------------------------------------------------------------------
Init ==
  /\ file = Null /\ sidecar = Null
  /\ writing = "nothing" /\ jobs = 0 /\ written = {}
  /\ state = [p \in Procs |-> "down"]
  /\ opened = [p \in Procs |-> Null]
  /\ predictor = [p \in Procs |-> Null]
  /\ rewritten = [p \in Procs |-> FALSE]
  /\ answer = Null

Trainer ==
  \/ \E s \in Specs, f \in Frames : Train(s, f)
  \/ BundleWritten \/ SidecarWritten \/ TrainerDies

Starts(p) ==
  \/ StartStub(p) \/ FindFile(p) \/ CannotLook(p)
  \/ Open(p) \/ Load(p) \/ LoadTorn(p) \/ LoadFails(p)
  \/ Stop(p)

Predicts(p, r) ==
  \/ PredictByStub(p, r) \/ Unavailable(p, r)
  \/ Refuse(p, r) \/ Predict(p, r) \/ PredictTorn(p, r)

Next ==
  \/ Trainer
  \/ \E p \in Procs : Starts(p)
  \/ \E p \in Procs, r \in Requests : Predicts(p, r)

ServingSpec == Init /\ [][Next]_vars

-----------------------------------------------------------------------------
Sources == {"feature", "amount", "median", "missing", "blank"} \cup Attributes

ServingTypeOK ==
  /\ file \in Content \cup {Null}
  /\ sidecar \in Metadata \cup {Null}
  /\ writing \in {"nothing", "bundle", "sidecar"}
  /\ jobs \in 0..MaxTrainings
  /\ written \subseteq 1..MaxTrainings
  /\ state \in [Procs -> {"down", "loading", "reading", "up"}]
  /\ opened \in [Procs -> Bundle \cup {Null}]
  /\ predictor \in [Procs -> Bundle \cup {Torn, Stub, Null}]
  /\ rewritten \in [Procs -> BOOLEAN]
  /\ answer # Null =>
       /\ answer.proc \in Procs /\ answer.request \in Requests
       /\ answer.by \in Bundle \cup {Torn, Stub, Null}
       /\ answer.kind \in {"stub", "unavailable", "refused", "scored"}
       /\ answer.row \in [DOMAIN answer.row -> Sources]
       /\ answer.class \in Labels \cup {Null}

\* Whenever a process starts while a job writes, dies or overwrites: what it serves with
\* is, pipeline, columns and labels, the bundle of one job, and of one that wrote it to its
\* end, never one that died in it; unless another job wrote while the process was reading.
\* Then nothing is promised: the file is written in place.
LoadedBundleIsWhole ==
  \A p \in Procs :
    /\ predictor[p] \notin {Torn, Stub, Null} =>
         \E s \in Specs, f \in Frames, n \in written :
           Trainable(s, f) /\ predictor[p] = Trained(s, f, n)
    /\ predictor[p] = Torn => rewritten[p]

ByBundle == answer # Null /\ answer.by # Torn

\* The feature contract (schemas/fraud.py:48-49): a request is refused only if it lacks a
\* number the serving model was trained on (Amount, in any case, is never lacking), or has
\* a text for one.  (This and what follows are of answers that no torn predictor gave.)
OnlyIncompleteIsRefused ==
  ByBundle /\ answer.kind = "refused" =>
    \E c \in answer.by.pipeline.numeric :
      \/ c \in answer.request.texts
      \/ c \notin Features(answer.request) /\ Attribute[c] # "amount"

\* A score rests on no value that the service made up: in the row of every score, all
\* columns of the pipeline are there, its numbers come from the request unless the request
\* itself says NaN, and so do its texts if the request has them under the name of the
\* column, whatever its case.
NothingMadeUp ==
  ByBundle /\ answer.kind = "scored" =>
    LET b == answer.by.pipeline
        r == answer.request
    IN  /\ DOMAIN answer.row = b.numeric \cup b.categorical
        /\ \A c \in b.numeric :
             answer.row[c] \in {"feature", "amount"} \/ c \in r.nans
        /\ \A c \in b.categorical :
             answer.row[c] = "blank" => c \notin Features(r) /\ Attribute[c] \notin r.given

\* A score is the probability of the label that the training job was told is fraud.
ScoreIsOfFraud ==
  ByBundle /\ answer.kind = "scored" =>
    \E s \in Specs, f \in Frames :
      /\ Trainable(s, f)
      /\ Trained(s, f, answer.by.pipeline.job) = answer.by
      /\ answer.class = s.positive
=============================================================================
