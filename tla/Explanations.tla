----------------------------- MODULE Explanations -----------------------------
(***************************************************************************)
(* Why a transaction got its score, from explainability.py to the client:  *)
(* predict ranks the features of one row by their contribution and builds  *)
(* a payload of the top_k, which is stored with the prediction; a response *)
(* (also one from the cache, or a replay) shows what is stored, be it that *)
(* payload, any JSON that the seed script took from its file, or an older  *)
(* flat map of numbers.  Values are those after preprocessing (a scaled    *)
(* number, whose 0 is the mean of the training data, or a 0/1 of a         *)
(* category); numbers are integers, a share is given in parts of Full.     *)
(***************************************************************************)
EXTENDS Integers, Sequences, FiniteSets, FiniteSetsExt, Functions

CONSTANTS Features,      \* columns after preprocessing
          Weights,       \* coefficients and importances
          Values,        \* values of a column
          Amounts,       \* amounts, in parts of Full of the maximum
          OldNumbers,    \* numbers in stored flat maps, in parts of Full
          SeededStrengths, \* strengths in payloads of the seed file, in parts of Full
          MaxSeeded,     \* bound on the factors of one
          Negligible,    \* the 1e-6 of _direction_for_contribution
          Full,          \* the strength 1.0
          TopK,          \* top_k
          OldLimit,      \* how many numbers of a flat map are shown
          Stub, Null

ASSUME NumbersAssumption ==
  /\ Weights \subseteq Int /\ Values \subseteq Int /\ OldNumbers \subseteq Int
  /\ SeededStrengths \subseteq Int /\ MaxSeeded \in Nat
  /\ Amounts \subseteq 0..Full
ASSUME BoundsAssumption ==
  /\ Negligible \in Nat /\ TopK \in Nat \ {0} /\ OldLimit \in Nat /\ Full \in Nat \ {0}
ASSUME FeaturesAssumption == IsFiniteSet(Features) /\ Features # {}

\* The classifier.  greater: the positive label of the spec is the second of its two
\* sorted classes_, the one whose log-odds coef_ is about.
Models ==
  {m \in [kind: {"linear", "trees", "other"}, weight: [Features -> Weights],
          greater: BOOLEAN] :
     m.kind # "linear" => \A f \in Features : m.weight[f] >= 0}

VARIABLES
  model,     \* the classifier of the process, or Stub
  row,       \* the preprocessed row of the transaction, Null if there is none
  stored,    \* top_risk_factors of its prediction, Null before the prediction
  shown      \* risk_explanations of the last response, Null before any

vars == <<model, row, stored, shown>>

-----------------------------------------------------------------------------
Magnitude(n) == IF n < 0 THEN -n ELSE n

\* Variant: the coefficient without its sign.
ContributionUnsigned(m, x, f) == Magnitude(m.weight[f]) * x[f]

Contribution(m, x, f) ==
  IF m.kind = "linear" THEN m.weight[f] * x[f] ELSE m.weight[f] * Magnitude(x[f])

Contributions(m, x) == [f \in Features |-> Contribution(m, x, f)]

Direction(m, c) ==
  IF m.kind # "linear" \/ Magnitude(c) <= Negligible THEN "notable"
  ELSE IF c > 0 THEN "increases" ELSE "decreases"

\* numpy.argsort: equal keys come in any order.
ArgSort(key) ==
  LET n == Cardinality(Features)
  IN  {s \in [1..n -> Features] :
         IsInjective(s) /\ \A i \in 1..(n - 1) : key[s[i]] <= key[s[i + 1]]}

\* Variant: sorted by the signed contribution.
OrdersSigned(c) ==
  {SubSeq(s, 1, TopK) : s \in ArgSort([f \in Features |-> -c[f]])}

\* argsort(-|c|)[:top_k].
Orders(c) ==
  LET n == Min({TopK, Cardinality(Features)})
  IN  {SubSeq(s, 1, n) : s \in ArgSort([f \in Features |-> -Magnitude(c[f])])}

\* Variant: not set in proportion to the largest.
StrengthAbsolute(c, largest) == Magnitude(c) * Full

\* min(1, |c| / largest), to the nearest part; if all are 0, the divisor is 1.
Strength(c, largest) ==
  IF largest = 0 THEN 0
  ELSE Min({Full, (2 * Magnitude(c) * Full + largest) \div (2 * largest)})

Factor(m, c, f, largest) ==
  [feature |-> f, direction |-> Direction(m, c[f]), strength |-> Strength(c[f], largest),
   contribution |-> c[f]]

\* signal: "Largest signal" of the headline.
Payload(method, signal, factors) ==
  [method |-> method, signal |-> signal, factors |-> factors]

\* build_risk_explanation_payload.
Payloads(m, x) ==
  LET c == Contributions(m, x)
  IN  IF m.kind = "other" THEN {Payload("unavailable", Null, <<>>)}
      ELSE {LET largest == Max({Magnitude(c[o[i]]) : i \in DOMAIN o})
            IN  Payload(m.kind, o[1], [i \in DOMAIN o |-> Factor(m, c, o[i], largest)])
             : o \in Orders(c)}

StubPayload(hash, amount) ==
  Payload("stub", Null,
    <<[feature |-> "demo_hash", direction |-> "notable", strength |-> Full,
       contribution |-> hash],
      [feature |-> "amount_normalized", direction |-> "notable",
       strength |-> Min({Full, amount * 50 + Full \div 10}), contribution |-> amount]>>)

\* What else may be stored, for the seed script looks at nothing of it: null or a list, a
\* flat map of numbers (and texts, Null), a text, number or boolean, and an object with a
\* headline and a list of factors, as those of the demo data.  complete: it has a method and
\* no further key, and each factor is an object with a label, a message and a strength.
Nothing == [method |-> "none"]
FlatMaps == {[method |-> "flat", numbers |-> v] : v \in [Features -> OldNumbers \cup {Null}]}
Scalar == [method |-> "scalar"]
SeededPayloads ==
  {[method |-> "seeded", complete |-> c, strengths |-> s] :
     c \in BOOLEAN, s \in UNION {[1..n -> SeededStrengths] : n \in 0..MaxSeeded}}
Others == FlatMaps \cup SeededPayloads \cup {Nothing, Scalar}

\* Payloads by the types of their fields, of which RiskExplanationPayload only says more
\* of the strength.
RiskFactorItem ==
  [feature : Features \cup {"demo_hash", "amount_normalized", "seeded"},
   direction : {"increases", "decreases", "notable"}, strength : Int, contribution : Int]
RiskExplanationPayload ==
  [method : {"linear", "trees", "unavailable", "stub", "legacy_cache", "demo-seed"},
   signal : Features \cup {Null}, factors : Seq(RiskFactorItem)]

\* RiskExplanationPayload accepts it.
Showable(p) == \A i \in DOMAIN p.factors : p.factors[i].strength \in 0..Full

\* The numbers of a flat map as factors, in an order that JSONB chose.
OldFactors(v) ==
  LET numeric == {f \in Features : v[f] # Null}
      n == Cardinality(numeric)
  IN  {[i \in 1..Min({n, OldLimit}) |->
          [feature |-> s[i], direction |-> "notable",
           strength |-> Min({Full, Magnitude(v[s[i]])}), contribution |-> v[s[i]]]]
        : s \in {s \in [1..n -> numeric] : IsInjective(s)}}

\* A complete one as a payload; its method and its features stand for any text.
AsPayload(p) ==
  Payload("demo-seed", Null,
    [i \in DOMAIN p.strengths |->
       [feature |-> "seeded", direction |-> "notable", strength |-> p.strengths[i],
        contribution |-> 0]])

\* FraudScoreApiResponse.from_domain; Nothing is None, Invalid its ValidationError, or that
\* of the FraudScoreResponse before it, which takes no scalar (a 500).
Invalid == [method |-> "invalid"]
FromDomain(p) ==
  CASE p.method = "none" -> {Nothing}
    [] p.method = "flat" -> {IF f = <<>> THEN Nothing ELSE Payload("legacy_cache", Null, f)
                              : f \in OldFactors(p.numbers)}
    [] p.method = "scalar" -> {Invalid}
    [] p.method = "seeded" ->
         {IF p.complete /\ Showable(AsPayload(p)) THEN AsPayload(p) ELSE Invalid}
    [] OTHER -> {IF Showable(p) THEN p ELSE Invalid}

\* Null is neither a row nor anything that is stored or answered.
ASSUME NullAssumption ==
  /\ Null \notin [Features -> Values]
  /\ Null \notin RiskExplanationPayload \cup Others \cup {Invalid}

-----------------------------------------------------------------------------
Explain(x) ==
  /\ stored = Null /\ model # Stub
  /\ row' = x
  /\ stored' \in Payloads(model, x)
  /\ UNCHANGED <<model, shown>>

ExplainByStub(hash, amount) ==
  /\ stored = Null /\ model = Stub
  /\ stored' = StubPayload(hash, amount)
  /\ UNCHANGED <<model, row, shown>>

\* A prediction of the seed script, or of an older version.
StoreOther(p) ==
  /\ stored = Null
  /\ stored' = p
  /\ UNCHANGED <<model, row, shown>>

\* A response that shows the stored prediction.
Respond ==
  /\ stored # Null
  /\ shown' \in FromDomain(stored)
  /\ UNCHANGED <<model, row, stored>>

Init ==
  /\ model \in Models \cup {Stub}
  /\ row = Null /\ stored = Null /\ shown = Null

Next ==
  \/ \E x \in [Features -> Values] : Explain(x)
  \/ \E hash, amount \in Amounts : ExplainByStub(hash, amount)
  \/ \E p \in Others : StoreOther(p)
  \/ Respond

ExplanationSpec == Init /\ [][Next]_vars

-----------------------------------------------------------------------------
(* What explanations promise *)

Linear == model # Stub /\ row # Null /\ model.kind = "linear"

\* The linear score of the class coef_ is about (without its intercept), and of fraud.
Score(m, x) == MapThenSumSet(LAMBDA f : m.weight[f] * x[f], Features)
FraudScore(m, x) == IF m.greater THEN Score(m, x) ELSE -Score(m, x)

\* The log-odds of fraud without the feature, that is, with its mean.
FraudScoreWithout(m, x, f) == FraudScore(m, [x EXCEPT ![f] = 0])

TrueDirection(d, m, x, f) ==
  /\ d = "increases" => FraudScoreWithout(m, x, f) < FraudScore(m, x)
  /\ d = "decreases" => FraudScoreWithout(m, x, f) > FraudScore(m, x)

\* If fraud is the second of the classifier's classes: a factor that a client is shown as
\* increasing the risk of fraud is one without which the model's score would be lower, and
\* one shown as decreasing it one without which it would be higher (explainability.py:8-9).
DirectionIsTrue ==
  Linear /\ model.greater /\ shown \notin {Null, Invalid} =>
    \A i \in DOMAIN shown.factors :
      TrueDirection(shown.factors[i].direction, model, row, shown.factors[i].feature)

\* The same, as the docstring says it, of every model.
AlwaysTrueDirection ==
  Linear /\ shown \notin {Null, Invalid} =>
    \A i \in DOMAIN shown.factors :
      TrueDirection(shown.factors[i].direction, model, row, shown.factors[i].feature)

\* The short list accounts for the score: the factors left out of it shift the linear score
\* by no more than their number times the weakest listed contribution.
ListAccountsForScore ==
  Linear /\ shown \notin {Null, Invalid} =>
    LET listed == {shown.factors[i].feature : i \in DOMAIN shown.factors}
        told == FoldFunction(LAMBDA p, sum : p.contribution + sum, 0, shown.factors)
        weakest == Magnitude(shown.factors[Len(shown.factors)].contribution)
    IN  Magnitude(Score(model, row) - told) <= Cardinality(Features \ listed) * weakest

\* Whatever the code builds can be answered with: every payload of a model or the stub, and
\* what from_domain makes of a flat map, satisfies the response's own schema (a strength
\* outside 0..1 would be a 500 on every replay of a stored and scored transaction).  Only an
\* object or scalar that the seed script took unread from its file may not.  And the factor
\* of the headline is the strongest and has full strength, unless nothing contributes.
EverythingBuiltCanBeShown ==
  /\ shown = Invalid => stored \in SeededPayloads \cup {Scalar}
  /\ shown # Null /\ shown.method \in {"linear", "trees"} =>
       LET strengths == {shown.factors[i].strength : i \in DOMAIN shown.factors}
           first == shown.factors[1]
       IN  /\ shown.signal = first.feature
           /\ first.strength = IF \E i \in DOMAIN shown.factors :
                                    shown.factors[i].contribution # 0 THEN Full ELSE 0
           /\ \A s \in strengths : s <= first.strength
=============================================================================
