------------------------- MODULE ExplanationsProofs -------------------------
(***************************************************************************)
(* Proofs about Explanations, for any features, weights, rows and list     *)
(* lengths.  The score and the sum of the listed contributions are folds   *)
(* over sets; what is proved of them is proved of a least counterexample,  *)
(* by the well-foundedness of < on Nat and of \subset on finite sets,      *)
(* since the induction theorems of the library take an operator.           *)
(***************************************************************************)
EXTENDS Explanations, FiniteSetTheorems, TLAPS

\* h[s] is the sum of g over s, for every s \subseteq S, as MapThenFoldSet computes it.
SumOf(h, g, S) ==
  h = [s \in SUBSET S |->
         IF s = {} THEN 0
         ELSE g[CHOOSE z \in s : TRUE] + h[s \ {CHOOSE z \in s : TRUE}]]

\* The least counterexample, of numbers and of finite sets.
LEMMA LeastNumber ==
  ASSUME NEW T \in SUBSET Nat, T # {}
  PROVE  \E n \in T : \A k \in T : n <= k
<1>1. \E n \in T : \A k \in T : ~(<<k, n>> \in OpToRel(<, Nat))
  BY WFMin, NatLessThanWellFounded, Zenon
<1>2. ASSUME NEW n \in T, NEW k \in T, ~(<<k, n>> \in OpToRel(<, Nat))  PROVE n <= k
  <2>1. <<k, n>> \in Nat \X Nat /\ <<k, n>>[1] = k /\ <<k, n>>[2] = n
    OBVIOUS
  <2>2. ~(k < n)
    BY <1>2, <2>1 DEF OpToRel
  <2>3. k \in Nat /\ n \in Nat
    OBVIOUS
  <2> QED BY <2>2, <2>3
<1> QED BY <1>1, <1>2

LEMMA LeastSubset ==
  ASSUME NEW S, IsFiniteSet(S), NEW T \in SUBSET SUBSET S, T # {}
  PROVE  \E s \in T : \A u \in T : u \subseteq s => u = s
<1>1. IsWellFoundedOn(StrictSubsetOrdering(S), SUBSET S)
  BY FS_StrictSubsetOrderingWellFounded, FS_FiniteSubsetsOfFinite
<1>2. \E s \in T : \A u \in T : ~(<<u, s>> \in StrictSubsetOrdering(S))
  BY <1>1, WFMin, Zenon
<1> QED BY <1>2 DEF StrictSubsetOrdering

\* The equation has a solution: one for the subsets of n elements at most gives one for
\* those of n + 1.
LEMMA SumExists ==
  ASSUME NEW S, IsFiniteSet(S), NEW g
  PROVE  \E h : SumOf(h, g, S)
<1> DEFINE Pick(s) == CHOOSE z \in s : TRUE
           UpTo(n) == {s \in SUBSET S : Cardinality(s) <= n}
           Part(h, n) == h = [s \in UpTo(n) |->
                                IF s = {} THEN 0 ELSE g[Pick(s)] + h[s \ {Pick(s)}]]
           None == {n \in Nat : ~\E h : Part(h, n)}
<1>1. \A s \in SUBSET S : IsFiniteSet(s) /\ Cardinality(s) \in Nat
  BY FS_Subset, FS_CardinalityType
<1>2. \A s \in SUBSET S : s # {} =>
        /\ Pick(s) \in s
        /\ s \ {Pick(s)} \in SUBSET S /\ Cardinality(s \ {Pick(s)}) = Cardinality(s) - 1
  BY <1>1, FS_RemoveElement
<1>3. ASSUME None # {} PROVE FALSE
  <2>1. PICK n \in None : \A k \in None : n <= k
    BY <1>3, LeastNumber
  <2>2. CASE n = 0
    <3> DEFINE h == [s \in UpTo(0) |-> 0]
    <3>1. \A s \in UpTo(0) : s = {}
      BY <1>1, FS_EmptySet
    <3>2. Part(h, 0)
      BY <3>1
    <3> QED BY <2>1, <2>2, <3>2
  <2>3. CASE n # 0
    <3>n. n \in Nat /\ n - 1 \in Nat
      BY <2>1, <2>3
    <3>1. n - 1 \notin None
      <4> HIDE DEF None
      <4>1. ~(n <= n - 1)
        BY <3>n
      <4> QED BY <2>1, <4>1
    <3>2. PICK h : Part(h, n - 1)
      BY <3>n, <3>1
    <3> DEFINE k == [s \in UpTo(n) |-> IF s = {} THEN 0 ELSE g[Pick(s)] + h[s \ {Pick(s)}]]
    <3>3. \A s \in UpTo(n - 1) : s \in UpTo(n) /\ k[s] = h[s]
      <4>1. ASSUME NEW s \in UpTo(n - 1)  PROVE s \in UpTo(n) /\ k[s] = h[s]
        <5>1. s \in SUBSET S /\ Cardinality(s) <= n - 1 /\ Cardinality(s) \in Nat
          BY <1>1
        <5>2. s \in UpTo(n)
          BY <5>1, <3>n
        <5>3. h[s] = IF s = {} THEN 0 ELSE g[Pick(s)] + h[s \ {Pick(s)}]
          <6> HIDE DEF Pick, UpTo
          <6> QED BY <3>2
        <5> HIDE DEF Pick, UpTo
        <5> QED BY <5>2, <5>3
      <4> QED BY <4>1
    <3>4. \A s \in UpTo(n) : s # {} => s \ {Pick(s)} \in UpTo(n - 1)
      <4>1. ASSUME NEW s \in UpTo(n), s # {}  PROVE s \ {Pick(s)} \in UpTo(n - 1)
        <5>1. s \in SUBSET S /\ Cardinality(s) <= n /\ Cardinality(s) \in Nat
          BY <1>1
        <5> QED BY <4>1, <5>1, <1>2, <3>n
      <4> QED BY <4>1
    <3>5. Part(k, n)
      <4> HIDE DEF Pick
      <4>1. \A s \in UpTo(n) : k[s] = IF s = {} THEN 0 ELSE g[Pick(s)] + k[s \ {Pick(s)}]
        BY <3>3, <3>4
      <4> QED BY <4>1
    <3> QED BY <2>1, <3>5
  <2> QED BY <2>2, <2>3
<1>4. PICK h : Part(h, Cardinality(S))
  BY <1>1, <1>3
<1>5. UpTo(Cardinality(S)) = SUBSET S
  BY <1>1, FS_Subset
<1>6. SumOf(h, g, S)
  BY <1>4, <1>5 DEF SumOf
<1> QED BY <1>6

\* What the equation says.
LEMMA SumStep ==
  ASSUME NEW S, NEW g, NEW h, SumOf(h, g, S)
  PROVE  /\ h[{}] = 0
         /\ \A s \in SUBSET S : s # {} =>
              \E z \in s : h[s] = g[z] + h[s \ {z}]
<1>1. h[{}] = 0
  BY DEF SumOf
<1>2. ASSUME NEW s \in SUBSET S, s # {}
      PROVE  \E z \in s : h[s] = g[z] + h[s \ {z}]
  <2> DEFINE z == CHOOSE z \in s : TRUE
  <2>1. z \in s
    BY <1>2
  <2>2. h[s] = g[z] + h[s \ {z}]
    BY <1>2 DEF SumOf
  <2> QED BY <2>1, <2>2
<1> QED BY <1>1, <1>2

\* A sum of integers is one.
LEMMA SumInt ==
  ASSUME NEW S, IsFiniteSet(S), NEW g \in [S -> Int], NEW h, SumOf(h, g, S)
  PROVE  \A s \in SUBSET S : h[s] \in Int
<1> DEFINE Bad == {s \in SUBSET S : h[s] \notin Int}
<1> SUFFICES ASSUME Bad # {} PROVE FALSE
  OBVIOUS
<1>0. Bad \in SUBSET SUBSET S
  OBVIOUS
<1>1. PICK s \in Bad : \A u \in Bad : u \subseteq s => u = s
  <2> HIDE DEF Bad
  <2> QED BY <1>0, LeastSubset
<1>2. s \in SUBSET S /\ s # {}
  <2>1. h[{}] = 0
    BY SumStep
  <2>2. s \in SUBSET S /\ h[s] \notin Int
    BY <1>1
  <2> QED BY <2>1, <2>2
<1>3. PICK z \in s : h[s] = g[z] + h[s \ {z}]
  BY <1>2, SumStep
<1>4. h[s \ {z}] \in Int
  BY <1>1, <1>3
<1> QED BY <1>1, <1>3, <1>4

\* Any element may be taken out first.
LEMMA SumTake ==
  ASSUME NEW S, IsFiniteSet(S), NEW g \in [S -> Int], NEW h, SumOf(h, g, S)
  PROVE  \A s \in SUBSET S : \A y \in s : h[s] = g[y] + h[s \ {y}]
<1> DEFINE Bad == {s \in SUBSET S : \E y \in s : h[s] # g[y] + h[s \ {y}]}
<1> SUFFICES ASSUME Bad # {} PROVE FALSE
  OBVIOUS
<1>0. Bad \in SUBSET SUBSET S
  OBVIOUS
<1>1. PICK s \in Bad : \A u \in Bad : u \subseteq s => u = s
  <2> HIDE DEF Bad
  <2> QED BY <1>0, LeastSubset
<1>2. PICK y \in s : h[s] # g[y] + h[s \ {y}]
  BY <1>1
<1>3. PICK z \in s : h[s] = g[z] + h[s \ {z}]
  <2>1. s \in SUBSET S /\ s # {}
    BY <1>1, <1>2
  <2> QED BY <2>1, SumStep
<1>4. y # z
  BY <1>2, <1>3
<1>5. h[s \ {z}] = g[y] + h[(s \ {z}) \ {y}]
  <2>1. s \ {z} \notin Bad
    BY <1>1, <1>3
  <2> QED BY <1>1, <1>4, <2>1
<1>6. h[s \ {y}] = g[z] + h[(s \ {y}) \ {z}]
  <2>1. s \ {y} \notin Bad
    BY <1>1, <1>2
  <2> QED BY <1>1, <1>4, <2>1
<1>7. (s \ {z}) \ {y} = (s \ {y}) \ {z}
  OBVIOUS
<1>8. h[(s \ {y}) \ {z}] \in Int /\ g[y] \in Int /\ g[z] \in Int
  <2>1. (s \ {y}) \ {z} \in SUBSET S /\ y \in S /\ z \in S
    BY <1>1
  <2> QED BY <2>1, SumInt
<1>9. \A a, b, r \in Int : a + (b + r) = b + (a + r)
  OBVIOUS
<1>10. h[s] = g[z] + (g[y] + h[(s \ {y}) \ {z}])
  BY <1>3, <1>5, <1>7
<1>11. g[y] + h[s \ {y}] = g[y] + (g[z] + h[(s \ {y}) \ {z}])
  BY <1>6
<1>12. g[z] + (g[y] + h[(s \ {y}) \ {z}]) = g[y] + (g[z] + h[(s \ {y}) \ {z}])
  BY <1>8, <1>9, Zenon
<1> QED BY <1>2, <1>10, <1>11, <1>12, Zenon

\* Functions that agree on a set have the same sum over it.
LEMMA SumAgree ==
  ASSUME NEW S, IsFiniteSet(S), NEW g \in [S -> Int], NEW k \in [S -> Int],
         NEW h, SumOf(h, g, S), NEW j, SumOf(j, k, S),
         NEW T \in SUBSET S, \A z \in T : g[z] = k[z]
  PROVE  h[T] = j[T]
<1> DEFINE Bad == {s \in SUBSET T : h[s] # j[s]}
<1> SUFFICES ASSUME Bad # {} PROVE FALSE
  OBVIOUS
<1>1. PICK s \in Bad : \A u \in Bad : u \subseteq s => u = s
  <2>1. Bad \in SUBSET SUBSET S
    OBVIOUS
  <2> HIDE DEF Bad
  <2> QED BY <2>1, LeastSubset
<1>2. s \in SUBSET S /\ s \in SUBSET T /\ h[s] # j[s]
  BY <1>1
<1>3. s # {}
  <2>1. h[{}] = 0 /\ j[{}] = 0
    BY SumStep
  <2> QED BY <1>2, <2>1
<1>4. PICK z \in s : TRUE
  BY <1>3
<1>5. h[s] = g[z] + h[s \ {z}]
  BY <1>2, SumTake
<1>6. j[s] = k[z] + j[s \ {z}]
  <2>1. ASSUME NEW u \in SUBSET S, NEW y \in u  PROVE j[u] = k[y] + j[u \ {y}]
    BY SumTake
  <2> QED BY <1>2, <2>1
<1>7. h[s \ {z}] = j[s \ {z}]
  <2>1. s \ {z} \notin Bad
    BY <1>1, <1>4
  <2> QED BY <1>2, <2>1
<1>8. g[z] = k[z]
  BY <1>2, <1>4
<1> QED BY <1>2, <1>5, <1>6, <1>7, <1>8

\* The sum over a set is that over a part and that over the rest.
LEMMA SumSplit ==
  ASSUME NEW S, IsFiniteSet(S), NEW g \in [S -> Int], NEW h, SumOf(h, g, S),
         NEW T \in SUBSET S
  PROVE  h[S] = h[T] + h[S \ T]
<1> DEFINE Bad == {s \in SUBSET S : h[S] # h[s] + h[S \ s]}
<1> SUFFICES ASSUME Bad # {} PROVE FALSE
  OBVIOUS
<1>1. PICK s \in Bad : \A u \in Bad : u \subseteq s => u = s
  <2>1. Bad \in SUBSET SUBSET S
    OBVIOUS
  <2> HIDE DEF Bad
  <2> QED BY <2>1, LeastSubset
<1>2. s \in SUBSET S /\ h[S] # h[s] + h[S \ s]
  BY <1>1
<1>3. \A u \in SUBSET S : h[u] \in Int
  BY SumInt
<1>4. s # {}
  <2>1. h[{}] = 0 /\ S \ {} = S /\ h[S] \in Int
    BY <1>3, SumStep
  <2>2. h[S] = h[{}] + h[S \ {}]
    BY <2>1
  <2> QED BY <1>2, <2>2
<1>5. PICK z \in s : TRUE
  BY <1>4
<1>6. h[s] = g[z] + h[s \ {z}]
  BY <1>2, SumTake
<1>7. h[S] = h[s \ {z}] + h[S \ (s \ {z})]
  <2>1. s \ {z} \notin Bad
    BY <1>1, <1>5
  <2> QED BY <1>2, <2>1
<1>8. h[S \ (s \ {z})] = g[z] + h[S \ s]
  <2>1. S \ (s \ {z}) \in SUBSET S /\ z \in S \ (s \ {z})
    BY <1>2
  <2>2. (S \ (s \ {z})) \ {z} = S \ s
    BY <1>2, <1>5
  <2> QED BY <2>1, <2>2, SumTake
<1>9. h[s \ {z}] \in Int /\ h[S \ s] \in Int /\ g[z] \in Int
  <2>1. s \ {z} \in SUBSET S /\ S \ s \in SUBSET S /\ z \in S
    BY <1>2
  <2> QED BY <1>3, <2>1
<1>10. \A a, b, r \in Int : a + (b + r) = (b + a) + r
  OBVIOUS
<1> HIDE DEF Bad
<1> QED BY <1>2, <1>6, <1>7, <1>8, <1>9, <1>10

\* A sum over positions is the sum over what stands at them.
LEMMA SumReindex ==
  ASSUME NEW S, IsFiniteSet(S), NEW g \in [S -> Int], NEW h, SumOf(h, g, S),
         NEW I, IsFiniteSet(I), NEW o \in [I -> S],
         \A a, b \in I : o[a] = o[b] => a = b,
         NEW k \in [I -> Int], \A i \in I : k[i] = g[o[i]],
         NEW j, SumOf(j, k, I)
  PROVE  j[I] = h[{o[i] : i \in I}]
<1> DEFINE Bad == {s \in SUBSET I : j[s] # h[{o[i] : i \in s}]}
<1> SUFFICES ASSUME Bad # {} PROVE FALSE
  OBVIOUS
<1>1. PICK s \in Bad : \A u \in Bad : u \subseteq s => u = s
  <2>1. Bad \in SUBSET SUBSET I
    OBVIOUS
  <2> HIDE DEF Bad
  <2> QED BY <2>1, LeastSubset
<1>2. s \in SUBSET I /\ j[s] # h[{o[i] : i \in s}]
  BY <1>1
<1>3. s # {}
  <2>1. h[{}] = 0 /\ j[{}] = 0 /\ {o[i] : i \in {}} = {}
    BY SumStep
  <2> QED BY <1>2, <2>1
<1>4. PICK z \in s : TRUE
  BY <1>3
<1>5. j[s] = k[z] + j[s \ {z}]
  BY <1>2, SumTake
<1>6. h[{o[i] : i \in s}] = g[o[z]] + h[{o[i] : i \in s \ {z}}]
  <2>1. {o[i] : i \in s} \in SUBSET S /\ o[z] \in {o[i] : i \in s}
    BY <1>2
  <2>2. {o[i] : i \in s} \ {o[z]} = {o[i] : i \in s \ {z}}
    BY <1>2, <1>4
  <2>3. ASSUME NEW u \in SUBSET S, NEW y \in u  PROVE h[u] = g[y] + h[u \ {y}]
    BY SumTake
  <2>4. h[{o[i] : i \in s}] = g[o[z]] + h[{o[i] : i \in s} \ {o[z]}]
    <3> DEFINE u == {o[i] : i \in s}
               y == o[z]
    <3>1. u \in SUBSET S /\ y \in u
      BY <2>1
    <3> HIDE DEF u, y
    <3> QED BY <2>3, <3>1 DEF u, y
  <2> QED BY <2>2, <2>4, Zenon
<1>7. j[s \ {z}] = h[{o[i] : i \in s \ {z}}]
  <2>1. s \ {z} \notin Bad
    BY <1>1, <1>4
  <2> QED BY <1>2, <2>1
<1>8. k[z] = g[o[z]]
  BY <1>2, <1>4
<1> HIDE DEF Bad
<1> QED BY <1>2, <1>5, <1>6, <1>7, <1>8

\* A sum is no further from 0 than the number of its terms times a bound of each.
LEMMA SumBound ==
  ASSUME NEW S, IsFiniteSet(S), NEW g \in [S -> Int], NEW h, SumOf(h, g, S),
         NEW T \in SUBSET S, NEW b \in Nat, \A z \in T : Magnitude(g[z]) <= b
  PROVE  Magnitude(h[T]) <= Cardinality(T) * b
<1> DEFINE Bad == {s \in SUBSET T : ~(Magnitude(h[s]) <= Cardinality(s) * b)}
<1> SUFFICES ASSUME Bad # {} PROVE FALSE
  OBVIOUS
<1>1. PICK s \in Bad : \A u \in Bad : u \subseteq s => u = s
  <2>1. Bad \in SUBSET SUBSET S
    OBVIOUS
  <2> HIDE DEF Bad
  <2> QED BY <2>1, LeastSubset
<1>2. s \in SUBSET S /\ s \in SUBSET T /\ ~(Magnitude(h[s]) <= Cardinality(s) * b)
  BY <1>1
<1>3. s # {}
  <2>1. h[{}] = 0 /\ Cardinality({}) = 0
    BY SumStep, FS_EmptySet
  <2>2. Magnitude(0) <= 0 * b
    BY DEF Magnitude
  <2> QED BY <1>2, <2>1, <2>2
<1>4. PICK z \in s : TRUE
  BY <1>3
<1>5. h[s] = g[z] + h[s \ {z}]
  BY <1>2, SumTake
<1>6. Magnitude(h[s \ {z}]) <= Cardinality(s \ {z}) * b
  <2>1. s \ {z} \notin Bad
    BY <1>1, <1>4
  <2> QED BY <1>2, <2>1
<1>7. /\ Cardinality(s) \in Nat /\ Cardinality(s \ {z}) \in Nat
      /\ Cardinality(s) = Cardinality(s \ {z}) + 1
  <2>1. IsFiniteSet(s)
    BY <1>2, FS_Subset
  <2>2. /\ IsFiniteSet(s \ {z})
        /\ Cardinality(s \ {z}) = Cardinality(s) - 1
    BY <1>4, <2>1, FS_RemoveElement
  <2>3. Cardinality(s) \in Nat /\ Cardinality(s \ {z}) \in Nat
    BY <2>1, <2>2, FS_CardinalityType
  <2> QED BY <2>2, <2>3
<1>8. h[s \ {z}] \in Int /\ g[z] \in Int /\ Magnitude(g[z]) <= b
  <2>1. s \ {z} \in SUBSET S /\ z \in S /\ z \in T
    BY <1>2
  <2> QED BY <2>1, SumInt
<1>9. \A n \in Nat : (n + 1) * b = n * b + b /\ n * b \in Nat
  OBVIOUS
<1>10. \A u, v \in Int : Magnitude(u + v) <= Magnitude(u) + Magnitude(v)
  BY DEF Magnitude
<1>11. Magnitude(h[s \ {z}]) \in Nat /\ Magnitude(g[z]) \in Nat /\ Magnitude(h[s]) \in Nat
  <2>1. h[s] \in Int
    BY <1>5, <1>8
  <2> QED BY <1>8, <2>1 DEF Magnitude
<1>12. Magnitude(h[s]) <= Magnitude(g[z]) + Magnitude(h[s \ {z}])
  BY <1>5, <1>8, <1>10
<1>13. Cardinality(s) * b = Cardinality(s \ {z}) * b + b /\ Cardinality(s \ {z}) * b \in Nat
  BY <1>7, <1>9
<1> HIDE DEF Bad
<1> QED BY <1>2, <1>6, <1>8, <1>11, <1>12, <1>13

-----------------------------------------------------------------------------
(* The score, and what the factors tell of it, are such sums *)

\* The linear score is the sum of the features' terms.
LEMMA ScoreIsSum ==
  ASSUME NEW m, NEW x, NEW g \in [Features -> Int],
         \A f \in Features : g[f] = m.weight[f] * x[f]
  PROVE  \E h : SumOf(h, g, Features) /\ Score(m, x) = h[Features]
<1> DEFINE Body(k) == k = [s \in SUBSET Features |->
                             IF s = {} THEN 0
                             ELSE m.weight[CHOOSE z \in s : TRUE] * x[CHOOSE z \in s : TRUE]
                                    + k[s \ {CHOOSE z \in s : TRUE}]]
<1>1. Score(m, x) = (CHOOSE k : Body(k))[Features]
  BY DEF Score, MapThenSumSet, MapThenFoldSet
<1>2. ASSUME NEW k  PROVE Body(k) <=> SumOf(k, g, Features)
  <2>1. ASSUME NEW s \in SUBSET Features, s # {}
        PROVE  g[CHOOSE z \in s : TRUE] =
                 m.weight[CHOOSE z \in s : TRUE] * x[CHOOSE z \in s : TRUE]
    <3>1. (CHOOSE z \in s : TRUE) \in Features
      BY <2>1
    <3> QED BY <3>1
  <2>2. [s \in SUBSET Features |->
           IF s = {} THEN 0
           ELSE m.weight[CHOOSE z \in s : TRUE] * x[CHOOSE z \in s : TRUE]
                  + k[s \ {CHOOSE z \in s : TRUE}]]
        = [s \in SUBSET Features |->
             IF s = {} THEN 0
             ELSE g[CHOOSE z \in s : TRUE] + k[s \ {CHOOSE z \in s : TRUE}]]
    BY <2>1
  <2> QED BY <2>2 DEF SumOf
<1>3. \E k : Body(k)
  <2>1. \E k : SumOf(k, g, Features)
    BY SumExists, FeaturesAssumption
  <2> HIDE DEF Body
  <2> QED BY <1>2, <2>1
<1>4. Body(CHOOSE k : Body(k))
  <2> HIDE DEF Body
  <2> QED BY <1>3
<1> HIDE DEF Body
<1> QED BY <1>1, <1>2, <1>4

\* told of ListAccountsForScore.
Told(factors) == FoldFunction(LAMBDA p, sum : p.contribution + sum, 0, factors)

\* What factors tell is the sum of their contributions.
LEMMA ToldIsSum ==
  ASSUME NEW I, IsFiniteSet(I), NEW factors, DOMAIN factors = I,
         NEW g \in [I -> Int], \A i \in I : g[i] = factors[i].contribution
  PROVE  \E h : SumOf(h, g, I) /\ Told(factors) = h[I]
<1> DEFINE Body(k) == k = [s \in SUBSET I |->
                             IF s = {} THEN 0
                             ELSE factors[CHOOSE z \in s : TRUE].contribution
                                    + k[s \ {CHOOSE z \in s : TRUE}]]
<1>1. Told(factors) = (CHOOSE k : Body(k))[I]
  BY DEF Told, FoldFunction, FoldFunctionOnSet, MapThenFoldSet
<1>2. ASSUME NEW k  PROVE Body(k) <=> SumOf(k, g, I)
  <2>1. ASSUME NEW s \in SUBSET I, s # {}
        PROVE  g[CHOOSE z \in s : TRUE] = factors[CHOOSE z \in s : TRUE].contribution
    <3>1. (CHOOSE z \in s : TRUE) \in I
      BY <2>1
    <3> QED BY <3>1
  <2>2. [s \in SUBSET I |->
           IF s = {} THEN 0
           ELSE factors[CHOOSE z \in s : TRUE].contribution
                  + k[s \ {CHOOSE z \in s : TRUE}]]
        = [s \in SUBSET I |->
             IF s = {} THEN 0
             ELSE g[CHOOSE z \in s : TRUE] + k[s \ {CHOOSE z \in s : TRUE}]]
    BY <2>1
  <2> QED BY <2>2 DEF SumOf
<1>3. \E k : Body(k)
  <2>1. \E k : SumOf(k, g, I)
    BY SumExists
  <2> HIDE DEF Body
  <2> QED BY <1>2, <2>1
<1>4. Body(CHOOSE k : Body(k))
  <2> HIDE DEF Body
  <2> QED BY <1>3
<1> HIDE DEF Body
<1> QED BY <1>1, <1>2, <1>4

\* What one term does to a linear score: without it, the score is less by that term.
LEMMA ScoreWithout ==
  ASSUME NEW m, m.weight \in [Features -> Int], NEW x \in [Features -> Int],
         NEW f \in Features
  PROVE  /\ Score(m, x) \in Int
         /\ Score(m, [x EXCEPT ![f] = 0]) = Score(m, x) - m.weight[f] * x[f]
<1> DEFINE w == m.weight
           y == [x EXCEPT ![f] = 0]
           g == [e \in Features |-> w[e] * x[e]]
           k == [e \in Features |-> w[e] * y[e]]
<1>1. g \in [Features -> Int] /\ k \in [Features -> Int] /\ y \in [Features -> Int]
  <2>1. \A a, b \in Int : a * b \in Int
    OBVIOUS
  <2> QED BY <2>1
<1>2. /\ \A e \in Features : g[e] = m.weight[e] * x[e]
      /\ \A e \in Features : k[e] = m.weight[e] * y[e]
      /\ \A e \in Features \ {f} : g[e] = k[e]
  OBVIOUS
<1>3. k[f] = 0 /\ g[f] = m.weight[f] * x[f]
  <2>1. \A a \in Int : a * 0 = 0
    OBVIOUS
  <2> QED BY <2>1
<1> HIDE DEF w, g, k, y
<1>4. PICK h : SumOf(h, g, Features) /\ Score(m, x) = h[Features]
  BY <1>1, <1>2, ScoreIsSum
<1>5. PICK j : SumOf(j, k, Features) /\ Score(m, y) = j[Features]
  BY <1>1, <1>2, ScoreIsSum
<1>6. h[Features] = g[f] + h[Features \ {f}]
  <2>1. Features \in SUBSET Features
    OBVIOUS
  <2> QED BY <1>1, <1>4, <2>1, SumTake, FeaturesAssumption
<1>7. j[Features] = k[f] + j[Features \ {f}]
  <2>1. Features \in SUBSET Features
    OBVIOUS
  <2> QED BY <1>1, <1>5, <2>1, SumTake, FeaturesAssumption
<1>8. h[Features \ {f}] = j[Features \ {f}]
  <2>1. Features \ {f} \in SUBSET Features
    OBVIOUS
  <2> QED BY <1>1, <1>2, <1>4, <1>5, <2>1, SumAgree, FeaturesAssumption
<1>9. h[Features \ {f}] \in Int /\ g[f] \in Int
  <2>1. Features \ {f} \in SUBSET Features
    OBVIOUS
  <2> QED BY <1>1, <1>4, <2>1, SumInt, FeaturesAssumption
<1>10. Score(m, y) = Score(m, x) - m.weight[f] * x[f] /\ Score(m, x) \in Int
  BY <1>3, <1>4, <1>5, <1>6, <1>7, <1>8, <1>9
<1> QED BY <1>10 DEF y

-----------------------------------------------------------------------------
(* The ranking: argsort, top_k and the strengths *)

\* The smaller of two.
LEMMA MinOfTwo ==
  ASSUME NEW a \in Int, NEW b \in Int
  PROVE  Min({a, b}) = IF a <= b THEN a ELSE b
BY DEF Min

\* abs.
LEMMA MagnitudeType == \A n \in Int : Magnitude(n) \in Nat /\ (Magnitude(n) = 0 <=> n = 0)
BY DEF Magnitude

\* Neighbours in order, all in order.
LEMMA Sorted ==
  ASSUME NEW n \in Nat, NEW key \in [1..n -> Int],
         \A i \in 1..(n - 1) : key[i] <= key[i + 1]
  PROVE  \A i, j \in 1..n : i <= j => key[i] <= key[j]
<1> DEFINE Bad == {j \in 1..n : \E i \in 1..n : i <= j /\ ~(key[i] <= key[j])}
<1> SUFFICES ASSUME Bad # {} PROVE FALSE
  OBVIOUS
<1>1. PICK j \in Bad : \A k \in Bad : j <= k
  <2>1. Bad \in SUBSET Nat
    OBVIOUS
  <2> HIDE DEF Bad
  <2> QED BY <2>1, LeastNumber
<1>2. PICK i \in 1..n : i <= j /\ ~(key[i] <= key[j])
  BY <1>1
<1>3. j \in 1..n /\ i # j
  <2>1. j \in 1..n
    BY <1>1
  <2>2. key[i] <= key[i]
    BY <1>2
  <2> QED BY <1>2, <2>1, <2>2
<1>4. j - 1 \in 1..n /\ i <= j - 1 /\ ~(j <= j - 1)
  BY <1>2, <1>3
<1>5. key[i] <= key[j - 1]
  <2>1. j - 1 \notin Bad
    BY <1>1, <1>4
  <2> QED BY <1>4, <2>1
<1>6. key[j - 1] <= key[j]
  <2>1. j - 1 \in 1..(n - 1) /\ (j - 1) + 1 = j
    BY <1>3, <1>4
  <2>2. key[j - 1] <= key[(j - 1) + 1]
    BY <2>1
  <2> QED BY <2>1, <2>2
<1>7. key[i] \in Int /\ key[j - 1] \in Int /\ key[j] \in Int
  BY <1>2, <1>3, <1>4
<1> HIDE DEF Bad
<1> QED BY <1>2, <1>5, <1>6, <1>7

\* Every feature has its place in an argsort, and no smaller key stands behind it.
LEMMA ArgSortFacts ==
  ASSUME NEW key \in [Features -> Int], NEW s \in ArgSort(key)
  PROVE  /\ Cardinality(Features) \in Nat \ {0}
         /\ s \in [1..Cardinality(Features) -> Features]
         /\ \A i, j \in 1..Cardinality(Features) : s[i] = s[j] => i = j
         /\ \A f \in Features : \E i \in 1..Cardinality(Features) : s[i] = f
         /\ \A i, j \in 1..Cardinality(Features) : i <= j => key[s[i]] <= key[s[j]]
<1> DEFINE N == Cardinality(Features)
           k == [i \in 1..N |-> key[s[i]]]
<1>1. N \in Nat \ {0}
  BY FeaturesAssumption, FS_CardinalityType, FS_EmptySet
<1>2. /\ s \in [1..N -> Features] /\ IsInjective(s)
      /\ \A i \in 1..(N - 1) : key[s[i]] <= key[s[i + 1]]
  BY DEF ArgSort
<1>3. \A i, j \in 1..N : s[i] = s[j] => i = j
  BY <1>2 DEF IsInjective
<1>4. \A f \in Features : \E i \in 1..N : s[i] = f
  <2>1. s \in Injection(1..N, Features)
    BY <1>2 DEF Injection
  <2>2. Cardinality(1..N) = N
    BY <1>1, FS_Interval
  <2>3. s \in Surjection(1..N, Features)
    <3> HIDE DEF N
    <3> QED BY <2>1, <2>2, FeaturesAssumption, FS_Injection DEF N
  <2> QED BY <2>3 DEF Surjection
<1>5. \A i, j \in 1..N : i <= j => key[s[i]] <= key[s[j]]
  <2>1. k \in [1..N -> Int]
    BY <1>2
  <2>2. \A i \in 1..(N - 1) : k[i] <= k[i + 1]
    <3>1. \A i \in 1..(N - 1) : i \in 1..N /\ i + 1 \in 1..N
      BY <1>1
    <3> QED BY <1>2, <3>1
  <2>3. \A i, j \in 1..N : i <= j => k[i] <= k[j]
    <3> HIDE DEF N, k
    <3> QED BY <1>1, <2>1, <2>2, Sorted
  <2> QED BY <2>3
<1> QED BY <1>1, <1>2, <1>3, <1>4, <1>5

\* What a payload lists: distinct features, the largest contribution first, and no
\* contribution that is left out is larger than the last.
Ranked(o, c, n) ==
  /\ o \in [1..n -> Features]
  /\ \A i, j \in 1..n : o[i] = o[j] => i = j
  /\ \A i \in 1..n : Magnitude(c[o[i]]) <= Magnitude(c[o[1]])
  /\ \A f \in Features \ {o[i] : i \in 1..n} : Magnitude(c[f]) <= Magnitude(c[o[n]])

\* argsort(-|c|)[:top_k] is such a list.
LEMMA OrdersAreRanked ==
  ASSUME NEW c \in [Features -> Int], NEW o \in Orders(c)
  PROVE  \E n \in Nat \ {0} : Ranked(o, c, n)
<1> DEFINE N == Cardinality(Features)
           n == Min({TopK, N})
           key == [f \in Features |-> -Magnitude(c[f])]
<1>1. PICK s \in ArgSort(key) : o = SubSeq(s, 1, n)
  BY DEF Orders
<1>2. key \in [Features -> Int] /\ \A f \in Features : Magnitude(c[f]) \in Nat
  BY MagnitudeType
<1>3. /\ N \in Nat \ {0}
      /\ s \in [1..N -> Features]
      /\ \A i, j \in 1..N : s[i] = s[j] => i = j
      /\ \A f \in Features : \E i \in 1..N : s[i] = f
      /\ \A i, j \in 1..N : i <= j => key[s[i]] <= key[s[j]]
  <2> HIDE DEF key
  <2> QED BY <1>2, ArgSortFacts
<1>4. n \in Nat \ {0} /\ n <= N
  <2>1. TopK \in Nat \ {0} /\ N \in Nat \ {0}
    BY <1>3, BoundsAssumption
  <2> HIDE DEF N
  <2> QED BY <2>1, MinOfTwo
<1> HIDE DEF N, n
<1>5. \A i \in 1..n : i \in 1..N
  BY <1>3, <1>4
<1>6. o = [i \in 1..n |-> s[i]]
  <2>1. s \in Seq(Features) /\ Len(s) = N
    BY <1>3
  <2> QED BY <1>1, <1>4, <1>5, <2>1
<1>7. \A i, j \in 1..N : i <= j => Magnitude(c[s[j]]) <= Magnitude(c[s[i]])
  <2>1. ASSUME NEW i \in 1..N, NEW j \in 1..N, i <= j
        PROVE  Magnitude(c[s[j]]) <= Magnitude(c[s[i]])
    <3>1. s[i] \in Features /\ s[j] \in Features
      BY <1>3
    <3>2. -Magnitude(c[s[i]]) <= -Magnitude(c[s[j]])
      BY <1>3, <2>1, <3>1
    <3> QED BY <1>2, <3>1, <3>2
  <2> QED BY <2>1
<1>8. o \in [1..n -> Features]
  BY <1>3, <1>5, <1>6
<1>9. \A i, j \in 1..n : o[i] = o[j] => i = j
  BY <1>3, <1>5, <1>6
<1>10. \A i \in 1..n : Magnitude(c[o[i]]) <= Magnitude(c[o[1]])
  <2>1. 1 \in 1..n /\ 1 \in 1..N /\ \A i \in 1..n : 1 <= i
    BY <1>3, <1>4
  <2> QED BY <1>5, <1>6, <1>7, <2>1
<1>11. ASSUME NEW f \in Features \ {o[i] : i \in 1..n}
       PROVE  Magnitude(c[f]) <= Magnitude(c[o[n]])
  <2>1. PICK j \in 1..N : s[j] = f
    BY <1>3
  <2>2. j \notin 1..n
    BY <1>6, <2>1
  <2>3. n \in 1..n /\ n \in 1..N /\ n <= j
    BY <1>3, <1>4, <2>2
  <2> QED BY <1>6, <1>7, <2>1, <2>3
<1> HIDE DEF key
<1> QED BY <1>4, <1>8, <1>9, <1>10, <1>11 DEF Ranked

\* max_abs is the contribution in front.
LEMMA LargestIsFirst ==
  ASSUME NEW c \in [Features -> Int], NEW o, NEW n \in Nat \ {0}, Ranked(o, c, n)
  PROVE  Max({Magnitude(c[o[i]]) : i \in DOMAIN o}) = Magnitude(c[o[1]])
<1> DEFINE L == {Magnitude(c[o[i]]) : i \in DOMAIN o}
           l == Magnitude(c[o[1]])
<1>1. /\ o \in [1..n -> Features] /\ 1 \in 1..n
      /\ \A i \in 1..n : Magnitude(c[o[i]]) <= l
  BY DEF Ranked
<1>2. \A i \in 1..n : Magnitude(c[o[i]]) \in Nat
  BY <1>1, MagnitudeType
<1>3. l \in L /\ \A k \in L : l >= k
  BY <1>1, <1>2
<1>4. \A k \in L : k \in Nat
  BY <1>1, <1>2
<1>5. \A x \in L : (\A y \in L : x >= y) => x = l
  <2> HIDE DEF L, l
  <2>1. ASSUME NEW x \in L, \A y \in L : x >= y  PROVE x = l
    <3>1. x >= l /\ l >= x /\ x \in Nat /\ l \in Nat
      BY <1>3, <1>4, <2>1
    <3> QED BY <3>1
  <2> QED BY <2>1
<1> HIDE DEF L, l
<1>6. Max(L) = l
  BY <1>3, <1>5 DEF Max
<1> QED BY <1>6 DEF L, l

\* The nearest part: of a natural number one, and of the largest all.
LEMMA HalfUp ==
  ASSUME NEW l \in Nat \ {0}, NEW a \in Nat, NEW b \in Nat
  PROVE  /\ (2 * a * b + l) \div (2 * l) \in Nat
         /\ (2 * l * b + l) \div (2 * l) = b
<1>1. 2 * a * b \in Nat /\ 2 * l \in Nat \ {0} /\ 2 * l * b \in Nat /\ l < 2 * l
  OBVIOUS
<1>2. \A d \in Nat \ {0}, k \in Nat : k \div d \in Nat
  OBVIOUS
<1>3. 2 * l * b + l = (2 * l) * b + l
  OBVIOUS
<1>4. \A d \in Nat \ {0}, q, r \in Nat : r < d => (d * q + r) \div d = q
  OBVIOUS
<1>5. (2 * a * b + l) \in Nat
  BY <1>1
<1> QED BY <1>1, <1>2, <1>3, <1>4, <1>5

\* The strength of a factor is a share, all of it for a largest one.
LEMMA StrengthFacts ==
  ASSUME NEW a \in Int, NEW l \in Nat, Magnitude(a) <= l
  PROVE  /\ Strength(a, l) \in 0..Full
         /\ Magnitude(a) = l => Strength(a, l) = IF l # 0 THEN Full ELSE 0
         /\ l = 0 => Strength(a, l) = 0
<1>1. Full \in Nat \ {0} /\ Magnitude(a) \in Nat
  BY BoundsAssumption, MagnitudeType
<1>2. CASE l = 0
  BY <1>1, <1>2 DEF Strength
<1>3. CASE l # 0
  <2> DEFINE q == (2 * Magnitude(a) * Full + l) \div (2 * l)
  <2>1. q \in Nat /\ (Magnitude(a) = l => q = Full)
    BY <1>1, <1>3, HalfUp
  <2>2. Strength(a, l) = Min({Full, q})
    BY <1>3 DEF Strength
  <2> HIDE DEF q
  <2>3. Min({Full, q}) = IF Full <= q THEN Full ELSE q
    BY <1>1, <2>1, MinOfTwo
  <2> QED BY <1>1, <1>3, <2>1, <2>2, <2>3
<1> QED BY <1>2, <1>3

-----------------------------------------------------------------------------
(* Payloads, and what a response makes of them *)

\* Contributions are integers, and those of a linear model its terms.
LEMMA ContributionsType ==
  ASSUME NEW m \in Models, NEW x \in [Features -> Values]
  PROVE  /\ m.weight \in [Features -> Int] /\ x \in [Features -> Int]
         /\ m.kind \in {"linear", "trees", "other"}
         /\ Contributions(m, x) \in [Features -> Int]
         /\ m.kind = "linear" => \A f \in Features : Contributions(m, x)[f] = m.weight[f] * x[f]
<1>1. m.weight \in [Features -> Int] /\ x \in [Features -> Int]
  BY NumbersAssumption DEF Models
<1>2. m.kind \in {"linear", "trees", "other"}
  BY DEF Models
<1>3. \A f \in Features : Contribution(m, x, f) \in Int
  <2>1. \A a, b \in Int : a * b \in Int
    OBVIOUS
  <2>2. \A f \in Features : m.weight[f] \in Int /\ x[f] \in Int /\ Magnitude(x[f]) \in Int
    BY <1>1, MagnitudeType
  <2> QED BY <2>1, <2>2 DEF Contribution
<1>4. m.kind = "linear" => \A f \in Features : Contributions(m, x)[f] = m.weight[f] * x[f]
  BY DEF Contributions, Contribution
<1> QED BY <1>1, <1>2, <1>3, <1>4 DEF Contributions

\* What a payload of a model that explains itself consists of.
Lists(p, m, c, o, n) ==
  /\ Ranked(o, c, n)
  /\ p = Payload(m.kind, o[1], [i \in 1..n |-> Factor(m, c, o[i], Magnitude(c[o[1]]))])

\* build_risk_explanation_payload builds such a payload, or one without factors.
LEMMA PayloadsAreLists ==
  ASSUME NEW m \in Models, NEW x \in [Features -> Values], NEW p \in Payloads(m, x)
  PROVE  IF m.kind = "other" THEN p = Payload("unavailable", Null, <<>>)
         ELSE \E o : \E n \in Nat \ {0} : Lists(p, m, Contributions(m, x), o, n)
<1>1. CASE m.kind = "other"
  BY <1>1 DEF Payloads
<1>2. CASE m.kind # "other"
  <2> DEFINE c == Contributions(m, x)
  <2>1. c \in [Features -> Int]
    BY ContributionsType
  <2> HIDE DEF c
  <2>2. PICK o \in Orders(c) :
           p = Payload(m.kind, o[1],
                 [i \in DOMAIN o |->
                    Factor(m, c, o[i], Max({Magnitude(c[o[j]]) : j \in DOMAIN o}))])
    BY <1>2 DEF Payloads, c
  <2>3. PICK n \in Nat \ {0} : Ranked(o, c, n)
    BY <2>1, OrdersAreRanked
  <2>4. Max({Magnitude(c[o[j]]) : j \in DOMAIN o}) = Magnitude(c[o[1]])
    BY <2>1, <2>3, LargestIsFirst
  <2>5. DOMAIN o = 1..n
    BY <2>3 DEF Ranked
  <2>6. Lists(p, m, c, o, n)
    BY <2>2, <2>3, <2>4, <2>5 DEF Lists
  <2> QED BY <1>2, <2>6 DEF c
<1> QED BY <1>1, <1>2

\* The factors of such a payload, one by one.
LEMMA ListedFactors ==
  ASSUME NEW m \in Models, NEW c \in [Features -> Int], NEW p, NEW o, NEW n \in Nat \ {0},
         Lists(p, m, c, o, n), NEW i \in 1..n
  PROVE  /\ o[i] \in Features /\ c[o[i]] \in Int
         /\ Magnitude(c[o[i]]) <= Magnitude(c[o[1]])
         /\ p.factors[i].feature = o[i] /\ p.factors[i].contribution = c[o[i]]
         /\ p.factors[i].direction = Direction(m, c[o[i]])
         /\ p.factors[i].strength = Strength(c[o[i]], Magnitude(c[o[1]]))
         /\ p.factors[i] \in RiskFactorItem
         /\ p.factors[i].strength \in 0..Full
<1>1. o \in [1..n -> Features] /\ Magnitude(c[o[i]]) <= Magnitude(c[o[1]])
  BY DEF Lists, Ranked
<1>2. o[i] \in Features /\ c[o[i]] \in Int /\ o[1] \in Features
  BY <1>1
<1>3. p.factors[i] = Factor(m, c, o[i], Magnitude(c[o[1]]))
  BY DEF Lists, Payload
<1>4. Strength(c[o[i]], Magnitude(c[o[1]])) \in 0..Full
  <2>1. Magnitude(c[o[1]]) \in Nat
    BY <1>2, MagnitudeType
  <2> QED BY <1>1, <1>2, <2>1, StrengthFacts
<1>5. Direction(m, c[o[i]]) \in {"increases", "decreases", "notable"}
  BY DEF Direction
<1>6. \A k \in 0..Full : k \in Int
  OBVIOUS
<1> QED BY <1>1, <1>2, <1>3, <1>4, <1>5, <1>6 DEF Factor, RiskFactorItem

\* Its type; the response's schema accepts it.
LEMMA ListsType ==
  ASSUME NEW m \in Models, m.kind # "other", NEW c \in [Features -> Int],
         NEW p, NEW o, NEW n \in Nat \ {0}, Lists(p, m, c, o, n)
  PROVE  /\ p \in RiskExplanationPayload /\ p.method = m.kind
         /\ p.factors \in [1..n -> RiskFactorItem] /\ Len(p.factors) = n
         /\ Showable(p)
<1>1. \A i \in 1..n : /\ p.factors[i] \in RiskFactorItem
                      /\ p.factors[i].strength \in 0..Full
  BY ListedFactors
<1>2. p = Payload(m.kind, o[1], p.factors) /\ DOMAIN p.factors = 1..n
      /\ p.factors = [i \in 1..n |-> p.factors[i]]
  BY DEF Lists, Payload
<1>3. p.factors \in [1..n -> RiskFactorItem]
  BY <1>1, <1>2
<1>4. p.factors \in Seq(RiskFactorItem) /\ Len(p.factors) = n
  BY <1>3
<1>5. o[1] \in Features /\ m.kind \in {"linear", "trees"}
  BY DEF Lists, Ranked, Models
<1>6. p \in RiskExplanationPayload /\ p.method = m.kind
  <2> DEFINE fs == p.factors
  <2>1. p = [method |-> m.kind, signal |-> o[1], factors |-> fs] /\ fs \in Seq(RiskFactorItem)
    BY <1>2, <1>4 DEF Payload
  <2> HIDE DEF fs
  <2> QED BY <1>5, <2>1 DEF RiskExplanationPayload
<1> QED BY <1>1, <1>2, <1>3, <1>4, <1>6 DEF Showable

\* The same of a payload without factors,
LEMMA UnavailableType ==
  LET p == Payload("unavailable", Null, <<>>)
  IN  p \in RiskExplanationPayload /\ Showable(p) /\ p.method = "unavailable"
BY DEF Payload, RiskExplanationPayload, Showable

\* of whatever a model's payload is,
LEMMA PayloadsType ==
  ASSUME NEW m \in Models, NEW x \in [Features -> Values], NEW p \in Payloads(m, x)
  PROVE  /\ p \in RiskExplanationPayload /\ Showable(p)
         /\ p.method \in {"linear", "trees", "unavailable"} /\ p # Null
<1>1. CASE m.kind = "other"
  <2>1. p = Payload("unavailable", Null, <<>>)
    BY <1>1, PayloadsAreLists
  <2> QED BY <2>1, UnavailableType, NullAssumption
<1>2. CASE m.kind # "other"
  <2>1. PICK o : \E n \in Nat \ {0} : Lists(p, m, Contributions(m, x), o, n)
    BY <1>2, PayloadsAreLists
  <2>2. PICK n \in Nat \ {0} : Lists(p, m, Contributions(m, x), o, n)
    BY <2>1
  <2>3. Contributions(m, x) \in [Features -> Int] /\ m.kind \in {"linear", "trees"}
    BY <1>2, ContributionsType
  <2>4. p \in RiskExplanationPayload /\ Showable(p) /\ p.method = m.kind
    BY <1>2, <2>2, <2>3, ListsType
  <2> QED BY <2>3, <2>4, NullAssumption
<1> QED BY <1>1, <1>2

\* and of the stub's.
LEMMA StubPayloadType ==
  ASSUME NEW h \in Amounts, NEW a \in Amounts
  PROVE  /\ StubPayload(h, a) \in RiskExplanationPayload /\ Showable(StubPayload(h, a))
         /\ StubPayload(h, a).method = "stub" /\ StubPayload(h, a) # Null
<1> DEFINE s == Min({Full, a * 50 + Full \div 10})
           first == [feature |-> "demo_hash", direction |-> "notable", strength |-> Full,
                     contribution |-> h]
           second == [feature |-> "amount_normalized", direction |-> "notable",
                      strength |-> s, contribution |-> a]
<1>1. h \in Int /\ a \in Nat /\ Full \in Nat \ {0}
  BY NumbersAssumption, BoundsAssumption
<1>2. a * 50 + Full \div 10 \in Nat
  <2>1. \A k \in Nat : k \div 10 \in Nat /\ k * 50 \in Nat
    OBVIOUS
  <2>2. Full \div 10 \in Nat /\ a * 50 \in Nat
    BY <1>1, <2>1
  <2> QED BY <2>2
<1>3. s \in 0..Full
  <2> DEFINE q == a * 50 + Full \div 10
  <2>1. q \in Nat
    BY <1>2
  <2> HIDE DEF q
  <2>2. Min({Full, q}) = IF Full <= q THEN Full ELSE q
    BY <1>1, <2>1, MinOfTwo
  <2>3. Min({Full, q}) \in 0..Full
    BY <1>1, <2>1, <2>2
  <2> QED BY <2>3 DEF q
<1> HIDE DEF s
<1>4. first \in RiskFactorItem /\ second \in RiskFactorItem
  BY <1>1, <1>3 DEF RiskFactorItem
<1>5. StubPayload(h, a) = Payload("stub", Null, <<first, second>>)
  BY DEF StubPayload, s
<1>6. first.strength \in 0..Full /\ second.strength \in 0..Full
  BY <1>1, <1>3
<1> HIDE DEF first, second
<1>7. <<first, second>> \in Seq(RiskFactorItem) /\ DOMAIN <<first, second>> = {1, 2}
  BY <1>4
<1>8. StubPayload(h, a) \in RiskExplanationPayload /\ StubPayload(h, a).method = "stub"
  BY <1>5, <1>7 DEF Payload, RiskExplanationPayload
<1>9. Showable(StubPayload(h, a))
  <2>1. StubPayload(h, a).factors = <<first, second>>
    BY <1>5 DEF Payload
  <2> QED BY <1>6, <1>7, <2>1 DEF Showable
<1> QED BY <1>8, <1>9, NullAssumption

\* What a response makes of something stored.
LEMMA FromDomainOfPayload ==
  ASSUME NEW p, p.method \notin {"none", "flat", "scalar", "seeded"}
  PROVE  FromDomain(p) = {IF Showable(p) THEN p ELSE Invalid}
BY DEF FromDomain

\* A flat map gives notable factors, whatever its numbers are, or nothing is shown.
LEMMA FromDomainOfOther ==
  ASSUME NEW p \in FlatMaps \cup {Nothing}, NEW s \in FromDomain(p)
  PROVE  \/ s = Nothing
         \/ /\ s \in RiskExplanationPayload /\ s.method = "legacy_cache"
            /\ \A i \in DOMAIN s.factors : s.factors[i].direction = "notable"
<1>1. CASE p = Nothing
  BY <1>1 DEF FromDomain, Nothing
<1>2. CASE p \in FlatMaps
  <2>1. PICK v \in [Features -> OldNumbers \cup {Null}] : p = [method |-> "flat", numbers |-> v]
    BY <1>2 DEF FlatMaps
  <2>2. PICK f \in OldFactors(v) :
           s = IF f = <<>> THEN Nothing ELSE Payload("legacy_cache", Null, f)
    BY <2>1 DEF FromDomain
  <2> DEFINE numeric == {e \in Features : v[e] # Null}
             N == Cardinality(numeric)
             n == Min({N, OldLimit})
  <2>3. PICK t \in [1..N -> numeric] :
           f = [i \in 1..n |->
                  [feature |-> t[i], direction |-> "notable",
                   strength |-> Min({Full, Magnitude(v[t[i]])}), contribution |-> v[t[i]]]]
    BY <2>2 DEF OldFactors
  <2>4. N \in Nat
    <3>1. numeric \in SUBSET Features
      OBVIOUS
    <3>2. IsFiniteSet(numeric)
      <4> HIDE DEF numeric
      <4> QED BY <3>1, FS_Subset, FeaturesAssumption
    <3> QED BY <3>2, FS_CardinalityType
  <2>5. n \in Nat /\ n <= N
    <3> HIDE DEF N
    <3>1. n = IF N <= OldLimit THEN N ELSE OldLimit
      BY <2>4, MinOfTwo, BoundsAssumption
    <3> QED BY <2>4, <3>1, BoundsAssumption
  <2>6. ASSUME NEW i \in 1..n
        PROVE  f[i] \in RiskFactorItem /\ f[i].direction = "notable"
    <3>1. t[i] \in numeric
      <4>1. i \in 1..N
        BY <2>4, <2>5
      <4> HIDE DEF numeric, N, n
      <4> QED BY <4>1
    <3>2. t[i] \in Features /\ v[t[i]] \in Int
      BY <2>1, <3>1, NumbersAssumption
    <3>3. Min({Full, Magnitude(v[t[i]])}) \in Int
      <4>1. Full \in Int /\ Magnitude(v[t[i]]) \in Int
        BY <3>2, MagnitudeType, BoundsAssumption
      <4>2. \A a, b \in Int : Min({a, b}) \in Int
        BY MinOfTwo
      <4> QED BY <4>1, <4>2
    <3> HIDE DEF numeric, N, n
    <3> QED BY <2>3, <3>2, <3>3 DEF RiskFactorItem
  <2> HIDE DEF numeric, N, n
  <2>7. DOMAIN f = 1..n /\ f \in Seq(RiskFactorItem)
    <3>1. f \in [1..n -> RiskFactorItem]
      BY <2>3, <2>6
    <3> QED BY <2>5, <3>1
  <2>8. CASE f # <<>>
    <3>1. s = Payload("legacy_cache", Null, f)
      BY <2>2, <2>8
    <3> QED BY <2>6, <2>7, <3>1 DEF Payload, RiskExplanationPayload
  <2> QED BY <2>2, <2>8
<1> QED BY <1>1, <1>2

\* What the seed script stored unread is shown as it is, if that can be, or not at all.
LEMMA FromDomainOfSeeded ==
  ASSUME NEW p \in SeededPayloads \cup {Scalar}, NEW s \in FromDomain(p)
  PROVE  \/ s = Invalid
         \/ s \in RiskExplanationPayload /\ s.method = "demo-seed"
<1>1. CASE p = Scalar
  BY <1>1 DEF FromDomain, Scalar
<1>2. CASE p \in SeededPayloads
  <2>0. PICK n \in 0..MaxSeeded :
          \E c \in BOOLEAN, r \in [1..n -> SeededStrengths] :
            p = [method |-> "seeded", complete |-> c, strengths |-> r]
    BY <1>2 DEF SeededPayloads
  <2>1. PICK c \in BOOLEAN, r \in [1..n -> SeededStrengths] :
          p = [method |-> "seeded", complete |-> c, strengths |-> r]
    BY <2>0
  <2>2. s \in {AsPayload(p), Invalid}
    BY <2>1 DEF FromDomain
  <2>3. AsPayload(p) \in RiskExplanationPayload /\ AsPayload(p).method = "demo-seed"
    <3> DEFINE fs == [i \in 1..n |->
                        [feature |-> "seeded", direction |-> "notable", strength |-> r[i],
                         contribution |-> 0]]
    <3>1. AsPayload(p) = Payload("demo-seed", Null, fs)
      BY <2>1 DEF AsPayload
    <3>2. \A i \in 1..n : r[i] \in Int
      BY NumbersAssumption
    <3>3. fs \in [1..n -> RiskFactorItem]
      BY <3>2 DEF RiskFactorItem
    <3>4. n \in Nat
      BY NumbersAssumption
    <3> HIDE DEF fs
    <3>5. fs \in Seq(RiskFactorItem)
      BY <3>3, <3>4
    <3> QED BY <3>1, <3>5 DEF Payload, RiskExplanationPayload
  <2> QED BY <2>2, <2>3
<1> QED BY <1>1, <1>2

-----------------------------------------------------------------------------
(* The invariant *)

\* Types of the explanation's state.
TypeOK ==
  /\ model \in Models \cup {Stub}
  /\ row \in [Features -> Values] \cup {Null}
  /\ stored \in RiskExplanationPayload \cup Others \cup {Null}
  /\ shown \in RiskExplanationPayload \cup {Nothing, Invalid, Null}

\* What is stored is what the stub, another writer or, if there is a row, the model made.
StoredInv ==
  /\ stored = Null => row = Null /\ shown = Null
  /\ row # Null =>
       /\ model \in Models /\ row \in [Features -> Values]
       /\ stored \in Payloads(model, row)
  /\ (row = Null /\ stored # Null) =>
       stored \in Others \cup {StubPayload(h, a) : h, a \in Amounts}

\* And what is shown was made of it.
ExplanationInv ==
  /\ model \in Models \cup {Stub}
  /\ StoredInv
  /\ shown # Null => stored # Null /\ shown \in FromDomain(stored)

\* It holds before the prediction,
LEMMA InitExplanation == Init => ExplanationInv
BY DEF Init, ExplanationInv, StoredInv

\* and every step keeps it: a payload is stored at most once, and never None.
LEMMA NextExplanation == ExplanationInv /\ [Next]_vars => ExplanationInv'
<1> SUFFICES ASSUME ExplanationInv, [Next]_vars PROVE ExplanationInv'
  OBVIOUS
<1> USE DEF ExplanationInv, StoredInv
<1>1. ASSUME NEW x \in [Features -> Values], Explain(x)  PROVE ExplanationInv'
  <2>1. /\ stored = Null /\ row = Null /\ shown = Null /\ model \in Models
        /\ row' = x /\ stored' \in Payloads(model, x) /\ model' = model /\ shown' = shown
    BY <1>1 DEF Explain
  <2>2. x # Null /\ stored' # Null
    BY <2>1, PayloadsType, NullAssumption
  <2> QED BY <2>1, <2>2
<1>2. ASSUME NEW h \in Amounts, NEW a \in Amounts, ExplainByStub(h, a)
      PROVE  ExplanationInv'
  <2>1. /\ stored = Null /\ row = Null /\ shown = Null
        /\ stored' = StubPayload(h, a) /\ model' = model /\ row' = row /\ shown' = shown
    BY <1>2 DEF ExplainByStub
  <2> QED BY <2>1, StubPayloadType
<1>3. ASSUME NEW p \in Others, StoreOther(p)  PROVE ExplanationInv'
  <2>1. /\ stored = Null /\ row = Null /\ shown = Null
        /\ stored' = p /\ model' = model /\ row' = row /\ shown' = shown
    BY <1>3 DEF StoreOther
  <2> QED BY <2>1, NullAssumption
<1>4. ASSUME Respond  PROVE ExplanationInv'
  BY <1>4 DEF Respond
<1>5. ASSUME UNCHANGED vars  PROVE ExplanationInv'
  BY <1>5 DEF vars
<1> QED BY <1>1, <1>2, <1>3, <1>4, <1>5 DEF Next

\* What is shown was made of what is stored, and that of the row, in every behaviour.
THEOREM ExplanationInvariant == ExplanationSpec => []ExplanationInv
BY InitExplanation, NextExplanation, PTL DEF ExplanationSpec

\* What is shown, by what it was made of.
LEMMA ShownFacts ==
  ASSUME ExplanationInv, shown # Null
  PROVE  \/ /\ row # Null /\ shown = stored /\ shown \in Payloads(model, row)
            /\ model \in Models /\ row \in [Features -> Values]
         \/ /\ row = Null
            /\ \/ shown = Nothing
               \/ /\ shown \in RiskExplanationPayload
                  /\ shown.method \in {"stub", "legacy_cache", "demo-seed"}
               \/ shown = Invalid /\ stored \in SeededPayloads \cup {Scalar}
<1> USE DEF ExplanationInv, StoredInv
<1>1. stored # Null /\ shown \in FromDomain(stored)
  OBVIOUS
<1>2. CASE row # Null
  <2>1. model \in Models /\ row \in [Features -> Values] /\ stored \in Payloads(model, row)
    BY <1>2
  <2>2. Showable(stored) /\ stored.method \notin {"none", "flat", "scalar", "seeded"}
    BY <2>1, PayloadsType
  <2>3. shown = stored
    BY <1>1, <2>2, FromDomainOfPayload
  <2> QED BY <1>2, <2>1, <2>3
<1>3. CASE row = Null /\ stored \in FlatMaps \cup {Nothing}
  <2> HIDE DEF ExplanationInv
  <2>1. \/ shown = Nothing
        \/ shown \in RiskExplanationPayload /\ shown.method = "legacy_cache"
    BY <1>1, <1>3, FromDomainOfOther
  <2> QED BY <1>3, <2>1
<1>4. CASE row = Null /\ stored \in {StubPayload(h, a) : h, a \in Amounts}
  <2>1. PICK h \in Amounts, a \in Amounts : stored = StubPayload(h, a)
    BY <1>4
  <2>2. /\ stored \in RiskExplanationPayload /\ Showable(stored)
        /\ stored.method = "stub"
    BY <2>1, StubPayloadType
  <2>3. shown = stored
    BY <1>1, <2>2, FromDomainOfPayload
  <2> QED BY <1>4, <2>2, <2>3
<1>5. CASE row = Null /\ stored \in SeededPayloads \cup {Scalar}
  BY <1>1, <1>5, FromDomainOfSeeded
<1> QED BY <1>1, <1>2, <1>3, <1>4, <1>5 DEF Others

\* All state is of its type.
THEOREM ExplanationTypes == ExplanationSpec => []TypeOK
<1>1. ASSUME ExplanationInv  PROVE TypeOK
  <2>1. model \in Models \cup {Stub} /\ row \in [Features -> Values] \cup {Null}
    BY <1>1 DEF ExplanationInv, StoredInv
  <2>2. stored \in RiskExplanationPayload \cup Others \cup {Null}
    <3>1. CASE row # Null
      <4>1. stored \in Payloads(model, row) /\ model \in Models /\ row \in [Features -> Values]
        BY <1>1, <3>1 DEF ExplanationInv, StoredInv
      <4> QED BY <4>1, PayloadsType
    <3>2. CASE row = Null /\ stored \in {StubPayload(h, a) : h, a \in Amounts}
      <4>1. PICK h \in Amounts, a \in Amounts : stored = StubPayload(h, a)
        BY <3>2
      <4> QED BY <4>1, StubPayloadType
    <3>3. CASE row = Null /\ stored \in Others \cup {Null}
      BY <3>3
    <3> QED BY <1>1, <3>1, <3>2, <3>3 DEF ExplanationInv, StoredInv
  <2>3. shown \in RiskExplanationPayload \cup {Nothing, Invalid, Null}
    <3>1. CASE shown # Null /\ row # Null
      <4>1. /\ shown \in Payloads(model, row)
            /\ model \in Models /\ row \in [Features -> Values]
        BY <1>1, <3>1, ShownFacts
      <4> QED BY <4>1, PayloadsType
    <3>2. CASE shown # Null /\ row = Null
      BY <1>1, <3>2, ShownFacts
    <3> QED BY <3>1, <3>2
  <2> QED BY <2>1, <2>2, <2>3 DEF TypeOK
<1> QED BY <1>1, ExplanationInvariant, PTL

-----------------------------------------------------------------------------
(* The promises *)

\* What a shown direction says of the class that coef_ is about.
LEMMA DirectionOfScore ==
  ASSUME NEW m \in Models, m.kind = "linear", NEW x \in [Features -> Values],
         NEW p \in Payloads(m, x), NEW i \in DOMAIN p.factors
  PROVE  LET d == p.factors[i].direction
             f == p.factors[i].feature
         IN  /\ f \in Features
             /\ Score(m, x) \in Int /\ Score(m, [x EXCEPT ![f] = 0]) \in Int
             /\ d \in {"increases", "decreases", "notable"}
             /\ d = "increases" => Score(m, [x EXCEPT ![f] = 0]) < Score(m, x)
             /\ d = "decreases" => Score(m, [x EXCEPT ![f] = 0]) > Score(m, x)
<1> DEFINE c == Contributions(m, x)
           d == p.factors[i].direction
           f == p.factors[i].feature
<1>1. /\ m.weight \in [Features -> Int] /\ x \in [Features -> Int]
      /\ c \in [Features -> Int]
      /\ \A e \in Features : c[e] = m.weight[e] * x[e]
  BY ContributionsType
<1>2. PICK o : \E n \in Nat \ {0} : Lists(p, m, c, o, n)
  BY PayloadsAreLists
<1>3. PICK n \in Nat \ {0} : Lists(p, m, c, o, n)
  BY <1>2
<1>4. i \in 1..n
  BY <1>3 DEF Lists, Payload
<1> HIDE DEF c
<1>5. /\ o[i] \in Features /\ c[o[i]] \in Int
      /\ f = o[i] /\ d = Direction(m, c[o[i]])
  BY <1>1, <1>3, <1>4, ListedFactors
<1> HIDE DEF f, d
<1>7. /\ Score(m, x) \in Int
      /\ Score(m, [x EXCEPT ![f] = 0]) = Score(m, x) - c[f]
  <2>1. f \in Features /\ c[f] = m.weight[f] * x[f]
    BY <1>1, <1>5
  <2>2. Score(m, [x EXCEPT ![f] = 0]) = Score(m, x) - m.weight[f] * x[f]
    BY <1>1, <2>1, ScoreWithout
  <2>3. Score(m, x) \in Int
    BY <1>1, <2>1, ScoreWithout
  <2> QED BY <2>1, <2>2, <2>3
<1>8. /\ d \in {"increases", "decreases", "notable"}
      /\ d = "increases" => c[f] > 0
      /\ d = "decreases" => c[f] < 0
  <2>1. c[f] \in Int /\ Negligible \in Nat
    BY <1>5, BoundsAssumption
  <2>2. d = Direction(m, c[f])
    BY <1>5
  <2> QED BY <2>1, <2>2 DEF Direction, Magnitude
<1>9. f \in Features /\ c[f] \in Int
  BY <1>5
<1>10. /\ Score(m, [x EXCEPT ![f] = 0]) \in Int
       /\ d = "increases" => Score(m, [x EXCEPT ![f] = 0]) < Score(m, x)
       /\ d = "decreases" => Score(m, [x EXCEPT ![f] = 0]) > Score(m, x)
  BY <1>7, <1>8, <1>9
<1> QED BY <1>7, <1>8, <1>9, <1>10 DEF f, d

\* What a client is shown of a linear model's row is that model's payload of it.
LEMMA LinearShown ==
  ASSUME ExplanationInv, Linear, shown \notin {Null, Invalid}
  PROVE  /\ model \in Models /\ model.kind = "linear"
         /\ row \in [Features -> Values] /\ shown \in Payloads(model, row)
BY ShownFacts DEF Linear

\* Whatever weights, rows and lists are: if fraud is the second of the classes, a factor
\* shown as increasing the risk is one without which the score of fraud would be lower.
THEOREM DirectionsAreTrue == ExplanationSpec => []DirectionIsTrue
<1>1. ASSUME ExplanationInv  PROVE DirectionIsTrue
  <2> SUFFICES ASSUME Linear /\ model.greater /\ shown \notin {Null, Invalid},
                      NEW i \in DOMAIN shown.factors
               PROVE  TrueDirection(shown.factors[i].direction, model, row,
                                    shown.factors[i].feature)
    BY DEF DirectionIsTrue
  <2>1. /\ model \in Models /\ model.kind = "linear"
        /\ row \in [Features -> Values] /\ shown \in Payloads(model, row)
    BY <1>1, LinearShown
  <2> DEFINE d == shown.factors[i].direction
             f == shown.factors[i].feature
  <2>2. /\ d = "increases" => Score(model, [row EXCEPT ![f] = 0]) < Score(model, row)
        /\ d = "decreases" => Score(model, [row EXCEPT ![f] = 0]) > Score(model, row)
    BY <2>1, DirectionOfScore
  <2> HIDE DEF d, f
  <2>3. TrueDirection(d, model, row, f)
    BY <2>2 DEF TrueDirection, FraudScoreWithout, FraudScore
  <2> QED BY <2>3 DEF d, f
<1> QED BY <1>1, ExplanationInvariant, PTL

\* How far the divergence of DirectionIsTrue from the docstring reaches: if fraud is the
\* first of the classes, every direction but "notable" is the opposite of the truth.
OppositeDirection ==
  Linear /\ ~model.greater /\ shown \notin {Null, Invalid} =>
    \A i \in DOMAIN shown.factors :
      shown.factors[i].direction # "notable" =>
        ~TrueDirection(shown.factors[i].direction, model, row, shown.factors[i].feature)

\* A spec with its positive label first never shows a true direction (explainability.py:63-70).
THEOREM OtherwiseNoneIs == ExplanationSpec => []OppositeDirection
<1>1. ASSUME ExplanationInv  PROVE OppositeDirection
  <2> SUFFICES ASSUME Linear /\ ~model.greater /\ shown \notin {Null, Invalid},
                      NEW i \in DOMAIN shown.factors,
                      shown.factors[i].direction # "notable",
                      TrueDirection(shown.factors[i].direction, model, row,
                                    shown.factors[i].feature)
               PROVE  FALSE
    BY DEF OppositeDirection
  <2>1. /\ model \in Models /\ model.kind = "linear"
        /\ row \in [Features -> Values] /\ shown \in Payloads(model, row)
    BY <1>1, LinearShown
  <2> DEFINE d == shown.factors[i].direction
             f == shown.factors[i].feature
  <2>2. /\ Score(model, row) \in Int /\ Score(model, [row EXCEPT ![f] = 0]) \in Int
        /\ d \in {"increases", "decreases", "notable"}
        /\ d = "increases" => Score(model, [row EXCEPT ![f] = 0]) < Score(model, row)
        /\ d = "decreases" => Score(model, [row EXCEPT ![f] = 0]) > Score(model, row)
    BY <2>1, DirectionOfScore
  <2>3. TrueDirection(d, model, row, f) /\ d # "notable"
    OBVIOUS
  <2> HIDE DEF d, f
  <2>4. /\ d = "increases" => -Score(model, [row EXCEPT ![f] = 0]) < -Score(model, row)
        /\ d = "decreases" => -Score(model, [row EXCEPT ![f] = 0]) > -Score(model, row)
    BY <2>3 DEF TrueDirection, FraudScoreWithout, FraudScore
  <2> QED BY <2>2, <2>3, <2>4
<1> QED BY <1>1, ExplanationInvariant, PTL

\* The factors of a list, summed, are the score of the features listed.
LEMMA RestOfTheScore ==
  ASSUME NEW m \in Models, m.kind = "linear", NEW x \in [Features -> Values],
         NEW p, NEW o, NEW n \in Nat \ {0}, Lists(p, m, Contributions(m, x), o, n)
  PROVE  LET listed == {o[i] : i \in 1..n}
         IN  Magnitude(Score(m, x) - Told(p.factors)) <=
               Cardinality(Features \ listed) * Magnitude(Contributions(m, x)[o[n]])
<1> DEFINE c == Contributions(m, x)
           listed == {o[i] : i \in 1..n}
           k == [i \in 1..n |-> c[o[i]]]
           b == Magnitude(c[o[n]])
<1>1. c \in [Features -> Int] /\ \A f \in Features : c[f] = m.weight[f] * x[f]
  BY ContributionsType
<1>a. Lists(p, m, c, o, n)
  OBVIOUS
<1> HIDE DEF c
<1>2. /\ o \in [1..n -> Features] /\ n \in 1..n
      /\ \A i, j \in 1..n : o[i] = o[j] => i = j
      /\ \A f \in Features \ listed : Magnitude(c[f]) <= b
  BY <1>a DEF Lists, Ranked
<1>3. DOMAIN p.factors = 1..n /\ \A i \in 1..n : k[i] = p.factors[i].contribution
  <2>1. DOMAIN p.factors = 1..n
    BY <1>a DEF Lists, Payload
  <2>2. \A i \in 1..n : p.factors[i].contribution = c[o[i]]
    BY <1>1, <1>a, ListedFactors
  <2> QED BY <2>1, <2>2
<1>4. k \in [1..n -> Int] /\ (\A i \in 1..n : k[i] = c[o[i]]) /\ b \in Nat
  BY <1>1, <1>2, MagnitudeType
<1>5. listed \in SUBSET Features /\ Features \ listed \in SUBSET Features
  BY <1>2
<1>6. IsFiniteSet(1..n)
  BY FS_Interval
<1> HIDE DEF k, b
<1>7. PICK h : SumOf(h, c, Features) /\ Score(m, x) = h[Features]
  BY <1>1, ScoreIsSum
<1>8. PICK j : SumOf(j, k, 1..n) /\ Told(p.factors) = j[1..n]
  <2> DEFINE I == 1..n
  <2>1. IsFiniteSet(I) /\ DOMAIN p.factors = I /\ k \in [I -> Int]
        /\ \A i \in I : k[i] = p.factors[i].contribution
    BY <1>3, <1>4, <1>6
  <2> HIDE DEF I
  <2>2. \E j : SumOf(j, k, I) /\ Told(p.factors) = j[I]
    BY <2>1, ToldIsSum
  <2> QED BY <2>2 DEF I
<1>9. j[1..n] = h[listed]
  <2> DEFINE I == 1..n
  <2>1. /\ IsFiniteSet(I) /\ o \in [I -> Features] /\ k \in [I -> Int] /\ SumOf(j, k, I)
        /\ \A i, i2 \in I : o[i] = o[i2] => i = i2
        /\ \A i \in I : k[i] = c[o[i]]
    BY <1>2, <1>4, <1>6, <1>8
  <2> HIDE DEF I
  <2>2. j[I] = h[{o[i] : i \in I}]
    BY <1>1, <1>7, <2>1, SumReindex, FeaturesAssumption
  <2> QED BY <2>2 DEF I
<1> HIDE DEF listed
<1>10. h[Features] = h[listed] + h[Features \ listed]
  BY <1>1, <1>5, <1>7, SumSplit, FeaturesAssumption
<1>11. h[listed] \in Int /\ h[Features \ listed] \in Int
  BY <1>1, <1>5, <1>7, SumInt, FeaturesAssumption
<1>12. Magnitude(h[Features \ listed]) <= Cardinality(Features \ listed) * b
  <2> DEFINE rest == Features \ listed
  <2>1. rest \in SUBSET Features /\ \A f \in rest : Magnitude(c[f]) <= b
    BY <1>2, <1>5
  <2> HIDE DEF rest
  <2>2. Magnitude(h[rest]) <= Cardinality(rest) * b
    BY <1>1, <1>4, <1>7, <2>1, SumBound, FeaturesAssumption
  <2> QED BY <2>2 DEF rest
<1>13. Score(m, x) - Told(p.factors) = h[Features \ listed]
  BY <1>7, <1>8, <1>9, <1>10, <1>11
<1> QED BY <1>12, <1>13 DEF listed, b, c

\* The features that top_k leaves out shift the score by no more than their number times
\* the weakest listed contribution, for any number of features and any top_k.
THEOREM ListsAccountForScores == ExplanationSpec => []ListAccountsForScore
<1>1. ASSUME ExplanationInv  PROVE ListAccountsForScore
  <2> SUFFICES ASSUME Linear, shown \notin {Null, Invalid}
               PROVE  Magnitude(Score(model, row) - Told(shown.factors)) <=
                        Cardinality(Features \ {shown.factors[i].feature :
                                                  i \in DOMAIN shown.factors})
                          * Magnitude(shown.factors[Len(shown.factors)].contribution)
    BY DEF ListAccountsForScore, Told
  <2> DEFINE c == Contributions(model, row)
  <2>1. /\ model \in Models /\ model.kind = "linear"
        /\ row \in [Features -> Values] /\ shown \in Payloads(model, row)
    BY <1>1, LinearShown
  <2>2. PICK o : \E n \in Nat \ {0} : Lists(shown, model, c, o, n)
    BY <2>1, PayloadsAreLists
  <2>3. PICK n \in Nat \ {0} : Lists(shown, model, c, o, n)
    BY <2>2
  <2>4. c \in [Features -> Int]
    BY <2>1, ContributionsType
  <2>5. Magnitude(Score(model, row) - Told(shown.factors)) <=
          Cardinality(Features \ {o[i] : i \in 1..n}) * Magnitude(c[o[n]])
    BY <2>1, <2>3, RestOfTheScore
  <2> HIDE DEF c
  <2>6. Len(shown.factors) = n /\ DOMAIN shown.factors = 1..n
    BY <2>1, <2>3, <2>4, ListsType
  <2>7. \A i \in 1..n : shown.factors[i].feature = o[i]
                        /\ shown.factors[i].contribution = c[o[i]]
    BY <2>1, <2>3, <2>4, ListedFactors
  <2>8. {shown.factors[i].feature : i \in DOMAIN shown.factors} = {o[i] : i \in 1..n}
    BY <2>6, <2>7
  <2>9. shown.factors[Len(shown.factors)].contribution = c[o[n]]
    BY <2>6, <2>7
  <2> QED BY <2>5, <2>8, <2>9
<1> QED BY <1>1, ExplanationInvariant, PTL

\* The factor of the headline has full strength, unless nothing contributes.
LEMMA FirstIsStrongest ==
  ASSUME NEW m \in Models, NEW c \in [Features -> Int], NEW p, NEW o, NEW n \in Nat \ {0},
         Lists(p, m, c, o, n)
  PROVE  /\ DOMAIN p.factors = 1..n /\ p.signal = p.factors[1].feature
         /\ p.factors[1].strength =
              IF \E i \in 1..n : p.factors[i].contribution # 0 THEN Full ELSE 0
         /\ \A i \in 1..n : p.factors[i].strength <= p.factors[1].strength
<1> DEFINE l == Magnitude(c[o[1]])
<1>1. 1 \in 1..n /\ DOMAIN p.factors = 1..n /\ p.signal = o[1]
  BY DEF Lists, Payload
<1>2. \A i \in 1..n : /\ o[i] \in Features /\ c[o[i]] \in Int
                      /\ Magnitude(c[o[i]]) <= l
  BY ListedFactors
<1>3. l \in Nat
  BY <1>1, <1>2, MagnitudeType
<1>4. \A i \in 1..n : /\ p.factors[i].feature = o[i] /\ p.factors[i].contribution = c[o[i]]
                      /\ p.factors[i].strength = Strength(c[o[i]], l)
  BY ListedFactors
<1>5. \A i \in 1..n : /\ Strength(c[o[i]], l) \in 0..Full
                      /\ l = 0 => Strength(c[o[i]], l) = 0
  <2> HIDE DEF l
  <2> QED BY <1>2, <1>3, StrengthFacts
<1>6. Strength(c[o[1]], l) = IF l # 0 THEN Full ELSE 0
  BY <1>1, <1>2, <1>3, StrengthFacts
<1>7. (\E i \in 1..n : c[o[i]] # 0) <=> l # 0
  <2>1. ASSUME NEW i \in 1..n, c[o[i]] # 0  PROVE l # 0
    <3>1. Magnitude(c[o[i]]) \in Nat /\ Magnitude(c[o[i]]) # 0
      BY <1>2, <2>1, MagnitudeType
    <3> QED BY <1>2, <1>3, <3>1
  <2>2. ASSUME l # 0  PROVE c[o[1]] # 0
    BY <1>1, <1>2, <2>2, MagnitudeType
  <2> QED BY <1>1, <2>1, <2>2
<1> HIDE DEF l
<1>8. \A i \in 1..n : p.factors[i].strength <= p.factors[1].strength
  <2>1. Full \in Nat
    BY BoundsAssumption
  <2> QED BY <1>1, <1>4, <1>5, <1>6, <2>1
<1> QED BY <1>1, <1>4, <1>6, <1>7, <1>8

\* No payload that the code builds, and no flat map, makes from_domain raise: if it does,
\* what is stored is of the seed script's file; and the headline names the strongest factor.
THEOREM BuiltCanAlwaysBeShown == ExplanationSpec => []EverythingBuiltCanBeShown
<1>1. ASSUME ExplanationInv  PROVE EverythingBuiltCanBeShown
  <2>1. shown = Invalid => stored \in SeededPayloads \cup {Scalar}
    <3>1. Invalid \notin RiskExplanationPayload \cup {Nothing}
      <4>1. Invalid.method = "invalid" /\ Nothing.method = "none"
        BY DEF Invalid, Nothing
      <4>2. \A p \in RiskExplanationPayload : p.method # "invalid"
        BY DEF RiskExplanationPayload
      <4> QED BY <4>1, <4>2
    <3>2. CASE shown = Null
      BY <3>2, NullAssumption
    <3>3. CASE shown # Null
      BY <1>1, <3>1, <3>3, ShownFacts, PayloadsType
    <3> QED BY <3>2, <3>3
  <2>2. ASSUME shown # Null, shown.method \in {"linear", "trees"}
        PROVE  \E o : \E n \in Nat \ {0} : \E c \in [Features -> Int] :
                 Lists(shown, model, c, o, n) /\ model \in Models
    <3>1. row # Null /\ shown \in Payloads(model, row)
          /\ model \in Models /\ row \in [Features -> Values]
      <4>1. Nothing.method = "none" /\ Invalid.method = "invalid"
        BY DEF Nothing, Invalid
      <4> QED BY <1>1, <2>2, <4>1, ShownFacts
    <3>2. model.kind # "other"
      <4>1. Payload("unavailable", Null, <<>>).method = "unavailable"
        BY DEF Payload
      <4> QED BY <2>2, <3>1, <4>1, PayloadsAreLists
    <3>3. Contributions(model, row) \in [Features -> Int]
      BY <3>1, ContributionsType
    <3>4. \E o : \E n \in Nat \ {0} : Lists(shown, model, Contributions(model, row), o, n)
      BY <3>1, <3>2, PayloadsAreLists
    <3> QED BY <3>1, <3>3, <3>4
  <2>3. ASSUME shown # Null, shown.method \in {"linear", "trees"}
        PROVE  /\ shown.signal = shown.factors[1].feature
               /\ shown.factors[1].strength =
                    IF \E i \in DOMAIN shown.factors : shown.factors[i].contribution # 0
                    THEN Full ELSE 0
               /\ \A i \in DOMAIN shown.factors :
                    shown.factors[i].strength <= shown.factors[1].strength
    <3>1. PICK o : \E n \in Nat \ {0} : \E c \in [Features -> Int] :
                     Lists(shown, model, c, o, n) /\ model \in Models
      BY <2>2, <2>3
    <3>2. PICK n \in Nat \ {0}, c \in [Features -> Int] :
             Lists(shown, model, c, o, n) /\ model \in Models
      BY <3>1
    <3> QED BY <3>2, FirstIsStrongest
  <2> QED BY <2>1, <2>3 DEF EverythingBuiltCanBeShown
<1> QED BY <1>1, ExplanationInvariant, PTL
=============================================================================
