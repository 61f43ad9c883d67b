--------------------------- MODULE RulesetProofs ---------------------------
(***************************************************************************)
(* What the algorithms behind a ruleset promise, for every number of       *)
(* flags, segments, slices, variations and buckets.                        *)
(*                                                                         *)
(* A rollout that passes the check serves every bucket, gives each         *)
(* variation the buckets it declares, and can be raised without moving     *)
(* anybody who is inside.  The search for a prerequisite cycle finds one   *)
(* exactly when there is one, so that a published flag is never judged by  *)
(* a prerequisite that the evaluator cut short.  A client is shown the     *)
(* segments that it can resolve to the end without server-only material,   *)
(* and all of them.                                                        *)
(***************************************************************************)
EXTENDS FlagRows, SegmentSafety, FiniteSetTheorems, WellFoundedInduction, TLAPS

-----------------------------------------------------------------------------
(* Induction.  The library's induction theorems take the predicate as an   *)
(* operator; a least counterexample says the same of a set of numbers.     *)

\* A set of naturals that is not empty has a least member: the intervals 1..n
\* for its members n are finite sets, which strict inclusion orders well.
LEMMA LeastNumber ==
    ASSUME NEW A \in SUBSET Nat, A # {}
    PROVE  \E m \in A : \A n \in A : m <= n
<1>1. PICK top \in A : TRUE
  OBVIOUS
<1> DEFINE Intervals == {X \in SUBSET (1..top) : \E n \in A : X = 1..n}
<1>2. IsWellFoundedOn(StrictSubsetOrdering(1..top), FiniteSubsetsOf(1..top))
  BY FS_StrictSubsetOrderingWellFounded
<1>3. Intervals \subseteq FiniteSubsetsOf(1..top)
  <2>1. IsFiniteSet(1..top)
    BY FS_Interval
  <2> QED
    BY <2>1, FS_FiniteSubsetsOfFinite
<1>4. Intervals # {}
  <2>1. 1..top \in Intervals
    BY <1>1
  <2> QED
    BY <2>1
<1> HIDE DEF Intervals
<1>5. PICK X \in Intervals :
        \A Y \in Intervals : ~(<<Y, X>> \in StrictSubsetOrdering(1..top))
  BY <1>2, <1>3, <1>4, WFMin
<1>6. PICK m \in A : X = 1..m /\ X \subseteq 1..top
  BY <1>5 DEF Intervals
<1>7. ASSUME NEW n \in A, n < m PROVE FALSE
  <2>1. 1..n \subseteq 1..m /\ m \in 1..m /\ m \notin 1..n
    BY <1>7
  <2>2. 1..n \in Intervals
    BY <2>1, <1>6 DEF Intervals
  <2>3. <<1..n, 1..m>> \in StrictSubsetOrdering(1..top)
    BY <2>1, <1>6 DEF StrictSubsetOrdering
  <2> QED
    BY <2>2, <2>3, <1>5, <1>6
<1> QED
  BY <1>7

\* A set of numbers up to n that holds 0 and with each number the next one
\* holds them all.
LEMMA CountingUp ==
    ASSUME NEW n \in Nat, NEW S,
           0 \in S,
           \A k \in 0..(n - 1) : k \in S => k + 1 \in S
    PROVE  0..n \subseteq S
<1> DEFINE Left == {k \in 0..n : k \notin S}
<1>1. SUFFICES ASSUME Left # {} PROVE FALSE
  OBVIOUS
<1>2. Left \in SUBSET Nat
  OBVIOUS
<1> HIDE DEF Left
<1>3. PICK m \in Left : \A k \in Left : m <= k
  BY <1>1, <1>2, LeastNumber
<1>4. m \in 1..n /\ m \notin S
  BY <1>3 DEF Left
<1>5. m - 1 \in 0..(n - 1) /\ m - 1 \notin Left
  BY <1>3, <1>4
<1>6. m - 1 \in S
  BY <1>4, <1>5 DEF Left
<1>7. (m - 1) + 1 \in S
  BY <1>5, <1>6
<1> QED
  BY <1>4, <1>7

-----------------------------------------------------------------------------
(* Running totals.                                                         *)

\* The recursive definition of the total describes a function.
LEMMA TotalExists ==
    ASSUME NEW n \in Nat, NEW w \in [1..n -> Int]
    PROVE  \E f \in [0..n -> Int] :
             f = [i \in 0..n |-> IF i = 0 THEN 0 ELSE f[i - 1] + w[i]]
<1> DEFINE Sums(k, f) == f[0] = 0 /\ \A i \in 1..k : f[i] = f[i - 1] + w[i]
           S == {k \in 0..n : \E f \in [0..k -> Int] : Sums(k, f)}
<1>1. 0 \in S
  <2>1. [i \in 0..0 |-> 0] \in [0..0 -> Int] /\ Sums(0, [i \in 0..0 |-> 0])
    OBVIOUS
  <2>2. \E f \in [0..0 -> Int] : Sums(0, f)
    BY <2>1
  <2> QED
    BY <2>2
<1>2. ASSUME NEW k \in 0..(n - 1), k \in S PROVE k + 1 \in S
  <2>1. PICK f \in [0..k -> Int] : Sums(k, f)
    BY <1>2
  <2> DEFINE g == [i \in 0..(k + 1) |-> IF i = k + 1 THEN f[k] + w[k + 1] ELSE f[i]]
  <2>2. g \in [0..(k + 1) -> Int]
    OBVIOUS
  <2>3. Sums(k + 1, g)
    BY <2>1
  <2> HIDE DEF g, Sums
  <2>4. \E h \in [0..(k + 1) -> Int] : Sums(k + 1, h)
    BY <2>2, <2>3
  <2>5. k + 1 \in 0..n
    OBVIOUS
  <2> QED
    BY <2>4, <2>5
<1>3. n \in S
  <2> HIDE DEF S
  <2>1. 0..n \subseteq S
    BY <1>1, <1>2, CountingUp
  <2> QED
    BY <2>1
<1>4. PICK f \in [0..n -> Int] : Sums(n, f)
  BY <1>3
<1>5. f = [i \in 0..n |-> IF i = 0 THEN 0 ELSE f[i - 1] + w[i]]
  BY <1>4
<1> QED
  BY <1>5

\* A total starts at 0 and grows by one weight at a time.
LEMMA TotalSteps ==
    ASSUME NEW w \in Seq(Int)
    PROVE  /\ runningTotal(w) \in [0..Len(w) -> Int]
           /\ runningTotal(w)[0] = 0
           /\ \A i \in 1..Len(w) : runningTotal(w)[i] = runningTotal(w)[i - 1] + w[i]
<1> DEFINE t == runningTotal(w)
<1>1. w \in [1..Len(w) -> Int] /\ Len(w) \in Nat
  OBVIOUS
<1>2. \E f : f = [i \in 0..Len(w) |-> IF i = 0 THEN 0 ELSE f[i - 1] + w[i]]
  BY <1>1, TotalExists
<1>3. t = [i \in 0..Len(w) |-> IF i = 0 THEN 0 ELSE t[i - 1] + w[i]]
  BY <1>2, Zenon DEF runningTotal
<1> DEFINE S == {k \in 0..Len(w) : t[k] \in Int}
<1> HIDE DEF t
<1>4. t[0] = 0 /\ \A i \in 1..Len(w) : t[i] = t[i - 1] + w[i]
  BY <1>1, <1>3
<1>5. 0 \in S
  BY <1>1, <1>4
<1>6. \A k \in 0..(Len(w) - 1) : k \in S => k + 1 \in S
  BY <1>1, <1>4
<1>7. 0..Len(w) \subseteq S
  <2> HIDE DEF S
  <2> QED
    BY <1>1, <1>5, <1>6, CountingUp
<1>8. \A k \in 0..Len(w) : t[k] \in Int
  BY <1>7
<1>9. DOMAIN t = 0..Len(w) /\ t = [i \in DOMAIN t |-> t[i]]
  BY <1>3
<1>10. t \in [0..Len(w) -> Int]
  BY <1>8, <1>9
<1> QED
  BY <1>4, <1>10 DEF t

-----------------------------------------------------------------------------
(* The walk.                                                               *)

\* A member of a sequence over S is in S.
LEMMA SliceOf ==
    ASSUME NEW S, NEW s \in Seq(S), NEW i \in 1..Len(s)
    PROVE  s[i] \in S
OBVIOUS

Slices(Keys) == [variation : Keys, weight : Nat]

LEMMA WeightsAreNaturals ==
    ASSUME NEW Keys, NEW slices \in Seq(Slices(Keys)), NEW i \in 1..Len(slices)
    PROVE  slices[i].weight \in Nat
<1>1. slices[i] \in Slices(Keys)
  OBVIOUS
<1> QED
  BY <1>1 DEF Slices

\* Cumulative weights start at 0, grow by the weight of a slice, and so never
\* fall.
LEMMA CumulativeSteps ==
    ASSUME NEW Keys, NEW slices \in Seq(Slices(Keys))
    PROVE  /\ cumulative(slices) \in [0..Len(slices) -> Int]
           /\ cumulative(slices)[0] = 0
           /\ \A i \in 1..Len(slices) :
                cumulative(slices)[i] = cumulative(slices)[i - 1] + slices[i].weight
<1> DEFINE w == [i \in 1..Len(slices) |-> slices[i].weight]
<1>1. \A i \in 1..Len(slices) : slices[i].weight \in Nat
  BY WeightsAreNaturals
<1>2. w \in Seq(Int) /\ Len(w) = Len(slices)
  BY <1>1
<1>3. \A i \in 1..Len(slices) : w[i] = slices[i].weight
  OBVIOUS
<1>4. cumulative(slices) = runningTotal(w)
  BY DEF cumulative
<1> HIDE DEF w
<1> QED
  BY <1>2, <1>3, <1>4, TotalSteps

LEMMA CumulativeGrows ==
    ASSUME NEW Keys, NEW slices \in Seq(Slices(Keys))
    PROVE  \A i, j \in 0..Len(slices) :
             i <= j => cumulative(slices)[i] <= cumulative(slices)[j]
<1> DEFINE c == cumulative(slices)
           n == Len(slices)
<1>1. /\ n \in Nat
      /\ c \in [0..n -> Int]
      /\ \A i \in 1..n : c[i] = c[i - 1] + slices[i].weight
  BY CumulativeSteps
<1>2. \A i \in 1..n : slices[i].weight \in Nat
  BY WeightsAreNaturals
<1> HIDE DEF c, n
<1>3. ASSUME NEW i \in 1..n PROVE c[i - 1] <= c[i]
  <2>1. c[i - 1] \in Int /\ slices[i].weight \in Nat
    BY <1>1, <1>2
  <2> QED
    BY <1>1, <2>1
<1>4. SUFFICES ASSUME NEW i \in 0..n PROVE \A j \in 0..n : i <= j => c[i] <= c[j]
  BY DEF c, n
<1> DEFINE S == {j \in 0..n : i <= j => c[i] <= c[j]}
<1>5. 0 \in S
  BY <1>1
<1>6. ASSUME NEW k \in 0..(n - 1), k \in S PROVE k + 1 \in S
  <2>1. k + 1 \in 1..n /\ (k + 1) - 1 = k
    BY <1>1
  <2>2. c[k] <= c[k + 1]
    BY <1>3, <2>1
  <2>3. c[k] \in Int /\ c[k + 1] \in Int /\ c[i] \in Int
    BY <1>1, <2>1
  <2>4. i <= k + 1 => c[i] <= c[k + 1]
    <3>1. CASE i = k + 1
      BY <3>1, <2>3
    <3>2. CASE i # k + 1
      BY <3>2, <1>6, <2>2, <2>3
    <3> QED
      BY <3>1, <3>2
  <2> QED
    BY <2>1, <2>4
<1>7. 0..n \subseteq S
  <2> HIDE DEF S
  <2> QED
    BY <1>1, <1>5, <1>6, CountingUp
<1> QED
  BY <1>7

\* The walk serves slice i in the buckets from the total before it up to, and
\* not including, the total with it.
LEMMA SliceOwnsItsBuckets ==
    ASSUME NEW Keys, NEW slices \in Seq(Slices(Keys)),
           NEW i \in 1..Len(slices), NEW b \in Int,
           cumulative(slices)[i - 1] <= b, b < cumulative(slices)[i]
    PROVE  variationForBucket(slices, b) = slices[i].variation
<1> DEFINE c == cumulative(slices)
           inside == {j \in 1..Len(slices) : b < c[j]}
<1>1. c \in [0..Len(slices) -> Int] /\ Len(slices) \in Nat
  BY CumulativeSteps
<1>2. i \in inside
  OBVIOUS
<1>3. ASSUME NEW j \in inside PROVE i <= j
  <2>1. SUFFICES ASSUME j <= i - 1 PROVE FALSE
    OBVIOUS
  <2>2. j \in 0..Len(slices) /\ i - 1 \in 0..Len(slices)
    BY <1>1
  <2>3. c[j] <= c[i - 1]
    BY <2>1, <2>2, CumulativeGrows
  <2>4. b < c[j] /\ c[j] \in Int /\ c[i - 1] \in Int
    BY <1>1, <2>2
  <2> HIDE DEF c
  <2> QED
    BY <2>3, <2>4 DEF c
<1>4. inside \subseteq Int
  OBVIOUS
<1>5. variationForBucket(slices, b) =
        IF inside = {} THEN Ghost ELSE slices[First(inside)].variation
  BY DEF variationForBucket
<1> HIDE DEF inside
<1>6. First(inside) = i
  <2>1. \E k \in inside : \A j \in inside : k <= j
    BY <1>2, <1>3
  <2>2. First(inside) \in inside /\ \A j \in inside : First(inside) <= j
    BY <2>1, Zenon DEF First
  <2>3. First(inside) <= i /\ i <= First(inside)
    BY <1>2, <1>3, <2>2
  <2>4. First(inside) \in Int /\ i \in Int
    BY <1>2, <1>4, <2>2
  <2> QED
    BY <2>3, <2>4
<1> QED
  BY <1>2, <1>5, <1>6

\* Every bucket below the total of all slices is in one of them.
LEMMA BucketHasSlice ==
    ASSUME NEW Keys, NEW slices \in Seq(Slices(Keys)),
           NEW b \in Nat, b < cumulative(slices)[Len(slices)]
    PROVE  \E i \in 1..Len(slices) :
             cumulative(slices)[i - 1] <= b /\ b < cumulative(slices)[i]
<1> DEFINE c == cumulative(slices)
           n == Len(slices)
           inside == {j \in 0..n : b < c[j]}
<1>1. n \in Nat /\ c \in [0..n -> Int] /\ c[0] = 0
  BY CumulativeSteps
<1>2. n \in inside /\ inside \in SUBSET Nat
  BY <1>1
<1>3. PICK i \in inside : \A j \in inside : i <= j
  <2> HIDE DEF inside
  <2> QED
    BY <1>2, LeastNumber
<1> HIDE DEF c, n
<1>4. i \in 1..n /\ b < c[i]
  BY <1>1, <1>3
<1>5. i - 1 \in 0..n /\ i - 1 \notin inside
  BY <1>1, <1>3, <1>4
<1>6. c[i - 1] <= b
  BY <1>1, <1>5
<1> QED
  BY <1>4, <1>6 DEF c, n

-----------------------------------------------------------------------------
(* What a rollout promises.                                                *)

\* A rollout that passes isValidDistribution has slices of natural weight.
LEMMA ValidHasNaturalWeights ==
    ASSUME NEW Keys, NEW slices \in Seq([variation : Keys, weight : Int]),
           isValidDistribution(slices)
    PROVE  /\ slices \in Seq(Slices(Keys))
           /\ cumulative(slices)[Len(slices)] = BucketSpace
<1>1. ASSUME NEW i \in 1..Len(slices) PROVE slices[i] \in Slices(Keys)
  <2>1. slices[i] \in [variation : Keys, weight : Int]
    BY SliceOf
  <2>2. slices[i].weight \in Nat
    BY DEF isValidDistribution
  <2> QED
    BY <2>1, <2>2 DEF Slices
<1> QED
  BY <1>1 DEF isValidDistribution

\* A rollout that passes the check of a publish serves every bucket the hash
\* can produce: the walk never runs off its end (variationForBucket returns no
\* undefined, which evaluateInternal would answer with an error).
THEOREM EveryBucketIsServed ==
    ASSUME NEW Keys, Ghost \notin Keys,
           NEW slices \in Seq([variation : Keys, weight : Int]),
           isValidDistribution(slices),
           NEW b \in 0..(BucketSpace - 1)
    PROVE  variationForBucket(slices, b) \in Keys \ {Ghost}
<1>1. slices \in Seq(Slices(Keys)) /\ cumulative(slices)[Len(slices)] = BucketSpace
  BY ValidHasNaturalWeights
<1>2. b \in Nat /\ b < cumulative(slices)[Len(slices)]
  BY <1>1, BucketAssumption
<1>3. PICK i \in 1..Len(slices) :
        cumulative(slices)[i - 1] <= b /\ b < cumulative(slices)[i]
  BY <1>1, <1>2, BucketHasSlice
<1>4. variationForBucket(slices, b) = slices[i].variation
  BY <1>1, <1>2, <1>3, SliceOwnsItsBuckets
<1>5. slices[i] \in [variation : Keys, weight : Int]
  BY SliceOf
<1>6. slices[i].variation \in Keys
  BY <1>5
<1> QED
  BY <1>4, <1>6

\* Two rollouts that agree on the slices before slice i have the same totals up
\* to there.
LEMMA SamePrefixSameTotals ==
    ASSUME NEW Keys, NEW old \in Seq(Slices(Keys)), NEW new \in Seq(Slices(Keys)),
           NEW n \in Nat, n <= Len(old), n <= Len(new),
           \A j \in 1..n : new[j] = old[j]
    PROVE  \A j \in 0..n : cumulative(new)[j] = cumulative(old)[j]
<1> DEFINE S == {j \in 0..n : cumulative(new)[j] = cumulative(old)[j]}
<1>1. 0 \in S
  BY CumulativeSteps
<1>2. ASSUME NEW k \in 0..(n - 1), k \in S PROVE k + 1 \in S
  <2>1. k + 1 \in 1..n /\ k + 1 \in 1..Len(old) /\ k + 1 \in 1..Len(new) /\ (k + 1) - 1 = k
    OBVIOUS
  <2>2. cumulative(old)[k + 1] = cumulative(old)[k] + old[k + 1].weight
    BY <2>1, CumulativeSteps
  <2>3. cumulative(new)[k + 1] = cumulative(new)[k] + new[k + 1].weight
    BY <2>1, CumulativeSteps
  <2>4. cumulative(new)[k + 1] = cumulative(old)[k + 1]
    BY <1>2, <2>1, <2>2, <2>3
  <2> QED
    BY <2>1, <2>4
<1>3. 0..n \subseteq S
  <2> HIDE DEF S
  <2> QED
    BY <1>1, <1>2, CountingUp
<1> QED
  BY <1>3

\* Raising a slice moves nobody who is already inside: when a new rollout keeps
\* the slices before slice i and gives slice i at least its old weight, every
\* bucket the old one served from its first i slices is served the same
\* variation (the comment of variationForBucket: declaration order makes
\* raising a rollout purely additive).
THEOREM RaisingIsAdditive ==
    ASSUME NEW Keys, NEW old \in Seq(Slices(Keys)), NEW new \in Seq(Slices(Keys)),
           NEW i \in 1..Len(old), i <= Len(new),
           \A j \in 1..(i - 1) : new[j] = old[j],
           new[i].variation = old[i].variation,
           old[i].weight <= new[i].weight,
           NEW b \in Nat, b < cumulative(old)[i]
    PROVE  variationForBucket(new, b) = variationForBucket(old, b)
<1>1. i - 1 \in Nat /\ i - 1 <= Len(old) /\ i - 1 <= Len(new) /\ i \in 1..Len(new)
  OBVIOUS
<1>2. \A j \in 0..(i - 1) : cumulative(new)[j] = cumulative(old)[j]
  BY <1>1, SamePrefixSameTotals
<1>3. /\ cumulative(old) \in [0..Len(old) -> Int]
      /\ cumulative(new) \in [0..Len(new) -> Int]
      /\ cumulative(old)[0] = 0
      /\ cumulative(old)[i] = cumulative(old)[i - 1] + old[i].weight
      /\ cumulative(new)[i] = cumulative(new)[i - 1] + new[i].weight
  BY <1>1, CumulativeSteps
<1>4. cumulative(old)[i - 1] = cumulative(new)[i - 1] /\ cumulative(new)[i - 1] \in Int
  BY <1>1, <1>2, <1>3
<1>5. old[i].weight \in Nat /\ new[i].weight \in Nat
  BY <1>1, WeightsAreNaturals
<1>6. cumulative(old)[i] <= cumulative(new)[i]
  BY <1>3, <1>4, <1>5
<1>7. b < cumulative(old)[Len(old)]
  <2>1. i \in 0..Len(old) /\ Len(old) \in 0..Len(old) /\ i <= Len(old)
    OBVIOUS
  <2>2. cumulative(old)[i] <= cumulative(old)[Len(old)]
    BY <2>1, CumulativeGrows
  <2>3. cumulative(old)[i] \in Int /\ cumulative(old)[Len(old)] \in Int
    BY <1>3, <2>1
  <2> QED
    BY <2>2, <2>3
<1>8. PICK k \in 1..Len(old) :
        cumulative(old)[k - 1] <= b /\ b < cumulative(old)[k]
  BY <1>7, BucketHasSlice
<1>9. k <= i
  <2>1. SUFFICES ASSUME i <= k - 1 PROVE FALSE
    OBVIOUS
  <2>2. i \in 0..Len(old) /\ k - 1 \in 0..Len(old)
    OBVIOUS
  <2>3. cumulative(old)[i] <= cumulative(old)[k - 1]
    BY <2>1, <2>2, CumulativeGrows
  <2>4. cumulative(old)[i] \in Int /\ cumulative(old)[k - 1] \in Int
    BY <1>3, <2>2
  <2> QED
    BY <1>8, <2>3, <2>4
<1>10. variationForBucket(old, b) = old[k].variation
  BY <1>8, SliceOwnsItsBuckets
<1>11. CASE k = i
  <2>1. cumulative(new)[i - 1] <= b /\ b < cumulative(new)[i]
    <3>1. i \in 0..Len(old) /\ i \in 0..Len(new)
      BY <1>1
    <3>2. cumulative(old)[i] \in Int /\ cumulative(new)[i] \in Int
      BY <1>3, <3>1
    <3>3. cumulative(old)[i - 1] <= b /\ b < cumulative(old)[i]
      BY <1>8, <1>11
    <3> QED
      BY <3>2, <3>3, <1>4, <1>6
  <2>2. variationForBucket(new, b) = new[i].variation
    BY <1>1, <2>1, SliceOwnsItsBuckets
  <2> QED
    BY <1>10, <1>11, <2>2
<1>12. CASE k # i
  <2>1. k \in 1..(i - 1) /\ k - 1 \in 0..(i - 1) /\ k \in 0..(i - 1) /\ k \in 1..Len(new)
    BY <1>1, <1>9, <1>12
  <2>2. cumulative(new)[k - 1] = cumulative(old)[k - 1] /\ cumulative(new)[k] = cumulative(old)[k]
    BY <1>2, <2>1
  <2>3. variationForBucket(new, b) = new[k].variation
    BY <1>8, <2>1, <2>2, SliceOwnsItsBuckets
  <2> QED
    BY <1>10, <2>1, <2>3
<1> QED
  BY <1>11, <1>12

\* The weight the first slices declare for v is the number of their buckets in
\* which the walk serves it.
LEMMA PrefixShares ==
    ASSUME NEW Keys, NEW slices \in Seq(Slices(Keys)), NEW v
    PROVE  LET B == {b \in 0..(cumulative(slices)[Len(slices)] - 1) :
                        variationForBucket(slices, b) = v} IN
           IsFiniteSet(B) /\ Cardinality(B) = DeclaredWeight(slices, v)
<1> DEFINE n == Len(slices)
           c == cumulative(slices)
           w == [i \in 1..n |-> IF slices[i].variation = v THEN slices[i].weight ELSE 0]
           share == runningTotal(w)
           Served(k) == {b \in 0..(c[k] - 1) : variationForBucket(slices, b) = v}
           S == {k \in 0..n : IsFiniteSet(Served(k)) /\ Cardinality(Served(k)) = share[k]}
<1>1. /\ n \in Nat
      /\ c \in [0..n -> Int]
      /\ c[0] = 0
      /\ \A i \in 1..n : c[i] = c[i - 1] + slices[i].weight
  BY CumulativeSteps
<1>2. \A i \in 1..n : slices[i].weight \in Nat
  BY WeightsAreNaturals
<1>3. w \in Seq(Int) /\ Len(w) = n
  BY <1>2
<1>4. /\ share \in [0..n -> Int]
      /\ share[0] = 0
      /\ \A i \in 1..n : share[i] = share[i - 1] + w[i]
  <2> HIDE DEF w
  <2> QED
    BY <1>3, TotalSteps
<1>5. \A i \in 0..n : c[0] <= c[i]
  BY CumulativeGrows
<1>6. ASSUME NEW i \in 1..n, NEW b \in c[i - 1]..(c[i] - 1)
      PROVE  variationForBucket(slices, b) = slices[i].variation
  <2>1. c[i - 1] <= b /\ b < c[i] /\ b \in Int
    BY <1>1
  <2> QED
    BY <2>1, SliceOwnsItsBuckets
<1>7. \A i \in 1..n : w[i] = IF slices[i].variation = v THEN slices[i].weight ELSE 0
  OBVIOUS
<1>8. DeclaredWeight(slices, v) = share[n]
  BY DEF DeclaredWeight
<1> HIDE DEF c, w, share, n
<1>9. 0 \in S
  <2>1. Served(0) = {}
    BY <1>1
  <2>2. IsFiniteSet(Served(0)) /\ Cardinality(Served(0)) = share[0]
    BY <1>4, <2>1, FS_EmptySet
  <2>3. 0 \in 0..n
    BY <1>1
  <2> HIDE DEF Served
  <2> QED
    BY <2>2, <2>3
<1>10. ASSUME NEW k \in 0..(n - 1), k \in S PROVE k + 1 \in S
  <2> DEFINE I == IF slices[k + 1].variation = v THEN c[k]..(c[k + 1] - 1) ELSE {}
  <2>1. k + 1 \in 1..n /\ (k + 1) - 1 = k /\ k \in 0..n /\ k + 1 \in 0..n
    BY <1>1
  <2>2. /\ c[k] \in Int /\ c[k + 1] \in Int /\ slices[k + 1].weight \in Nat
        /\ c[k + 1] = c[k] + slices[k + 1].weight
        /\ 0 <= c[k]
    BY <1>1, <1>2, <1>5, <2>1
  <2>3. \A b \in c[k]..(c[k + 1] - 1) : variationForBucket(slices, b) = slices[k + 1].variation
    BY <1>6, <2>1
  <2>4. 0..(c[k + 1] - 1) = (0..(c[k] - 1)) \cup (c[k]..(c[k + 1] - 1))
    BY <2>2
  <2>5. Served(k + 1) = Served(k) \cup I
    BY <2>3, <2>4
  <2>6. Served(k) \cap I = {}
    BY <2>2
  <2>7. IsFiniteSet(I) /\ Cardinality(I) = w[k + 1]
    <3>1. CASE slices[k + 1].variation = v
      <4>1. IsFiniteSet(c[k]..(c[k + 1] - 1))
            /\ Cardinality(c[k]..(c[k + 1] - 1)) = IF c[k] > c[k + 1] - 1 THEN 0 ELSE (c[k + 1] - 1) - c[k] + 1
        <5>1. c[k] \in Int /\ c[k + 1] - 1 \in Int
          BY <2>2
        <5> QED
          BY <5>1, FS_Interval
      <4>2. w[k + 1] = slices[k + 1].weight
        BY <1>7, <2>1, <3>1
      <4> QED
        BY <2>2, <3>1, <4>1, <4>2
    <3>2. CASE slices[k + 1].variation # v
      BY <1>7, <2>1, <3>2, FS_EmptySet
    <3> QED
      BY <3>1, <3>2
  <2>8. IsFiniteSet(Served(k)) /\ Cardinality(Served(k)) = share[k]
    BY <1>10
  <2>9. share[k + 1] = share[k] + w[k + 1] /\ share[k] \in Int
    BY <1>4, <2>1
  <2>10. w[k + 1] \in Int
    BY <1>7, <2>1, <2>2
  <2> HIDE DEF I, Served
  <2>11. /\ IsFiniteSet(Served(k) \cup I)
         /\ Cardinality(Served(k) \cup I) = Cardinality(Served(k)) + Cardinality(I) - Cardinality({})
    BY <2>6, <2>7, <2>8, FS_Union
  <2>12. IsFiniteSet(Served(k + 1)) /\ Cardinality(Served(k + 1)) = share[k + 1]
    BY <2>5, <2>7, <2>8, <2>9, <2>10, <2>11, FS_EmptySet
  <2> QED
    BY <2>1, <2>12
<1>11. 0..n \subseteq S
  <2> HIDE DEF S
  <2> QED
    BY <1>1, <1>9, <1>10, CountingUp
<1>12. IsFiniteSet(Served(n)) /\ Cardinality(Served(n)) = share[n]
  BY <1>1, <1>11
<1> QED
  BY <1>8, <1>12 DEF n, c

\* A valid rollout gives every variation exactly the buckets it declares,
\* however many slices name it and in whatever order: no bucket is lost or
\* counted twice at the edge between two slices.
THEOREM RolloutIsFair ==
    ASSUME NEW Keys, NEW slices \in Seq([variation : Keys, weight : Int]),
           isValidDistribution(slices), NEW v
    PROVE  Cardinality(ServedBuckets(slices, v)) = DeclaredWeight(slices, v)
<1>1. slices \in Seq(Slices(Keys)) /\ cumulative(slices)[Len(slices)] = BucketSpace
  BY ValidHasNaturalWeights
<1> QED
  BY <1>1, PrefixShares DEF ServedBuckets

-----------------------------------------------------------------------------
(* Recursion over sets.  A search that recurses with ever more flags on    *)
(* its path ends because there are finitely many of them.                  *)

Above(F, p) == {q \in SUBSET F : p \subseteq q /\ p # q}

\* The members of F that p leaves out, counted.
LEMMA LeftOut ==
    ASSUME NEW F, IsFiniteSet(F), NEW p \in SUBSET F
    PROVE  Cardinality(F \ p) \in 0..Cardinality(F)
<1>1. IsFiniteSet(F \ p) /\ Cardinality(F \ p) <= Cardinality(F)
  BY FS_Subset
<1>2. Cardinality(F \ p) \in Nat /\ Cardinality(F) \in Nat
  BY <1>1, FS_CardinalityType
<1> QED
  BY <1>1, <1>2

LEMMA AboveLeavesOutLess ==
    ASSUME NEW F, IsFiniteSet(F), NEW p \in SUBSET F, NEW q \in Above(F, p)
    PROVE  Cardinality(F \ q) < Cardinality(F \ p)
<1>1. IsFiniteSet(F \ p)
  BY FS_Subset
<1>2. F \ q \in SUBSET (F \ p) /\ F \ q # F \ p
  BY DEF Above
<1>3. /\ Cardinality(F \ q) <= Cardinality(F \ p)
      /\ Cardinality(F \ q) # Cardinality(F \ p)
  BY <1>1, <1>2, FS_Subset
<1>4. Cardinality(F \ p) \in Nat /\ Cardinality(F \ q) \in Nat
  <2>1. q \in SUBSET F
    BY DEF Above
  <2> QED
    BY <2>1, LeftOut
<1> QED
  BY <1>3, <1>4

\* Induction from a set's supersets to the set.
Inherits(F, S) == \A p \in SUBSET F : (\A q \in Above(F, p) : q \in S) => p \in S

LEMMA SupersetInduction ==
    ASSUME NEW F, IsFiniteSet(F), NEW S, Inherits(F, S)
    PROVE  SUBSET F \subseteq S
<1> DEFINE n == Cardinality(F)
           Upto(k) == {p \in SUBSET F : Cardinality(F \ p) <= k}
           K == {k \in 0..n : Upto(k) \subseteq S}
<1>1. n \in Nat
  BY FS_CardinalityType
<1>2. ASSUME NEW p \in SUBSET F,
             \A q \in SUBSET F : Cardinality(F \ q) < Cardinality(F \ p) => q \in S
      PROVE  p \in S
  <2>1. ASSUME NEW q \in Above(F, p) PROVE q \in S
    <3>1. q \in SUBSET F
      BY DEF Above
    <3> QED
      BY <1>2, <3>1, AboveLeavesOutLess
  <2> QED
    BY <2>1 DEF Inherits
<1>3. 0 \in K
  <2>1. ASSUME NEW p \in Upto(0) PROVE p \in S
    <3>1. ASSUME NEW q \in SUBSET F PROVE ~(Cardinality(F \ q) < Cardinality(F \ p))
      <4>1. Cardinality(F \ q) \in 0..n /\ Cardinality(F \ p) \in 0..n
        BY LeftOut
      <4> QED
        BY <1>1, <4>1
    <3> QED
      BY <1>2, <3>1
  <2> QED
    BY <1>1, <2>1
<1>4. ASSUME NEW k \in 0..(n - 1), k \in K PROVE k + 1 \in K
  <2>1. ASSUME NEW p \in Upto(k + 1) PROVE p \in S
    <3>1. ASSUME NEW q \in SUBSET F, Cardinality(F \ q) < Cardinality(F \ p) PROVE q \in S
      <4>1. Cardinality(F \ q) \in 0..n /\ Cardinality(F \ p) \in 0..n
        BY LeftOut
      <4>2. q \in Upto(k)
        BY <3>1, <4>1
      <4> QED
        BY <1>4, <4>2
    <3> QED
      BY <1>2, <3>1
  <2> QED
    BY <1>1, <2>1
<1>5. n \in K
  <2> HIDE DEF K, n
  <2>1. 0..n \subseteq K
    BY <1>1, <1>3, <1>4, CountingUp
  <2> QED
    BY <1>1, <2>1
<1>6. SUBSET F \subseteq Upto(n)
  BY LeftOut
<1> QED
  BY <1>5, <1>6

\* A function may be defined from its values on a set's supersets: G[p][sub] is
\* the value at p, from the values sub above p.
FromAbove(F, T, G) ==
    \A p \in SUBSET F : \A sub \in [Above(F, p) -> T] : G[p][sub] \in T

Recurs(f, F, G) == \A p \in SUBSET F : f[p] = G[p][[q \in Above(F, p) |-> f[q]]]

LEMMA SupersetRecursion ==
    ASSUME NEW F, IsFiniteSet(F), NEW T, NEW G, FromAbove(F, T, G)
    PROVE  \E f \in [SUBSET F -> T] : Recurs(f, F, G)
<1> DEFINE n == Cardinality(F) + 1
           Below(k) == {p \in SUBSET F : Cardinality(F \ p) < k}
           Sub(f, p) == [q \in Above(F, p) |-> f[q]]
           Solves(f, k) == \A p \in Below(k) : f[p] = G[p][Sub(f, p)]
           K == {k \in 0..n : \E f \in [Below(k) -> T] : Solves(f, k)}
<1>1. Cardinality(F) \in Nat /\ n \in Nat
  BY FS_CardinalityType
<1>2. 0 \in K
  <2>1. Below(0) = {}
    BY LeftOut
  <2>2. [p \in Below(0) |-> p] \in [Below(0) -> T] /\ Solves([p \in Below(0) |-> p], 0)
    BY <2>1
  <2> HIDE DEF Below, Solves
  <2>3. \E f \in [Below(0) -> T] : Solves(f, 0)
    BY <2>2
  <2>4. 0 \in 0..n
    BY <1>1
  <2> QED
    BY <2>3, <2>4
<1>3. ASSUME NEW k \in 0..(n - 1), k \in K PROVE k + 1 \in K
  <2>1. PICK f \in [Below(k) -> T] : Solves(f, k)
    BY <1>3
  <2> DEFINE g == [p \in Below(k + 1) |-> G[p][Sub(f, p)]]
  <2>2. ASSUME NEW p \in Below(k + 1) PROVE Above(F, p) \subseteq Below(k)
    <3> SUFFICES ASSUME NEW q \in Above(F, p) PROVE q \in Below(k)
      OBVIOUS
    <3>1. q \in SUBSET F
      BY DEF Above
    <3>2. Cardinality(F \ q) < Cardinality(F \ p)
      BY AboveLeavesOutLess
    <3>3. Cardinality(F \ q) \in 0..Cardinality(F) /\ Cardinality(F \ p) \in 0..Cardinality(F)
      BY <3>1, LeftOut
    <3> QED
      BY <1>1, <3>1, <3>2, <3>3
  <2>3. Below(k) \subseteq Below(k + 1) /\ Below(k + 1) \subseteq SUBSET F
    <3> SUFFICES ASSUME NEW p \in Below(k) PROVE p \in Below(k + 1)
      OBVIOUS
    <3>1. Cardinality(F \ p) \in 0..Cardinality(F)
      BY LeftOut
    <3> QED
      BY <1>1, <3>1
  <2> HIDE DEF Below
  <2>4. \A p \in Below(k + 1) : Sub(f, p) \in [Above(F, p) -> T]
    BY <2>2
  <2>5. \A p \in Below(k + 1) : G[p][Sub(f, p)] \in T
    <3> HIDE DEF Sub
    <3> QED
      BY <2>3, <2>4 DEF FromAbove
  <2>6. g \in [Below(k + 1) -> T]
    <3> HIDE DEF Sub
    <3> QED
      BY <2>5
  <2>7. \A p \in Below(k + 1) : g[p] = G[p][Sub(f, p)]
    OBVIOUS
  <2>8. \A q \in Below(k) : g[q] = f[q]
    <3> HIDE DEF Sub, g
    <3> QED
      BY <2>1, <2>3, <2>7
  <2> HIDE DEF g
  <2>9. \A p \in Below(k + 1) : Sub(g, p) = Sub(f, p)
    BY <2>2, <2>8
  <2>10. Solves(g, k + 1)
    <3> HIDE DEF Sub
    <3> QED
      BY <2>7, <2>9
  <2> HIDE DEF Solves
  <2>11. \E h \in [Below(k + 1) -> T] : Solves(h, k + 1)
    BY <2>6, <2>10
  <2>12. k + 1 \in 0..n
    BY <1>1
  <2> QED
    BY <2>11, <2>12
<1>4. n \in K
  <2> HIDE DEF K, n
  <2>1. 0..n \subseteq K
    BY <1>1, <1>2, <1>3, CountingUp
  <2> QED
    BY <1>1, <2>1
<1>5. Below(n) = SUBSET F
  <2> SUFFICES ASSUME NEW p \in SUBSET F PROVE p \in Below(n)
    OBVIOUS
  <2>1. Cardinality(F \ p) \in 0..Cardinality(F)
    BY LeftOut
  <2> QED
    BY <1>1, <2>1
<1> HIDE DEF Below, n
<1>6. PICK f \in [Below(n) -> T] : Solves(f, n)
  BY <1>4
<1>7. f \in [SUBSET F -> T] /\ Recurs(f, F, G)
  BY <1>5, <1>6 DEF Recurs
<1> QED
  BY <1>7

\* A loop that takes a value through n steps, H[i] being the step it makes in
\* round i.
Runs(f, n, t0, H) == f[0] = t0 /\ \A i \in 1..n : f[i] = H[i][f[i - 1]]

LEMMA LoopRecursion ==
    ASSUME NEW T, NEW t0 \in T, NEW n \in Nat, NEW H \in [1..n -> [T -> T]]
    PROVE  \E f \in [0..n -> T] : Runs(f, n, t0, H)
<1> DEFINE Solves(f, k) == f[0] = t0 /\ \A i \in 1..k : f[i] = H[i][f[i - 1]]
           K == {k \in 0..n : \E f \in [0..k -> T] : Solves(f, k)}
<1>1. 0 \in K
  <2>1. [i \in 0..0 |-> t0] \in [0..0 -> T] /\ Solves([i \in 0..0 |-> t0], 0)
    OBVIOUS
  <2> HIDE DEF Solves
  <2>2. \E f \in [0..0 -> T] : Solves(f, 0)
    BY <2>1
  <2> QED
    BY <2>2
<1>2. ASSUME NEW k \in 0..(n - 1), k \in K PROVE k + 1 \in K
  <2>1. PICK f \in [0..k -> T] : Solves(f, k)
    BY <1>2
  <2> DEFINE g == [i \in 0..(k + 1) |-> IF i = k + 1 THEN H[k + 1][f[k]] ELSE f[i]]
  <2>2. k + 1 \in 1..n /\ f[k] \in T
    OBVIOUS
  <2>3. H[k + 1][f[k]] \in T
    BY <2>2
  <2>4. g \in [0..(k + 1) -> T]
    BY <2>3
  <2>5. Solves(g, k + 1)
    BY <2>1
  <2> HIDE DEF g, Solves
  <2>6. \E h \in [0..(k + 1) -> T] : Solves(h, k + 1)
    BY <2>4, <2>5
  <2>7. k + 1 \in 0..n
    OBVIOUS
  <2> QED
    BY <2>6, <2>7
<1>3. 0..n \subseteq K
  <2> HIDE DEF K
  <2> QED
    BY <1>1, <1>2, CountingUp
<1>4. n \in K
  BY <1>3
<1>5. PICK f \in [0..n -> T] : Solves(f, n)
  BY <1>4
<1>6. Runs(f, n, t0, H)
  BY <1>5 DEF Runs
<1> QED
  BY <1>6

-----------------------------------------------------------------------------
(* Prerequisites: the recursions of the search are well-defined.           *)

Outcomes(F) == [done : SUBSET F, cycle : BOOLEAN]
Visitors(F, N) == [SUBSET F -> [N -> Outcomes(F)]]

LEMMA OutcomeTypes ==
    ASSUME NEW F, NEW done \in SUBSET F
    PROVE  /\ Visited(done) \in Outcomes(F) /\ CycleFound(done) \in Outcomes(F)
           /\ Visited(done).done = done /\ Visited(done).cycle = FALSE
           /\ CycleFound(done).cycle = TRUE
BY DEF Visited, CycleFound, Outcomes

\* The loop of visitAll, as far as it has come.
Loop(visitOne, done, keys, after) ==
    /\ after[0] = Visited(done)
    /\ \A i \in 1..Len(keys) :
         after[i] = IF after[i - 1].cycle THEN after[i - 1]
                    ELSE visitOne[after[i - 1].done][keys[i]]

LoopEnds(F, visitOne, done, keys) ==
    \E after \in [0..Len(keys) -> Outcomes(F)] :
      /\ Loop(visitOne, done, keys, after)
      /\ visitAll(visitOne, done, keys) = after[Len(keys)]

LEMMA VisitAllLoops ==
    ASSUME NEW F, NEW N, NEW visitOne \in Visitors(F, N),
           NEW done \in SUBSET F, NEW keys \in Seq(N)
    PROVE  LoopEnds(F, visitOne, done, keys)
<1> DEFINE n == Len(keys)
           T == Outcomes(F)
           Round(i, t) == IF t.cycle THEN t ELSE visitOne[t.done][keys[i]]
           H == [i \in 1..n |-> [t \in T |-> Round(i, t)]]
           Whole(f) == f = [i \in 0..n |-> IF i = 0 THEN Visited(done)
                                           ELSE IF f[i - 1].cycle THEN f[i - 1]
                                           ELSE visitOne[f[i - 1].done][keys[i]]]
           total == CHOOSE f : Whole(f)
<1>1. n \in Nat /\ Visited(done) \in T
  <2>1. n \in Nat
    OBVIOUS
  <2>2. Visited(done) \in Outcomes(F)
    BY OutcomeTypes, Zenon
  <2> QED
    BY <2>1, <2>2
<1>2. ASSUME NEW i \in 1..n, NEW t \in T PROVE Round(i, t) \in T
  <2>1. keys[i] \in N
    OBVIOUS
  <2>2. t.done \in SUBSET F /\ t.cycle \in BOOLEAN
    BY DEF Outcomes
  <2>3. visitOne[t.done][keys[i]] \in T
    BY <2>1, <2>2 DEF Visitors
  <2> QED
    BY <2>3
<1>3. H \in [1..n -> [T -> T]] /\ \A i \in 1..n : \A t \in T : H[i][t] = Round(i, t)
  <2> HIDE DEF T, Round
  <2> QED
    BY <1>2
<1>4. PICK f \in [0..n -> T] : Runs(f, n, Visited(done), H)
  <2> HIDE DEF T, H, n, Round
  <2> QED
    BY <1>1, <1>3, LoopRecursion
<1>5. \A i \in 1..n : f[i] = Round(i, f[i - 1])
  <2>1. \A i \in 1..n : f[i - 1] \in T
    BY <1>1
  <2> HIDE DEF T, H, n, Round
  <2> QED
    BY <1>3, <1>4, <2>1 DEF Runs
<1>6. Whole(f)
  <2> HIDE DEF T, H
  <2>1. f[0] = Visited(done)
    BY <1>4 DEF Runs
  <2> QED
    BY <1>1, <1>5, <2>1
<1>7. Whole(total)
  <2> HIDE DEF Whole
  <2> QED
    BY <1>6
<1>8. total[0] = Visited(done) /\ \A i \in 1..n : total[i] = Round(i, total[i - 1])
  <2>1. 0 \in 0..n /\ \A i \in 1..n : i \in 0..n /\ i # 0
    BY <1>1
  <2> HIDE DEF total, n
  <2> QED
    BY <1>7, <2>1
<1>9. DOMAIN total = 0..n /\ total = [i \in DOMAIN total |-> total[i]]
  <2> HIDE DEF total
  <2> QED
    BY <1>7
<1>10. visitAll(visitOne, done, keys) = total[n]
  BY DEF visitAll
<1> DEFINE S == {i \in 0..n : total[i] \in T}
<1> HIDE DEF total, T, n, Whole
<1>11. 0 \in S
  BY <1>1, <1>8
<1>12. ASSUME NEW k \in 0..(n - 1), k \in S PROVE k + 1 \in S
  <2>1. k + 1 \in 1..n /\ (k + 1) - 1 = k
    BY <1>1
  <2>2. total[k + 1] = Round(k + 1, total[k])
    BY <1>8, <2>1
  <2> HIDE DEF Round
  <2>3. total[k + 1] \in T
    BY <1>2, <1>12, <2>1, <2>2
  <2> QED
    BY <2>1, <2>3
<1>13. 0..n \subseteq S
  <2> HIDE DEF S
  <2> QED
    BY <1>1, <1>11, <1>12, CountingUp
<1>14. total \in [0..n -> T]
  BY <1>9, <1>13
<1>15. Loop(visitOne, done, keys, total)
  BY <1>8 DEF Loop, n
<1> QED
  BY <1>10, <1>14, <1>15 DEF n, T, LoopEnds

LEMMA NamedKeysType ==
    ASSUME NEW F, NEW Keys, NEW requires \in [F -> Seq(Keys)]
    PROVE  /\ DOMAIN requires = F
           /\ F \subseteq NamedKeys(requires)
           /\ \A f \in F : requires[f] \in Seq(NamedKeys(requires))
<1>1. DOMAIN requires = F
  OBVIOUS
<1>2. F \subseteq NamedKeys(requires)
  BY <1>1 DEF NamedKeys
<1>3. ASSUME NEW f \in F PROVE requires[f] \in Seq(NamedKeys(requires))
  <2>1. requires[f] \in Seq(Keys)
    OBVIOUS
  <2>2. \A i \in 1..Len(requires[f]) : requires[f][i] \in NamedKeys(requires)
    BY <1>1 DEF NamedKeys
  <2> QED
    BY <2>1, <2>2
<1> QED
  BY <1>1, <1>2, <1>3

LEMMA VisitType ==
    ASSUME NEW F, NEW Keys, NEW requires \in [F -> Seq(Keys)],
           NEW path \in SUBSET F, NEW done \in SUBSET F, NEW key, NEW visits,
           \A q \in Above(F, path) : visits[q] \in Visitors(F, NamedKeys(requires))
    PROVE  visit(requires, visits, path, done, key) \in Outcomes(F)
<1> DEFINE N == NamedKeys(requires)
           below == visitAll(visits[path \cup {key}], done, requires[key])
<1>1. Visited(done) \in Outcomes(F) /\ CycleFound(done) \in Outcomes(F)
  BY OutcomeTypes, Zenon
<1>2. DOMAIN requires = F
  OBVIOUS
<1>3. CASE key \in F /\ key \notin path /\ key \notin done
  <2>1. path \cup {key} \in Above(F, path)
    BY <1>3 DEF Above
  <2>2. visits[path \cup {key}] \in Visitors(F, N) /\ requires[key] \in Seq(N)
    BY <1>3, <2>1, NamedKeysType
  <2> DEFINE one == visits[path \cup {key}]
             keys == requires[key]
  <2>3. visitAll(one, done, keys) \in Outcomes(F)
    <3>1. one \in Visitors(F, N) /\ keys \in Seq(N)
      BY <2>2
    <3> HIDE DEF one, keys, N
    <3>2. PICK after \in [0..Len(keys) -> Outcomes(F)] :
            visitAll(one, done, keys) = after[Len(keys)]
      <4>1. LoopEnds(F, one, done, keys)
        BY <3>1, VisitAllLoops
      <4> QED
        BY <4>1 DEF LoopEnds
    <3>3. Len(keys) \in 0..Len(keys)
      BY <3>1
    <3> QED
      BY <3>2, <3>3
  <2>4. below \in Outcomes(F)
    BY <2>3
  <2>5. below.done \cup {key} \in SUBSET F
    BY <1>3, <2>4 DEF Outcomes
  <2>6. Visited(below.done \cup {key}) \in Outcomes(F)
    BY <2>5, OutcomeTypes, Zenon
  <2>7. visit(requires, visits, path, done, key) =
          IF below.cycle THEN below ELSE Visited(below.done \cup {key})
    BY <1>2, <1>3, Zenon DEF visit
  <2> HIDE DEF below
  <2> QED
    BY <2>4, <2>6, <2>7
<1>4. CASE ~(key \in F /\ key \notin path /\ key \notin done)
  <2>1. visit(requires, visits, path, done, key) \in {Visited(done), CycleFound(done)}
    BY <1>2, <1>4 DEF visit
  <2> QED
    BY <1>1, <2>1
<1> QED
  BY <1>3, <1>4

LEMMA VisitUsesAbove ==
    ASSUME NEW F, NEW Keys, NEW requires \in [F -> Seq(Keys)],
           NEW path \in SUBSET F, NEW done, NEW key, NEW visits, NEW others,
           \A q \in Above(F, path) : visits[q] = others[q]
    PROVE  visit(requires, visits, path, done, key) = visit(requires, others, path, done, key)
<1>1. DOMAIN requires = F
  OBVIOUS
<1>2. CASE key \in F /\ key \notin path
  <2>1. path \cup {key} \in Above(F, path)
    BY <1>2 DEF Above
  <2>2. visits[path \cup {key}] = others[path \cup {key}]
    BY <2>1
  <2> QED
    BY <2>2, Zenon DEF visit
<1>3. CASE ~(key \in F /\ key \notin path)
  BY <1>1, <1>3, Zenon DEF visit
<1> QED
  BY <1>2, <1>3

\* Visits is the function its recursive definition describes.
VisitsUnfold(F, requires, v) ==
    \A path, done \in SUBSET F : \A key \in NamedKeys(requires) :
      v[path][done][key] = visit(requires, v, path, done, key)

LEMMA VisitsDefined ==
    ASSUME NEW F, IsFiniteSet(F), NEW Keys, NEW requires \in [F -> Seq(Keys)]
    PROVE  /\ Visits(requires) \in [SUBSET F -> Visitors(F, NamedKeys(requires))]
           /\ VisitsUnfold(F, requires, Visits(requires))
<1> DEFINE N == NamedKeys(requires)
           T == Visitors(F, N)
           At(v, path) == [done \in SUBSET F |->
                             [key \in N |-> visit(requires, v, path, done, key)]]
           G == [path \in SUBSET F |-> [sub \in [Above(F, path) -> T] |-> At(sub, path)]]
           Whole(v) == v = [path \in SUBSET F |-> At(v, path)]
           V == CHOOSE v : Whole(v)
<1>1. DOMAIN requires = F
  OBVIOUS
<1>2. ASSUME NEW path \in SUBSET F, NEW v, \A q \in Above(F, path) : v[q] \in T
      PROVE  At(v, path) \in T
  <2>1. \A done \in SUBSET F : \A key \in N : visit(requires, v, path, done, key) \in Outcomes(F)
    BY <1>2, VisitType
  <2> QED
    BY <2>1 DEF Visitors
<1>3. FromAbove(F, T, G)
  <2>1. ASSUME NEW path \in SUBSET F, NEW sub \in [Above(F, path) -> T]
        PROVE  G[path][sub] \in T
    <3>1. At(sub, path) \in T
      <4> HIDE DEF At, T
      <4> QED
        BY <1>2
    <3>2. G[path][sub] = At(sub, path)
      <4> HIDE DEF At, T
      <4> QED
        OBVIOUS
    <3> QED
      BY <3>1, <3>2
  <2> HIDE DEF G, T
  <2> QED
    BY <2>1 DEF FromAbove
<1>4. PICK v \in [SUBSET F -> T] : Recurs(v, F, G)
  <2> HIDE DEF G, T
  <2> QED
    BY <1>3, SupersetRecursion
<1>5. ASSUME NEW path \in SUBSET F PROVE v[path] = At(v, path)
  <2> DEFINE sub == [q \in Above(F, path) |-> v[q]]
  <2>1. Above(F, path) \subseteq SUBSET F
    BY DEF Above
  <2>2. sub \in [Above(F, path) -> T]
    <3> HIDE DEF T
    <3> QED
      BY <2>1
  <2>3. v[path] = G[path][sub]
    <3> HIDE DEF G
    <3> QED
      BY <1>4 DEF Recurs
  <2>4. G[path][sub] = At(sub, path)
    <3> HIDE DEF At, T, sub
    <3> QED
      BY <2>2
  <2>5. \A q \in Above(F, path) : sub[q] = v[q]
    OBVIOUS
  <2> HIDE DEF sub
  <2>6. \A done \in SUBSET F : \A key \in N :
          visit(requires, sub, path, done, key) = visit(requires, v, path, done, key)
    BY <2>5, VisitUsesAbove
  <2>7. At(sub, path) = At(v, path)
    BY <2>6
  <2> QED
    BY <2>3, <2>4, <2>7
<1>6. Whole(v)
  <2> HIDE DEF At, T
  <2> QED
    BY <1>5
<1>7. Whole(V)
  <2> HIDE DEF Whole
  <2> QED
    BY <1>6
<1>8. Visits(requires) = V
  BY <1>1 DEF Visits
<1>9. \A path \in SUBSET F : V[path] = At(V, path)
  <2> HIDE DEF V, At
  <2> QED
    BY <1>7
<1>10. DOMAIN V = SUBSET F /\ V = [path \in DOMAIN V |-> V[path]]
  <2> HIDE DEF V, At
  <2> QED
    BY <1>7
<1> DEFINE S == {path \in SUBSET F : V[path] \in T}
<1> HIDE DEF V
<1>11. SUBSET F \subseteq S
  <2>1. ASSUME NEW path \in SUBSET F, \A q \in Above(F, path) : q \in S
        PROVE  path \in S
    <3>1. \A q \in Above(F, path) : V[q] \in T
      BY <2>1
    <3> HIDE DEF At, T
    <3>2. V[path] \in T
      BY <1>2, <1>9, <3>1
    <3> QED
      BY <3>2
  <2> HIDE DEF S
  <2>2. Inherits(F, S)
    BY <2>1 DEF Inherits
  <2> QED
    BY <2>2, SupersetInduction
<1>12. V \in [SUBSET F -> T]
  <2> HIDE DEF T
  <2> QED
    BY <1>10, <1>11
<1>13. VisitsUnfold(F, requires, V)
  <2> SUFFICES ASSUME NEW path \in SUBSET F, NEW done \in SUBSET F, NEW key \in N
               PROVE  V[path][done][key] = visit(requires, V, path, done, key)
    BY DEF VisitsUnfold
  <2>1. V[path] = At(V, path)
    <3> HIDE DEF At
    <3> QED
      BY <1>9
  <2>2. At(V, path)[done][key] = visit(requires, V, path, done, key)
    OBVIOUS
  <2> HIDE DEF At
  <2> QED
    BY <2>1, <2>2
<1> QED
  BY <1>8, <1>12, <1>13

-----------------------------------------------------------------------------
(* The search finds a cycle exactly when there is one.                     *)

Named(keys) == {keys[i] : i \in 1..Len(keys)}
Needs(requires, f) == Named(requires[f])

LEMMA CyclesInNeeds ==
    ASSUME NEW requires, NEW flags
    PROVE  IsCycle(requires, flags) <=> \A f \in flags : Needs(requires, f) \cap flags # {}
BY DEF IsCycle, Needs, Named

\* Flags whose requirements are among them, and that hold no cycle: what the
\* search has marked 'done'.
Closed(requires, flags) ==
    \A f \in flags : Needs(requires, f) \cap DOMAIN requires \subseteq flags

Acyclic(requires, flags) ==
    \A C \in SUBSET flags : IsCycle(requires, C) => C = {}

Cleared(requires, flags) ==
    /\ flags \subseteq DOMAIN requires
    /\ Closed(requires, flags)
    /\ Acyclic(requires, flags)

\* Each flag on the path requires one on it, or the key visited next: what the
\* search has marked 'visiting'.
LeadsTo(requires, path, key) ==
    \A f \in path : Needs(requires, f) \cap (path \cup {key}) # {}

LeadToAll(requires, path, keys) ==
    \A i \in 1..Len(keys) : LeadsTo(requires, path, keys[i])

\* What a visit, or a loop of them, has to answer.
Answers(requires, path, done, keys, r) ==
    IF r.cycle THEN HasCycle(requires)
    ELSE /\ Cleared(requires, r.done)
         /\ r.done \cap path = {}
         /\ done \subseteq r.done
         /\ keys \cap DOMAIN requires \subseteq r.done

VisitsWell(requires, path, visitOne) ==
    \A done \in SUBSET DOMAIN requires : \A key \in NamedKeys(requires) :
      Cleared(requires, done) /\ done \cap path = {} /\ LeadsTo(requires, path, key)
        => Answers(requires, path, done, {key}, visitOne[done][key])

LEMMA LoopAnswers ==
    ASSUME NEW F, NEW Keys, NEW requires \in [F -> Seq(Keys)],
           NEW path \in SUBSET F, NEW done \in SUBSET F,
           NEW keys \in Seq(NamedKeys(requires)),
           NEW visitOne \in Visitors(F, NamedKeys(requires)),
           VisitsWell(requires, path, visitOne),
           Cleared(requires, done), done \cap path = {},
           LeadToAll(requires, path, keys)
    PROVE  Answers(requires, path, done, Named(keys), visitAll(visitOne, done, keys))
<1> DEFINE n == Len(keys)
           N == NamedKeys(requires)
           Upto(i) == {keys[j] : j \in 1..i}
           r == visitAll(visitOne, done, keys)
<1>1. n \in Nat /\ DOMAIN requires = F
  OBVIOUS
<1>2. PICK after \in [0..n -> Outcomes(F)] :
        Loop(visitOne, done, keys, after) /\ r = after[n]
  <2>1. LoopEnds(F, visitOne, done, keys)
    BY VisitAllLoops
  <2> QED
    BY <2>1 DEF LoopEnds
<1> DEFINE S == {i \in 0..n : Answers(requires, path, done, Upto(i), after[i])}
<1>3. 0 \in S
  <2>1. after[0] = Visited(done)
    BY <1>2 DEF Loop
  <2>2. after[0].done = done /\ after[0].cycle = FALSE
    BY <2>1 DEF Visited
  <2>3. Upto(0) = {}
    OBVIOUS
  <2>4. Answers(requires, path, done, Upto(0), after[0])
    <3> HIDE DEF Upto
    <3> QED
      BY <2>2, <2>3 DEF Answers
  <2>5. 0 \in 0..n
    BY <1>1
  <2> QED
    BY <2>4, <2>5
<1>4. ASSUME NEW k \in 0..(n - 1), k \in S PROVE k + 1 \in S
  <2>1. k + 1 \in 1..n /\ (k + 1) - 1 = k /\ k + 1 \in 0..n /\ k \in 0..n
    BY <1>1
  <2>2. keys[k + 1] \in N /\ after[k] \in Outcomes(F)
    BY <2>1
  <2>3. after[k].done \in SUBSET F /\ after[k].cycle \in BOOLEAN
    BY <2>2 DEF Outcomes
  <2>4. after[k + 1] = IF after[k].cycle THEN after[k]
                       ELSE visitOne[after[k].done][keys[k + 1]]
    BY <1>2, <2>1 DEF Loop
  <2>5. Upto(k + 1) = Upto(k) \cup {keys[k + 1]}
    <3>1. \A j : j \in 1..(k + 1) <=> (j \in 1..k \/ j = k + 1)
      BY <2>1
    <3> QED
      BY <3>1, Zenon
  <2>6. Answers(requires, path, done, Upto(k), after[k])
    BY <1>4
  <2> HIDE DEF Upto
  <2>7. CASE after[k].cycle
    <3>1. Answers(requires, path, done, Upto(k + 1), after[k + 1])
      BY <2>4, <2>6, <2>7 DEF Answers
    <3> QED
      BY <2>1, <3>1
  <2>8. CASE ~after[k].cycle
    <3> DEFINE d == after[k].done
               key == keys[k + 1]
               a == after[k + 1]
    <3>1. Cleared(requires, d) /\ d \cap path = {} /\ done \subseteq d /\ Upto(k) \cap F \subseteq d
      BY <1>1, <2>6, <2>8 DEF Answers
    <3>2. LeadsTo(requires, path, key)
      BY <2>1 DEF LeadToAll
    <3>3. a = visitOne[d][key] /\ d \in SUBSET F /\ key \in N
      BY <2>2, <2>3, <2>4, <2>8
    <3>4. Upto(k + 1) = Upto(k) \cup {key}
      BY <2>5
    <3> HIDE DEF d, key, a
    <3>5. Answers(requires, path, d, {key}, a)
      BY <1>1, <3>1, <3>2, <3>3 DEF VisitsWell
    <3>6. Answers(requires, path, done, Upto(k + 1), a)
      BY <1>1, <3>1, <3>4, <3>5 DEF Answers
    <3> QED
      BY <2>1, <3>6 DEF a
  <2> QED
    BY <2>7, <2>8
<1>5. 0..n \subseteq S
  <2> HIDE DEF S, n
  <2> QED
    BY <1>1, <1>3, <1>4, CountingUp
<1>6. n \in S
  BY <1>1, <1>5
<1> QED
  BY <1>2, <1>6 DEF Named

\* A flag all of whose requirements are cleared is cleared too, unless it was on
\* the path.
LEMMA ClearsNext ==
    ASSUME NEW requires, NEW D, Cleared(requires, D),
           NEW key \in DOMAIN requires, key \notin D,
           Needs(requires, key) \cap DOMAIN requires \subseteq D
    PROVE  Cleared(requires, D \cup {key})
<1> DEFINE F == DOMAIN requires
           Req(f) == Needs(requires, f)
<1>1. Closed(requires, D \cup {key})
  BY DEF Closed, Cleared
<1>2. ASSUME NEW C \in SUBSET (D \cup {key}), IsCycle(requires, C) PROVE C = {}
  <2>1. C \subseteq F
    BY DEF Cleared
  <2>2. \A f \in C : Req(f) \cap C # {}
    BY <1>2, CyclesInNeeds
  <2>3. \A f \in C : Req(f) \cap C \subseteq D
    BY <2>1 DEF Cleared, Closed
  <2>4. \A f \in C \cap D : Req(f) \cap (C \cap D) # {}
    BY <2>2, <2>3
  <2>5. IsCycle(requires, C \cap D)
    BY <2>4, CyclesInNeeds
  <2>6. C \cap D = {}
    BY <2>5 DEF Cleared, Acyclic
  <2> QED
    BY <2>2, <2>3, <2>6
<1> QED
  BY <1>1, <1>2 DEF Cleared, Acyclic

LEMMA VisitAnswers ==
    ASSUME NEW F, NEW Keys, NEW requires \in [F -> Seq(Keys)],
           NEW path \in SUBSET F, NEW done \in SUBSET F, NEW key \in NamedKeys(requires),
           NEW visits \in [SUBSET F -> Visitors(F, NamedKeys(requires))],
           \A q \in Above(F, path) : VisitsWell(requires, q, visits[q]),
           Cleared(requires, done), done \cap path = {}, LeadsTo(requires, path, key)
    PROVE  Answers(requires, path, done, {key}, visit(requires, visits, path, done, key))
<1> DEFINE N == NamedKeys(requires)
           v == visit(requires, visits, path, done, key)
<1>1. DOMAIN requires = F
  OBVIOUS
<1>2. CASE key \in done \/ (key \notin path /\ key \notin F)
  <2>1. v = Visited(done)
    BY <1>1, <1>2, Zenon DEF visit
  <2>2. v.done = done /\ v.cycle = FALSE
    BY <2>1 DEF Visited
  <2> HIDE DEF v
  <2>3. Answers(requires, path, done, {key}, v)
    BY <1>1, <1>2, <2>2 DEF Answers
  <2> QED
    BY <2>3 DEF v
<1>3. CASE key \notin done /\ key \in path
  <2>1. v = CycleFound(done)
    BY <1>3, Zenon DEF visit
  <2>2. v.cycle = TRUE
    BY <2>1 DEF CycleFound
  <2>3. \A f \in path : Needs(requires, f) \cap path # {}
    BY <1>3 DEF LeadsTo
  <2>4. IsCycle(requires, path)
    BY <2>3, CyclesInNeeds
  <2>5. HasCycle(requires)
    BY <1>1, <1>3, <2>4 DEF HasCycle
  <2> HIDE DEF v
  <2>6. Answers(requires, path, done, {key}, v)
    BY <2>2, <2>5 DEF Answers
  <2> QED
    BY <2>6 DEF v
<1>4. CASE key \notin done /\ key \notin path /\ key \in F
  <2> DEFINE p == path \cup {key}
             keys == requires[key]
             one == visits[p]
             below == visitAll(one, done, keys)
             named == Named(keys)
  <2>1. p \in Above(F, path) /\ p \in SUBSET F
    BY <1>4 DEF Above
  <2>2. VisitsWell(requires, p, one) /\ one \in Visitors(F, N)
    BY <2>1
  <2>3. keys \in Seq(N)
    BY <1>4, NamedKeysType
  <2>4. done \cap p = {}
    BY <1>4
  <2>5. named = Needs(requires, key)
    BY DEF Needs
  <2>6. LeadToAll(requires, p, keys)
    <3> SUFFICES ASSUME NEW i \in 1..Len(keys) PROVE LeadsTo(requires, p, keys[i])
      BY DEF LeadToAll
    <3>1. keys[i] \in Needs(requires, key)
      BY DEF Needs, Named
    <3>2. \A f \in path : Needs(requires, f) \cap p # {}
      BY DEF LeadsTo
    <3> HIDE DEF keys
    <3> QED
      BY <3>1, <3>2 DEF LeadsTo
  <2>7. Answers(requires, p, done, named, below)
    <3> HIDE DEF p, keys, one
    <3> QED
      BY <2>1, <2>2, <2>3, <2>4, <2>6, LoopAnswers
  <2>8. v = IF below.cycle THEN below ELSE Visited(below.done \cup {key})
    BY <1>1, <1>4, Zenon DEF visit
  <2> HIDE DEF v, below, named, keys, one
  <2>9. CASE below.cycle
    BY <2>7, <2>8, <2>9 DEF Answers, v
  <2>10. CASE ~below.cycle
    <3> DEFINE D == below.done
    <3>1. /\ Cleared(requires, D) /\ D \cap p = {} /\ done \subseteq D
          /\ Needs(requires, key) \cap F \subseteq D
      BY <1>1, <2>5, <2>7, <2>10 DEF Answers
    <3> HIDE DEF D
    <3>2. key \notin D /\ D \cap path = {}
      BY <3>1
    <3>3. Cleared(requires, D \cup {key})
      BY <1>1, <1>4, <3>1, <3>2, ClearsNext
    <3>4. v = Visited(D \cup {key})
      BY <2>8, <2>10 DEF D
    <3>5. v.done = D \cup {key} /\ v.cycle = FALSE
      BY <3>4 DEF Visited
    <3>6. Answers(requires, path, done, {key}, v)
      BY <1>4, <3>1, <3>2, <3>3, <3>5 DEF Answers
    <3> QED
      BY <3>6 DEF v
  <2> QED
    BY <2>9, <2>10
<1> QED
  BY <1>2, <1>3, <1>4

LEMMA EveryVisitAnswers ==
    ASSUME NEW F, IsFiniteSet(F), NEW Keys, NEW requires \in [F -> Seq(Keys)],
           NEW path \in SUBSET F
    PROVE  VisitsWell(requires, path, Visits(requires)[path])
<1> DEFINE V == Visits(requires)
           N == NamedKeys(requires)
           S == {p \in SUBSET F : VisitsWell(requires, p, V[p])}
<1>1. /\ V \in [SUBSET F -> Visitors(F, N)]
      /\ VisitsUnfold(F, requires, V)
  BY VisitsDefined
<1>2. DOMAIN requires = F
  OBVIOUS
<1> HIDE DEF V
<1>3. ASSUME NEW p \in SUBSET F, \A q \in Above(F, p) : q \in S PROVE p \in S
  <2>1. \A q \in Above(F, p) : VisitsWell(requires, q, V[q])
    BY <1>3
  <2>2. ASSUME NEW done \in SUBSET F, NEW key \in N,
               Cleared(requires, done), done \cap p = {}, LeadsTo(requires, p, key)
        PROVE  Answers(requires, p, done, {key}, V[p][done][key])
    <3>1. Answers(requires, p, done, {key}, visit(requires, V, p, done, key))
      BY <1>1, <2>1, <2>2, VisitAnswers
    <3>2. V[p][done][key] = visit(requires, V, p, done, key)
      BY <1>1 DEF VisitsUnfold
    <3> QED
      BY <3>1, <3>2
  <2>3. VisitsWell(requires, p, V[p])
    BY <1>2, <2>2 DEF VisitsWell
  <2> QED
    BY <2>3
<1>4. Inherits(F, S)
  <2> HIDE DEF S
  <2> QED
    BY <1>3 DEF Inherits
<1>5. SUBSET F \subseteq S
  <2> HIDE DEF S
  <2> QED
    BY <1>4, SupersetInduction
<1> QED
  BY <1>5 DEF V

\* The search of a publish finds a prerequisite cycle if and only if there is
\* one, whatever the flags require and in whatever order they are visited: a
\* flag that is reached twice without being on the path is no cycle, and a flag
\* marked 'done' need not be looked at again.
THEOREM CycleSearchIsExact ==
    ASSUME NEW F, IsFiniteSet(F), NEW Keys, NEW requires \in [F -> Seq(Keys)],
           NEW order \in Seq(F), F \subseteq {order[i] : i \in 1..Len(order)}
    PROVE  findPrerequisiteCycle(requires, order) <=> HasCycle(requires)
<1> DEFINE one == Visits(requires)[{}]
           N == NamedKeys(requires)
           named == Named(order)
           r == visitAll(one, {}, order)
<1>1. DOMAIN requires = F
  OBVIOUS
<1>2. {} \in SUBSET F
  OBVIOUS
<1>3. Visits(requires) \in [SUBSET F -> Visitors(F, N)]
  BY VisitsDefined
<1>4. one \in Visitors(F, N) /\ VisitsWell(requires, {}, one)
  BY <1>2, <1>3, EveryVisitAnswers
<1>5. order \in Seq(N)
  <2>1. F \subseteq N
    BY NamedKeysType
  <2> HIDE DEF N
  <2> QED
    BY <2>1
<1>6. Cleared(requires, {}) /\ {} \cap {} = {}
  BY DEF Cleared, Closed, Acyclic
<1>7. LeadToAll(requires, {}, order)
  BY DEF LeadsTo, LeadToAll
<1>8. Answers(requires, {}, {}, named, r)
  <2> HIDE DEF one
  <2> QED
    BY <1>2, <1>4, <1>5, <1>6, <1>7, LoopAnswers
<1>9. findPrerequisiteCycle(requires, order) = r.cycle
  BY DEF findPrerequisiteCycle
<1>10. r.cycle \in BOOLEAN
  <2> HIDE DEF one, N
  <2>1. LoopEnds(F, one, {}, order)
    BY <1>2, <1>4, <1>5, VisitAllLoops
  <2>2. PICK after \in [0..Len(order) -> Outcomes(F)] : r = after[Len(order)]
    BY <2>1 DEF LoopEnds
  <2>3. Len(order) \in 0..Len(order)
    OBVIOUS
  <2>4. r \in Outcomes(F)
    BY <2>2, <2>3
  <2> HIDE DEF r
  <2> QED
    BY <2>4 DEF Outcomes
<1> HIDE DEF r
<1>11. ASSUME ~r.cycle PROVE ~HasCycle(requires)
  <2>1. Cleared(requires, r.done) /\ F \subseteq r.done
    BY <1>1, <1>8, <1>11 DEF Answers, Named
  <2> QED
    BY <1>1, <2>1 DEF Cleared, Acyclic, HasCycle
<1>12. ASSUME r.cycle PROVE HasCycle(requires)
  BY <1>8, <1>12 DEF Answers
<1> QED
  BY <1>9, <1>10, <1>11, <1>12

-----------------------------------------------------------------------------
(* Evaluation: its recursion is well-defined.                              *)

\* Everything an evaluation may end with.
Endings(flags, matched, bucket) ==
    {Failed} \cup
    UNION {{resultFor(flags[f].off, "off"),
            resultFor(flags[f].off, "prerequisiteFailed"),
            serveFlag(flags[f], matched[f], bucket[f])} : f \in DOMAIN flags}

\* Whether a prerequisite of the flag does not hold, by what evaluate[s] answers.
Unmet(flags, evaluate, s, key) ==
    \E i \in 1..Len(flags[key].prerequisites) :
      evaluate[s][flags[key].prerequisites[i].flag].variation # flags[key].prerequisites[i].variation

LEMMA InternalCases ==
    ASSUME NEW flags, NEW matched, NEW bucket, NEW evaluate, NEW seen, NEW key
    PROVE  evaluateInternal(flags, matched, bucket, evaluate, seen, key) =
             IF key \notin DOMAIN flags \/ key \in seen THEN Failed
             ELSE IF ~flags[key].enabled THEN resultFor(flags[key].off, "off")
             ELSE IF Unmet(flags, evaluate, seen \cup {key}, key)
                  THEN resultFor(flags[key].off, "prerequisiteFailed")
             ELSE serveFlag(flags[key], matched[key], bucket[key])
BY Zenon DEF evaluateInternal, Unmet

LEMMA InternalType ==
    ASSUME NEW flags, NEW matched, NEW bucket, NEW evaluate, NEW seen, NEW key
    PROVE  evaluateInternal(flags, matched, bucket, evaluate, seen, key)
             \in Endings(flags, matched, bucket)
<1> DEFINE ending == evaluateInternal(flags, matched, bucket, evaluate, seen, key)
           mine(f) == {resultFor(flags[f].off, "off"),
                       resultFor(flags[f].off, "prerequisiteFailed"),
                       serveFlag(flags[f], matched[f], bucket[f])}
<1>1. ending = Failed \/ (key \in DOMAIN flags /\ ending \in mine(key))
  BY InternalCases, Zenon
<1>2. \A x : x = Failed \/ (key \in DOMAIN flags /\ x \in mine(key))
              => x \in Endings(flags, matched, bucket)
  BY Zenon DEF Endings
<1> QED
  BY <1>1, <1>2, Zenon

LEMMA InternalUsesAbove ==
    ASSUME NEW flags, NEW matched, NEW bucket, NEW evaluate, NEW others, NEW key,
           NEW seen \in SUBSET DOMAIN flags,
           \A q \in Above(DOMAIN flags, seen) : evaluate[q] = others[q]
    PROVE  evaluateInternal(flags, matched, bucket, evaluate, seen, key)
             = evaluateInternal(flags, matched, bucket, others, seen, key)
<1>1. CASE key \in DOMAIN flags /\ key \notin seen
  <2>1. seen \cup {key} \in Above(DOMAIN flags, seen)
    BY <1>1 DEF Above
  <2>2. evaluate[seen \cup {key}] = others[seen \cup {key}]
    BY <2>1
  <2> QED
    BY <2>2, Zenon DEF evaluateInternal
<1>2. CASE ~(key \in DOMAIN flags /\ key \notin seen)
  BY <1>2, Zenon DEF evaluateInternal
<1> QED
  BY <1>1, <1>2

EvaluationsUnfold(flags, matched, bucket, e) ==
    \A seen \in SUBSET DOMAIN flags : \A key \in NamedKeys(requiresOf(flags)) :
      e[seen][key] = evaluateInternal(flags, matched, bucket, e, seen, key)

\* Evaluations is the function its recursive definition describes.
LEMMA EvaluationsDefined ==
    ASSUME NEW flags, IsFiniteSet(DOMAIN flags), NEW matched, NEW bucket
    PROVE  EvaluationsUnfold(flags, matched, bucket, Evaluations(flags, matched, bucket))
<1> DEFINE F == DOMAIN flags
           N == NamedKeys(requiresOf(flags))
           T == [N -> Endings(flags, matched, bucket)]
           At(e, seen) == [key \in N |-> evaluateInternal(flags, matched, bucket, e, seen, key)]
           G == [seen \in SUBSET F |-> [sub \in [Above(F, seen) -> T] |-> At(sub, seen)]]
           Whole(e) == e = [seen \in SUBSET F |-> At(e, seen)]
           E == CHOOSE e : Whole(e)
<1>1. \A e, seen : At(e, seen) \in T
  BY InternalType
<1>2. FromAbove(F, T, G)
  <2>1. ASSUME NEW seen \in SUBSET F, NEW sub \in [Above(F, seen) -> T]
        PROVE  G[seen][sub] \in T
    <3>1. G[seen][sub] = At(sub, seen)
      <4> HIDE DEF At, T
      <4> QED
        OBVIOUS
    <3> HIDE DEF At, T, G
    <3> QED
      BY <1>1, <3>1
  <2> HIDE DEF G, T
  <2> QED
    BY <2>1 DEF FromAbove
<1>3. PICK e \in [SUBSET F -> T] : Recurs(e, F, G)
  <2> HIDE DEF G, T, F
  <2> QED
    BY <1>2, SupersetRecursion DEF F
<1>4. ASSUME NEW seen \in SUBSET F PROVE e[seen] = At(e, seen)
  <2> DEFINE sub == [q \in Above(F, seen) |-> e[q]]
  <2>1. Above(F, seen) \subseteq SUBSET F
    BY DEF Above
  <2>2. sub \in [Above(F, seen) -> T]
    <3> HIDE DEF T
    <3> QED
      BY <2>1
  <2>3. e[seen] = G[seen][sub]
    <3> HIDE DEF G
    <3> QED
      BY <1>3 DEF Recurs
  <2>4. G[seen][sub] = At(sub, seen)
    <3> HIDE DEF At, T, sub
    <3> QED
      BY <2>2
  <2>5. \A q \in Above(F, seen) : sub[q] = e[q]
    OBVIOUS
  <2> HIDE DEF sub
  <2>6. \A key \in N : evaluateInternal(flags, matched, bucket, sub, seen, key)
                         = evaluateInternal(flags, matched, bucket, e, seen, key)
    BY <2>5, InternalUsesAbove
  <2>7. At(sub, seen) = At(e, seen)
    BY <2>6
  <2> QED
    BY <2>3, <2>4, <2>7
<1>5. Whole(e)
  <2> HIDE DEF At, T
  <2> QED
    BY <1>4
<1>6. Whole(E)
  <2> HIDE DEF Whole
  <2> QED
    BY <1>5
<1>7. Evaluations(flags, matched, bucket) = E
  BY DEF Evaluations
<1>8. \A seen \in SUBSET F : E[seen] = At(E, seen)
  <2> HIDE DEF E, At
  <2> QED
    BY <1>6
<1> HIDE DEF E
<1>9. ASSUME NEW seen \in SUBSET F, NEW key \in N
      PROVE  E[seen][key] = evaluateInternal(flags, matched, bucket, E, seen, key)
  <2>1. At(E, seen)[key] = evaluateInternal(flags, matched, bucket, E, seen, key)
    OBVIOUS
  <2> HIDE DEF At
  <2> QED
    BY <1>8, <2>1
<1> QED
  BY <1>7, <1>9 DEF EvaluationsUnfold

LEMMA FlagsAreNamed ==
    ASSUME NEW flags
    PROVE  /\ DOMAIN requiresOf(flags) = DOMAIN flags
           /\ DOMAIN flags \subseteq NamedKeys(requiresOf(flags))
BY DEF requiresOf, NamedKeys

-----------------------------------------------------------------------------
(* What a publish has checked is served.                                   *)

\* The flag is of the shape the types of packages/core give it, a rule of it or
\* none matches, and the context is in a bucket or in none.
Servable(flag, position, bucket) ==
    /\ flag.enabled \in BOOLEAN
    /\ \A i \in 1..Len(flag.rules) :
         flag.rules[i].serve.kind = "rollout" =>
           flag.rules[i].serve.rollout \in Seq([variation : Variations \cup {Ghost}, weight : Int])
    /\ position \in 0..Len(flag.rules)
    /\ bucket \in -1..(BucketSpace - 1)

AllServable(flags, matched, bucket) ==
    \A f \in DOMAIN flags : Servable(flags[f], matched[f], bucket[f])

AllValid(flags) == \A f \in DOMAIN flags : validVariations(flags[f])

LEMMA ResultsOfVariations ==
    ASSUME NEW v \in Variations, NEW reason
    PROVE  /\ resultFor(v, reason).variation = v
           /\ resultFor(v, reason).reason = reason
           /\ resultFor(v, reason) = [variation |-> v, reason |-> reason]
BY DEF resultFor

LEMMA ServesAVariation ==
    ASSUME NEW flag, NEW position, NEW bucket,
           validVariations(flag), Servable(flag, position, bucket)
    PROVE  serveFlag(flag, position, bucket)
             \in [variation : Variations, reason : {"default", "ruleMatch"}]
<1> DEFINE serve == flag.rules[position].serve
           R == [variation : Variations, reason : {"default", "ruleMatch"}]
           s == serveFlag(flag, position, bucket)
<1>1. ASSUME NEW v \in Variations
      PROVE  resultFor(v, "default") \in R /\ resultFor(v, "ruleMatch") \in R
  BY ResultsOfVariations
<1>2. resultFor(flag.default, "default") \in R
  BY <1>1 DEF validVariations
<1>3. CASE position = 0
  <2>1. s = resultFor(flag.default, "default")
    BY <1>3, Zenon DEF serveFlag
  <2> QED
    BY <1>2, <2>1
<1>4. CASE position # 0
  <2>1. position \in 1..Len(flag.rules)
    BY <1>4 DEF Servable
  <2>2. validServe(serve)
    BY <2>1 DEF validVariations
  <2>3. CASE serve.kind = "variation" /\ serve.variation \in Variations
    <3>1. s = resultFor(serve.variation, "ruleMatch")
      BY <1>4, <2>3, Zenon DEF serveFlag
    <3> QED
      BY <1>1, <2>3, <3>1
  <2>4. CASE /\ serve.kind = "rollout"
             /\ isValidDistribution(serve.rollout)
             /\ \A i \in 1..Len(serve.rollout) : serve.rollout[i].variation \in Variations
    <3> DEFINE slices == serve.rollout
               v == variationForBucket(slices, bucket)
    <3>1. serve.kind # "variation"
      BY <2>4
    <3>2. CASE bucket < 0
      <4>1. s = resultFor(flag.default, "default")
        BY <1>4, <3>1, <3>2, Zenon DEF serveFlag
      <4> QED
        BY <1>2, <4>1
    <3>3. CASE ~(bucket < 0)
      <4>1. bucket \in 0..(BucketSpace - 1)
        BY <3>3, BucketAssumption DEF Servable
      <4>2. slices \in Seq([variation : Variations \cup {Ghost}, weight : Int])
        BY <2>1, <2>4 DEF Servable
      <4>3. isValidDistribution(slices) /\ \A i \in 1..Len(slices) : slices[i].variation \in Variations
        BY <2>4
      <4> HIDE DEF slices
      <4>4. slices \in Seq([variation : Variations, weight : Int])
        <5> DEFINE A == [variation : Variations \cup {Ghost}, weight : Int]
                   B == [variation : Variations, weight : Int]
        <5>1. \A x \in A : x.variation \in Variations => x \in B
          OBVIOUS
        <5> HIDE DEF A, B
        <5>2. slices \in Seq(A)
          BY <4>2 DEF A
        <5>3. \A i \in 1..Len(slices) : slices[i] \in B
          BY <4>3, <5>1, <5>2
        <5>4. slices \in Seq(B)
          BY <5>2, <5>3
        <5> QED
          BY <5>4 DEF B
      <4>5. v \in Variations /\ v # Ghost
        BY <4>1, <4>3, <4>4, EveryBucketIsServed, GhostIsNoVariation
      <4>6. s = resultFor(v, "ruleMatch")
        BY <1>4, <3>1, <3>3, <4>5, Zenon DEF serveFlag, slices
      <4> HIDE DEF v, s
      <4> QED
        BY <1>1, <4>5, <4>6 DEF s
    <3> QED
      BY <3>2, <3>3
  <2> QED
    BY <2>2, <2>3, <2>4 DEF validServe
<1> QED
  BY <1>3, <1>4

\* Evaluating a flag, as one step of the recursion.
LEMMA EvaluateFlagSteps ==
    ASSUME NEW flags, IsFiniteSet(DOMAIN flags), NEW matched, NEW bucket,
           NEW key \in DOMAIN flags
    PROVE  evaluateFlag(flags, matched, bucket, key) =
             IF ~flags[key].enabled THEN resultFor(flags[key].off, "off")
             ELSE IF Unmet(flags, Evaluations(flags, matched, bucket), {key}, key)
                  THEN resultFor(flags[key].off, "prerequisiteFailed")
             ELSE serveFlag(flags[key], matched[key], bucket[key])
<1> DEFINE E == Evaluations(flags, matched, bucket)
<1>1. EvaluationsUnfold(flags, matched, bucket, E)
  BY EvaluationsDefined
<1>2. key \in NamedKeys(requiresOf(flags)) /\ {} \in SUBSET DOMAIN flags
  BY FlagsAreNamed
<1>3. E[{}][key] = evaluateInternal(flags, matched, bucket, E, {}, key)
  BY <1>1, <1>2, Zenon DEF EvaluationsUnfold
<1>4. {} \cup {key} = {key} /\ key \notin {}
  OBVIOUS
<1>5. E[{}][key] = IF ~flags[key].enabled THEN resultFor(flags[key].off, "off")
                   ELSE IF Unmet(flags, E, {} \cup {key}, key)
                        THEN resultFor(flags[key].off, "prerequisiteFailed")
                   ELSE serveFlag(flags[key], matched[key], bucket[key])
  BY <1>3, <1>4, InternalCases, Zenon
<1> QED
  BY <1>4, <1>5, Zenon DEF evaluateFlag

\* Whatever flags a publish has checked, every evaluation of one of them serves
\* a variation it declares and none ends in an error: no matched rule, no
\* rollout and no prerequisite leaves a caller without a value, not even one
\* that names an unknown flag or is part of a cycle.
THEOREM PublishedFlagsAreServed ==
    ASSUME NEW flags, IsFiniteSet(DOMAIN flags), NEW matched, NEW bucket,
           AllValid(flags), AllServable(flags, matched, bucket),
           NEW key \in DOMAIN flags
    PROVE  evaluateFlag(flags, matched, bucket, key)
             \in [variation : Variations,
                  reason : {"off", "prerequisiteFailed", "default", "ruleMatch"}]
<1> DEFINE flag == flags[key]
           R == [variation : Variations,
                 reason : {"off", "prerequisiteFailed", "default", "ruleMatch"}]
           s == serveFlag(flag, matched[key], bucket[key])
           r == evaluateFlag(flags, matched, bucket, key)
<1>1. validVariations(flag) /\ Servable(flag, matched[key], bucket[key])
  BY DEF AllValid, AllServable
<1>2. s \in [variation : Variations, reason : {"default", "ruleMatch"}]
  <2> HIDE DEF flag
  <2> QED
    BY <1>1, ServesAVariation
<1>3. s \in R
  <2> HIDE DEF s
  <2> QED
    BY <1>2
<1>4. flag.off \in Variations
  BY <1>1 DEF validVariations
<1>5. resultFor(flag.off, "off") \in R /\ resultFor(flag.off, "prerequisiteFailed") \in R
  <2> HIDE DEF flag
  <2> QED
    BY <1>4, ResultsOfVariations
<1>6. r \in {s, resultFor(flag.off, "off"), resultFor(flag.off, "prerequisiteFailed")}
  BY EvaluateFlagSteps, Zenon
<1> HIDE DEF r, s, flag, R
<1>7. r \in R
  BY <1>3, <1>5, <1>6
<1> QED
  BY <1>7 DEF r, R

-----------------------------------------------------------------------------
(* A prerequisite means what its flag evaluates to.  A prerequisite is     *)
(* evaluated with the flags above it in seen, a caller's evaluation of the *)
(* same flag with none: without a cycle the two agree, because no flag     *)
(* that matters to the one is among those in seen.                         *)

\* Without a cycle, what holds of a flag whenever it holds of the flags it
\* requires holds of all.
LEMMA AcyclicInduction ==
    ASSUME NEW requires, ~HasCycle(requires), NEW S,
           \A f \in DOMAIN requires : Needs(requires, f) \cap DOMAIN requires \subseteq S => f \in S
    PROVE  DOMAIN requires \subseteq S
<1> DEFINE C == DOMAIN requires \ S
<1>1. \A f \in C : Needs(requires, f) \cap C # {}
  OBVIOUS
<1>2. IsCycle(requires, C)
  BY <1>1, CyclesInNeeds
<1> QED
  BY <1>2 DEF HasCycle

\* Without a cycle, some closed set holds all that a flag requires and not the
\* flag itself.
Apart(requires, f, U) ==
    /\ U \in SUBSET DOMAIN requires
    /\ Closed(requires, U)
    /\ f \notin U
    /\ Needs(requires, f) \cap DOMAIN requires \subseteq U

LEMMA RequiredApart ==
    ASSUME NEW requires, ~HasCycle(requires), NEW f \in DOMAIN requires
    PROVE  \E U : Apart(requires, f, U)
<1> DEFINE F == DOMAIN requires
           Req(x) == Needs(requires, x)
           Without == {D \in SUBSET F : Closed(requires, D) /\ f \notin D}
           U == UNION Without
           C == F \ U
<1>1. U \in SUBSET F /\ f \notin U
  OBVIOUS
<1>2. Closed(requires, U)
  <2> SUFFICES ASSUME NEW x \in U PROVE Req(x) \cap F \subseteq U
    BY DEF Closed
  <2>1. PICK D \in Without : x \in D
    OBVIOUS
  <2>2. Req(x) \cap F \subseteq D
    BY <2>1 DEF Closed
  <2> QED
    BY <2>1, <2>2
<1>3. ASSUME NEW x \in C, x # f PROVE Req(x) \cap C # {}
  <2> SUFFICES ASSUME Req(x) \cap C = {} PROVE FALSE
    OBVIOUS
  <2>1. Req(x) \cap F \subseteq U
    OBVIOUS
  <2> HIDE DEF U, Without
  <2>2. Closed(requires, U \cup {x})
    BY <1>2, <2>1 DEF Closed
  <2>3. U \cup {x} \in Without
    BY <1>1, <1>3, <2>2 DEF Without
  <2> QED
    BY <2>3 DEF U
<1> HIDE DEF U
<1>4. ASSUME Req(f) \cap C # {} PROVE FALSE
  <2>1. \A x \in C : Req(x) \cap C # {}
    BY <1>3, <1>4
  <2>2. IsCycle(requires, C)
    BY <2>1, CyclesInNeeds
  <2>3. f \in C
    BY <1>1
  <2> QED
    BY <2>2, <2>3 DEF HasCycle
<1>5. Apart(requires, f, U)
  BY <1>1, <1>2, <1>4 DEF Apart
<1> QED
  BY <1>5

\* The flag evaluates the same with whatever flags being evaluated, as long as
\* they can be kept apart from it.
SameWhen(flags, e, key) ==
    \A D, seen \in SUBSET DOMAIN flags :
      key \in D /\ Closed(requiresOf(flags), D) /\ D \cap seen = {} => e[seen][key] = e[{}][key]

HasPrerequisites(flags, Keys) ==
    \A f \in DOMAIN flags :
      flags[f].prerequisites \in Seq([flag : Keys, variation : Variations])

LEMMA PrerequisitesAreNeeds ==
    ASSUME NEW flags, NEW Keys, HasPrerequisites(flags, Keys), NEW f \in DOMAIN flags,
           NEW i \in 1..Len(flags[f].prerequisites)
    PROVE  /\ flags[f].prerequisites[i].flag \in Needs(requiresOf(flags), f)
           /\ flags[f].prerequisites[i].flag \in NamedKeys(requiresOf(flags))
<1> DEFINE ps == flags[f].prerequisites
           keys == [j \in 1..Len(ps) |-> ps[j].flag]
           requires == requiresOf(flags)
<1>1. ps \in Seq([flag : Keys, variation : Variations])
  BY DEF HasPrerequisites
<1>2. requires[f] = keys /\ DOMAIN requires = DOMAIN flags
  BY DEF requiresOf
<1> HIDE DEF ps, requires
<1>3. Len(ps) \in Nat /\ i \in 1..Len(ps)
  BY <1>1 DEF ps
<1>4. Len(keys) = Len(ps) /\ keys[i] = ps[i].flag
  BY <1>3
<1> HIDE DEF keys
<1>5. ps[i].flag \in Needs(requires, f)
  BY <1>2, <1>3, <1>4 DEF Needs, Named
<1>6. Needs(requires, f) \subseteq NamedKeys(requires)
  BY <1>2 DEF NamedKeys, Needs, Named
<1> QED
  BY <1>5, <1>6 DEF ps, requires

LEMMA RequirementsUnchanged ==
    ASSUME NEW flags, NEW matched, NEW bucket, NEW e,
           EvaluationsUnfold(flags, matched, bucket, e),
           ~HasCycle(requiresOf(flags)),
           NEW f \in DOMAIN flags, NEW D \in SUBSET DOMAIN flags, NEW seen \in SUBSET DOMAIN flags,
           f \in D, Closed(requiresOf(flags), D), D \cap seen = {},
           NEW p \in Needs(requiresOf(flags), f), p \in NamedKeys(requiresOf(flags)),
           p \in DOMAIN flags => SameWhen(flags, e, p)
    PROVE  e[seen \cup {f}][p] = e[{}][p]
<1> DEFINE requires == requiresOf(flags)
           F == DOMAIN flags
           s == seen \cup {f}
<1>1. DOMAIN requires = F
  BY FlagsAreNamed
<1>2. s \in SUBSET F /\ {} \in SUBSET F
  OBVIOUS
<1>3. CASE p \notin F
  <2>1. ASSUME NEW x \in SUBSET F PROVE e[x][p] = Failed
    <3>1. e[x][p] = evaluateInternal(flags, matched, bucket, e, x, p)
      BY Zenon DEF EvaluationsUnfold
    <3>2. evaluateInternal(flags, matched, bucket, e, x, p) = Failed
      BY <1>3, Zenon DEF evaluateInternal
    <3> QED
      BY <3>1, <3>2
  <2> HIDE DEF s
  <2>2. e[s][p] = e[{}][p]
    BY <1>2, <2>1
  <2> QED
    BY <2>2 DEF s
<1>4. CASE p \in F
  <2>1. PICK U : Apart(requires, f, U)
    BY <1>1, RequiredApart
  <2>2. U \in SUBSET F /\ Closed(requires, U) /\ f \notin U /\ p \in U
    BY <1>1, <1>4, <2>1 DEF Apart
  <2>3. p \in D
    BY <1>1, <1>4 DEF Closed
  <2>4. Closed(requires, D \cap U)
    BY <2>2 DEF Closed
  <2>5. p \in D \cap U /\ (D \cap U) \cap s = {} /\ D \cap U \in SUBSET F
    BY <2>2, <2>3
  <2> HIDE DEF s
  <2>6. e[s][p] = e[{}][p]
    BY <1>2, <1>4, <2>4, <2>5 DEF SameWhen
  <2> QED
    BY <2>6 DEF s
<1> QED
  BY <1>3, <1>4

LEMMA UnmetUnchanged ==
    ASSUME NEW flags, NEW Keys, HasPrerequisites(flags, Keys),
           NEW matched, NEW bucket, NEW e,
           EvaluationsUnfold(flags, matched, bucket, e),
           ~HasCycle(requiresOf(flags)),
           NEW f \in DOMAIN flags, NEW D \in SUBSET DOMAIN flags, NEW seen \in SUBSET DOMAIN flags,
           f \in D, Closed(requiresOf(flags), D), D \cap seen = {},
           \A p \in Needs(requiresOf(flags), f) \cap DOMAIN flags : SameWhen(flags, e, p)
    PROVE  Unmet(flags, e, seen \cup {f}, f) <=> Unmet(flags, e, {}, f)
<1> DEFINE ps == flags[f].prerequisites
           s == seen \cup {f}
<1>1. ASSUME NEW i \in 1..Len(ps) PROVE e[s][ps[i].flag] = e[{}][ps[i].flag]
  <2> DEFINE p == ps[i].flag
  <2>1. p \in Needs(requiresOf(flags), f) /\ p \in NamedKeys(requiresOf(flags))
    BY PrerequisitesAreNeeds
  <2> HIDE DEF p
  <2>2. p \in DOMAIN flags => SameWhen(flags, e, p)
    BY <2>1
  <2>3. e[s][p] = e[{}][p]
    <3> HIDE DEF ps
    <3> QED
      BY <2>1, <2>2, RequirementsUnchanged, SMTT(30)
  <2> QED
    BY <2>3 DEF p
<1> HIDE DEF s
<1>2. Unmet(flags, e, s, f) <=> Unmet(flags, e, {}, f)
  BY <1>1, Zenon DEF Unmet
<1> QED
  BY <1>2 DEF s

\* Without a cycle, a flag evaluates the same whatever is being evaluated.
LEMMA EvaluationUnchanged ==
    ASSUME NEW flags, NEW Keys, HasPrerequisites(flags, Keys),
           NEW matched, NEW bucket, NEW e,
           EvaluationsUnfold(flags, matched, bucket, e),
           ~HasCycle(requiresOf(flags)),
           NEW key \in DOMAIN flags
    PROVE  SameWhen(flags, e, key)
<1> DEFINE requires == requiresOf(flags)
           F == DOMAIN flags
           S == {f \in F : SameWhen(flags, e, f)}
<1>1. DOMAIN requires = F /\ F \subseteq NamedKeys(requires)
  BY FlagsAreNamed
<1>2. ASSUME NEW f \in F, Needs(requires, f) \cap F \subseteq S PROVE f \in S
  <2>1. \A p \in Needs(requires, f) \cap F : SameWhen(flags, e, p)
    BY <1>2
  <2>2. ASSUME NEW D \in SUBSET F, NEW seen \in SUBSET F,
               f \in D, Closed(requires, D), D \cap seen = {}
        PROVE  e[seen][f] = e[{}][f]
    <3>1. {} \in SUBSET F /\ D \cap {} = {} /\ f \notin seen /\ f \notin {} /\ f \in NamedKeys(requires)
      BY <1>1, <2>2
    <3>2. Unmet(flags, e, seen \cup {f}, f) <=> Unmet(flags, e, {}, f)
      BY <2>1, <2>2, UnmetUnchanged
    <3>3. Unmet(flags, e, {} \cup {f}, f) <=> Unmet(flags, e, {}, f)
      BY <2>1, <2>2, <3>1, UnmetUnchanged
    <3>4. /\ e[seen][f] = evaluateInternal(flags, matched, bucket, e, seen, f)
          /\ e[{}][f] = evaluateInternal(flags, matched, bucket, e, {}, f)
      BY <3>1, Zenon DEF EvaluationsUnfold
    <3>5. evaluateInternal(flags, matched, bucket, e, seen, f)
            = evaluateInternal(flags, matched, bucket, e, {}, f)
      BY <3>1, <3>2, <3>3, InternalCases, Zenon
    <3> QED
      BY <3>4, <3>5
  <2>3. SameWhen(flags, e, f)
    BY <2>2 DEF SameWhen
  <2> QED
    BY <2>3
<1>3. F \subseteq S
  <2>1. \A f \in DOMAIN requires : Needs(requires, f) \cap DOMAIN requires \subseteq S => f \in S
    <3> HIDE DEF S, requires
    <3> QED
      BY <1>1, <1>2
  <2>2. DOMAIN requires \subseteq S
    <3> HIDE DEF S
    <3> QED
      BY <2>1, AcyclicInduction
  <2> QED
    BY <1>1, <2>2
<1> QED
  BY <1>3

\* Where a publish has found no cycle, a flag is turned off by a prerequisite
\* exactly when that prerequisite, evaluated by itself for the same context,
\* serves another variation than the one required: how deep the recursion is
\* when it evaluates the prerequisite, and what it is evaluating above it, make
\* no difference.
THEOREM PrerequisitesMeanWhatTheyServe ==
    ASSUME NEW flags, IsFiniteSet(DOMAIN flags), NEW Keys, HasPrerequisites(flags, Keys),
           NEW matched, NEW bucket,
           AllValid(flags), AllServable(flags, matched, bucket),
           NEW order \in Seq(DOMAIN flags),
           DOMAIN flags \subseteq {order[i] : i \in 1..Len(order)},
           ~findPrerequisiteCycle(requiresOf(flags), order),
           NEW key \in DOMAIN flags
    PROVE  evaluateFlag(flags, matched, bucket, key).reason = "prerequisiteFailed"
             <=> flags[key].enabled /\ prerequisiteFails(flags, matched, bucket, key)
<1> DEFINE F == DOMAIN flags
           requires == requiresOf(flags)
           E == Evaluations(flags, matched, bucket)
           flag == flags[key]
           r == evaluateFlag(flags, matched, bucket, key)
           s == serveFlag(flag, matched[key], bucket[key])
<1>1. DOMAIN requires = F
  BY FlagsAreNamed
<1>2. requires \in [F -> Seq(Keys)]
  <2> SUFFICES ASSUME NEW f \in F PROVE requires[f] \in Seq(Keys)
    BY DEF requiresOf
  <2> DEFINE ps == flags[f].prerequisites
  <2>1. ps \in Seq([flag : Keys, variation : Variations])
    BY DEF HasPrerequisites
  <2>2. requires[f] = [i \in 1..Len(ps) |-> ps[i].flag]
    BY DEF requiresOf
  <2> HIDE DEF ps, requires
  <2>3. Len(ps) \in Nat /\ \A i \in 1..Len(ps) : ps[i].flag \in Keys
    <3> DEFINE P == [flag : Keys, variation : Variations]
    <3>1. ps \in Seq(P) /\ \A x \in P : x.flag \in Keys
      BY <2>1
    <3> HIDE DEF P
    <3> QED
      BY <3>1
  <2> QED
    BY <2>2, <2>3
<1>3. ~HasCycle(requires)
  <2> HIDE DEF requires
  <2> QED
    BY <1>2, CycleSearchIsExact DEF requires
<1>4. EvaluationsUnfold(flags, matched, bucket, E)
  BY EvaluationsDefined
<1>5. Unmet(flags, E, {key}, key) <=> Unmet(flags, E, {}, key)
  <2>1. F \in SUBSET F /\ {} \in SUBSET F /\ key \in F /\ F \cap {} = {} /\ {} \cup {key} = {key}
    OBVIOUS
  <2>2. Closed(requires, F)
    BY <1>1 DEF Closed
  <2>3. \A p \in F : SameWhen(flags, E, p)
    <3> HIDE DEF E
    <3> QED
      BY <1>3, <1>4, EvaluationUnchanged
  <2>4. \A p \in Needs(requires, key) \cap F : SameWhen(flags, E, p)
    BY <2>3
  <2>5. Unmet(flags, E, {} \cup {key}, key) <=> Unmet(flags, E, {}, key)
    <3> HIDE DEF E
    <3> QED
      BY <1>3, <1>4, <2>1, <2>2, <2>4, UnmetUnchanged
  <2> QED
    BY <2>1, <2>5
<1>6. Unmet(flags, E, {}, key) <=> prerequisiteFails(flags, matched, bucket, key)
  BY Zenon DEF Unmet, evaluateFlag, prerequisiteFails
<1>7. r = IF ~flag.enabled THEN resultFor(flag.off, "off")
          ELSE IF Unmet(flags, E, {key}, key) THEN resultFor(flag.off, "prerequisiteFailed")
          ELSE s
  BY EvaluateFlagSteps
<1>8. validVariations(flag) /\ Servable(flag, matched[key], bucket[key])
  BY DEF AllValid, AllServable
<1>9. s.reason # "prerequisiteFailed"
  <2>1. s \in [variation : Variations, reason : {"default", "ruleMatch"}]
    <3> HIDE DEF flag
    <3> QED
      BY <1>8, ServesAVariation
  <2> HIDE DEF s
  <2> QED
    BY <2>1
<1>10. /\ resultFor(flag.off, "off").reason = "off"
       /\ resultFor(flag.off, "prerequisiteFailed").reason = "prerequisiteFailed"
  <2>1. flag.off \in Variations
    BY <1>8 DEF validVariations
  <2> HIDE DEF flag
  <2> QED
    BY <2>1, ResultsOfVariations
<1>11. flag.enabled \in BOOLEAN
  BY <1>8 DEF Servable
<1>12. r.reason = "prerequisiteFailed" <=> flag.enabled /\ Unmet(flags, E, {key}, key)
  <2> HIDE DEF r, s, flag, E
  <2> QED
    BY <1>7, <1>9, <1>10, <1>11
<1> QED
  BY <1>5, <1>6, <1>12, Zenon

\* What compileRuleset has checked of a payload's flags is enough for every
\* evaluation of them, whichever rules match and whatever the bucket.
THEOREM PublishedFlagsEvaluateWell ==
    ASSUME NEW flags, IsFiniteSet(DOMAIN flags), NEW Keys, HasPrerequisites(flags, Keys),
           NEW matched, NEW bucket,
           AllValid(flags), AllServable(flags, matched, bucket),
           NEW order \in Seq(DOMAIN flags),
           DOMAIN flags \subseteq {order[i] : i \in 1..Len(order)},
           ~findPrerequisiteCycle(requiresOf(flags), order)
    PROVE  EvaluatesWell(flags, matched, bucket)
<1> SUFFICES ASSUME NEW f \in DOMAIN flags
             PROVE  /\ evaluateFlag(flags, matched, bucket, f).reason # "error"
                    /\ evaluateFlag(flags, matched, bucket, f).reason = "prerequisiteFailed"
                         <=> flags[f].enabled /\ prerequisiteFails(flags, matched, bucket, f)
  BY Zenon DEF EvaluatesWell
<1> DEFINE r == evaluateFlag(flags, matched, bucket, f)
<1>1. r \in [variation : Variations,
             reason : {"off", "prerequisiteFailed", "default", "ruleMatch"}]
  BY PublishedFlagsAreServed
<1> HIDE DEF r
<1>2. r.reason # "error"
  BY <1>1
<1>3. r.reason = "prerequisiteFailed"
        <=> flags[f].enabled /\ prerequisiteFails(flags, matched, bucket, f)
  BY PrerequisitesMeanWhatTheyServe DEF r
<1> QED
  BY <1>2, <1>3 DEF r

-----------------------------------------------------------------------------
(* The segments a client may see.                                          *)

\* One round of a pass.
Exposed(serverOnly, refers, safe, s) ==
    IF canExpose(serverOnly, refers, safe, s) THEN safe \cup {s} ELSE safe

SweepSteps(serverOnly, refers, order, safe, after) ==
    /\ after[0] = safe
    /\ \A i \in 1..Len(order) :
         after[i] = Exposed(serverOnly, refers, after[i - 1], order[i])

SweepEnds(F, serverOnly, refers, order, safe) ==
    \E after \in [0..Len(order) -> SUBSET F] :
      /\ SweepSteps(serverOnly, refers, order, safe, after)
      /\ sweep(serverOnly, refers, order, safe) = after[Len(order)]

LEMMA SweepLoops ==
    ASSUME NEW F, NEW serverOnly, NEW refers, NEW order \in Seq(F), NEW safe \in SUBSET F
    PROVE  SweepEnds(F, serverOnly, refers, order, safe)
<1> DEFINE n == Len(order)
           T == SUBSET F
           Round(i, t) == Exposed(serverOnly, refers, t, order[i])
           H == [i \in 1..n |-> [t \in T |-> Round(i, t)]]
           Whole(f) == f = [i \in 0..n |->
                              IF i = 0 THEN safe
                              ELSE IF canExpose(serverOnly, refers, f[i - 1], order[i])
                                   THEN f[i - 1] \cup {order[i]}
                              ELSE f[i - 1]]
           total == CHOOSE f : Whole(f)
<1>1. n \in Nat
  OBVIOUS
<1>2. ASSUME NEW i \in 1..n, NEW t \in T PROVE Round(i, t) \in T
  <2>1. order[i] \in F
    OBVIOUS
  <2> QED
    BY <2>1 DEF Exposed
<1>3. H \in [1..n -> [T -> T]] /\ \A i \in 1..n : \A t \in T : H[i][t] = Round(i, t)
  <2> HIDE DEF T, Round
  <2> QED
    BY <1>2
<1>4. PICK f \in [0..n -> T] : Runs(f, n, safe, H)
  <2>1. safe \in T
    OBVIOUS
  <2> HIDE DEF T, H, n, Round
  <2> QED
    BY <1>1, <1>3, <2>1, LoopRecursion
<1>5. \A i \in 1..n : f[i] = Round(i, f[i - 1])
  <2>1. \A i \in 1..n : f[i - 1] \in T
    BY <1>1
  <2> HIDE DEF T, H, n, Round
  <2> QED
    BY <1>3, <1>4, <2>1 DEF Runs
<1>6. Whole(f)
  <2> HIDE DEF T, H
  <2>1. f[0] = safe
    BY <1>4 DEF Runs
  <2> DEFINE Next(i) == IF canExpose(serverOnly, refers, f[i - 1], order[i])
                        THEN f[i - 1] \cup {order[i]} ELSE f[i - 1]
  <2>2. \A i \in 1..n : f[i] = Next(i)
    BY <1>5 DEF Exposed
  <2> HIDE DEF Next
  <2>3. \A i \in 0..n : f[i] = IF i = 0 THEN safe ELSE Next(i)
    BY <1>1, <2>1, <2>2
  <2>4. f = [i \in 0..n |-> IF i = 0 THEN safe ELSE Next(i)]
    BY <2>3
  <2> QED
    BY <2>4 DEF Next
<1>7. Whole(total)
  <2> HIDE DEF Whole
  <2> QED
    BY <1>6
<1>8. total[0] = safe /\ \A i \in 1..n : total[i] = Round(i, total[i - 1])
  <2>1. 0 \in 0..n /\ \A i \in 1..n : i \in 0..n /\ i # 0
    BY <1>1
  <2> HIDE DEF total, n
  <2> QED
    BY <1>7, <2>1 DEF Exposed
<1>9. DOMAIN total = 0..n /\ total = [i \in DOMAIN total |-> total[i]]
  <2> HIDE DEF total
  <2> QED
    BY <1>7
<1>10. sweep(serverOnly, refers, order, safe) = total[n]
  BY DEF sweep
<1> DEFINE S == {i \in 0..n : total[i] \in T}
<1> HIDE DEF total, n, Whole
<1>11. 0 \in S
  BY <1>1, <1>8
<1>12. ASSUME NEW k \in 0..(n - 1), k \in S PROVE k + 1 \in S
  <2>1. k + 1 \in 1..n /\ (k + 1) - 1 = k
    BY <1>1
  <2>2. total[k + 1] = Round(k + 1, total[k])
    BY <1>8, <2>1
  <2> HIDE DEF Round, T
  <2>3. total[k + 1] \in T
    BY <1>2, <1>12, <2>1, <2>2
  <2> QED
    BY <2>1, <2>3
<1>13. 0..n \subseteq S
  <2> HIDE DEF S
  <2> QED
    BY <1>1, <1>11, <1>12, CountingUp
<1>14. total \in [0..n -> T]
  <2> HIDE DEF T
  <2> QED
    BY <1>9, <1>13
<1>15. SweepSteps(serverOnly, refers, order, safe, total)
  BY <1>8 DEF SweepSteps, n
<1> QED
  BY <1>10, <1>14, <1>15 DEF n, T, SweepEnds

\* Segments each of which is server-only, names an unknown segment, or refers
\* to another of them.
Tainted(serverOnly, refers, C) ==
    \A s \in C : \/ s \in serverOnly
                 \/ ~(refers[s] \subseteq DOMAIN refers)
                 \/ refers[s] \cap C # {}

\* What the passes keep true of safe.
Sound(serverOnly, refers, safe) ==
    /\ safe \subseteq DOMAIN refers
    /\ \A s \in safe : s \notin serverOnly /\ refers[s] \subseteq safe
    /\ \A C \in SUBSET DOMAIN refers : Tainted(serverOnly, refers, C) => C \cap safe = {}

LEMMA ExposedIsSound ==
    ASSUME NEW serverOnly, NEW refers, NEW safe, NEW s \in DOMAIN refers,
           Sound(serverOnly, refers, safe)
    PROVE  Sound(serverOnly, refers, Exposed(serverOnly, refers, safe, s))
<1>1. CASE canExpose(serverOnly, refers, safe, s)
  <2>1. s \notin serverOnly /\ refers[s] \subseteq safe
    BY <1>1 DEF canExpose
  <2>2. ASSUME NEW C \in SUBSET DOMAIN refers, Tainted(serverOnly, refers, C)
        PROVE  C \cap (safe \cup {s}) = {}
    <3>1. C \cap safe = {} /\ safe \subseteq DOMAIN refers
      BY <2>2 DEF Sound
    <3>2. ASSUME s \in C PROVE FALSE
      BY <2>1, <2>2, <3>1, <3>2 DEF Tainted
    <3> QED
      BY <3>1, <3>2
  <2>3. Exposed(serverOnly, refers, safe, s) = safe \cup {s}
    BY <1>1 DEF Exposed
  <2>4. Sound(serverOnly, refers, safe \cup {s})
    BY <2>1, <2>2 DEF Sound
  <2> QED
    BY <2>3, <2>4
<1>2. CASE ~canExpose(serverOnly, refers, safe, s)
  BY <1>2 DEF Exposed
<1> QED
  BY <1>1, <1>2

\* A pass adds what it may, and one that adds nothing has nothing left to add.
Settled(serverOnly, refers, safe, segments) ==
    \A s \in segments : canExpose(serverOnly, refers, safe, s) => s \in safe

LEMMA SweepWorks ==
    ASSUME NEW F, NEW serverOnly, NEW refers, DOMAIN refers = F,
           NEW order \in Seq(F), NEW safe \in SUBSET F
    PROVE  LET next == sweep(serverOnly, refers, order, safe) IN
           /\ next \in SUBSET F /\ safe \subseteq next
           /\ Sound(serverOnly, refers, safe) => Sound(serverOnly, refers, next)
           /\ next = safe => Settled(serverOnly, refers, safe, Named(order))
<1> DEFINE n == Len(order)
           next == sweep(serverOnly, refers, order, safe)
           Upto(i) == {order[j] : j \in 1..i}
<1>1. n \in Nat
  OBVIOUS
<1>2. PICK after \in [0..n -> SUBSET F] :
        SweepSteps(serverOnly, refers, order, safe, after) /\ next = after[n]
  <2>1. SweepEnds(F, serverOnly, refers, order, safe)
    BY SweepLoops
  <2> QED
    BY <2>1 DEF SweepEnds
<1> DEFINE Kept(i) == /\ safe \subseteq after[i]
                      /\ Sound(serverOnly, refers, safe) => Sound(serverOnly, refers, after[i])
                      /\ after[i] = safe => Settled(serverOnly, refers, safe, Upto(i))
           S == {i \in 0..n : Kept(i)}
<1>3. 0 \in S
  <2>1. after[0] = safe
    BY <1>2 DEF SweepSteps
  <2>2. Upto(0) = {}
    OBVIOUS
  <2>3. Kept(0)
    <3> HIDE DEF Upto
    <3> QED
      BY <2>1, <2>2 DEF Settled
  <2> QED
    BY <1>1, <2>3
<1>4. ASSUME NEW k \in 0..(n - 1), k \in S PROVE k + 1 \in S
  <2> DEFINE s == order[k + 1]
             was == after[k]
             now == after[k + 1]
  <2>1. k + 1 \in 1..n /\ (k + 1) - 1 = k /\ k + 1 \in 0..n
    BY <1>1
  <2>2. s \in F
    BY <2>1
  <2>3. now = Exposed(serverOnly, refers, was, s)
    BY <1>2, <2>1 DEF SweepSteps
  <2>4. Upto(k + 1) = Upto(k) \cup {s}
    <3>1. \A j : j \in 1..(k + 1) <=> (j \in 1..k \/ j = k + 1)
      BY <2>1
    <3> QED
      BY <3>1, Zenon
  <2>5. Kept(k)
    BY <1>4
  <2> HIDE DEF s, Upto
  <2>6. was \subseteq now /\ (canExpose(serverOnly, refers, was, s) => s \in now)
    BY <2>3 DEF Exposed
  <2>7. Sound(serverOnly, refers, safe) => Sound(serverOnly, refers, now)
    BY <2>2, <2>3, <2>5, ExposedIsSound
  <2>8. ASSUME now = safe PROVE Settled(serverOnly, refers, safe, Upto(k + 1))
    <3>1. was = safe
      BY <2>5, <2>6, <2>8
    <3> QED
      BY <2>4, <2>5, <2>6, <2>8, <3>1 DEF Settled
  <2>9. Kept(k + 1)
    BY <2>5, <2>6, <2>7, <2>8
  <2> QED
    BY <2>1, <2>9
<1>5. 0..n \subseteq S
  <2> HIDE DEF S, n
  <2> QED
    BY <1>1, <1>3, <1>4, CountingUp
<1>6. Kept(n) /\ after[n] \in SUBSET F
  <2>1. n \in 0..n
    BY <1>1
  <2> HIDE DEF Kept, n
  <2> QED
    BY <1>5, <2>1
<1>7. Upto(n) = Named(order)
  BY DEF Named
<1> HIDE DEF Upto, next
<1> QED
  BY <1>2, <1>6, <1>7 DEF next

\* The passes, each from where the one before it ended.
SettleUnfolds(F, serverOnly, refers, order, settle) ==
    \A safe \in SUBSET F :
      LET next == sweep(serverOnly, refers, order, safe) IN
      settle[safe] = IF next = safe THEN safe ELSE settle[next]

LEMMA SettleDefined ==
    ASSUME NEW F, IsFiniteSet(F), NEW serverOnly, NEW refers, DOMAIN refers = F,
           NEW order \in Seq(F)
    PROVE  \E settle : /\ SettleUnfolds(F, serverOnly, refers, order, settle)
                       /\ clientSafeSegments(serverOnly, refers, order) = settle[{}]
<1> DEFINE T == SUBSET F
           next(safe) == sweep(serverOnly, refers, order, safe)
           At(f, safe) == IF next(safe) = safe THEN safe ELSE f[next(safe)]
           G == [safe \in SUBSET F |-> [sub \in [Above(F, safe) -> T] |-> At(sub, safe)]]
           Whole(f) == f = [safe \in SUBSET F |-> At(f, safe)]
           settle == CHOOSE f : Whole(f)
<1>1. ASSUME NEW safe \in SUBSET F, next(safe) # safe PROVE next(safe) \in Above(F, safe)
  <2>1. next(safe) \in SUBSET F /\ safe \subseteq next(safe)
    BY SweepWorks
  <2> HIDE DEF next
  <2> QED
    BY <1>1, <2>1 DEF Above
<1> HIDE DEF next
<1>2. FromAbove(F, T, G)
  <2>1. ASSUME NEW safe \in SUBSET F, NEW sub \in [Above(F, safe) -> T]
        PROVE  G[safe][sub] \in T
    <3>1. G[safe][sub] = At(sub, safe)
      <4> HIDE DEF At, T
      <4> QED
        OBVIOUS
    <3>2. At(sub, safe) \in T
      BY <1>1
    <3> QED
      BY <3>1, <3>2
  <2> HIDE DEF G, T
  <2> QED
    BY <2>1 DEF FromAbove
<1>3. PICK f \in [SUBSET F -> T] : Recurs(f, F, G)
  <2> HIDE DEF G, T
  <2> QED
    BY <1>2, SupersetRecursion
<1>4. ASSUME NEW safe \in SUBSET F PROVE f[safe] = At(f, safe)
  <2> DEFINE sub == [q \in Above(F, safe) |-> f[q]]
  <2>1. Above(F, safe) \subseteq SUBSET F
    BY DEF Above
  <2>2. sub \in [Above(F, safe) -> T]
    <3> HIDE DEF T
    <3> QED
      BY <2>1
  <2>3. f[safe] = G[safe][sub]
    <3> HIDE DEF G
    <3> QED
      BY <1>3 DEF Recurs
  <2>4. G[safe][sub] = At(sub, safe)
    <3> HIDE DEF At, T, sub
    <3> QED
      BY <2>2
  <2>5. \A q \in Above(F, safe) : sub[q] = f[q]
    OBVIOUS
  <2> HIDE DEF sub
  <2>6. At(sub, safe) = At(f, safe)
    BY <1>1, <2>5
  <2> QED
    BY <2>3, <2>4, <2>6
<1>5. Whole(f)
  <2> HIDE DEF At, T
  <2> QED
    BY <1>4
<1>6. Whole(settle)
  <2> HIDE DEF Whole
  <2> QED
    BY <1>5
<1>7. clientSafeSegments(serverOnly, refers, order) = settle[{}]
  BY DEF clientSafeSegments, next
<1>8. SettleUnfolds(F, serverOnly, refers, order, settle)
  <2> HIDE DEF settle
  <2>1. \A safe \in SUBSET F : settle[safe] = At(settle, safe)
    <3> HIDE DEF At
    <3> QED
      BY <1>6
  <2> QED
    BY <2>1 DEF SettleUnfolds, next
<1> HIDE DEF settle
<1> QED
  BY <1>7, <1>8

LEMMA SettledFrom ==
    ASSUME NEW F, IsFiniteSet(F), NEW serverOnly, NEW refers, DOMAIN refers = F,
           NEW order \in Seq(F), NEW settle,
           SettleUnfolds(F, serverOnly, refers, order, settle),
           NEW safe \in SUBSET F, Sound(serverOnly, refers, safe)
    PROVE  /\ Sound(serverOnly, refers, settle[safe])
           /\ Settled(serverOnly, refers, settle[safe], Named(order))
<1> DEFINE Good(t) == /\ Sound(serverOnly, refers, t)
                      /\ Settled(serverOnly, refers, t, Named(order))
           S == {t \in SUBSET F : Sound(serverOnly, refers, t) => Good(settle[t])}
<1>1. ASSUME NEW t \in SUBSET F, \A q \in Above(F, t) : q \in S PROVE t \in S
  <2> DEFINE next == sweep(serverOnly, refers, order, t)
  <2>1. /\ next \in SUBSET F /\ t \subseteq next
        /\ Sound(serverOnly, refers, t) => Sound(serverOnly, refers, next)
        /\ next = t => Settled(serverOnly, refers, t, Named(order))
    BY SweepWorks
  <2>2. settle[t] = IF next = t THEN t ELSE settle[next]
    BY DEF SettleUnfolds
  <2> HIDE DEF next
  <2>3. CASE next = t
    BY <2>1, <2>2, <2>3
  <2>4. CASE next # t
    <3>1. next \in Above(F, t)
      BY <2>1, <2>4 DEF Above
    <3>2. Sound(serverOnly, refers, next) => Good(settle[next])
      BY <1>1, <3>1
    <3> HIDE DEF Good
    <3> QED
      BY <2>1, <2>2, <2>4, <3>2
  <2> QED
    BY <2>3, <2>4
<1>2. Inherits(F, S)
  <2> HIDE DEF S
  <2> QED
    BY <1>1 DEF Inherits
<1>3. SUBSET F \subseteq S
  <2> HIDE DEF S
  <2> QED
    BY <1>2, SupersetInduction
<1> QED
  BY <1>3

\* The passes expose exactly the segments they may: a segment is held back if
\* and only if it is one of some segments each of which is server-only, names an
\* unknown segment or refers to one of them, so everything that leads to a
\* server-only condition, and everything in a reference cycle ("never becomes
\* safe"), however long, and whatever the order of the passes.  What a client
\* gets is closed: nothing in it is server-only or refers outside it.
THEOREM ClientSafeSegmentsAreExact ==
    ASSUME NEW F, IsFiniteSet(F), NEW serverOnly, NEW refers, DOMAIN refers = F,
           NEW order \in Seq(F), F \subseteq {order[i] : i \in 1..Len(order)}
    PROVE  LET safe == clientSafeSegments(serverOnly, refers, order) IN
           /\ safe \subseteq F
           /\ \A s \in safe : s \notin serverOnly /\ refers[s] \subseteq safe
           /\ \A s \in F :
                s \notin safe <=> \E C \in SUBSET F : s \in C /\ Tainted(serverOnly, refers, C)
<1> DEFINE safe == clientSafeSegments(serverOnly, refers, order)
<1>1. PICK settle : /\ SettleUnfolds(F, serverOnly, refers, order, settle)
                    /\ safe = settle[{}]
  BY SettleDefined
<1>2. {} \in SUBSET F /\ Sound(serverOnly, refers, {})
  BY DEF Sound
<1> HIDE DEF safe
<1>3. Sound(serverOnly, refers, safe) /\ Settled(serverOnly, refers, safe, Named(order))
  BY <1>1, <1>2, SettledFrom
<1>4. Tainted(serverOnly, refers, F \ safe)
  <2> SUFFICES ASSUME NEW s \in F \ safe
               PROVE  \/ s \in serverOnly
                      \/ ~(refers[s] \subseteq F)
                      \/ refers[s] \cap (F \ safe) # {}
    BY DEF Tainted
  <2>1. s \in Named(order)
    BY DEF Named
  <2>2. ~canExpose(serverOnly, refers, safe, s)
    BY <1>3, <2>1 DEF Settled
  <2> QED
    BY <2>2 DEF canExpose
<1>5. /\ safe \subseteq F
      /\ \A s \in safe : s \notin serverOnly /\ refers[s] \subseteq safe
      /\ \A C \in SUBSET F : Tainted(serverOnly, refers, C) => C \cap safe = {}
  BY <1>3 DEF Sound
<1>6. ASSUME NEW s \in F
      PROVE  s \notin safe <=> \E C \in SUBSET F : s \in C /\ Tainted(serverOnly, refers, C)
  <2>1. F \ safe \in SUBSET F
    OBVIOUS
  <2> QED
    BY <1>4, <1>5, <2>1
<1> QED
  BY <1>5, <1>6 DEF safe

-----------------------------------------------------------------------------
(* The rows of an environment, whatever they hold.                         *)

LEMMA SetToSeqCovers ==
    ASSUME NEW F, IsFiniteSet(F)
    PROVE  /\ SetToSeq(F) \in Seq(F)
           /\ F \subseteq {SetToSeq(F)[i] : i \in 1..Len(SetToSeq(F))}
<1> DEFINE n == Cardinality(F)
           q == SetToSeq(F)
<1>1. n \in Nat /\ ExistsBijection(1..n, F)
  BY FS_CardinalityType
<1>2. PICK b \in Bijection(1..n, F) : TRUE
  BY <1>1 DEF ExistsBijection
<1>3. b \in [1..n -> F] /\ IsInjective(b)
  BY <1>2 DEF Bijection, Injection, IsInjective
<1>4. q \in [1..n -> F] /\ IsInjective(q)
  BY <1>3 DEF SetToSeq
<1> HIDE DEF q
<1>5. q \in Injection(1..n, F)
  BY <1>4 DEF Injection, IsInjective
<1>6. IsFiniteSet(1..n) /\ Cardinality(1..n) = n
  BY <1>1, FS_Interval
<1>7. q \in Surjection(1..n, F)
  BY <1>5, <1>6, FS_Injection
<1>8. q \in Seq(F) /\ Len(q) = n
  BY <1>1, <1>4
<1>9. \A f \in F : \E i \in 1..n : q[i] = f
  BY <1>7 DEF Surjection
<1> QED
  BY <1>8, <1>9 DEF q

LEMMA RowsHavePrerequisites ==
    ASSUME FlagRowsTypeOK
    PROVE  requiresOf(flagRows) \in [FlagKeys -> Seq(FlagKeys \cup {Ghost})]
<1> DEFINE requires == requiresOf(flagRows)
           Keys == FlagKeys \cup {Ghost}
<1>1. DOMAIN flagRows = FlagKeys
  BY DEF FlagRowsTypeOK
<1>2. ASSUME NEW f \in FlagKeys PROVE requires[f] \in Seq(Keys)
  <2> DEFINE ps == flagRows[f].prerequisites
             P == [flag : Keys, variation : Variations]
  <2>1. ps \in Seq(P) /\ \A x \in P : x.flag \in Keys
    BY DEF FlagRowsTypeOK
  <2>2. requires[f] = [i \in 1..Len(ps) |-> ps[i].flag]
    BY <1>1 DEF requiresOf
  <2> HIDE DEF ps, P, Keys, requires
  <2>3. Len(ps) \in Nat /\ \A i \in 1..Len(ps) : ps[i].flag \in Keys
    BY <2>1
  <2> QED
    BY <2>2, <2>3
<1> QED
  BY <1>1, <1>2 DEF requiresOf

\* In every state the rows can be in, for any number of flags and any
\* prerequisites, the search of a publish finds a cycle if and only if there is
\* one.
THEOREM CyclesAreAlwaysFound == FlagRowsTypeOK => CyclesAreFound
<1> SUFFICES ASSUME FlagRowsTypeOK PROVE CyclesAreFound
  OBVIOUS
<1> DEFINE requires == requiresOf(flagRows)
           order == SetToSeq(FlagKeys)
           Keys == FlagKeys \cup {Ghost}
<1>1. requires \in [FlagKeys -> Seq(Keys)]
  BY RowsHavePrerequisites
<1>2. order \in Seq(FlagKeys) /\ FlagKeys \subseteq {order[i] : i \in 1..Len(order)}
  BY FlagsAssumption, SetToSeqCovers
<1>3. findPrerequisiteCycle(requires, order) <=> HasCycle(requires)
  <2> HIDE DEF requires, order, Keys
  <2> QED
    BY <1>1, <1>2, FlagsAssumption, CycleSearchIsExact
<1> QED
  BY <1>3 DEF CyclesAreFound, prerequisiteCycle

\* In every state the rows can be in, a rollout that validation lets through
\* gives each variation exactly the buckets it declares, for any number of
\* slices and any size of the bucket space.
THEOREM RolloutSharesAreExact == FlagRowsTypeOK => RolloutShares
<1> SUFFICES ASSUME FlagRowsTypeOK,
                    NEW f \in FlagKeys, validVariations(flagRows[f]),
                    NEW i \in 1..Len(flagRows[f].rules),
                    flagRows[f].rules[i].serve.kind = "rollout", NEW v \in Variations
             PROVE  LET slices == flagRows[f].rules[i].serve.rollout IN
                    Cardinality(ServedBuckets(slices, v)) = DeclaredWeight(slices, v)
  BY DEF RolloutShares
<1> DEFINE serve == flagRows[f].rules[i].serve
           slices == serve.rollout
<1>1. validServe(serve)
  BY DEF validVariations
<1>2. isValidDistribution(slices)
  BY <1>1 DEF validServe
<1>3. slices \in Seq([variation : Variations \cup {Ghost}, weight : Int])
  BY DEF FlagRowsTypeOK
<1> HIDE DEF slices
<1>4. Cardinality(ServedBuckets(slices, v)) = DeclaredWeight(slices, v)
  BY <1>2, <1>3, RolloutIsFair
<1> QED
  BY <1>4 DEF slices

=============================================================================
