----------------------------- MODULE Bucketing -----------------------------
(***************************************************************************)
(* How a percentage rollout divides the buckets (core bucketing): the      *)
(* walk that serves a bucket and the check made before a rollout is        *)
(* published.  A rollout is a sequence of slices, each a variation and its *)
(* weight; the bucket a key hashes to is an input.                         *)
(***************************************************************************)
EXTENDS Integers, Sequences

CONSTANTS
    BucketSpace,    \* BUCKET_SPACE
    Ghost           \* a key nothing declares: a variation, a flag, a segment

ASSUME BucketAssumption == BucketSpace \in Nat \ {0}

\* What the loops add up: the total of the first i weights.
runningTotal(weights) ==
    LET total[i \in 0..Len(weights)] ==
            IF i = 0 THEN 0 ELSE total[i - 1] + weights[i] IN
    total

cumulative(slices) == runningTotal([i \in 1..Len(slices) |-> slices[i].weight])

\* The slice the walk stops at.
First(inside) == CHOOSE i \in inside : \A j \in inside : i <= j

\* Faulty variant of variationForBucket: the upper end counts as inside.
variationForBucketInclusive(slices, bucket) ==
    LET inside == {i \in 1..Len(slices) : bucket <= cumulative(slices)[i]} IN
    IF inside = {} THEN Ghost ELSE slices[First(inside)].variation

\* The first slice whose cumulative weight exceeds the bucket.
variationForBucket(slices, bucket) ==
    LET inside == {i \in 1..Len(slices) : bucket < cumulative(slices)[i]} IN
    IF inside = {} THEN Ghost ELSE slices[First(inside)].variation

\* Faulty variant of isValidDistribution: the weights need not fill the space.
isValidDistributionLoose(slices) ==
    /\ slices # <<>>
    /\ \A i \in 1..Len(slices) : slices[i].weight \in Nat
    /\ cumulative(slices)[Len(slices)] <= BucketSpace

isValidDistribution(slices) ==
    /\ slices # <<>>
    /\ \A i \in 1..Len(slices) : slices[i].weight \in Nat
    /\ cumulative(slices)[Len(slices)] = BucketSpace

-----------------------------------------------------------------------------
\* The buckets in which the walk serves v.
ServedBuckets(slices, v) ==
    {b \in 0..(BucketSpace - 1) : variationForBucket(slices, b) = v}

\* The weight a rollout declares for v, over all its slices.
DeclaredWeight(slices, v) ==
    runningTotal([i \in 1..Len(slices) |->
                    IF slices[i].variation = v THEN slices[i].weight ELSE 0])[Len(slices)]

=============================================================================
