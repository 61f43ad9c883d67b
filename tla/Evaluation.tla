---------------------------- MODULE Evaluation ----------------------------
(***************************************************************************)
(* How a flag is evaluated once it is known which of its rules match (core *)
(* evaluate), and what a publish checks so that this always works (control *)
(* plane, validateFlag).  matched[f] is the position of the first rule of  *)
(* f that matches the context, 0 when none does, and bucket[f] the bucket  *)
(* the context's key hashes to, -1 when it lacks the attribute the flag    *)
(* buckets by.                                                             *)
(***************************************************************************)
EXTENDS Bucketing, Prerequisites

CONSTANT Variations     \* the variations every flag declares

ASSUME GhostIsNoVariation == Ghost \notin Variations

\* The keys that the prerequisites of each flag name.
requiresOf(flags) ==
    [f \in DOMAIN flags |->
        [i \in 1..Len(flags[f].prerequisites) |-> flags[f].prerequisites[i].flag]]

\* The value itself is left out: a result is a variation and a reason.
resultFor(variation, reason) ==
    IF variation \in Variations THEN [variation |-> variation, reason |-> reason]
    ELSE [variation |-> variation, reason |-> "error"]

Failed == [variation |-> Ghost, reason |-> "error"]

\* The rule that matched, or the default.
serveFlag(flag, position, bucket) ==
    LET serve == flag.rules[position].serve IN
    IF position = 0 THEN resultFor(flag.default, "default")
    ELSE IF serve.kind = "variation" THEN resultFor(serve.variation, "ruleMatch")
    ELSE IF bucket < 0 THEN resultFor(flag.default, "default")
    ELSE IF variationForBucket(serve.rollout, bucket) = Ghost THEN Failed
    ELSE resultFor(variationForBucket(serve.rollout, bucket), "ruleMatch")

\* seen holds the flags being evaluated, to cut a prerequisite cycle;
\* evaluate[s] is what a call does with s being evaluated.
evaluateInternal(flags, matched, bucket, evaluate, seen, key) ==
    IF key \notin DOMAIN flags \/ key \in seen THEN Failed
    ELSE IF ~flags[key].enabled THEN resultFor(flags[key].off, "off")
    ELSE IF \E i \in 1..Len(flags[key].prerequisites) :
              LET p == flags[key].prerequisites[i] IN
              evaluate[seen \cup {key}][p.flag].variation # p.variation
         THEN resultFor(flags[key].off, "prerequisiteFailed")
    ELSE serveFlag(flags[key], matched[key], bucket[key])

\* The recursion: evaluating a flag makes it one of those being evaluated.
Evaluations(flags, matched, bucket) ==
    LET evaluate[seen \in SUBSET DOMAIN flags] ==
            [key \in NamedKeys(requiresOf(flags)) |->
                evaluateInternal(flags, matched, bucket, evaluate, seen, key)] IN
    evaluate

evaluateFlag(flags, matched, bucket, key) == Evaluations(flags, matched, bucket)[{}][key]

-----------------------------------------------------------------------------
validServe(serve) ==
    \/ serve.kind = "variation" /\ serve.variation \in Variations
    \/ /\ serve.kind = "rollout"
       /\ isValidDistribution(serve.rollout)
       /\ \A i \in 1..Len(serve.rollout) : serve.rollout[i].variation \in Variations

\* What validateFlag asks of a flag's variations; it looks at the trees as well.
\* That there are variations and none twice is left out: Variations is a set.
validVariations(flag) ==
    /\ {flag.default, flag.off} \subseteq Variations
    /\ \A i \in 1..Len(flag.rules) : validServe(flag.rules[i].serve)

-----------------------------------------------------------------------------
\* Whether a prerequisite of f, evaluated by itself, serves another variation
\* than the one f requires.
prerequisiteFails(flags, matched, bucket, f) ==
    \E i \in 1..Len(flags[f].prerequisites) :
        LET p == flags[f].prerequisites[i] IN
        evaluateFlag(flags, matched, bucket, p.flag).variation # p.variation

\* No flag gives an error, and a flag's prerequisites fail it exactly when one of
\* them, evaluated by itself, serves another variation.
EvaluatesWell(flags, matched, bucket) ==
    \A f \in DOMAIN flags :
        LET reason == evaluateFlag(flags, matched, bucket, f).reason IN
        /\ reason # "error"
        /\ reason = "prerequisiteFailed"
             <=> flags[f].enabled /\ prerequisiteFails(flags, matched, bucket, f)
=============================================================================
