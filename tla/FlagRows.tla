----------------------------- MODULE FlagRows -----------------------------
(***************************************************************************)
(* The flags of an environment as the control plane's rows hold them, and  *)
(* what a publish finds out about them without looking into rule trees.    *)
(***************************************************************************)
EXTENDS Evaluation, SequencesExt, FiniteSets

CONSTANT FlagKeys       \* flags of the environment

ASSUME FlagsAssumption == IsFiniteSet(FlagKeys)

VARIABLE flagRows       \* flagRows[f]: the flag with its configuration (FlagRow)

FlagRowsTypeOK ==
    /\ DOMAIN flagRows = FlagKeys
    /\ \A f \in FlagKeys :
         /\ flagRows[f].enabled \in BOOLEAN
         /\ {flagRows[f].default, flagRows[f].off} \subseteq Variations \cup {Ghost}
         /\ flagRows[f].prerequisites
              \in Seq([flag : FlagKeys \cup {Ghost}, variation : Variations])
         /\ \A i \in 1..Len(flagRows[f].rules) :
              LET serve == flagRows[f].rules[i].serve IN
              serve.kind = "rollout" =>
                serve.rollout \in Seq([variation : Variations \cup {Ghost}, weight : Int])

\* A publish visits the flags in the order of its query.
prerequisiteCycle == findPrerequisiteCycle(requiresOf(flagRows), SetToSeq(FlagKeys))

-----------------------------------------------------------------------------
\* The depth-first search finds a prerequisite cycle exactly when there is one,
\* that is, flags each of which requires one of them: flags that share a
\* prerequisite are no cycle.
CyclesAreFound == prerequisiteCycle <=> HasCycle(requiresOf(flagRows))

\* A rollout that validateFlag lets through gives each variation exactly its
\* weight of the buckets.
RolloutShares ==
    \A f \in FlagKeys :
        validVariations(flagRows[f]) =>
            \A i \in 1..Len(flagRows[f].rules) :
                LET serve == flagRows[f].rules[i].serve IN
                serve.kind = "rollout" =>
                    \A v \in Variations :
                        Cardinality(ServedBuckets(serve.rollout, v))
                          = DeclaredWeight(serve.rollout, v)
=============================================================================
