----------------------------- MODULE MCRulesets -----------------------------
(***************************************************************************)
(* Small menus of trees, serves and contexts for Rulesets.                 *)
(***************************************************************************)
EXTENDS Rulesets

Num(n) == [type |-> "number", value |-> n]

Condition(operator, attribute, values, visibility) ==
    [kind |-> "condition", operator |-> operator, attribute |-> attribute,
     values |-> values, visibility |-> visibility]
Branch(kind, children) == [kind |-> kind, children |-> children]
Segment(s, negate) == [kind |-> "segment", segmentKey |-> s, negate |-> negate]

\* One condition each for clients, for servers only, and marked for neither.
Pro == Condition("eq", "plan", {Str(1)}, "client")
Adult == Condition("gte", "age", {Num(2)}, "server")
Unmarked == Condition("neq", "plan", {Str(1)}, "unset")

\* References to both segments, negated, and to one that does not exist; a tree
\* one level too deep, and a node of an unknown kind.
MCTrees ==
    {Pro, Adult, Unmarked,
     Branch("or", <<Pro, Segment("s1", FALSE)>>),
     Segment("s2", FALSE),
     Branch("and", <<Segment("s1", TRUE)>>),
     Segment(Ghost, FALSE),
     Branch("not", <<Branch("or", <<Branch("and", <<Pro>>)>>)>>),
     Branch("not", <<Branch("or", <<Pro, Adult>>), Adult>>),
     [kind |-> "unknown"]}

Slice(v, weight) == [variation |-> v, weight |-> weight]

\* Serving one variation, or a split that fits, falls short, or names a ghost.
MCServes ==
    {[kind |-> "variation", variation |-> v] : v \in {"off", Ghost}} \cup
    {[kind |-> "rollout", rollout |-> slices] :
        slices \in {<<Slice("on", 1), Slice("off", 2)>>,
                    <<Slice("on", 1), Slice("off", 1)>>,
                    <<Slice("off", 2), Slice(Ghost, 1)>>}}

\* Every tree to turn a flag on, and every way to serve what one of them matches.
MCRules ==
    [when : MCTrees, serve : {[kind |-> "variation", variation |-> "on"]}] \cup
    [when : {Pro}, serve : MCServes]

\* Flags are interchangeable.
FlagSymmetry == Permutations(FlagKeys)

Buckets(range) == {[f \in FlagKeys |-> b] : b \in range}

\* Rollouts are served to whom Pro matches, who is in any bucket or in none.
MCContexts ==
    [attributes : {[plan |-> Str(1)]}, bucket : Buckets(-1..2)] \cup
    [attributes : {<<>>, [plan |-> Num(1), age |-> Num(2)], [plan |-> Str(2), age |-> Num(1)]},
     bucket : Buckets({0})]
=============================================================================
