------------------------------ MODULE Rulesets ------------------------------
(***************************************************************************)
(* What a publish makes of an environment's rows, and what an SDK makes of *)
(* the result: compileRuleset validates the rows and builds a payload for  *)
(* server keys and one for client keys (control plane, core visibility),   *)
(* evaluateFlag serves a variation from either (core evaluation).          *)
(*                                                                         *)
(* The rows are edited through the admin API, which stores rules without   *)
(* looking at them, in the console's rule editor (RuleEditor), or by hand  *)
(* (prerequisites and segments have no route);                             *)
(* a publish may happen in any state, so the properties are about what     *)
(* compileRuleset makes of the rows of every state.                        *)
(***************************************************************************)
EXTENDS RuleEditor, FlagRows, SegmentSafety

CONSTANTS
    SegmentKeys,    \* segments of the tenant
    Trees,          \* rule trees an author writes, well formed or not
    Rules,          \* rules an author writes: a tree and what it serves
    Contexts,       \* contexts to evaluate for
    MaxDepth,       \* the deepest rule tree that is valid: 32
    MaxEdits        \* bound: edits made

ASSUME GhostAssumption == Ghost \notin FlagKeys \cup SegmentKeys
ASSUME BoundsAssumption == {MaxDepth, MaxEdits} \subseteq Nat \ {0}
ASSUME DepthAssumption == NestLimit < MaxDepth

VARIABLES
    segmentRows,    \* segmentRows[s]: the segment's rule tree (SegmentRow)
    authored        \* edits made

rulesetVars == <<flagRows, segmentRows, authored>>

\* A tree of the shape the types of packages/core give it, but for what is
\* missing or of an unknown kind.
RECURSIVE IsTree(_)
IsTree(node) ==
    CASE node.kind = "condition" -> \A v \in node.values : v.value \in Nat
      [] node.kind \in Branches ->
            \A i \in 1..Len(node.children) : IsTree(node.children[i])
      [] node.kind = "segment" -> node.negate \in BOOLEAN
      [] OTHER -> TRUE

RulesetsTypeOK ==
    /\ \A f \in FlagKeys : \A rule \in ToSet(flagRows[f].rules) :
         DOMAIN rule = {"when", "serve"} /\ IsTree(rule.when)
    /\ FlagRowsTypeOK
    /\ DOMAIN segmentRows \subseteq SegmentKeys
    /\ \A s \in DOMAIN segmentRows : segmentRows[s] \in Trees
    /\ authored \in 0..MaxEdits

-----------------------------------------------------------------------------
(* Evaluation of a payload: flags and segments, each by key.               *)

\* The first rule that matches, by its position.
firstMatch(payload, f, context) ==
    SelectInSeq(payload.flags[f].rules,
                LAMBDA rule : matchNode(rule.when, context, payload.segments, {}))

matchedRules(payload, context) ==
    [f \in DOMAIN payload.flags |-> firstMatch(payload, f, context)]

Serves(payload, key, context) ==
    evaluateFlag(payload.flags, matchedRules(payload, context), context.bucket, key)

-----------------------------------------------------------------------------
(* Payload filtering by key kind.                                          *)

safeSegmentsOf(segments) ==
    clientSafeSegments({s \in DOMAIN segments : containsServerOnly(segments[s])},
                       [s \in DOMAIN segments |-> referencedSegments(segments[s])],
                       SetToSeq(DOMAIN segments))

isRuleClientSafe(rule, safe) ==
    ~containsServerOnly(rule.when) /\ referencedSegments(rule.when) \subseteq safe

filterFlag(flag, safe) ==
    [flag EXCEPT !.rules = SelectSeq(@, LAMBDA rule : isRuleClientSafe(rule, safe))]

\* The client payload; a server key gets the snapshot as it is.
filterSnapshotForKey(snapshot) ==
    LET safe == safeSegmentsOf(snapshot.segments) IN
    [flags |-> [f \in DOMAIN snapshot.flags |-> filterFlag(snapshot.flags[f], safe)],
     segments |-> [s \in DOMAIN snapshot.segments \cap safe |-> snapshot.segments[s]]]

findServerOnlyLeaks(snapshot) ==
    \/ \E s \in DOMAIN snapshot.segments : containsServerOnly(snapshot.segments[s])
    \/ \E f \in DOMAIN snapshot.flags : \E rule \in ToSet(snapshot.flags[f].rules) :
         \/ containsServerOnly(rule.when)
         \/ ~(referencedSegments(rule.when) \subseteq DOMAIN snapshot.segments)

-----------------------------------------------------------------------------
(* Compilation.                                                            *)

\* The checks that an operator is a string and the like are left out: a tree of
\* Trees has the fields of its kind.
RECURSIVE validRuleNode(_, _)
validRuleNode(node, depth) ==
    /\ depth <= MaxDepth
    /\ CASE node.kind = "condition" ->
                /\ node.attribute # "" /\ node.values # {}
                /\ node.visibility \in {"client", "server"}
         [] node.kind \in Branches -> \A child \in ToSet(node.children) : validRuleNode(child, depth + 1)
         [] OTHER -> node.kind = "segment" /\ node.segmentKey # ""

validFlag(flag, segmentKeys) ==
    /\ validVariations(flag)
    /\ \A rule \in ToSet(flag.rules) :
         validRuleNode(rule.when, 0) /\ referencedSegments(rule.when) \subseteq segmentKeys

Server == [flags |-> flagRows, segments |-> segmentRows]
Client == filterSnapshotForKey(Server)

\* compileRuleset succeeds: anything else fails the publish.
compileRuleset ==
    /\ \A s \in DOMAIN segmentRows : validRuleNode(segmentRows[s], 0)
    /\ \A f \in FlagKeys :
         /\ validFlag(flagRows[f], DOMAIN segmentRows)
         /\ \A p \in ToSet(flagRows[f].prerequisites) : p.flag \in FlagKeys
    /\ ~prerequisiteCycle
    /\ ~findServerOnlyLeaks(Client)

-----------------------------------------------------------------------------
(* Authoring.                                                              *)

RulesetsInit ==
    /\ \E d, o \in Variations :
         flagRows = [f \in FlagKeys |-> [enabled |-> TRUE, default |-> d, off |-> o,
                                         rules |-> <<>>, prerequisites |-> <<>>]]
    /\ segmentRows = <<>>
    /\ authored = 0

Edit == authored < MaxEdits /\ authored' = authored + 1

Toggle(f) ==
    /\ Edit
    /\ flagRows' = [flagRows EXCEPT ![f].enabled = ~@]
    /\ UNCHANGED segmentRows

SetVariations(f, d, o) ==
    /\ Edit
    /\ flagRows' = [flagRows EXCEPT ![f].default = d, ![f].off = o]
    /\ UNCHANGED segmentRows

\* An edit that leaves one rule where a list of rules belongs.
AddRuleBare(f, rule) ==
    /\ Edit
    /\ flagRows' = [flagRows EXCEPT ![f].rules = rule]
    /\ UNCHANGED segmentRows

AddRule(f, rule) ==
    /\ Edit
    /\ flagRows' = [flagRows EXCEPT ![f].rules = Append(@, rule)]
    /\ UNCHANGED segmentRows

firstTree(flag) == IF flag.rules = <<>> THEN EMPTY_TREE ELSE flag.rules[1].when

firstNonOff(flag) ==
    IF Variations = {flag.off} THEN flag.default ELSE CHOOSE v \in Variations : v # flag.off

availableSegments == SetToSeq(DOMAIN segmentRows)

\* The flag screen saves what its editor made of the first rule's tree: a list of
\* one rule, which serves what the first did.
SaveTree(f, tree) ==
    /\ Edit
    /\ flagRows' = [flagRows EXCEPT ![f].rules =
                      <<[when |-> tree,
                         serve |-> IF @ = <<>>
                                   THEN [kind |-> "variation", variation |-> firstNonOff(flagRows[f])]
                                   ELSE @[1].serve]>>]
    /\ UNCHANGED segmentRows

\* Prerequisites and segments have no route that writes them; an operator does, in SQL.
AddPrerequisite(f, p) ==
    /\ Edit
    /\ flagRows' = [flagRows EXCEPT ![f].prerequisites = Append(@, p)]
    /\ UNCHANGED segmentRows

WriteSegment(s, tree) ==
    /\ Edit
    /\ segmentRows' = [x \in DOMAIN segmentRows \cup {s} |-> IF x = s THEN tree ELSE segmentRows[x]]
    /\ UNCHANGED flagRows

RulesetsNext ==
    \/ \E f \in FlagKeys :
         \/ Toggle(f)
         \/ \E d, o \in Variations \cup {Ghost} : SetVariations(f, d, o)
         \/ \E rule \in Rules : AddRule(f, rule)
         \/ \E tree \in Edited(firstTree(flagRows[f]), availableSegments) : SaveTree(f, tree)
         \/ \E p \in [flag : FlagKeys \cup {Ghost}, variation : Variations] : AddPrerequisite(f, p)
    \/ \E s \in SegmentKeys, tree \in Trees : WriteSegment(s, tree)

RulesetsSpec == RulesetsInit /\ [][RulesetsNext]_rulesetVars

-----------------------------------------------------------------------------
\* What compileRuleset lets through evaluates: no flag of either payload gives
\* any context an error, so validation misses nothing that evaluation trips on
\* (an undeclared variation, a rollout that does not add up), and no flag
\* "silently fails closed" (ruleset.ts) in a cycle: its prerequisites fail it
\* exactly when one of them, evaluated by itself, serves another variation.
EvaluationNeverErrs ==
    compileRuleset =>
        \A payload \in {Server, Client}, context \in Contexts :
            EvaluatesWell(payload.flags, matchedRules(payload, context), context.bucket)

\* Everything in a tree that a reader of the payload can see.
RECURSIVE Visible(_)
Visible(node) ==
    IF node.kind \in Branches THEN UNION {Visible(child) : child \in ToSet(node.children)} ELSE {node}

\* A client payload shows conditions marked for clients and nothing else, in its
\* rules and in its segments.
NoLeak ==
    compileRuleset =>
        \A tree \in {Client.segments[s] : s \in DOMAIN Client.segments} \cup
                    UNION {{rule.when : rule \in ToSet(Client.flags[f].rules)} : f \in FlagKeys} :
            \A node \in Visible(tree) :
                node.kind = "segment" \/ (node.kind = "condition" /\ node.visibility = "client")

\* A rule that a client keeps matches on the client exactly the contexts it
\* matches on the server, through every segment it refers to: filtering drops
\* rules and never changes what one means.
ClientMatchesServer ==
    compileRuleset =>
        \A f \in FlagKeys : \A rule \in ToSet(Client.flags[f].rules), context \in Contexts :
            matchNode(rule.when, context, Client.segments, {})
              = matchNode(rule.when, context, Server.segments, {})

\* The node at q after the one at p has gone.
Shifted(q, p) ==
    LET n == Len(p) IN
    IF IsPrefix(Front(p), q) /\ Len(q) >= n /\ q[n] > p[n] THEN [q EXCEPT ![n] = @ - 1] ELSE q

EditableTrees == {tree \in {firstTree(flagRows[f]) : f \in FlagKeys} : Editable(tree)}

\* An edit of one node is an edit of that node: every node that is neither it, nor
\* above it, nor below it comes through as it was ("editing one silently edits the
\* other", RuleBuilder.tsx), and removing one takes what is below it and no more.
EditsAreLocal ==
    \A tree \in EditableTrees :
        LET beside(p) == {q \in Paths(tree) : ~IsPrefix(p, q) /\ ~IsPrefix(q, p)} IN
        /\ \A step \in updates(tree, availableSegments) : \A q \in beside(step.path) :
             q \in Paths(step.tree) /\ NodeAt(step.tree, q) = NodeAt(tree, q)
        /\ \A step \in removals(tree) :
             /\ Cardinality(Paths(step.tree))
                  = Cardinality(Paths(tree)) - Cardinality(Paths(NodeAt(tree, step.path)))
             /\ \A q \in beside(step.path) :
                  /\ Shifted(q, step.path) \in Paths(step.tree)
                  /\ NodeAt(step.tree, Shifted(q, step.path)) = NodeAt(tree, q)

\* What an author has yet to fill in.
Blank(node) ==
    \/ node.kind = "condition" /\ (node.attribute = "" \/ node.values = {})
    \/ node.kind = "segment" /\ node.segmentKey = ""

\* The editor is "structurally incapable of producing a shape the evaluator cannot
\* read" (RuleBuilder.tsx): an edit of a valid tree whose groups the editor could
\* have made leaves blanks at worst, and never a tree too deep to publish.
EditsStayValid ==
    \A tree \in EditableTrees :
        /\ validRuleNode(tree, 0)
        /\ \A p \in Paths(tree) : NodeAt(tree, p).kind \in Branches => Len(p) <= NestLimit
        => \A next \in Edited(tree, availableSegments) : \A p \in Paths(next) :
             LET node == NodeAt(next, p) IN
             /\ Len(p) <= MaxDepth
             /\ node.kind \in Branches \/ Blank(node) \/ validRuleNode(node, Len(p))

\* "A client must never be *more* included than the author specified"
\* (visibility.ts): in a flag that is off by default, whoever the client payload
\* serves another variation than off, the server payload does too.
NeverMoreIncluded ==
    compileRuleset =>
        \A f \in FlagKeys, context \in Contexts :
            /\ flagRows[f].default = flagRows[f].off
            /\ Serves(Client, f, context).variation # flagRows[f].off
            => Serves(Server, f, context).variation # flagRows[f].off
=============================================================================
