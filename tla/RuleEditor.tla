----------------------------- MODULE RuleEditor -----------------------------
(***************************************************************************)
(* The console's rule tree editor (RuleBuilder.tsx): one control of one    *)
(* node is used, and the spine of the tree rebuilt down to that node.      *)
(*                                                                         *)
(* A path is the list of child positions from the root.  What an author    *)
(* types is text, whatever it spells; a text of no letters is blank.       *)
(***************************************************************************)
EXTENDS RuleTrees

CONSTANTS
    Attributes,     \* attribute names an author types
    Operators,      \* operators the menu offers
    TextLength,     \* bound: the longest text an author types
    NestLimit       \* the depth from which on no group can be added: 8

ASSUME EditorAssumption == {TextLength, NestLimit} \subseteq Nat /\ "eq" \in Operators

Str(n) == [type |-> "string", value |-> n]
Texts == {Str(n) : n \in 0..TextLength}

EMPTY_TREE == [kind |-> "and", children |-> <<>>]

\* What the editor can show; a node of any other kind breaks the screen.
NodeKinds == Branches \cup {"condition", "segment"}

RECURSIVE Paths(_)
Paths(node) ==
    {<<>>} \cup
    IF node.kind \in Branches
    THEN UNION {{<<i>> \o path : path \in Paths(node.children[i])} : i \in DOMAIN node.children}
    ELSE {}

RECURSIVE NodeAt(_, _)
NodeAt(root, path) ==
    IF path = <<>> THEN root ELSE NodeAt(root.children[Head(path)], Tail(path))

\* A new condition, which stays out of browsers until its author says otherwise.
emptyCondition ==
    [kind |-> "condition", attribute |-> "", operator |-> "eq", values |-> {Str(0)},
     visibility |-> "server"]

RECURSIVE replaceAt(_, _, _)
replaceAt(root, path, next) ==
    IF path = <<>> THEN next
    ELSE IF root.kind \notin Branches THEN root
    ELSE [root EXCEPT !.children[Head(path)] = replaceAt(@, Tail(path), next)]

\* Faulty variant of removeAt: the child that holds the node goes with it.
removeAtTop(root, path) ==
    IF path = <<>> \/ root.kind \notin Branches THEN root
    ELSE [root EXCEPT !.children = RemoveAt(@, Head(path))]

\* The root stays.
RECURSIVE removeAt(_, _)
removeAt(root, path) ==
    IF path = <<>> \/ root.kind \notin Branches THEN root
    ELSE IF Len(path) = 1 THEN [root EXCEPT !.children = RemoveAt(@, Head(path))]
    ELSE [root EXCEPT !.children[Head(path)] = removeAt(@, Tail(path))]

-----------------------------------------------------------------------------
(* The controls of a node: what it may be replaced by.                     *)

\* The value field: one text, or for a list what is left of the texts between
\* the commas when the blank ones are dropped.
setValues(operator) ==
    IF operator \in {"in", "notIn"} THEN SUBSET (Texts \ {Str(0)}) ELSE {{text} : text \in Texts}

ConditionEdits(node) ==
    {[node EXCEPT !.attribute = attribute] : attribute \in Attributes \cup {""}} \cup
    {[node EXCEPT !.operator = operator] : operator \in Operators} \cup
    {[node EXCEPT !.values = values] : values \in setValues(node.operator)} \cup
    {[node EXCEPT !.visibility = IF @ = "server" THEN "client" ELSE "server"]}

SegmentEdits(node, availableSegments) ==
    {[node EXCEPT !.segmentKey = key] : key \in ToSet(availableSegments) \cup {""}} \cup
    {[node EXCEPT !.negate = ~@]}

\* Faulty variant of canNest: there is no limit.
canNestAlways(depth) == depth >= 0

canNest(depth) == depth < NestLimit

\* + Condition, + Group and + Segment.
NewChildren(depth, availableSegments) ==
    {emptyCondition} \cup
    {[kind |-> "segment", negate |-> FALSE,
      segmentKey |-> IF availableSegments = <<>> THEN "" ELSE availableSegments[1]]} \cup
    IF canNest(depth) THEN {[kind |-> "and", children |-> <<emptyCondition>>]} ELSE {}

GroupEdits(node, depth, availableSegments) ==
    {[node EXCEPT !.kind = kind] : kind \in Branches} \cup
    {[node EXCEPT !.children = Append(@, child)] : child \in NewChildren(depth, availableSegments)}

NodeEdits(node, depth, availableSegments) ==
    CASE node.kind = "condition" -> ConditionEdits(node)
      [] node.kind = "segment" -> SegmentEdits(node, availableSegments)
      [] OTHER -> GroupEdits(node, depth, availableSegments)

\* update and remove: a step is the path of the node it is on and the tree it makes.
updates(root, availableSegments) ==
    UNION {{[path |-> path, tree |-> replaceAt(root, path, next)] :
              next \in NodeEdits(NodeAt(root, path), Len(path), availableSegments)} :
           path \in Paths(root)}

removals(root) == {[path |-> path, tree |-> removeAt(root, path)] : path \in Paths(root) \ {<<>>}}

Editable(root) == \A path \in Paths(root) : NodeAt(root, path).kind \in NodeKinds

\* Every tree the author may have next.
Edited(root, availableSegments) ==
    IF Editable(root) THEN {step.tree : step \in updates(root, availableSegments) \cup removals(root)}
    ELSE {}
=============================================================================
