----------------------------- MODULE RuleTrees -----------------------------
(***************************************************************************)
(* Rule trees, the language of targeting (packages/core): conditions on    *)
(* the attributes of a context, and / or / not nodes, and references to    *)
(* named segments, which are rule trees themselves.                        *)
(*                                                                         *)
(* An attribute's value is its type and a number.  A string stands for the *)
(* word of that many letters over a one-letter alphabet, so that it        *)
(* contains, starts with, ends with and matches exactly the words that are *)
(* no longer; a semver for the version at that place in their order.       *)
(***************************************************************************)
EXTENDS Integers, Sequences, SequencesExt, FiniteSets

Undefined == [type |-> "undefined", value |-> 0]

Branches == {"and", "or", "not"}

\* The type an ordering operator works on; on any other it is false.
OperatorType(operator) ==
    CASE operator \in {"gt", "gte", "lt", "lte"} -> "number"
      [] operator \in {"semverGt", "semverLt"} -> "semver"
      [] operator \in {"contains", "startsWith", "endsWith", "matches"} -> "string"
      [] OTHER -> "none"

Ordering(operator, left, right) ==
    CASE operator \in {"gt", "semverGt"} -> left > right
      [] operator \in {"lt", "semverLt"} -> left < right
      [] operator = "lte" -> left <= right
      [] OTHER -> left >= right

\* An attribute the context does not carry matches nothing, not even neq.
applyOperator(operator, attribute, values) ==
    /\ attribute # Undefined
    /\ \/ operator \in {"eq", "in"} /\ attribute \in values
       \/ operator \in {"neq", "notIn"} /\ attribute \notin values
       \/ /\ attribute.type = OperatorType(operator)
          /\ \E v \in values : v.type = attribute.type /\ Ordering(operator, attribute.value, v.value)

\* The attribute "key", which is the context's own key, is left out: it is one more
\* attribute to every operator.
resolveAttribute(context, attribute) ==
    IF attribute \in DOMAIN context.attributes THEN context.attributes[attribute] ELSE Undefined

\* Whether a tree matches; seen holds the segments being resolved, and a cycle
\* or an unknown segment does not match, negated or not.
RECURSIVE matchNode(_, _, _, _)
matchNode(node, context, segments, seen) ==
    LET matches(child) == matchNode(child, context, segments, seen)
        children == IF node.kind \in Branches THEN ToSet(node.children) ELSE {} IN
    CASE node.kind = "condition" ->
            applyOperator(node.operator, resolveAttribute(context, node.attribute), node.values)
      [] node.kind = "and" -> \A child \in children : matches(child)
      [] node.kind = "or" -> \E child \in children : matches(child)
      [] node.kind = "not" -> \E child \in children : ~matches(child)
      [] node.kind = "segment" ->
            /\ node.segmentKey \notin seen
            /\ node.segmentKey \in DOMAIN segments
            /\ matchNode(segments[node.segmentKey], context, segments, seen \cup {node.segmentKey})
                 # node.negate
      [] OTHER -> FALSE

\* Faulty variant of containsServerOnly: forgets the children of a not.
RECURSIVE containsServerOnlyShallow(_)
containsServerOnlyShallow(node) ==
    CASE node.kind = "condition" -> node.visibility = "server"
      [] node.kind \in {"and", "or"} ->
            \E child \in ToSet(node.children) : containsServerOnlyShallow(child)
      [] OTHER -> node.kind \notin {"segment", "not"}

\* Whether some node of a tree is server-only; an unknown kind counts as one.
RECURSIVE containsServerOnly(_)
containsServerOnly(node) ==
    CASE node.kind = "condition" -> node.visibility = "server"
      [] node.kind \in Branches -> \E child \in ToSet(node.children) : containsServerOnly(child)
      [] OTHER -> node.kind # "segment"

\* referencedSegments, and collectSegmentKeys of the control plane.
RECURSIVE referencedSegments(_)
referencedSegments(node) ==
    CASE node.kind = "segment" -> {node.segmentKey}
      [] node.kind \in Branches -> UNION {referencedSegments(child) : child \in ToSet(node.children)}
      [] OTHER -> {}
=============================================================================
