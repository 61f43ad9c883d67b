--------------------------- MODULE SegmentSafety ---------------------------
(***************************************************************************)
(* Which segments a client key may see (core visibility,                   *)
(* clientSafeSegments).  serverOnly holds the segments whose tree contains *)
(* a server-only node, refers[s] is the set of segments that the tree of s *)
(* refers to, and order the segments as the snapshot lists them.           *)
(***************************************************************************)
EXTENDS Integers, Sequences

\* Faulty variant of canExpose: ignores what a segment refers to.
canExposeShallow(serverOnly, refers, safe, s) == s \notin serverOnly

canExpose(serverOnly, refers, safe, s) ==
    s \notin serverOnly /\ refers[s] \subseteq safe

\* One pass of the inner loop, which adds to safe as it goes.
sweep(serverOnly, refers, order, safe) ==
    LET after[i \in 0..Len(order)] ==
            IF i = 0 THEN safe
            ELSE IF canExpose(serverOnly, refers, after[i - 1], order[i])
                 THEN after[i - 1] \cup {order[i]}
            ELSE after[i - 1] IN
    after[Len(order)]

\* Passes are made until one changes nothing.
clientSafeSegments(serverOnly, refers, order) ==
    LET settle[safe \in SUBSET DOMAIN refers] ==
            LET next == sweep(serverOnly, refers, order, safe) IN
            IF next = safe THEN safe ELSE settle[next] IN
    settle[{}]
=============================================================================
