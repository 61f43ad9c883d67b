----------------------------- MODULE RulesetFeed -----------------------------
(***************************************************************************)
(* What ruleset distribution promises its clients, with no store, hub,     *)
(* connection or history in sight: an environment's versions only move     *)
(* forward, and a client only ever moves from the version it holds to a    *)
(* newer published version of the environment it watches.  DataPlane       *)
(* implements it.                                                          *)
(***************************************************************************)
EXTENDS Integers

CONSTANTS Environments, Clients, Versions

VARIABLES
    published,  \* published[e]: the versions of e published so far
    watching,   \* watching[c]: the environment client c follows
    holding     \* holding[c]: the version c evaluates with, 0 for none

feedVars == <<published, watching, holding>>

FeedInit ==
    /\ published = [e \in Environments |-> {}]
    /\ watching \in [Clients -> Environments]
    /\ holding = [c \in Clients |-> 0]

FeedPublish(e, v) ==
    /\ \A w \in published[e] : w < v
    /\ published' = [published EXCEPT ![e] = @ \cup {v}]
    /\ UNCHANGED <<watching, holding>>

FeedAdvance(c, v) ==
    /\ v \in published[watching[c]] /\ v > holding[c]
    /\ holding' = [holding EXCEPT ![c] = v]
    /\ UNCHANGED <<published, watching>>

FeedSwitch(c, e) ==
    /\ watching' = [watching EXCEPT ![c] = e]
    /\ holding' = [holding EXCEPT ![c] = 0]
    /\ UNCHANGED published

FeedNext ==
    \/ \E e \in Environments, v \in Versions : FeedPublish(e, v)
    \/ \E c \in Clients, v \in Versions : FeedAdvance(c, v)
    \/ \E c \in Clients, e \in Environments : FeedSwitch(c, e)

FeedSpec == FeedInit /\ [][FeedNext]_feedVars
=============================================================================
