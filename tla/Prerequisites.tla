--------------------------- MODULE Prerequisites ---------------------------
(***************************************************************************)
(* The search for a prerequisite cycle that a publish makes (control       *)
(* plane, findPrerequisiteCycle).  requires[f] is the sequence of keys     *)
(* that the prerequisites of flag f name, declared or not.                 *)
(*                                                                         *)
(* The code keeps a mark per flag; here path holds those marked 'visiting' *)
(* and done those marked 'done'.  A visit ends with a cycle found, or with *)
(* the flags that are done then.                                           *)
(***************************************************************************)
EXTENDS Integers, Sequences

\* Every key the search may be asked to visit.
NamedKeys(requires) ==
    DOMAIN requires \cup
    UNION {{requires[f][i] : i \in 1..Len(requires[f])} : f \in DOMAIN requires}

Visited(done) == [done |-> done, cycle |-> FALSE]
CycleFound(done) == [done |-> done, cycle |-> TRUE]

\* A loop that visits keys in turn, until one finds a cycle.
visitAll(visitOne, done, keys) ==
    LET after[i \in 0..Len(keys)] ==
            IF i = 0 THEN Visited(done)
            ELSE IF after[i - 1].cycle THEN after[i - 1]
            ELSE visitOne[after[i - 1].done][keys[i]] IN
    after[Len(keys)]

\* Faulty variant of visit: a flag that was visited before is taken for a cycle.
visitOnce(requires, visits, path, done, key) ==
    IF key \in done \cup path THEN CycleFound(done)
    ELSE IF key \notin DOMAIN requires THEN Visited(done)
    ELSE LET below == visitAll(visits[path \cup {key}], done, requires[key]) IN
         IF below.cycle THEN below ELSE Visited(below.done \cup {key})

\* One call; visits[p] is what a call does with p on the path.
visit(requires, visits, path, done, key) ==
    IF key \in done THEN Visited(done)
    ELSE IF key \in path THEN CycleFound(done)
    ELSE IF key \notin DOMAIN requires THEN Visited(done)
    ELSE LET below == visitAll(visits[path \cup {key}], done, requires[key]) IN
         IF below.cycle THEN below ELSE Visited(below.done \cup {key})

\* The recursion: a call for a flag on no path yet puts it there.
Visits(requires) ==
    LET visits[path \in SUBSET DOMAIN requires] ==
            [done \in SUBSET DOMAIN requires |->
                [key \in NamedKeys(requires) |-> visit(requires, visits, path, done, key)]] IN
    visits

\* Whether a search from each flag in turn finds a cycle.
findPrerequisiteCycle(requires, order) ==
    visitAll(Visits(requires)[{}], {}, order).cycle

-----------------------------------------------------------------------------
\* Flags each of which requires one of them.
IsCycle(requires, flags) ==
    \A f \in flags : \E i \in 1..Len(requires[f]) : requires[f][i] \in flags

HasCycle(requires) ==
    \E flags \in SUBSET DOMAIN requires : flags # {} /\ IsCycle(requires, flags)
=============================================================================
