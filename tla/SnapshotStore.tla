---------------------------- MODULE SnapshotStore ----------------------------
(***************************************************************************)
(* The data plane's snapshot store (internal/store/store.go): per          *)
(* environment, the current ruleset and a bounded history of the most      *)
(* recent ones.  Every operation runs under the store's mutex and is one   *)
(* step.  A snapshot is represented by its version: the control plane      *)
(* compiles exactly one payload for a version of an environment, so the    *)
(* payload and its ETag carry nothing more that a property here tells      *)
(* apart.                                                                  *)
(***************************************************************************)
EXTENDS Integers, Sequences, PlatformKeys

CONSTANTS
    HistorySize,    \* HISTORY_SIZE, 64 by default
    MaxVersion      \* bound: the highest version a publish request carries

\* New replaces a history size that is not positive by the default.
ASSUME HistorySizeAssumption == HistorySize \in Nat \ {0}
ASSUME MaxVersionAssumption == MaxVersion \in Nat \ {0}

Versions == 1..MaxVersion

VARIABLES
    current,    \* current[e]: version of the current snapshot, 0 before the first
    history,    \* history[e]: versions retained for replay, oldest first
    accepted    \* accepted[e]: every version ever accepted (a history variable)

storeVars == <<current, history, accepted>>

StoreTypeOK ==
    /\ current \in [Environments -> Nat]
    /\ history \in [Environments -> Seq(Nat)]
    /\ accepted \in [Environments -> SUBSET Nat]

StoreInit ==
    /\ current = [e \in Environments |-> 0]
    /\ history = [e \in Environments |-> <<>>]
    /\ accepted = [e \in Environments |-> {}]

-----------------------------------------------------------------------------
\* Faulty variant of Stale: whatever arrives last wins.
StaleNever(e, v) == FALSE

\* A version that does not advance is refused: ErrStaleVersion.
Stale(e, v) == current[e] >= v

\* The history after v is appended; the oldest entry goes once the bound is hit.
Retained(h, v) ==
    IF Len(h) + 1 > HistorySize THEN Tail(Append(h, v)) ELSE Append(h, v)

\* Publish, from taking the store's lock to releasing it.
StorePublish(e, v) ==
    /\ v > 0
    /\ ~Stale(e, v)
    /\ current' = [current EXCEPT ![e] = v]
    /\ history' = [history EXCEPT ![e] = Retained(@, v)]
    /\ accepted' = [accepted EXCEPT ![e] = @ \cup {v}]

\* Current and Resume fail with ErrUnknownEnvironment before the first publish.
Known(e) == current[e] # 0

\* Faulty variant of NeedsFullResync: off by one at the edge of the history.
NeedsFullResyncLate(e, after) ==
    /\ Known(e)
    /\ after < current[e]
    /\ \/ history[e] = <<>>
       \/ after < Head(history[e]) - 2

\* Resume: the client's gap reaches back before the retained history.
NeedsFullResync(e, after) ==
    /\ Known(e)
    /\ after < current[e]
    /\ \/ history[e] = <<>>
       \/ after < Head(history[e]) - 1

\* Resume: the snapshots it walks over; those not above `after` are left out.
ResumeSource(e, after) ==
    IF ~Known(e) \/ after >= current[e] THEN <<>> ELSE history[e]

-----------------------------------------------------------------------------
StoreNext == \E e \in Environments, v \in Versions : StorePublish(e, v)

StoreSpec == StoreInit /\ [][StoreNext]_storeVars

-----------------------------------------------------------------------------
Retains(e, v) == \E i \in 1..Len(history[e]) : history[e][i] = v

\* The history is what Resume takes it for: at most HistorySize snapshots,
\* strictly ascending, the newest of them current, every one of them published.
HistoryOrdered ==
    \A e \in Environments :
        /\ Len(history[e]) <= HistorySize
        /\ \A i, j \in 1..Len(history[e]) : i < j => history[e][i] < history[e][j]
        /\ Known(e) => Len(history[e]) > 0 /\ history[e][Len(history[e])] = current[e]
        /\ \A i \in 1..Len(history[e]) : history[e][i] \in accepted[e]

\* A client that Resume answers without a full resync is sent every accepted
\* version above the one it cites: no version the history has already dropped
\* lies in its gap, even when publishes skipped versions.
ResumeComplete ==
    \A e \in Environments : \A after \in 0..current[e] :
        Known(e) /\ ~NeedsFullResync(e, after) =>
            \A v \in accepted[e] : v > after => Retains(e, v)

\* Every version accepted and since dropped is older than the whole history,
\* and nothing accepted is newer than current (strengthening of the above).
DroppedAreOlder ==
    \A e \in Environments :
        /\ \A v \in accepted[e] : 0 < v /\ v <= current[e]
        /\ \A v \in accepted[e] : Retains(e, v) \/ (history[e] # <<>> /\ v < Head(history[e]))

=============================================================================
