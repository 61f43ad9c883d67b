------------------------------ MODULE Platform ------------------------------
(***************************************************************************)
(* The control plane and the data plane together: a publish is committed,  *)
(* audited, and pushed over HTTP to the data plane's snapshot store.  The  *)
(* push may be lost, may arrive after the five seconds the control plane   *)
(* waits for it, and pushes of different publishes may overtake each       *)
(* other; either process may stop at any point, and the data plane keeps   *)
(* its rulesets in memory only.                                            *)
(***************************************************************************)
EXTENDS SnapshotStore, ControlPlane

CONSTANT MaxFaults  \* bound: failed queries, crashes, restarts and lost pushes

ASSUME PlatformAssumption == MaxFaults \in Nat /\ MaxPublishes <= MaxVersion

VARIABLES
    pushes,     \* publish requests on their way to the data plane
    faults      \* faults so far

platformVars == <<storeVars, controlVars, pushes, faults>>

PlatformTypeOK ==
    /\ StoreTypeOK
    /\ ControlTypeOK
    /\ pushes \subseteq [env : Environments, version : Nat]
    /\ faults \in 0..MaxFaults

PlatformInit ==
    /\ StoreInit
    /\ ControlInit
    /\ pushes = {}
    /\ faults = 0

\* The control plane's own steps.
ControlStep(r) ==
    /\ \/ \E f \in Flags : CreateFlag(r, f)
       \/ CreateAudit(r)
       \/ \E e \in Environments, f \in Flags, set \in SUBSET Fields : PatchRead(r, e, f, set)
       \/ PatchWrite(r) \/ PatchAudit(r)
       \/ \E e \in Environments : PublishLock(r, e)
       \/ PublishLoad(r) \/ PublishReject(r) \/ PublishCommit(r) \/ PublishAudit(r)
    /\ UNCHANGED <<storeVars, pushes, faults>>

Push(r) == [env |-> rEnv[r], version |-> rVersion[r]]

\* Faulty variant of PushSend: the push goes out before the audit entry is written.
PushSendEarly(r) ==
    /\ rpc[r] \in {"committed", "audited"}
    /\ pushes' = pushes \cup {Push(r)}
    /\ rpc' = [rpc EXCEPT ![r] = "pushing"]
    /\ UNCHANGED <<storeVars, databaseVars, rEnv, rFlag, rSet, rEdit, rPrev, rBefore,
                   rVersion, rAsOf, faults>>

\* fetch of /internal/v1/publish.
PushSend(r) ==
    /\ rpc[r] = "audited"
    /\ pushes' = pushes \cup {Push(r)}
    /\ rpc' = [rpc EXCEPT ![r] = "pushing"]
    /\ UNCHANGED <<storeVars, databaseVars, rEnv, rFlag, rSet, rEdit, rPrev, rBefore,
                   rVersion, rAsOf, faults>>

\* The publish is answered once the push is, or after its timeout.
PublishReply(r) ==
    /\ rpc[r] = "pushing"
    /\ Finish(r)
    /\ UNCHANGED <<storeVars, databaseVars, pushes, faults>>

\* handlePublish: a version that does not advance is a 409 and changes nothing.
PushArrives(m) ==
    /\ m \in pushes
    /\ pushes' = pushes \ {m}
    /\ \/ StorePublish(m.env, m.version)
       \/ Stale(m.env, m.version) /\ UNCHANGED storeVars
    /\ UNCHANGED <<controlVars, faults>>

Fault == faults < MaxFaults /\ faults' = faults + 1

PushLost(m) ==
    /\ m \in pushes /\ Fault
    /\ pushes' = pushes \ {m}
    /\ UNCHANGED <<storeVars, controlVars>>

\* The data plane starts again with an empty store.
DataPlaneRestart(e) ==
    /\ Known(e) /\ Fault
    /\ current' = [x \in Environments |-> 0]
    /\ history' = [x \in Environments |-> <<>>]
    /\ accepted' = [x \in Environments |-> {}]
    /\ UNCHANGED <<controlVars, pushes>>

ControlFails(r) ==
    /\ QueryFails(r) /\ Fault
    /\ UNCHANGED <<storeVars, pushes>>

ControlPlaneCrash ==
    /\ ControlCrash /\ Fault
    /\ UNCHANGED <<storeVars, pushes>>

PlatformNext ==
    \/ \E r \in Requests : ControlStep(r) \/ PushSend(r) \/ PublishReply(r) \/ ControlFails(r)
    \/ \E m \in pushes : PushArrives(m) \/ PushLost(m)
    \/ \E e \in Environments : DataPlaneRestart(e)
    \/ ControlPlaneCrash

PlatformSpec == PlatformInit /\ [][PlatformNext]_platformVars

\* A handler that has started runs on, and a push that is not lost arrives.
Proceeds(r) == rpc[r] # "idle" /\ (ControlStep(r) \/ PushSend(r) \/ PublishReply(r))

PlatformFairness ==
    /\ \A r \in Requests : WF_platformVars(Proceeds(r))
    /\ \A m \in [env : Environments, version : Versions] : WF_platformVars(PushArrives(m))

FairPlatformSpec == PlatformSpec /\ PlatformFairness

-----------------------------------------------------------------------------
\* Every ruleset the data plane serves is committed and in the audit log:
\* nothing reaches an SDK that the database could forget or that no entry
\* accounts for, whatever fails and however late a push arrives.
ServedIsAudited ==
    \A e \in Environments : \A v \in accepted[e] :
        v \in 1..version[e] /\ Entry(e, v) \in audit

\* Why the three guarantees above hold together: the row's holder takes the next
\* number, compiles from the latest configurations, keeps its number from COMMIT
\* on, and pushes, wherever they are, carry committed and audited versions.
PublishInv ==
    /\ VersionsAreSnapshots /\ SnapshotsInOrder /\ ServedIsAudited
    /\ HoldersTakeNext /\ LoadedIsLatest /\ CommittedIsKept
    /\ \A m \in pushes : m.version \in 1..version[m.env] /\ Entry(m.env, m.version) \in audit

\* A push that overtakes an older one wins for good: without a restart the data
\* plane never goes back to an older version.
NeverRollsBack ==
    [][\A e \in Environments : current'[e] >= current[e] \/ \E x \in Environments : DataPlaneRestart(x)]_platformVars

\* Without a fault, a published version or a newer one comes to be served.
PublishedIsServed ==
    \A e \in Environments, v \in 1..MaxPublishes :
        (version[e] >= v) ~> (current[e] >= v \/ faults > 0)
=============================================================================
