--------------------------- MODULE PlatformProofs ---------------------------
(***************************************************************************)
(* Publishing is right for any number of requests, environments and flags: *)
(* versions have no gap, later versions come from later configurations,    *)
(* and only audited versions are served.                                   *)
(***************************************************************************)
EXTENDS Platform, SnapshotStoreProofs

Rows == [version : Nat, asOf : Nat]

AuditEntries ==
    [action : {"create"}, flag : Flags] \cup
    [action : {"publish"}, env : Environments, version : Nat] \cup
    [action : {"update"}, env : Environments, flag : Flags, previous : Configs, before : Configs]

-----------------------------------------------------------------------------
(* Type correctness.                                                       *)

LEMMA UnsetType == Unset \in Configs
  BY DEF Unset, Configs

\* Answering or abandoning a request keeps the locals' types.
LEMMA FinishType ==
    ASSUME ControlTypeOK, NEW r \in Requests, Finish(r)
    PROVE  /\ rpc' \in [Requests -> Locations]
           /\ rEnv' \in [Requests -> Environments]
           /\ rFlag' \in [Requests -> Flags]
           /\ rSet' \in [Requests -> SUBSET Fields]
           /\ rEdit' \in [Requests -> Nat]
           /\ rPrev' \in [Requests -> Configs]
           /\ rBefore' \in [Requests -> Configs]
           /\ rVersion' \in [Requests -> Nat]
           /\ rAsOf' \in [Requests -> Nat]
<1>1. "idle" \in Locations /\ {} \in SUBSET Fields /\ 0 \in Nat
  BY DEF Locations
<1>2. QED
  BY <1>1, UnsetType DEF Finish, ControlTypeOK

\* createFlag and its audit entry.
LEMMA CreateType ==
    ASSUME ControlTypeOK, NEW r \in Requests,
           (\E f \in Flags : CreateFlag(r, f)) \/ CreateAudit(r)
    PROVE  ControlTypeOK'
<1>1. ASSUME NEW f \in Flags, CreateFlag(r, f)
      PROVE  ControlTypeOK'
  <2>1. config' \in [Environments -> [Flags -> Configs]]
    BY <1>1, UnsetType DEF CreateFlag, ControlTypeOK
  <2>2. saves' \in [Environments -> Nat]
    BY <1>1 DEF CreateFlag, ControlTypeOK
  <2>3. rpc' \in [Requests -> Locations]
    BY <1>1 DEF CreateFlag, ControlTypeOK, Locations
  <2>4. flags' \subseteq Flags /\ rFlag' \in [Requests -> Flags]
    BY <1>1 DEF CreateFlag, ControlTypeOK
  <2>5. QED
    BY <1>1, <2>1, <2>2, <2>3, <2>4 DEF CreateFlag, ControlTypeOK
<1>2. ASSUME CreateAudit(r)
      PROVE  ControlTypeOK'
  <2>1. Finish(r)
    BY <1>2 DEF CreateAudit
  <2>2. audit \subseteq AuditEntries /\ rFlag[r] \in Flags
    BY DEF ControlTypeOK, AuditEntries
  <2>3. [action |-> "create", flag |-> rFlag[r]] \in AuditEntries
    BY <2>2 DEF AuditEntries
  <2>4. audit' \subseteq AuditEntries
    BY <1>2, <2>2, <2>3 DEF CreateAudit
  <2>5. QED
    BY <1>2, <2>1, <2>4, FinishType DEF CreateAudit, ControlTypeOK, AuditEntries
<1>3. QED
  BY <1>1, <1>2

\* updateFlagConfig: the read, the write and the audit entry.
LEMMA PatchType ==
    ASSUME ControlTypeOK, NEW r \in Requests,
           \/ \E e \in Environments, f \in Flags, set \in SUBSET Fields : PatchRead(r, e, f, set)
           \/ PatchWrite(r)
           \/ PatchAudit(r)
    PROVE  ControlTypeOK'
<1>1. ASSUME NEW e \in Environments, NEW f \in Flags, NEW set \in SUBSET Fields,
             PatchRead(r, e, f, set)
      PROVE  ControlTypeOK'
  <2>1. config[e][f] \in Configs /\ edits + 1 \in Nat /\ "patch" \in Locations
    BY DEF ControlTypeOK, Locations
  <2>2. QED
    BY <1>1, <2>1 DEF PatchRead, ControlTypeOK
<1>2. ASSUME PatchWrite(r)
      PROVE  ControlTypeOK'
  <2> DEFINE e == rEnv[r]
             f == rFlag[r]
             c == [x \in Fields |-> IF x \in rSet[r] THEN rEdit[r] ELSE rPrev[r][x]]
  <2>1. e \in Environments /\ f \in Flags /\ rEdit[r] \in Nat /\ rPrev[r] \in [Fields -> Nat]
    BY DEF ControlTypeOK, Configs
  <2>2. c \in Configs
    BY <2>1 DEF Configs
  <2>3. config' = [config EXCEPT ![e] = [config[e] EXCEPT ![f] = c]]
    BY <1>2 DEF PatchWrite
  <2>4. config[e] \in [Flags -> Configs] /\ config[e][f] \in Configs
    BY <2>1 DEF ControlTypeOK
  <2> HIDE DEF c, e, f
  <2>5. [config[e] EXCEPT ![f] = c] \in [Flags -> Configs]
    BY <2>2, <2>4
  <2>6. config' \in [Environments -> [Flags -> Configs]]
    BY <2>3, <2>5 DEF ControlTypeOK
  <2>7. rBefore' \in [Requests -> Configs] /\ saves' \in [Environments -> Nat]
    BY <1>2, <2>1, <2>4 DEF PatchWrite, ControlTypeOK, e, f
  <2>8. rpc' \in [Requests -> Locations]
    BY <1>2 DEF PatchWrite, ControlTypeOK, Locations
  <2>9. QED
    BY <1>2, <2>6, <2>7, <2>8 DEF PatchWrite, ControlTypeOK
<1>3. ASSUME PatchAudit(r)
      PROVE  ControlTypeOK'
  <2>1. Finish(r)
    BY <1>3 DEF PatchAudit
  <2>2. /\ audit \subseteq AuditEntries /\ rFlag[r] \in Flags /\ rEnv[r] \in Environments
        /\ rPrev[r] \in Configs /\ rBefore[r] \in Configs
    BY DEF ControlTypeOK, AuditEntries
  <2>3. [action |-> "update", env |-> rEnv[r], flag |-> rFlag[r],
         previous |-> rPrev[r], before |-> rBefore[r]] \in AuditEntries
    BY <2>2 DEF AuditEntries
  <2>4. audit' \subseteq AuditEntries
    BY <1>3, <2>2, <2>3 DEF PatchAudit
  <2>5. QED
    BY <1>3, <2>1, <2>4, FinishType DEF PatchAudit, ControlTypeOK, AuditEntries
<1>4. QED
  BY <1>1, <1>2, <1>3

\* publishRuleset and its audit entry.
LEMMA PublishType ==
    ASSUME ControlTypeOK, NEW r \in Requests,
           \/ \E e \in Environments : PublishLock(r, e)
           \/ PublishLoad(r) \/ PublishReject(r) \/ PublishCommit(r) \/ PublishAudit(r)
    PROVE  ControlTypeOK'
<1>1. ASSUME NEW e \in Environments, PublishLock(r, e)
      PROVE  ControlTypeOK'
  <2>1. version[e] + 1 \in Nat /\ "locked" \in Locations /\ r \in Requests \cup {NoRequest}
    BY DEF ControlTypeOK, Locations
  <2>2. QED
    BY <1>1, <2>1 DEF PublishLock, ControlTypeOK
<1>2. ASSUME PublishLoad(r)
      PROVE  ControlTypeOK'
  <2>1. saves[rEnv[r]] \in Nat /\ "loaded" \in Locations
    BY DEF ControlTypeOK, Locations
  <2>2. QED
    BY <1>2, <2>1 DEF PublishLoad, ControlTypeOK, databaseVars
<1>3. ASSUME PublishReject(r)
      PROVE  ControlTypeOK'
  <2>1. Finish(r)
    BY <1>3 DEF PublishReject
  <2>2. rowLock' \in [Environments -> Requests \cup {NoRequest}]
    BY <1>3 DEF PublishReject, ControlTypeOK
  <2>3. QED
    BY <1>3, <2>1, <2>2, FinishType DEF PublishReject, ControlTypeOK
<1>4. ASSUME PublishCommit(r)
      PROVE  ControlTypeOK'
  <2> DEFINE e == rEnv[r]
             row == [version |-> rVersion[r], asOf |-> rAsOf[r]]
  <2>1. e \in Environments /\ rVersion[r] \in Nat /\ rAsOf[r] \in Nat /\ "committed" \in Locations
    BY DEF ControlTypeOK, Locations
  <2>2. row \in Rows /\ snapshots[e] \in Seq(Rows)
    BY <2>1 DEF Rows, ControlTypeOK
  <2>3. Append(snapshots[e], row) \in Seq(Rows)
    BY <2>2
  <2>4. snapshots' = [snapshots EXCEPT ![e] = Append(snapshots[e], row)]
    BY <1>4 DEF PublishCommit
  <2> HIDE DEF row, e
  <2>5. snapshots' \in [Environments -> Seq(Rows)]
    BY <2>3, <2>4 DEF ControlTypeOK, Rows
  <2>6. rowLock' \in [Environments -> Requests \cup {NoRequest}]
    BY <1>4 DEF PublishCommit, ControlTypeOK
  <2>7. version' \in [Environments -> Nat] /\ rpc' \in [Requests -> Locations]
    BY <1>4, <2>1 DEF PublishCommit, ControlTypeOK
  <2>8. QED
    BY <1>4, <2>5, <2>6, <2>7 DEF PublishCommit, ControlTypeOK, Rows
<1>5. ASSUME PublishAudit(r)
      PROVE  ControlTypeOK'
  <2>1. audit \subseteq AuditEntries /\ rEnv[r] \in Environments /\ rVersion[r] \in Nat
    BY DEF ControlTypeOK, AuditEntries
  <2>2. [action |-> "publish", env |-> rEnv[r], version |-> rVersion[r]] \in AuditEntries
    BY <2>1 DEF AuditEntries
  <2>3. audit' \subseteq AuditEntries
    BY <1>5, <2>1, <2>2 DEF PublishAudit
  <2>4. rpc' \in [Requests -> Locations]
    BY <1>5 DEF PublishAudit, ControlTypeOK, Locations
  <2>5. QED
    BY <1>5, <2>3, <2>4 DEF PublishAudit, ControlTypeOK, AuditEntries
<1>6. QED
  BY <1>1, <1>2, <1>3, <1>4, <1>5

\* A failed query and a crash.
LEMMA FailureType ==
    ASSUME ControlTypeOK, (\E r \in Requests : QueryFails(r)) \/ ControlCrash
    PROVE  ControlTypeOK'
<1>1. ASSUME NEW r \in Requests, QueryFails(r)
      PROVE  ControlTypeOK'
  <2>1. Finish(r)
    BY <1>1 DEF QueryFails
  <2>2. rowLock' \in [Environments -> Requests \cup {NoRequest}]
    BY <1>1 DEF QueryFails, ControlTypeOK
  <2>3. QED
    BY <1>1, <2>1, <2>2, FinishType DEF QueryFails, ControlTypeOK
<1>2. ASSUME ControlCrash
      PROVE  ControlTypeOK'
  <2>1. "idle" \in Locations /\ {} \in SUBSET Fields
    BY DEF Locations
  <2>2. QED
    BY <1>2, <2>1, UnsetType DEF ControlCrash, ControlTypeOK
<1>3. QED
  BY <1>1, <1>2

\* Sending the push and answering the publish.
LEMMA PushType ==
    ASSUME PlatformTypeOK, NEW r \in Requests, PushSend(r) \/ PublishReply(r)
    PROVE  PlatformTypeOK'
<1>1. ASSUME PushSend(r)
      PROVE  PlatformTypeOK'
  <2>1. Push(r) \in [env : Environments, version : Nat]
    BY DEF Push, PlatformTypeOK, ControlTypeOK
  <2>2. rpc' \in [Requests -> Locations]
    BY <1>1 DEF PushSend, PlatformTypeOK, ControlTypeOK, Locations
  <2>3. pushes' \subseteq [env : Environments, version : Nat]
    BY <1>1, <2>1 DEF PushSend, PlatformTypeOK
  <2>4. QED
    BY <1>1, <2>2, <2>3
    DEF PushSend, PlatformTypeOK, ControlTypeOK, StoreTypeOK, storeVars, databaseVars
<1>2. ASSUME PublishReply(r)
      PROVE  PlatformTypeOK'
  <2>1. Finish(r)
    BY <1>2 DEF PublishReply
  <2>2. QED
    BY <1>2, <2>1, FinishType
    DEF PublishReply, PlatformTypeOK, ControlTypeOK, StoreTypeOK, storeVars, databaseVars
<1>3. QED
  BY <1>1, <1>2

LEMMA ControlTypeStutter == ControlTypeOK /\ UNCHANGED controlVars => ControlTypeOK'
  BY DEF ControlTypeOK, controlVars, databaseVars, requestVars

LEMMA StoreTypeStutter == StoreTypeOK /\ UNCHANGED storeVars => StoreTypeOK'
  BY DEF StoreTypeOK, storeVars

LEMMA PlatformTypeStutter == PlatformTypeOK /\ UNCHANGED platformVars => PlatformTypeOK'
  BY ControlTypeStutter, StoreTypeStutter DEF PlatformTypeOK, platformVars

\* A push arrives or is lost.
LEMMA ArrivalType ==
    ASSUME PlatformTypeOK, NEW m \in pushes, PushArrives(m) \/ PushLost(m)
    PROVE  PlatformTypeOK'
<1>1. m.env \in Environments /\ m.version \in Nat
  BY DEF PlatformTypeOK
<1>2. ASSUME PushArrives(m)
      PROVE  PlatformTypeOK'
  <2>1. ControlTypeOK'
    BY <1>2, ControlTypeStutter DEF PushArrives, PlatformTypeOK
  <2>2. CASE StorePublish(m.env, m.version)
    <3>1. Retained(history[m.env], m.version) \in Seq(Nat)
      BY <1>1, RetainedType DEF PlatformTypeOK, StoreTypeOK
    <3>2. StoreTypeOK'
      BY <1>1, <2>2, <3>1 DEF StorePublish, PlatformTypeOK, StoreTypeOK
    <3>3. QED
      BY <1>2, <2>1, <3>2 DEF PushArrives, PlatformTypeOK
  <2>3. CASE UNCHANGED storeVars
    BY <1>2, <2>1, <2>3, StoreTypeStutter DEF PushArrives, PlatformTypeOK
  <2>4. QED
    BY <1>2, <2>2, <2>3 DEF PushArrives
<1>3. ASSUME PushLost(m)
      PROVE  PlatformTypeOK'
  BY <1>3, ControlTypeStutter, StoreTypeStutter, PlatformAssumption
  DEF PushLost, Fault, PlatformTypeOK
<1>4. QED
  BY <1>2, <1>3

LEMMA PlatformInitType == PlatformInit => PlatformTypeOK
<1> SUFFICES ASSUME PlatformInit
             PROVE  PlatformTypeOK
  OBVIOUS
<1> DEFINE e0 == CHOOSE e \in Environments : TRUE
           f0 == CHOOSE f \in Flags : TRUE
<1>1. e0 \in Environments
  BY EnvironmentsAssumption, Zenon
<1>2. f0 \in Flags
  BY FlagsAssumption, Zenon
<1>3. rEnv = [r \in Requests |-> e0] /\ rFlag = [r \in Requests |-> f0]
  BY DEF PlatformInit, ControlInit
<1> HIDE DEF e0, f0
<1>4. rEnv \in [Requests -> Environments] /\ rFlag \in [Requests -> Flags]
  BY <1>1, <1>2, <1>3
<1>5. snapshots \in [Environments -> Seq(Rows)]
  BY DEF PlatformInit, ControlInit
<1>6. ControlTypeOK
  BY <1>4, <1>5, UnsetType DEF PlatformInit, ControlInit, ControlTypeOK, Locations, Rows
<1>7. StoreTypeOK
  BY DEF PlatformInit, StoreInit, StoreTypeOK
<1>8. QED
  BY <1>6, <1>7, PlatformAssumption DEF PlatformInit, PlatformTypeOK

LEMMA PlatformStepType ==
    ASSUME PlatformTypeOK, [PlatformNext]_platformVars
    PROVE  PlatformTypeOK'
<1>1. ASSUME NEW r \in Requests, ControlStep(r)
      PROVE  PlatformTypeOK'
  <2>1. ControlTypeOK'
    <3>1. ControlTypeOK
      BY DEF PlatformTypeOK
    <3>2. QED
      BY <1>1, <3>1, CreateType, PatchType, PublishType DEF ControlStep
  <2>2. QED
    BY <1>1, <2>1, StoreTypeStutter DEF ControlStep, PlatformTypeOK
<1>2. ASSUME NEW r \in Requests, PushSend(r) \/ PublishReply(r)
      PROVE  PlatformTypeOK'
  BY <1>2, PushType
<1>3. ASSUME NEW r \in Requests, ControlFails(r)
      PROVE  PlatformTypeOK'
  <2>1. ControlTypeOK'
    BY <1>3, FailureType DEF ControlFails, PlatformTypeOK
  <2>2. QED
    BY <1>3, <2>1, StoreTypeStutter, PlatformAssumption DEF ControlFails, Fault, PlatformTypeOK
<1>4. ASSUME NEW m \in pushes, PushArrives(m) \/ PushLost(m)
      PROVE  PlatformTypeOK'
  BY <1>4, ArrivalType
<1>5. ASSUME NEW e \in Environments, DataPlaneRestart(e)
      PROVE  PlatformTypeOK'
  <2>1. ControlTypeOK'
    BY <1>5, ControlTypeStutter DEF DataPlaneRestart, PlatformTypeOK
  <2>2. StoreTypeOK'
    BY <1>5 DEF DataPlaneRestart, StoreTypeOK
  <2>3. QED
    BY <1>5, <2>1, <2>2, PlatformAssumption DEF DataPlaneRestart, Fault, PlatformTypeOK
<1>6. ASSUME ControlPlaneCrash
      PROVE  PlatformTypeOK'
  <2>1. ControlTypeOK'
    BY <1>6, FailureType DEF ControlPlaneCrash, PlatformTypeOK
  <2>2. QED
    BY <1>6, <2>1, StoreTypeStutter, PlatformAssumption DEF ControlPlaneCrash, Fault, PlatformTypeOK
<1>7. QED
  BY <1>1, <1>2, <1>3, <1>4, <1>5, <1>6, PlatformTypeStutter DEF PlatformNext

\* Type correctness of the platform: whatever fails, every row, lock, local, audit
\* entry and push in transit is one the code can have written.
THEOREM PlatformTypeCorrect == PlatformSpec => []PlatformTypeOK
<1>1. PlatformTypeOK /\ [PlatformNext]_platformVars => PlatformTypeOK'
  BY PlatformStepType
<1>2. QED
  BY <1>1, PlatformInitType, PTL DEF PlatformSpec

-----------------------------------------------------------------------------
(* The publish invariant.                                                  *)

Publishing == {"locked", "loaded", "committed", "audited", "pushing"}
PushesAreAudited ==
    \A m \in pushes : m.version \in 1..version[m.env] /\ Entry(m.env, m.version) \in audit

LEMMA TypesOfSaves == PlatformTypeOK => saves \in [Environments -> Nat]
  BY DEF PlatformTypeOK, ControlTypeOK

LEMMA SnapshotRows ==
    ASSUME PlatformTypeOK, NEW e \in Environments
    PROVE  /\ snapshots[e] \in Seq(Rows) /\ Len(snapshots[e]) \in Nat
           /\ \A i \in 1..Len(snapshots[e]) :
                snapshots[e][i].version \in Nat /\ snapshots[e][i].asOf \in Nat
<1>1. snapshots[e] \in Seq(Rows)
  BY DEF PlatformTypeOK, ControlTypeOK, Rows
<1>2. \A i \in 1..Len(snapshots[e]) : snapshots[e][i] \in Rows
  BY <1>1
<1>3. QED
  BY <1>1, <1>2 DEF Rows

\* A step in which no request enters or moves within a publish: it may save
\* configurations, write audit entries, release rows of requests that leave, lose
\* pushes and restart the store, and keeps the invariant.
LEMMA QuietStep ==
    ASSUME PlatformTypeOK, PublishInv, saves' \in [Environments -> Nat],
           version' = version, snapshots' = snapshots, audit \subseteq audit',
           pushes' \subseteq pushes,
           \A e \in Environments : accepted'[e] \subseteq accepted[e],
           \A e \in Environments : saves[e] <= saves'[e],
           \A q \in Requests : rpc'[q] \in Publishing =>
               /\ rpc'[q] = rpc[q] /\ rEnv'[q] = rEnv[q] /\ rVersion'[q] = rVersion[q]
               /\ rAsOf'[q] = rAsOf[q]
               /\ rowLock[rEnv[q]] = q => rowLock'[rEnv[q]] = q
    PROVE  PublishInv'
<1>1. VersionsAreSnapshots' /\ SnapshotsInOrder'
  BY DEF PublishInv, VersionsAreSnapshots, SnapshotsInOrder
<1>2. ServedIsAudited'
  BY DEF PublishInv, ServedIsAudited, Entry
<1>3. PushesAreAudited'
  BY DEF PublishInv, PushesAreAudited, Entry
<1>4. HoldersTakeNext'
  <2> SUFFICES ASSUME NEW r \in Requests, rpc'[r] \in {"locked", "loaded"}
               PROVE  rowLock'[rEnv'[r]] = r /\ rVersion'[r] = version'[rEnv'[r]] + 1
    BY DEF HoldersTakeNext
  <2>1. rpc'[r] \in Publishing
    BY DEF Publishing
  <2>2. rowLock[rEnv[r]] = r /\ rVersion[r] = version[rEnv[r]] + 1
    BY <2>1 DEF PublishInv, HoldersTakeNext
  <2>3. QED
    BY <2>1, <2>2
<1>5. LoadedIsLatest'
  <2>1. ASSUME NEW e \in Environments, NEW i \in 1..Len(snapshots[e])
        PROVE  snapshots[e][i].asOf <= saves'[e]
    <3>1. snapshots[e][i].asOf \in Nat /\ saves[e] \in Nat /\ saves'[e] \in Nat
      BY SnapshotRows, TypesOfSaves
    <3>2. snapshots[e][i].asOf <= saves[e] /\ saves[e] <= saves'[e]
      BY DEF PublishInv, LoadedIsLatest
    <3>3. QED
      BY <3>1, <3>2
  <2>2. ASSUME NEW r \in Requests, rpc'[r] = "loaded"
        PROVE  /\ rAsOf'[r] <= saves'[rEnv'[r]]
               /\ \A i \in 1..Len(snapshots[rEnv'[r]]) : snapshots[rEnv'[r]][i].asOf <= rAsOf'[r]
    <3>1. rpc'[r] \in Publishing
      BY <2>2 DEF Publishing
    <3>2. rpc[r] = "loaded" /\ rEnv'[r] = rEnv[r] /\ rAsOf'[r] = rAsOf[r]
      BY <2>2, <3>1
    <3>3. /\ rAsOf[r] <= saves[rEnv[r]]
          /\ \A i \in 1..Len(snapshots[rEnv[r]]) : snapshots[rEnv[r]][i].asOf <= rAsOf[r]
      BY <3>2 DEF PublishInv, LoadedIsLatest
    <3>4. rEnv[r] \in Environments /\ rAsOf[r] \in Nat
      BY DEF PlatformTypeOK, ControlTypeOK
    <3>5. saves[rEnv[r]] <= saves'[rEnv[r]] /\ saves[rEnv[r]] \in Nat /\ saves'[rEnv[r]] \in Nat
      BY <3>4 DEF PlatformTypeOK, ControlTypeOK
    <3>6. QED
      BY <3>2, <3>3, <3>4, <3>5
  <2>3. QED
    BY <2>1, <2>2 DEF LoadedIsLatest
<1>6. CommittedIsKept'
  <2> SUFFICES ASSUME NEW r \in Requests
               PROVE  /\ rpc'[r] \in {"committed", "audited", "pushing"} =>
                           rVersion'[r] \in 1..version'[rEnv'[r]]
                      /\ rpc'[r] \in {"audited", "pushing"} =>
                           Entry(rEnv'[r], rVersion'[r]) \in audit'
    BY DEF CommittedIsKept, Entry
  <2>1. CASE rpc'[r] \in {"committed", "audited", "pushing"}
    <3>1. rpc'[r] \in Publishing
      BY <2>1 DEF Publishing
    <3>2. rpc'[r] = rpc[r] /\ rEnv'[r] = rEnv[r] /\ rVersion'[r] = rVersion[r]
      BY <3>1
    <3>3. /\ rVersion[r] \in 1..version[rEnv[r]]
          /\ rpc[r] \in {"audited", "pushing"} => Entry(rEnv[r], rVersion[r]) \in audit
      BY <2>1, <3>2 DEF PublishInv, CommittedIsKept
    <3>4. QED
      BY <3>2, <3>3
  <2>2. QED
    BY <2>1
<1>7. QED
  BY <1>1, <1>2, <1>3, <1>4, <1>5, <1>6 DEF PublishInv, PushesAreAudited

\* A request that is answered or abandoned is no longer publishing, and the others
\* are where they were.
LEMMA FinishLeaves ==
    ASSUME PlatformTypeOK, NEW r \in Requests, Finish(r), NEW q \in Requests,
           rpc'[q] \in Publishing
    PROVE  /\ q # r
           /\ rpc'[q] = rpc[q] /\ rEnv'[q] = rEnv[q] /\ rVersion'[q] = rVersion[q]
           /\ rAsOf'[q] = rAsOf[q]
<1>1. rpc' = [rpc EXCEPT ![r] = "idle"]
  BY DEF Finish
<1>2. q # r
  BY <1>1 DEF Publishing, PlatformTypeOK, ControlTypeOK
<1>3. QED
  BY <1>1, <1>2 DEF Finish, PlatformTypeOK, ControlTypeOK

\* Flags are created and edited, and a publish is rejected.
LEMMA EditKeeps ==
    ASSUME PlatformTypeOK, PublishInv, NEW r \in Requests, UNCHANGED <<storeVars, pushes>>,
           \/ \E f \in Flags : CreateFlag(r, f)
           \/ CreateAudit(r)
           \/ \E e \in Environments, f \in Flags, set \in SUBSET Fields : PatchRead(r, e, f, set)
           \/ PatchWrite(r) \/ PatchAudit(r) \/ PublishReject(r)
    PROVE  PublishInv'
<1>1. accepted' = accepted /\ pushes' = pushes
  BY DEF storeVars
<1>2. ASSUME NEW f \in Flags, CreateFlag(r, f)
      PROVE  PublishInv'
  <2>1. saves' \in [Environments -> Nat] /\ \A e \in Environments : saves[e] <= saves'[e]
    BY <1>2, TypesOfSaves DEF CreateFlag
  <2>2. ASSUME NEW q \in Requests, rpc'[q] \in Publishing
        PROVE  /\ rpc'[q] = rpc[q] /\ rEnv'[q] = rEnv[q] /\ rVersion'[q] = rVersion[q]
               /\ rAsOf'[q] = rAsOf[q] /\ rowLock' = rowLock
    BY <1>2, <2>2 DEF CreateFlag, Publishing, PlatformTypeOK, ControlTypeOK
  <2>3. version' = version /\ snapshots' = snapshots /\ audit' = audit
    BY <1>2 DEF CreateFlag
  <2>4. QED
    BY <1>1, <2>1, <2>2, <2>3, QuietStep
<1>3. ASSUME NEW e \in Environments, NEW f \in Flags, NEW set \in SUBSET Fields,
             PatchRead(r, e, f, set)
      PROVE  PublishInv'
  <2>1. saves' \in [Environments -> Nat] /\ \A x \in Environments : saves[x] <= saves'[x]
    BY <1>3, TypesOfSaves DEF PatchRead
  <2>2. ASSUME NEW q \in Requests, rpc'[q] \in Publishing
        PROVE  /\ rpc'[q] = rpc[q] /\ rEnv'[q] = rEnv[q] /\ rVersion'[q] = rVersion[q]
               /\ rAsOf'[q] = rAsOf[q] /\ rowLock' = rowLock
    BY <1>3, <2>2 DEF PatchRead, Publishing, PlatformTypeOK, ControlTypeOK
  <2>3. version' = version /\ snapshots' = snapshots /\ audit' = audit
    BY <1>3 DEF PatchRead
  <2>4. QED
    BY <1>1, <2>1, <2>2, <2>3, QuietStep
<1>4. ASSUME PatchWrite(r)
      PROVE  PublishInv'
  <2>1. saves' \in [Environments -> Nat] /\ \A x \in Environments : saves[x] <= saves'[x]
    BY <1>4, TypesOfSaves DEF PatchWrite, PlatformTypeOK, ControlTypeOK
  <2>2. ASSUME NEW q \in Requests, rpc'[q] \in Publishing
        PROVE  /\ rpc'[q] = rpc[q] /\ rEnv'[q] = rEnv[q] /\ rVersion'[q] = rVersion[q]
               /\ rAsOf'[q] = rAsOf[q] /\ rowLock' = rowLock
    BY <1>4, <2>2 DEF PatchWrite, Publishing, PlatformTypeOK, ControlTypeOK
  <2>3. version' = version /\ snapshots' = snapshots /\ audit' = audit
    BY <1>4 DEF PatchWrite
  <2>4. QED
    BY <1>1, <2>1, <2>2, <2>3, QuietStep
<1>5. ASSUME CreateAudit(r) \/ PatchAudit(r)
      PROVE  PublishInv'
  <2>1. /\ Finish(r) /\ saves' = saves /\ rowLock' = rowLock
        /\ version' = version /\ snapshots' = snapshots /\ audit \subseteq audit'
    BY <1>5 DEF CreateAudit, PatchAudit
  <2>2. saves' \in [Environments -> Nat] /\ \A x \in Environments : saves[x] <= saves'[x]
    BY <2>1, TypesOfSaves
  <2>3. QED
    BY <1>1, <2>1, <2>2, FinishLeaves, QuietStep
<1>6. ASSUME PublishReject(r)
      PROVE  PublishInv'
  <2>1. /\ Finish(r) /\ saves' = saves /\ rowLock' = [rowLock EXCEPT ![rEnv[r]] = NoRequest]
        /\ version' = version /\ snapshots' = snapshots /\ audit' = audit
        /\ rpc[r] = "locked"
    BY <1>6 DEF PublishReject
  <2>2. saves' \in [Environments -> Nat] /\ \A x \in Environments : saves[x] <= saves'[x]
    BY <2>1, TypesOfSaves
  <2>3. rowLock[rEnv[r]] = r
    BY <2>1 DEF PublishInv, HoldersTakeNext
  <2>4. ASSUME NEW q \in Requests, q # r, rowLock[rEnv[q]] = q
        PROVE  rowLock'[rEnv[q]] = q
    <3>1. rEnv[q] # rEnv[r]
      BY <2>3, <2>4
    <3>2. QED
      BY <2>1, <2>4, <3>1 DEF PlatformTypeOK, ControlTypeOK
  <2>5. QED
    BY <1>1, <2>1, <2>2, <2>4, FinishLeaves, QuietStep
<1>7. QED
  BY <1>2, <1>3, <1>4, <1>5, <1>6

\* A publish begins: it takes the row and the number after the last.
LEMMA LockKeeps ==
    ASSUME PlatformTypeOK, PublishInv, NEW r \in Requests, NEW e \in Environments,
           UNCHANGED <<storeVars, pushes>>, PublishLock(r, e)
    PROVE  PublishInv'
<1>1. /\ accepted' = accepted /\ pushes' = pushes /\ version' = version
      /\ snapshots' = snapshots /\ audit' = audit /\ saves' = saves
      /\ rAsOf' = rAsOf /\ rowLock[e] = NoRequest
      /\ rowLock' = [rowLock EXCEPT ![e] = r]
      /\ rpc' = [rpc EXCEPT ![r] = "locked"]
      /\ rEnv' = [rEnv EXCEPT ![r] = e]
      /\ rVersion' = [rVersion EXCEPT ![r] = version[e] + 1]
  BY DEF PublishLock, storeVars
<1>2. /\ rpc'[r] = "locked" /\ rEnv'[r] = e /\ rVersion'[r] = version[e] + 1
      /\ rowLock'[e] = r
  BY <1>1 DEF PlatformTypeOK, ControlTypeOK
<1>3. ASSUME NEW q \in Requests, q # r
      PROVE  rpc'[q] = rpc[q] /\ rEnv'[q] = rEnv[q] /\ rVersion'[q] = rVersion[q]
  BY <1>1, <1>3 DEF PlatformTypeOK, ControlTypeOK
<1>4. /\ VersionsAreSnapshots' /\ SnapshotsInOrder' /\ ServedIsAudited' /\ PushesAreAudited'
  BY <1>1 DEF PublishInv, VersionsAreSnapshots, SnapshotsInOrder, ServedIsAudited,
              PushesAreAudited, Entry
<1>5. HoldersTakeNext'
  <2> SUFFICES ASSUME NEW q \in Requests, rpc'[q] \in {"locked", "loaded"}
               PROVE  rowLock'[rEnv'[q]] = q /\ rVersion'[q] = version'[rEnv'[q]] + 1
    BY DEF HoldersTakeNext
  <2>1. CASE q = r
    BY <1>1, <1>2, <2>1
  <2>2. CASE q # r
    <3>1. rpc[q] \in {"locked", "loaded"}
      BY <1>3, <2>2
    <3>2. rowLock[rEnv[q]] = q /\ rVersion[q] = version[rEnv[q]] + 1
      BY <3>1 DEF PublishInv, HoldersTakeNext
    <3>3. rEnv[q] # e /\ rEnv[q] \in Environments
      BY <1>1, <3>2, NoRequestAssumption DEF PlatformTypeOK, ControlTypeOK
    <3>4. rowLock'[rEnv[q]] = q
      BY <1>1, <3>2, <3>3 DEF PlatformTypeOK, ControlTypeOK
    <3>5. QED
      BY <1>1, <1>3, <2>2, <3>2, <3>4
  <2>3. QED
    BY <2>1, <2>2
<1>6. LoadedIsLatest'
  <2>1. ASSUME NEW q \in Requests, rpc'[q] = "loaded"
        PROVE  rpc[q] = "loaded" /\ rEnv'[q] = rEnv[q]
    BY <1>2, <1>3, <2>1
  <2>2. QED
    BY <1>1, <2>1 DEF PublishInv, LoadedIsLatest
<1>7. CommittedIsKept'
  <2>1. ASSUME NEW q \in Requests, rpc'[q] \in {"committed", "audited", "pushing"}
        PROVE  rpc'[q] = rpc[q] /\ rEnv'[q] = rEnv[q] /\ rVersion'[q] = rVersion[q]
    BY <1>2, <1>3, <2>1
  <2>2. QED
    BY <1>1, <2>1 DEF PublishInv, CommittedIsKept, Entry
<1>8. QED
  BY <1>4, <1>5, <1>6, <1>7 DEF PublishInv, PushesAreAudited

\* A publish compiles from what is saved now, which no committed snapshot is ahead of.
LEMMA LoadKeeps ==
    ASSUME PlatformTypeOK, PublishInv, NEW r \in Requests,
           UNCHANGED <<storeVars, pushes>>, PublishLoad(r)
    PROVE  PublishInv'
<1>1. /\ accepted' = accepted /\ pushes' = pushes /\ version' = version
      /\ snapshots' = snapshots /\ audit' = audit /\ saves' = saves
      /\ rowLock' = rowLock /\ rEnv' = rEnv /\ rVersion' = rVersion
      /\ rpc[r] = "locked"
      /\ rAsOf' = [rAsOf EXCEPT ![r] = saves[rEnv[r]]]
      /\ rpc' = [rpc EXCEPT ![r] = "loaded"]
  BY DEF PublishLoad, storeVars, databaseVars
<1>2. rpc'[r] = "loaded" /\ rAsOf'[r] = saves[rEnv[r]]
  BY <1>1 DEF PlatformTypeOK, ControlTypeOK
<1>3. ASSUME NEW q \in Requests, q # r
      PROVE  rpc'[q] = rpc[q] /\ rAsOf'[q] = rAsOf[q]
  BY <1>1, <1>3 DEF PlatformTypeOK, ControlTypeOK
<1>4. /\ VersionsAreSnapshots' /\ SnapshotsInOrder' /\ ServedIsAudited' /\ PushesAreAudited'
  BY <1>1 DEF PublishInv, VersionsAreSnapshots, SnapshotsInOrder, ServedIsAudited,
              PushesAreAudited, Entry
<1>5. HoldersTakeNext'
  <2>1. ASSUME NEW q \in Requests, rpc'[q] \in {"locked", "loaded"}
        PROVE  rpc[q] \in {"locked", "loaded"}
    BY <1>1, <1>3, <2>1
  <2>2. QED
    BY <1>1, <2>1 DEF PublishInv, HoldersTakeNext
<1>6. LoadedIsLatest'
  <2>1. ASSUME NEW q \in Requests, rpc'[q] = "loaded"
        PROVE  /\ rAsOf'[q] <= saves[rEnv[q]]
               /\ \A i \in 1..Len(snapshots[rEnv[q]]) : snapshots[rEnv[q]][i].asOf <= rAsOf'[q]
    <3>1. CASE q = r
      <4>1. rEnv[r] \in Environments /\ saves[rEnv[r]] \in Nat
        BY DEF PlatformTypeOK, ControlTypeOK
      <4>2. QED
        BY <1>2, <3>1, <4>1 DEF PublishInv, LoadedIsLatest
    <3>2. CASE q # r
      <4>1. rpc[q] = "loaded" /\ rAsOf'[q] = rAsOf[q]
        BY <1>3, <2>1, <3>2
      <4>2. QED
        BY <4>1 DEF PublishInv, LoadedIsLatest
    <3>3. QED
      BY <3>1, <3>2
  <2>2. QED
    BY <1>1, <2>1 DEF PublishInv, LoadedIsLatest
<1>7. CommittedIsKept'
  <2>1. ASSUME NEW q \in Requests, rpc'[q] \in {"committed", "audited", "pushing"}
        PROVE  rpc'[q] = rpc[q]
    BY <1>2, <1>3, <2>1
  <2>2. QED
    BY <1>1, <2>1 DEF PublishInv, CommittedIsKept, Entry
<1>8. QED
  BY <1>4, <1>5, <1>6, <1>7 DEF PublishInv, PushesAreAudited

\* A snapshot inserted with the next number, compiled from configurations no older
\* than any before it, continues the numbering and the order.
LEMMA AppendRow ==
    ASSUME NEW s \in Seq(Rows), NEW a \in Nat,
           \A i \in 1..Len(s) : s[i].version = i,
           \A i, j \in 1..Len(s) : i <= j => s[i].asOf <= s[j].asOf,
           \A i \in 1..Len(s) : s[i].asOf <= a,
           NEW t, t = Append(s, [version |-> Len(s) + 1, asOf |-> a])
    PROVE  /\ Len(t) = Len(s) + 1
           /\ \A i \in 1..Len(t) : t[i].version = i
           /\ \A i, j \in 1..Len(t) : i <= j => t[i].asOf <= t[j].asOf
           /\ \A i \in 1..Len(t) : t[i].asOf <= a
<1> DEFINE row == [version |-> Len(s) + 1, asOf |-> a]
<1>1. row \in Rows /\ row.version = Len(s) + 1 /\ row.asOf = a
  BY DEF Rows
<1> HIDE DEF row
<1>2. t = Append(s, row)
  BY DEF row
<1>3. /\ Len(t) = Len(s) + 1 /\ Len(s) \in Nat /\ t[Len(s) + 1] = row
      /\ \A i \in 1..Len(s) : t[i] = s[i]
  BY <1>1, <1>2
<1>4. \A i \in 1..Len(t) : i \in 1..Len(s) \/ i = Len(s) + 1
  BY <1>3
<1>5. \A i \in 1..Len(t) : t[i].version = i
  BY <1>1, <1>3, <1>4
<1>6. \A i \in 1..Len(t) : t[i].asOf <= a
  BY <1>1, <1>3, <1>4
<1>7. ASSUME NEW i \in 1..Len(t), NEW j \in 1..Len(t), i <= j
      PROVE  t[i].asOf <= t[j].asOf
  <2>1. CASE j = Len(s) + 1
    BY <1>1, <1>3, <1>6, <2>1
  <2>2. CASE j \in 1..Len(s)
    <3>1. i \in 1..Len(s)
      BY <1>7, <2>2, <1>3
    <3>2. QED
      BY <1>3, <1>7, <2>2, <3>1
  <2>3. QED
    BY <1>4, <2>1, <2>2
<1>8. QED
  BY <1>3, <1>5, <1>6, <1>7

\* COMMIT: the number and the snapshot appear together, and the row is released.
LEMMA CommitKeeps ==
    ASSUME PlatformTypeOK, PublishInv, NEW r \in Requests,
           UNCHANGED <<storeVars, pushes>>, PublishCommit(r)
    PROVE  PublishInv'
<1> DEFINE e == rEnv[r]
           t == Append(snapshots[e], [version |-> Len(snapshots[e]) + 1, asOf |-> rAsOf[r]])
<1>1. /\ rpc[r] = "loaded" /\ rowLock[e] = r /\ rVersion[r] = version[e] + 1
      /\ version[e] = Len(snapshots[e]) /\ e \in Environments
      /\ rAsOf[r] \in Nat /\ rAsOf[r] <= saves[e] /\ version[e] \in Nat /\ saves[e] \in Nat
  BY DEF PublishCommit, PublishInv, HoldersTakeNext, LoadedIsLatest, VersionsAreSnapshots,
         PlatformTypeOK, ControlTypeOK
<1>2. /\ version' = [version EXCEPT ![e] = version[e] + 1]
      /\ snapshots' = [snapshots EXCEPT ![e] = t]
      /\ rowLock' = [rowLock EXCEPT ![e] = NoRequest]
      /\ rpc' = [rpc EXCEPT ![r] = "committed"]
      /\ accepted' = accepted /\ pushes' = pushes /\ audit' = audit /\ saves' = saves
      /\ rEnv' = rEnv /\ rVersion' = rVersion /\ rAsOf' = rAsOf
  BY <1>1 DEF PublishCommit, storeVars
<1>3. /\ Len(t) = Len(snapshots[e]) + 1
      /\ \A i \in 1..Len(t) : t[i].version = i
      /\ \A i, j \in 1..Len(t) : i <= j => t[i].asOf <= t[j].asOf
      /\ \A i \in 1..Len(t) : t[i].asOf <= rAsOf[r]
  <2>1. snapshots[e] \in Seq(Rows)
    BY <1>1, SnapshotRows
  <2>2. \A i \in 1..Len(snapshots[e]) : snapshots[e][i].version = i
    BY <1>1 DEF PublishInv, VersionsAreSnapshots
  <2>3. \A i, j \in 1..Len(snapshots[e]) : i <= j => snapshots[e][i].asOf <= snapshots[e][j].asOf
    BY <1>1 DEF PublishInv, SnapshotsInOrder
  <2>4. \A i \in 1..Len(snapshots[e]) : snapshots[e][i].asOf <= rAsOf[r]
    BY <1>1 DEF PublishInv, LoadedIsLatest
  <2>5. QED
    BY <1>1, <2>1, <2>2, <2>3, <2>4, AppendRow
<1>4. \A i \in 1..Len(t) : t[i].asOf <= saves[e]
  <2>1. ASSUME NEW i \in 1..Len(t)
        PROVE  t[i].asOf \in Nat
    <3>1. t \in Seq(Rows)
      BY <1>1, SnapshotRows DEF Rows
    <3>2. t[i] \in Rows
      BY <3>1
    <3>3. QED
      BY <3>2 DEF Rows
  <2>2. QED
    BY <1>1, <1>3, <2>1
<1> HIDE DEF t, e
<1>5. version'[e] = version[e] + 1 /\ snapshots'[e] = t /\ rpc'[r] = "committed"
  BY <1>1, <1>2 DEF PlatformTypeOK, ControlTypeOK
<1>6. ASSUME NEW x \in Environments, x # e
      PROVE  version'[x] = version[x] /\ snapshots'[x] = snapshots[x] /\ rowLock'[x] = rowLock[x]
  BY <1>2, <1>6 DEF PlatformTypeOK, ControlTypeOK
<1>7. ASSUME NEW q \in Requests, q # r
      PROVE  rpc'[q] = rpc[q]
  BY <1>2, <1>7 DEF PlatformTypeOK, ControlTypeOK
<1>8. ASSUME NEW x \in Environments
      PROVE  1..version[x] \subseteq 1..version'[x]
  <2>1. version[x] \in Nat /\ version'[x] \in {version[x], version[x] + 1}
    BY <1>5, <1>6 DEF PlatformTypeOK, ControlTypeOK
  <2>2. QED
    BY <2>1
<1>9. VersionsAreSnapshots'
  <2> SUFFICES ASSUME NEW x \in Environments
               PROVE  /\ version'[x] = Len(snapshots'[x])
                      /\ \A i \in 1..Len(snapshots'[x]) : snapshots'[x][i].version = i
    BY DEF VersionsAreSnapshots
  <2>1. CASE x = e
    BY <1>1, <1>3, <1>5, <2>1
  <2>2. CASE x # e
    BY <1>6, <2>2 DEF PublishInv, VersionsAreSnapshots
  <2>3. QED
    BY <2>1, <2>2
<1>10. SnapshotsInOrder'
  <2> SUFFICES ASSUME NEW x \in Environments, NEW i \in 1..Len(snapshots'[x]),
                      NEW j \in 1..Len(snapshots'[x]), i <= j
               PROVE  snapshots'[x][i].asOf <= snapshots'[x][j].asOf
    BY DEF SnapshotsInOrder
  <2>1. CASE x = e
    BY <1>3, <1>5, <2>1
  <2>2. CASE x # e
    BY <1>6, <2>2 DEF PublishInv, SnapshotsInOrder
  <2>3. QED
    BY <2>1, <2>2
<1>11. ServedIsAudited'
  BY <1>2, <1>8 DEF PublishInv, ServedIsAudited, Entry
<1>12. PushesAreAudited'
  <2>1. ASSUME NEW m \in pushes
        PROVE  m.version \in 1..version'[m.env] /\ Entry(m.env, m.version) \in audit
    <3>1. m.env \in Environments
      BY DEF PlatformTypeOK
    <3>2. QED
      BY <1>8, <3>1 DEF PublishInv
  <2>2. QED
    BY <1>2, <2>1 DEF PushesAreAudited, Entry
<1>13. ASSUME NEW q \in Requests, rpc'[q] \in {"locked", "loaded"}
       PROVE  /\ rpc'[q] = rpc[q] /\ rEnv[q] \in Environments /\ rEnv[q] # e
  <2>1. q # r
    BY <1>5, <1>13
  <2>2. rpc'[q] = rpc[q]
    BY <1>7, <2>1
  <2>3. rowLock[rEnv[q]] = q
    BY <1>13, <2>2 DEF PublishInv, HoldersTakeNext
  <2>4. QED
    BY <1>1, <2>1, <2>2, <2>3 DEF PlatformTypeOK, ControlTypeOK
<1>14. HoldersTakeNext'
  <2> SUFFICES ASSUME NEW q \in Requests, rpc'[q] \in {"locked", "loaded"}
               PROVE  rowLock'[rEnv'[q]] = q /\ rVersion'[q] = version'[rEnv'[q]] + 1
    BY DEF HoldersTakeNext
  <2>1. rowLock[rEnv[q]] = q /\ rVersion[q] = version[rEnv[q]] + 1
    BY <1>13 DEF PublishInv, HoldersTakeNext
  <2>2. QED
    BY <1>2, <1>6, <1>13, <2>1
<1>15. LoadedIsLatest'
  <2>1. ASSUME NEW x \in Environments, NEW i \in 1..Len(snapshots'[x])
        PROVE  snapshots'[x][i].asOf <= saves[x]
    <3>1. CASE x = e
      BY <1>4, <1>5, <3>1
    <3>2. CASE x # e
      BY <1>6, <3>2 DEF PublishInv, LoadedIsLatest
    <3>3. QED
      BY <3>1, <3>2
  <2>2. ASSUME NEW q \in Requests, rpc'[q] = "loaded"
        PROVE  /\ rAsOf[q] <= saves[rEnv[q]]
               /\ \A i \in 1..Len(snapshots'[rEnv[q]]) : snapshots'[rEnv[q]][i].asOf <= rAsOf[q]
    <3>1. rpc[q] = "loaded" /\ snapshots'[rEnv[q]] = snapshots[rEnv[q]]
      BY <1>6, <1>13, <2>2
    <3>2. QED
      BY <3>1 DEF PublishInv, LoadedIsLatest
  <2>3. QED
    BY <1>2, <2>1, <2>2 DEF LoadedIsLatest
<1>16. CommittedIsKept'
  <2> SUFFICES ASSUME NEW q \in Requests
               PROVE  /\ rpc'[q] \in {"committed", "audited", "pushing"} =>
                           rVersion[q] \in 1..version'[rEnv[q]]
                      /\ rpc'[q] \in {"audited", "pushing"} => Entry(rEnv[q], rVersion[q]) \in audit
    BY <1>2 DEF CommittedIsKept, Entry
  <2>1. CASE q = r
    <3>1. rVersion[r] \in 1..version'[e]
      BY <1>1, <1>5
    <3>2. QED
      BY <1>5, <2>1, <3>1 DEF e
  <2>2. CASE q # r
    <3>1. rpc'[q] = rpc[q] /\ rEnv[q] \in Environments
      BY <1>7, <2>2 DEF PlatformTypeOK, ControlTypeOK
    <3>2. QED
      BY <1>8, <3>1 DEF PublishInv, CommittedIsKept
  <2>3. QED
    BY <2>1, <2>2
<1>17. QED
  BY <1>9, <1>10, <1>11, <1>12, <1>14, <1>15, <1>16 DEF PublishInv, PushesAreAudited

\* The audit entry, and the push that follows it: both only move the publish on.
LEMMA AuditKeeps ==
    ASSUME PlatformTypeOK, PublishInv, NEW r \in Requests,
           \/ PublishAudit(r) /\ UNCHANGED <<storeVars, pushes>>
           \/ PushSend(r)
    PROVE  PublishInv'
<1>1. /\ version' = version /\ snapshots' = snapshots /\ saves' = saves /\ rowLock' = rowLock
      /\ rEnv' = rEnv /\ rVersion' = rVersion /\ rAsOf' = rAsOf /\ accepted' = accepted
      /\ audit \subseteq audit' /\ rpc[r] \in {"committed", "audited"}
  BY DEF PublishAudit, PushSend, storeVars, databaseVars
<1>2. Entry(rEnv[r], rVersion[r]) \in audit'
  <2>1. CASE PublishAudit(r)
    BY <2>1 DEF PublishAudit, Entry
  <2>2. CASE PushSend(r)
    BY <1>1, <2>2 DEF PushSend, PublishInv, CommittedIsKept
  <2>3. QED
    BY <2>1, <2>2
<1>3. rVersion[r] \in 1..version[rEnv[r]]
  BY <1>1 DEF PublishInv, CommittedIsKept
<1>4. rpc'[r] \in {"audited", "pushing"} /\ \A q \in Requests : q # r => rpc'[q] = rpc[q]
  <2>1. CASE PublishAudit(r)
    BY <2>1 DEF PublishAudit, PlatformTypeOK, ControlTypeOK
  <2>2. CASE PushSend(r)
    BY <2>2 DEF PushSend, PlatformTypeOK, ControlTypeOK
  <2>3. QED
    BY <2>1, <2>2
<1>5. pushes' \subseteq pushes \cup {Push(r)}
  BY DEF PublishAudit, PushSend
<1>6. VersionsAreSnapshots' /\ SnapshotsInOrder' /\ ServedIsAudited'
  BY <1>1 DEF PublishInv, VersionsAreSnapshots, SnapshotsInOrder, ServedIsAudited, Entry
<1>7. PushesAreAudited'
  <2>1. ASSUME NEW m \in pushes'
        PROVE  m.version \in 1..version[m.env] /\ Entry(m.env, m.version) \in audit'
    <3>1. CASE m \in pushes
      BY <1>1, <3>1 DEF PublishInv
    <3>2. CASE m = Push(r)
      BY <1>2, <1>3, <3>2 DEF Push
    <3>3. QED
      BY <1>5, <3>1, <3>2
  <2>2. QED
    BY <1>1, <2>1 DEF PushesAreAudited, Entry
<1>8. \A q \in Requests : rpc'[q] \in {"locked", "loaded"} => rpc'[q] = rpc[q]
  BY <1>4
<1>9. HoldersTakeNext' /\ LoadedIsLatest'
  BY <1>1, <1>8 DEF PublishInv, HoldersTakeNext, LoadedIsLatest
<1>10. CommittedIsKept'
  <2> SUFFICES ASSUME NEW q \in Requests
               PROVE  /\ rpc'[q] \in {"committed", "audited", "pushing"} =>
                           rVersion[q] \in 1..version[rEnv[q]]
                      /\ rpc'[q] \in {"audited", "pushing"} =>
                           Entry(rEnv[q], rVersion[q]) \in audit'
    BY <1>1 DEF CommittedIsKept, Entry
  <2>1. CASE q = r
    BY <1>2, <1>3, <2>1
  <2>2. CASE q # r
    BY <1>1, <1>4, <2>2 DEF PublishInv, CommittedIsKept
  <2>3. QED
    BY <2>1, <2>2
<1>11. QED
  BY <1>6, <1>7, <1>9, <1>10 DEF PublishInv, PushesAreAudited

\* What arrives was committed and audited, so what is accepted is.
LEMMA ArrivalKeeps ==
    ASSUME PlatformTypeOK, PublishInv, NEW m \in pushes, PushArrives(m)
    PROVE  PublishInv'
<1>1. /\ pushes' \subseteq pushes
      /\ version' = version /\ snapshots' = snapshots /\ audit' = audit /\ saves' = saves
      /\ rowLock' = rowLock /\ rpc' = rpc /\ rEnv' = rEnv /\ rVersion' = rVersion /\ rAsOf' = rAsOf
  BY DEF PushArrives, controlVars, databaseVars, requestVars
<1>2. m.env \in Environments /\ m.version \in 1..version[m.env] /\ Entry(m.env, m.version) \in audit
  BY DEF PlatformTypeOK, PublishInv
<1>3. ASSUME NEW e \in Environments, NEW v \in accepted'[e]
      PROVE  v \in 1..version[e] /\ Entry(e, v) \in audit
  <2>1. CASE v \in accepted[e]
    BY <2>1 DEF PublishInv, ServedIsAudited
  <2>2. CASE v \notin accepted[e]
    <3>1. accepted' = [accepted EXCEPT ![m.env] = @ \cup {m.version}]
      <4>1. CASE StorePublish(m.env, m.version)
        BY <4>1 DEF StorePublish
      <4>2. CASE UNCHANGED storeVars
        BY <1>3, <2>2, <4>2 DEF storeVars
      <4>3. QED
        BY <4>1, <4>2 DEF PushArrives
    <3>2. e = m.env /\ v = m.version
      BY <1>2, <1>3, <2>2, <3>1 DEF PlatformTypeOK, StoreTypeOK
    <3>3. QED
      BY <1>2, <3>2
  <2>3. QED
    BY <2>1, <2>2
<1>4. ServedIsAudited'
  BY <1>1, <1>3 DEF ServedIsAudited, Entry
<1>5. /\ VersionsAreSnapshots' /\ SnapshotsInOrder' /\ HoldersTakeNext' /\ LoadedIsLatest'
      /\ CommittedIsKept'
  BY <1>1 DEF PublishInv, VersionsAreSnapshots, SnapshotsInOrder, HoldersTakeNext,
              LoadedIsLatest, CommittedIsKept, Entry
<1>6. PushesAreAudited'
  BY <1>1 DEF PublishInv, PushesAreAudited, Entry
<1>7. QED
  BY <1>4, <1>5, <1>6 DEF PublishInv, PushesAreAudited

\* Answers, failures, crashes, lost pushes and restarts.
LEMMA FaultKeeps ==
    ASSUME PlatformTypeOK, PublishInv,
           \/ \E r \in Requests : PublishReply(r) \/ ControlFails(r)
           \/ \E m \in pushes : PushLost(m)
           \/ \E e \in Environments : DataPlaneRestart(e)
           \/ ControlPlaneCrash
    PROVE  PublishInv'
<1>1. \A x \in Environments : saves[x] <= saves[x]
  BY TypesOfSaves
<1>2. ASSUME NEW r \in Requests, PublishReply(r)
      PROVE  PublishInv'
  <2>1. /\ Finish(r) /\ saves' = saves /\ rowLock' = rowLock /\ version' = version
        /\ snapshots' = snapshots /\ audit' = audit /\ pushes' = pushes /\ accepted' = accepted
    BY <1>2 DEF PublishReply, storeVars, databaseVars
  <2>2. QED
    BY <1>1, <2>1, TypesOfSaves, FinishLeaves, QuietStep
<1>3. ASSUME NEW r \in Requests, ControlFails(r)
      PROVE  PublishInv'
  <2>1. /\ Finish(r) /\ saves' = saves /\ version' = version
        /\ snapshots' = snapshots /\ audit' = audit /\ pushes' = pushes /\ accepted' = accepted
        /\ rowLock' = [e \in Environments |-> IF rowLock[e] = r THEN NoRequest ELSE rowLock[e]]
    BY <1>3 DEF ControlFails, QueryFails, storeVars
  <2>2. ASSUME NEW q \in Requests, q # r, rowLock[rEnv[q]] = q
        PROVE  rowLock'[rEnv[q]] = q
    BY <2>1, <2>2 DEF PlatformTypeOK, ControlTypeOK
  <2>3. QED
    BY <1>1, <2>1, <2>2, TypesOfSaves, FinishLeaves, QuietStep
<1>4. ASSUME NEW m \in pushes, PushLost(m)
      PROVE  PublishInv'
  <2>1. /\ saves' = saves /\ version' = version /\ snapshots' = snapshots /\ audit' = audit
        /\ pushes' \subseteq pushes /\ accepted' = accepted /\ rowLock' = rowLock
        /\ rpc' = rpc /\ rEnv' = rEnv /\ rVersion' = rVersion /\ rAsOf' = rAsOf
    BY <1>4 DEF PushLost, storeVars, controlVars, databaseVars, requestVars
  <2>2. QED
    BY <1>1, <2>1, TypesOfSaves, QuietStep
<1>5. ASSUME NEW e \in Environments, DataPlaneRestart(e)
      PROVE  PublishInv'
  <2>1. /\ saves' = saves /\ version' = version /\ snapshots' = snapshots /\ audit' = audit
        /\ pushes' = pushes /\ rowLock' = rowLock
        /\ rpc' = rpc /\ rEnv' = rEnv /\ rVersion' = rVersion /\ rAsOf' = rAsOf
    BY <1>5 DEF DataPlaneRestart, controlVars, databaseVars, requestVars
  <2>2. \A x \in Environments : accepted'[x] \subseteq accepted[x]
    BY <1>5 DEF DataPlaneRestart
  <2>3. QED
    BY <1>1, <2>1, <2>2, TypesOfSaves, QuietStep
<1>6. ASSUME ControlPlaneCrash
      PROVE  PublishInv'
  <2>1. /\ saves' = saves /\ version' = version /\ snapshots' = snapshots /\ audit' = audit
        /\ pushes' = pushes /\ accepted' = accepted
        /\ rpc' = [r \in Requests |-> "idle"]
    BY <1>6 DEF ControlPlaneCrash, ControlCrash, storeVars
  <2>2. \A q \in Requests : rpc'[q] \notin Publishing
    BY <2>1 DEF Publishing
  <2>3. QED
    BY <1>1, <2>1, <2>2, TypesOfSaves, QuietStep
<1>7. QED
  BY <1>2, <1>3, <1>4, <1>5, <1>6

LEMMA PublishInvInit == PlatformInit => PublishInv
  BY DEF PlatformInit, StoreInit, ControlInit, PublishInv, VersionsAreSnapshots, SnapshotsInOrder,
         ServedIsAudited, HoldersTakeNext, LoadedIsLatest, CommittedIsKept

LEMMA PublishInvStep ==
    ASSUME PlatformTypeOK, PublishInv, [PlatformNext]_platformVars
    PROVE  PublishInv'
<1>1. ASSUME NEW r \in Requests, ControlStep(r)
      PROVE  PublishInv'
  <2>1. UNCHANGED <<storeVars, pushes>>
    BY <1>1 DEF ControlStep
  <2>2. CASE \E e \in Environments : PublishLock(r, e)
    BY <2>1, <2>2, LockKeeps
  <2>3. CASE PublishLoad(r)
    BY <2>1, <2>3, LoadKeeps
  <2>4. CASE PublishCommit(r)
    BY <2>1, <2>4, CommitKeeps
  <2>5. CASE PublishAudit(r)
    BY <2>1, <2>5, AuditKeeps
  <2>6. QED
    BY <1>1, <2>1, <2>2, <2>3, <2>4, <2>5, EditKeeps DEF ControlStep
<1>2. ASSUME UNCHANGED platformVars
      PROVE  PublishInv'
  <2>1. /\ saves' = saves /\ version' = version /\ snapshots' = snapshots /\ audit' = audit
        /\ pushes' = pushes /\ accepted' = accepted /\ rowLock' = rowLock
        /\ rpc' = rpc /\ rEnv' = rEnv /\ rVersion' = rVersion /\ rAsOf' = rAsOf
    BY <1>2 DEF platformVars, storeVars, controlVars, databaseVars, requestVars
  <2>2. \A x \in Environments : saves[x] <= saves[x]
    BY TypesOfSaves
  <2>3. QED
    BY <2>1, <2>2, TypesOfSaves, QuietStep
<1>3. QED
  BY <1>1, <1>2, AuditKeeps, ArrivalKeeps, FaultKeeps DEF PlatformNext

\* Concurrent publishes, rejections, failed queries, crashes, lost, late and
\* overtaking pushes and restarts, in any number and order, keep the invariant.
THEOREM PublishingIsSound == PlatformSpec => []PublishInv
<1>1. PlatformTypeOK /\ PublishInv /\ [PlatformNext]_platformVars => PublishInv'
  BY PublishInvStep
<1>2. QED
  BY <1>1, PublishInvInit, PlatformTypeCorrect, PTL DEF PlatformSpec

\* publishRuleset numbers an environment's snapshots 1, 2, 3, ... whatever happens
\* to the publishes: the row lock and the single transaction are enough.
THEOREM VersionsHaveNoGap == PlatformSpec => []VersionsAreSnapshots
<1>1. PublishInv => VersionsAreSnapshots
  BY DEF PublishInv
<1>2. QED
  BY <1>1, PublishingIsSound, PTL

\* A publish never undoes a saved change that an earlier version already carried.
THEOREM VersionsAreInOrder == PlatformSpec => []SnapshotsInOrder
<1>1. PublishInv => SnapshotsInOrder
  BY DEF PublishInv
<1>2. QED
  BY <1>1, PublishingIsSound, PTL

\* Nothing is served that the database could forget or that no audit entry
\* accounts for, however late a push arrives and whatever stopped meanwhile.
THEOREM OnlyAuditedIsServed == PlatformSpec => []ServedIsAudited
<1>1. PublishInv => ServedIsAudited
  BY DEF PublishInv
<1>2. QED
  BY <1>1, PublishingIsSound, PTL

\* Every step that touches the store, restarts aside, takes current forward or
\* leaves it.
LEMMA StepNeverRollsBack ==
    ASSUME PlatformTypeOK, [PlatformNext]_platformVars
    PROVE  \A e \in Environments :
               current'[e] >= current[e] \/ \E x \in Environments : DataPlaneRestart(x)
<1>1. CASE \E x \in Environments : DataPlaneRestart(x)
  BY <1>1
<1>2. CASE current' = current
  BY <1>2 DEF PlatformTypeOK, StoreTypeOK
<1>3. ASSUME NEW m \in pushes, StorePublish(m.env, m.version)
      PROVE  \A e \in Environments : current'[e] >= current[e]
  <2>1. m.env \in Environments /\ m.version \in Nat /\ current \in [Environments -> Nat]
    BY DEF PlatformTypeOK, StoreTypeOK
  <2>2. m.version > current[m.env] /\ current' = [current EXCEPT ![m.env] = m.version]
    BY <1>3, <2>1 DEF StorePublish, Stale
  <2>3. QED
    BY <2>1, <2>2
<1>4. ASSUME NEW r \in Requests, ControlStep(r) \/ PushSend(r) \/ PublishReply(r) \/ ControlFails(r)
      PROVE  current' = current
  BY <1>4 DEF ControlStep, PushSend, PublishReply, ControlFails, storeVars
<1>5. ASSUME NEW m \in pushes, PushArrives(m) \/ PushLost(m)
      PROVE  StorePublish(m.env, m.version) \/ current' = current
  BY <1>5 DEF PushArrives, PushLost, storeVars
<1>6. ASSUME ControlPlaneCrash \/ UNCHANGED platformVars
      PROVE  current' = current
  BY <1>6 DEF ControlPlaneCrash, platformVars, storeVars
<1>7. QED
  BY <1>1, <1>2, <1>3, <1>4, <1>5, <1>6 DEF PlatformNext

\* Pushes that overtake each other never take an environment back: only losing
\* the memory of the data plane does.
THEOREM PushesNeverRollBack == PlatformSpec => NeverRollsBack
<1>1. PlatformTypeOK /\ [PlatformNext]_platformVars =>
        [\A e \in Environments :
            current'[e] >= current[e] \/ \E x \in Environments : DataPlaneRestart(x)]_platformVars
  BY StepNeverRollsBack
<1>2. QED
  BY <1>1, PlatformTypeCorrect, PTL DEF PlatformSpec, NeverRollsBack
=============================================================================
