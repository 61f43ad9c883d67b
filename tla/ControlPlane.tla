---------------------------- MODULE ControlPlane ----------------------------
(***************************************************************************)
(* The control plane's admin requests (server.ts) over its PostgreSQL      *)
(* database (repository.ts): creating a flag, editing its configuration in *)
(* one environment, and publishing an environment's ruleset.               *)
(*                                                                         *)
(* A request is one asynchronous handler; every await is a point at which  *)
(* another request may run, so a handler is split at each of its queries.  *)
(* Statements run at READ COMMITTED; a transaction's effects appear at its *)
(* COMMIT, and the UPDATE that opens a publish holds the environment's row *)
(* until then.  A configuration is abstracted to which edit last set each  *)
(* field; a compiled ruleset to the configurations it was compiled from.   *)
(***************************************************************************)
EXTENDS Integers, Sequences, FiniteSets, PlatformKeys

CONSTANTS
    Flags,          \* flag keys of the tenant
    Requests,       \* admin requests that may be under way at once
    NoRequest,      \* nobody holds the row
    MaxEdits,       \* bound: edits made
    MaxPublishes,   \* bound: the highest version of an environment
    Broken          \* the edits whose value compileRuleset rejects

ASSUME NoRequestAssumption == NoRequest \notin Requests
ASSUME FlagsAssumption == Flags # {}
ASSUME EditsAssumption == MaxEdits \in Nat /\ Broken \subseteq Nat
ASSUME PublishesAssumption == MaxPublishes \in Nat \ {0}

\* The fields of a configuration that an edit sets and the audit log records.
Fields == {"enabled", "rules"}
Configs == [Fields -> Nat]
Unset == [x \in Fields |-> 0]

VARIABLES
    flags,      \* the flags that exist
    config,     \* config[e][f]: the edit that last set each field of f in e
    edits,      \* edits requested so far
    saves,      \* saves[e]: writes to the configurations of e so far
    version,    \* version[e]: environments.version, as committed
    snapshots,  \* snapshots[e]: ruleset_snapshots, in order of insertion
    rowLock,    \* rowLock[e]: the publish that holds the environment's row
    audit,      \* audit_log, as a set
    rpc,        \* rpc[r]: where request r is
    rEnv, rFlag, rSet, rEdit,   \* what r was asked: environment, flag, fields, edit
    rPrev,      \* rPrev[r]: the configuration r read before its write
    rBefore,    \* rBefore[r]: the configuration r in fact overwrote (a history variable)
    rVersion,   \* rVersion[r]: the version r took
    rAsOf       \* rAsOf[r]: saves[e] when r read the configurations

requestVars == <<rpc, rEnv, rFlag, rSet, rEdit, rPrev, rBefore, rVersion, rAsOf>>
databaseVars == <<flags, config, edits, saves, version, snapshots, rowLock, audit>>
controlVars == <<databaseVars, requestVars>>

Locations == {"idle", "created", "patch", "patched", "locked", "loaded", "committed", "audited", "pushing"}

ControlTypeOK ==
    /\ flags \subseteq Flags
    /\ config \in [Environments -> [Flags -> Configs]]
    /\ edits \in Nat
    /\ saves \in [Environments -> Nat]
    /\ version \in [Environments -> Nat]
    /\ snapshots \in [Environments -> Seq([version : Nat, asOf : Nat])]
    /\ rowLock \in [Environments -> Requests \cup {NoRequest}]
    /\ audit \subseteq
         [action : {"create"}, flag : Flags] \cup
         [action : {"publish"}, env : Environments, version : Nat] \cup
         [action : {"update"}, env : Environments, flag : Flags, previous : Configs, before : Configs]
    /\ rpc \in [Requests -> Locations]
    /\ rEnv \in [Requests -> Environments]
    /\ rFlag \in [Requests -> Flags]
    /\ rSet \in [Requests -> SUBSET Fields]
    /\ rEdit \in [Requests -> Nat]
    /\ rPrev \in [Requests -> Configs]
    /\ rBefore \in [Requests -> Configs]
    /\ rVersion \in [Requests -> Nat]
    /\ rAsOf \in [Requests -> Nat]

ControlInit ==
    /\ flags = {}
    /\ config = [e \in Environments |-> [f \in Flags |-> Unset]]
    /\ edits = 0
    /\ saves = [e \in Environments |-> 0]
    /\ version = [e \in Environments |-> 0]
    /\ snapshots = [e \in Environments |-> <<>>]
    /\ rowLock = [e \in Environments |-> NoRequest]
    /\ audit = {}
    /\ rpc = [r \in Requests |-> "idle"]
    /\ rEnv = [r \in Requests |-> CHOOSE e \in Environments : TRUE]
    /\ rFlag = [r \in Requests |-> CHOOSE f \in Flags : TRUE]
    /\ rSet = [r \in Requests |-> {}]
    /\ rEdit = [r \in Requests |-> 0]
    /\ rPrev = [r \in Requests |-> Unset]
    /\ rBefore = [r \in Requests |-> Unset]
    /\ rVersion = [r \in Requests |-> 0]
    /\ rAsOf = [r \in Requests |-> 0]

\* A request is answered, or abandoned, and its locals go.
Finish(r) ==
    /\ rpc' = [rpc EXCEPT ![r] = "idle"]
    /\ rSet' = [rSet EXCEPT ![r] = {}]
    /\ rEdit' = [rEdit EXCEPT ![r] = 0]
    /\ rPrev' = [rPrev EXCEPT ![r] = Unset]
    /\ rBefore' = [rBefore EXCEPT ![r] = Unset]
    /\ rVersion' = [rVersion EXCEPT ![r] = 0]
    /\ rAsOf' = [rAsOf EXCEPT ![r] = 0]
    /\ UNCHANGED <<rEnv, rFlag>>

-----------------------------------------------------------------------------
(* Flags.                                                                  *)

\* POST /v1/flags: createFlag inserts the flag and a configuration in every
\* environment in one transaction; an existing key is a unique violation, a 409.
CreateFlag(r, f) ==
    /\ rpc[r] = "idle" /\ f \notin flags
    /\ flags' = flags \cup {f}
    /\ config' = [e \in Environments |-> [config[e] EXCEPT ![f] = Unset]]
    /\ saves' = [e \in Environments |-> saves[e] + 1]
    /\ rpc' = [rpc EXCEPT ![r] = "created"]
    /\ rFlag' = [rFlag EXCEPT ![r] = f]
    /\ UNCHANGED <<edits, version, snapshots, rowLock, audit,
                   rEnv, rSet, rEdit, rPrev, rBefore, rVersion, rAsOf>>

CreateAudit(r) ==
    /\ rpc[r] = "created"
    /\ audit' = audit \cup {[action |-> "create", flag |-> rFlag[r]]}
    /\ Finish(r)
    /\ UNCHANGED <<flags, config, edits, saves, version, snapshots, rowLock>>

\* PATCH /v1/flags/:key, up to getFlag: a flag that does not exist is a 404.
PatchRead(r, e, f, set) ==
    /\ rpc[r] = "idle" /\ f \in flags /\ edits < MaxEdits
    /\ edits' = edits + 1
    /\ rpc' = [rpc EXCEPT ![r] = "patch"]
    /\ rEnv' = [rEnv EXCEPT ![r] = e]
    /\ rFlag' = [rFlag EXCEPT ![r] = f]
    /\ rSet' = [rSet EXCEPT ![r] = set]
    /\ rEdit' = [rEdit EXCEPT ![r] = edits + 1]
    /\ rPrev' = [rPrev EXCEPT ![r] = config[e][f]]
    /\ UNCHANGED <<flags, config, saves, version, snapshots, rowLock, audit,
                   rBefore, rVersion, rAsOf>>

\* Faulty variant of PatchWrite: the body replaces the row.
PatchWriteBare(r) ==
    /\ rpc[r] = "patch"
    /\ config' = [config EXCEPT ![rEnv[r]][rFlag[r]] = [x \in rSet[r] |-> rEdit[r]]]
    /\ rBefore' = [rBefore EXCEPT ![r] = config[rEnv[r]][rFlag[r]]]
    /\ saves' = [saves EXCEPT ![rEnv[r]] = @ + 1]
    /\ rpc' = [rpc EXCEPT ![r] = "patched"]
    /\ UNCHANGED <<flags, edits, version, snapshots, rowLock, audit,
                   rEnv, rFlag, rSet, rEdit, rPrev, rVersion, rAsOf>>

\* updateFlagConfig's UPDATE writes every field: the ones it was given, and the
\* others as it read them.
PatchWrite(r) ==
    LET e == rEnv[r]
        f == rFlag[r] IN
    /\ rpc[r] = "patch"
    /\ config' = [config EXCEPT ![e][f] =
                    [x \in Fields |-> IF x \in rSet[r] THEN rEdit[r] ELSE rPrev[r][x]]]
    /\ rBefore' = [rBefore EXCEPT ![r] = config[e][f]]
    /\ saves' = [saves EXCEPT ![e] = @ + 1]
    /\ rpc' = [rpc EXCEPT ![r] = "patched"]
    /\ UNCHANGED <<flags, edits, version, snapshots, rowLock, audit,
                   rEnv, rFlag, rSet, rEdit, rPrev, rVersion, rAsOf>>

\* The handler's audit entry: the previous value is the one getFlag returned.
PatchAudit(r) ==
    /\ rpc[r] = "patched"
    /\ audit' = audit \cup {[action |-> "update", env |-> rEnv[r], flag |-> rFlag[r],
                             previous |-> rPrev[r], before |-> rBefore[r]]}
    /\ Finish(r)
    /\ UNCHANGED <<flags, config, edits, saves, version, snapshots, rowLock>>

-----------------------------------------------------------------------------
(* Publishing: POST /v1/publish.                                           *)

\* Faulty variant of PublishLock: reads the version without taking the row.
PublishLockNot(r, e) ==
    /\ rpc[r] = "idle" /\ version[e] < MaxPublishes
    /\ rpc' = [rpc EXCEPT ![r] = "locked"]
    /\ rEnv' = [rEnv EXCEPT ![r] = e]
    /\ rVersion' = [rVersion EXCEPT ![r] = version[e] + 1]
    /\ UNCHANGED <<databaseVars, rFlag, rSet, rEdit, rPrev, rBefore, rAsOf>>

\* BEGIN and the UPDATE ... RETURNING that takes the next version and the row.
PublishLock(r, e) ==
    /\ rpc[r] = "idle" /\ version[e] < MaxPublishes
    /\ rowLock[e] = NoRequest
    /\ rowLock' = [rowLock EXCEPT ![e] = r]
    /\ rpc' = [rpc EXCEPT ![r] = "locked"]
    /\ rEnv' = [rEnv EXCEPT ![r] = e]
    /\ rVersion' = [rVersion EXCEPT ![r] = version[e] + 1]
    /\ UNCHANGED <<flags, config, edits, saves, version, snapshots, audit,
                   rFlag, rSet, rEdit, rPrev, rBefore, rAsOf>>

Compiles(e) == \A f \in flags, x \in Fields : config[e][f][x] \notin Broken

\* loadRulesetInputsWithClient and compileRuleset.
PublishLoad(r) ==
    /\ rpc[r] = "locked" /\ Compiles(rEnv[r])
    /\ rAsOf' = [rAsOf EXCEPT ![r] = saves[rEnv[r]]]
    /\ rpc' = [rpc EXCEPT ![r] = "loaded"]
    /\ UNCHANGED <<databaseVars, rEnv, rFlag, rSet, rEdit, rPrev, rBefore, rVersion>>

\* Faulty variant of PublishReject: the version stays consumed.
PublishRejectConsumes(r) ==
    /\ rpc[r] = "locked" /\ ~Compiles(rEnv[r])
    /\ rowLock' = [rowLock EXCEPT ![rEnv[r]] = NoRequest]
    /\ version' = [version EXCEPT ![rEnv[r]] = rVersion[r]]
    /\ Finish(r)
    /\ UNCHANGED <<flags, config, edits, saves, snapshots, audit>>

\* RulesetValidationError: ROLLBACK, and a 422.
PublishReject(r) ==
    /\ rpc[r] = "locked" /\ ~Compiles(rEnv[r])
    /\ rowLock' = [rowLock EXCEPT ![rEnv[r]] = NoRequest]
    /\ Finish(r)
    /\ UNCHANGED <<flags, config, edits, saves, version, snapshots, audit>>

\* The snapshot's INSERT and COMMIT.
PublishCommit(r) ==
    LET e == rEnv[r] IN
    /\ rpc[r] = "loaded"
    /\ version' = [version EXCEPT ![e] = rVersion[r]]
    /\ snapshots' = [snapshots EXCEPT ![e] =
                       Append(@, [version |-> rVersion[r], asOf |-> rAsOf[r]])]
    /\ rowLock' = [rowLock EXCEPT ![e] = NoRequest]
    /\ rpc' = [rpc EXCEPT ![r] = "committed"]
    /\ UNCHANGED <<flags, config, edits, saves, audit,
                   rEnv, rFlag, rSet, rEdit, rPrev, rBefore, rVersion, rAsOf>>

\* Faulty variant of PublishAudit: answers without pushing.
PublishAuditReturns(r) ==
    /\ rpc[r] = "committed"
    /\ audit' = audit \cup
         {[action |-> "publish", env |-> rEnv[r], version |-> rVersion[r]]}
    /\ Finish(r)
    /\ UNCHANGED <<flags, config, edits, saves, version, snapshots, rowLock>>

PublishAudit(r) ==
    /\ rpc[r] = "committed"
    /\ audit' = audit \cup
         {[action |-> "publish", env |-> rEnv[r], version |-> rVersion[r]]}
    /\ rpc' = [rpc EXCEPT ![r] = "audited"]
    /\ UNCHANGED <<flags, config, edits, saves, version, snapshots, rowLock,
                   rEnv, rFlag, rSet, rEdit, rPrev, rBefore, rVersion, rAsOf>>

-----------------------------------------------------------------------------
(* Failures.                                                               *)

\* A query fails: the handler throws, an open transaction is rolled back.
QueryFails(r) ==
    /\ rpc[r] \in {"created", "patch", "patched", "locked", "loaded", "committed"}
    /\ rowLock' = [e \in Environments |-> IF rowLock[e] = r THEN NoRequest ELSE rowLock[e]]
    /\ Finish(r)
    /\ UNCHANGED <<flags, config, edits, saves, version, snapshots, audit>>

\* The process dies: every handler is gone, PostgreSQL rolls back what is open.
ControlCrash ==
    /\ \E r \in Requests : rpc[r] # "idle"
    /\ rowLock' = [e \in Environments |-> NoRequest]
    /\ rpc' = [r \in Requests |-> "idle"]
    /\ rSet' = [r \in Requests |-> {}]
    /\ rEdit' = [r \in Requests |-> 0]
    /\ rPrev' = [r \in Requests |-> Unset]
    /\ rBefore' = [r \in Requests |-> Unset]
    /\ rVersion' = [r \in Requests |-> 0]
    /\ rAsOf' = [r \in Requests |-> 0]
    /\ UNCHANGED <<flags, config, edits, saves, version, snapshots, audit, rEnv, rFlag>>

-----------------------------------------------------------------------------
(* What the database promises the rest of the platform.                    *)

Entry(e, v) == [action |-> "publish", env |-> e, version |-> v]

\* The snapshots of an environment are numbered 1, 2, 3, ... without a gap or a
\* repeat, and environments.version is the last of them: concurrent publishes
\* take different numbers, and a rejected, failed or crashed one takes none.
VersionsAreSnapshots ==
    \A e \in Environments :
        /\ version[e] = Len(snapshots[e])
        /\ \A i \in 1..Len(snapshots[e]) : snapshots[e][i].version = i

\* A later version was compiled from configurations at least as recent as an
\* earlier one's: a publish never undoes a saved change that an earlier version
\* already carried.
SnapshotsInOrder ==
    \A e \in Environments : \A i, j \in 1..Len(snapshots[e]) :
        i <= j => snapshots[e][i].asOf <= snapshots[e][j].asOf

\* A publish in its transaction holds its environment's row and will commit the
\* number after the last committed one.
HoldersTakeNext ==
    \A r \in Requests : rpc[r] \in {"locked", "loaded"} =>
        rowLock[rEnv[r]] = r /\ rVersion[r] = version[rEnv[r]] + 1

\* A ruleset is compiled from configurations no older than those of any committed
\* snapshot, and none is compiled from configurations not saved yet.
LoadedIsLatest ==
    /\ \A e \in Environments : \A i \in 1..Len(snapshots[e]) : snapshots[e][i].asOf <= saves[e]
    /\ \A r \in Requests : rpc[r] = "loaded" =>
         /\ rAsOf[r] <= saves[rEnv[r]]
         /\ \A i \in 1..Len(snapshots[rEnv[r]]) : snapshots[rEnv[r]][i].asOf <= rAsOf[r]

\* After COMMIT a publish works with a committed version, and from its audit entry
\* on that version is in the log.
CommittedIsKept ==
    \A r \in Requests :
        /\ rpc[r] \in {"committed", "audited", "pushing"} => rVersion[r] \in 1..version[rEnv[r]]
        /\ rpc[r] \in {"audited", "pushing"} => Entry(rEnv[r], rVersion[r]) \in audit

\* The previous value an audit entry records is the value that was overwritten.
AuditTellsWhatItWas ==
    \A a \in audit : a.action = "update" => a.previous = a.before
=============================================================================
