------------------------------ MODULE DataPlane ------------------------------
(***************************************************************************)
(* The data plane process as its clients meet it: the HTTP handlers of     *)
(* internal/api/api.go over the snapshot store and the hub, the shutdown   *)
(* sequence of cmd/dataplane/main.go, and the console's EventSource        *)
(* client (useRulesetStream.ts behind api/stream/route.ts).                *)
(*                                                                         *)
(* A frame the handler writes reaches the client in the same step, unless  *)
(* the connection is gone: frames travel one ordered byte stream, so a     *)
(* lost tail of frames is a connection that went earlier, and a slow       *)
(* reader is a handler that takes no step.                                 *)
(***************************************************************************)
EXTENDS SnapshotStore, Hub

CONSTANTS
    Clients,        \* browser tabs
    CoarseClock,    \* whether overlapping nextSubscriberID calls may read one time
    MaxDrops,       \* bound: connections broken by the network or the user, or refused
    MayShutDown     \* whether SIGTERM may arrive

ASSUME MaxDropsAssumption == MaxDrops \in Nat
ASSUME SwitchAssumption == CoarseClock \in BOOLEAN /\ MayShutDown \in BOOLEAN

VARIABLES
    hpc,        \* hpc[s]: where the handler of s is once it has subscribed
    after,      \* after[s]: the version parsed from the request's Last-Event-ID
    out,        \* out[s]: snapshots replayOrResync has still to walk over
    listening,  \* whether the HTTP listener accepts connections
    conn,       \* conn[c]: the stream c is connected to
    env,        \* env[c]: the environment c watches
    ver,        \* ver[c]: highestVersion; 0 stands for the code's -1
    lastId,     \* lastId[c]: the EventSource's last event id, 0 for none
    dead,       \* dead[c]: the EventSource has failed for good (CLOSED)
    drops       \* connections broken or refused so far

handlerVars == <<hpc, after, out>>
clientVars  == <<conn, env, ver, lastId, dead, drops>>
vars == <<storeVars, hubVars, handlerVars, clientVars, listening>>

TypeOK ==
    /\ StoreTypeOK
    /\ HubTypeOK
    /\ hpc \in [Streams -> {"replay", "resync", "write", "loop"}]
    /\ after \in [Streams -> Nat]
    /\ out \in [Streams -> Seq(Nat)]
    /\ listening \in BOOLEAN
    /\ conn \in [Clients -> Streams \cup {NoStream}]
    /\ env \in [Clients -> Environments]
    /\ ver \in [Clients -> Nat]
    /\ lastId \in [Clients -> Nat]
    /\ dead \in [Clients -> BOOLEAN]
    /\ drops \in 0..MaxDrops

Init ==
    /\ StoreInit
    /\ HubInit
    /\ hpc = [s \in Streams |-> "replay"]
    /\ after = [s \in Streams |-> 0]
    /\ out = [s \in Streams |-> <<>>]
    /\ listening = TRUE
    /\ conn = [c \in Clients |-> NoStream]
    /\ env \in [Clients -> Environments]
    /\ ver = [c \in Clients |-> 0]
    /\ lastId = [c \in Clients |-> 0]
    /\ dead = [c \in Clients |-> FALSE]
    /\ drops = 0

-----------------------------------------------------------------------------
(* Publishing.                                                             *)

\* handlePublish for a version that advances: the store's critical section,
\* then Broadcast.  A stale, malformed or unauthorised request changes nothing.
HandlePublish(p, e, v) ==
    /\ listening
    /\ StorePublish(e, v)
    /\ BroadcastBegin(p, e, v)
    /\ UNCHANGED <<handlerVars, clientVars, listening>>

\* The steps of a broadcast under way.
BroadcastStep(p) ==
    /\ \/ RLockShard(p)
       \/ \E s \in Streams : Send(p, s)
       \/ NextShard(p) \/ ScanEnd(p)
       \/ \E s \in Streams : EvictRemove(p, s)
       \/ EvictClose(p)
       \/ BroadcastEnd(p)
    /\ UNCHANGED <<storeVars, handlerVars, clientVars, listening>>

-----------------------------------------------------------------------------
(* The stream handler.                                                     *)

\* nextSubscriberID reads the clock and bumps a counter without a lock: ids
\* differ unless two calls overlap within one clock reading.
IdMayBe(i) ==
    \/ FreshId(i)
    \/ CoarseClock /\ \E t \in Streams : life[t] = "new" /\ subId[t] = i

\* EventSource connects: the proxy forwards Last-Event-ID, handleStream sends
\* its headers and draws an id.
Connect(c, s, i) ==
    /\ conn[c] = NoStream /\ ~dead[c]
    /\ listening
    /\ IdMayBe(i)
    /\ NewSubscriber(s, i, env[c])
    /\ conn' = [conn EXCEPT ![c] = s]
    /\ after' = [after EXCEPT ![s] = lastId[c]]
    /\ UNCHANGED <<storeVars, hpc, out, env, ver, lastId, dead, drops, listening>>

HandleSubscribe(s) ==
    /\ Subscribe(s)
    /\ UNCHANGED <<storeVars, handlerVars, clientVars, listening>>

HandleSubscribed(s) ==
    /\ SubscribeCount(s)
    /\ hpc' = [hpc EXCEPT ![s] = "replay"]
    /\ UNCHANGED <<storeVars, after, out, clientVars, listening>>

Running(s, at) == life[s] = "subscribed" /\ hpc[s] = at

\* replayOrResync: a cold start reads the current snapshot, a resuming client
\* the retained ones; one that fell out of the history needs a second read.
Replay(s) ==
    LET e == subEnv[s] IN
    /\ Running(s, "replay")
    /\ \/ /\ after[s] <= 0 \/ ~Known(e)
          /\ out' = [out EXCEPT ![s] = IF Known(e) THEN <<current[e]>> ELSE <<>>]
          /\ hpc' = [hpc EXCEPT ![s] = "write"]
       \/ /\ after[s] > 0 /\ Known(e) /\ ~NeedsFullResync(e, after[s])
          /\ out' = [out EXCEPT ![s] = ResumeSource(e, after[s])]
          /\ hpc' = [hpc EXCEPT ![s] = "write"]
       \/ /\ after[s] > 0 /\ NeedsFullResync(e, after[s])
          /\ hpc' = [hpc EXCEPT ![s] = "resync"]
          /\ UNCHANGED out
    /\ UNCHANGED <<storeVars, hubVars, after, clientVars, listening>>

\* The full resync's own read of Current, which may be newer by now.
FullResync(s) ==
    /\ Running(s, "resync")
    /\ out' = [out EXCEPT ![s] = IF Known(subEnv[s]) THEN <<current[subEnv[s]]>> ELSE <<>>]
    /\ hpc' = [hpc EXCEPT ![s] = "write"]
    /\ UNCHANGED <<storeVars, hubVars, after, clientVars, listening>>

\* Faulty variant of Emit: the client applies whatever arrives.
EmitUnguarded(s, v) ==
    /\ lastId' = [c \in Clients |-> IF conn[c] = s THEN v ELSE lastId[c]]
    /\ ver' = [c \in Clients |-> IF conn[c] = s THEN v ELSE ver[c]]

\* writeEvent at one end, the 'ruleset' listener at the other: the browser
\* notes the id of every frame, the hook applies only a higher version.  A frame
\* whose payload has no version number, which the hook skips, is left out: the
\* control plane pushes only compiled rulesets, which have theirs.
Emit(s, v) ==
    /\ lastId' = [c \in Clients |-> IF conn[c] = s THEN v ELSE lastId[c]]
    /\ ver' = [c \in Clients |-> IF conn[c] = s /\ v > ver[c] THEN v ELSE ver[c]]

\* The replay loop.  Resume leaves out what the client has; a full snapshot is
\* always above `after`, so the test only ever filters a Resume.
WriteMissed(s) ==
    /\ Running(s, "write") /\ out[s] # <<>>
    /\ out' = [out EXCEPT ![s] = Tail(@)]
    /\ IF Head(out[s]) > after[s]
       THEN Emit(s, Head(out[s]))
       ELSE UNCHANGED <<lastId, ver>>
    /\ UNCHANGED <<storeVars, hubVars, hpc, after, conn, env, dead, drops, listening>>

\* replayOrResync returns, and its locals go.
EnterLoop(s) ==
    /\ Running(s, "write") /\ out[s] = <<>>
    /\ hpc' = [hpc EXCEPT ![s] = "loop"]
    /\ after' = [after EXCEPT ![s] = 0]
    /\ UNCHANGED <<storeVars, hubVars, out, clientVars, listening>>

\* select: a message is ready.
Forward(s) ==
    /\ Running(s, "loop")
    /\ Receive(s)
    /\ Emit(s, Head(messages[s]))
    /\ UNCHANGED <<storeVars, handlerVars, conn, env, dead, drops, listening>>

\* select: the request's context is cancelled, or the subscriber is closed (a
\* slow consumer is first sent a resync event, which carries no id).
Return(s) ==
    /\ Running(s, "loop")
    /\ done[s] \/ \A c \in Clients : conn[c] # s
    /\ Unsubscribe(s)
    /\ UNCHANGED <<storeVars, handlerVars, clientVars, listening>>

\* The handler has returned: the response ends, and with it the connection.
Returned(s) ==
    /\ UnsubscribeClose(s)
    /\ conn' = [c \in Clients |-> IF conn[c] = s THEN NoStream ELSE conn[c]]
    /\ hpc' = [hpc EXCEPT ![s] = "replay"]
    /\ UNCHANGED <<storeVars, after, out, env, ver, lastId, dead, drops, listening>>

HandlerStep(s) ==
    \/ HandleSubscribe(s) \/ HandleSubscribed(s) \/ Replay(s) \/ FullResync(s)
    \/ WriteMissed(s) \/ EnterLoop(s) \/ Forward(s) \/ Return(s) \/ Returned(s)

-----------------------------------------------------------------------------
(* The client and the network.                                             *)

\* The connection breaks; EventSource will reconnect with its last event id.
Disconnect(c) ==
    /\ conn[c] # NoStream /\ drops < MaxDrops
    /\ drops' = drops + 1
    /\ conn' = [conn EXCEPT ![c] = NoStream]
    /\ UNCHANGED <<storeVars, hubVars, handlerVars, env, ver, lastId, dead, listening>>

\* Faulty variant of SwitchEnvironment: highestVersion is not reset.
SwitchKeepsVersion(c, e) ==
    /\ drops < MaxDrops
    /\ drops' = drops + 1
    /\ conn' = [conn EXCEPT ![c] = NoStream]
    /\ env' = [env EXCEPT ![c] = e]
    /\ lastId' = [lastId EXCEPT ![c] = 0]
    /\ dead' = [dead EXCEPT ![c] = FALSE]
    /\ UNCHANGED <<storeVars, hubVars, handlerVars, ver, listening>>

\* The hook's effect runs again: the old source is closed, a new one starts
\* from nothing.  With e = env[c] it is a page reload.
SwitchEnvironment(c, e) ==
    /\ drops < MaxDrops
    /\ drops' = drops + 1
    /\ conn' = [conn EXCEPT ![c] = NoStream]
    /\ env' = [env EXCEPT ![c] = e]
    /\ ver' = [ver EXCEPT ![c] = 0]
    /\ lastId' = [lastId EXCEPT ![c] = 0]
    /\ dead' = [dead EXCEPT ![c] = FALSE]
    /\ UNCHANGED <<storeVars, hubVars, handlerVars, listening>>

\* The proxy's fetch fails, or the data plane does not answer it with a stream:
\* it answers 502, and EventSource gives up.  It always is so once the listener
\* is closed, and any connection attempt may meet it before.
ConnectRefused(c) ==
    /\ conn[c] = NoStream /\ ~dead[c]
    /\ \/ ~listening /\ UNCHANGED drops
       \/ drops < MaxDrops /\ drops' = drops + 1
    /\ dead' = [dead EXCEPT ![c] = TRUE]
    /\ UNCHANGED <<storeVars, hubVars, handlerVars, conn, env, ver, lastId, listening>>

-----------------------------------------------------------------------------
(* Shutdown: CloseAll, then Shutdown closes the listener and waits.        *)

ShutdownBegin ==
    /\ MayShutDown
    /\ CloseAllBegin
    /\ UNCHANGED <<storeVars, handlerVars, clientVars, listening>>

ShutdownCloseShard ==
    /\ CloseAllShard
    /\ UNCHANGED <<storeVars, handlerVars, clientVars, listening>>

ShutdownListener ==
    /\ sweep = NumShards + 1 /\ listening
    /\ listening' = FALSE
    /\ UNCHANGED <<storeVars, hubVars, handlerVars, clientVars>>

-----------------------------------------------------------------------------
Next ==
    \/ \E p \in Publishers, e \in Environments, v \in Versions : HandlePublish(p, e, v)
    \/ \E p \in Publishers : BroadcastStep(p)
    \/ \E c \in Clients, s \in Streams, i \in Ids : Connect(c, s, i)
    \/ \E s \in Streams : HandlerStep(s)
    \/ \E c \in Clients : Disconnect(c) \/ ConnectRefused(c)
    \/ \E c \in Clients, e \in Environments : SwitchEnvironment(c, e)
    \/ ShutdownBegin \/ ShutdownCloseShard \/ ShutdownListener

Spec == Init /\ [][Next]_vars

-----------------------------------------------------------------------------
(* Safety.                                                                 *)

Holds(q, v) == \E i \in 1..Len(q) : q[i] = v

\* Publisher p will still come to s: its shard is ahead, or s is on p's list.
WillSend(p, s) ==
    /\ bEnv[p] = subEnv[s] /\ Registered(s)
    /\ \/ bpc[p] = "rlock" /\ bShard[p] <= Shard(s)
       \/ bpc[p] = "scan" /\ (bShard[p] < Shard(s) \/ s \in todo[p])

\* s is on its way out: its handler will see it closed.
Doomed(s) == done[s] \/ Referenced(s)

\* The hub will still bring v to s, or s has not subscribed yet, or it is leaving.
HubOwes(s, v) ==
    \/ life[s] \in {"new", "counting", "closing"}
    \/ Holds(messages[s], v)
    \/ \E p \in Publishers : bMsg[p] = v /\ WillSend(p, s)
    \/ Doomed(s)

\* The replay has yet to read the store, or to write v.
ReplayOwes(s, v) ==
    \/ hpc[s] \in {"replay", "resync"}
    \/ hpc[s] = "write" /\ Holds(out[s], v) /\ v > after[s]

\* No update is lost on a live stream: a connected client holds the current
\* version of its environment, or its replay or the hub owes it that version, or
\* the stream is being closed, so that the client will reconnect (handleStream:
\* "an update landing mid-replay is queued rather than lost ... a gap would not
\* be [harmless]").
NoGap ==
    \A c \in Clients : conn[c] # NoStream =>
        LET s == conn[c]
            v == current[subEnv[s]] IN
        ver[c] >= v \/ HubOwes(s, v) \/ ReplayOwes(s, v)

\* A stream whose handler is still waiting for messages is registered, or its
\* channel is closed or about to be: nobody waits on a channel no broadcast can
\* reach (remove and close, Subscribe and CloseAll interleave freely).
NoOrphan ==
    \A s \in Streams : life[s] \in {"counting", "subscribed"} =>
        Registered(s) \/ done[s] \/ \E p \in Publishers : victim[p] = s

\* A subscriber in the registry is never a closed one, so every broadcast goes
\* to channels somebody still reads.
RegisteredAreOpen ==
    \A e \in Environments, i \in Ids :
        LET s == registry[e][i] IN s # NoStream =>
            /\ ~done[s] /\ life[s] \in {"counting", "subscribed"}
            /\ subId[s] = i /\ subEnv[s] = e

\* The connected gauge equals the size of the registry, once the additions that
\* Subscribe makes after its Unlock are counted: no interleaving of eviction,
\* disconnect and CloseAll decrements it twice or not at all.
Accounting ==
    connected + Cardinality({s \in Streams : life[s] = "counting"})
      = Cardinality({ei \in Environments \X Ids : registry[ei[1]][ei[2]] # NoStream})

\* What a client has of the environment it watches now is of that environment:
\* both its highestVersion and the id it cites on reconnect were accepted there.
\* So neither is ahead of the environment's current version after a switch to one
\* with lower version numbers, and no later version is ignored as old or left out
\* of a replay (the hook reused for another environment, frames of the stream it
\* left still under way).
CursorInEnvironment ==
    \A c \in Clients :
        /\ ver[c] # 0 => ver[c] \in accepted[env[c]]
        /\ lastId[c] # 0 => lastId[c] \in accepted[env[c]]

\* The remaining parts of the inductive invariant behind NoGap.  What a client cites
\* on reconnect is no later than what it holds, the ids in use are distinct, a publisher's victim is out of the registry, a new subscriber is
\* known to nobody yet, the subscribers of a scan stay registered while the shard
\* is read-locked, a connected client's handler is alive and replays from no later
\* than what the client holds, and a full resync is for a client that is behind.
CursorBehind == \A c \in Clients : lastId[c] <= ver[c]

IdsDistinct ==
    \A s, t \in Streams : s # t /\ InUse(s) /\ InUse(t) => subId[s] # subId[t]

VictimsAreOut ==
    \A p \in Publishers :
        /\ (bpc[p] = "close") <=> (victim[p] # NoStream)
        /\ \A s \in Streams : victim[p] = s => ~Registered(s)

NewAreUnknown == \A s \in Streams : life[s] = "new" => ~done[s] /\ ~Referenced(s)

ScansAreCurrent ==
    \A p \in Publishers :
        /\ bpc[p] # "scan" => todo[p] = {}
        /\ \A s \in todo[p] : Registered(s) /\ subEnv[s] = bEnv[p] /\ Shard(s) = bShard[p]

HubInv ==
    /\ IdsDistinct /\ VictimsAreOut /\ NewAreUnknown /\ RegisteredAreOpen /\ NoOrphan
    /\ ScansAreCurrent

ConnectedAreServed ==
    \A c \in Clients : conn[c] # NoStream =>
        life[conn[c]] # "free" /\ subEnv[conn[c]] = env[c] /\ after[conn[c]] <= ver[c]

ResyncsAreBehind ==
    \A s \in Streams : Running(s, "resync") => after[s] < current[subEnv[s]]

StreamInv == HubInv /\ CursorBehind /\ ConnectedAreServed /\ ResyncsAreBehind

\* The data plane implements the ruleset feed its clients rely on.
Feed == INSTANCE RulesetFeed WITH
            published <- accepted, watching <- env, holding <- ver

ImplementsFeed == Feed!FeedSpec

-----------------------------------------------------------------------------
(* Liveness.                                                               *)

\* Goroutines run; only the publishers' are assumed to here.
PublisherFairness == \A p \in Publishers : WF_vars(BroadcastStep(p))

\* Handlers run and their writes complete; the browser reconnects.
StreamFairness ==
    /\ \A s \in Streams : WF_vars(HandlerStep(s))
    /\ \A c \in Clients : WF_vars(\E s \in Streams, i \in Ids : Connect(c, s, i))

ShutdownFairness == WF_vars(ShutdownCloseShard) /\ WF_vars(ShutdownListener)

PublisherFairSpec == Spec /\ PublisherFairness
FairSpec == Spec /\ PublisherFairness /\ StreamFairness /\ ShutdownFairness

\* A broadcast finishes whatever its subscribers do: it never blocks on a slow
\* subscriber, and its evictions do not wait for the evicted.
BroadcastCompletes ==
    \A p \in Publishers : (bpc[p] # "idle") ~> (bpc[p] = "idle")

\* While the process is not shutting down, a client comes to hold the version
\* that is current now, or a newer one, unless it changes environment or a connect
\* of its is answered with a 502, after which EventSource does not try again.
Converges ==
    \A c \in Clients, e \in Environments, v \in Versions :
        (env[c] = e /\ current[e] = v) ~> (ver[c] >= v \/ env[c] # e \/ dead[c] \/ sweep # 0)

\* CloseAll before Shutdown means Shutdown is not left waiting for streams.
ShutdownDrains ==
    (~listening) ~> (\A s \in Streams : life[s] = "free")
=============================================================================
