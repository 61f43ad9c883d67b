-------------------------------- MODULE Hub --------------------------------
(***************************************************************************)
(* The data plane's broadcast hub (internal/hub/hub.go): a sharded         *)
(* registry of streaming subscribers, each with a bounded message channel. *)
(*                                                                         *)
(* A stream is one connection handler's goroutine together with the        *)
(* Subscriber it creates; a publisher is one goroutine inside Broadcast.   *)
(* Each shard's RWMutex is modelled by its critical sections: a            *)
(* publisher that is scanning a shard holds its read lock, and a step that *)
(* takes a shard's write lock is atomic and waits for every such reader.   *)
(* What the code does outside the locks is a step of its own: the          *)
(* connected.Add(1) of Subscribe, the close after remove, the evictions    *)
(* after a scan.                                                           *)
(***************************************************************************)
EXTENDS Integers, Sequences, FiniteSets, PlatformKeys

CONSTANTS
    Streams,        \* slots for connection handlers
    NoStream,       \* the nil *Subscriber
    Ids,            \* subscriber ids
    NumShards,      \* HUB_SHARDS, 32 by default
    ShardOf,        \* shardFor: the shard an id hashes to
    BufferSize,     \* HUB_BUFFER_SIZE, 16 by default
    Publishers      \* goroutines that may be broadcasting at once

ASSUME NoStreamAssumption == NoStream \notin Streams
ASSUME ShardAssumption ==
    Ids # {} /\ NumShards \in Nat \ {0} /\ ShardOf \in [Ids -> 1..NumShards]
ASSUME BufferSizeAssumption == BufferSize \in Nat \ {0}

VARIABLES
    registry,       \* registry[e][i]: the Subscriber under id i of environment e
    life,           \* life[s]: where s is between drawing its id and its exit
    subId,          \* Subscriber.id
    subEnv,         \* Subscriber.environment
    messages,       \* Subscriber.messages: the versions queued, oldest first
    done,           \* done[s]: Subscriber.done is closed; TRUE too while s is unused
    bpc,            \* bpc[p]: where publisher p is inside Broadcast
    bEnv, bMsg,     \* the environment and version p broadcasts
    bShard,         \* the shard p has reached
    todo,           \* the subscribers of that shard p has still to send to
    evict,          \* the subscribers p found full
    victim,         \* the subscriber p has removed and not yet closed
    sweep,          \* CloseAll: 0 before it, then the shard it has reached
    connected       \* the gauge of connected subscribers

subscriberVars == <<life, subId, subEnv, messages, done>>
broadcastVars  == <<bpc, bEnv, bMsg, bShard, todo, evict, victim>>
hubVars == <<registry, subscriberVars, broadcastVars, sweep, connected>>

Shards == 1..NumShards

HubTypeOK ==
    /\ registry \in [Environments -> [Ids -> Streams \cup {NoStream}]]
    /\ life \in [Streams -> {"free", "new", "counting", "subscribed", "closing"}]
    /\ subId \in [Streams -> Ids]
    /\ subEnv \in [Streams -> Environments]
    /\ messages \in [Streams -> Seq(Nat)]
    /\ done \in [Streams -> BOOLEAN]
    /\ bpc \in [Publishers -> {"idle", "rlock", "scan", "evict", "close"}]
    /\ bEnv \in [Publishers -> Environments]
    /\ bMsg \in [Publishers -> Nat]
    /\ bShard \in [Publishers -> Shards]
    /\ todo \in [Publishers -> SUBSET Streams]
    /\ evict \in [Publishers -> SUBSET Streams]
    /\ victim \in [Publishers -> Streams \cup {NoStream}]
    /\ sweep \in 0..(NumShards + 1)
    /\ connected \in Int

HubInit ==
    /\ registry = [e \in Environments |-> [i \in Ids |-> NoStream]]
    /\ life = [s \in Streams |-> "free"]
    /\ subId = [s \in Streams |-> CHOOSE i \in Ids : TRUE]
    /\ subEnv = [s \in Streams |-> CHOOSE e \in Environments : TRUE]
    /\ messages = [s \in Streams |-> <<>>]
    /\ done = [s \in Streams |-> TRUE]
    /\ bpc = [p \in Publishers |-> "idle"]
    /\ bEnv = [p \in Publishers |-> CHOOSE e \in Environments : TRUE]
    /\ bMsg = [p \in Publishers |-> 0]
    /\ bShard = [p \in Publishers |-> 1]
    /\ todo = [p \in Publishers |-> {}]
    /\ evict = [p \in Publishers |-> {}]
    /\ victim = [p \in Publishers |-> NoStream]
    /\ sweep = 0
    /\ connected = 0

-----------------------------------------------------------------------------
Shard(s) == ShardOf[subId[s]]

RLocked(k) == \E p \in Publishers : bpc[p] = "scan" /\ bShard[p] = k

Registered(s) == registry[subEnv[s]][subId[s]] = s

\* A broadcast can still reach the Subscriber after its handler has returned.
Referenced(s) == \E p \in Publishers : s \in evict[p] \/ victim[p] = s

InUse(s) == life[s] # "free" \/ Referenced(s)

FreshId(i) == \A s \in Streams : InUse(s) => subId[s] # i

\* Subscriber.close: idempotent.  The DropReason it records only decides whether
\* the handler adds a resync notice, which carries no id, before it returns.
Close(s) == done' = [done EXCEPT ![s] = TRUE]

\* Faulty variant of Remove: decrements without looking the id up.
RemoveUnchecked(s) ==
    /\ ~RLocked(Shard(s))
    /\ registry' = [registry EXCEPT ![subEnv[s]][subId[s]] = NoStream]
    /\ connected' = connected - 1

\* Faulty variant of Remove: counts the subscriber out but leaves it in the map.
RemoveKeepsEntry(s) ==
    /\ ~RLocked(Shard(s))
    /\ connected' = IF registry[subEnv[s]][subId[s]] # NoStream
                    THEN connected - 1 ELSE connected
    /\ UNCHANGED registry

\* remove, up to its Unlock.  It looks the id up, not the pointer.  The counters that
\* Stats only reports (sent, dropped, slow consumers) are left out.
Remove(s) ==
    /\ ~RLocked(Shard(s))
    /\ registry' = [registry EXCEPT ![subEnv[s]][subId[s]] = NoStream]
    /\ connected' = IF registry[subEnv[s]][subId[s]] # NoStream
                    THEN connected - 1 ELSE connected

-----------------------------------------------------------------------------
(* The connection handler's calls.                                         *)

\* nextSubscriberID, and the Subscriber that is about to be registered.
NewSubscriber(s, i, e) ==
    /\ ~InUse(s)
    /\ life' = [life EXCEPT ![s] = "new"]
    /\ subId' = [subId EXCEPT ![s] = i]
    /\ subEnv' = [subEnv EXCEPT ![s] = e]
    /\ messages' = [messages EXCEPT ![s] = <<>>]
    /\ done' = [done EXCEPT ![s] = FALSE]
    /\ UNCHANGED <<registry, broadcastVars, connected, sweep>>

\* Subscribe, up to its Unlock: an entry under the same id is overwritten.
Subscribe(s) ==
    /\ life[s] = "new"
    /\ ~RLocked(Shard(s))
    /\ life' = [life EXCEPT ![s] = "counting"]
    /\ registry' = [registry EXCEPT ![subEnv[s]][subId[s]] = s]
    /\ UNCHANGED <<subId, subEnv, messages, done, broadcastVars, connected, sweep>>

\* Subscribe's connected.Add(1), after the Unlock.
SubscribeCount(s) ==
    /\ life[s] = "counting"
    /\ life' = [life EXCEPT ![s] = "subscribed"]
    /\ connected' = connected + 1
    /\ UNCHANGED <<registry, subId, subEnv, messages, done, broadcastVars, sweep>>

\* The handler takes the oldest message from its channel.
Receive(s) ==
    /\ life[s] = "subscribed"
    /\ messages[s] # <<>>
    /\ messages' = [messages EXCEPT ![s] = Tail(@)]
    /\ UNCHANGED <<registry, life, subId, subEnv, done, broadcastVars, connected, sweep>>

\* The deferred Unsubscribe: remove, then close.
Unsubscribe(s) ==
    /\ life[s] = "subscribed"
    /\ Remove(s)
    /\ life' = [life EXCEPT ![s] = "closing"]
    /\ UNCHANGED <<subId, subEnv, messages, done, broadcastVars, sweep>>

\* Once the handler has returned nobody receives from the channel again.
UnsubscribeClose(s) ==
    /\ life[s] = "closing"
    /\ Close(s)
    /\ life' = [life EXCEPT ![s] = "free"]
    /\ messages' = [messages EXCEPT ![s] = <<>>]
    /\ UNCHANGED <<registry, subId, subEnv, broadcastVars, connected, sweep>>

-----------------------------------------------------------------------------
(* Broadcast.                                                              *)

BroadcastBegin(p, e, v) ==
    /\ bpc[p] = "idle"
    /\ bpc' = [bpc EXCEPT ![p] = "rlock"]
    /\ bEnv' = [bEnv EXCEPT ![p] = e]
    /\ bMsg' = [bMsg EXCEPT ![p] = v]
    /\ bShard' = [bShard EXCEPT ![p] = 1]
    /\ UNCHANGED <<registry, subscriberVars, todo, evict, victim, connected, sweep>>

\* Faulty variant of RLockShard: sends to every environment of the shard.
RLockShardAll(p) ==
    /\ bpc[p] = "rlock"
    /\ bpc' = [bpc EXCEPT ![p] = "scan"]
    /\ todo' = [todo EXCEPT ![p] = {s \in Streams : \E e \in Environments, i \in Ids :
                                      ShardOf[i] = bShard[p] /\ registry[e][i] = s}]
    /\ UNCHANGED <<registry, subscriberVars, bEnv, bMsg, bShard, evict, victim, connected, sweep>>

\* RLock of the next shard; its registered subscribers are fixed while it is held.
RLockShard(p) ==
    /\ bpc[p] = "rlock"
    /\ bpc' = [bpc EXCEPT ![p] = "scan"]
    /\ todo' = [todo EXCEPT ![p] =
         {s \in Streams : \E i \in Ids : ShardOf[i] = bShard[p] /\ registry[bEnv[p]][i] = s}]
    /\ UNCHANGED <<registry, subscriberVars, bEnv, bMsg, bShard, evict, victim, connected, sweep>>

\* Faulty variant of SendFull: waits for room.
SendFullBlocks(p, s) ==
    /\ FALSE
    /\ UNCHANGED hubVars

\* Faulty variant of SendFull: a full subscriber is skipped and stays registered.
SendFullSkips(p, s) ==
    /\ bpc[p] = "scan" /\ s \in todo[p]
    /\ Len(messages[s]) >= BufferSize
    /\ todo' = [todo EXCEPT ![p] = @ \ {s}]
    /\ UNCHANGED <<registry, subscriberVars, bpc, bEnv, bMsg, bShard, evict, victim,
                   connected, sweep>>

\* The non-blocking send: the message is queued, or the subscriber is condemned.
SendQueued(p, s) ==
    /\ bpc[p] = "scan" /\ s \in todo[p]
    /\ Len(messages[s]) < BufferSize
    /\ messages' = [messages EXCEPT ![s] = Append(@, bMsg[p])]
    /\ todo' = [todo EXCEPT ![p] = @ \ {s}]
    /\ UNCHANGED <<registry, life, subId, subEnv, done, bpc, bEnv, bMsg, bShard, evict,
                   victim, connected, sweep>>

SendFull(p, s) ==
    /\ bpc[p] = "scan" /\ s \in todo[p]
    /\ Len(messages[s]) >= BufferSize
    /\ evict' = [evict EXCEPT ![p] = @ \cup {s}]
    /\ todo' = [todo EXCEPT ![p] = @ \ {s}]
    /\ UNCHANGED <<registry, subscriberVars, bpc, bEnv, bMsg, bShard, victim, connected, sweep>>

Send(p, s) == SendQueued(p, s) \/ SendFull(p, s)

\* Faulty variant of NextShard: one shard too many.
NextShardOverrun(p) ==
    /\ bpc[p] = "scan" /\ todo[p] = {} /\ bShard[p] <= NumShards
    /\ bpc' = [bpc EXCEPT ![p] = "rlock"]
    /\ bShard' = [bShard EXCEPT ![p] = @ + 1]
    /\ UNCHANGED <<registry, subscriberVars, bEnv, bMsg, todo, evict, victim, connected, sweep>>

\* RUnlock: on to the next shard, or to the evictions after the last.
NextShard(p) ==
    /\ bpc[p] = "scan" /\ todo[p] = {} /\ bShard[p] < NumShards
    /\ bpc' = [bpc EXCEPT ![p] = "rlock"]
    /\ bShard' = [bShard EXCEPT ![p] = @ + 1]
    /\ UNCHANGED <<registry, subscriberVars, bEnv, bMsg, todo, evict, victim, connected, sweep>>

ScanEnd(p) ==
    /\ bpc[p] = "scan" /\ todo[p] = {} /\ bShard[p] >= NumShards
    /\ bpc' = [bpc EXCEPT ![p] = "evict"]
    /\ UNCHANGED <<registry, subscriberVars, bEnv, bMsg, bShard, todo, evict, victim,
                   connected, sweep>>

\* The evictions: remove, then close, one subscriber after the other.
EvictRemove(p, s) ==
    /\ bpc[p] = "evict" /\ s \in evict[p]
    /\ Remove(s)
    /\ bpc' = [bpc EXCEPT ![p] = "close"]
    /\ evict' = [evict EXCEPT ![p] = @ \ {s}]
    /\ victim' = [victim EXCEPT ![p] = s]
    /\ UNCHANGED <<subscriberVars, bEnv, bMsg, bShard, todo, sweep>>

\* Faulty variant of EvictClose: removed from the map, never closed.
EvictCloseForgotten(p) ==
    /\ bpc[p] = "close"
    /\ bpc' = [bpc EXCEPT ![p] = "evict"]
    /\ victim' = [victim EXCEPT ![p] = NoStream]
    /\ UNCHANGED <<registry, subscriberVars, bEnv, bMsg, bShard, todo, evict, connected, sweep>>

EvictClose(p) ==
    /\ bpc[p] = "close"
    /\ Close(victim[p])
    /\ bpc' = [bpc EXCEPT ![p] = "evict"]
    /\ victim' = [victim EXCEPT ![p] = NoStream]
    /\ UNCHANGED <<registry, life, subId, subEnv, messages, bEnv, bMsg, bShard, todo, evict,
                   connected, sweep>>

BroadcastEnd(p) ==
    /\ bpc[p] = "evict" /\ evict[p] = {}
    /\ bpc' = [bpc EXCEPT ![p] = "idle"]
    /\ bMsg' = [bMsg EXCEPT ![p] = 0]
    /\ bShard' = [bShard EXCEPT ![p] = 1]
    /\ UNCHANGED <<registry, subscriberVars, bEnv, todo, evict, victim, connected, sweep>>

-----------------------------------------------------------------------------
(* CloseAll, one shard's critical section at a time.                       *)

CloseAllBegin ==
    /\ sweep = 0
    /\ sweep' = 1
    /\ UNCHANGED <<registry, subscriberVars, broadcastVars, connected>>

\* Faulty variant of CloseAllShard: the map is replaced, nobody is closed.
CloseAllShardForgotten ==
    LET in == {i \in Ids : ShardOf[i] = sweep} IN
    /\ sweep \in Shards
    /\ ~RLocked(sweep)
    /\ registry' = [e \in Environments |->
                      [i \in Ids |-> IF i \in in THEN NoStream ELSE registry[e][i]]]
    /\ connected' = connected -
         Cardinality({ei \in Environments \X in : registry[ei[1]][ei[2]] # NoStream})
    /\ sweep' = sweep + 1
    /\ UNCHANGED <<subscriberVars, broadcastVars>>

\* Faulty variant of CloseAllShard: the gauge is left to the handlers' remove.
CloseAllShardUncounted ==
    LET in   == {i \in Ids : ShardOf[i] = sweep}
        subs == {s \in Streams : \E e \in Environments, i \in in : registry[e][i] = s} IN
    /\ sweep \in Shards
    /\ ~RLocked(sweep)
    /\ done' = [s \in Streams |-> done[s] \/ s \in subs]
    /\ registry' = [e \in Environments |->
                      [i \in Ids |-> IF i \in in THEN NoStream ELSE registry[e][i]]]
    /\ sweep' = sweep + 1
    /\ UNCHANGED <<life, subId, subEnv, messages, broadcastVars, connected>>

CloseAllShard ==
    LET in   == {i \in Ids : ShardOf[i] = sweep}
        subs == {s \in Streams : \E e \in Environments, i \in in : registry[e][i] = s} IN
    /\ sweep \in Shards
    /\ ~RLocked(sweep)
    /\ done' = [s \in Streams |-> done[s] \/ s \in subs]
    /\ registry' = [e \in Environments |->
                      [i \in Ids |-> IF i \in in THEN NoStream ELSE registry[e][i]]]
    /\ connected' = connected -
         Cardinality({ei \in Environments \X in : registry[ei[1]][ei[2]] # NoStream})
    /\ sweep' = sweep + 1
    /\ UNCHANGED <<life, subId, subEnv, messages, broadcastVars>>
=============================================================================
