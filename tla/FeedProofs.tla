----------------------------- MODULE FeedProofs -----------------------------
(***************************************************************************)
(* The data plane implements RulesetFeed: seen from its clients, its       *)
(* store, hub, connections and bounded history amount to environments      *)
(* whose versions only move forward and clients that only move to newer    *)
(* published versions of what they watch.                                  *)
(*                                                                         *)
(* A step of the data plane maps to a publish, to one client's advance, to *)
(* a switch of environment, or to nothing.  That a frame is one client's   *)
(* advance needs that no two clients share a connection; that it is an     *)
(* advance to a published version needs that every version in a channel, a *)
(* broadcast or a replay was accepted in the right environment.  The same  *)
(* facts keep a client's cursors within the environment it watches.        *)
(***************************************************************************)
EXTENDS DeliveryProofs

ConnectionsDistinct ==
    \A c, d \in Clients : conn[c] = conn[d] /\ conn[c] # NoStream => c = d

QueuedAreAccepted ==
    \A s \in Streams : \A i \in 1..Len(messages[s]) : messages[s][i] \in accepted[subEnv[s]]

BroadcastsAreAccepted ==
    \A p \in Publishers : bpc[p] \in {"rlock", "scan"} => bMsg[p] \in accepted[bEnv[p]]

ReplaysAreAccepted ==
    \A s \in Streams : hpc[s] = "write" =>
        /\ life[s] = "subscribed"
        /\ \A i \in 1..Len(out[s]) : out[s][i] \in accepted[subEnv[s]]

AcceptedAreVersions == \A e \in Environments : accepted[e] \subseteq Versions

CarriedInv ==
    /\ ConnectionsDistinct /\ AcceptedAreVersions
    /\ QueuedAreAccepted /\ BroadcastsAreAccepted /\ ReplaysAreAccepted

-----------------------------------------------------------------------------
\* A connection is new to everybody, or is given up.
LEMMA ConnectionsStep ==
    ASSUME TypeOK, StreamInv, ConnectionsDistinct, [Next]_vars
    PROVE  ConnectionsDistinct'
<1> USE NoStreamAssumption
<1>0. conn \in [Clients -> Streams \cup {NoStream}]
  BY DEF TypeOK
<1>1. CASE \A c \in Clients : conn'[c] = conn[c] \/ conn'[c] = NoStream
  BY <1>1 DEF ConnectionsDistinct
<1>2. ASSUME NEW c \in Clients, NEW s \in Streams, NEW i \in Ids, Connect(c, s, i)
      PROVE  ConnectionsDistinct'
  <2>1. life[s] = "free" /\ conn' = [conn EXCEPT ![c] = s]
    BY <1>2 DEF Connect, NewSubscriber, InUse
  <2>2. \A d \in Clients : conn[d] # s
    BY <2>1 DEF StreamInv, ConnectedAreServed
  <2> QED
    BY <1>0, <2>1, <2>2 DEF ConnectionsDistinct
<1>3. ASSUME NEW s \in Streams, HandlerStep(s)
      PROVE  \A c \in Clients : conn'[c] = conn[c] \/ conn'[c] = NoStream
  BY <1>3 DEF HandlerStep, HandleSubscribe, HandleSubscribed, Replay, FullResync, WriteMissed,
              EnterLoop, Forward, Return, Returned, clientVars
<1>4. ASSUME \/ \E c \in Clients : Disconnect(c) \/ ConnectRefused(c)
             \/ \E c \in Clients, e \in Environments : SwitchEnvironment(c, e)
      PROVE  \A c \in Clients : conn'[c] = conn[c] \/ conn'[c] = NoStream
  BY <1>0, <1>4 DEF Disconnect, ConnectRefused, SwitchEnvironment
<1>5. ASSUME \/ \E p \in Publishers, e \in Environments, v \in Versions : HandlePublish(p, e, v)
             \/ \E p \in Publishers : BroadcastStep(p)
             \/ ShutdownBegin \/ ShutdownCloseShard \/ ShutdownListener \/ UNCHANGED vars
      PROVE  UNCHANGED conn
  BY <1>5 DEF HandlePublish, BroadcastStep, ShutdownBegin, ShutdownCloseShard, ShutdownListener,
              vars, clientVars
<1> QED
  BY <1>1, <1>2, <1>3, <1>4, <1>5 DEF Next

\* What was accepted stays accepted.
LEMMA AcceptedGrows ==
    ASSUME TypeOK, AcceptedAreVersions, [Next]_vars
    PROVE  /\ \A e \in Environments : accepted[e] \subseteq accepted'[e]
           /\ AcceptedAreVersions'
<1>1. ASSUME NEW p \in Publishers, NEW e \in Environments, NEW v \in Versions,
             HandlePublish(p, e, v)
      PROVE  /\ \A x \in Environments : accepted[x] \subseteq accepted'[x]
             /\ AcceptedAreVersions'
  <2>1. accepted' = [accepted EXCEPT ![e] = @ \cup {v}]
    BY <1>1 DEF HandlePublish, StorePublish
  <2> QED
    BY <2>1 DEF AcceptedAreVersions, TypeOK, StoreTypeOK
<1>2. ASSUME NEW s \in Streams, HandlerStep(s)
      PROVE  UNCHANGED accepted
  BY <1>2 DEF HandlerStep, HandleSubscribe, HandleSubscribed, Replay, FullResync, WriteMissed,
              EnterLoop, Forward, Return, Returned, storeVars
<1>3. ASSUME \/ \E p \in Publishers : BroadcastStep(p)
             \/ \E c \in Clients, s \in Streams, i \in Ids : Connect(c, s, i)
             \/ \E c \in Clients : Disconnect(c) \/ ConnectRefused(c)
             \/ \E c \in Clients, e \in Environments : SwitchEnvironment(c, e)
             \/ ShutdownBegin \/ ShutdownCloseShard \/ ShutdownListener \/ UNCHANGED vars
      PROVE  UNCHANGED accepted
  BY <1>3 DEF BroadcastStep, Connect, Disconnect, ConnectRefused, SwitchEnvironment,
              ShutdownBegin, ShutdownCloseShard, ShutdownListener, vars, storeVars
<1>4. CASE UNCHANGED accepted
  BY <1>4 DEF AcceptedAreVersions
<1> QED
  BY <1>1, <1>2, <1>3, <1>4 DEF Next

\* A broadcast carries the version its publish was accepted with.
LEMMA BroadcastsStep ==
    ASSUME TypeOK, BroadcastsAreAccepted, [Next]_vars,
           \A e \in Environments : accepted[e] \subseteq accepted'[e]
    PROVE  BroadcastsAreAccepted'
<1>0. HubTypeOK
  BY DEF TypeOK
<1>1. ASSUME NEW p \in Publishers, NEW e \in Environments, NEW v \in Versions,
             HandlePublish(p, e, v)
      PROVE  BroadcastsAreAccepted'
  <2>1. v \in accepted'[e]
    BY <1>1 DEF HandlePublish, StorePublish, TypeOK, StoreTypeOK
  <2>2. /\ bpc' = [bpc EXCEPT ![p] = "rlock"] /\ bEnv' = [bEnv EXCEPT ![p] = e]
        /\ bMsg' = [bMsg EXCEPT ![p] = v]
    BY <1>1 DEF HandlePublish, BroadcastBegin
  <2> SUFFICES ASSUME NEW q \in Publishers, bpc'[q] \in {"rlock", "scan"}
               PROVE  bMsg'[q] \in accepted'[bEnv'[q]]
    BY DEF BroadcastsAreAccepted
  <2>3. CASE q = p
    BY <1>0, <2>1, <2>2, <2>3 DEF HubTypeOK
  <2>4. CASE q # p
    <3>1. bpc'[q] = bpc[q] /\ bEnv'[q] = bEnv[q] /\ bMsg'[q] = bMsg[q] /\ bEnv[q] \in Environments
      BY <1>0, <2>2, <2>4 DEF HubTypeOK
    <3> QED
      BY <3>1 DEF BroadcastsAreAccepted
  <2> QED
    BY <2>3, <2>4
<1>2. CASE /\ UNCHANGED bEnv
           /\ \A q \in Publishers : bpc'[q] \in {"rlock", "scan"} =>
                bpc[q] \in {"rlock", "scan"} /\ bMsg'[q] = bMsg[q]
  BY <1>0, <1>2 DEF BroadcastsAreAccepted, HubTypeOK
<1>3. ASSUME NEW p \in Publishers, BroadcastStep(p)
      PROVE  /\ UNCHANGED bEnv
             /\ \A q \in Publishers : bpc'[q] \in {"rlock", "scan"} =>
                  bpc[q] \in {"rlock", "scan"} /\ bMsg'[q] = bMsg[q]
  <2>1. CASE RLockShard(p) \/ NextShard(p) \/ \E s \in Streams : Send(p, s)
    BY <1>0, <2>1 DEF RLockShard, NextShard, Send, SendQueued, SendFull, HubTypeOK
  <2>2. CASE ScanEnd(p) \/ EvictClose(p) \/ BroadcastEnd(p) \/ \E s \in Streams : EvictRemove(p, s)
    BY <1>0, <2>2 DEF ScanEnd, EvictClose, BroadcastEnd, EvictRemove, HubTypeOK
  <2> QED
    BY <1>3, <2>1, <2>2 DEF BroadcastStep
<1>4. ASSUME NEW s \in Streams, HandlerStep(s)
      PROVE  UNCHANGED broadcastVars
  BY <1>4 DEF HandlerStep, HandleSubscribe, Subscribe, HandleSubscribed, SubscribeCount, Replay,
              FullResync, WriteMissed, EnterLoop, Forward, Receive, Return, Unsubscribe, Returned,
              UnsubscribeClose, hubVars
<1>5. ASSUME \/ \E c \in Clients, s \in Streams, i \in Ids : Connect(c, s, i)
             \/ \E c \in Clients : Disconnect(c) \/ ConnectRefused(c)
             \/ \E c \in Clients, e \in Environments : SwitchEnvironment(c, e)
             \/ ShutdownBegin \/ ShutdownCloseShard \/ ShutdownListener \/ UNCHANGED vars
      PROVE  UNCHANGED broadcastVars
  BY <1>5 DEF Connect, NewSubscriber, Disconnect, ConnectRefused, SwitchEnvironment, ShutdownBegin,
              CloseAllBegin, ShutdownCloseShard, CloseAllShard, ShutdownListener, vars, hubVars
<1>6. CASE UNCHANGED broadcastVars
  BY <1>2, <1>6 DEF broadcastVars
<1> QED
  BY <1>1, <1>2, <1>3, <1>4, <1>5, <1>6 DEF Next

\* A sequence's tail and its extension, member by member.
LEMMA TailMembers ==
    ASSUME NEW q \in Seq(Nat), q # <<>>, NEW A, \A i \in 1..Len(q) : q[i] \in A
    PROVE  /\ Head(q) \in A
           /\ \A i \in 1..Len(Tail(q)) : Tail(q)[i] \in A
<1>1. Len(q) \in Nat /\ Len(q) > 0 /\ Head(q) = q[1]
  OBVIOUS
<1>2. Len(Tail(q)) = Len(q) - 1 /\ \A i \in 1..Len(Tail(q)) : Tail(q)[i] = q[i + 1]
  OBVIOUS
<1> QED
  BY <1>1, <1>2

LEMMA AppendMembers ==
    ASSUME NEW q \in Seq(Nat), NEW v \in Nat, NEW A, v \in A, \A i \in 1..Len(q) : q[i] \in A
    PROVE  \A i \in 1..Len(Append(q, v)) : Append(q, v)[i] \in A
<1>1. Len(q) \in Nat /\ Len(Append(q, v)) = Len(q) + 1
  OBVIOUS
<1>2. \A i \in 1..Len(q) : Append(q, v)[i] = q[i]
  OBVIOUS
<1>3. Append(q, v)[Len(q) + 1] = v
  OBVIOUS
<1> QED
  BY <1>1, <1>2, <1>3

\* Channels are filled by scans of the subscriber's own environment.
LEMMA QueuesStep ==
    ASSUME TypeOK, HubInv, QueuedAreAccepted, BroadcastsAreAccepted, [Next]_vars,
           \A e \in Environments : accepted[e] \subseteq accepted'[e]
    PROVE  QueuedAreAccepted'
<1>0. HubTypeOK
  BY DEF TypeOK
<1>1. \A t \in Streams : /\ messages[t] \in Seq(Nat) /\ subEnv[t] \in Environments
                         /\ \A i \in 1..Len(messages[t]) : messages[t][i] \in accepted'[subEnv[t]]
  BY <1>0 DEF QueuedAreAccepted, HubTypeOK
<1>2. CASE UNCHANGED <<messages, subEnv>>
  BY <1>1, <1>2 DEF QueuedAreAccepted
<1>3. ASSUME NEW s \in Streams, messages' = [messages EXCEPT ![s] = <<>>],
             \A t \in Streams \ {s} : subEnv'[t] = subEnv[t]
      PROVE  QueuedAreAccepted'
  <2> SUFFICES ASSUME NEW t \in Streams, NEW i \in 1..Len(messages'[t])
               PROVE  messages'[t][i] \in accepted'[subEnv'[t]]
    BY DEF QueuedAreAccepted
  <2>1. t # s
    <3>1. messages'[s] = <<>>
      BY <1>0, <1>3 DEF HubTypeOK
    <3> QED
      BY <3>1
  <2>2. messages'[t] = messages[t]
    BY <1>0, <1>3, <2>1 DEF HubTypeOK
  <2> QED
    BY <1>1, <1>3, <2>1, <2>2
<1>4. ASSUME NEW p \in Publishers, NEW s \in Streams, SendQueued(p, s)
      PROVE  QueuedAreAccepted'
  <2>1. bMsg[p] \in accepted[bEnv[p]] /\ bMsg[p] \in Nat /\ bEnv[p] \in Environments
    BY <1>0, <1>4 DEF SendQueued, BroadcastsAreAccepted, HubTypeOK
  <2>2. subEnv[s] = bEnv[p]
    BY <1>4 DEF SendQueued, HubInv, ScansAreCurrent
  <2>3. bMsg[p] \in accepted'[subEnv[s]]
    BY <2>1, <2>2
  <2>4. \A i \in 1..Len(Append(messages[s], bMsg[p])) :
           Append(messages[s], bMsg[p])[i] \in accepted'[subEnv[s]]
    BY <1>1, <2>1, <2>3, AppendMembers
  <2>5. \A t \in Streams : messages'[t] = IF t = s THEN Append(messages[s], bMsg[p]) ELSE messages[t]
    BY <1>0, <1>4 DEF SendQueued, HubTypeOK
  <2>6. UNCHANGED subEnv
    BY <1>4 DEF SendQueued
  <2> QED
    BY <1>1, <2>4, <2>5, <2>6 DEF QueuedAreAccepted
<1>5. ASSUME NEW s \in Streams, Receive(s)
      PROVE  QueuedAreAccepted'
  <2>1. messages[s] # <<>> /\ UNCHANGED subEnv
    BY <1>5 DEF Receive
  <2>2. \A i \in 1..Len(Tail(messages[s])) : Tail(messages[s])[i] \in accepted'[subEnv[s]]
    BY <1>1, <2>1, TailMembers
  <2>3. \A t \in Streams : messages'[t] = IF t = s THEN Tail(messages[s]) ELSE messages[t]
    BY <1>0, <1>5 DEF Receive, HubTypeOK
  <2> QED
    BY <1>1, <2>1, <2>2, <2>3 DEF QueuedAreAccepted
<1>6. ASSUME NEW p \in Publishers, BroadcastStep(p)
      PROVE  QueuedAreAccepted'
  <2>1. CASE \/ RLockShard(p) \/ NextShard(p) \/ ScanEnd(p) \/ EvictClose(p) \/ BroadcastEnd(p)
             \/ \E s \in Streams : SendFull(p, s) \/ EvictRemove(p, s)
    BY <1>2, <2>1 DEF RLockShard, NextShard, ScanEnd, EvictClose, BroadcastEnd, SendFull, EvictRemove,
                      subscriberVars
  <2> QED
    BY <1>4, <1>6, <2>1 DEF BroadcastStep, Send
<1>7. ASSUME NEW c \in Clients, NEW s \in Streams, NEW i \in Ids, Connect(c, s, i)
      PROVE  QueuedAreAccepted'
  <2>1. messages' = [messages EXCEPT ![s] = <<>>] /\ \A t \in Streams \ {s} : subEnv'[t] = subEnv[t]
    BY <1>0, <1>7 DEF Connect, NewSubscriber, HubTypeOK
  <2> QED
    BY <1>3, <2>1
<1>8. ASSUME NEW s \in Streams, HandlerStep(s)
      PROVE  QueuedAreAccepted'
  <2>1. CASE Returned(s)
    <3>1. messages' = [messages EXCEPT ![s] = <<>>] /\ UNCHANGED subEnv
      BY <2>1 DEF Returned, UnsubscribeClose
    <3> QED
      BY <1>3, <3>1
  <2>2. CASE Forward(s)
    BY <1>5, <2>2 DEF Forward
  <2>3. CASE \/ HandleSubscribe(s) \/ HandleSubscribed(s) \/ Replay(s) \/ FullResync(s)
             \/ WriteMissed(s) \/ EnterLoop(s) \/ Return(s)
    <3>1. UNCHANGED <<messages, subEnv>>
      BY <2>3 DEF HandleSubscribe, Subscribe, HandleSubscribed, SubscribeCount, Replay, FullResync,
                  WriteMissed, EnterLoop, Return, Unsubscribe, hubVars, subscriberVars
    <3> QED
      BY <1>2, <3>1
  <2> QED
    BY <1>8, <2>1, <2>2, <2>3 DEF HandlerStep
<1>9. ASSUME \/ \E p \in Publishers, e \in Environments, v \in Versions : HandlePublish(p, e, v)
             \/ \E c \in Clients : Disconnect(c) \/ ConnectRefused(c)
             \/ \E c \in Clients, e \in Environments : SwitchEnvironment(c, e)
             \/ ShutdownBegin \/ ShutdownCloseShard \/ ShutdownListener \/ UNCHANGED vars
      PROVE  UNCHANGED <<messages, subEnv>>
  BY <1>9 DEF HandlePublish, BroadcastBegin, Disconnect, ConnectRefused, SwitchEnvironment,
              ShutdownBegin, CloseAllBegin, ShutdownCloseShard, CloseAllShard, ShutdownListener,
              vars, hubVars, subscriberVars
<1> QED
  BY <1>2, <1>6, <1>7, <1>8, <1>9 DEF Next

\* The store serves what it accepted.
LEMMA StoredAreAccepted ==
    ASSUME StoreInv, NEW e \in Environments
    PROVE  /\ Known(e) => current[e] \in accepted[e] /\ current[e] \in Nat
           /\ \A i \in 1..Len(history[e]) : history[e][i] \in accepted[e]
<1>1. \A i \in 1..Len(history[e]) : history[e][i] \in accepted[e]
  BY DEF StoreInv, HistoryOrdered
<1>2. ASSUME Known(e) PROVE current[e] \in accepted[e]
  <2>1. Len(history[e]) > 0 /\ history[e][Len(history[e])] = current[e]
    BY <1>2 DEF StoreInv, HistoryOrdered
  <2>2. Len(history[e]) \in Nat
    BY DEF StoreInv, StoreTypeOK
  <2> QED
    BY <1>1, <2>1, <2>2
<1> QED
  BY <1>1, <1>2 DEF StoreInv, StoreTypeOK

\* A replay walks over snapshots of its own environment.
LEMMA ReplaysStep ==
    ASSUME TypeOK, StoreInv, ReplaysAreAccepted, [Next]_vars,
           \A e \in Environments : accepted[e] \subseteq accepted'[e]
    PROVE  ReplaysAreAccepted'
<1>0. HubTypeOK /\ hpc \in [Streams -> {"replay", "resync", "write", "loop"}] /\ out \in [Streams -> Seq(Nat)]
  BY DEF TypeOK
<1>1. \A t \in Streams : hpc[t] = "write" =>
        /\ life[t] = "subscribed" /\ out[t] \in Seq(Nat) /\ subEnv[t] \in Environments
        /\ \A i \in 1..Len(out[t]) : out[t][i] \in accepted'[subEnv[t]]
  BY <1>0 DEF ReplaysAreAccepted, HubTypeOK
\* A step that starts no replay and moves no handler that is in one.
<1>2. CASE \A t \in Streams : hpc'[t] = "write" =>
             /\ hpc[t] = "write" /\ life'[t] = life[t] /\ subEnv'[t] = subEnv[t]
             /\ out'[t] = out[t]
  BY <1>1, <1>2 DEF ReplaysAreAccepted
<1>3. ASSUME NEW s \in Streams, Running(s, "replay") \/ Running(s, "resync") \/ Running(s, "write"),
             NEW q, out' = [out EXCEPT ![s] = q], UNCHANGED <<life, subEnv>>,
             \A t \in Streams \ {s} : hpc'[t] = hpc[t],
             \A i \in 1..Len(q) : q[i] \in accepted[subEnv[s]]
      PROVE  ReplaysAreAccepted'
  <2> SUFFICES ASSUME NEW t \in Streams, hpc'[t] = "write"
               PROVE  life[t] = "subscribed" /\ \A i \in 1..Len(out'[t]) : out'[t][i] \in accepted'[subEnv[t]]
    BY <1>3 DEF ReplaysAreAccepted
  <2>1. CASE t = s
    <3>1. out'[t] = q
      BY <1>0, <1>3, <2>1
    <3>2. subEnv[s] \in Environments
      BY <1>0 DEF HubTypeOK
    <3> QED
      BY <1>3, <2>1, <3>1, <3>2 DEF Running
  <2>2. CASE t # s
    <3>1. out'[t] = out[t] /\ hpc[t] = "write"
      BY <1>0, <1>3, <2>2
    <3> QED
      BY <1>1, <3>1
  <2> QED
    BY <2>1, <2>2
<1>4. ASSUME NEW s \in Streams, Replay(s) \/ FullResync(s)
      PROVE  ReplaysAreAccepted'
  <2> DEFINE e == subEnv[s]
  <2>1. e \in Environments
    BY <1>0 DEF HubTypeOK
  <2>2. UNCHANGED <<life, subEnv>> /\ (Running(s, "replay") \/ Running(s, "resync"))
    BY <1>4 DEF Replay, FullResync, hubVars, subscriberVars
  <2>3. \A t \in Streams \ {s} : hpc'[t] = hpc[t]
    BY <1>0, <1>4 DEF Replay, FullResync
  <2>4. CASE UNCHANGED out /\ hpc' = [hpc EXCEPT ![s] = "resync"]
    BY <1>0, <1>2, <2>2, <2>4
  <2>5. ASSUME NEW q, out' = [out EXCEPT ![s] = q],
               q = <<>> \/ (Known(e) /\ q = <<current[e]>>) \/ q = history[e]
        PROVE  ReplaysAreAccepted'
    <3>1. \A i \in 1..Len(q) : q[i] \in accepted[e]
      BY <2>1, <2>5, StoredAreAccepted
    <3> QED
      BY <1>3, <2>2, <2>3, <2>5, <3>1
  <2> QED
    BY <1>4, <2>4, <2>5 DEF Replay, FullResync, ResumeSource
<1>5. ASSUME NEW s \in Streams, WriteMissed(s)
      PROVE  ReplaysAreAccepted'
  <2>1. /\ Running(s, "write") /\ out[s] # <<>> /\ out' = [out EXCEPT ![s] = Tail(out[s])]
        /\ UNCHANGED <<life, subEnv, hpc>>
    BY <1>5 DEF WriteMissed, hubVars, subscriberVars
  <2>2. \A i \in 1..Len(Tail(out[s])) : Tail(out[s])[i] \in accepted[subEnv[s]]
    <3>1. out[s] \in Seq(Nat) /\ \A i \in 1..Len(out[s]) : out[s][i] \in accepted[subEnv[s]]
      BY <1>0, <2>1 DEF ReplaysAreAccepted, Running
    <3> QED
      BY <2>1, <3>1, TailMembers
  <2> QED
    BY <1>3, <2>1, <2>2
<1>6. ASSUME NEW s \in Streams,
             \/ HandleSubscribe(s) \/ HandleSubscribed(s) \/ EnterLoop(s) \/ Forward(s)
             \/ Return(s) \/ Returned(s)
      PROVE  ReplaysAreAccepted'
  <2>1. UNCHANGED <<out, subEnv>>
    BY <1>6 DEF HandleSubscribe, Subscribe, HandleSubscribed, SubscribeCount, EnterLoop, Forward,
                Receive, Return, Unsubscribe, Returned, UnsubscribeClose, handlerVars, hubVars,
                subscriberVars
  <2>2. ASSUME NEW t \in Streams, hpc'[t] = "write"
        PROVE  hpc[t] = "write" /\ life'[t] = life[t]
    <3>1. hpc[t] = "write" /\ (t = s => EnterLoop(s) \/ HandleSubscribe(s) \/ Forward(s) \/ Return(s))
      BY <1>0, <1>6, <2>2 DEF HandleSubscribe, HandleSubscribed, EnterLoop, Forward, Return,
                              Returned, handlerVars
    <3>2. CASE t # s
      BY <1>0, <1>6, <3>1, <3>2 DEF HandleSubscribe, Subscribe, HandleSubscribed, SubscribeCount,
          EnterLoop, Forward, Receive, Return, Unsubscribe, Returned, UnsubscribeClose, hubVars,
          subscriberVars, HubTypeOK
    <3>3. CASE t = s
      <4>1. life[s] = "subscribed"
        BY <1>1, <3>1, <3>3
      <4>2. ~HandleSubscribe(s) /\ ~Forward(s) /\ ~Return(s)
        BY <3>1, <3>3, <4>1 DEF HandleSubscribe, Subscribe, Forward, Return, Running
      <4> QED
        BY <3>1, <3>3, <4>2 DEF EnterLoop, hubVars, subscriberVars
    <3> QED
      BY <3>2, <3>3
  <2> QED
    BY <1>2, <2>1, <2>2
<1>7. ASSUME NEW c \in Clients, NEW s \in Streams, NEW i \in Ids, Connect(c, s, i)
      PROVE  ReplaysAreAccepted'
  <2>1. UNCHANGED <<hpc, out>> /\ life[s] = "free"
    BY <1>7 DEF Connect, NewSubscriber, InUse
  <2>2. hpc[s] # "write"
    BY <1>1, <2>1
  <2>3. \A t \in Streams \ {s} : life'[t] = life[t] /\ subEnv'[t] = subEnv[t]
    BY <1>0, <1>7 DEF Connect, NewSubscriber, HubTypeOK
  <2> QED
    BY <1>2, <2>1, <2>2, <2>3
<1>8. ASSUME NEW p \in Publishers, BroadcastStep(p)
      PROVE  UNCHANGED <<hpc, out, life, subEnv>>
  BY <1>8 DEF BroadcastStep, RLockShard, Send, SendQueued, SendFull, NextShard, ScanEnd, EvictRemove,
              EvictClose, BroadcastEnd, handlerVars, subscriberVars
<1>9. ASSUME \/ \E p \in Publishers, e \in Environments, v \in Versions : HandlePublish(p, e, v)
             \/ \E c \in Clients : Disconnect(c) \/ ConnectRefused(c)
             \/ \E c \in Clients, e \in Environments : SwitchEnvironment(c, e)
             \/ ShutdownBegin \/ ShutdownCloseShard \/ ShutdownListener \/ UNCHANGED vars
      PROVE  UNCHANGED <<hpc, out, life, subEnv>>
  BY <1>9 DEF HandlePublish, BroadcastBegin, Disconnect, ConnectRefused, SwitchEnvironment,
              ShutdownBegin, CloseAllBegin, ShutdownCloseShard, CloseAllShard, ShutdownListener,
              vars, hubVars, subscriberVars, handlerVars
<1>10. CASE UNCHANGED <<hpc, out, life, subEnv>>
  BY <1>2, <1>10
<1> QED
  BY <1>4, <1>5, <1>6, <1>7, <1>8, <1>9, <1>10 DEF Next, HandlerStep

-----------------------------------------------------------------------------
FeedInv == DeliveryInv /\ CarriedInv

LEMMA InitFeed == Init => FeedInv
<1> SUFFICES ASSUME Init PROVE FeedInv
  OBVIOUS
<1>1. /\ conn = [c \in Clients |-> NoStream] /\ hpc = [s \in Streams |-> "replay"]
      /\ messages = [s \in Streams |-> <<>>] /\ bpc = [p \in Publishers |-> "idle"]
      /\ accepted = [e \in Environments |-> {}]
  BY DEF Init, HubInit, StoreInit
<1>2. CarriedInv
  BY <1>1 DEF CarriedInv, ConnectionsDistinct, AcceptedAreVersions, QueuedAreAccepted,
              BroadcastsAreAccepted, ReplaysAreAccepted
<1> QED
  BY <1>2, InitDelivery DEF FeedInv

LEMMA StepFeed ==
    ASSUME ClockAssumption, FeedInv, [Next]_vars
    PROVE  FeedInv'
<1>1. TypeOK /\ StoreInv /\ StreamInv /\ HubInv /\ DeliveryInv
  BY DEF FeedInv, DeliveryInv, StreamInv
<1>2. CarriedInv
  BY DEF FeedInv
<1>3. (\A e \in Environments : accepted[e] \subseteq accepted'[e]) /\ AcceptedAreVersions'
  BY <1>1, <1>2, AcceptedGrows DEF CarriedInv
<1>4. ConnectionsDistinct' /\ BroadcastsAreAccepted'
  BY <1>1, <1>2, <1>3, ConnectionsStep, BroadcastsStep DEF CarriedInv
<1>5. QueuedAreAccepted' /\ ReplaysAreAccepted'
  BY <1>1, <1>2, <1>3, QueuesStep, ReplaysStep DEF CarriedInv
<1>6. DeliveryInv'
  BY <1>1, StepDelivery
<1> QED
  BY <1>3, <1>4, <1>5, <1>6 DEF FeedInv, CarriedInv

-----------------------------------------------------------------------------
(* The step simulation.                                                    *)

FeedStep == Feed!FeedNext \/ UNCHANGED Feed!feedVars

\* An accepted publish is a publish of the feed: what was accepted before is older.
LEMMA PublishSimulates ==
    ASSUME FeedInv, NEW p \in Publishers, NEW e \in Environments, NEW v \in Versions,
           HandlePublish(p, e, v)
    PROVE  Feed!FeedPublish(e, v)
<1>1. /\ ~Stale(e, v) /\ accepted' = [accepted EXCEPT ![e] = @ \cup {v}]
      /\ UNCHANGED <<env, ver>>
  BY DEF HandlePublish, StorePublish, clientVars
<1>2. \A w \in accepted[e] : w \in Nat /\ w <= current[e]
  BY DEF FeedInv, DeliveryInv, StoreInv, DroppedAreOlder, StoreTypeOK
<1>3. current[e] \in Nat /\ v \in Nat
  BY MaxVersionAssumption DEF FeedInv, DeliveryInv, StoreInv, StoreTypeOK, Versions
<1>4. \A w \in accepted[e] : w < v
  BY <1>1, <1>2, <1>3 DEF Stale
<1> QED
  BY <1>1, <1>4 DEF Feed!FeedPublish

\* A frame advances the one client at the other end, or changes nothing it holds.
LEMMA EmitSimulates ==
    ASSUME FeedInv, NEW s \in Streams, NEW v, v \in accepted[subEnv[s]], Emit(s, v),
           UNCHANGED <<accepted, env>>
    PROVE  FeedStep
<1> USE NoStreamAssumption
<1>1. ver \in [Clients -> Nat] /\ ver' = [c \in Clients |-> IF conn[c] = s /\ v > ver[c] THEN v ELSE ver[c]]
  BY DEF FeedInv, DeliveryInv, TypeOK, Emit
<1>2. CASE \A c \in Clients : ~(conn[c] = s /\ v > ver[c])
  <2>1. ver' = ver
    BY <1>1, <1>2
  <2> QED
    BY <2>1 DEF FeedStep, Feed!feedVars
<1>3. ASSUME NEW c \in Clients, conn[c] = s, v > ver[c]
      PROVE  FeedStep
  <2>1. \A d \in Clients : conn[d] = s <=> d = c
    BY <1>3 DEF FeedInv, CarriedInv, ConnectionsDistinct
  <2>2. ver' = [ver EXCEPT ![c] = v]
    BY <1>1, <1>3, <2>1
  <2>3. env[c] = subEnv[s]
    BY <1>3 DEF FeedInv, DeliveryInv, StreamInv, ConnectedAreServed
  <2>4. subEnv[s] \in Environments
    BY DEF FeedInv, DeliveryInv, TypeOK, HubTypeOK
  <2>5. v \in Versions
    BY <2>4 DEF FeedInv, CarriedInv, AcceptedAreVersions
  <2>6. Feed!FeedAdvance(c, v)
    BY <1>3, <2>2, <2>3 DEF Feed!FeedAdvance
  <2> QED
    BY <2>5, <2>6 DEF FeedStep, Feed!FeedNext
<1> QED
  BY <1>2, <1>3

LEMMA HandlerSimulates ==
    ASSUME FeedInv, NEW s \in Streams, HandlerStep(s)
    PROVE  FeedStep
<1>0. TypeOK /\ HubTypeOK
  BY DEF FeedInv, DeliveryInv, TypeOK
<1>1. CASE WriteMissed(s)
  <2>1. UNCHANGED <<accepted, env>> /\ Running(s, "write") /\ out[s] # <<>>
    BY <1>1 DEF WriteMissed, storeVars
  <2>2. Head(out[s]) \in accepted[subEnv[s]]
    <3>1. out[s] \in Seq(Nat) /\ \A i \in 1..Len(out[s]) : out[s][i] \in accepted[subEnv[s]]
      BY <1>0, <2>1 DEF FeedInv, CarriedInv, ReplaysAreAccepted, Running, TypeOK
    <3> QED
      BY <2>1, <3>1, TailMembers
  <2>3. Emit(s, Head(out[s])) \/ UNCHANGED ver
    BY <1>1 DEF WriteMissed
  <2>4. CASE UNCHANGED ver
    BY <2>1, <2>4 DEF FeedStep, Feed!feedVars
  <2> QED
    BY <2>1, <2>2, <2>3, <2>4, EmitSimulates
<1>2. CASE Forward(s)
  <2>1. UNCHANGED <<accepted, env>> /\ messages[s] # <<>> /\ Emit(s, Head(messages[s]))
    BY <1>2 DEF Forward, Receive, storeVars
  <2>2. Head(messages[s]) \in accepted[subEnv[s]]
    <3>1. messages[s] \in Seq(Nat) /\ \A i \in 1..Len(messages[s]) : messages[s][i] \in accepted[subEnv[s]]
      BY <1>0 DEF FeedInv, CarriedInv, QueuedAreAccepted, HubTypeOK
    <3> QED
      BY <2>1, <3>1, TailMembers
  <2> QED
    BY <2>1, <2>2, EmitSimulates
<1>3. CASE \/ HandleSubscribe(s) \/ HandleSubscribed(s) \/ Replay(s) \/ FullResync(s)
           \/ EnterLoop(s) \/ Return(s) \/ Returned(s)
  <2>1. UNCHANGED <<accepted, env, ver>>
    BY <1>3 DEF HandleSubscribe, HandleSubscribed, Replay, FullResync, EnterLoop, Return, Returned,
                storeVars, clientVars
  <2> QED
    BY <2>1 DEF FeedStep, Feed!feedVars
<1> QED
  BY <1>1, <1>2, <1>3 DEF HandlerStep

LEMMA StepSimulates ==
    ASSUME FeedInv, [Next]_vars
    PROVE  FeedStep
<1>1. ASSUME NEW p \in Publishers, NEW e \in Environments, NEW v \in Versions,
             HandlePublish(p, e, v)
      PROVE  FeedStep
  BY <1>1, PublishSimulates DEF FeedStep, Feed!FeedNext
<1>2. ASSUME NEW c \in Clients, NEW e \in Environments, SwitchEnvironment(c, e)
      PROVE  FeedStep
  <2>1. Feed!FeedSwitch(c, e)
    BY <1>2 DEF SwitchEnvironment, storeVars, Feed!FeedSwitch
  <2> QED
    BY <2>1 DEF FeedStep, Feed!FeedNext
<1>3. ASSUME \/ \E p \in Publishers : BroadcastStep(p)
             \/ \E c \in Clients, s \in Streams, i \in Ids : Connect(c, s, i)
             \/ \E c \in Clients : Disconnect(c) \/ ConnectRefused(c)
             \/ ShutdownBegin \/ ShutdownCloseShard \/ ShutdownListener \/ UNCHANGED vars
      PROVE  FeedStep
  <2>1. UNCHANGED <<accepted, env, ver>>
    BY <1>3 DEF BroadcastStep, Connect, Disconnect, ConnectRefused, ShutdownBegin,
                ShutdownCloseShard, ShutdownListener, vars, storeVars, clientVars
  <2> QED
    BY <2>1 DEF FeedStep, Feed!feedVars
<1> QED
  BY <1>1, <1>2, <1>3, HandlerSimulates DEF Next

\* The data plane implements the feed, for all environments, clients, streams,
\* publishers, shards, buffer and history sizes: an environment only moves forward,
\* and a client only moves to a newer version that was published in the environment
\* it watches, whatever is evicted, replayed, delivered twice or reconnected.
THEOREM DataPlaneImplementsFeed ==
    ASSUME ClockAssumption
    PROVE  Spec => ImplementsFeed
<1>1. Init => Feed!FeedInit
  BY DEF Init, StoreInit, Feed!FeedInit
<1>2. FeedInv /\ [Next]_vars => FeedInv'
  BY StepFeed
<1>3. FeedInv /\ [Next]_vars => [Feed!FeedNext]_Feed!feedVars
  BY StepSimulates DEF FeedStep
<1> QED
  BY <1>1, <1>2, <1>3, InitFeed, PTL DEF Spec, ImplementsFeed, Feed!FeedSpec
-----------------------------------------------------------------------------
(* The client's cursors.                                                   *)

\* A frame moves the cursors of its receivers to a version accepted in the
\* environment they watch.
LEMMA EmitKeepsCursors ==
    ASSUME FeedInv, CursorInEnvironment, NEW s \in Streams, NEW v, v \in accepted[subEnv[s]],
           Emit(s, v) \/ UNCHANGED <<ver, lastId>>, UNCHANGED <<accepted, env>>
    PROVE  CursorInEnvironment'
<1> USE NoStreamAssumption
<1>1. \A c \in Clients : conn[c] = s => env[c] = subEnv[s]
  BY DEF FeedInv, DeliveryInv, StreamInv, ConnectedAreServed
<1>2. CASE UNCHANGED <<ver, lastId>>
  BY <1>2 DEF CursorInEnvironment
<1>3. CASE Emit(s, v)
  <2> SUFFICES ASSUME NEW c \in Clients
               PROVE  /\ ver'[c] # 0 => ver'[c] \in accepted[env[c]]
                      /\ lastId'[c] # 0 => lastId'[c] \in accepted[env[c]]
    BY DEF CursorInEnvironment
  <2>1. /\ lastId'[c] = IF conn[c] = s THEN v ELSE lastId[c]
        /\ ver'[c] = IF conn[c] = s /\ v > ver[c] THEN v ELSE ver[c]
    BY <1>3 DEF Emit
  <2>2. CASE conn[c] = s
    BY <1>1, <2>1, <2>2 DEF CursorInEnvironment
  <2>3. CASE conn[c] # s
    BY <2>1, <2>3 DEF CursorInEnvironment
  <2> QED
    BY <2>2, <2>3
<1> QED
  BY <1>2, <1>3

\* A switch of environment leaves nothing of the old one in the cursors.
LEMMA SwitchKeepsCursors ==
    ASSUME TypeOK, CursorInEnvironment, NEW c \in Clients, NEW e \in Environments,
           SwitchEnvironment(c, e)
    PROVE  CursorInEnvironment'
<1>1. /\ ver' = [ver EXCEPT ![c] = 0] /\ lastId' = [lastId EXCEPT ![c] = 0]
      /\ env' = [env EXCEPT ![c] = e] /\ UNCHANGED accepted
  BY DEF SwitchEnvironment, storeVars
<1> SUFFICES ASSUME NEW d \in Clients
             PROVE  /\ ver'[d] # 0 => ver'[d] \in accepted[env'[d]]
                    /\ lastId'[d] # 0 => lastId'[d] \in accepted[env'[d]]
  BY <1>1 DEF CursorInEnvironment
<1>2. CASE d = c
  BY <1>1, <1>2 DEF TypeOK
<1>3. CASE d # c
  BY <1>1, <1>3 DEF TypeOK, CursorInEnvironment
<1> QED
  BY <1>2, <1>3

LEMMA CursorsStep ==
    ASSUME FeedInv, CursorInEnvironment, [Next]_vars
    PROVE  CursorInEnvironment'
<1>0. TypeOK /\ HubTypeOK /\ AcceptedAreVersions
  BY DEF FeedInv, DeliveryInv, TypeOK, CarriedInv
<1>1. \A e \in Environments : accepted[e] \subseteq accepted'[e]
  BY <1>0, AcceptedGrows
<1>2. CASE UNCHANGED <<env, ver, lastId>>
  <2>1. \A c \in Clients : env[c] \in Environments
    BY <1>0 DEF TypeOK
  <2> QED
    BY <1>1, <1>2, <2>1 DEF CursorInEnvironment
<1>3. ASSUME NEW s \in Streams, WriteMissed(s)
      PROVE  CursorInEnvironment'
  <2>1. UNCHANGED <<accepted, env>> /\ Running(s, "write") /\ out[s] # <<>>
    BY <1>3 DEF WriteMissed, storeVars
  <2>2. Head(out[s]) \in accepted[subEnv[s]]
    <3>1. out[s] \in Seq(Nat) /\ \A i \in 1..Len(out[s]) : out[s][i] \in accepted[subEnv[s]]
      BY <1>0, <2>1 DEF FeedInv, CarriedInv, ReplaysAreAccepted, Running, TypeOK
    <3> QED
      BY <2>1, <3>1, TailMembers
  <2>3. Emit(s, Head(out[s])) \/ UNCHANGED <<ver, lastId>>
    BY <1>3 DEF WriteMissed
  <2> QED
    BY <2>1, <2>2, <2>3, EmitKeepsCursors
<1>4. ASSUME NEW s \in Streams, Forward(s)
      PROVE  CursorInEnvironment'
  <2>1. UNCHANGED <<accepted, env>> /\ messages[s] # <<>> /\ Emit(s, Head(messages[s]))
    BY <1>4 DEF Forward, Receive, storeVars
  <2>2. Head(messages[s]) \in accepted[subEnv[s]]
    <3>1. messages[s] \in Seq(Nat) /\ \A i \in 1..Len(messages[s]) : messages[s][i] \in accepted[subEnv[s]]
      BY <1>0 DEF FeedInv, CarriedInv, QueuedAreAccepted, HubTypeOK
    <3> QED
      BY <2>1, <3>1, TailMembers
  <2> QED
    BY <2>1, <2>2, EmitKeepsCursors
<1>5. ASSUME NEW c \in Clients, NEW e \in Environments, SwitchEnvironment(c, e)
      PROVE  CursorInEnvironment'
  BY <1>0, <1>5, SwitchKeepsCursors
<1>6. ASSUME NEW s \in Streams,
             \/ HandleSubscribe(s) \/ HandleSubscribed(s) \/ Replay(s) \/ FullResync(s)
             \/ EnterLoop(s) \/ Return(s) \/ Returned(s)
      PROVE  UNCHANGED <<env, ver, lastId>>
  BY <1>6 DEF HandleSubscribe, HandleSubscribed, Replay, FullResync, EnterLoop, Return, Returned,
              clientVars
<1>7. ASSUME \/ \E p \in Publishers, e \in Environments, v \in Versions : HandlePublish(p, e, v)
             \/ \E p \in Publishers : BroadcastStep(p)
             \/ \E c \in Clients, s \in Streams, i \in Ids : Connect(c, s, i)
             \/ \E c \in Clients : Disconnect(c) \/ ConnectRefused(c)
             \/ ShutdownBegin \/ ShutdownCloseShard \/ ShutdownListener \/ UNCHANGED vars
      PROVE  UNCHANGED <<env, ver, lastId>>
  BY <1>7 DEF HandlePublish, BroadcastStep, Connect, Disconnect, ConnectRefused, ShutdownBegin,
              ShutdownCloseShard, ShutdownListener, vars, clientVars
<1> QED
  BY <1>2, <1>3, <1>4, <1>5, <1>6, <1>7 DEF Next, HandlerStep

\* What a client has and what it cites on reconnect were accepted in the environment
\* it watches, and so are not ahead of that environment's current version, whatever
\* it watched before: after a switch no update is ignored as old
\* (useRulesetStream.ts resets highestVersion, and the new EventSource has no id).
THEOREM CursorsAreOfTheirEnvironment ==
    ASSUME ClockAssumption
    PROVE  Spec => /\ []CursorInEnvironment
                   /\ [](\A c \in Clients : ver[c] <= current[env[c]] /\ lastId[c] <= current[env[c]])
<1> DEFINE NotAhead == \A c \in Clients : ver[c] <= current[env[c]] /\ lastId[c] <= current[env[c]]
<1>1. Init => CursorInEnvironment
  BY DEF Init, CursorInEnvironment
<1>2. FeedInv /\ [Next]_vars => FeedInv'
  BY StepFeed
<1>3. FeedInv /\ CursorInEnvironment /\ [Next]_vars => CursorInEnvironment'
  BY CursorsStep
<1>4. ASSUME FeedInv, CursorInEnvironment PROVE NotAhead
  <2> SUFFICES ASSUME NEW c \in Clients
               PROVE  ver[c] <= current[env[c]] /\ lastId[c] <= current[env[c]]
    OBVIOUS
  <2>1. /\ env[c] \in Environments /\ ver[c] \in Nat /\ lastId[c] \in Nat
        /\ current[env[c]] \in Nat
    BY <1>4 DEF FeedInv, DeliveryInv, TypeOK, StoreTypeOK
  <2>2. \A v \in accepted[env[c]] : v <= current[env[c]]
    BY <1>4, <2>1 DEF FeedInv, DeliveryInv, StoreInv, DroppedAreOlder
  <2>3. /\ ver[c] = 0 \/ ver[c] \in accepted[env[c]]
        /\ lastId[c] = 0 \/ lastId[c] \in accepted[env[c]]
    BY <1>4 DEF CursorInEnvironment
  <2> QED
    BY <2>1, <2>2, <2>3
<1> HIDE DEF NotAhead
<1>5. Spec => []CursorInEnvironment /\ []NotAhead
  BY <1>1, <1>2, <1>3, <1>4, InitFeed, PTL DEF Spec
<1> QED
  BY <1>5 DEF NotAhead
=============================================================================
