--------------------------- MODULE DataPlaneProofs ---------------------------
(***************************************************************************)
(* Proofs about the data plane, for every number of environments, shards,  *)
(* streams, publishers and clients and every buffer and history size.      *)
(***************************************************************************)
EXTENDS DataPlane, SnapshotStoreProofs

USE DEF Shards

-----------------------------------------------------------------------------
(* Types.                                                                  *)

LEMMA InitType == Init => TypeOK
<1> USE EnvironmentsAssumption, ShardAssumption, NoStreamAssumption, MaxDropsAssumption
<1> DEFINE i0 == CHOOSE i \in Ids : TRUE
           e0 == CHOOSE e \in Environments : TRUE
<1>1. Init => StoreTypeOK
  BY DEF Init, StoreInit, StoreTypeOK
<1>2. \E i \in Ids : TRUE
  OBVIOUS
<1>3. \E e \in Environments : TRUE
  OBVIOUS
<1>4. i0 \in Ids /\ e0 \in Environments
  BY <1>2, <1>3, Zenon
<1>5. HubInit => HubTypeOK
  <2> SUFFICES ASSUME HubInit PROVE HubTypeOK
    OBVIOUS
  <2>1. /\ subId = [s \in Streams |-> i0]
        /\ subEnv = [s \in Streams |-> e0]
        /\ bEnv = [p \in Publishers |-> e0]
    BY DEF HubInit
  <2> HIDE DEF i0, e0
  <2>2. subId \in [Streams -> Ids] /\ subEnv \in [Streams -> Environments]
        /\ bEnv \in [Publishers -> Environments]
    BY <1>4, <2>1
  <2>3. /\ registry = [e \in Environments |-> [i \in Ids |-> NoStream]]
        /\ life = [s \in Streams |-> "free"] /\ messages = [s \in Streams |-> <<>>]
        /\ done = [s \in Streams |-> TRUE] /\ bpc = [p \in Publishers |-> "idle"]
        /\ bMsg = [p \in Publishers |-> 0] /\ bShard = [p \in Publishers |-> 1]
        /\ todo = [p \in Publishers |-> {}] /\ evict = [p \in Publishers |-> {}]
        /\ victim = [p \in Publishers |-> NoStream] /\ sweep = 0 /\ connected = 0
    BY Zenon DEF HubInit
  <2>4. QED
    BY <2>2, <2>3 DEF HubTypeOK
<1>6. QED
  BY <1>1, <1>5 DEF Init, TypeOK

\* The steps of the hub that make up a broadcast keep the hub's types.
LEMMA BroadcastType ==
    ASSUME HubTypeOK, NEW p \in Publishers,
           \/ RLockShard(p) \/ (\E s \in Streams : Send(p, s)) \/ NextShard(p) \/ ScanEnd(p)
           \/ (\E s \in Streams : EvictRemove(p, s)) \/ EvictClose(p) \/ BroadcastEnd(p)
    PROVE  HubTypeOK'
<1> USE ShardAssumption, NoStreamAssumption DEF HubTypeOK, subscriberVars, broadcastVars
<1>1. CASE RLockShard(p)
  BY <1>1 DEF RLockShard
<1>2. ASSUME NEW s \in Streams, SendQueued(p, s)
      PROVE  HubTypeOK'
  BY <1>2 DEF SendQueued
<1>2a. ASSUME NEW s \in Streams, SendFull(p, s)
       PROVE  HubTypeOK'
  BY <1>2a DEF SendFull
<1>3. CASE NextShard(p)
  BY <1>3 DEF NextShard
<1>3a. CASE ScanEnd(p)
  BY <1>3a DEF ScanEnd
<1>4. ASSUME NEW s \in Streams, EvictRemove(p, s)
      PROVE  HubTypeOK'
  BY <1>4 DEF EvictRemove, Remove
<1>5. CASE EvictClose(p)
  BY <1>5 DEF EvictClose, Close
<1>6. CASE BroadcastEnd(p)
  BY <1>6 DEF BroadcastEnd
<1>7. QED
  BY <1>1, <1>2, <1>2a, <1>3, <1>3a, <1>4, <1>5, <1>6 DEF Send

\* So do the handler's calls.
LEMMA StreamType ==
    ASSUME HubTypeOK, NEW s \in Streams,
           \/ \E i \in Ids, e \in Environments : NewSubscriber(s, i, e)
           \/ Subscribe(s) \/ SubscribeCount(s) \/ Receive(s) \/ Unsubscribe(s)
           \/ UnsubscribeClose(s)
    PROVE  HubTypeOK'
<1> USE NoStreamAssumption DEF HubTypeOK, subscriberVars, broadcastVars
<1>1. ASSUME NEW i \in Ids, NEW e \in Environments, NewSubscriber(s, i, e)
      PROVE  HubTypeOK'
  BY <1>1 DEF NewSubscriber
<1>2. CASE Subscribe(s)
  BY <1>2 DEF Subscribe
<1>3. CASE SubscribeCount(s)
  BY <1>3 DEF SubscribeCount
<1>4. CASE Receive(s)
  BY <1>4 DEF Receive
<1>5. CASE Unsubscribe(s)
  BY <1>5 DEF Unsubscribe, Remove
<1>6. CASE UnsubscribeClose(s)
  BY <1>6 DEF UnsubscribeClose, Close
<1>7. QED
  BY <1>1, <1>2, <1>3, <1>4, <1>5, <1>6

\* Every reachable state has the types the modules declare.
LEMMA StepType == TypeOK /\ [Next]_vars => TypeOK'
<1> SUFFICES ASSUME TypeOK, [Next]_vars PROVE TypeOK'
  OBVIOUS
<1> USE NoStreamAssumption, MaxDropsAssumption DEF TypeOK, handlerVars, clientVars
<1>1. ASSUME NEW p \in Publishers, NEW e \in Environments, NEW v \in Versions,
             HandlePublish(p, e, v)
      PROVE  TypeOK'
  <2>1. v \in Nat /\ history[e] \in Seq(Nat)
    BY MaxVersionAssumption DEF Versions, StoreTypeOK
  <2>2. Retained(history[e], v) \in Seq(Nat)
    BY <2>1, RetainedType
  <2>3. StoreTypeOK'
    BY <1>1, <2>1, <2>2 DEF HandlePublish, StorePublish, StoreTypeOK
  <2>4. HubTypeOK'
    BY <1>1, <2>1, ShardAssumption DEF HandlePublish, BroadcastBegin, HubTypeOK, subscriberVars
  <2>5. QED
    BY <1>1, <2>3, <2>4 DEF HandlePublish
<1>2. ASSUME NEW p \in Publishers, BroadcastStep(p)
      PROVE  TypeOK'
  BY <1>2, BroadcastType DEF BroadcastStep, StoreTypeOK, storeVars
<1>3. ASSUME NEW c \in Clients, NEW s \in Streams, NEW i \in Ids, Connect(c, s, i)
      PROVE  TypeOK'
  <2>1. env[c] \in Environments /\ lastId[c] \in Nat
    OBVIOUS
  <2>2. HubTypeOK'
    BY <1>3, <2>1, StreamType DEF Connect
  <2>3. QED
    BY <1>3, <2>1, <2>2 DEF Connect, StoreTypeOK, storeVars
<1>4. ASSUME NEW s \in Streams, HandlerStep(s)
      PROVE  TypeOK'
  <2>1. CASE HandleSubscribe(s)
    BY <2>1, StreamType DEF HandleSubscribe, StoreTypeOK, storeVars
  <2>2. CASE HandleSubscribed(s)
    BY <2>2, StreamType DEF HandleSubscribed, StoreTypeOK, storeVars
  <2>3. CASE Replay(s)
    <3>1. subEnv[s] \in Environments
      BY DEF HubTypeOK
    <3>2. current[subEnv[s]] \in Nat /\ history[subEnv[s]] \in Seq(Nat)
      BY <3>1 DEF StoreTypeOK
    <3>3. ResumeSource(subEnv[s], after[s]) \in Seq(Nat)
      BY <3>2 DEF ResumeSource
    <3>4. out' \in [Streams -> Seq(Nat)] /\ hpc' \in [Streams -> {"replay", "resync", "write", "loop"}]
      <4>1. CASE out' = [out EXCEPT ![s] = IF Known(subEnv[s]) THEN <<current[subEnv[s]]>> ELSE <<>>]
                 /\ hpc' = [hpc EXCEPT ![s] = "write"]
        BY <3>2, <4>1
      <4>2. CASE out' = [out EXCEPT ![s] = ResumeSource(subEnv[s], after[s])]
                 /\ hpc' = [hpc EXCEPT ![s] = "write"]
        BY <3>3, <4>2
      <4>3. CASE out' = out /\ hpc' = [hpc EXCEPT ![s] = "resync"]
        BY <4>3
      <4>4. QED
        BY <2>3, <4>1, <4>2, <4>3, Zenon DEF Replay
    <3>5. QED
      BY <2>3, <3>4 DEF Replay, StoreTypeOK, HubTypeOK, storeVars, hubVars, subscriberVars, broadcastVars
  <2>4. CASE FullResync(s)
    <3>1. current[subEnv[s]] \in Nat
      BY DEF HubTypeOK, StoreTypeOK
    <3>2. QED
      BY <2>4, <3>1 DEF FullResync, StoreTypeOK, HubTypeOK, storeVars, hubVars, subscriberVars, broadcastVars
  <2>5. CASE WriteMissed(s)
    <3>1. out[s] \in Seq(Nat) /\ out[s] # <<>>
      BY <2>5 DEF WriteMissed
    <3>2. Head(out[s]) \in Nat /\ Tail(out[s]) \in Seq(Nat)
      BY <3>1
    <3>3. lastId' \in [Clients -> Nat] /\ ver' \in [Clients -> Nat]
      <4>1. CASE Head(out[s]) > after[s]
        BY <2>5, <3>2, <4>1 DEF WriteMissed, Emit
      <4>2. CASE ~(Head(out[s]) > after[s])
        BY <2>5, <3>2, <4>2 DEF WriteMissed
      <4>3. QED
        BY <4>1, <4>2
    <3>4. QED
      BY <2>5, <3>2, <3>3 DEF WriteMissed, StoreTypeOK, HubTypeOK, storeVars, hubVars, subscriberVars, broadcastVars
  <2>6. CASE EnterLoop(s)
    BY <2>6 DEF EnterLoop, StoreTypeOK, HubTypeOK, storeVars, hubVars, subscriberVars, broadcastVars
  <2>7. CASE Forward(s)
    <3>1. messages[s] \in Seq(Nat) /\ messages[s] # <<>>
      BY <2>7 DEF Forward, Receive, HubTypeOK
    <3>2. Head(messages[s]) \in Nat
      BY <3>1
    <3>3. HubTypeOK'
      BY <2>7, StreamType DEF Forward
    <3>4. QED
      BY <2>7, <3>2, <3>3 DEF Forward, Emit, StoreTypeOK, storeVars
  <2>8. CASE Return(s)
    BY <2>8, StreamType DEF Return, StoreTypeOK, storeVars
  <2>9. CASE Returned(s)
    BY <2>9, StreamType DEF Returned, StoreTypeOK, storeVars
  <2>10. QED
    BY <1>4, <2>1, <2>2, <2>3, <2>4, <2>5, <2>6, <2>7, <2>8, <2>9 DEF HandlerStep
<1> USE DEF StoreTypeOK, HubTypeOK, storeVars, hubVars, subscriberVars, broadcastVars
<1>5. ASSUME NEW c \in Clients, Disconnect(c)
      PROVE  TypeOK'
  BY <1>5 DEF Disconnect
<1>6. ASSUME NEW c \in Clients, ConnectRefused(c)
      PROVE  TypeOK'
  BY <1>6, MaxDropsAssumption DEF ConnectRefused
<1>7. ASSUME NEW c \in Clients, NEW e \in Environments, SwitchEnvironment(c, e)
      PROVE  TypeOK'
  BY <1>7 DEF SwitchEnvironment
<1>8. CASE ShutdownBegin
  BY <1>8, ShardAssumption DEF ShutdownBegin, CloseAllBegin
<1>9. CASE ShutdownCloseShard
  BY <1>9, ShardAssumption DEF ShutdownCloseShard, CloseAllShard
<1>10. CASE ShutdownListener
  BY <1>10 DEF ShutdownListener
<1>11. CASE UNCHANGED vars
  BY <1>11 DEF vars
<1>12. QED
  BY <1>1, <1>2, <1>3, <1>4, <1>5, <1>6, <1>7, <1>8, <1>9, <1>10, <1>11 DEF Next

\* Type correctness of the data plane.
THEOREM TypeCorrect == Spec => []TypeOK
  BY InitType, StepType, PTL DEF Spec
=============================================================================
