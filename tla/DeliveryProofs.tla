--------------------------- MODULE DeliveryProofs ---------------------------
(***************************************************************************)
(* No interleaving of publishes, broadcasts, evictions, reconnects and     *)
(* shutdown loses an update on a live stream, for every number of          *)
(* environments, shards, streams, publishers and clients and every buffer  *)
(* and history size, as long as subscriber ids are distinct.  Under the    *)
(* same assumption the connected gauge is exact.                           *)
(***************************************************************************)
EXTENDS DataPlaneProofs, FiniteSetTheorems

\* Subscriber ids are distinct: no two nextSubscriberID calls collide.
ClockAssumption == ~CoarseClock

USE DEF Shards

-----------------------------------------------------------------------------
(* The hub.                                                                *)

LEMMA RegisteredLive ==
    ASSUME HubTypeOK, HubInv, NEW s \in Streams, Registered(s)
    PROVE  life[s] \in {"counting", "subscribed"} /\ ~done[s]
<1> USE NoStreamAssumption DEF HubTypeOK
<1>1. subEnv[s] \in Environments /\ subId[s] \in Ids /\ s # NoStream
  OBVIOUS
<1>2. registry[subEnv[s]][subId[s]] = s
  BY DEF Registered
<1>3. QED
  BY <1>1, <1>2 DEF HubInv, RegisteredAreOpen

\* RLockShard lists registered subscribers of its shard and environment.
LEMMA RLockInv ==
    ASSUME HubTypeOK, HubInv, NEW p \in Publishers, RLockShard(p)
    PROVE  HubInv'
<1> USE NoStreamAssumption, ShardAssumption DEF HubTypeOK, subscriberVars, broadcastVars
<1>1. UNCHANGED <<registry, life, subId, subEnv, messages, done, bEnv, bMsg, bShard, evict, victim>>
  BY DEF RLockShard
<1>2. IdsDistinct' /\ NewAreUnknown' /\ RegisteredAreOpen' /\ NoOrphan'
  BY <1>1 DEF HubInv, IdsDistinct, NewAreUnknown, RegisteredAreOpen, NoOrphan, InUse, Referenced, Registered
<1>3. VictimsAreOut'
  BY <1>1 DEF RLockShard, HubInv, VictimsAreOut, Registered
<1>4. ScansAreCurrent'
  BY <1>1 DEF RLockShard, HubInv, ScansAreCurrent, RegisteredAreOpen, Registered, Shard
<1>5. QED
  BY <1>2, <1>3, <1>4 DEF HubInv

LEMMA SendQueuedInv ==
    ASSUME HubTypeOK, HubInv, NEW p \in Publishers, NEW s \in Streams, SendQueued(p, s)
    PROVE  HubInv'
<1> USE NoStreamAssumption, ShardAssumption DEF HubTypeOK
<1>1. UNCHANGED <<registry, life, subId, subEnv, done, bpc, bEnv, bMsg, bShard, evict, victim>>
  BY DEF SendQueued
<1>2. IdsDistinct' /\ NewAreUnknown' /\ RegisteredAreOpen' /\ NoOrphan' /\ VictimsAreOut'
  BY <1>1 DEF HubInv, IdsDistinct, NewAreUnknown, RegisteredAreOpen, NoOrphan, VictimsAreOut,
              InUse, Referenced, Registered
<1>3. ScansAreCurrent'
  BY <1>1 DEF SendQueued, HubInv, ScansAreCurrent, Registered, Shard
<1>4. QED
  BY <1>2, <1>3 DEF HubInv

\* A full subscriber is registered, hence neither new nor unused.
LEMMA SendFullInv ==
    ASSUME HubTypeOK, HubInv, NEW p \in Publishers, NEW s \in Streams, SendFull(p, s)
    PROVE  HubInv'
<1> USE NoStreamAssumption, ShardAssumption DEF HubTypeOK, subscriberVars
<1>1. UNCHANGED <<registry, life, subId, subEnv, messages, done, bpc, bEnv, bMsg, bShard, victim>>
  BY DEF SendFull
<1>2. life[s] \in {"counting", "subscribed"} /\ ~done[s]
  BY DEF SendFull, HubInv, ScansAreCurrent, RegisteredAreOpen, Registered
<1>3. RegisteredAreOpen' /\ NoOrphan' /\ VictimsAreOut'
  BY <1>1 DEF HubInv, RegisteredAreOpen, NoOrphan, VictimsAreOut, Registered
<1>4. \A t \in Streams : Referenced(t)' => Referenced(t) \/ t = s
  BY <1>1 DEF SendFull, Referenced
<1>5. IdsDistinct' /\ NewAreUnknown'
  BY <1>1, <1>2, <1>4 DEF HubInv, IdsDistinct, NewAreUnknown, InUse
<1>6. ScansAreCurrent'
  BY <1>1 DEF SendFull, HubInv, ScansAreCurrent, Registered, Shard
<1>7. QED
  BY <1>3, <1>5, <1>6 DEF HubInv

LEMMA ScanMovesInv ==
    ASSUME HubTypeOK, HubInv, NEW p \in Publishers,
           NextShard(p) \/ ScanEnd(p) \/ BroadcastEnd(p)
    PROVE  HubInv'
<1> USE NoStreamAssumption, ShardAssumption DEF HubTypeOK, subscriberVars
<1>1. UNCHANGED <<registry, life, subId, subEnv, messages, done, bEnv, todo, evict, victim>>
  BY DEF NextShard, ScanEnd, BroadcastEnd
<1>2. IdsDistinct' /\ NewAreUnknown' /\ RegisteredAreOpen' /\ NoOrphan'
  BY <1>1 DEF HubInv, IdsDistinct, NewAreUnknown, RegisteredAreOpen, NoOrphan, InUse, Referenced, Registered
<1>3. todo[p] = {} /\ bpc[p] # "close" /\ bpc'[p] # "close"
      /\ \A q \in Publishers \ {p} : bpc'[q] = bpc[q] /\ bShard'[q] = bShard[q]
  BY DEF NextShard, ScanEnd, BroadcastEnd, HubInv, ScansAreCurrent
<1>4. VictimsAreOut'
  BY <1>1, <1>3 DEF HubInv, VictimsAreOut, Registered
<1>5. ScansAreCurrent'
  BY <1>1, <1>3 DEF HubInv, ScansAreCurrent, Registered, Shard
<1>6. QED
  BY <1>2, <1>4, <1>5 DEF HubInv

\* Removing s leaves the entry of everyone else in use: their ids differ.
LEMMA RemoveFacts ==
    ASSUME HubTypeOK, HubInv, NEW s \in Streams, InUse(s), Remove(s),
           UNCHANGED <<subId, subEnv>>
    PROVE  /\ ~Registered(s)'
           /\ \A t \in Streams \ {s} : InUse(t) => (Registered(t)' <=> Registered(t))
           /\ \A t \in Streams : Registered(t)' => Registered(t)
           /\ \A e \in Environments, i \in Ids :
                registry'[e][i] # NoStream => registry'[e][i] = registry[e][i]
           /\ \A p \in Publishers : bpc[p] = "scan" =>
                \A t \in todo[p] : Registered(t)'
<1> USE NoStreamAssumption, ShardAssumption DEF HubTypeOK
<1>1. registry' = [registry EXCEPT ![subEnv[s]][subId[s]] = NoStream]
  BY DEF Remove
<1>2. ~Registered(s)'
  BY <1>1 DEF Registered
<1>3. \A t \in Streams \ {s} : InUse(t) => subId[t] # subId[s]
  BY DEF HubInv, IdsDistinct
<1>4. \A t \in Streams \ {s} : InUse(t) => (Registered(t)' <=> Registered(t))
  BY <1>1, <1>3 DEF Registered
<1>5. \A e \in Environments, i \in Ids :
         registry'[e][i] # NoStream => registry'[e][i] = registry[e][i]
  BY <1>1
<1>6. ASSUME NEW t \in Streams, Registered(t)' PROVE Registered(t)
  <2>1. registry'[subEnv[t]][subId[t]] = t /\ t # NoStream
    BY <1>6 DEF Registered
  <2>2. QED
    BY <1>5, <2>1 DEF Registered
<1>7. ASSUME NEW p \in Publishers, bpc[p] = "scan", NEW t \in todo[p]
      PROVE  Registered(t)'
  <2>1. t \in Streams /\ Registered(t) /\ Shard(t) = bShard[p]
    BY <1>7 DEF HubInv, ScansAreCurrent
  <2>2. bShard[p] # Shard(s)
    BY <1>7 DEF Remove, RLocked
  <2>3. subId[t] # subId[s]
    BY <2>1, <2>2 DEF Shard
  <2>4. QED
    BY <1>1, <2>1, <2>3 DEF Registered
<1>8. QED
  BY <1>2, <1>4, <1>5, <1>6, <1>7

LEMMA EvictRemoveInv ==
    ASSUME HubTypeOK, HubInv, NEW p \in Publishers, NEW s \in Streams, EvictRemove(p, s)
    PROVE  HubInv'
<1> USE NoStreamAssumption, ShardAssumption DEF HubTypeOK, subscriberVars
<1>1. UNCHANGED <<life, subId, subEnv, messages, done, bEnv, bMsg, bShard, todo>>
  BY DEF EvictRemove
<1>2. Remove(s) /\ InUse(s) /\ bpc[p] = "evict"
  BY DEF EvictRemove, InUse, Referenced
<1>3. /\ ~Registered(s)'
      /\ \A t \in Streams \ {s} : InUse(t) => (Registered(t)' <=> Registered(t))
      /\ \A t \in Streams : Registered(t)' => Registered(t)
      /\ \A e \in Environments, i \in Ids :
           registry'[e][i] # NoStream => registry'[e][i] = registry[e][i]
      /\ \A q \in Publishers : bpc[q] = "scan" => \A t \in todo[q] : Registered(t)'
  BY <1>1, <1>2, RemoveFacts
<1>4. \A t \in Streams : Referenced(t)' => Referenced(t)
  BY DEF EvictRemove, Referenced
<1>5. IdsDistinct' /\ NewAreUnknown'
  BY <1>1, <1>4 DEF HubInv, IdsDistinct, NewAreUnknown, InUse
<1>6. VictimsAreOut'
  <2>1. \A q \in Publishers : (bpc'[q] = "close") <=> (victim'[q] # NoStream)
    BY DEF EvictRemove, HubInv, VictimsAreOut
  <2>2. \A q \in Publishers, t \in Streams : victim'[q] = t => ~Registered(t)'
    BY <1>3 DEF EvictRemove, HubInv, VictimsAreOut
  <2>3. QED
    BY <2>1, <2>2 DEF VictimsAreOut
<1>7. RegisteredAreOpen'
  BY <1>1, <1>3 DEF HubInv, RegisteredAreOpen
<1>8. NoOrphan'
  <2> SUFFICES ASSUME NEW t \in Streams, life[t] \in {"counting", "subscribed"}
               PROVE  Registered(t)' \/ done[t] \/ \E q \in Publishers : victim'[q] = t
    BY <1>1 DEF NoOrphan
  <2>1. CASE t = s
    BY <2>1 DEF EvictRemove
  <2>2. CASE t # s
    <3>1. Registered(t)' <=> Registered(t)
      BY <1>3, <2>2 DEF InUse
    <3>2. \A q \in Publishers : victim[q] = t => victim'[q] = t
      BY <1>2 DEF EvictRemove, HubInv, VictimsAreOut
    <3>3. QED
      BY <3>1, <3>2 DEF HubInv, NoOrphan
  <2>3. QED
    BY <2>1, <2>2
<1>9. ScansAreCurrent'
  <2>1. \A q \in Publishers : bpc'[q] # "scan" => todo[q] = {}
    BY DEF EvictRemove, HubInv, ScansAreCurrent
  <2>2. ASSUME NEW q \in Publishers, NEW t \in todo[q]
        PROVE  Registered(t)' /\ subEnv[t] = bEnv[q] /\ Shard(t)' = bShard[q]
    <3>1. bpc[q] = "scan" /\ subEnv[t] = bEnv[q] /\ Shard(t) = bShard[q]
      BY <2>2 DEF HubInv, ScansAreCurrent
    <3>2. QED
      BY <1>1, <1>3, <2>2, <3>1 DEF Shard
  <2>3. QED
    BY <1>1, <2>1, <2>2 DEF ScansAreCurrent
<1>10. QED
  BY <1>5, <1>6, <1>7, <1>8, <1>9 DEF HubInv

\* Closing a victim closes nobody who is registered.
LEMMA EvictCloseInv ==
    ASSUME HubTypeOK, HubInv, NEW p \in Publishers, EvictClose(p)
    PROVE  HubInv'
<1> USE NoStreamAssumption, ShardAssumption DEF HubTypeOK
<1>1. UNCHANGED <<registry, life, subId, subEnv, messages, bEnv, bMsg, bShard, todo, evict>>
  BY DEF EvictClose
<1>2. victim[p] \in Streams /\ ~Registered(victim[p])
  BY DEF EvictClose, HubInv, VictimsAreOut
<1>3. done' = [done EXCEPT ![victim[p]] = TRUE] /\ victim' = [victim EXCEPT ![p] = NoStream]
  BY DEF EvictClose, Close
<1>4. \A t \in Streams : Referenced(t)' => Referenced(t)
  BY <1>1, <1>3 DEF Referenced
<1>5. IdsDistinct'
  BY <1>1, <1>4 DEF HubInv, IdsDistinct, InUse
<1>6. NewAreUnknown'
  BY <1>1, <1>2, <1>3, <1>4 DEF HubInv, NewAreUnknown, Referenced
<1>7. VictimsAreOut'
  BY <1>1, <1>3 DEF EvictClose, HubInv, VictimsAreOut, Registered
<1>8. RegisteredAreOpen'
  BY <1>1, <1>2, <1>3 DEF HubInv, RegisteredAreOpen, Registered
<1>9. NoOrphan'
  BY <1>1, <1>2, <1>3 DEF HubInv, NoOrphan, Registered
<1>10. ScansAreCurrent'
  BY <1>1 DEF EvictClose, HubInv, ScansAreCurrent, Registered, Shard
<1>11. QED
  BY <1>5, <1>6, <1>7, <1>8, <1>9, <1>10 DEF HubInv

LEMMA BroadcastBeginInv ==
    ASSUME HubTypeOK, HubInv, NEW p \in Publishers, NEW e \in Environments, NEW v \in Nat,
           BroadcastBegin(p, e, v)
    PROVE  HubInv'
<1> USE NoStreamAssumption, ShardAssumption DEF HubTypeOK, subscriberVars
<1>1. UNCHANGED <<registry, life, subId, subEnv, messages, done, todo, evict, victim>>
  BY DEF BroadcastBegin
<1>2. IdsDistinct' /\ NewAreUnknown' /\ RegisteredAreOpen' /\ NoOrphan'
  BY <1>1 DEF HubInv, IdsDistinct, NewAreUnknown, RegisteredAreOpen, NoOrphan, InUse, Referenced, Registered
<1>3. VictimsAreOut'
  BY <1>1 DEF BroadcastBegin, HubInv, VictimsAreOut, Registered
<1>4. ScansAreCurrent'
  BY <1>1 DEF BroadcastBegin, HubInv, ScansAreCurrent, Registered, Shard
<1>5. QED
  BY <1>2, <1>3, <1>4 DEF HubInv

\* A slot is reused under an id nobody in use has.
LEMMA NewSubscriberInv ==
    ASSUME HubTypeOK, HubInv, NEW s \in Streams, NEW i \in Ids, NEW e \in Environments,
           FreshId(i), NewSubscriber(s, i, e)
    PROVE  HubInv'
<1> USE NoStreamAssumption, ShardAssumption DEF HubTypeOK, broadcastVars
<1>1. UNCHANGED <<registry, bpc, bEnv, bMsg, bShard, todo, evict, victim>>
  BY DEF NewSubscriber
<1>2. life' = [life EXCEPT ![s] = "new"] /\ subId' = [subId EXCEPT ![s] = i]
      /\ subEnv' = [subEnv EXCEPT ![s] = e] /\ done' = [done EXCEPT ![s] = FALSE]
  BY DEF NewSubscriber
<1>3. life[s] = "free" /\ ~Referenced(s)
  BY DEF NewSubscriber, InUse
<1>4. \A t \in Streams : Referenced(t)' <=> Referenced(t)
  BY <1>1 DEF Referenced
<1>5. IdsDistinct'
  BY <1>2, <1>4 DEF HubInv, IdsDistinct, InUse, FreshId
<1>6. NewAreUnknown'
  BY <1>2, <1>3, <1>4 DEF HubInv, NewAreUnknown
<1>7. RegisteredAreOpen'
  BY <1>1, <1>2, <1>3 DEF HubInv, RegisteredAreOpen
<1>8. \A t \in Streams \ {s} : Registered(t)' <=> Registered(t)
  BY <1>1, <1>2 DEF Registered
<1>9. NoOrphan'
  BY <1>1, <1>2, <1>8 DEF HubInv, NoOrphan
<1>10. VictimsAreOut'
  BY <1>1, <1>3, <1>8 DEF HubInv, VictimsAreOut, Referenced
<1>11. ScansAreCurrent'
  <2>1. \A q \in Publishers : s \notin todo[q]
    BY <1>3, RegisteredLive DEF HubInv, ScansAreCurrent
  <2>2. QED
    BY <1>1, <1>2, <1>8, <2>1 DEF HubInv, ScansAreCurrent, Shard
<1>12. QED
  BY <1>5, <1>6, <1>7, <1>9, <1>10, <1>11 DEF HubInv

\* Registering s overwrites nobody's entry: its id is its own.
LEMMA SubscribeInv ==
    ASSUME HubTypeOK, HubInv, NEW s \in Streams, Subscribe(s)
    PROVE  /\ HubInv'
           /\ Registered(s)'
           /\ \A t \in Streams \ {s} : InUse(t) => (Registered(t)' <=> Registered(t))
<1> USE NoStreamAssumption, ShardAssumption DEF HubTypeOK, broadcastVars
<1>1. UNCHANGED <<subId, subEnv, messages, done, bpc, bEnv, bMsg, bShard, todo, evict, victim>>
  BY DEF Subscribe
<1>2. life' = [life EXCEPT ![s] = "counting"] /\ life[s] = "new"
      /\ registry' = [registry EXCEPT ![subEnv[s]][subId[s]] = s]
  BY DEF Subscribe
<1>3. ~Referenced(s) /\ ~done[s] /\ InUse(s)
  BY <1>2 DEF HubInv, NewAreUnknown, InUse
<1>4. Registered(s)'
  BY <1>1, <1>2 DEF Registered
<1>5. \A t \in Streams \ {s} : InUse(t) => subId[t] # subId[s]
  BY <1>3 DEF HubInv, IdsDistinct
<1>6. \A t \in Streams \ {s} : InUse(t) => (Registered(t)' <=> Registered(t))
  BY <1>1, <1>2, <1>5 DEF Registered
<1>7. \A t \in Streams : Referenced(t)' <=> Referenced(t)
  BY <1>1 DEF Referenced
<1>8. IdsDistinct' /\ NewAreUnknown'
  BY <1>1, <1>2, <1>7 DEF HubInv, IdsDistinct, NewAreUnknown, InUse
<1>9. VictimsAreOut'
  BY <1>1, <1>3, <1>6 DEF HubInv, VictimsAreOut, InUse, Referenced
<1>10. RegisteredAreOpen'
  <2> SUFFICES ASSUME NEW e \in Environments, NEW i \in Ids, registry'[e][i] # NoStream
               PROVE  LET t == registry'[e][i] IN
                      /\ ~done[t] /\ life'[t] \in {"counting", "subscribed"}
                      /\ subId[t] = i /\ subEnv[t] = e
    BY <1>1 DEF RegisteredAreOpen
  <2>1. CASE e = subEnv[s] /\ i = subId[s]
    BY <1>2, <1>3, <2>1
  <2>2. CASE ~(e = subEnv[s] /\ i = subId[s])
    <3>1. registry'[e][i] = registry[e][i]
      BY <1>2, <2>2
    <3>2. QED
      BY <1>2, <3>1 DEF HubInv, RegisteredAreOpen
  <2>3. QED
    BY <2>1, <2>2
<1>11. NoOrphan'
  BY <1>1, <1>2, <1>4, <1>6 DEF HubInv, NoOrphan, InUse
<1>12. ScansAreCurrent'
  <2>1. ASSUME NEW q \in Publishers, NEW t \in todo[q] PROVE Registered(t)'
    <3>1. t \in Streams /\ Registered(t)
      BY <2>1 DEF HubInv, ScansAreCurrent
    <3>2. life[t] # "free"
      BY <3>1, RegisteredLive
    <3>3. QED
      BY <1>4, <1>6, <3>1, <3>2 DEF InUse
  <2>2. QED
    BY <1>1, <2>1 DEF HubInv, ScansAreCurrent, Shard
<1>13. QED
  BY <1>4, <1>6, <1>8, <1>9, <1>10, <1>11, <1>12 DEF HubInv

LEMMA SubscribeCountInv ==
    ASSUME HubTypeOK, HubInv, NEW s \in Streams, SubscribeCount(s)
    PROVE  HubInv'
<1> USE NoStreamAssumption DEF HubTypeOK, broadcastVars
<1>1. UNCHANGED <<registry, subId, subEnv, messages, done, bpc, bEnv, bMsg, bShard, todo, evict, victim>>
  BY DEF SubscribeCount
<1>2. life' = [life EXCEPT ![s] = "subscribed"] /\ life[s] = "counting"
  BY DEF SubscribeCount
<1>3. \A t \in Streams : (Referenced(t)' <=> Referenced(t)) /\ (Registered(t)' <=> Registered(t))
  BY <1>1 DEF Referenced, Registered
<1>4. IdsDistinct' /\ NewAreUnknown'
  BY <1>1, <1>2, <1>3 DEF HubInv, IdsDistinct, NewAreUnknown, InUse
<1>5. RegisteredAreOpen' /\ NoOrphan'
  BY <1>1, <1>2, <1>3 DEF HubInv, RegisteredAreOpen, NoOrphan
<1>6. VictimsAreOut' /\ ScansAreCurrent'
  BY <1>1, <1>3 DEF HubInv, VictimsAreOut, ScansAreCurrent, Shard
<1>7. QED
  BY <1>4, <1>5, <1>6 DEF HubInv

LEMMA ReceiveInv ==
    ASSUME HubTypeOK, HubInv, NEW s \in Streams, Receive(s)
    PROVE  HubInv'
<1>1. UNCHANGED <<registry, life, subId, subEnv, done, bpc, bEnv, bMsg, bShard, todo, evict, victim>>
  BY DEF Receive, broadcastVars
<1>2. QED
  BY <1>1 DEF HubInv, IdsDistinct, NewAreUnknown, RegisteredAreOpen, NoOrphan, VictimsAreOut,
              ScansAreCurrent, InUse, Referenced, Registered, Shard

LEMMA UnsubscribeInv ==
    ASSUME HubTypeOK, HubInv, NEW s \in Streams, Unsubscribe(s)
    PROVE  HubInv'
<1> USE NoStreamAssumption, ShardAssumption DEF HubTypeOK, broadcastVars
<1>1. UNCHANGED <<subId, subEnv, messages, done, bpc, bEnv, bMsg, bShard, todo, evict, victim>>
  BY DEF Unsubscribe
<1>2. life' = [life EXCEPT ![s] = "closing"] /\ life[s] = "subscribed" /\ Remove(s)
  BY DEF Unsubscribe
<1>3. InUse(s)
  BY <1>2 DEF InUse
<1>4. /\ ~Registered(s)'
      /\ \A t \in Streams \ {s} : InUse(t) => (Registered(t)' <=> Registered(t))
      /\ \A t \in Streams : Registered(t)' => Registered(t)
      /\ \A e \in Environments, i \in Ids :
           registry'[e][i] # NoStream => registry'[e][i] = registry[e][i]
      /\ \A q \in Publishers : bpc[q] = "scan" => \A t \in todo[q] : Registered(t)'
  BY <1>1, <1>2, <1>3, RemoveFacts
<1>5. \A t \in Streams : Referenced(t)' <=> Referenced(t)
  BY <1>1 DEF Referenced
<1>6. IdsDistinct' /\ NewAreUnknown'
  BY <1>1, <1>2, <1>5 DEF HubInv, IdsDistinct, NewAreUnknown, InUse
<1>7. VictimsAreOut'
  BY <1>1, <1>4 DEF HubInv, VictimsAreOut
<1>8. RegisteredAreOpen'
  <2> SUFFICES ASSUME NEW e \in Environments, NEW i \in Ids, registry'[e][i] # NoStream
               PROVE  LET t == registry'[e][i] IN
                      /\ ~done[t] /\ life'[t] \in {"counting", "subscribed"}
                      /\ subId[t] = i /\ subEnv[t] = e
    BY <1>1 DEF RegisteredAreOpen
  <2>1. registry'[e][i] = registry[e][i]
    BY <1>4
  <2>2. LET t == registry[e][i] IN
        /\ ~done[t] /\ life[t] \in {"counting", "subscribed"}
        /\ subId[t] = i /\ subEnv[t] = e
    BY <2>1 DEF HubInv, RegisteredAreOpen
  <2>3. registry[e][i] \in Streams /\ registry[e][i] # s
    BY <1>1, <1>4, <2>1, <2>2 DEF Registered
  <2>4. QED
    BY <1>2, <2>1, <2>2, <2>3
<1>9. NoOrphan'
  BY <1>1, <1>2, <1>4 DEF HubInv, NoOrphan, InUse
<1>10. ScansAreCurrent'
  BY <1>1, <1>4 DEF HubInv, ScansAreCurrent, Shard
<1>11. QED
  BY <1>6, <1>7, <1>8, <1>9, <1>10 DEF HubInv

LEMMA UnsubscribeCloseInv ==
    ASSUME HubTypeOK, HubInv, NEW s \in Streams, UnsubscribeClose(s)
    PROVE  HubInv'
<1> USE NoStreamAssumption DEF HubTypeOK, broadcastVars
<1>1. UNCHANGED <<registry, subId, subEnv, bpc, bEnv, bMsg, bShard, todo, evict, victim>>
  BY DEF UnsubscribeClose
<1>2. life' = [life EXCEPT ![s] = "free"] /\ life[s] = "closing"
      /\ done' = [done EXCEPT ![s] = TRUE]
  BY DEF UnsubscribeClose, Close
<1>3. \A t \in Streams : (Referenced(t)' <=> Referenced(t)) /\ (Registered(t)' <=> Registered(t))
  BY <1>1 DEF Referenced, Registered
<1>4. IdsDistinct' /\ NewAreUnknown'
  BY <1>1, <1>2, <1>3 DEF HubInv, IdsDistinct, NewAreUnknown, InUse
<1>5. RegisteredAreOpen' /\ NoOrphan'
  BY <1>1, <1>2, <1>3 DEF HubInv, RegisteredAreOpen, NoOrphan
<1>6. VictimsAreOut' /\ ScansAreCurrent'
  BY <1>1, <1>3 DEF HubInv, VictimsAreOut, ScansAreCurrent, Shard
<1>7. QED
  BY <1>4, <1>5, <1>6 DEF HubInv

\* CloseAll closes whom it unregisters.
LEMMA CloseAllShardInv ==
    ASSUME HubTypeOK, HubInv, CloseAllShard
    PROVE  /\ HubInv'
           /\ \A s \in Streams : Registered(s) => Registered(s)' \/ done'[s]
           /\ \A s \in Streams : done[s] => done'[s]
<1> USE NoStreamAssumption, ShardAssumption DEF HubTypeOK, broadcastVars
<1> DEFINE in   == {i \in Ids : ShardOf[i] = sweep}
           subs == {s \in Streams : \E e \in Environments, i \in in : registry[e][i] = s}
<1>1. UNCHANGED <<life, subId, subEnv, messages, bpc, bEnv, bMsg, bShard, todo, evict, victim>>
  BY DEF CloseAllShard
<1>2. done' = [s \in Streams |-> done[s] \/ s \in subs]
      /\ registry' = [e \in Environments |->
                        [i \in Ids |-> IF i \in in THEN NoStream ELSE registry[e][i]]]
  BY DEF CloseAllShard
<1>3. \A e \in Environments, i \in Ids :
        registry'[e][i] = IF i \in in THEN NoStream ELSE registry[e][i]
  BY <1>2
<1>4. \A s \in Streams : Registered(s)' <=> (Registered(s) /\ subId[s] \notin in)
  BY <1>1, <1>3 DEF Registered
<1>5. \A s \in Streams : Registered(s) /\ subId[s] \in in => s \in subs
  BY DEF Registered
<1>6. ASSUME NEW s \in Streams, s \in subs PROVE subId[s] \in in /\ Registered(s)
  <2>1. PICK e \in Environments, i \in in : registry[e][i] = s
    BY <1>6
  <2>2. i \in Ids /\ s # NoStream
    OBVIOUS
  <2>3. subId[s] = i /\ subEnv[s] = e
    BY <2>1, <2>2 DEF HubInv, RegisteredAreOpen
  <2>4. QED
    BY <2>1, <2>3 DEF Registered
<1>7. \A s \in Streams : done'[s] <=> (done[s] \/ s \in subs)
  BY <1>2, Zenon
<1> HIDE DEF in, subs
<1>8. \A s \in Streams : Referenced(s)' <=> Referenced(s)
  BY <1>1 DEF Referenced
<1>9. IdsDistinct'
  BY <1>1, <1>8 DEF HubInv, IdsDistinct, InUse
<1>10. NewAreUnknown'
  BY <1>1, <1>6, <1>7, <1>8, RegisteredLive DEF HubInv, NewAreUnknown
<1>11. VictimsAreOut'
  BY <1>1, <1>4 DEF HubInv, VictimsAreOut
<1>12. RegisteredAreOpen'
  <2> SUFFICES ASSUME NEW e \in Environments, NEW i \in Ids, registry'[e][i] # NoStream
               PROVE  LET t == registry'[e][i] IN
                      /\ ~done'[t] /\ life[t] \in {"counting", "subscribed"}
                      /\ subId[t] = i /\ subEnv[t] = e
    BY <1>1 DEF RegisteredAreOpen
  <2>1. registry'[e][i] = registry[e][i] /\ i \notin in
    BY <1>3
  <2>2. LET t == registry[e][i] IN
        /\ ~done[t] /\ life[t] \in {"counting", "subscribed"}
        /\ subId[t] = i /\ subEnv[t] = e
    BY <2>1 DEF HubInv, RegisteredAreOpen
  <2>3. registry[e][i] \in Streams
    BY <2>1
  <2>4. QED
    BY <1>6, <1>7, <2>1, <2>2, <2>3
<1>13. NoOrphan'
  BY <1>1, <1>4, <1>5, <1>7 DEF HubInv, NoOrphan
<1>14. ScansAreCurrent'
  <2>1. ASSUME NEW q \in Publishers, NEW t \in todo[q] PROVE subId[t] \notin in
    <3>1. bpc[q] = "scan" /\ Shard(t) = bShard[q]
      BY <2>1 DEF HubInv, ScansAreCurrent
    <3>2. bShard[q] # sweep
      BY <3>1 DEF CloseAllShard, RLocked
    <3>3. QED
      BY <3>1, <3>2 DEF in, Shard
  <2>2. QED
    BY <1>1, <1>4, <2>1 DEF HubInv, ScansAreCurrent, Shard
<1>15. QED
  BY <1>4, <1>5, <1>7, <1>9, <1>10, <1>11, <1>12, <1>13, <1>14 DEF HubInv

LEMMA HubStutterInv == HubInv /\ UNCHANGED hubVars => HubInv'
  BY DEF HubInv, IdsDistinct, NewAreUnknown, RegisteredAreOpen, NoOrphan, VictimsAreOut,
         ScansAreCurrent, InUse, Referenced, Registered, Shard, hubVars, subscriberVars, broadcastVars

LEMMA CloseAllBeginInv == HubInv /\ CloseAllBegin => HubInv'
  BY DEF HubInv, IdsDistinct, NewAreUnknown, RegisteredAreOpen, NoOrphan, VictimsAreOut,
         ScansAreCurrent, InUse, Referenced, Registered, Shard, CloseAllBegin,
         subscriberVars, broadcastVars

\* The registry stays in order whatever the processes do.
LEMMA HubStep ==
    ASSUME ClockAssumption, TypeOK, HubInv, [Next]_vars
    PROVE  HubInv'
<1> USE DEF TypeOK
<1>1. ASSUME NEW p \in Publishers, NEW e \in Environments, NEW v \in Versions,
             HandlePublish(p, e, v)
      PROVE  HubInv'
  BY <1>1, BroadcastBeginInv, MaxVersionAssumption DEF HandlePublish, Versions
<1>2. ASSUME NEW p \in Publishers, BroadcastStep(p)
      PROVE  HubInv'
  BY <1>2, RLockInv, SendQueuedInv, SendFullInv, ScanMovesInv, EvictRemoveInv, EvictCloseInv
     DEF BroadcastStep, Send
<1>3. ASSUME NEW c \in Clients, NEW s \in Streams, NEW i \in Ids, Connect(c, s, i)
      PROVE  HubInv'
  BY <1>3, NewSubscriberInv DEF Connect, IdMayBe, ClockAssumption
<1>4. ASSUME NEW s \in Streams, HandlerStep(s)
      PROVE  HubInv'
  <2>1. CASE HandleSubscribe(s) \/ HandleSubscribed(s) \/ Forward(s) \/ Return(s) \/ Returned(s)
    BY <2>1, SubscribeInv, SubscribeCountInv, ReceiveInv, UnsubscribeInv, UnsubscribeCloseInv
       DEF HandleSubscribe, HandleSubscribed, Forward, Return, Returned
  <2>2. CASE Replay(s) \/ FullResync(s) \/ WriteMissed(s) \/ EnterLoop(s)
    BY <2>2, HubStutterInv DEF Replay, FullResync, WriteMissed, EnterLoop
  <2>3. QED
    BY <1>4, <2>1, <2>2 DEF HandlerStep
<1>5. CASE ShutdownBegin \/ ShutdownCloseShard
  BY <1>5, CloseAllBeginInv, CloseAllShardInv DEF ShutdownBegin, ShutdownCloseShard
<1>6. ASSUME \/ \E c \in Clients : Disconnect(c) \/ ConnectRefused(c)
             \/ \E c \in Clients, e \in Environments : SwitchEnvironment(c, e)
             \/ ShutdownListener \/ UNCHANGED vars
      PROVE  HubInv'
  BY <1>6, HubStutterInv DEF Disconnect, ConnectRefused, SwitchEnvironment, ShutdownListener, vars
<1>7. QED
  BY <1>1, <1>2, <1>3, <1>4, <1>5, <1>6 DEF Next

-----------------------------------------------------------------------------
(* The clients' side of the invariant.                                     *)

\* Steps of the hub alone change neither a client nor its handler's replay.
LEMMA ClientFrame ==
    ASSUME TypeOK, CursorBehind, ConnectedAreServed, ResyncsAreBehind,
           UNCHANGED <<subEnv, conn, env, ver, lastId, after, current, hpc>>,
           \A s \in Streams : life[s] # "free" => life'[s] # "free",
           \A s \in Streams : life'[s] = "subscribed" => life[s] = "subscribed"
    PROVE  CursorBehind' /\ ConnectedAreServed' /\ ResyncsAreBehind'
<1>1. CursorBehind'
  BY DEF CursorBehind
<1>2. ConnectedAreServed'
  BY DEF ConnectedAreServed, TypeOK
<1>3. ResyncsAreBehind'
  BY DEF ResyncsAreBehind, Running
<1>4. QED
  BY <1>1, <1>2, <1>3

\* A frame raises what the client holds at least to the id it notes.
LEMMA EmitFacts ==
    ASSUME NEW s, NEW v \in Nat, ver \in [Clients -> Nat], lastId \in [Clients -> Nat],
           CursorBehind, Emit(s, v)
    PROVE  /\ CursorBehind'
           /\ \A c \in Clients : ver'[c] >= ver[c] /\ ver'[c] \in Nat
           /\ \A c \in Clients : conn[c] = s => ver'[c] >= v
  BY DEF Emit, CursorBehind

LEMMA ClientStep ==
    ASSUME ClockAssumption, TypeOK, StreamInv, [Next]_vars
    PROVE  CursorBehind' /\ ConnectedAreServed' /\ ResyncsAreBehind'
<1> DEFINE Goal == CursorBehind' /\ ConnectedAreServed' /\ ResyncsAreBehind'
<1> USE NoStreamAssumption
<1>1. CursorBehind /\ ConnectedAreServed /\ ResyncsAreBehind /\ HubTypeOK
  BY DEF StreamInv, TypeOK
<1>2. ASSUME NEW p \in Publishers, NEW e \in Environments, NEW v \in Versions,
             HandlePublish(p, e, v)
      PROVE  Goal
  <2>1. UNCHANGED <<life, subEnv, conn, env, ver, lastId, after, hpc>>
    BY <1>2 DEF HandlePublish, BroadcastBegin, subscriberVars, handlerVars, clientVars
  <2>2. \A x \in Environments : current'[x] >= current[x] /\ current[x] \in Nat /\ current'[x] \in Nat
    BY <1>2, MaxVersionAssumption DEF HandlePublish, StorePublish, Stale, TypeOK, StoreTypeOK, Versions
  <2>3. ResyncsAreBehind'
    <3> SUFFICES ASSUME NEW s \in Streams, Running(s, "resync")
                 PROVE  after[s] < current'[subEnv[s]]
      BY <2>1 DEF ResyncsAreBehind, Running
    <3>1. after[s] < current[subEnv[s]] /\ after[s] \in Nat /\ subEnv[s] \in Environments
      BY <1>1 DEF ResyncsAreBehind, TypeOK, HubTypeOK
    <3>2. QED
      BY <2>2, <3>1
  <2>4. CursorBehind' /\ ConnectedAreServed'
    BY <1>1, <2>1 DEF CursorBehind, ConnectedAreServed
  <2>5. QED
    BY <2>3, <2>4
<1>3. ASSUME NEW p \in Publishers, BroadcastStep(p)
      PROVE  Goal
  <2>1. UNCHANGED <<conn, env, ver, lastId, after, current, hpc>>
    BY <1>3 DEF BroadcastStep, storeVars, handlerVars, clientVars
  <2>2. UNCHANGED <<life, subEnv>>
    <3>1. ASSUME NEW s \in Streams, Send(p, s) \/ EvictRemove(p, s)
          PROVE  UNCHANGED <<life, subEnv>>
      BY <3>1 DEF Send, SendQueued, SendFull, EvictRemove, subscriberVars
    <3>2. CASE RLockShard(p) \/ NextShard(p) \/ ScanEnd(p) \/ EvictClose(p) \/ BroadcastEnd(p)
      BY <3>2 DEF RLockShard, NextShard, ScanEnd, EvictClose, BroadcastEnd, subscriberVars
    <3>3. QED
      BY <1>3, <3>1, <3>2 DEF BroadcastStep
  <2>3. QED
    BY <1>1, <2>1, <2>2, ClientFrame
<1>4. ASSUME NEW c \in Clients, NEW s \in Streams, NEW i \in Ids, Connect(c, s, i)
      PROVE  Goal
  <2>1. /\ UNCHANGED <<current, hpc, env, ver, lastId>>
        /\ conn' = [conn EXCEPT ![c] = s] /\ after' = [after EXCEPT ![s] = lastId[c]]
        /\ life' = [life EXCEPT ![s] = "new"] /\ subEnv' = [subEnv EXCEPT ![s] = env[c]]
        /\ life[s] = "free"
    BY <1>4 DEF Connect, NewSubscriber, storeVars, InUse
  <2>2. CursorBehind'
    BY <1>1, <2>1 DEF CursorBehind
  <2>3. ConnectedAreServed'
    BY <1>1, <2>1 DEF ConnectedAreServed, CursorBehind, TypeOK, HubTypeOK
  <2>4. ResyncsAreBehind'
    BY <1>1, <2>1 DEF ResyncsAreBehind, Running, TypeOK, HubTypeOK
  <2>5. QED
    BY <2>2, <2>3, <2>4
<1>5. ASSUME NEW s \in Streams, HandleSubscribe(s) \/ Return(s)
      PROVE  Goal
  <2>1. UNCHANGED <<subEnv, conn, env, ver, lastId, after, current, hpc>>
    BY <1>5 DEF HandleSubscribe, Subscribe, Return, Unsubscribe, storeVars, handlerVars, clientVars
  <2>2. life' = [life EXCEPT ![s] = "counting"] \/ life' = [life EXCEPT ![s] = "closing"]
    BY <1>5 DEF HandleSubscribe, Subscribe, Return, Unsubscribe
  <2>3. \A t \in Streams : (life[t] # "free" => life'[t] # "free")
                           /\ (life'[t] = "subscribed" => life[t] = "subscribed")
    BY <2>2 DEF TypeOK, HubTypeOK
  <2>4. QED
    BY <1>1, <2>1, <2>3, ClientFrame
<1>6. ASSUME NEW s \in Streams, HandleSubscribed(s)
      PROVE  Goal
  <2>1. /\ UNCHANGED <<subEnv, conn, env, ver, lastId, after, current>>
        /\ life' = [life EXCEPT ![s] = "subscribed"] /\ hpc' = [hpc EXCEPT ![s] = "replay"]
    BY <1>6 DEF HandleSubscribed, SubscribeCount, storeVars, clientVars
  <2>2. CursorBehind' /\ ConnectedAreServed'
    BY <1>1, <2>1 DEF CursorBehind, ConnectedAreServed, TypeOK, HubTypeOK
  <2>3. ResyncsAreBehind'
    BY <1>1, <2>1 DEF ResyncsAreBehind, Running, TypeOK, HubTypeOK
  <2>4. QED
    BY <2>2, <2>3
<1>7. ASSUME NEW s \in Streams, Replay(s)
      PROVE  Goal
  <2>1. UNCHANGED <<life, subEnv, conn, env, ver, lastId, after, current>>
    BY <1>7 DEF Replay, storeVars, hubVars, subscriberVars, clientVars
  <2>2. CursorBehind' /\ ConnectedAreServed'
    BY <1>1, <2>1 DEF CursorBehind, ConnectedAreServed
  <2>3. \/ hpc' = [hpc EXCEPT ![s] = "write"]
        \/ hpc' = [hpc EXCEPT ![s] = "resync"] /\ after[s] < current[subEnv[s]]
    BY <1>7 DEF Replay, NeedsFullResync
  <2>4. ResyncsAreBehind'
    <3>1. CASE hpc' = [hpc EXCEPT ![s] = "write"]
      BY <1>1, <2>1, <3>1 DEF ResyncsAreBehind, Running, TypeOK
    <3>2. CASE hpc' = [hpc EXCEPT ![s] = "resync"] /\ after[s] < current[subEnv[s]]
      BY <1>1, <2>1, <3>2 DEF ResyncsAreBehind, Running, TypeOK
    <3>3. QED
      BY <2>3, <3>1, <3>2
  <2>5. QED
    BY <2>2, <2>4
<1>8. ASSUME NEW s \in Streams, FullResync(s)
      PROVE  Goal
  <2>1. UNCHANGED <<life, subEnv, conn, env, ver, lastId, after, current>>
        /\ hpc' = [hpc EXCEPT ![s] = "write"]
    BY <1>8 DEF FullResync, storeVars, hubVars, subscriberVars, clientVars
  <2>2. CursorBehind' /\ ConnectedAreServed'
    BY <1>1, <2>1 DEF CursorBehind, ConnectedAreServed
  <2>3. ResyncsAreBehind'
    BY <1>1, <2>1 DEF ResyncsAreBehind, Running, TypeOK
  <2>4. QED
    BY <2>2, <2>3
<1>9. ASSUME NEW s \in Streams, WriteMissed(s)
      PROVE  Goal
  <2>1. UNCHANGED <<life, subEnv, conn, env, after, current, hpc>>
    BY <1>9 DEF WriteMissed, storeVars, hubVars, subscriberVars
  <2>2. out[s] \in Seq(Nat) /\ out[s] # <<>>
    BY <1>9 DEF WriteMissed, TypeOK
  <2>3. Head(out[s]) \in Nat
    BY <2>2
  <2>4. CursorBehind' /\ \A c \in Clients : ver'[c] >= ver[c] /\ ver'[c] \in Nat
    <3>1. CASE Head(out[s]) > after[s]
      BY <1>1, <1>9, <2>3, <3>1, EmitFacts DEF WriteMissed, TypeOK
    <3>2. CASE ~(Head(out[s]) > after[s])
      BY <1>1, <1>9, <3>2 DEF WriteMissed, CursorBehind, TypeOK
    <3>3. QED
      BY <3>1, <3>2
  <2>5. ConnectedAreServed' /\ ResyncsAreBehind'
    BY <1>1, <2>1, <2>4 DEF ConnectedAreServed, ResyncsAreBehind, Running, TypeOK
  <2>6. QED
    BY <2>4, <2>5
<1>10. ASSUME NEW s \in Streams, EnterLoop(s)
       PROVE  Goal
  <2>1. UNCHANGED <<life, subEnv, conn, env, ver, lastId, current>>
        /\ hpc' = [hpc EXCEPT ![s] = "loop"] /\ after' = [after EXCEPT ![s] = 0]
    BY <1>10 DEF EnterLoop, storeVars, hubVars, subscriberVars, clientVars
  <2>2. CursorBehind' /\ ConnectedAreServed'
    BY <1>1, <2>1 DEF CursorBehind, ConnectedAreServed, TypeOK
  <2>3. ResyncsAreBehind'
    BY <1>1, <2>1 DEF ResyncsAreBehind, Running, TypeOK
  <2>4. QED
    BY <2>2, <2>3
<1>11. ASSUME NEW s \in Streams, Forward(s)
       PROVE  Goal
  <2>1. UNCHANGED <<life, subEnv, conn, env, after, current, hpc>>
    BY <1>11 DEF Forward, Receive, storeVars, handlerVars
  <2>2. messages[s] \in Seq(Nat) /\ messages[s] # <<>>
    BY <1>11 DEF Forward, Receive, TypeOK, HubTypeOK
  <2>3. Head(messages[s]) \in Nat
    BY <2>2
  <2>4. CursorBehind' /\ \A c \in Clients : ver'[c] >= ver[c] /\ ver'[c] \in Nat
    BY <1>1, <1>11, <2>3, EmitFacts DEF Forward, TypeOK
  <2>5. ConnectedAreServed' /\ ResyncsAreBehind'
    BY <1>1, <2>1, <2>4 DEF ConnectedAreServed, ResyncsAreBehind, Running, TypeOK
  <2>6. QED
    BY <2>4, <2>5
<1>12. ASSUME NEW s \in Streams, Returned(s)
       PROVE  Goal
  <2>1. /\ UNCHANGED <<subEnv, env, ver, lastId, after, current>>
        /\ conn' = [c \in Clients |-> IF conn[c] = s THEN NoStream ELSE conn[c]]
        /\ life' = [life EXCEPT ![s] = "free"] /\ hpc' = [hpc EXCEPT ![s] = "replay"]
    BY <1>12 DEF Returned, UnsubscribeClose, storeVars
  <2>2. CursorBehind' /\ ConnectedAreServed'
    BY <1>1, <2>1 DEF CursorBehind, ConnectedAreServed, TypeOK, HubTypeOK
  <2>3. ResyncsAreBehind'
    BY <1>1, <2>1 DEF ResyncsAreBehind, Running, TypeOK, HubTypeOK
  <2>4. QED
    BY <2>2, <2>3
<1>13. ASSUME NEW c \in Clients, Disconnect(c)
       PROVE  Goal
  <2>1. UNCHANGED <<life, subEnv, env, ver, lastId, after, current, hpc>>
        /\ conn' = [conn EXCEPT ![c] = NoStream]
    BY <1>13 DEF Disconnect, storeVars, hubVars, subscriberVars, handlerVars
  <2>2. QED
    BY <1>1, <2>1 DEF CursorBehind, ConnectedAreServed, ResyncsAreBehind, Running, TypeOK
<1>14. ASSUME NEW c \in Clients, NEW e \in Environments, SwitchEnvironment(c, e)
       PROVE  Goal
  <2>1. /\ UNCHANGED <<life, subEnv, after, current, hpc>>
        /\ conn' = [conn EXCEPT ![c] = NoStream] /\ env' = [env EXCEPT ![c] = e]
        /\ ver' = [ver EXCEPT ![c] = 0] /\ lastId' = [lastId EXCEPT ![c] = 0]
    BY <1>14 DEF SwitchEnvironment, storeVars, hubVars, subscriberVars, handlerVars
  <2>2. CursorBehind' /\ ConnectedAreServed'
    BY <1>1, <2>1 DEF CursorBehind, ConnectedAreServed, TypeOK
  <2>3. ResyncsAreBehind'
    BY <1>1, <2>1 DEF ResyncsAreBehind, Running
  <2>4. QED
    BY <2>2, <2>3
<1>15. ASSUME \/ \E c \in Clients : ConnectRefused(c)
              \/ ShutdownBegin \/ ShutdownCloseShard \/ ShutdownListener \/ UNCHANGED vars
       PROVE  Goal
  <2>1. UNCHANGED <<life, subEnv, conn, env, ver, lastId, after, current, hpc>>
    BY <1>15 DEF ConnectRefused, ShutdownBegin, CloseAllBegin, ShutdownCloseShard, CloseAllShard,
                 ShutdownListener, vars, storeVars, hubVars, subscriberVars, handlerVars, clientVars
  <2>2. QED
    BY <1>1, <2>1, ClientFrame
<1>16. QED
  BY <1>2, <1>3, <1>4, <1>5, <1>6, <1>7, <1>8, <1>9, <1>10, <1>11, <1>12, <1>13, <1>14, <1>15
     DEF Next, HandlerStep

-----------------------------------------------------------------------------
(* No gap: what the hub owes a stream it goes on owing, or delivers.       *)

\* The rest of a sequence holds whatever it held other than its head.
LEMMA TailHolds ==
    ASSUME NEW q \in Seq(Nat), q # <<>>, NEW v, Holds(q, v), Head(q) # v
    PROVE  Holds(Tail(q), v)
<1>1. PICK i \in 1..Len(q) : q[i] = v
  BY DEF Holds
<1>2. i # 1 /\ Len(Tail(q)) = Len(q) - 1
  BY <1>1
<1>3. i - 1 \in 1..Len(Tail(q)) /\ Tail(q)[i - 1] = q[i]
  BY <1>1, <1>2
<1>4. QED
  BY <1>1, <1>3 DEF Holds

LEMMA AppendHolds ==
    ASSUME NEW q \in Seq(Nat), NEW w \in Nat, NEW v
    PROVE  /\ Holds(q, v) => Holds(Append(q, w), v)
           /\ Holds(Append(q, w), w)
<1>1. Len(Append(q, w)) = Len(q) + 1 /\ Append(q, w)[Len(q) + 1] = w
      /\ \A i \in 1..Len(q) : Append(q, w)[i] = q[i]
  OBVIOUS
<1>2. Len(q) \in Nat
  OBVIOUS
<1>3. Holds(Append(q, w), w)
  BY <1>1, <1>2 DEF Holds
<1>4. Holds(q, v) => Holds(Append(q, w), v)
  BY <1>1, <1>2 DEF Holds
<1>5. QED
  BY <1>3, <1>4

LEMMA OwesFrame ==
    ASSUME NEW s \in Streams, NEW v, HubOwes(s, v),
           UNCHANGED <<bMsg, bEnv, bpc, bShard, todo, evict, victim>>,
           messages'[s] = messages[s], subId'[s] = subId[s], subEnv'[s] = subEnv[s],
           life'[s] = life[s], done[s] => done'[s],
           Registered(s) => Registered(s)' \/ done'[s]
    PROVE  HubOwes(s, v)'
  BY DEF HubOwes, WillSend, Doomed, Referenced, Shard

\* A broadcast under way keeps its promise to s: it reaches the shard of s, then
\* s on its list, then queues the message or condemns s.
LEMMA BroadcastOwes ==
    ASSUME HubTypeOK, HubInv, NEW p \in Publishers, NEW s \in Streams, InUse(s),
           NEW v, HubOwes(s, v),
           \/ RLockShard(p) \/ (\E t \in Streams : Send(p, t)) \/ NextShard(p) \/ ScanEnd(p)
           \/ (\E t \in Streams : EvictRemove(p, t)) \/ EvictClose(p) \/ BroadcastEnd(p)
    PROVE  HubOwes(s, v)'
<1> USE NoStreamAssumption, ShardAssumption DEF HubTypeOK, subscriberVars
<1>1. CASE RLockShard(p)
  <2>1. UNCHANGED <<registry, life, subId, subEnv, messages, done, bEnv, bMsg, bShard, evict, victim>>
        /\ bpc' = [bpc EXCEPT ![p] = "scan"] /\ bpc[p] = "rlock"
    BY <1>1 DEF RLockShard
  <2>2. todo'[p] = {t \in Streams : \E i \in Ids : ShardOf[i] = bShard[p] /\ registry[bEnv[p]][i] = t}
        /\ \A q \in Publishers \ {p} : todo'[q] = todo[q]
    BY <1>1 DEF RLockShard
  <2>3. WillSend(p, s) => WillSend(p, s)'
    <3> SUFFICES ASSUME WillSend(p, s) PROVE WillSend(p, s)'
      OBVIOUS
    <3>1. bEnv[p] = subEnv[s] /\ registry[subEnv[s]][subId[s]] = s /\ bShard[p] <= ShardOf[subId[s]]
      BY <2>1 DEF WillSend, Registered, Shard
    <3>2. bShard[p] = ShardOf[subId[s]] => s \in todo'[p]
      BY <2>2, <3>1
    <3>3. bShard[p] < ShardOf[subId[s]] \/ s \in todo'[p]
      BY <3>1, <3>2
    <3>4. QED
      BY <2>1, <3>1, <3>3 DEF WillSend, Registered, Shard
  <2>4. \A q \in Publishers \ {p} : WillSend(q, s) => WillSend(q, s)'
    BY <2>1, <2>2 DEF WillSend, Registered, Shard
  <2>5. QED
    BY <2>1, <2>3, <2>4 DEF HubOwes, Doomed, Referenced
<1>2. ASSUME NEW t \in Streams, SendQueued(p, t)
      PROVE  HubOwes(s, v)'
  <2>1. UNCHANGED <<registry, life, subId, subEnv, done, bpc, bEnv, bMsg, bShard, evict, victim>>
        /\ messages' = [messages EXCEPT ![t] = Append(@, bMsg[p])]
        /\ todo' = [todo EXCEPT ![p] = @ \ {t}] /\ bpc[p] = "scan" /\ t \in todo[p]
    BY <1>2 DEF SendQueued
  <2>2. messages[s] \in Seq(Nat) /\ bMsg[p] \in Nat
    OBVIOUS
  <2>3. Holds(messages[s], v) => Holds(messages'[s], v)
    BY <2>1, <2>2, AppendHolds
  <2>4. s = t => Holds(messages'[s], bMsg[p])
    BY <2>1, <2>2, AppendHolds
  <2>5. s # t => (WillSend(p, s) => WillSend(p, s)')
    BY <2>1 DEF WillSend, Registered, Shard
  <2>6. \A q \in Publishers \ {p} : WillSend(q, s) => WillSend(q, s)'
    BY <2>1 DEF WillSend, Registered, Shard
  <2>7. QED
    BY <2>1, <2>3, <2>4, <2>5, <2>6 DEF HubOwes, Doomed, Referenced
<1>3. ASSUME NEW t \in Streams, SendFull(p, t)
      PROVE  HubOwes(s, v)'
  <2>1. UNCHANGED <<registry, life, subId, subEnv, messages, done, bpc, bEnv, bMsg, bShard, victim>>
        /\ evict' = [evict EXCEPT ![p] = @ \cup {t}]
        /\ todo' = [todo EXCEPT ![p] = @ \ {t}] /\ bpc[p] = "scan" /\ t \in todo[p]
    BY <1>3 DEF SendFull
  <2>2. Doomed(s) \/ s = t => Doomed(s)'
    BY <2>1 DEF Doomed, Referenced
  <2>3. s # t => (WillSend(p, s) => WillSend(p, s)')
    BY <2>1 DEF WillSend, Registered, Shard
  <2>4. \A q \in Publishers \ {p} : WillSend(q, s) => WillSend(q, s)'
    BY <2>1 DEF WillSend, Registered, Shard
  <2>5. QED
    BY <2>1, <2>2, <2>3, <2>4 DEF HubOwes
<1>4. CASE NextShard(p)
  <2>1. UNCHANGED <<registry, life, subId, subEnv, messages, done, bEnv, bMsg, todo, evict, victim>>
        /\ bpc' = [bpc EXCEPT ![p] = "rlock"] /\ bShard' = [bShard EXCEPT ![p] = @ + 1]
        /\ bpc[p] = "scan" /\ todo[p] = {}
    BY <1>4 DEF NextShard
  <2>2. Shard(s) \in Nat /\ bShard[p] \in Nat
    BY DEF Shard
  <2>3. WillSend(p, s) => WillSend(p, s)'
    BY <2>1, <2>2 DEF WillSend, Registered, Shard
  <2>4. \A q \in Publishers \ {p} : WillSend(q, s) => WillSend(q, s)'
    BY <2>1 DEF WillSend, Registered, Shard
  <2>5. QED
    BY <2>1, <2>3, <2>4 DEF HubOwes, Doomed, Referenced
<1>5. CASE ScanEnd(p)
  <2>1. UNCHANGED <<registry, life, subId, subEnv, messages, done, bEnv, bMsg, bShard, todo, evict, victim>>
        /\ bpc' = [bpc EXCEPT ![p] = "evict"]
        /\ bpc[p] = "scan" /\ todo[p] = {} /\ bShard[p] >= NumShards
    BY <1>5 DEF ScanEnd
  <2>2. Shard(s) \in 1..NumShards
    BY DEF Shard
  <2>3. ~WillSend(p, s)
    BY <2>1, <2>2 DEF WillSend
  <2>4. \A q \in Publishers \ {p} : WillSend(q, s) => WillSend(q, s)'
    BY <2>1 DEF WillSend, Registered, Shard
  <2>5. QED
    BY <2>1, <2>3, <2>4 DEF HubOwes, Doomed, Referenced
<1>6. ASSUME NEW t \in Streams, EvictRemove(p, t)
      PROVE  HubOwes(s, v)'
  <2>1. UNCHANGED <<life, subId, subEnv, messages, done, bEnv, bMsg, bShard, todo>>
        /\ bpc' = [bpc EXCEPT ![p] = "close"] /\ bpc[p] = "evict" /\ t \in evict[p]
        /\ evict' = [evict EXCEPT ![p] = @ \ {t}] /\ victim' = [victim EXCEPT ![p] = t]
    BY <1>6 DEF EvictRemove
  <2>2. \A q \in Publishers : victim[q] # NoStream <=> bpc[q] = "close"
    BY DEF HubInv, VictimsAreOut
  <2>3. Doomed(s) \/ s = t => Doomed(s)'
    BY <2>1, <2>2 DEF Doomed, Referenced
  <2>4. InUse(t) /\ Remove(t)
    BY <1>6 DEF EvictRemove, InUse, Referenced
  <2>5. s # t => (Registered(s)' <=> Registered(s))
    BY <2>1, <2>4, RemoveFacts
  <2>6. s # t => \A q \in Publishers : WillSend(q, s) => WillSend(q, s)'
    BY <2>1, <2>5 DEF WillSend, Shard
  <2>7. QED
    BY <2>1, <2>3, <2>6 DEF HubOwes
<1>7. CASE EvictClose(p)
  <2>1. UNCHANGED <<registry, life, subId, subEnv, messages, bEnv, bMsg, bShard, todo, evict>>
        /\ done' = [done EXCEPT ![victim[p]] = TRUE] /\ victim' = [victim EXCEPT ![p] = NoStream]
        /\ bpc' = [bpc EXCEPT ![p] = "evict"] /\ bpc[p] = "close"
    BY <1>7 DEF EvictClose, Close
  <2>2. victim[p] \in Streams
    BY <2>1 DEF HubInv, VictimsAreOut
  <2>3. Doomed(s) => Doomed(s)'
    BY <2>1, <2>2 DEF Doomed, Referenced
  <2>4. \A q \in Publishers : WillSend(q, s) => WillSend(q, s)'
    BY <2>1 DEF WillSend, Registered, Shard
  <2>5. QED
    BY <2>1, <2>3, <2>4 DEF HubOwes
<1>8. CASE BroadcastEnd(p)
  <2>1. UNCHANGED <<registry, life, subId, subEnv, messages, done, bEnv, todo, evict, victim>>
        /\ bpc' = [bpc EXCEPT ![p] = "idle"] /\ bpc[p] = "evict"
        /\ bMsg' = [bMsg EXCEPT ![p] = 0] /\ bShard' = [bShard EXCEPT ![p] = 1]
    BY <1>8 DEF BroadcastEnd
  <2>2. ~WillSend(p, s)
    BY <2>1 DEF WillSend
  <2>3. \A q \in Publishers \ {p} : bMsg'[q] = bMsg[q] /\ (WillSend(q, s) => WillSend(q, s)')
    BY <2>1 DEF WillSend, Registered, Shard
  <2>4. QED
    BY <2>1, <2>2, <2>3 DEF HubOwes, Doomed, Referenced
<1>9. QED
  BY <1>1, <1>2, <1>3, <1>4, <1>5, <1>6, <1>7, <1>8 DEF Send

\* A publish owes the new version to every subscribed stream of its environment.
LEMMA PublishOwes ==
    ASSUME HubTypeOK, HubInv, NEW p \in Publishers, NEW e \in Environments, NEW v \in Nat,
           BroadcastBegin(p, e, v), NEW s \in Streams, life[s] # "free"
    PROVE  /\ subEnv[s] = e => HubOwes(s, v)'
           /\ \A w : HubOwes(s, w) => HubOwes(s, w)'
<1> USE NoStreamAssumption, ShardAssumption DEF HubTypeOK, subscriberVars
<1>1. UNCHANGED <<registry, life, subId, subEnv, messages, done, todo, evict, victim>>
      /\ bpc' = [bpc EXCEPT ![p] = "rlock"] /\ bpc[p] = "idle"
      /\ bEnv' = [bEnv EXCEPT ![p] = e] /\ bMsg' = [bMsg EXCEPT ![p] = v]
      /\ bShard' = [bShard EXCEPT ![p] = 1]
  BY DEF BroadcastBegin
<1>2. \A q \in Publishers : q # p => bMsg'[q] = bMsg[q] /\ (WillSend(q, s) => WillSend(q, s)')
  BY <1>1 DEF WillSend, Registered, Shard
<1>3. ~WillSend(p, s)
  BY <1>1 DEF WillSend
<1>4. \A w : HubOwes(s, w) => HubOwes(s, w)'
  BY <1>1, <1>2, <1>3 DEF HubOwes, Doomed, Referenced
<1>5. ASSUME subEnv[s] = e PROVE HubOwes(s, v)'
  <2>1. CASE Registered(s)
    <3>1. WillSend(p, s)' /\ bMsg'[p] = v
      BY <1>1, <1>5, <2>1 DEF WillSend, Registered, Shard
    <3>2. QED
      BY <3>1 DEF HubOwes
  <2>2. CASE life[s] \notin {"counting", "subscribed"}
    BY <1>1, <2>2 DEF HubOwes
  <2>3. CASE life[s] \in {"counting", "subscribed"} /\ ~Registered(s)
    BY <1>1, <2>3 DEF HubOwes, HubInv, NoOrphan, Doomed, Referenced
  <2>4. QED
    BY <2>1, <2>2, <2>3
<1>6. QED
  BY <1>4, <1>5

\* Another stream's calls into the hub leave what the hub owes s alone.
LEMMA OthersOwe ==
    ASSUME HubTypeOK, HubInv, NEW s \in Streams, InUse(s), NEW v, HubOwes(s, v),
           NEW t \in Streams, t # s,
           \/ \E i \in Ids, e \in Environments : NewSubscriber(t, i, e)
           \/ Subscribe(t) \/ SubscribeCount(t) \/ Receive(t) \/ Unsubscribe(t)
           \/ UnsubscribeClose(t)
    PROVE  HubOwes(s, v)'
<1> USE NoStreamAssumption DEF HubTypeOK, broadcastVars
<1>1. ASSUME NEW i \in Ids, NEW e \in Environments, NewSubscriber(t, i, e)
      PROVE  HubOwes(s, v)'
  BY <1>1, OwesFrame DEF NewSubscriber, Registered
<1>2. CASE Subscribe(t)
  BY <1>2, SubscribeInv, OwesFrame DEF Subscribe
<1>3. CASE SubscribeCount(t)
  BY <1>3, OwesFrame DEF SubscribeCount, Registered
<1>4. CASE Receive(t)
  BY <1>4, OwesFrame DEF Receive, Registered
<1>5. CASE Unsubscribe(t)
  <2>1. InUse(t) /\ Remove(t) /\ UNCHANGED <<subId, subEnv>>
    BY <1>5 DEF Unsubscribe, InUse
  <2>2. Registered(s)' <=> Registered(s)
    BY <2>1, RemoveFacts
  <2>3. QED
    BY <1>5, <2>2, OwesFrame DEF Unsubscribe
<1>6. CASE UnsubscribeClose(t)
  BY <1>6, OwesFrame DEF UnsubscribeClose, Close, Registered
<1>7. QED
  BY <1>1, <1>2, <1>3, <1>4, <1>5, <1>6

\* The gap of one client.
Covered(c, s, v) == ver[c] >= v \/ HubOwes(s, v) \/ ReplayOwes(s, v)

LEMMA OwesStutter ==
    ASSUME NEW s \in Streams, NEW v, HubOwes(s, v), UNCHANGED hubVars
    PROVE  HubOwes(s, v)'
  BY DEF HubOwes, WillSend, Doomed, Referenced, Registered, Shard, hubVars, subscriberVars, broadcastVars

LEMMA ReplayFrame ==
    ASSUME NEW s \in Streams, NEW v, ReplayOwes(s, v),
           hpc'[s] = hpc[s], out'[s] = out[s], after'[s] = after[s]
    PROVE  ReplayOwes(s, v)'
  BY DEF ReplayOwes, Holds

\* The handler of s itself takes a step: the version moves from the store to the
\* replay, and from the replay or the channel to the client.
LEMMA HandlerCovers ==
    ASSUME TypeOK, StoreInv, StreamInv, NEW c \in Clients, NEW s \in Streams, conn[c] = s,
           conn'[c] = s, NEW v, v = current[subEnv[s]], Covered(c, s, v), HandlerStep(s)
    PROVE  Covered(c, s, v)'
<1>1. /\ v \in Nat /\ ver[c] \in Nat /\ after[s] \in Nat /\ subEnv[s] \in Environments
      /\ after[s] <= ver[c] /\ conn[c] # NoStream
  BY NoStreamAssumption DEF TypeOK, StoreTypeOK, HubTypeOK, StreamInv, ConnectedAreServed
<1> USE DEF TypeOK
<1>2. CASE HandleSubscribe(s)
  BY <1>2 DEF HandleSubscribe, Subscribe, Covered, HubOwes, HubTypeOK
<1>3. CASE HandleSubscribed(s)
  BY <1>3 DEF HandleSubscribed, Covered, ReplayOwes
<1>4. CASE Replay(s)
  <2>1. UNCHANGED <<current, subEnv, ver, after>> /\ UNCHANGED hubVars
    BY <1>4 DEF Replay, storeVars, hubVars, subscriberVars, clientVars
  <2>2. CASE out' = [out EXCEPT ![s] = IF Known(subEnv[s]) THEN <<v>> ELSE <<>>]
             /\ hpc' = [hpc EXCEPT ![s] = "write"] /\ (after[s] <= 0 \/ ~Known(subEnv[s]))
    <3>1. CASE Known(subEnv[s])
      <4>1. out'[s] = <<v>> /\ hpc'[s] = "write" /\ v > after[s]
        BY <1>1, <2>2, <3>1 DEF Known
      <4>2. Holds(out'[s], v)
        BY <4>1 DEF Holds
      <4>3. QED
        BY <2>1, <4>1, <4>2 DEF Covered, ReplayOwes
    <3>2. CASE ~Known(subEnv[s])
      BY <1>1, <2>1, <3>2 DEF Known, Covered
    <3>3. QED
      BY <3>1, <3>2
  <2>3. CASE out' = [out EXCEPT ![s] = ResumeSource(subEnv[s], after[s])]
             /\ hpc' = [hpc EXCEPT ![s] = "write"] /\ Known(subEnv[s])
    <3>1. CASE after[s] >= v
      BY <1>1, <2>1, <3>1 DEF Covered
    <3>2. CASE after[s] < v
      <4>1. out'[s] = history[subEnv[s]] /\ hpc'[s] = "write"
        BY <1>1, <2>3, <3>2 DEF ResumeSource
      <4>2. history[subEnv[s]] \in Seq(Nat) /\ Len(history[subEnv[s]]) > 0
            /\ history[subEnv[s]][Len(history[subEnv[s]])] = v
        BY <1>1, <2>3 DEF StoreInv, StoreTypeOK, HistoryOrdered
      <4>3. Len(history[subEnv[s]]) \in 1..Len(history[subEnv[s]])
        BY <4>2
      <4>4. Holds(out'[s], v)
        BY <4>1, <4>2, <4>3 DEF Holds
      <4>5. QED
        BY <2>1, <3>2, <4>1, <4>4 DEF Covered, ReplayOwes
    <3>3. QED
      BY <1>1, <3>1, <3>2
  <2>4. CASE hpc' = [hpc EXCEPT ![s] = "resync"]
    BY <2>4 DEF Covered, ReplayOwes
  <2>5. QED
    BY <1>4, <2>2, <2>3, <2>4, Zenon DEF Replay
<1>5. CASE FullResync(s)
  <2>1. UNCHANGED <<current, subEnv, ver, after>> /\ after[s] < v
    BY <1>5 DEF FullResync, storeVars, hubVars, subscriberVars, clientVars, StreamInv, ResyncsAreBehind
  <2>2. out'[s] = <<v>> /\ hpc'[s] = "write"
    BY <1>1, <1>5, <2>1 DEF FullResync, Known
  <2>3. Holds(out'[s], v)
    BY <2>2 DEF Holds
  <2>4. QED
    BY <2>1, <2>2, <2>3 DEF Covered, ReplayOwes
<1>6. CASE WriteMissed(s)
  <2>1. UNCHANGED <<current, subEnv, after, hpc>> /\ UNCHANGED hubVars /\ hpc[s] = "write"
        /\ out'[s] = Tail(out[s]) /\ out[s] \in Seq(Nat) /\ out[s] # <<>>
    BY <1>6 DEF WriteMissed, Running, storeVars, hubVars, subscriberVars
  <2>2. Head(out[s]) \in Nat
    BY <2>1
  <2>3. ver'[c] >= ver[c] /\ ver'[c] \in Nat /\ (Head(out[s]) > after[s] => ver'[c] >= Head(out[s]))
    <3>1. CASE Head(out[s]) > after[s]
      BY <1>6, <2>2, <3>1, EmitFacts DEF WriteMissed, StreamInv
    <3>2. CASE ~(Head(out[s]) > after[s])
      BY <1>1, <1>6, <3>2 DEF WriteMissed
    <3>3. QED
      BY <3>1, <3>2
  <2>4. CASE ver[c] >= v
    BY <1>1, <2>1, <2>3, <2>4 DEF Covered
  <2>5. CASE HubOwes(s, v)
    BY <2>1, <2>5, OwesStutter DEF Covered
  <2>6. CASE ReplayOwes(s, v)
    <3>1. Holds(out[s], v) /\ v > after[s]
      BY <2>1, <2>6 DEF ReplayOwes
    <3>2. CASE Head(out[s]) = v
      BY <2>1, <2>3, <3>1, <3>2 DEF Covered
    <3>3. CASE Head(out[s]) # v
      <4>1. Holds(out'[s], v)
        BY <2>1, <3>1, <3>3, TailHolds
      <4>2. QED
        BY <2>1, <3>1, <4>1 DEF Covered, ReplayOwes
    <3>4. QED
      BY <3>2, <3>3
  <2>7. QED
    BY <2>4, <2>5, <2>6 DEF Covered
<1>7. CASE EnterLoop(s)
  <2>1. UNCHANGED <<current, subEnv, ver>> /\ UNCHANGED hubVars /\ hpc[s] = "write" /\ out[s] = <<>>
    BY <1>7 DEF EnterLoop, Running, storeVars, hubVars, subscriberVars, clientVars
  <2>2. ~ReplayOwes(s, v)
    BY <2>1 DEF ReplayOwes, Holds
  <2>3. QED
    BY <2>1, <2>2, OwesStutter DEF Covered
<1>8. CASE Forward(s)
  <2>1. UNCHANGED <<current, subEnv, hpc, out, after>> /\ hpc[s] = "loop"
    BY <1>8 DEF Forward, Running, Receive, storeVars, handlerVars
  <2>2. messages[s] \in Seq(Nat) /\ messages[s] # <<>> /\ messages'[s] = Tail(messages[s])
    BY <1>8 DEF Forward, Receive, HubTypeOK
  <2>3. Head(messages[s]) \in Nat
    BY <2>2
  <2>4. ver'[c] >= ver[c] /\ ver'[c] \in Nat /\ ver'[c] >= Head(messages[s])
    BY <1>8, <2>3, EmitFacts DEF Forward, StreamInv
  <2>5. ver[c] >= v \/ HubOwes(s, v)
    BY <2>1 DEF Covered, ReplayOwes
  <2>6. CASE ver[c] >= v \/ Head(messages[s]) = v
    BY <1>1, <2>1, <2>3, <2>4, <2>6 DEF Covered
  <2>7. CASE HubOwes(s, v) /\ Head(messages[s]) # v
    <3>1. Holds(messages[s], v) => Holds(messages'[s], v)
      BY <2>2, <2>7, TailHolds
    <3>2. UNCHANGED <<registry, life, subId, subEnv, done, bpc, bEnv, bMsg, bShard, todo, evict, victim>>
      BY <1>8 DEF Forward, Receive, broadcastVars
    <3>3. HubOwes(s, v)'
      BY <2>7, <3>1, <3>2 DEF HubOwes, WillSend, Doomed, Referenced, Registered, Shard
    <3>4. QED
      BY <3>3 DEF Covered
  <2>8. QED
    BY <2>5, <2>6, <2>7
<1>9. CASE Return(s)
  BY <1>9 DEF Return, Unsubscribe, Covered, HubOwes, HubTypeOK
<1>10. CASE Returned(s)
  BY <1>1, <1>10 DEF Returned
<1>11. QED
  BY <1>2, <1>3, <1>4, <1>5, <1>6, <1>7, <1>8, <1>9, <1>10 DEF HandlerStep

LEMMA NoGapStep ==
    ASSUME ClockAssumption, TypeOK, StoreInv, StreamInv, NoGap, [Next]_vars
    PROVE  NoGap'
<1> SUFFICES ASSUME NEW c \in Clients, NEW s, s # NoStream, conn'[c] = s,
                    NEW v, current'[subEnv'[s]] = v
             PROVE  Covered(c, s, v)'
  BY DEF NoGap, Covered
<1> USE NoStreamAssumption DEF TypeOK
<1>1. HubTypeOK /\ HubInv
  BY DEF StreamInv
<1>2. ASSUME conn[c] = s
      PROVE  /\ s \in Streams /\ life[s] # "free" /\ InUse(s) /\ subEnv[s] \in Environments
             /\ current[subEnv[s]] \in Nat /\ ver[c] \in Nat
             /\ Covered(c, s, current[subEnv[s]])
  <2>1. s \in Streams /\ life[s] # "free"
    BY <1>2 DEF StreamInv, ConnectedAreServed
  <2>2. Covered(c, s, current[subEnv[s]])
    BY <1>2 DEF NoGap, Covered
  <2>3. QED
    BY <2>1, <2>2 DEF InUse, HubTypeOK, StoreTypeOK
\* A step that leaves the client, the stream's handler and the store alone.
<1>3. ASSUME conn[c] = s, UNCHANGED current, ver'[c] >= ver[c], ver'[c] \in Nat,
             subEnv'[s] = subEnv[s], hpc'[s] = hpc[s], out'[s] = out[s], after'[s] = after[s],
             HubOwes(s, v) => HubOwes(s, v)'
      PROVE  Covered(c, s, v)'
  <2>1. v = current[subEnv[s]]
    BY <1>3
  <2>2. Covered(c, s, v) /\ v \in Nat /\ ver[c] \in Nat /\ s \in Streams
    BY <1>2, <1>3, <2>1
  <2>3. ReplayOwes(s, v) => ReplayOwes(s, v)'
    BY <1>3, <2>2, ReplayFrame
  <2>4. QED
    BY <1>3, <2>2, <2>3 DEF Covered
<1>4. ASSUME NEW p \in Publishers, NEW e \in Environments, NEW w \in Versions,
             HandlePublish(p, e, w)
      PROVE  Covered(c, s, v)'
  <2>1. UNCHANGED <<conn, ver, subEnv, hpc, out, after>> /\ BroadcastBegin(p, e, w) /\ w \in Nat
        /\ current' = [current EXCEPT ![e] = w]
    BY <1>4, MaxVersionAssumption
       DEF HandlePublish, StorePublish, BroadcastBegin, subscriberVars, handlerVars, clientVars, Versions
  <2>2. (subEnv[s] = e => HubOwes(s, w)') /\ \A x : HubOwes(s, x) => HubOwes(s, x)'
    BY <1>1, <1>2, <2>1, PublishOwes
  <2>3. CASE subEnv[s] = e
    <3>1. v = w
      BY <2>1, <2>3 DEF StoreTypeOK
    <3>2. QED
      BY <2>2, <2>3, <3>1 DEF Covered
  <2>4. CASE subEnv[s] # e
    <3>1. v = current[subEnv[s]] /\ s \in Streams
      BY <1>2, <2>1, <2>4 DEF StoreTypeOK
    <3>2. Covered(c, s, v)
      BY <1>2, <2>1, <3>1
    <3>3. ReplayOwes(s, v) => ReplayOwes(s, v)'
      BY <2>1, <3>1, ReplayFrame
    <3>4. QED
      BY <2>1, <2>2, <3>2, <3>3 DEF Covered
  <2>5. QED
    BY <2>3, <2>4
<1>5. ASSUME NEW p \in Publishers, BroadcastStep(p)
      PROVE  Covered(c, s, v)'
  <2>1. UNCHANGED <<conn, ver, after, out, current, hpc>>
    BY <1>5 DEF BroadcastStep, storeVars, handlerVars, clientVars
  <2>2. UNCHANGED subEnv
    <3>1. ASSUME NEW t \in Streams, Send(p, t) \/ EvictRemove(p, t)
          PROVE  UNCHANGED subEnv
      BY <3>1 DEF Send, SendQueued, SendFull, EvictRemove, subscriberVars
    <3>2. CASE RLockShard(p) \/ NextShard(p) \/ ScanEnd(p) \/ EvictClose(p) \/ BroadcastEnd(p)
      BY <3>2 DEF RLockShard, NextShard, ScanEnd, EvictClose, BroadcastEnd, subscriberVars
    <3>3. QED
      BY <1>5, <3>1, <3>2 DEF BroadcastStep
  <2>3. HubOwes(s, v) => HubOwes(s, v)'
    BY <1>1, <1>2, <1>5, <2>1, BroadcastOwes DEF BroadcastStep
  <2>4. QED
    BY <1>2, <1>3, <2>1, <2>2, <2>3
<1>6. ASSUME NEW d \in Clients, NEW t \in Streams, NEW i \in Ids, Connect(d, t, i)
      PROVE  Covered(c, s, v)'
  <2>1. /\ UNCHANGED <<current, hpc, out, env, ver>> /\ life[t] = "free"
        /\ conn' = [conn EXCEPT ![d] = t] /\ after' = [after EXCEPT ![t] = lastId[d]]
        /\ life' = [life EXCEPT ![t] = "new"] /\ subEnv' = [subEnv EXCEPT ![t] = env[d]]
        /\ NewSubscriber(t, i, env[d]) /\ env[d] \in Environments
    BY <1>6 DEF Connect, NewSubscriber, storeVars, InUse
  <2>2. CASE c = d
    BY <2>1, <2>2 DEF Covered, HubOwes, HubTypeOK
  <2>3. CASE c # d
    <3>1. conn[c] = s
      BY <2>1, <2>3
    <3>2. s # t
      BY <1>2, <2>1, <3>1
    <3>3. HubOwes(s, v) => HubOwes(s, v)'
      BY <1>1, <1>2, <2>1, <3>1, <3>2, OthersOwe
    <3>4. subEnv'[s] = subEnv[s] /\ after'[s] = after[s] /\ ver'[c] >= ver[c] /\ ver'[c] \in Nat
      BY <1>2, <2>1, <3>1, <3>2 DEF HubTypeOK
    <3>5. QED
      BY <1>3, <2>1, <3>1, <3>3, <3>4
  <2>4. QED
    BY <2>2, <2>3
<1>7. ASSUME NEW t \in Streams, HandlerStep(t)
      PROVE  Covered(c, s, v)'
  <2>1. /\ UNCHANGED <<current, subEnv>>
        /\ \A r \in Streams \ {t} : hpc'[r] = hpc[r] /\ out'[r] = out[r] /\ after'[r] = after[r]
        /\ \/ UNCHANGED hubVars
           \/ Subscribe(t) \/ SubscribeCount(t) \/ Receive(t) \/ Unsubscribe(t) \/ UnsubscribeClose(t)
    <3>1. CASE HandleSubscribe(t) \/ Return(t)
      BY <3>1 DEF HandleSubscribe, Subscribe, Return, Unsubscribe, storeVars, handlerVars
    <3>2. CASE HandleSubscribed(t)
      BY <3>2 DEF HandleSubscribed, SubscribeCount, storeVars
    <3>3. CASE Replay(t)
      BY <3>3 DEF Replay, storeVars, hubVars, subscriberVars
    <3>4. CASE FullResync(t)
      BY <3>4 DEF FullResync, storeVars, hubVars, subscriberVars
    <3>5. CASE WriteMissed(t)
      BY <3>5 DEF WriteMissed, storeVars, hubVars, subscriberVars
    <3>6. CASE EnterLoop(t)
      BY <3>6 DEF EnterLoop, storeVars, hubVars, subscriberVars
    <3>7. CASE Forward(t)
      BY <3>7 DEF Forward, Receive, storeVars, handlerVars
    <3>8. CASE Returned(t)
      BY <3>8 DEF Returned, UnsubscribeClose, storeVars
    <3>9. QED
      BY <1>7, <3>1, <3>2, <3>3, <3>4, <3>5, <3>6, <3>7, <3>8 DEF HandlerStep
  <2>2. conn[c] = s
    BY <1>7 DEF HandlerStep, HandleSubscribe, HandleSubscribed, Replay, FullResync, WriteMissed,
                EnterLoop, Forward, Return, Returned, clientVars
  <2>3. v = current[subEnv[s]]
    BY <2>1
  <2>4. CASE s = t
    BY <1>2, <1>7, <2>2, <2>3, <2>4, HandlerCovers
  <2>5. CASE s # t
    <3>1. ver'[c] = ver[c]
      <4>1. CASE WriteMissed(t)
        BY <2>2, <2>5, <4>1 DEF WriteMissed, Emit
      <4>2. CASE Forward(t)
        BY <2>2, <2>5, <4>2 DEF Forward, Emit
      <4>3. CASE HandleSubscribe(t) \/ HandleSubscribed(t) \/ Replay(t) \/ FullResync(t)
                 \/ EnterLoop(t) \/ Return(t) \/ Returned(t)
        BY <4>3 DEF HandleSubscribe, HandleSubscribed, Replay, FullResync, EnterLoop, Return,
                    Returned, clientVars
      <4>4. QED
        BY <1>7, <4>1, <4>2, <4>3 DEF HandlerStep
    <3>2. HubOwes(s, v) => HubOwes(s, v)'
      BY <1>1, <1>2, <2>1, <2>2, <2>5, OthersOwe, OwesStutter
    <3>3. QED
      BY <1>2, <1>3, <2>1, <2>2, <2>5, <3>1, <3>2
  <2>6. QED
    BY <2>4, <2>5
<1>8. ASSUME NEW d \in Clients, \/ Disconnect(d) \/ \E e \in Environments : SwitchEnvironment(d, e)
      PROVE  Covered(c, s, v)'
  <2>1. UNCHANGED <<current, hpc, out, after>> /\ UNCHANGED hubVars /\ conn' = [conn EXCEPT ![d] = NoStream]
        /\ \A x \in Clients \ {d} : ver'[x] = ver[x]
    BY <1>8 DEF Disconnect, SwitchEnvironment, storeVars, handlerVars
  <2>2. c # d /\ conn[c] = s
    BY <2>1
  <2>3. UNCHANGED subEnv /\ ver'[c] >= ver[c] /\ ver'[c] \in Nat
    BY <1>2, <2>1, <2>2 DEF hubVars, subscriberVars
  <2>4. QED
    BY <1>2, <1>3, <2>1, <2>2, <2>3, OwesStutter
<1>9. CASE ShutdownCloseShard
  <2>1. UNCHANGED <<conn, ver, after, out, current, hpc, life, subId, subEnv, messages, broadcastVars>>
    BY <1>9 DEF ShutdownCloseShard, CloseAllShard, storeVars, handlerVars, clientVars
  <2>2. HubOwes(s, v) => HubOwes(s, v)'
    BY <1>1, <1>2, <1>9, <2>1, CloseAllShardInv, OwesFrame DEF ShutdownCloseShard, broadcastVars
  <2>3. QED
    BY <1>2, <1>3, <2>1, <2>2
<1>10. ASSUME \/ \E d \in Clients : ConnectRefused(d)
              \/ ShutdownBegin \/ ShutdownListener \/ UNCHANGED vars
       PROVE  Covered(c, s, v)'
  <2>1. UNCHANGED <<conn, ver, after, out, current, hpc, registry, life, subId, subEnv, messages, done,
                    broadcastVars>>
    BY <1>10 DEF ConnectRefused, ShutdownBegin, CloseAllBegin, ShutdownListener, vars,
                 storeVars, hubVars, subscriberVars, handlerVars, clientVars
  <2>2. HubOwes(s, v) => HubOwes(s, v)'
    BY <1>2, <2>1, OwesFrame DEF broadcastVars, Registered
  <2>3. QED
    BY <1>2, <1>3, <2>1, <2>2
<1>11. QED
  BY <1>4, <1>5, <1>6, <1>7, <1>8, <1>9, <1>10 DEF Next

-----------------------------------------------------------------------------
\* The inductive invariant of the delivery path.
DeliveryInv == TypeOK /\ StoreInv /\ StreamInv /\ NoGap

LEMMA InitDelivery == Init => DeliveryInv
<1> SUFFICES ASSUME Init PROVE DeliveryInv
  OBVIOUS
<1> USE NoStreamAssumption
<1>1. TypeOK /\ StoreInv
  BY InitType, StoreInitInv DEF Init
<1>2. /\ registry = [e \in Environments |-> [i \in Ids |-> NoStream]]
      /\ life = [s \in Streams |-> "free"] /\ done = [s \in Streams |-> TRUE]
      /\ bpc = [p \in Publishers |-> "idle"] /\ todo = [p \in Publishers |-> {}]
      /\ evict = [p \in Publishers |-> {}] /\ victim = [p \in Publishers |-> NoStream]
  BY Zenon DEF Init, HubInit
<1>3. \A s \in Streams : ~InUse(s)
  BY <1>2 DEF InUse, Referenced
<1>4. IdsDistinct /\ NewAreUnknown /\ NoOrphan
  BY <1>2, <1>3 DEF IdsDistinct, NewAreUnknown, NoOrphan
<1>5. VictimsAreOut /\ RegisteredAreOpen /\ ScansAreCurrent
  BY <1>2 DEF VictimsAreOut, RegisteredAreOpen, ScansAreCurrent
<1>6. /\ conn = [c \in Clients |-> NoStream] /\ ver = [c \in Clients |-> 0]
      /\ lastId = [c \in Clients |-> 0] /\ hpc = [s \in Streams |-> "replay"]
  BY DEF Init
<1>7. CursorBehind /\ ConnectedAreServed /\ ResyncsAreBehind /\ NoGap
  BY <1>6 DEF CursorBehind, ConnectedAreServed, ResyncsAreBehind, Running, NoGap
<1>8. QED
  BY <1>1, <1>4, <1>5, <1>7 DEF DeliveryInv, StreamInv, HubInv

\* The store's invariant, now with everything that surrounds the store.
LEMMA StoreStep ==
    ASSUME StoreInv, [Next]_vars
    PROVE  StoreInv'
<1>1. ASSUME NEW p \in Publishers, NEW e \in Environments, NEW v \in Versions,
             HandlePublish(p, e, v)
      PROVE  StoreInv'
  BY <1>1, StorePublishInv, MaxVersionAssumption DEF HandlePublish, Versions
<1>2. CASE UNCHANGED storeVars
  BY <1>2, StoreStutterInv
<1>3. ASSUME NEW s \in Streams, HandlerStep(s)
      PROVE  UNCHANGED storeVars
  BY <1>3 DEF HandlerStep, HandleSubscribe, HandleSubscribed, Replay, FullResync, WriteMissed,
              EnterLoop, Forward, Return, Returned
<1>4. ASSUME \/ \E p \in Publishers : BroadcastStep(p)
             \/ \E c \in Clients, s \in Streams, i \in Ids : Connect(c, s, i)
             \/ \E c \in Clients : Disconnect(c) \/ ConnectRefused(c)
             \/ \E c \in Clients, e \in Environments : SwitchEnvironment(c, e)
             \/ ShutdownBegin \/ ShutdownCloseShard \/ ShutdownListener \/ UNCHANGED vars
      PROVE  UNCHANGED storeVars
  BY <1>4 DEF BroadcastStep, Connect, Disconnect, ConnectRefused, SwitchEnvironment,
              ShutdownBegin, ShutdownCloseShard, ShutdownListener, vars
<1>5. QED
  BY <1>1, <1>2, <1>3, <1>4 DEF Next

LEMMA StepDelivery ==
    ASSUME ClockAssumption, DeliveryInv, [Next]_vars
    PROVE  DeliveryInv'
<1> USE DEF DeliveryInv
<1>1. TypeOK'
  BY StepType
<1>2. HubInv'
  BY HubStep DEF StreamInv
<1>3. StreamInv'
  BY <1>2, ClientStep DEF StreamInv
<1>4. NoGap'
  BY NoGapStep
<1>5. StoreInv'
  BY StoreStep
<1>6. QED
  BY <1>1, <1>3, <1>4, <1>5

\* Subscribing before replaying, the non-blocking send and the eviction of whoever
\* is behind lose no update on a live stream: whatever the interleaving, a connected
\* client holds the current version, or is owed it, or is about to be disconnected.
THEOREM NoUpdateIsLost ==
    ASSUME ClockAssumption
    PROVE  Spec => []NoGap
<1>1. DeliveryInv /\ [Next]_vars => DeliveryInv'
  BY StepDelivery
<1>2. DeliveryInv => NoGap
  BY DEF DeliveryInv
<1>3. QED
  BY <1>1, <1>2, InitDelivery, PTL DEF Spec

\* The invariant that carries the argument: whatever the interleaving of eviction,
\* disconnect, subscription and CloseAll, nobody waits on a channel no broadcast
\* can reach, nobody closed is still registered, and cursors stay behind.
THEOREM RegistryIsSound ==
    ASSUME ClockAssumption
    PROVE  Spec => []StreamInv
<1>1. DeliveryInv /\ [Next]_vars => DeliveryInv'
  BY StepDelivery
<1>2. DeliveryInv => StreamInv
  BY DEF DeliveryInv
<1>3. QED
  BY <1>1, <1>2, InitDelivery, PTL DEF Spec

\* Whatever clients and broadcasts do meanwhile, a resume that is answered without
\* a full resync misses no accepted version.
THEOREM ResumeMissesNothing == Spec => []ResumeComplete
<1>1. StoreInv /\ [Next]_vars => StoreInv'
  BY StoreStep
<1>2. Init => StoreInv
  BY StoreInitInv DEF Init
<1>3. QED
  BY <1>1, <1>2, InvGivesResume, PTL DEF Spec

\* A handler that still waits for messages can be reached by every broadcast, or is
\* about to see its channel closed, however remove, close, Subscribe and CloseAll
\* interleave.
THEOREM NobodyIsOrphaned ==
    ASSUME ClockAssumption
    PROVE  Spec => []NoOrphan
<1>1. StreamInv => NoOrphan
  BY DEF StreamInv, HubInv
<1>2. QED
  BY <1>1, RegistryIsSound, PTL

\* No broadcast finds a closed subscriber in the registry.
THEOREM OnlyOpenAreRegistered ==
    ASSUME ClockAssumption
    PROVE  Spec => []RegisteredAreOpen
<1>1. StreamInv => RegisteredAreOpen
  BY DEF StreamInv, HubInv
<1>2. QED
  BY <1>1, RegistryIsSound, PTL

-----------------------------------------------------------------------------
(* The connected gauge.  Entries and Counting are finite without any       *)
(* assumption on Streams, Ids or Environments: one step adds one member.   *)

Entries == {ei \in Environments \X Ids : registry[ei[1]][ei[2]] # NoStream}
Counting == {s \in Streams : life[s] = "counting"}

GaugeInv ==
    /\ IsFiniteSet(Entries) /\ IsFiniteSet(Counting)
    /\ connected \in Int
    /\ connected + Cardinality(Counting) = Cardinality(Entries)

\* A step that registers nobody, removes nobody and counts nobody.
LEMMA GaugeFrame ==
    ASSUME GaugeInv, Entries' = Entries, Counting' = Counting, connected' = connected
    PROVE  GaugeInv'
BY DEF GaugeInv

LEMMA EntryKey ==
    ASSUME HubTypeOK, NEW s \in Streams
    PROVE  /\ <<subEnv[s], subId[s]>> \in Environments \X Ids
           /\ <<subEnv[s], subId[s]>> \in Entries <=> registry[subEnv[s]][subId[s]] # NoStream
BY DEF HubTypeOK, Entries

\* Subscribe overwrites no entry, for an id in use is its owner's alone.
LEMMA SubscribeGauge ==
    ASSUME HubTypeOK, HubInv, GaugeInv, NEW s \in Streams, Subscribe(s)
    PROVE  GaugeInv'
<1> USE NoStreamAssumption
<1> DEFINE k == <<subEnv[s], subId[s]>>
<1>1. life[s] = "new" /\ life' = [life EXCEPT ![s] = "counting"] /\ connected' = connected
  BY DEF Subscribe
<1>2. registry' = [registry EXCEPT ![subEnv[s]][subId[s]] = s]
  BY DEF Subscribe
<1>3. k \notin Entries
  <2> SUFFICES ASSUME registry[subEnv[s]][subId[s]] # NoStream PROVE FALSE
    BY EntryKey
  <2>1. PICK t \in Streams : t = registry[subEnv[s]][subId[s]]
    BY DEF HubTypeOK
  <2>2. life[t] \in {"counting", "subscribed"} /\ subId[t] = subId[s]
    BY <2>1 DEF HubInv, RegisteredAreOpen, HubTypeOK
  <2>3. t # s /\ InUse(s) /\ InUse(t)
    BY <1>1, <2>2 DEF InUse
  <2> QED
    BY <2>2, <2>3 DEF HubInv, IdsDistinct
<1>4. Entries' = Entries \cup {k}
  <2>1. \A e \in Environments, i \in Ids :
          registry'[e][i] = IF e = subEnv[s] /\ i = subId[s] THEN s ELSE registry[e][i]
    BY <1>2 DEF HubTypeOK
  <2>2. \A ei \in Environments \X Ids : ei = k <=> ei[1] = subEnv[s] /\ ei[2] = subId[s]
    OBVIOUS
  <2>3. k \in Environments \X Ids /\ s # NoStream
    BY DEF HubTypeOK
  <2> QED
    BY <2>1, <2>2, <2>3 DEF Entries
<1>5. Counting' = Counting \cup {s} /\ s \notin Counting
  BY <1>1 DEF Counting, HubTypeOK
<1>6. IsFiniteSet(Entries') /\ Cardinality(Entries') = Cardinality(Entries) + 1
  <2> HIDE DEF k
  <2> QED
    BY <1>3, <1>4, FS_AddElement DEF GaugeInv
<1>7. IsFiniteSet(Counting') /\ Cardinality(Counting') = Cardinality(Counting) + 1
  BY <1>5, FS_AddElement DEF GaugeInv
<1>8. Cardinality(Entries) \in Nat /\ Cardinality(Counting) \in Nat
  BY FS_CardinalityType DEF GaugeInv
<1> QED
  BY <1>1, <1>6, <1>7, <1>8 DEF GaugeInv

LEMMA SubscribeCountGauge ==
    ASSUME HubTypeOK, GaugeInv, NEW s \in Streams, SubscribeCount(s)
    PROVE  GaugeInv'
<1>1. Counting' = Counting \ {s} /\ s \in Counting
  BY DEF SubscribeCount, Counting, HubTypeOK
<1>2. Entries' = Entries /\ connected' = connected + 1
  BY DEF SubscribeCount, Entries
<1>3. IsFiniteSet(Counting') /\ Cardinality(Counting') = Cardinality(Counting) - 1
  BY <1>1, FS_RemoveElement DEF GaugeInv
<1>4. Cardinality(Entries) \in Nat /\ Cardinality(Counting) \in Nat
  BY FS_CardinalityType DEF GaugeInv
<1> QED
  BY <1>2, <1>3, <1>4 DEF GaugeInv

\* remove decrements exactly when it finds an entry, whoever comes first.
LEMMA RemoveGauge ==
    ASSUME HubTypeOK, GaugeInv, NEW s \in Streams, Remove(s), Counting' = Counting
    PROVE  GaugeInv'
<1> DEFINE k == <<subEnv[s], subId[s]>>
<1>1. registry' = [registry EXCEPT ![subEnv[s]][subId[s]] = NoStream]
  BY DEF Remove
<1>2. connected' = IF k \in Entries THEN connected - 1 ELSE connected
  BY EntryKey DEF Remove
<1>3. Entries' = Entries \ {k}
  <2>1. \A e \in Environments, i \in Ids :
          registry'[e][i] = IF e = subEnv[s] /\ i = subId[s] THEN NoStream ELSE registry[e][i]
    BY <1>1 DEF HubTypeOK
  <2>2. \A ei \in Environments \X Ids : ei = k <=> ei[1] = subEnv[s] /\ ei[2] = subId[s]
    OBVIOUS
  <2> QED
    BY <2>1, <2>2 DEF Entries
<1>4. /\ IsFiniteSet(Entries')
      /\ Cardinality(Entries') = IF k \in Entries THEN Cardinality(Entries) - 1 ELSE Cardinality(Entries)
  <2> HIDE DEF k
  <2> QED
    BY <1>3, FS_RemoveElement DEF GaugeInv
<1>5. Cardinality(Entries) \in Nat /\ Cardinality(Counting) \in Nat
  BY FS_CardinalityType DEF GaugeInv
<1> HIDE DEF k
<1> QED
  BY <1>2, <1>4, <1>5 DEF GaugeInv

\* CloseAll subtracts the entries of the shard it empties.
LEMMA CloseAllShardGauge ==
    ASSUME HubTypeOK, GaugeInv, CloseAllShard
    PROVE  GaugeInv'
<1> DEFINE In == {i \in Ids : ShardOf[i] = sweep}
           Out == {ei \in Environments \X In : registry[ei[1]][ei[2]] # NoStream}
<1>1. /\ registry' = [e \in Environments |->
                        [i \in Ids |-> IF i \in In THEN NoStream ELSE registry[e][i]]]
      /\ connected' = connected - Cardinality(Out)
      /\ UNCHANGED life
  BY DEF CloseAllShard
<1>2. Entries' = Entries \ Out
  <2>1. \A e \in Environments, i \in Ids :
          registry'[e][i] = IF i \in In THEN NoStream ELSE registry[e][i]
    BY <1>1
  <2> QED
    BY <2>1 DEF Entries
<1>3. Entries \cap Out = Out
  BY DEF Entries
<1>4. Counting' = Counting
  BY <1>1 DEF Counting
<1>5. IsFiniteSet(Entries') /\ Cardinality(Entries') = Cardinality(Entries) - Cardinality(Out)
  <2> HIDE DEF Out
  <2>1. IsFiniteSet(Entries)
    BY DEF GaugeInv
  <2>2. /\ IsFiniteSet(Entries \ Out)
        /\ Cardinality(Entries \ Out) = Cardinality(Entries) - Cardinality(Entries \cap Out)
    BY <2>1, FS_Difference
  <2> QED
    BY <1>2, <1>3, <2>2
<1>6. Cardinality(Out) \in Nat
  <2>1. Out \in SUBSET Entries
    BY DEF Entries
  <2> HIDE DEF Out
  <2> QED
    BY <2>1, FS_Subset, FS_CardinalityType DEF GaugeInv
<1>7. Cardinality(Entries) \in Nat /\ Cardinality(Counting) \in Nat
  BY FS_CardinalityType DEF GaugeInv
<1> HIDE DEF Out
<1> QED
  BY <1>1, <1>4, <1>5, <1>6, <1>7 DEF GaugeInv

LEMMA StepGauge ==
    ASSUME TypeOK, HubInv, GaugeInv, [Next]_vars
    PROVE  GaugeInv'
<1>0. HubTypeOK
  BY DEF TypeOK
<1>1. CASE UNCHANGED <<registry, life, connected>>
  <2>1. Entries' = Entries /\ Counting' = Counting
    BY <1>1 DEF Entries, Counting
  <2> QED
    BY <1>1, <2>1, GaugeFrame
<1>2. ASSUME NEW p \in Publishers, NEW e \in Environments, NEW v \in Versions,
             HandlePublish(p, e, v)
      PROVE  UNCHANGED <<registry, life, connected>>
  BY <1>2 DEF HandlePublish, BroadcastBegin, subscriberVars
<1>3. ASSUME NEW p \in Publishers, BroadcastStep(p)
      PROVE  GaugeInv'
  <2>1. ASSUME NEW s \in Streams, EvictRemove(p, s)
        PROVE  GaugeInv'
    <3>1. Remove(s) /\ Counting' = Counting
      BY <2>1 DEF EvictRemove, subscriberVars, Counting
    <3> QED
      BY <1>0, <3>1, RemoveGauge
  <2>2. CASE \/ RLockShard(p) \/ \E s \in Streams : Send(p, s)
             \/ NextShard(p) \/ ScanEnd(p) \/ EvictClose(p) \/ BroadcastEnd(p)
    BY <1>1, <2>2 DEF RLockShard, Send, SendQueued, SendFull, NextShard, ScanEnd, EvictClose,
                      BroadcastEnd, subscriberVars
  <2> QED
    BY <1>3, <2>1, <2>2 DEF BroadcastStep
<1>4. ASSUME NEW c \in Clients, NEW s \in Streams, NEW i \in Ids, Connect(c, s, i)
      PROVE  GaugeInv'
  <2>1. Entries' = Entries /\ connected' = connected
    BY <1>4 DEF Connect, NewSubscriber, Entries
  <2>2. Counting' = Counting
    BY <1>0, <1>4 DEF Connect, NewSubscriber, InUse, Counting, HubTypeOK
  <2> QED
    BY <2>1, <2>2, GaugeFrame
<1>5. ASSUME NEW s \in Streams, HandlerStep(s)
      PROVE  GaugeInv'
  <2>1. CASE HandleSubscribe(s)
    BY <1>0, <2>1, SubscribeGauge DEF HandleSubscribe
  <2>2. CASE HandleSubscribed(s)
    BY <1>0, <2>2, SubscribeCountGauge DEF HandleSubscribed
  <2>3. CASE Return(s)
    <3>1. Remove(s) /\ Counting' = Counting
      BY <1>0, <2>3 DEF Return, Unsubscribe, Counting, HubTypeOK
    <3> QED
      BY <1>0, <3>1, RemoveGauge
  <2>4. CASE Returned(s)
    <3>1. Entries' = Entries /\ connected' = connected
      BY <2>4 DEF Returned, UnsubscribeClose, Entries
    <3>2. Counting' = Counting
      BY <1>0, <2>4 DEF Returned, UnsubscribeClose, Counting, HubTypeOK
    <3> QED
      BY <3>1, <3>2, GaugeFrame
  <2>5. CASE Replay(s) \/ FullResync(s) \/ WriteMissed(s) \/ EnterLoop(s) \/ Forward(s)
    <3>1. UNCHANGED <<registry, life, connected>>
      BY <2>5 DEF Replay, FullResync, WriteMissed, EnterLoop, Forward, Receive, hubVars, subscriberVars
    <3> QED
      BY <1>1, <3>1
  <2> QED
    BY <1>5, <2>1, <2>2, <2>3, <2>4, <2>5 DEF HandlerStep
<1>6. CASE ShutdownCloseShard
  BY <1>0, <1>6, CloseAllShardGauge DEF ShutdownCloseShard
<1>7. ASSUME \/ \E c \in Clients : Disconnect(c) \/ ConnectRefused(c)
             \/ \E c \in Clients, e \in Environments : SwitchEnvironment(c, e)
             \/ ShutdownBegin \/ ShutdownListener \/ UNCHANGED vars
      PROVE  UNCHANGED <<registry, life, connected>>
  BY <1>7 DEF Disconnect, ConnectRefused, SwitchEnvironment, ShutdownBegin, CloseAllBegin,
              ShutdownListener, vars, hubVars, subscriberVars
<1> QED
  BY <1>1, <1>2, <1>3, <1>4, <1>5, <1>6, <1>7 DEF Next

\* The connected gauge does not drift: however eviction, disconnect, subscription
\* and CloseAll interleave, it is the number of registered subscribers less those
\* whose addition Subscribe has yet to make.
THEOREM GaugeIsExact ==
    ASSUME ClockAssumption
    PROVE  Spec => []Accounting
<1>1. Init => GaugeInv
  <2> SUFFICES ASSUME Init PROVE GaugeInv
    OBVIOUS
  <2>1. Entries = {} /\ Counting = {} /\ connected = 0
    BY DEF Init, HubInit, Entries, Counting
  <2> QED
    BY <2>1, FS_EmptySet DEF GaugeInv
<1>2. DeliveryInv /\ GaugeInv /\ [Next]_vars => (DeliveryInv /\ GaugeInv)'
  BY StepDelivery, StepGauge DEF DeliveryInv, StreamInv
<1>3. GaugeInv => Accounting
  BY DEF GaugeInv, Accounting, Entries, Counting
<1> QED
  BY <1>1, <1>2, <1>3, InitDelivery, PTL DEF Spec

=============================================================================
