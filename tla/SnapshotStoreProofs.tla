------------------------- MODULE SnapshotStoreProofs -------------------------
(***************************************************************************)
(* The store's history is always enough for Resume, for every history size *)
(* and every set of environments.                                          *)
(***************************************************************************)
EXTENDS SnapshotStore, TLAPS

\* The inductive invariant of the store: the history is ordered and bounded, and
\* whatever was accepted and is no longer in it is older than all of it.
StoreInv == StoreTypeOK /\ HistoryOrdered /\ DroppedAreOlder

LEMMA RetainedType ==
    ASSUME NEW h \in Seq(Nat), NEW v \in Nat
    PROVE  Retained(h, v) \in Seq(Nat)
<1>1. Append(h, v) \in Seq(Nat) /\ Len(Append(h, v)) = Len(h) + 1
  OBVIOUS
<1>2. Tail(Append(h, v)) \in Seq(Nat)
  BY <1>1
<1>3. QED
  BY <1>1, <1>2 DEF Retained

\* Retained keeps a sequence, of at most HistorySize entries, that ends in v and
\* otherwise holds entries of h in their order, the newest ones.
LEMMA RetainedFacts ==
    ASSUME NEW h \in Seq(Nat), NEW v \in Nat, Len(h) <= HistorySize
    PROVE  /\ Retained(h, v) \in Seq(Nat)
           /\ Len(Retained(h, v)) \in 1..HistorySize
           /\ Retained(h, v)[Len(Retained(h, v))] = v
           /\ \E d \in {0, 1} :
                /\ Len(Retained(h, v)) = Len(h) + 1 - d
                /\ \A i \in 1..(Len(Retained(h, v)) - 1) : Retained(h, v)[i] = h[i + d]
                /\ d = 1 => Len(h) = HistorySize
<1> USE HistorySizeAssumption
<1>1. Append(h, v) \in Seq(Nat) /\ Len(Append(h, v)) = Len(h) + 1
  OBVIOUS
<1>2. CASE Len(h) + 1 > HistorySize
  <2>1. Len(h) = HistorySize
    BY <1>2
  <2>2. Retained(h, v) = Tail(Append(h, v))
    BY <1>2 DEF Retained
  <2>3. /\ Tail(Append(h, v)) \in Seq(Nat)
        /\ Len(Tail(Append(h, v))) = Len(h)
        /\ \A i \in 1..Len(h) : Tail(Append(h, v))[i] = Append(h, v)[i + 1]
    BY <1>1, <2>1
  <2>4. \A i \in 1..(Len(h) - 1) : Append(h, v)[i + 1] = h[i + 1]
    OBVIOUS
  <2>5. Append(h, v)[Len(h) + 1] = v
    OBVIOUS
  <2>6. QED
    BY <2>1, <2>2, <2>3, <2>4, <2>5
<1>3. CASE ~(Len(h) + 1 > HistorySize)
  <2>1. Retained(h, v) = Append(h, v)
    BY <1>3 DEF Retained
  <2>2. QED
    BY <1>1, <1>3, <2>1
<1>4. QED
  BY <1>2, <1>3

\* Retained(h, v), for a v newer than all of an ascending h, is ascending, holds v and
\* entries of h only, and nothing h held is newer than it without being in it.
LEMMA RetainedOrder ==
    ASSUME NEW h \in Seq(Nat), NEW v \in Nat, Len(h) <= HistorySize,
           \A i, j \in 1..Len(h) : i < j => h[i] < h[j],
           \A i \in 1..Len(h) : h[i] < v
    PROVE  LET k == Retained(h, v) IN
           /\ \A i, j \in 1..Len(k) : i < j => k[i] < k[j]
           /\ \A i \in 1..Len(k) : k[i] = v \/ \E j \in 1..Len(h) : k[i] = h[j]
           /\ \A i \in 1..Len(h) : h[i] < k[1] \/ \E j \in 1..Len(k) : k[j] = h[i]
           /\ Len(h) > 0 => h[1] <= k[1]
<1> DEFINE k == Retained(h, v)
<1> HIDE DEF k
<1>a. k \in Seq(Nat) /\ Len(k) >= 1 /\ k[Len(k)] = v
  BY RetainedFacts, HistorySizeAssumption DEF k
<1>b. PICK d \in {0, 1} : /\ Len(k) = Len(h) + 1 - d
                          /\ \A i \in 1..(Len(k) - 1) : k[i] = h[i + d]
  BY RetainedFacts DEF k
<1> USE <1>a, <1>b
<1>0. d \in Int /\ Len(h) \in Nat /\ Len(k) \in Nat
  OBVIOUS
<1>1. \A i \in 1..(Len(k) - 1) : i + d \in 1..Len(h) /\ k[i] = h[i + d]
  BY <1>0
<1>2. \A i \in 1..Len(k) : k[i] = v \/ \E j \in 1..Len(h) : k[i] = h[j]
  <2> SUFFICES ASSUME NEW i \in 1..Len(k)
               PROVE  k[i] = v \/ \E j \in 1..Len(h) : k[i] = h[j]
    OBVIOUS
  <2>1. CASE i = Len(k)
    BY <2>1
  <2>2. CASE i # Len(k)
    <3>1. i \in 1..(Len(k) - 1)
      BY <2>2
    <3>2. QED
      BY <1>1, <3>1
  <2>3. QED
    BY <2>1, <2>2
<1>3. ASSUME NEW i \in 1..Len(k), NEW j \in 1..Len(k), i < j
      PROVE  k[i] < k[j]
  <2>1. i \in 1..(Len(k) - 1)
    BY <1>3
  <2>2. CASE j = Len(k)
    BY <1>1, <2>1, <2>2
  <2>3. CASE j # Len(k)
    <3>1. j \in 1..(Len(k) - 1)
      BY <1>0, <1>3, <2>3
    <3>2. i + d \in 1..Len(h) /\ j + d \in 1..Len(h) /\ k[i] = h[i + d] /\ k[j] = h[j + d]
      BY <1>1, <2>1, <3>1
    <3>3. i + d < j + d
      BY <1>0, <1>3
    <3>4. QED
      BY <3>2, <3>3
  <2>4. QED
    BY <2>2, <2>3
<1>4. ASSUME NEW i \in 1..Len(h)
      PROVE  h[i] < k[1] \/ \E j \in 1..Len(k) : k[j] = h[i]
  <2>1. CASE i - d \in 1..(Len(k) - 1)
    <3>1. k[i - d] = h[(i - d) + d] /\ i - d \in 1..Len(k)
      BY <1>1, <2>1
    <3>2. (i - d) + d = i
      OBVIOUS
    <3>3. QED
      BY <3>1, <3>2
  <2>2. CASE ~(i - d \in 1..(Len(k) - 1))
    <3>1. i = 1 /\ d = 1
      BY <2>2
    <3>2. CASE Len(k) = 1
      BY <3>2
    <3>3. CASE Len(k) # 1
      <4>1. 1 \in 1..(Len(k) - 1)
        BY <3>3
      <4>2. k[1] = h[2] /\ 2 \in 1..Len(h)
        BY <1>1, <3>1, <4>1
      <4>3. QED
        BY <3>1, <4>2
    <3>4. QED
      BY <3>2, <3>3
  <2>3. QED
    BY <2>1, <2>2
<1>5. ASSUME Len(h) > 0
      PROVE  h[1] <= k[1]
  <2>1. 1 \in 1..Len(h) /\ h[1] \in Nat
    BY <1>5
  <2>2. CASE Len(k) = 1
    <3>1. h[1] < v
      BY <2>1
    <3>2. k[1] = v
      BY <2>2
    <3>3. QED
      BY <2>1, <3>1, <3>2
  <2>3. CASE Len(k) # 1
    <3>1. 1 \in 1..(Len(k) - 1)
      BY <2>3
    <3>2. k[1] = h[1 + d] /\ 1 + d \in 1..Len(h)
      BY <1>1, <3>1
    <3>3. CASE d = 0
      BY <2>1, <3>2, <3>3
    <3>4. CASE d = 1
      BY <2>1, <3>2, <3>4
    <3>5. QED
      BY <3>3, <3>4
  <2>4. QED
    BY <2>2, <2>3
<1>6. QED
  BY <1>2, <1>3, <1>4, <1>5 DEF k

LEMMA StoreInitInv == StoreInit => StoreInv
  BY HistorySizeAssumption DEF StoreInit, StoreInv, StoreTypeOK, HistoryOrdered,
     DroppedAreOlder, Known, Retains

LEMMA StorePublishInv ==
    ASSUME StoreInv, NEW e \in Environments, NEW v \in Nat, StorePublish(e, v)
    PROVE  StoreInv'
<1> DEFINE k == Retained(history[e], v)
<1>1. /\ history[e] \in Seq(Nat) /\ Len(history[e]) <= HistorySize /\ current[e] \in Nat
      /\ v > current[e]
      /\ current' = [current EXCEPT ![e] = v]
      /\ history' = [history EXCEPT ![e] = k]
      /\ accepted' = [accepted EXCEPT ![e] = @ \cup {v}]
  BY DEF StoreInv, StoreTypeOK, HistoryOrdered, StorePublish, Stale
<1>2. k \in Seq(Nat) /\ Len(k) \in 1..HistorySize /\ k[Len(k)] = v
  BY <1>1, RetainedFacts
<1>4. StoreTypeOK'
  BY <1>1, <1>2 DEF StoreInv, StoreTypeOK
<1>5. /\ history'[e] = k /\ current'[e] = v /\ accepted'[e] = accepted[e] \cup {v}
      /\ \A f \in Environments \ {e} : /\ history'[f] = history[f]
                                       /\ current'[f] = current[f]
                                       /\ accepted'[f] = accepted[f]
  BY <1>1 DEF StoreInv, StoreTypeOK
<1>6. /\ \A i, j \in 1..Len(history[e]) : i < j => history[e][i] < history[e][j]
      /\ \A i \in 1..Len(history[e]) : history[e][i] \in accepted[e] /\ history[e][i] \in Nat
      /\ \A w \in accepted[e] : w \in Nat /\ 0 < w /\ w <= current[e]
      /\ \A w \in accepted[e] :
           Retains(e, w) \/ (history[e] # <<>> /\ w < Head(history[e]))
  BY <1>1 DEF StoreInv, StoreTypeOK, HistoryOrdered, DroppedAreOlder
<1>6a. \A i \in 1..Len(history[e]) : history[e][i] < v
  BY <1>1, <1>6
<1>7. /\ \A i, j \in 1..Len(k) : i < j => k[i] < k[j]
      /\ \A i \in 1..Len(k) : k[i] = v \/ \E j \in 1..Len(history[e]) : k[i] = history[e][j]
      /\ \A i \in 1..Len(history[e]) :
           history[e][i] < k[1] \/ \E j \in 1..Len(k) : k[j] = history[e][i]
      /\ Len(history[e]) > 0 => history[e][1] <= k[1]
  BY <1>1, <1>6, <1>6a, RetainedOrder
<1> HIDE DEF k
<1>8. \A i \in 1..Len(k) : k[i] \in accepted[e] \cup {v}
  BY <1>6, <1>7
<1>9. HistoryOrdered'
  <2> SUFFICES ASSUME NEW f \in Environments
               PROVE  (/\ Len(history[f]) <= HistorySize
                       /\ \A i, j \in 1..Len(history[f]) : i < j => history[f][i] < history[f][j]
                       /\ Known(f) => Len(history[f]) > 0 /\ history[f][Len(history[f])] = current[f]
                       /\ \A i \in 1..Len(history[f]) : history[f][i] \in accepted[f])'
    BY DEF HistoryOrdered
  <2>1. CASE f = e
    BY <1>2, <1>5, <1>7, <1>8, <2>1, HistorySizeAssumption DEF Known
  <2>2. CASE f # e
    BY <1>5, <2>2 DEF StoreInv, HistoryOrdered, Known
  <2>3. QED
    BY <2>1, <2>2
<1>10. ASSUME NEW w \in accepted[e] \cup {v}
       PROVE  (\E i \in 1..Len(k) : k[i] = w) \/ (k # <<>> /\ w < Head(k))
  <2>1. Head(k) = k[1] /\ k # <<>> /\ k[1] \in Nat
    BY <1>2
  <2>2. CASE w = v
    BY <1>2, <2>2
  <2>3. CASE w # v /\ Retains(e, w)
    BY <1>7, <2>1, <2>3 DEF Retains
  <2>4. CASE w # v /\ ~Retains(e, w)
    <3>1. history[e] # <<>> /\ w < Head(history[e]) /\ w \in Nat
      BY <1>6, <2>4
    <3>2. Head(history[e]) = history[e][1] /\ Len(history[e]) > 0 /\ history[e][1] \in Nat
      BY <1>1, <3>1
    <3>3. QED
      BY <1>7, <2>1, <3>1, <3>2
  <2>5. QED
    BY <2>2, <2>3, <2>4
<1>11. DroppedAreOlder'
  <2> SUFFICES ASSUME NEW f \in Environments
               PROVE  (/\ \A w \in accepted[f] : 0 < w /\ w <= current[f]
                       /\ \A w \in accepted[f] :
                            Retains(f, w) \/ (history[f] # <<>> /\ w < Head(history[f])))'
    BY DEF DroppedAreOlder
  <2>1. CASE f = e
    <3>1. \A w \in accepted'[f] : 0 < w /\ w <= current'[f]
      BY <1>1, <1>5, <1>6, <2>1
    <3>2. \A w \in accepted'[f] :
            Retains(f, w)' \/ (history'[f] # <<>> /\ w < Head(history'[f]))
      BY <1>5, <1>10, <2>1 DEF Retains
    <3>3. QED
      BY <3>1, <3>2
  <2>2. CASE f # e
    BY <1>5, <2>2 DEF StoreInv, DroppedAreOlder, Retains
  <2>3. QED
    BY <2>1, <2>2
<1>12. QED
  BY <1>4, <1>9, <1>11 DEF StoreInv

LEMMA StoreStutterInv == StoreInv /\ UNCHANGED storeVars => StoreInv'
  BY DEF StoreInv, StoreTypeOK, HistoryOrdered, DroppedAreOlder, Retains, Known, storeVars

\* What the invariant is for: a resume without a full resync misses nothing.
LEMMA InvGivesResume == StoreInv => ResumeComplete
<1> SUFFICES ASSUME StoreInv, NEW e \in Environments, NEW after \in 0..current[e],
                    Known(e), ~NeedsFullResync(e, after),
                    NEW v \in accepted[e], v > after
             PROVE  Retains(e, v)
  BY DEF ResumeComplete
<1>1. v \in Nat /\ v <= current[e] /\ current[e] \in Nat /\ history[e] \in Seq(Nat)
  BY DEF StoreInv, StoreTypeOK, DroppedAreOlder
<1>2. history[e] # <<>> /\ after >= Head(history[e]) - 1
  BY <1>1 DEF NeedsFullResync, StoreInv, HistoryOrdered
<1>3. Head(history[e]) \in Nat
  BY <1>1, <1>2
<1>4. ~(v < Head(history[e]))
  BY <1>1, <1>2, <1>3
<1>5. QED
  BY <1>4 DEF StoreInv, DroppedAreOlder

\* Every reachable store keeps an ordered, bounded history that ends in current.
THEOREM HistoryIsOrdered == StoreSpec => []HistoryOrdered
<1>1. StoreInv /\ [StoreNext]_storeVars => StoreInv'
  BY StorePublishInv, StoreStutterInv, MaxVersionAssumption DEF StoreNext, Versions
<1>2. StoreInv => HistoryOrdered
  BY DEF StoreInv
<1>3. QED
  BY <1>1, <1>2, StoreInitInv, PTL DEF StoreSpec

\* Resume is complete: whenever Resume answers a client without asking for a full
\* resync, the snapshots it walks over hold every accepted version above the
\* client's, for every history size and however publishes skipped versions.
THEOREM ResumeIsComplete == StoreSpec => []ResumeComplete
<1>1. StoreInv /\ [StoreNext]_storeVars => StoreInv'
  BY StorePublishInv, StoreStutterInv, MaxVersionAssumption DEF StoreNext, Versions
<1>2. QED
  BY <1>1, InvGivesResume, StoreInitInv, PTL DEF StoreSpec
=============================================================================
