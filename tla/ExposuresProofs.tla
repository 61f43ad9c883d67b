--------------------------- MODULE ExposuresProofs ---------------------------
(***************************************************************************)
(* Proofs about Exposures, for every number of SDKs and every batch size,  *)
(* queue size and server limit: each event is counted once, what is        *)
(* counted as sent was taken, and no event is inserted twice.              *)
(*                                                                         *)
(* AtMostOneCopy is about the server and depends on the buffer: whatever   *)
(* is on its way or inserted has left its queue for good, so that what a   *)
(* flush sends next is new to the server.                                  *)
(***************************************************************************)
EXTENDS Exposures, FiniteSetTheorems, TLAPS

AllEvents == Sdks \X Nat
Posts == [sdk : Sdks, batch : SUBSET AllEvents, status : {"request", "ok", "error"}]

\* Events that have left their queue.
Gone == UNION {flight[s] \cup sent[s] \cup failed[s] : s \in Sdks}

Requests == {p.batch : p \in {q \in posts : q.status = "request"}}

BufferInv ==
    /\ queue \in [Sdks -> SUBSET AllEvents] /\ flight \in [Sdks -> SUBSET AllEvents]
    /\ sent \in [Sdks -> SUBSET AllEvents] /\ failed \in [Sdks -> SUBSET AllEvents]
    /\ recorded \in [Sdks -> Nat]

\* A request, answered or not, carries events of its own buffer that have left it.
PostInv ==
    /\ posts \subseteq Posts
    /\ \A p \in posts : p.batch # {} /\ p.batch \subseteq {p.sdk} \X Nat /\ p.batch \subseteq Gone

\* So does what became of it.
TakenInv ==
    /\ \A b \in inserts : b # {} /\ b \subseteq Gone
    /\ stored \subseteq Gone

\* A 202 on its way is about events that were taken.
OkInv == \A p \in posts : p.status = "ok" => p.batch \subseteq taken

ExposureInv ==
    /\ BufferInv /\ EveryEventCounted
    /\ PostInv /\ TakenInv /\ AtMostOneCopy
    /\ OkInv /\ SentIsTaken

-----------------------------------------------------------------------------
LEMMA InitExposures == ExposuresInit => ExposureInv
<1> SUFFICES ASSUME ExposuresInit PROVE ExposureInv
  OBVIOUS
<1>1. BufferInv
  BY DEF ExposuresInit, BufferInv
<1>2. EveryEventCounted
  <2> SUFFICES ASSUME NEW s \in Sdks
               PROVE  /\ queue[s] = {} /\ flight[s] = {} /\ sent[s] = {} /\ failed[s] = {}
                      /\ {s} \X (1..recorded[s]) = {}
    BY DEF EveryEventCounted
  <2>1. recorded[s] = 0 /\ queue[s] = {} /\ flight[s] = {} /\ sent[s] = {} /\ failed[s] = {}
    BY DEF ExposuresInit
  <2>2. 1..0 = {}
    OBVIOUS
  <2> QED
    BY <2>1, <2>2
<1>3. PostInv /\ TakenInv /\ AtMostOneCopy /\ OkInv /\ SentIsTaken
  BY DEF ExposuresInit, PostInv, TakenInv, AtMostOneCopy, OkInv, SentIsTaken
<1> QED
  BY <1>1, <1>2, <1>3 DEF ExposureInv

\* A queue holds nothing that has left a queue.
LEMMA QueueIsNew ==
    ASSUME BufferInv, EveryEventCounted, NEW s \in Sdks
    PROVE  /\ queue[s] \cap Gone = {}
           /\ \A n \in Nat : n > recorded[s] => <<s, n>> \notin Gone
<1>1. \A t \in Sdks : flight[t] \cup sent[t] \cup failed[t] \subseteq {t} \X (1..recorded[t])
  BY DEF EveryEventCounted
<1>2. queue[s] \subseteq {s} \X (1..recorded[s])
  BY DEF EveryEventCounted
<1>3. ASSUME NEW e \in queue[s], NEW t \in Sdks, e \in flight[t] \cup sent[t] \cup failed[t]
      PROVE  FALSE
  <2>1. e[1] = s /\ e[1] = t
    BY <1>1, <1>2, <1>3
  <2> QED
    BY <1>3, <2>1 DEF EveryEventCounted
<1>4. ASSUME NEW n \in Nat, n > recorded[s], NEW t \in Sdks,
             <<s, n>> \in flight[t] \cup sent[t] \cup failed[t]
      PROVE  FALSE
  <2>1. s = t /\ n \in 1..recorded[t]
    BY <1>1, <1>4
  <2> QED
    BY <1>4, <2>1 DEF BufferInv
<1> QED
  BY <1>3, <1>4 DEF Gone

-----------------------------------------------------------------------------
(* The buffer.                                                             *)

Sends(s, q) ==
    /\ flight[s] = {} /\ q # {}
    /\ flight' = [flight EXCEPT ![s] = q]
    /\ queue' = [queue EXCEPT ![s] = {}]
    /\ posts' = posts \cup {Request(s, q)}

Keeps(s, q) == queue' = [queue EXCEPT ![s] = q] /\ UNCHANGED <<flight, posts>>

\* What a flush may meet in the queue: the events recorded so far that have not
\* left it.
Fresh(s, q, n) ==
    /\ n \in Nat /\ q \subseteq AllEvents
    /\ q \cap Gone = {}
    /\ q \cup flight[s] \cup sent[s] \cup failed[s] = {s} \X (1..n)
    /\ recorded' = [recorded EXCEPT ![s] = n]

LEMMA KeepStep ==
    ASSUME ExposureInv, NEW s \in Sdks, NEW q, NEW n, Fresh(s, q, n), Keeps(s, q),
           UNCHANGED <<sent, failed, inserts, taken, stored>>
    PROVE  ExposureInv'
<1>1. BufferInv'
  BY DEF ExposureInv, BufferInv, Fresh, Keeps
<1>2. Gone' = Gone
  BY DEF Keeps, Gone
<1>3. EveryEventCounted'
  <2> SUFFICES ASSUME NEW t \in Sdks
               PROVE  /\ (queue[t] \cup flight[t] \cup sent[t] \cup failed[t] = {t} \X (1..recorded[t]))'
                      /\ (queue[t] \cap (flight[t] \cup sent[t] \cup failed[t]) = {})'
                      /\ (flight[t] \cap (sent[t] \cup failed[t]) = {})'
                      /\ (sent[t] \cap failed[t] = {})'
    BY DEF EveryEventCounted
  <2>1. flight'[t] = flight[t] /\ sent'[t] = sent[t] /\ failed'[t] = failed[t]
    BY DEF Keeps
  <2>2. CASE t = s
    <3>1. queue'[t] = q /\ recorded'[t] = n
      BY <2>2 DEF ExposureInv, BufferInv, Keeps, Fresh
    <3>2. q \cap (flight[s] \cup sent[s] \cup failed[s]) = {}
      BY DEF Fresh, Gone
    <3> QED
      BY <2>1, <2>2, <3>1, <3>2 DEF ExposureInv, EveryEventCounted, Fresh
  <2>3. CASE t # s
    <3>1. queue'[t] = queue[t] /\ recorded'[t] = recorded[t]
      BY <2>3 DEF ExposureInv, BufferInv, Keeps, Fresh
    <3> QED
      BY <2>1, <3>1 DEF ExposureInv, EveryEventCounted
  <2> QED
    BY <2>2, <2>3
<1>4. PostInv' /\ TakenInv'
  BY <1>2 DEF ExposureInv, PostInv, TakenInv, Keeps
<1>5. AtMostOneCopy' /\ OkInv' /\ SentIsTaken'
  BY DEF ExposureInv, AtMostOneCopy, OkInv, SentIsTaken, Keeps
<1> QED
  BY <1>1, <1>3, <1>4, <1>5 DEF ExposureInv

LEMMA SendStep ==
    ASSUME ExposureInv, NEW s \in Sdks, NEW q, NEW n, Fresh(s, q, n), Sends(s, q),
           UNCHANGED <<sent, failed, inserts, taken, stored>>
    PROVE  ExposureInv'
<1>1. BufferInv'
  BY DEF ExposureInv, BufferInv, Fresh, Sends
<1>2. Gone' = Gone \cup q
  <2>1. \A t \in Sdks : flight'[t] = IF t = s THEN q ELSE flight[t]
    BY DEF ExposureInv, BufferInv, Sends
  <2>2. flight[s] = {}
    BY DEF Sends
  <2> QED
    BY <2>1, <2>2 DEF Gone
<1>3. EveryEventCounted'
  <2> SUFFICES ASSUME NEW t \in Sdks
               PROVE  /\ (queue[t] \cup flight[t] \cup sent[t] \cup failed[t] = {t} \X (1..recorded[t]))'
                      /\ (queue[t] \cap (flight[t] \cup sent[t] \cup failed[t]) = {})'
                      /\ (flight[t] \cap (sent[t] \cup failed[t]) = {})'
                      /\ (sent[t] \cap failed[t] = {})'
    BY DEF EveryEventCounted
  <2>1. sent'[t] = sent[t] /\ failed'[t] = failed[t]
    OBVIOUS
  <2>2. CASE t = s
    <3>1. queue'[t] = {} /\ flight'[t] = q /\ recorded'[t] = n
      BY <2>2 DEF ExposureInv, BufferInv, Sends, Fresh
    <3>2. q \cap (sent[s] \cup failed[s]) = {} /\ q \cup sent[s] \cup failed[s] = {s} \X (1..n)
      BY DEF Fresh, Gone, Sends
    <3> QED
      BY <2>1, <2>2, <3>1, <3>2 DEF ExposureInv, EveryEventCounted
  <2>3. CASE t # s
    <3>1. queue'[t] = queue[t] /\ flight'[t] = flight[t] /\ recorded'[t] = recorded[t]
      BY <2>3 DEF ExposureInv, BufferInv, Sends, Fresh
    <3> QED
      BY <2>1, <3>1 DEF ExposureInv, EveryEventCounted
  <2> QED
    BY <2>2, <2>3
<1>4. PostInv'
  <2>1. q \subseteq {s} \X Nat /\ q \in SUBSET AllEvents /\ q # {}
    BY DEF Fresh, Sends
  <2>2. Request(s, q) \in Posts
    BY <2>1 DEF Request, Posts
  <2>3. posts' \subseteq Posts
    BY <2>2 DEF ExposureInv, PostInv, Sends
  <2>4. ASSUME NEW p \in posts'
        PROVE  p.batch # {} /\ p.batch \subseteq {p.sdk} \X Nat /\ p.batch \subseteq Gone'
    <3>1. CASE p \in posts
      BY <3>1, <1>2 DEF ExposureInv, PostInv
    <3>2. CASE p = Request(s, q)
      BY <3>2, <2>1, <1>2 DEF Request
    <3> QED
      BY <3>1, <3>2 DEF Sends
  <2> QED
    BY <2>3, <2>4 DEF PostInv
<1>5. TakenInv'
  BY <1>2 DEF ExposureInv, TakenInv
<1>6. AtMostOneCopy'
  <2>1. Requests' \subseteq Requests \cup {q}
    BY DEF Requests, Sends, Request
  <2>2. \A b \in Requests \cup inserts : b \subseteq Gone
    BY DEF ExposureInv, Requests, PostInv, TakenInv
  <2>3. q \cap Gone = {} /\ q # {} /\ stored \subseteq Gone
    BY DEF Fresh, Sends, ExposureInv, TakenInv
  <2>4. /\ \A b, c \in Requests \cup inserts : b # c => b \cap c = {}
        /\ \A b \in Requests : b \notin inserts
        /\ \A b \in Requests \cup inserts : b \cap stored = {}
    BY DEF ExposureInv, AtMostOneCopy, Requests
  <2>5. /\ \A b, c \in Requests' \cup inserts : b # c => b \cap c = {}
        /\ \A b \in Requests' : b \notin inserts
        /\ \A b \in Requests' \cup inserts : b \cap stored = {}
    BY <2>1, <2>2, <2>3, <2>4
  <2> QED
    BY <2>5 DEF AtMostOneCopy, Requests
<1>7. OkInv' /\ SentIsTaken'
  BY DEF ExposureInv, OkInv, SentIsTaken, Sends, Request
<1> QED
  BY <1>1, <1>3, <1>4, <1>5, <1>6, <1>7 DEF ExposureInv

\* Fewer requests are no harm.
LEMMA FewerPosts ==
    ASSUME ExposureInv, Gone' = Gone, posts' \subseteq posts, UNCHANGED <<inserts, taken, stored>>
    PROVE  PostInv' /\ TakenInv' /\ AtMostOneCopy' /\ OkInv'
<1>1. PostInv' /\ TakenInv' /\ OkInv'
  BY DEF ExposureInv, PostInv, TakenInv, OkInv
<1>2. Requests' \subseteq Requests
  BY DEF Requests
<1>3. AtMostOneCopy'
  BY <1>2 DEF ExposureInv, AtMostOneCopy, Requests
<1> QED
  BY <1>1, <1>3

\* The batch in flight is counted as sent, having been taken.
LEMMA DeliverStep ==
    ASSUME ExposureInv, NEW s \in Sdks, flight[s] \subseteq taken, Delivered(s),
           posts' \subseteq posts, UNCHANGED <<inserts, taken, stored>>
    PROVE  ExposureInv'
<1>1. BufferInv'
  BY DEF ExposureInv, BufferInv, Delivered
<1>2. \A t \in Sdks : /\ flight'[t] = IF t = s THEN {} ELSE flight[t]
                      /\ sent'[t] = IF t = s THEN sent[t] \cup flight[t] ELSE sent[t]
  BY DEF ExposureInv, BufferInv, Delivered
<1>3. UNCHANGED <<queue, failed, recorded>>
  BY DEF Delivered
<1>4. \A t \in Sdks : (flight[t] \cup sent[t] \cup failed[t])' = flight[t] \cup sent[t] \cup failed[t]
  BY <1>2, <1>3
<1>5. Gone' = Gone
  BY <1>4 DEF Gone
<1>6. EveryEventCounted'
  BY <1>2, <1>3 DEF ExposureInv, EveryEventCounted
<1>7. SentIsTaken'
  BY <1>2 DEF ExposureInv, SentIsTaken
<1> QED
  BY <1>1, <1>5, <1>6, <1>7, FewerPosts DEF ExposureInv

\* The batch in flight is counted as failed.
LEMMA DiscardStep ==
    ASSUME ExposureInv, NEW s \in Sdks, Discarded(s),
           posts' \subseteq posts, UNCHANGED <<inserts, taken, stored>>
    PROVE  ExposureInv'
<1>1. BufferInv'
  BY DEF ExposureInv, BufferInv, Discarded
<1>2. \A t \in Sdks : /\ flight'[t] = IF t = s THEN {} ELSE flight[t]
                      /\ failed'[t] = IF t = s THEN failed[t] \cup flight[t] ELSE failed[t]
  BY DEF ExposureInv, BufferInv, Discarded
<1>3. UNCHANGED <<queue, sent, recorded>>
  BY DEF Discarded
<1>4. \A t \in Sdks : (flight[t] \cup sent[t] \cup failed[t])' = flight[t] \cup sent[t] \cup failed[t]
  BY <1>2, <1>3
<1>5. Gone' = Gone
  BY <1>4 DEF Gone
<1>6. EveryEventCounted'
  BY <1>2, <1>3 DEF ExposureInv, EveryEventCounted
<1>7. SentIsTaken'
  BY <1>3 DEF ExposureInv, SentIsTaken
<1> QED
  BY <1>1, <1>5, <1>6, <1>7, FewerPosts DEF ExposureInv

-----------------------------------------------------------------------------
(* The route and the writer.                                               *)

\* An answered request is no request any more, and neither is a copy of it.
LEMMA AnswerStep ==
    ASSUME ExposureInv, NEW p \in posts, p.status = "request",
           NEW status \in {"ok", "error"}, Answer(p, status), UNCHANGED bufferVars
    PROVE  /\ BufferInv' /\ EveryEventCounted' /\ PostInv' /\ Gone' = Gone
           /\ Requests' \subseteq Requests \ {p.batch}
           /\ \A r \in posts' : r \in posts \/ (r.status = status /\ r.batch = p.batch)
<1> DEFINE a == [p EXCEPT !.status = status]
<1>1. p \in Posts /\ a \in Posts /\ a.batch = p.batch /\ a.sdk = p.sdk /\ a.status = status
  BY DEF ExposureInv, PostInv, Posts
<1>2. posts' \subseteq (posts \ {p}) \cup {a}
  BY DEF Answer
<1>3. Gone' = Gone
  BY DEF bufferVars, Gone
<1>4. BufferInv' /\ EveryEventCounted'
  BY DEF ExposureInv, bufferVars, BufferInv, EveryEventCounted
<1>5. PostInv'
  BY <1>1, <1>2, <1>3 DEF ExposureInv, PostInv
<1>6. ASSUME NEW r \in posts', r.status = "request"
      PROVE  r \in posts /\ r.batch # p.batch
  <2>1. r \in posts /\ r # p
    BY <1>1, <1>2, <1>6
  <2>2. SUFFICES ASSUME r.batch = p.batch PROVE FALSE
    BY <2>1
  <2>3. r.sdk = p.sdk
    BY <2>1, <2>2 DEF ExposureInv, PostInv
  <2>4. r \in Posts
    BY <2>1 DEF ExposureInv, PostInv
  <2> QED
    BY <1>1, <1>6, <2>1, <2>2, <2>3, <2>4 DEF Posts
<1>7. Requests' \subseteq Requests \ {p.batch}
  BY <1>6 DEF Requests
<1> QED
  BY <1>1, <1>2, <1>3, <1>4, <1>5, <1>7

\* Refuse and Saturate.
LEMMA ErrorStep ==
    ASSUME ExposureInv, NEW p \in posts, p.status = "request", Answer(p, "error"),
           UNCHANGED <<bufferVars, inserts, taken, stored>>
    PROVE  ExposureInv'
<1>1. /\ BufferInv' /\ EveryEventCounted' /\ PostInv' /\ Gone' = Gone
      /\ Requests' \subseteq Requests \ {p.batch}
      /\ \A r \in posts' : r \in posts \/ r.status = "error"
  BY AnswerStep
<1>2. TakenInv'
  BY <1>1 DEF ExposureInv, TakenInv
<1>3. AtMostOneCopy'
  BY <1>1 DEF ExposureInv, AtMostOneCopy, Requests
<1>4. OkInv' /\ SentIsTaken'
  BY <1>1 DEF ExposureInv, OkInv, SentIsTaken, bufferVars
<1> QED
  BY <1>1, <1>2, <1>3, <1>4 DEF ExposureInv

LEMMA AcceptStep ==
    ASSUME ExposureInv, NEW p \in posts, Accept(p)
    PROVE  ExposureInv'
<1>1. p.status = "request" /\ Answer(p, "ok") /\ UNCHANGED bufferVars
  BY DEF Accept
<1>2. /\ inserts' = inserts \cup ({Rows(p)} \ {{}})
      /\ taken' = taken \cup p.batch /\ stored' = stored
  BY DEF Accept
<1>3. /\ BufferInv' /\ EveryEventCounted' /\ PostInv' /\ Gone' = Gone
      /\ Requests' \subseteq Requests \ {p.batch}
      /\ \A r \in posts' : r \in posts \/ (r.status = "ok" /\ r.batch = p.batch)
  BY <1>1, AnswerStep
<1>4. Rows(p) \subseteq p.batch /\ p.batch \subseteq Gone /\ p.batch \in Requests
  BY <1>1 DEF Rows, ExposureInv, PostInv, Requests
<1>5. TakenInv'
  BY <1>2, <1>3, <1>4 DEF ExposureInv, TakenInv
<1>6. AtMostOneCopy'
  <2>1. /\ \A b, c \in Requests \cup inserts : b # c => b \cap c = {}
        /\ \A b \in Requests : b \notin inserts
        /\ \A b \in Requests \cup inserts : b \cap stored = {}
    BY DEF ExposureInv, AtMostOneCopy, Requests
  <2>2. \A b \in (Requests \ {p.batch}) \cup inserts : b # {} /\ b \cap p.batch = {}
    BY <2>1, <1>4 DEF ExposureInv, TakenInv, PostInv, Requests
  <2>3. \A b \in (Requests \ {p.batch}) \cup inserts : b \cap Rows(p) = {}
    BY <2>2, <1>4
  <2>4. Rows(p) \cap stored = {}
    BY <2>1, <1>4
  <2>5. /\ \A b, c \in Requests' \cup inserts' : b # c => b \cap c = {}
        /\ \A b \in Requests' : b \notin inserts'
        /\ \A b \in Requests' \cup inserts' : b \cap stored = {}
    BY <2>1, <2>2, <2>3, <2>4, <1>2, <1>3
  <2> QED
    BY <2>5, <1>2 DEF AtMostOneCopy, Requests
<1>7. OkInv' /\ SentIsTaken'
  BY <1>1, <1>2, <1>3 DEF ExposureInv, OkInv, SentIsTaken, bufferVars
<1> QED
  BY <1>3, <1>5, <1>6, <1>7 DEF ExposureInv

\* Inserts end, some of them in the table.
LEMMA InsertStep ==
    ASSUME ExposureInv, NEW ended \in SUBSET inserts,
           inserts' = inserts \ ended,
           stored' \subseteq stored \cup UNION ended,
           posts' \subseteq posts, UNCHANGED <<bufferVars, taken>>
    PROVE  ExposureInv'
<1>1. BufferInv' /\ EveryEventCounted' /\ SentIsTaken' /\ Gone' = Gone
  BY DEF ExposureInv, bufferVars, BufferInv, EveryEventCounted, SentIsTaken, Gone
<1>2. PostInv' /\ OkInv'
  BY <1>1 DEF ExposureInv, PostInv, OkInv
<1>3. TakenInv'
  BY <1>1 DEF ExposureInv, TakenInv
<1>4. AtMostOneCopy'
  <2>1. Requests' \subseteq Requests
    BY DEF Requests
  <2>2. /\ \A b, c \in Requests \cup inserts : b # c => b \cap c = {}
        /\ \A b \in Requests : b \notin inserts
        /\ \A b \in Requests \cup inserts : b \cap stored = {}
    BY DEF ExposureInv, AtMostOneCopy, Requests
  <2>3. \A b \in Requests \cup (inserts \ ended) : b \cap (UNION ended) = {}
    BY <2>2
  <2>4. /\ \A b, c \in Requests' \cup inserts' : b # c => b \cap c = {}
        /\ \A b \in Requests' : b \notin inserts'
        /\ \A b \in Requests' \cup inserts' : b \cap stored' = {}
    BY <2>1, <2>2, <2>3
  <2> QED
    BY <2>4 DEF AtMostOneCopy, Requests
<1> QED
  BY <1>1, <1>2, <1>3, <1>4 DEF ExposureInv
-----------------------------------------------------------------------------
(* Every step.                                                             *)

LEMMA FlushStep ==
    ASSUME ExposureInv, NEW s \in Sdks, NEW q, NEW n, Fresh(s, q, n), Sends(s, q) \/ Keeps(s, q),
           UNCHANGED <<sent, failed, inserts, taken, stored>>
    PROVE  ExposureInv'
BY SendStep, KeepStep

\* A flush of the queue as it is.
LEMMA QueueIsFresh ==
    ASSUME ExposureInv, NEW s \in Sdks, UNCHANGED recorded
    PROVE  Fresh(s, queue[s], recorded[s])
<1>1. queue[s] \cap Gone = {}
  BY QueueIsNew DEF ExposureInv
<1> QED
  BY <1>1 DEF Fresh, ExposureInv, BufferInv, EveryEventCounted

LEMMA RecordStep ==
    ASSUME ExposureInv, NEW s \in Sdks, Record(s)
    PROVE  ExposureInv'
<1> DEFINE n == recorded[s] + 1
           q == queue[s] \cup {<<s, n>>}
<1>1. recorded[s] \in Nat /\ n \in Nat /\ n > recorded[s]
  BY DEF ExposureInv, BufferInv
<1>2. q \cap Gone = {}
  BY <1>1, QueueIsNew DEF ExposureInv
<1>3. q \subseteq AllEvents
  BY <1>1 DEF ExposureInv, BufferInv, AllEvents
<1>4. 1..n = (1..recorded[s]) \cup {n}
  BY <1>1
<1>5. q \cup flight[s] \cup sent[s] \cup failed[s] = {s} \X (1..n)
  <2>1. queue[s] \cup flight[s] \cup sent[s] \cup failed[s] = {s} \X (1..recorded[s])
    BY DEF ExposureInv, EveryEventCounted
  <2>2. {s} \X ((1..recorded[s]) \cup {n}) = ({s} \X (1..recorded[s])) \cup {<<s, n>>}
    OBVIOUS
  <2> QED
    BY <2>1, <2>2, <1>4
<1>6. Fresh(s, q, n)
  BY <1>1, <1>2, <1>3, <1>5 DEF Fresh, Record, ExposureInv, BufferInv
<1>7. Sends(s, q) \/ Keeps(s, q)
  BY DEF Record, FlushQueue, Sends, Keeps
<1>8. UNCHANGED <<sent, failed, inserts, taken, stored>>
  BY DEF Record, serverVars
<1> QED
  BY <1>6, <1>7, <1>8, FlushStep

\* The flush of the timer and of close.
LEMMA WholeFlush ==
    ASSUME ExposureInv, NEW s \in Sdks, FlushQueue(s, queue[s], TRUE), UNCHANGED recorded,
           UNCHANGED <<sent, failed, inserts, taken, stored>>
    PROVE  ExposureInv'
<1>1. Sends(s, queue[s]) \/ Keeps(s, queue[s])
  BY DEF FlushQueue, Sends, Keeps
<1> QED
  BY <1>1, QueueIsFresh, FlushStep

LEMMA ReceiveStep ==
    ASSUME ExposureInv, NEW p \in posts, Receive(p)
    PROVE  ExposureInv'
<1>1. p.sdk \in Sdks /\ p.batch = flight[p.sdk] /\ posts' \subseteq posts
  BY DEF ExposureInv, PostInv, Posts, Receive, Awaited
<1>2. UNCHANGED <<inserts, taken, stored>>
  BY DEF Receive, serverVars
<1>3. CASE p.status = "ok" /\ Delivered(p.sdk)
  BY <1>1, <1>2, <1>3, DeliverStep DEF ExposureInv, OkInv
<1>4. CASE p.status = "error" /\ Discarded(p.sdk)
  BY <1>1, <1>2, <1>4, DiscardStep
<1> QED
  BY <1>3, <1>4 DEF Receive

\* A step that touches none of what the invariant speaks of.
LEMMA QuietStep ==
    ASSUME ExposureInv,
           UNCHANGED <<queue, flight, recorded, sent, failed, posts, inserts, taken, stored>>
    PROVE  ExposureInv'
<1>1. BufferInv' /\ EveryEventCounted' /\ SentIsTaken'
  BY DEF ExposureInv, BufferInv, EveryEventCounted, SentIsTaken
<1>2. Gone' = Gone
  BY DEF Gone
<1> QED
  BY <1>1, <1>2, FewerPosts DEF ExposureInv

LEMMA SdkStep ==
    ASSUME ExposureInv, NEW s \in Sdks,
           \/ Start(s) \/ RecordDrop(s) \/ RecordSampleOut(s) \/ Record(s)
           \/ TimerFlush(s) \/ Close(s) \/ SendFails(s)
    PROVE  ExposureInv'
<1>1. CASE Start(s) \/ RecordDrop(s) \/ RecordSampleOut(s)
  <2>1. UNCHANGED <<queue, flight, recorded, sent, failed, posts, inserts, taken, stored>>
    BY <1>1 DEF Start, RecordDrop, RecordSampleOut, serverVars
  <2> QED
    BY <2>1, QuietStep
<1>2. CASE Record(s)
  BY <1>2, RecordStep
<1>3. CASE TimerFlush(s)
  <2>1. /\ FlushQueue(s, queue[s], TRUE) /\ UNCHANGED recorded
        /\ UNCHANGED <<sent, failed, inserts, taken, stored>>
    BY <1>3 DEF TimerFlush, serverVars
  <2> QED
    BY <2>1, WholeFlush
<1>4. CASE Close(s)
  <2>1. /\ FlushQueue(s, queue[s], TRUE) /\ UNCHANGED recorded
        /\ UNCHANGED <<sent, failed, inserts, taken, stored>>
    BY <1>4 DEF Close, serverVars
  <2> QED
    BY <2>1, WholeFlush
<1>5. CASE SendFails(s)
  <2>1. posts' \subseteq posts /\ Discarded(s) /\ UNCHANGED <<inserts, taken, stored>>
    BY <1>5 DEF SendFails, serverVars
  <2> QED
    BY <2>1, DiscardStep
<1> QED
  BY <1>1, <1>2, <1>3, <1>4, <1>5

LEMMA RouteStep ==
    ASSUME ExposureInv, NEW p \in posts, Receive(p) \/ Refuse(p) \/ Saturate(p) \/ Accept(p)
    PROVE  ExposureInv'
<1>1. CASE Receive(p)
  BY <1>1, ReceiveStep
<1>2. CASE Refuse(p)
  <2>1. p.status = "request" /\ Answer(p, "error") /\ UNCHANGED <<bufferVars, inserts, taken, stored>>
    BY <1>2 DEF Refuse, serverVars
  <2> QED
    BY <2>1, ErrorStep
<1>3. CASE Saturate(p)
  <2>1. p.status = "request" /\ Answer(p, "error") /\ UNCHANGED <<bufferVars, inserts, taken, stored>>
    BY <1>3 DEF Saturate
  <2> QED
    BY <2>1, ErrorStep
<1>4. CASE Accept(p)
  BY <1>4, AcceptStep
<1> QED
  BY <1>1, <1>2, <1>3, <1>4

LEMMA WriterStep ==
    ASSUME ExposureInv, IngestRestart \/ \E b \in inserts : InsertDone(b) \/ InsertFails(b)
    PROVE  ExposureInv'
<1>1. ASSUME NEW b \in inserts, InsertDone(b) \/ InsertFails(b)
      PROVE  ExposureInv'
  <2>1. {b} \in SUBSET inserts /\ inserts' = inserts \ {b}
    BY <1>1 DEF InsertDone, InsertFails, Settle
  <2>2. stored' \subseteq stored \cup UNION {b}
    BY <1>1 DEF InsertDone, InsertFails
  <2>3. posts' \subseteq posts /\ UNCHANGED <<bufferVars, taken>>
    BY <1>1 DEF InsertDone, InsertFails
  <2> QED
    BY <2>1, <2>2, <2>3, InsertStep
<1>2. CASE IngestRestart
  <2>1. stored' \subseteq stored \cup UNION inserts
    BY <1>2 DEF IngestRestart
  <2>2. inserts' = inserts \ inserts
    BY <1>2 DEF IngestRestart
  <2>3. posts' \subseteq posts /\ UNCHANGED <<bufferVars, taken>>
    BY <1>2 DEF IngestRestart
  <2> QED
    BY <2>1, <2>2, <2>3, InsertStep
<1> QED
  BY <1>1, <1>2

LEMMA NextExposures == ExposureInv /\ [ExposuresNext]_exposureVars => ExposureInv'
<1> SUFFICES ASSUME ExposureInv, [ExposuresNext]_exposureVars PROVE ExposureInv'
  OBVIOUS
<1>1. ASSUME NEW s \in Sdks,
             \/ Start(s) \/ RecordDrop(s) \/ RecordSampleOut(s) \/ Record(s)
             \/ TimerFlush(s) \/ Close(s) \/ SendFails(s)
      PROVE  ExposureInv'
  BY <1>1, SdkStep
<1>2. ASSUME NEW p \in posts, Receive(p) \/ Refuse(p) \/ Saturate(p) \/ Accept(p)
      PROVE  ExposureInv'
  BY <1>2, RouteStep
<1>3. CASE IngestRestart \/ \E b \in inserts : InsertDone(b) \/ InsertFails(b)
  BY <1>3, WriterStep
<1>4. CASE UNCHANGED exposureVars
  <2>1. UNCHANGED <<queue, flight, recorded, sent, failed, posts, inserts, taken, stored>>
    BY <1>4 DEF exposureVars, bufferVars, serverVars
  <2> QED
    BY <2>1, QuietStep
<1> QED
  BY <1>1, <1>2, <1>3, <1>4 DEF ExposuresNext

-----------------------------------------------------------------------------
\* The invariant that carries the three guarantees below: what is on its way or
\* inserted has left its queue for good, and a 202 is about events that were taken.
THEOREM PipelineIsSound == ExposuresSpec => []ExposureInv
BY InitExposures, NextExposures, PTL DEF ExposuresSpec

\* record, flush, timeout and close leave every event in exactly one of queue,
\* flight, sent and failed, for every number of SDKs and every limit.
THEOREM EventsAreCountedOnce == ExposuresSpec => []EveryEventCounted
<1>1. ExposureInv => EveryEventCounted
  BY DEF ExposureInv
<1> QED
  BY <1>1, PipelineIsSound, PTL

\* What a buffer counts as sent the ingest route answered for with 202, however
\* answers, timeouts, refusals and restarts interleave.
THEOREM SentWasTaken == ExposuresSpec => []SentIsTaken
<1>1. ExposureInv => SentIsTaken
  BY DEF ExposureInv
<1> QED
  BY <1>1, PipelineIsSound, PTL

\* No event is inserted twice: not by a timeout that races a late 202, not by
\* overlapping batches, not by a failed insert that landed, not by a restart.
THEOREM NothingIsInsertedTwice == ExposuresSpec => []AtMostOneCopy
<1>1. ExposureInv => AtMostOneCopy
  BY DEF ExposureInv
<1> QED
  BY <1>1, PipelineIsSound, PTL

-----------------------------------------------------------------------------
(* The writer's books.  The rows under way are counted by UNION inserts,   *)
(* which grows and shrinks by a whole batch: AtMostOneCopy says that the   *)
(* batch is disjoint from the others.                                      *)

BooksInv ==
    /\ IsFiniteSet(UNION inserts)
    /\ {inFlightRows, accepted, refused, written, lost} \subseteq Nat
    /\ WriterAccounting

\* Of one buffer's events finitely many were recorded.
LEMMA EventsAreFinite ==
    ASSUME NEW s, NEW n \in Nat, NEW q \in SUBSET ({s} \X (1..n))
    PROVE  IsFiniteSet(q)
<1>1. IsFiniteSet({s})
  BY FS_Singleton
<1>2. IsFiniteSet(1..n)
  <2>1. 1 \in Int /\ n \in Int
    OBVIOUS
  <2> QED
    BY <2>1, FS_Interval
<1>3. IsFiniteSet({s} \X (1..n))
  BY <1>1, <1>2, FS_Product
<1> QED
  BY <1>3, FS_Subset

LEMMA BatchesAreFinite ==
    ASSUME ExposureInv, NEW p \in posts
    PROVE  IsFiniteSet(p.batch) /\ IsFiniteSet(Rows(p))
<1>1. p.sdk \in Sdks
  BY DEF ExposureInv, PostInv, Posts
<1>2. \A t \in Sdks : flight[t] \cup sent[t] \cup failed[t] \subseteq {t} \X (1..recorded[t])
  BY DEF ExposureInv, EveryEventCounted
<1>3. ASSUME NEW e \in p.batch
      PROVE  e \in {p.sdk} \X (1..recorded[p.sdk])
  <2>1. e \in Gone /\ e[1] = p.sdk
    BY <1>3 DEF ExposureInv, PostInv
  <2>2. PICK t \in Sdks : e \in {t} \X (1..recorded[t])
    BY <2>1, <1>2 DEF Gone
  <2>3. t = p.sdk
    BY <2>1, <2>2
  <2> QED
    BY <2>2, <2>3
<1>4. recorded[p.sdk] \in Nat
  BY <1>1 DEF ExposureInv, BufferInv
<1>5. IsFiniteSet(p.batch)
  BY <1>3, <1>4, EventsAreFinite
<1>6. Rows(p) \in SUBSET p.batch
  BY DEF Rows
<1> QED
  BY <1>5, <1>6, FS_Subset

LEMMA DisjointUnion ==
    ASSUME NEW S, NEW T, IsFiniteSet(S), IsFiniteSet(T), S \cap T = {}
    PROVE  IsFiniteSet(S \cup T) /\ Cardinality(S \cup T) = Cardinality(S) + Cardinality(T)
<1>1. Cardinality(S \cap T) = 0
  BY FS_EmptySet
<1>2. Cardinality(S) \in Nat /\ Cardinality(T) \in Nat
  BY FS_CardinalityType
<1>3. /\ IsFiniteSet(S \cup T)
      /\ Cardinality(S \cup T) = Cardinality(S) + Cardinality(T) - Cardinality(S \cap T)
  BY FS_Union
<1> QED
  BY <1>1, <1>2, <1>3

LEMMA InitBooks == ExposuresInit => BooksInv
<1> SUFFICES ASSUME ExposuresInit PROVE BooksInv
  OBVIOUS
<1>1. UNION inserts = {}
  BY DEF ExposuresInit
<1> QED
  BY <1>1, FS_EmptySet, SizesAssumption DEF ExposuresInit, BooksInv, WriterAccounting

LEMMA AcceptBooks ==
    ASSUME ExposureInv, BooksInv, NEW p \in posts, Accept(p)
    PROVE  BooksInv'
<1> DEFINE U == UNION inserts
           R == Rows(p)
<1>1. IsFiniteSet(U) /\ IsFiniteSet(R)
  BY BatchesAreFinite DEF BooksInv
<1>2. U \cap R = {}
  <2>1. p.batch \in Requests /\ R \subseteq p.batch
    BY DEF Accept, Requests, Rows
  <2>2. \A b \in inserts : b # p.batch /\ b \cap p.batch = {}
    BY <2>1 DEF ExposureInv, AtMostOneCopy, Requests
  <2> QED
    BY <2>1, <2>2
<1>3. UNION inserts' = U \cup R
  BY DEF Accept
<1>4. /\ IsFiniteSet(UNION inserts')
      /\ Cardinality(UNION inserts') = Cardinality(U) + Cardinality(R)
  <2> HIDE DEF U, R
  <2>1. IsFiniteSet(U \cup R) /\ Cardinality(U \cup R) = Cardinality(U) + Cardinality(R)
    BY <1>1, <1>2, DisjointUnion
  <2> QED
    BY <1>3, <2>1
<1>5. Cardinality(R) \in Nat
  BY <1>1, FS_CardinalityType
<1>6. inFlightRows + Cardinality(R) <= MaxInFlightRows
  BY <1>5, SizesAssumption DEF Accept, Saturated, BooksInv
<1>7. /\ inFlightRows' = inFlightRows + Cardinality(R)
      /\ accepted' = accepted + Cardinality(R)
      /\ UNCHANGED <<refused, written, lost>>
  BY DEF Accept
<1>8. inFlightRows' = Cardinality(UNION inserts')
  BY <1>4, <1>7 DEF BooksInv, WriterAccounting
<1>9. /\ {inFlightRows', accepted', refused', written', lost'} \subseteq Nat
      /\ inFlightRows' <= MaxInFlightRows
      /\ accepted' = written' + lost' + inFlightRows'
  BY <1>5, <1>6, <1>7 DEF BooksInv, WriterAccounting
<1> QED
  BY <1>4, <1>8, <1>9 DEF BooksInv, WriterAccounting

\* An insert that ends takes its rows out of flight, and no others.
LEMMA SettleBooks ==
    ASSUME ExposureInv, BooksInv, NEW b \in inserts, InsertDone(b) \/ InsertFails(b)
    PROVE  BooksInv'
<1> DEFINE U == UNION inserts
<1>1. inserts' = inserts \ {b} /\ inFlightRows' = inFlightRows - Cardinality(b)
  BY DEF InsertDone, InsertFails, Settle
<1>2. \A c \in inserts : c # b => c \cap b = {}
  BY DEF ExposureInv, AtMostOneCopy
<1>3. UNION inserts' = U \ b /\ U \cap b = b /\ b \in SUBSET U
  BY <1>1, <1>2
<1>4. IsFiniteSet(U) /\ IsFiniteSet(b) /\ Cardinality(b) \in Nat /\ Cardinality(b) <= Cardinality(U)
  BY <1>3, FS_Subset, FS_CardinalityType DEF BooksInv
<1>5. IsFiniteSet(U \ b) /\ Cardinality(U \ b) = Cardinality(U) - Cardinality(b)
  BY <1>3, <1>4, FS_Difference
<1>6. Cardinality(U) \in Nat
  BY <1>4, FS_CardinalityType
<1>7. /\ UNCHANGED <<accepted, refused>>
      /\ \/ written' = written + Cardinality(b) /\ lost' = lost
         \/ lost' = lost + Cardinality(b) /\ written' = written
  BY DEF InsertDone, InsertFails
<1>8. inFlightRows' = Cardinality(UNION inserts') /\ IsFiniteSet(UNION inserts')
  BY <1>1, <1>3, <1>5 DEF BooksInv, WriterAccounting
<1>9. /\ {inFlightRows', accepted', refused', written', lost'} \subseteq Nat
      /\ inFlightRows' <= MaxInFlightRows
      /\ accepted' = written' + lost' + inFlightRows'
  <2>1. inFlightRows = Cardinality(U)
    BY DEF BooksInv, WriterAccounting
  <2>2. /\ {inFlightRows, accepted, refused, written, lost} \subseteq Nat
        /\ inFlightRows <= MaxInFlightRows /\ MaxInFlightRows \in Nat
        /\ accepted = written + lost + inFlightRows
    BY SizesAssumption DEF BooksInv, WriterAccounting
  <2> HIDE DEF U
  <2> QED
    BY <1>1, <1>4, <1>7, <2>1, <2>2
<1> QED
  BY <1>8, <1>9 DEF BooksInv, WriterAccounting

\* A step that leaves the rows under way and all counters but refused alone.
LEMMA BooksFrame ==
    ASSUME BooksInv, UNCHANGED <<inserts, inFlightRows, accepted, written, lost>>, refused' \in Nat
    PROVE  BooksInv'
BY DEF BooksInv, WriterAccounting

LEMMA NextBooks ==
    ExposureInv /\ BooksInv /\ [ExposuresNext]_exposureVars => BooksInv'
<1> SUFFICES ASSUME ExposureInv, BooksInv, [ExposuresNext]_exposureVars PROVE BooksInv'
  OBVIOUS
<1>1. ASSUME NEW s \in Sdks,
             \/ Start(s) \/ RecordDrop(s) \/ RecordSampleOut(s) \/ Record(s)
             \/ TimerFlush(s) \/ Close(s) \/ SendFails(s)
      PROVE  BooksInv'
  <2>1. UNCHANGED serverVars
    BY <1>1 DEF Start, RecordDrop, RecordSampleOut, Record, TimerFlush, Close, SendFails
  <2> QED
    BY <2>1, BooksFrame DEF serverVars, BooksInv
<1>2. ASSUME NEW p \in posts, Receive(p) \/ Refuse(p) \/ Saturate(p) \/ Accept(p)
      PROVE  BooksInv'
  <2>1. CASE Receive(p) \/ Refuse(p)
    <3>1. UNCHANGED serverVars
      BY <2>1 DEF Receive, Refuse
    <3> QED
      BY <3>1, BooksFrame DEF serverVars, BooksInv
  <2>2. CASE Saturate(p)
    <3>1. Cardinality(Rows(p)) \in Nat
      BY BatchesAreFinite, FS_CardinalityType
    <3>2. refused' \in Nat
      BY <2>2, <3>1 DEF Saturate, BooksInv
    <3> QED
      BY <2>2, <3>2, BooksFrame DEF Saturate
  <2> QED
    BY <1>2, <2>1, <2>2, AcceptBooks
<1>3. ASSUME NEW b \in inserts, InsertDone(b) \/ InsertFails(b)
      PROVE  BooksInv'
  BY <1>3, SettleBooks
<1>4. CASE IngestRestart
  <2>1. UNION inserts' = {}
    BY <1>4 DEF IngestRestart
  <2>2. IsFiniteSet(UNION inserts') /\ Cardinality(UNION inserts') = 0
    BY <2>1, FS_EmptySet
  <2>3. inFlightRows' = 0 /\ accepted' = 0 /\ refused' = 0 /\ written' = 0 /\ lost' = 0
    BY <1>4 DEF IngestRestart
  <2> QED
    BY <2>2, <2>3, SizesAssumption DEF BooksInv, WriterAccounting
<1>5. CASE UNCHANGED exposureVars
  BY <1>5, BooksFrame DEF exposureVars, serverVars, BooksInv
<1> QED
  BY <1>1, <1>2, <1>3, <1>4, <1>5 DEF ExposuresNext

\* The writer's in-flight count is the number of rows under way and within its
\* bound, and every accepted row is written, failed or in flight, for every number
\* of SDKs and however inserts end, fail and are cut off by a restart.
THEOREM BooksBalance == ExposuresSpec => []WriterAccounting
<1>1. BooksInv => WriterAccounting
  BY DEF BooksInv
<1> QED
  BY <1>1, PipelineIsSound, InitBooks, NextBooks, PTL DEF ExposuresSpec

-----------------------------------------------------------------------------
(* Type correctness.  The counters need BooksInv: inFlightRows is only     *)
(* decremented by rows that were counted.                                  *)

LimitInv ==
    /\ dropped \in [Sdks -> Nat] /\ sampled \in [Sdks -> Nat]
    /\ \A s \in Sdks : recorded[s] <= MaxRecords /\ Cardinality(queue[s]) <= MaxQueueSize
    /\ taken \subseteq Events

SwitchInv == timer \in [Sdks -> BOOLEAN] /\ closed \in [Sdks -> BOOLEAN]

LEMMA QueuesAreFinite ==
    ASSUME ExposureInv, NEW s \in Sdks
    PROVE  IsFiniteSet(queue[s]) /\ Cardinality(queue[s]) \in Nat
<1>1. queue[s] \in SUBSET ({s} \X (1..recorded[s])) /\ recorded[s] \in Nat
  BY DEF ExposureInv, EveryEventCounted, BufferInv
<1>2. IsFiniteSet(queue[s])
  BY <1>1, EventsAreFinite
<1> QED
  BY <1>2, FS_CardinalityType

\* What was recorded is within the bound on records.
LEMMA GoneAreEvents ==
    ASSUME ExposureInv, LimitInv
    PROVE  /\ Gone \subseteq Events
           /\ \A s \in Sdks : queue[s] \cup flight[s] \cup sent[s] \cup failed[s] \subseteq Events
<1>1. ASSUME NEW s \in Sdks
      PROVE  queue[s] \cup flight[s] \cup sent[s] \cup failed[s] \subseteq Events
  <2>1. queue[s] \cup flight[s] \cup sent[s] \cup failed[s] = {s} \X (1..recorded[s])
    BY DEF ExposureInv, EveryEventCounted
  <2>2. 1..recorded[s] \subseteq 1..MaxRecords
    BY SizesAssumption DEF ExposureInv, BufferInv, LimitInv
  <2> QED
    BY <2>1, <2>2 DEF Events
<1> QED
  BY <1>1 DEF Gone

LEMMA InitLimits == ExposuresInit => LimitInv /\ SwitchInv
<1> SUFFICES ASSUME ExposuresInit PROVE LimitInv /\ SwitchInv
  OBVIOUS
<1>1. \A s \in Sdks : recorded[s] = 0 /\ Cardinality(queue[s]) = 0
  BY FS_EmptySet DEF ExposuresInit
<1>2. LimitInv
  BY <1>1, SizesAssumption DEF ExposuresInit, LimitInv
<1>3. SwitchInv
  BY DEF ExposuresInit, SwitchInv
<1> QED
  BY <1>2, <1>3

\* A flush leaves a queue of q or of nothing.
LEMMA FlushLimits ==
    ASSUME ExposureInv, LimitInv, NEW s \in Sdks, NEW q, NEW wanted,
           Cardinality(q) <= MaxQueueSize, FlushQueue(s, q, wanted)
    PROVE  \A t \in Sdks : Cardinality(queue'[t]) <= MaxQueueSize
<1> SUFFICES ASSUME NEW t \in Sdks PROVE Cardinality(queue'[t]) <= MaxQueueSize
  OBVIOUS
<1>1. queue'[t] = {} \/ queue'[t] = q \/ queue'[t] = queue[t]
  BY DEF FlushQueue, ExposureInv, BufferInv
<1>2. Cardinality({}) <= MaxQueueSize
  BY FS_EmptySet, SizesAssumption
<1> QED
  BY <1>1, <1>2 DEF LimitInv

\* A step that leaves the buffers' sizes and what was taken alone.
LEMMA LimitFrame ==
    ASSUME LimitInv, UNCHANGED <<queue, recorded, dropped, sampled, taken>>
    PROVE  LimitInv'
BY DEF LimitInv

LEMMA RecordLimits ==
    ASSUME ExposureInv, LimitInv, NEW s \in Sdks, Record(s)
    PROVE  LimitInv'
<1> DEFINE e == <<s, recorded[s] + 1>>
           q == queue[s] \cup {e}
<1>1. Cardinality(q) <= MaxQueueSize
  <2>1. IsFiniteSet(queue[s]) /\ Cardinality(queue[s]) \in Nat
    BY QueuesAreFinite
  <2>2. Cardinality(q) = IF e \in queue[s] THEN Cardinality(queue[s]) ELSE Cardinality(queue[s]) + 1
    BY <2>1, FS_AddElement
  <2>3. Cardinality(queue[s]) < MaxQueueSize /\ MaxQueueSize \in Nat
    BY SizesAssumption DEF Record
  <2> HIDE DEF q, e
  <2> QED
    BY <2>1, <2>2, <2>3
<1>2. FlushQueue(s, q, Cardinality(q) >= BatchSize)
  BY DEF Record
<1>3. \A t \in Sdks : Cardinality(queue'[t]) <= MaxQueueSize
  <2> HIDE DEF q
  <2> QED
    BY <1>1, <1>2, FlushLimits
<1>4. \A t \in Sdks : recorded'[t] <= MaxRecords
  <2>1. recorded[s] + dropped[s] + sampled[s] < MaxRecords /\ recorded' = [recorded EXCEPT ![s] = @ + 1]
    BY DEF Record, Calls
  <2> QED
    BY <2>1, SizesAssumption DEF LimitInv, ExposureInv, BufferInv
<1>5. UNCHANGED <<dropped, sampled, taken>>
  BY DEF Record, serverVars
<1> QED
  BY <1>3, <1>4, <1>5 DEF LimitInv

LEMMA NextLimits ==
    ExposureInv /\ LimitInv /\ [ExposuresNext]_exposureVars => LimitInv'
<1> SUFFICES ASSUME ExposureInv, LimitInv, [ExposuresNext]_exposureVars PROVE LimitInv'
  OBVIOUS
<1>1. ASSUME NEW s \in Sdks, RecordDrop(s) \/ RecordSampleOut(s)
      PROVE  LimitInv'
  BY <1>1 DEF RecordDrop, RecordSampleOut, LimitInv, serverVars
<1>2. ASSUME NEW s \in Sdks, TimerFlush(s) \/ Close(s)
      PROVE  LimitInv'
  <2>1. FlushQueue(s, queue[s], TRUE) /\ UNCHANGED <<recorded, dropped, sampled, taken>>
    BY <1>2 DEF TimerFlush, Close, serverVars
  <2>2. \A t \in Sdks : Cardinality(queue'[t]) <= MaxQueueSize
    <3>1. Cardinality(queue[s]) <= MaxQueueSize
      BY DEF LimitInv
    <3> QED
      BY <2>1, <3>1, FlushLimits
  <2> QED
    BY <2>1, <2>2 DEF LimitInv
<1>3. ASSUME NEW s \in Sdks, Start(s) \/ SendFails(s)
      PROVE  LimitInv'
  <2>1. UNCHANGED <<queue, recorded, dropped, sampled, taken>>
    BY <1>3 DEF Start, SendFails, Discarded, serverVars
  <2> QED
    BY <2>1, LimitFrame
<1>4. ASSUME NEW p \in posts, Receive(p) \/ Refuse(p) \/ Saturate(p)
      PROVE  LimitInv'
  <2>1. UNCHANGED <<queue, recorded, dropped, sampled, taken>>
    BY <1>4 DEF Receive, Delivered, Discarded, Refuse, Saturate, serverVars, bufferVars
  <2> QED
    BY <2>1, LimitFrame
<1>5. ASSUME NEW p \in posts, Accept(p)
      PROVE  LimitInv'
  <2>1. p.batch \subseteq Events
    BY GoneAreEvents DEF ExposureInv, PostInv
  <2>2. UNCHANGED <<queue, recorded, dropped, sampled>> /\ taken' = taken \cup p.batch
    BY <1>5 DEF Accept, bufferVars
  <2> QED
    BY <2>1, <2>2 DEF LimitInv
<1>6. ASSUME NEW b \in inserts, InsertDone(b) \/ InsertFails(b)
      PROVE  LimitInv'
  <2>1. UNCHANGED <<queue, recorded, dropped, sampled, taken>>
    BY <1>6 DEF InsertDone, InsertFails, bufferVars
  <2> QED
    BY <2>1, LimitFrame
<1>7. CASE IngestRestart \/ UNCHANGED exposureVars
  <2>1. UNCHANGED <<queue, recorded, dropped, sampled, taken>>
    BY <1>7 DEF IngestRestart, exposureVars, bufferVars, serverVars
  <2> QED
    BY <2>1, LimitFrame
<1> QED
  BY <1>1, <1>2, <1>3, <1>4, <1>5, <1>6, <1>7, RecordLimits DEF ExposuresNext

LEMMA NextSwitches == SwitchInv /\ [ExposuresNext]_exposureVars => SwitchInv'
<1> SUFFICES ASSUME SwitchInv, [ExposuresNext]_exposureVars PROVE SwitchInv'
  OBVIOUS
<1>1. ASSUME NEW s \in Sdks, Start(s) \/ Close(s)
      PROVE  SwitchInv'
  <2>1. timer' \in {timer, [timer EXCEPT ![s] = TRUE], [timer EXCEPT ![s] = FALSE]}
    BY <1>1 DEF Start, Close
  <2>2. closed' \in {closed, [closed EXCEPT ![s] = TRUE]}
    BY <1>1 DEF Start, Close
  <2> QED
    BY <2>1, <2>2, Zenon DEF SwitchInv
<1>2. CASE UNCHANGED <<timer, closed>>
  BY <1>2 DEF SwitchInv
<1>3. ASSUME NEW s \in Sdks, \/ RecordDrop(s) \/ RecordSampleOut(s) \/ Record(s)
                             \/ TimerFlush(s) \/ SendFails(s)
      PROVE  UNCHANGED <<timer, closed>>
  BY <1>3 DEF RecordDrop, RecordSampleOut, Record, TimerFlush, SendFails, Discarded
<1>4. ASSUME NEW p \in posts, Receive(p) \/ Refuse(p) \/ Saturate(p) \/ Accept(p)
      PROVE  UNCHANGED <<timer, closed>>
  BY <1>4 DEF Receive, Delivered, Discarded, Refuse, Saturate, Accept, bufferVars
<1>5. ASSUME NEW b \in inserts, InsertDone(b) \/ InsertFails(b)
      PROVE  UNCHANGED <<timer, closed>>
  BY <1>5 DEF InsertDone, InsertFails, bufferVars
<1>6. CASE IngestRestart \/ UNCHANGED exposureVars
  BY <1>2, <1>6 DEF IngestRestart, exposureVars, bufferVars
<1> QED
  BY <1>1, <1>2, <1>3, <1>4, <1>5, <1>6 DEF ExposuresNext

\* Every reachable state of the pipeline is well-formed: no queue passes
\* maxQueueSize, and no counter of the writer runs below zero.
THEOREM ExposuresTypeCorrect == ExposuresSpec => []ExposuresTypeOK
<1>1. ExposureInv /\ BooksInv /\ LimitInv /\ SwitchInv => ExposuresTypeOK
  <2> SUFFICES ASSUME ExposureInv, BooksInv, LimitInv, SwitchInv PROVE ExposuresTypeOK
    OBVIOUS
  <2>1. \A s \in Sdks : queue[s] \cup flight[s] \cup sent[s] \cup failed[s] \subseteq Events
    BY GoneAreEvents
  <2>2. /\ queue \in [Sdks -> SUBSET Events] /\ flight \in [Sdks -> SUBSET Events]
        /\ sent \in [Sdks -> SUBSET Events] /\ failed \in [Sdks -> SUBSET Events]
    BY <2>1 DEF ExposureInv, BufferInv
  <2>3. posts \subseteq [sdk : Sdks, batch : SUBSET Events, status : {"request", "ok", "error"}]
    <3>1. ASSUME NEW p \in posts
          PROVE  p \in [sdk : Sdks, batch : SUBSET Events, status : {"request", "ok", "error"}]
      <4>1. p \in Posts /\ p.batch \subseteq Events
        BY GoneAreEvents DEF ExposureInv, PostInv
      <4> QED
        BY <4>1 DEF Posts
    <3> QED
      BY <3>1
  <2>4. inserts \subseteq SUBSET Events /\ stored \subseteq Events
    BY GoneAreEvents DEF ExposureInv, TakenInv
  <2>5. /\ \A s \in Sdks : Cardinality(queue[s]) <= MaxQueueSize
        /\ recorded \in [Sdks -> Nat] /\ dropped \in [Sdks -> Nat] /\ sampled \in [Sdks -> Nat]
        /\ {inFlightRows, accepted, refused, written, lost} \subseteq Nat
        /\ taken \subseteq Events
    BY DEF LimitInv, BooksInv, ExposureInv, BufferInv
  <2>6. timer \in [Sdks -> BOOLEAN] /\ closed \in [Sdks -> BOOLEAN]
    BY DEF SwitchInv
  <2> QED
    BY <2>2, <2>3, <2>4, <2>5, <2>6, Zenon DEF ExposuresTypeOK
<1> QED
  BY <1>1, PipelineIsSound, InitBooks, NextBooks, InitLimits, NextLimits, NextSwitches, PTL
  DEF ExposuresSpec
=============================================================================
