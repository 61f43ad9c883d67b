----------------------------- MODULE Exposures -----------------------------
(***************************************************************************)
(* The exposure pipeline: the buffer in every SDK (exposure.ts of the      *)
(* JavaScript SDK), its HTTP transport, the control plane's ingest route   *)
(* (server.ts), and the writer that inserts into ClickHouse (exposures.ts).*)
(*                                                                         *)
(* An event is named by its SDK and its number there.  Where the buffer    *)
(* keeps a counter (sent, failed) the model keeps the events counted, so   *)
(* that what the two ends believe of one event can be compared; the        *)
(* writer's counters are numbers, as in the code.  An aborted request is   *)
(* not recalled: it may still reach the server after the buffer gave up.   *)
(***************************************************************************)
EXTENDS Integers, FiniteSets

CONSTANTS
    Sdks,               \* SDK instances, each with its own buffer
    BatchSize,          \* batchSize: queued events at which record flushes
    MaxQueueSize,       \* maxQueueSize: the queue's hard cap
    MaxBatchSize,       \* MAX_BATCH_SIZE: the server refuses longer batches
    MaxInFlightRows,    \* maxInFlightRows: the writer's bound
    Malformed,          \* event numbers that validateBatch rejects
    MaxRecords          \* bound: calls of record per SDK

ASSUME SizesAssumption ==
    {BatchSize, MaxQueueSize, MaxBatchSize, MaxInFlightRows, MaxRecords} \subseteq Nat \ {0}

Events == Sdks \X (1..MaxRecords)

VARIABLES
    queue,      \* queue[s]: events waiting in the buffer of s
    flight,     \* flight[s]: the batch being sent; {} when no flush is in flight
    recorded, dropped, sampled,     \* per SDK: calls of record, by outcome
    sent, failed,                   \* per SDK: events counted as sent, as failed
    timer, closed,                  \* per SDK: periodic flush is on; close was called
    posts,      \* requests and their answers, between the SDKs and the route
    inserts,    \* inserts in flight: sets of events (#inFlight)
    inFlightRows, accepted, refused, written, lost,     \* the writer's counters (lost: its #failed)
    taken,      \* events the route answered for with 202 (a history variable)
    stored      \* events in ClickHouse

bufferVars == <<queue, flight, recorded, dropped, sampled, sent, failed, timer, closed>>
serverVars == <<inserts, inFlightRows, accepted, refused, written, lost, taken, stored>>
exposureVars == <<bufferVars, posts, serverVars>>

ExposuresTypeOK ==
    /\ queue \in [Sdks -> SUBSET Events]
    /\ \A s \in Sdks : Cardinality(queue[s]) <= MaxQueueSize
    /\ flight \in [Sdks -> SUBSET Events]
    /\ recorded \in [Sdks -> Nat] /\ dropped \in [Sdks -> Nat] /\ sampled \in [Sdks -> Nat]
    /\ sent \in [Sdks -> SUBSET Events] /\ failed \in [Sdks -> SUBSET Events]
    /\ timer \in [Sdks -> BOOLEAN] /\ closed \in [Sdks -> BOOLEAN]
    /\ posts \subseteq [sdk : Sdks, batch : SUBSET Events, status : {"request", "ok", "error"}]
    /\ inserts \subseteq SUBSET Events
    /\ {inFlightRows, accepted, refused, written, lost} \subseteq Nat
    /\ taken \subseteq Events /\ stored \subseteq Events

ExposuresInit ==
    /\ queue = [s \in Sdks |-> {}] /\ flight = [s \in Sdks |-> {}]
    /\ recorded = [s \in Sdks |-> 0] /\ dropped = [s \in Sdks |-> 0]
    /\ sampled = [s \in Sdks |-> 0]
    /\ sent = [s \in Sdks |-> {}] /\ failed = [s \in Sdks |-> {}]
    /\ timer = [s \in Sdks |-> FALSE] /\ closed = [s \in Sdks |-> FALSE]
    /\ posts = {} /\ inserts = {}
    /\ inFlightRows = 0 /\ accepted = 0 /\ refused = 0 /\ written = 0 /\ lost = 0
    /\ taken = {} /\ stored = {}

-----------------------------------------------------------------------------
(* The buffer.                                                             *)

Request(s, batch) == [sdk |-> s, batch |-> batch, status |-> "request"]

\* Faulty variant of FlushQueue: the queue is sent but not emptied.
FlushQueueKeeps(s, q, wanted) ==
    IF wanted /\ flight[s] = {} /\ q # {}
    THEN /\ flight' = [flight EXCEPT ![s] = q]
         /\ queue' = [queue EXCEPT ![s] = q]
         /\ posts' = posts \cup {Request(s, q)}
    ELSE /\ queue' = [queue EXCEPT ![s] = q]
         /\ UNCHANGED <<flight, posts>>

\* flush, on a queue that has become q, if it is wanted: it sends the whole
\* queue, unless another flush is in flight.
FlushQueue(s, q, wanted) ==
    IF wanted /\ flight[s] = {} /\ q # {}
    THEN /\ flight' = [flight EXCEPT ![s] = q]
         /\ queue' = [queue EXCEPT ![s] = {}]
         /\ posts' = posts \cup {Request(s, q)}
    ELSE /\ queue' = [queue EXCEPT ![s] = q]
         /\ UNCHANGED <<flight, posts>>

Calls(s) == recorded[s] + dropped[s] + sampled[s]

Start(s) ==
    /\ ~timer[s] /\ ~closed[s]
    /\ timer' = [timer EXCEPT ![s] = TRUE]
    /\ UNCHANGED <<queue, flight, recorded, dropped, sampled, sent, failed, closed, posts, serverVars>>

\* record, the queue being full.
RecordDrop(s) ==
    /\ ~closed[s] /\ Calls(s) < MaxRecords
    /\ Cardinality(queue[s]) >= MaxQueueSize
    /\ dropped' = [dropped EXCEPT ![s] = @ + 1]
    /\ UNCHANGED <<queue, flight, recorded, sampled, sent, failed, timer, closed, posts, serverVars>>

\* record, the event falling out of the sample: possible above half occupancy.
RecordSampleOut(s) ==
    /\ ~closed[s] /\ Calls(s) < MaxRecords
    /\ Cardinality(queue[s]) < MaxQueueSize
    /\ 2 * Cardinality(queue[s]) > MaxQueueSize
    /\ sampled' = [sampled EXCEPT ![s] = @ + 1]
    /\ UNCHANGED <<queue, flight, recorded, dropped, sent, failed, timer, closed, posts, serverVars>>

\* Faulty variant of Record: the cap is forgotten.
RecordUncapped(s) ==
    LET q == queue[s] \cup {<<s, recorded[s] + 1>>} IN
    /\ ~closed[s] /\ Calls(s) < MaxRecords
    /\ recorded' = [recorded EXCEPT ![s] = @ + 1]
    /\ FlushQueue(s, q, Cardinality(q) >= BatchSize)
    /\ UNCHANGED <<dropped, sampled, sent, failed, timer, closed, serverVars>>

\* record, keeping the event and flushing a full batch.
Record(s) ==
    LET q == queue[s] \cup {<<s, recorded[s] + 1>>} IN
    /\ ~closed[s] /\ Calls(s) < MaxRecords
    /\ Cardinality(queue[s]) < MaxQueueSize
    /\ recorded' = [recorded EXCEPT ![s] = @ + 1]
    /\ FlushQueue(s, q, Cardinality(q) >= BatchSize)
    /\ UNCHANGED <<dropped, sampled, sent, failed, timer, closed, serverVars>>

\* Faulty variant of TimerFlush: the timer only sends full batches.
TimerFlushFull(s) ==
    /\ timer[s] /\ flight[s] = {} /\ queue[s] # {}
    /\ Cardinality(queue[s]) >= BatchSize
    /\ FlushQueue(s, queue[s], TRUE)
    /\ UNCHANGED <<recorded, dropped, sampled, sent, failed, timer, closed, serverVars>>

\* The interval timer's flush, when there is something for it to do.
TimerFlush(s) ==
    /\ timer[s] /\ flight[s] = {} /\ queue[s] # {}
    /\ FlushQueue(s, queue[s], TRUE)
    /\ UNCHANGED <<recorded, dropped, sampled, sent, failed, timer, closed, serverVars>>

\* close: may be called again.
Close(s) ==
    /\ closed' = [closed EXCEPT ![s] = TRUE]
    /\ timer' = [timer EXCEPT ![s] = FALSE]
    /\ FlushQueue(s, queue[s], TRUE)
    /\ UNCHANGED <<recorded, dropped, sampled, sent, failed, serverVars>>

\* The batch in flight is counted as sent.
Delivered(s) ==
    /\ sent' = [sent EXCEPT ![s] = @ \cup flight[s]]
    /\ flight' = [flight EXCEPT ![s] = {}]
    /\ UNCHANGED <<queue, recorded, dropped, sampled, failed, timer, closed>>

\* Faulty variant of Discarded: the batch goes back to the queue for a retry.
DiscardedRetries(s) ==
    /\ queue' = [queue EXCEPT ![s] = @ \cup flight[s]]
    /\ flight' = [flight EXCEPT ![s] = {}]
    /\ UNCHANGED <<recorded, dropped, sampled, sent, failed, timer, closed>>

\* The batch in flight is counted as failed and discarded.
Discarded(s) ==
    /\ failed' = [failed EXCEPT ![s] = @ \cup flight[s]]
    /\ flight' = [flight EXCEPT ![s] = {}]
    /\ UNCHANGED <<queue, recorded, dropped, sampled, sent, timer, closed>>

\* Whether p is the request that the buffer of p.sdk still waits for.
Awaited(p) == flight[p.sdk] # {} /\ p.batch = flight[p.sdk]

\* Faulty variant of Receive: the transport does not look at the status.
ReceiveAny(p) ==
    /\ p \in posts /\ p.status # "request" /\ Awaited(p)
    /\ posts' = posts \ {p}
    /\ Delivered(p.sdk)
    /\ UNCHANGED serverVars

\* send returns, or throws because the answer is not a 2xx.
Receive(p) ==
    /\ p \in posts /\ p.status # "request" /\ Awaited(p)
    /\ posts' = posts \ {p}
    /\ \/ p.status = "ok" /\ Delivered(p.sdk)
       \/ p.status = "error" /\ Discarded(p.sdk)
    /\ UNCHANGED serverVars

\* send throws without an answer: the connection failed, or the timeout aborted
\* the request, which the server may yet receive, be handling, or have answered.
SendFails(s) ==
    /\ flight[s] # {}
    /\ \/ posts' = {p \in posts : p.sdk # s \/ p.batch # flight[s]}
       \/ posts' = {p \in posts : p.sdk # s \/ p.batch # flight[s] \/ p.status = "request"}
    /\ Discarded(s)
    /\ UNCHANGED serverVars

-----------------------------------------------------------------------------
(* The ingest route and the writer.                                        *)

\* The route's answer reaches the wire only if the buffer still waits for it.
Answer(p, status) ==
    posts' = (posts \ {p}) \cup {r \in {[p EXCEPT !.status = status]} : Awaited(p)}

Rows(p) == {e \in p.batch : e[2] \notin Malformed}

TooLarge(p) == Cardinality(p.batch) > MaxBatchSize

\* Faulty variant of Saturated: the batch itself is not counted.
SaturatedAfter(p) == inFlightRows > MaxInFlightRows

Saturated(p) == inFlightRows + Cardinality(Rows(p)) > MaxInFlightRows

\* 401, 503, or a failed key lookup, which may happen to any request, and 413.
Refuse(p) ==
    /\ p \in posts /\ p.status = "request"
    /\ Answer(p, "error")
    /\ UNCHANGED <<bufferVars, serverVars>>

\* 429: enqueue refuses the batch whole.
Saturate(p) ==
    /\ p \in posts /\ p.status = "request"
    /\ ~TooLarge(p) /\ Saturated(p)
    /\ Answer(p, "error")
    /\ refused' = refused + Cardinality(Rows(p))
    /\ UNCHANGED <<bufferVars, inserts, inFlightRows, accepted, written, lost, taken, stored>>

\* 202: the malformed events are dropped and the rest handed to the writer.
Accept(p) ==
    /\ p \in posts /\ p.status = "request"
    /\ ~TooLarge(p) /\ ~Saturated(p)
    /\ Answer(p, "ok")
    /\ inserts' = inserts \cup ({Rows(p)} \ {{}})
    /\ inFlightRows' = inFlightRows + Cardinality(Rows(p))
    /\ accepted' = accepted + Cardinality(Rows(p))
    /\ taken' = taken \cup p.batch
    /\ UNCHANGED <<bufferVars, refused, written, lost, stored>>

Settle(b) ==
    /\ b \in inserts
    /\ inserts' = inserts \ {b}
    /\ inFlightRows' = inFlightRows - Cardinality(b)

\* The .then and the .finally after it are one step, as are the .catch and the
\* .finally of InsertFails; the moment between them is not told apart.
InsertDone(b) ==
    /\ Settle(b)
    /\ written' = written + Cardinality(b)
    /\ stored' = stored \cup b
    /\ UNCHANGED <<bufferVars, posts, accepted, refused, lost, taken>>

\* The insert fails; a timed-out one may have landed all the same.
InsertFails(b) ==
    /\ Settle(b)
    /\ lost' = lost + Cardinality(b)
    /\ stored' \in {stored, stored \cup b}
    /\ UNCHANGED <<bufferVars, posts, accepted, refused, written, taken>>

\* The control plane stops and starts again: inserts under way are abandoned,
\* or land on their own, and the counters start from zero.
IngestRestart ==
    /\ inserts # {}
    /\ \E landed \in SUBSET inserts : stored' = stored \cup UNION landed
    /\ inserts' = {}
    /\ inFlightRows' = 0 /\ accepted' = 0 /\ refused' = 0 /\ written' = 0 /\ lost' = 0
    /\ posts' = {p \in posts : p.status = "request"}
    /\ UNCHANGED <<bufferVars, taken>>

ExposuresNext ==
    \/ \E s \in Sdks :
         \/ Start(s) \/ RecordDrop(s) \/ RecordSampleOut(s) \/ Record(s)
         \/ TimerFlush(s) \/ Close(s) \/ SendFails(s)
    \/ \E p \in posts : Receive(p) \/ Refuse(p) \/ Saturate(p) \/ Accept(p)
    \/ \E b \in inserts : InsertDone(b) \/ InsertFails(b)
    \/ IngestRestart

ExposuresSpec == ExposuresInit /\ [][ExposuresNext]_exposureVars

\* The interval timer keeps firing, and a send that is not answered times out.
ExposuresFairness ==
    \A s \in Sdks : WF_exposureVars(TimerFlush(s)) /\ WF_exposureVars(SendFails(s))

FairExposuresSpec == ExposuresSpec /\ ExposuresFairness

-----------------------------------------------------------------------------
\* Every event recorded is in exactly one place: queued, in flight, counted as
\* sent, or counted as failed.  No flush, failure, timeout or close counts one
\* twice or forgets one.
EveryEventCounted ==
    \A s \in Sdks :
        /\ queue[s] \cup flight[s] \cup sent[s] \cup failed[s] = {s} \X (1..recorded[s])
        /\ queue[s] \cap (flight[s] \cup sent[s] \cup failed[s]) = {}
        /\ flight[s] \cap (sent[s] \cup failed[s]) = {}
        /\ sent[s] \cap failed[s] = {}

\* What a buffer counts as sent the route did answer for: a batch refused as too
\* large, for backpressure or for its key is never counted as delivered, however
\* answers and timeouts interleave.
SentIsTaken == \A s \in Sdks : sent[s] \subseteq taken

\* Delivery is at most once: an event is in one request, or in one insert, or in
\* the table, and never comes back to a queue.  A timeout that fires after the server
\* took the batch repeats nothing, because a batch that failed is discarded ("retrying
\* in memory would grow the queue", flush in exposure.ts).  The other half of what the
\* comments on dedupeKey say, that a batch is sent again, is AtLeastOnce.
AtMostOneCopy ==
    LET requests == {p.batch : p \in {q \in posts : q.status = "request"}} IN
    /\ \A b, c \in requests \cup inserts : b # c => b \cap c = {}
    /\ \A b \in requests : b \notin inserts
    /\ \A b \in requests \cup inserts : b \cap stored = {}

\* The writer's books: its in-flight count is the number of rows under way and
\* never passes the bound, and every accepted row is written, failed or in
\* flight.
WriterAccounting ==
    /\ inFlightRows = Cardinality(UNION inserts)
    /\ inFlightRows <= MaxInFlightRows
    /\ accepted = written + lost + inFlightRows

\* "A hung request must not pin the buffer's in-flight flag forever" (exposure.ts),
\* and a queued event leaves a started buffer, whatever the server does, unless
\* the buffer is closed.
Settles ==
    \A s \in Sdks : \A n \in 1..MaxRecords :
        /\ (<<s, n>> \in flight[s]) ~> (<<s, n>> \notin flight[s])
        /\ (timer[s] /\ <<s, n>> \in queue[s]) ~> (<<s, n>> \notin queue[s] \/ closed[s])

\* "Flushes and stops" (exposure.ts): once close has been called and no send is
\* in flight, nothing is left in the queue.
CloseFlushes ==
    \A s \in Sdks : closed[s] /\ flight[s] = {} => queue[s] = {}

\* "Idempotency key from the SDK, which delivers at-least-once" (001_exposures.sql):
\* an event the buffer kept is waiting there, on its way, or was taken by the server.
AtLeastOnce ==
    \A s \in Sdks : \A n \in 1..recorded[s] :
        \/ <<s, n>> \in queue[s] \cup flight[s] \cup taken
        \/ \E p \in posts : p.status = "request" /\ <<s, n>> \in p.batch
=============================================================================
