# Flagship platform: a TLA+ verification project

Flagship is a feature-flag platform. An administrator edits flags in a console;
the control plane (TypeScript, PostgreSQL) compiles them into numbered rulesets
and pushes each to the data plane (Go), which streams it to connected clients;
SDKs evaluate flags locally and report exposures, which the control plane
ingests into ClickHouse. This directory models the parts of that system whose
correctness depends on interleaving, failure, ordering or bounds, checks them
with TLC on small instances, and proves with TLAPS, for all instances, the
delivery guarantees of the data plane and that it implements its abstract
specification, the publishing guarantees of the platform, the accounting of the
exposure pipeline, what the console's screens show, and what a rollout promises.

## 1. Inventory

| Component | Source | State | Operations | Talks to |
|---|---|---|---|---|
| Snapshot store | `apps/data-plane/internal/store` | per environment: current snapshot, bounded history (one mutex) | `Publish`, `Current`, `Resume` | calls the hub after unlocking |
| Hub | `apps/data-plane/internal/hub` | shards (map id to subscriber, a lock each), a bounded channel and a done signal per subscriber, counters | `Subscribe`, `Unsubscribe`, `Broadcast`, `CloseAll` | handlers receive from channels |
| Data-plane server | `apps/data-plane/internal/api` | one goroutine per stream, a shared id counter | `handlePublish`, `handleStream`, `replayOrResync` | store, hub, HTTP clients |
| Data-plane process | `apps/data-plane/cmd/dataplane` | listener, signal | start, shutdown | hub, HTTP server |
| Console stream | `apps/console/src/hooks/useRulesetStream.ts`, `app/api/stream/route.ts` | environment, highest version, EventSource with its last event id | receive, reconnect, switch environment | data plane through a proxy route |
| Control plane | `apps/control-plane/src/{server,repository}.ts`, `migrations` | flags, configurations, environment versions, snapshots, audit log | create, patch, publish | PostgreSQL, data plane |
| Push | `server.ts` publish route | requests under way | one POST per publish, 5 s limit | control to data plane |
| Ruleset compiler | `apps/control-plane/src/ruleset.ts` | none | validate, find cycles, compile | visibility filter |
| Visibility filter | `packages/core/src/visibility.ts` | none | filter a snapshot for a client key, find leaks | - |
| Evaluator | `packages/core/src/{evaluate,bucketing,operators}.ts` | none | match a tree, evaluate a flag | - |
| Exposure buffer | `packages/sdk-js/src/exposure.ts` | queue, in-flight flag, counters, timer | `record`, `flush`, `close` | ingest route over HTTP |
| Exposure ingest | `server.ts`, `exposures.ts`, `clickhouse.ts` | rows in flight, counters | validate, `enqueue`, insert | ClickHouse |
| Console flag screens | `apps/console/src/components/{FlagList,FlagDetailView}.tsx`, `lib/api.ts`, `app/api/proxy.ts` | environment, flag shown, editor's tree and dirty mark, busy, requests in flight | boot, select, load, edit, save, toggle, publish, refetch on a stream event | control plane through a proxy, console stream |
| Console rule editor | `apps/console/src/components/RuleBuilder.tsx` | a rule tree | replace or remove the node at a path | flag screen |
| Not modelled | see section 9 | | | |

What is hard in this code, and where:

* **Delivery** (`store.go`, `hub.go`, `api.go`). The store unlocks before it
  broadcasts, a stream subscribes before it replays, a slow subscriber is
  evicted after the read lock is released, a client reconnects with the id of
  the last event it saw, and history is bounded. Correct means: a client never
  goes back, and is never left behind without somebody owing it the update.
* **The registry** (`hub.go`). A subscriber is removed by its broadcaster, by
  its own handler and by `CloseAll` in any order. Correct means: counted once,
  closed whoever comes first, nobody waiting on a channel no one can reach.
* **Shutdown** (`main.go`). `CloseAll` sweeps while the listener still accepts.
* **Publishing** (`repository.ts`, `server.ts`). Concurrent publishes, failed
  queries, a crash between commit, audit and push, a lost or overtaken push.
  Correct means: versions without gaps or repeats, later versions from later
  rows, nothing served that is not audited, no way back.
* **Exposure accounting** (`exposure.ts`, `exposures.ts`). A timeout racing a
  late answer, a batch larger than the server takes, backpressure, restarts.
  Correct means: each event counted once, none stored twice, books that balance.
* **Rulesets** (`ruleset.ts`, `visibility.ts`, `evaluate.ts`). Validation must
  exclude all that evaluation trips on; filtering must not leak and must not
  change what a kept rule means.

* **The console's screens** (`FlagList.tsx`, `FlagDetailView.tsx`, `proxy.ts`).
  Answers are neither ordered nor cancelled; toggles are shown before they are
  stored and taken back on failure; the proxy gives up on writes that still
  happen; others write too. Correct means: once its answers are in, a screen
  shows what is stored, the list follows the publishes it hears of, controls come
  back.
* **The rule editor** (`RuleBuilder.tsx`). Edits find their node by position.
  Correct means: an edit touches one node, cannot make a tree the compiler
  refuses for its shape, and controls mean what they say.

`PROJECT.json` lists each hazard at its line, with the properties that watch it.

## 2. Modules

```
PlatformKeys                    constants shared by both planes
  SnapshotStore                 store.go
    Hub                         hub.go, lock section by lock section
      DataPlane ---- refines --> RulesetFeed   (what clients may rely on)
        MCDataPlane
    Platform                    ControlPlane + pushes + SnapshotStore
  ControlPlane                  repository.ts, server.ts
Exposures                       exposure.ts, exposures.ts, server.ts
RuleTrees -> RuleEditor -> Rulesets -> MCRulesets
                                core package, RuleBuilder.tsx, ruleset.ts
Bucketing, Prerequisites -> Evaluation -> FlagRows -> Rulesets
                                bucketing.ts, ruleset.ts, evaluate.ts
SegmentSafety -> Rulesets       visibility.ts
Console                         FlagList.tsx, FlagDetailView.tsx, proxy.ts
SnapshotStoreProofs, DataPlaneProofs, DeliveryProofs, FeedProofs,
PlatformProofs, ExposuresProofs, ConsoleProofs, RulesetProofs
```

**SnapshotStore.** `current[e]`, `history[e]` as in the code; a snapshot is its
version, because payload and ETag are functions of it. `accepted[e]` is a history
variable: all versions ever accepted. `StorePublish` is the critical section of
`Publish` with the stale check, append and trim; `NeedsFullResync` and
`ResumeSource` are `Resume`.

**Hub.** One action per critical section or channel operation: `Subscribe`
(under the shard lock) and `SubscribeCount` (the counter after it); `Broadcast`
as begin, read-lock a shard, send to one subscriber or find its channel full,
next shard, evict one at a time (`EvictRemove` under the lock, `EvictClose`
outside), end; `Unsubscribe` and its close; `CloseAll` shard by shard. A
subscriber is a stream slot; slots are reused once their handler has returned.
The channel holds versions and has `BufferSize` places.

**DataPlane.** Composes store, hub, handlers and clients. A handler's phase `hpc`
follows `handleStream`: subscribed, replaying (`Resume`), resyncing (the second
read, `Current`), writing what it missed, the select loop, returning with the
deferred `Unsubscribe`. `Emit` is the hook's version guard. A client has an
environment, the version it shows, the last event id the browser resends, and its
connection. `Disconnect` breaks a connection at any time. `SwitchEnvironment` closes
the EventSource and starts anew in an environment, with no version and no event id;
choosing the same one again is a reload. `ConnectRefused` is a 502 of the proxy
route, after which the EventSource is dead: always possible once the listener is
closed, and before that a passing failure. Breaks, switches and passing failures
happen `MaxDrops` times together. `IdMayBe` is the id closure: the shared counter is
unsynchronised, so with `CoarseClock` two connections may draw the same id; without
it ids differ.

**RulesetFeed.** The abstract specification: versions of an environment are
published in increasing order, and a client only moves from the version it holds
to a newer published one of the environment it watches. `DataPlane` implements
it under `published <- accepted, watching <- env, holding <- ver`.

**ControlPlane.** One action per query, since each is a scheduling point:
`CreateFlag`/`CreateAudit`; `PatchRead`/`PatchWrite`/`PatchAudit`;
`PublishLock` (the UPDATE that takes the row lock and the number),
`PublishLoad`, `PublishReject`, `PublishCommit`, `PublishAudit`. The number and
the lock are the transaction's until COMMIT. A configuration is identified by the
edit that wrote each field; `asOf` is the number of saves a snapshot was compiled
from. `Broken` is the set of edits that make a ruleset invalid. `QueryFails` and
`ControlCrash` may strike at any phase.

**Platform.** Adds pushes in transit: sent (`PushSend`), arriving in any order
(`PushArrives`), lost, timed out for the sender and still under way
(`PublishReply`), and `DataPlaneRestart`, which empties the store. Faults are
bounded by `MaxFaults`.

**Exposures.** Buffer, requests and answers in transit, the ingest route, the
writer and the table. Where the buffer keeps counters the model keeps the events
counted, so that the two ends can be compared. A timeout ends the send for the
buffer and leaves the request on its way. `Receive` reads an answer, `Refuse`,
`Saturate` and `Accept` are the outcomes of the route, `InsertDone` and
`InsertFails` those of the insert (a failed one may have stored its rows),
`IngestRestart` loses the inserts in flight and the counters. `AtMostOneCopy` is
what the code does, `AtLeastOnce` what is said of it (section 4).

**Console.** One screen over one flag's stored configuration per environment:
`screen` says whether it is the list or the flag screen, which share the request
path and differ in what they do with an answer. A handler is split at its await:
`save`, `toggleEnabled` and `publish` send, `WriteSucceeds` and `Failed` (with
`Revert`, the optimistic toggle taken back) are what comes after. `reads` are the
GETs in flight, each answered by `ServeRead` with what is stored then and applied
by `ReadArrives` at any later time in any order. `Load` counts how many fetches an
effect starts: choosing an environment after a stream event starts two in the
list. `ServeWrite` and `ReadBack` are the PATCH route before and after its audit
entry. `WriteTimesOut` is the proxy's 10 s limit: the client is told of a failure
while `late` keeps the write, which `LateWrite` may still store. A rule is its
tree and a tree a model value. Three variables are there for the properties only:
`publishedAt`; `crossed`, that answers may have crossed or one was lost since the
last read that was alone; `foreign`, that somebody else wrote since then.
`updatedAt` counts the writes of one environment, where the column is the flag's;
no code of the console compares it.

**RuleEditor.** `RuleBuilder.tsx` as operators: `Paths` and `NodeAt` are how the
component renders itself, `replaceAt` and `removeAt` the two edits,
`ConditionEdits`, `SegmentEdits` and `GroupEdits` what the controls of a node can
make of it, `Edited` all trees one use of a control away. `Rulesets` takes its
`SaveTree` from it: the flag screen's save, a rule list of one.

**RuleTrees, Rulesets.** The pure functions of the core package as operators
with the source's names, over trees as nested records. A context's attributes
are typed values, and its bucket is an input. Edits build up rows; every
property is about what `compileRuleset` makes of them. These and `RuleEditor` use
RECURSIVE operators and are for TLC only. What does not look into a tree is in
the five modules below, written with recursive functions, so that theorems can be
proved about it; `Rulesets` gives them what it reads from the trees: which rule of
a flag matches (`matchedRules`), which segments are server-only and what each
refers to (`safeSegmentsOf`).

**Bucketing.** The walk of a rollout and its validation: a running total is a
recursive function, and the walk's answer the first slice whose total exceeds the
bucket. `ServedBuckets` and `DeclaredWeight` are the two sides of `RolloutShares`.

**Prerequisites.** `findPrerequisiteCycle`. The code's marks are two sets: `path`
holds the flags marked 'visiting', `done` those marked 'done'. `visit` is one call,
`visitAll` a loop of calls that stops at the first that finds a cycle, and
`Visits` the recursion, over ever larger paths. `HasCycle` says what is searched
for: flags each of which requires one of them.

**Evaluation.** `evaluateInternal`, with `seen` the flags being evaluated:
`Evaluations` is the recursion, `serveFlag` what follows once the prerequisites
hold. The position of the first rule that matches is an input. `validVariations`
is what `validateFlag` asks of a flag apart from its trees. `EvaluatesWell` is what
callers rely on.

**SegmentSafety.** `clientSafeSegments`: `sweep` is one pass, which adds to the
set as it goes, and passes are made until one adds nothing.

**FlagRows.** The variable `flagRows` with the properties that need no trees,
`CyclesAreFound` and `RolloutShares`; `Rulesets` adds segments, trees and edits.

**Faulty variants.** Definitions commented as faulty variants (`SendFullSkips`,
`StaleNever`, ...) are what a plausible mistake would turn the definition after
them into. No specification uses them; `PROJECT.json` says which property fails
with each.

## 3. Runs

| Run | Bounds | Shows |
|---|---|---|
| `dataplane` (`MCDataPlane.cfg`) | 1 environment, 2 publishers, 3 versions, history 1, 2 slots, 2 shards, channel 1, 1 client, 1 break, reload or refused connect | `NoGap`, `ImplementsFeed`: no update lost, no way back. `NoOrphan`, `RegisteredAreOpen`, `Accounting`: the registry. `ResumeComplete`: the store. |
| `dataplane_live` (`MCDataPlaneLive.cfg`) | as above with 2 versions, history 2, 1 publisher, 1 shard, shutdown at any time | `Converges`: a client comes to hold the current version, unless a connect of its is refused. `NoOrphan` and `Accounting` with `CloseAll` interleaved. `HistoryOrdered`, with a history long enough to have an order. |
| `broadcast` (`MCBroadcast.cfg`) | 2 environments, 2 publishers, 2 versions, 1 slot, 1 shard, 1 client, 1 switch, break or refused connect | `CursorInEnvironment` and `ImplementsFeed` across a switch of environment: nothing of the old environment is left in the hook's version or the event id, and no client is sent another environment's ruleset. `BroadcastCompletes` with no fairness for subscribers. |
| `platform` (`MCPlatform.cfg`) | 1 flag, 2 concurrent requests, 2 edits (the second makes the ruleset invalid), 2 publishes, 1 fault | `VersionsAreSnapshots`, `SnapshotsInOrder`, `ServedIsAudited`, `NeverRollsBack`, `PublishedIsServed` |
| `exposures` (`MCExposures.cfg`) | 1 SDK, 5 records, queue 3, batch 2, server limit 2, writer bound 2, event 2 malformed | `EveryEventCounted`, `SentIsTaken`, `AtMostOneCopy`, `WriterAccounting`, `Settles` |
| `rulesets` (`MCRulesets.cfg`) | 3 flags, 2 segments, 10 trees, 15 rules, 7 contexts, bucket space 3, 3 edits, nesting limit 1, compiler's depth 2 | `EvaluationNeverErrs` (for both payloads: no error, and a flag's prerequisites fail it exactly when one of them, evaluated by itself, serves another variation), `NoLeak`, `ClientMatchesServer`, `CyclesAreFound`, `RolloutShares`; `EditsAreLocal` and `EditsStayValid` for every edit of every tree reached |
| `console` (`MCConsole.cfg`) | 2 environments, others write to one, 2 reads in flight, 2 writes, 2 trees, 1 failed request | `ShowsStored`: what is shown once answers are in. `LiveView`: the list catches up with the publishes it hears of, unless fetches cross. `ScreenFrees`: controls come back. |
| `shutdown`, `flag_edit`, `exposures_close`, `exposures_delivery`, `visibility` | smallest that shows it | section 4 |

Why the bounds are enough to be interesting. With a history of one snapshot and
three versions a client can be current, exactly at the edge of the history, and
beyond it. With channels of one place a second broadcast finds a full channel and
evicts. Two stream slots and one client let a client's new connection coexist with
the handler of its broken one, which is where removal by id and slot reuse could go
wrong; two clients add nothing to this, as clients do not interact but through the
slots and the hub. Two shards let a broadcast or a sweep be in one while a
subscriber registers in the other. Two publishers give broadcasts that overtake each
other. `broadcast` has one slot, so its new stream connects when the handler of the
old one has returned; with two, a switch and liveness the instance is out of reach,
and that a stream left behind sends nothing to the new one's client is covered by
`FeedProofs`. On the platform, two requests are what two transactions need to
conflict, and one fault can be put between any two steps. In `exposures`, the queue
can hold more than the server takes in one batch, so that refusal for size happens,
and the writer's bound is reached by one batch; buffers of different SDKs share
nothing but that bound, so one is enough. In `rulesets`, three edits reach every
two-flag cycle, two flags that share a prerequisite, and a rule over a segment over
a segment; flags are interchangeable, hence the symmetry. The editor's limit and the
compiler's are 8 and 32 in the code and one apart here, the closest at which the
editor's rule is enough; trees at, below and beyond both limits are in the menu of
trees that can be stored. In `console`, two reads in flight are what it takes for
answers to cross, two writes for a write of somebody else, or a late one, to meet a
write of the screen, and one fault can strike any request; an environment of one's
own and one that is shared, because only others can make a screen stale. Symmetry is
used in no run that checks liveness; the refinement in `dataplane` is a safety
property.

Deadlock checking is off because every bounded model stops when its bounds are
used up, and the real system idles.

## 4. Where the code and its statements disagree

Each is a run in which TLC finds the statement violated; `PROJECT.json` quotes
the statement.

* `shutdown` / `ShutdownDrains`: a stream that registers behind the `CloseAll`
  sweep, or after it while the listener is open, is never closed; `Shutdown`
  waits for it until its deadline.
* `flag_edit` / `AuditTellsWhatItWas`: two edits of one flag at once; the audit
  entry of the second names a previous value that was no longer there, and the
  first edit is undone.
* `exposures_close` / `CloseFlushes`: `close` during a flush leaves what was
  queued since then.
* `visibility` / `NeverMoreIncluded`: dropping a server-only rule that serves
  the off variation lets a later rule turn the flag on for a client.
* `exposures_delivery` / `AtLeastOnce`: "at-least-once delivery means the server
  will see repeats" (`exposure.ts:26`, and likewise `exposure.ts:148`,
  `001_exposures.sql:37` and `:52`, the repository's `README.md:146` and
  `docs/DESIGN-DECISIONS.md:187`, which has SDK retries inflate the hourly
  rollup). `flush` discards a batch whose send failed, and a test says so
  (`exposure.test.ts:134`): delivery is at most once, and what a lost request or a
  refusal carried is gone. The run shows an event that is neither queued nor on
  its way and was never taken; `AtMostOneCopy` is the other half, that no repeat
  ever comes. A 202 is no promise either: the writer answers before it inserts and
  drops what fails to (`AtLeastOnce` asks only that the event was taken).

Met while modelling, without a run of their own:

* The id counter of the data plane is not synchronised (`api.go:69`), so two
  streams may draw one id within one clock reading and the second replaces the
  first in its shard's map. `IdMayBe` has the step; the runs and proofs exclude
  it with `CoarseClock = FALSE`, and section 6 says where that is used.
* A lost push is never made up: `server.ts:214` and the flag list's note say
  that somebody polls, and no code does. `PublishedIsServed` therefore excepts
  faults.
* A change made in the rule editor while a save is in flight is marked 'Saved'
  when the answer comes, though it was not sent (`FlagDetailView.tsx:101`).
* Saving replaces the flag's rule list by a list of one (`SaveTree`).
* The editor calls a NOT group 'NONE of' (`RuleBuilder.tsx:194`), and the evaluator
  negates the conjunction of its children (`evaluate.ts:107`): with two children
  of which one holds, the group holds. Number operators compare numbers, and the
  editor stores a typed number as text (`RuleBuilder.tsx:296`).
* "Refetching on the stream event is what makes this a live view"
  (`FlagList.tsx:65`): two fetches under way may be answered in either order and
  the earlier answer, applied last, stays until the next event; a push that is
  lost, or a stream answered with a 502, brings no event at all. `LiveView`
  excepts the first and starts from an event heard.

## 5. Fairness

* `PublisherFairness`: weak fairness of each broadcast step. A goroutine that
  holds no lock another one keeps is eventually scheduled; sends do not block.
* `StreamFairness`: handlers run, their writes complete or the connection
  breaks, and a browser whose EventSource lost its connection reconnects.
  A connect refused for a passing reason is never required and not made up for:
  `Converges` excepts its client, as an EventSource answered with a 502 gives up.
* `ShutdownFairness`: the main goroutine goes on once it has the signal.
* `PlatformFairness`: handlers of the control plane and pushes in transit make
  progress; losing a push, failing and crashing are never required.
* `ExposuresFairness`: the interval timer keeps firing and a send that is not
  answered is ended by its timeout. Nothing is assumed of the server.
* `FairConsoleSpec`: each request is answered, by the control plane or by the
  proxy's time-out (`proxy.ts:37`). Nothing makes the stream announce a publish.
  A write whose client was told it failed may never happen. A request to the proxy
  itself that is never answered, for which `lib/api.ts` sets no limit, is left out:
  it would leave the controls disabled for ever.

No fairness is assumed of users: publishing, editing, recording, disconnecting,
switching environment, faults or shutdown.

## 6. Proofs

The theorems hold for all environments, versions, history sizes, shard counts,
buffer sizes, publishers, streams, clients, SDKs and bucket spaces, finite or
not where they are sets (flags and segments are finite); the constants'
assumptions are in the modules that declare them.

* `SnapshotStoreProofs`: `HistoryIsOrdered` and `ResumeIsComplete`, from the
  inductive invariant `StoreInv`: the type, `HistoryOrdered`, and that every
  accepted version is retained or older than all that is. The last part is what
  makes `Resume`'s comparison with the oldest retained version sound; order
  alone does not give it.
* `DataPlaneProofs`: `TypeCorrect`, one step per action.
* `DeliveryProofs`: `NoUpdateIsLost` (`NoGap`), `RegistryIsSound` (`StreamInv`)
  and `ResumeMissesNothing`. `NoGap` is not inductive: that the hub owes a
  stream a version is only preserved when the registry, the channels and the
  handlers' phases agree. `DeliveryInv` adds `TypeOK`, `StoreInv` and
  `StreamInv`, whose parts say: a handler in its loop is registered, closed, or
  about to be closed by an evictor; what is registered is open; ids of live
  streams differ; a broadcast still has the subscribers it has not visited
  ahead of it; a cursor is behind what was published. It repeats properties of the
  runs among its parts and is an invariant for the proof only. `NobodyIsOrphaned`
  and `OnlyOpenAreRegistered` single out the parts that are guarantees by
  themselves. `GaugeIsExact` (`Accounting`) counts: `GaugeInv` says
  that the gauge and the streams not yet counted add up to the entries of the
  registry, and that both sets are finite, which is an invariant and no
  assumption, as one step adds one member. It rests on the registry being sound:
  `Subscribe` overwrites no entry because ids of live streams differ, and
  whoever subtracts one has removed one. All but `ResumeMissesNothing` assume
  `ClockAssumption`, that the clock tells subscriber ids apart: without it the
  registry is unsound. Each action is a lemma, with one step per conjunct it can
  disturb.
* `FeedProofs`: `DataPlaneImplementsFeed` (`ImplementsFeed`), the refinement of
  `RulesetFeed`. Initial states map to initial states, and each action to a
  publish, one client's advance, a switch or nothing. `CarriedInv` is what this
  needs beyond `DeliveryInv`: a frame moves one client only because no two
  clients share a connection (`ConnectionsDistinct`), and it moves it to a
  published version because every version in a channel, a broadcast or a replay
  was accepted in the environment of its stream (`QueuedAreAccepted`,
  `BroadcastsAreAccepted`, `ReplaysAreAccepted`). That it never moves back is
  `Emit`'s guard. `CursorsAreOfTheirEnvironment` (`CursorInEnvironment`): what the
  hook shows and what the browser resends are versions of the environment the
  client watches now, or none, and at most its current one. A client left with a
  cursor of another environment would ignore updates as old, or have them skipped
  by the server. It is the same invariant at work: a frame of an environment only
  reaches clients that watch it, and a switch starts from nothing.
* `PlatformProofs`: `PlatformTypeCorrect`; `PublishingIsSound` and from it
  `VersionsHaveNoGap`, `VersionsAreInOrder` and `OnlyAuditedIsServed`; and the
  action property `PushesNeverRollBack`. The three guarantees are not inductive by
  themselves. `PublishInv`, for the proof only, adds why they hold: a publish
  between its UPDATE and its COMMIT holds the row and will take the number after the
  last (`HoldersTakeNext`), it compiles from configurations no committed snapshot is
  ahead of (`LoadedIsLatest`), and from COMMIT on its version, and every push in
  transit, is committed and, once past the audit entry, audited (`CommittedIsKept`).
  All steps in which no request moves within a publish are one lemma, `QuietStep`.
* `ExposuresProofs`: `EventsAreCountedOnce` (`EveryEventCounted`), `SentWasTaken`
  (`SentIsTaken`) and `NothingIsInsertedTwice` (`AtMostOneCopy`), from
  `PipelineIsSound`. `AtMostOneCopy` speaks of the server's side and rests on the
  buffer's: a flush adds a request, and it is disjoint from every other only
  because whatever is on its way, being inserted or stored has left its queue for
  good. `ExposureInv` says so (`PostInv`, `TakenInv`, over the events `Gone` from
  the queues), with a request's events being its own buffer's, and an answer of
  202 being about events that were taken (`OkInv`), which is what `SentIsTaken`
  needs when the answer arrives. `BooksBalance` (`WriterAccounting`) adds the
  writer's counters: `BooksInv` relates them to the inserts under way, whose rows
  are counted as one set. Adding an insert adds its size to the count because
  inserts are disjoint, which is `AtMostOneCopy` again. `ExposuresTypeCorrect`
  comes last, as a counter is a natural only because the books balance.
* `ConsoleProofs`: `ConsoleTypeCorrect`, and `ConsoleShowsStored`. `ShowsStored`
  speaks of a screen at rest and is not inductive. `TypeInv` adds to the type that a
  toggle remembers the flag it was clicked on; `FlowInv` says that the controls are
  disabled exactly while a write is in flight, that without a crossing there is at
  most one request whose answer matters, for the selected environment, and that a
  save on its way carries the editor's tree; `ViewInv` says of each request in
  flight what its answer will make of the screen: an answered read carries what is
  stored, a toggle on its way has the stored flag to go back to and a stored one is
  already shown, a stored save has the editor's tree. The three are proved one upon
  the other, each with frame lemmas for the steps that leave its variables alone.
  They were found, and first checked, with TLC on the instance of `console`.

* `RulesetProofs`, about the algorithms behind a ruleset. They are functions, so
  the theorems are about all inputs and not about the states of one
  specification; `CyclesAreAlwaysFound` and `RolloutSharesAreExact` say
  `FlagRowsTypeOK => P` for the run's property `P`, in every well-formed state of
  the rows, and `rulesets` checks `FlagRowsTypeOK` as a part of `RulesetsTypeOK`.
  * *Induction.* The library's induction theorems take operators, so the module
    has its own about sets: `LeastNumber`, from the well-foundedness of strict
    inclusion on finite sets, and from it `CountingUp`; `SupersetInduction`, from
    the supersets of a set to the set, by the number of members left out; and
    `LoopRecursion` and `SupersetRecursion`, that a function defined by its
    previous value, or by its values on supersets, exists. With these each
    recursive definition is shown to describe a function (`TotalExists`,
    `VisitAllLoops`, `VisitsDefined`, `EvaluationsDefined`, `SweepLoops`,
    `SettleDefined`), without which nothing follows from it.
  * *Rollouts.* `EveryBucketIsServed`, `RolloutIsFair`, `RolloutSharesAreExact`
    and `RaisingIsAdditive`. Cumulative weights grow slice by slice
    (`CumulativeGrows`), so the walk serves slice `i` exactly from the total
    before it up to the total with it (`SliceOwnsItsBuckets`), and those intervals
    cover the space (`BucketHasSlice`). `RaisingIsAdditive` is the promise in
    `bucketing.ts` that raising a rollout moves nobody already inside.
  * *Prerequisite cycles.* `CycleSearchIsExact`, and `CyclesAreAlwaysFound`
    (`CyclesAreFound`). The invariant of the search is in `Answers`: what is
    'done' is closed under requirements, holds no cycle and is disjoint from the
    path (`Cleared`), and each flag on the path requires one on it or the flag
    visited next (`LeadsTo`). So reaching the path closes a cycle, and a flag
    whose requirements are done can be added to them without making one
    (`ClearsNext`).
  * *Evaluation.* `PublishedFlagsAreServed` needs one unfolding of the recursion
    and `EveryBucketIsServed`. `PrerequisitesMeanWhatTheyServe` is harder: a
    prerequisite is evaluated with the flags above it in `seen`, which would cut a
    cycle short, and is compared with its evaluation by itself. Without a cycle
    some closed set holds all a flag requires and not the flag
    (`RequiredApart`), and a flag evaluates the same whatever is in `seen`, as
    long as a closed set around the flag avoids it (`EvaluationUnchanged`, by
    induction along the requirements). `PublishedFlagsEvaluateWell` puts the two
    together; it is `EvaluatesWell`, which `EvaluationNeverErrs` checks of the
    payloads of the model. Its hypotheses are what `compileRuleset` has checked
    (`AllValid`, no cycle found) and types (`HasPrerequisites`, `AllServable`).
  * *Segments.* `ClientSafeSegmentsAreExact`: a segment is held back if and only
    if it is among some segments each of which is server-only, names an unknown
    segment or refers to one of them (`Tainted`). `Sound` is the invariant of the
    passes; a pass that adds nothing has nothing left to add (`SweepWorks`).

## 7. Only model-checked

* Liveness (`Converges`, `BroadcastCompletes`, `PublishedIsServed`, `Settles`,
  `LiveView`, `ScreenFrees`).
* What depends on rule trees (`RulesetsTypeOK`, `EvaluationNeverErrs`, `NoLeak`,
  `ClientMatchesServer`, `EditsAreLocal`, `EditsStayValid`): trees are walked by
  RECURSIVE operators, about which the prover can show nothing. What evaluation and
  filtering do with the answers of those walks is proved in `RulesetProofs`; that
  the position of the first match is a position of the rule list, and what
  `matchNode`, `containsServerOnly` and `referencedSegments` answer, is checked by
  TLC.

## 8. Plan

Done: the data plane with its proofs, down to the refinement of `RulesetFeed`;
the control plane and the platform with theirs; the exposure pipeline with its
proofs; rulesets, with proofs about rollouts, prerequisites, evaluation and segment
filtering; the rule editor; the console's flag screens with their proofs.

Next: the SDK client's `applySnapshot` guard as a second kind of client.

## 9. Not modelled

Murmur hashing (arithmetic checked by vectors), experiment statistics (floating
point), experiment queries (SQL text), API keys (cryptography), migrations, the
console's experiment, audit and playground pages (they only read), the Go and Java
ports of bucketing, the load generator and deployment files. Within modelled
components: read-only routes, the publish token and key comparisons, logging,
keep-alive comments, status text in the console, its preview, its tenant menu (which
chooses whose environments and flags are fetched and written; one tenant is
modelled), the text a value field keeps while typing, several tenants, the bounded
pool of database connections. `NeverRollsBack` excepts a restart of the data plane,
whose store is in memory: after one, a delayed push of an old version is accepted.
The environment-key scope of the data plane across tenants is listed under hazards
and not modelled.
