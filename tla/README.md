# TLA+ model of go-gedung-peristiwa

This directory holds a TLA+ verification development for the live transit demo
of this repository (`cmd/demo`, `internal/demo`, `internal/gtfs`,
`internal/web/demo`) and for the FinTech simulation it grew from
(`cmd/simulate`, `internal/simulation`, `internal/eventgen`, `internal/web`),
with the parts of `internal/pipeline` both use. Each module
is written from the Go source; `PROJECT.json` maps every definition to the lines
it stands for.

    tlc -workers 2 -config MCPollNotify.cfg MCPollNotify     # one run
    tlapm PollNotify_proofs.tla                              # one set of proofs

## 1. Inventory

### The system

One process serves a map. A **poll loop** downloads vehicle positions from an
open API region by region, writes them to one **IsleDB** prefix per agency
(an LSM store on an object store) and keeps the newest position per vehicle in
memory. **Browsers** hold an SSE stream each; the loop wakes them after every
poll. A **session store** remembers which region a browser looks at, and decides
with its live counts which regions the loop polls for. In Kubernetes two
processes overlap during a rollout and fence each other through the store.

| component | state | operations | interacts through |
|---|---|---|---|
| live notification (`Pipeline.NotifyPoll`, `SubscribePolls`, `handleVehicleStream`) | `pollSubs`, one buffered channel per stream, `vehicleSeen` | subscribe, announce, push, unsubscribe, close | channels, `notifyMu`, request contexts |
| write path (`Pipeline`, `WriteHealth`, `runPoll`, `/healthz`) | writers, buffers, `vehicleSeen`, failure count; in the store: owner and committed data per prefix | open, hydrate, put, flush, close, restart | the object store, the liveness probe |
| poll scheduling (`PollCoordinator`, `pollLoop`) | `lastPoll`, ticker, `pollNow` | scheduled poll, poll after a region switch, mark as polled | session store, `pollNow` channel |
| sessions (`SessionStore`, `withSession`, `postRegion`, `postPollInterval`) | selection and last report per session, live counts, a JSON file | touch, select, acquire/release, prune, save, load | every HTTP request, the poll loop |
| GTFS poller (`internal/gtfs/poller.go`) | attempt and delay per feed | fetch, back off, parse | called by the poll loop |
| live views, ingest ring | `vehicleSeen`, ring of 10 records | record, filter by freshness, restore at start | read by streams |
| replay (`RunReplay`, `CatalogForRegion`, `handleReplayStream`) | drained mutations, frames, merged positions | catalogue, drain, fold, stream | the change feeds, beside writers and retention |
| scripts of the two pages (`render.go`, `replay_render.go`) | region, stream, markers, last frame | load, switch region, reconnect, draw; play, stop, resume | `/api/region`, SSE streams; the session is shared between tabs |
| prefix life cycle (`internal/pipeline/db.go`) | handles of one prefix | open, close, maintain | IsleDB |
| change feed, tenants, verification | cursor, counters | read pages, compare keys | IsleDB |
| event simulation and its dashboard | generator state, phase | run, verify, show | change feed |
| generated Cloudflare worker | claims and rows in a database | claim, fetch, ingest | text produced by `internal/codexsites` |

What is hard in it: goroutines that race with the teardown of a request; a
channel that drops values; ownership of a prefix that changes hands without a
message; writes that fail half-way; crashes between buffering and committing;
a Close that runs beside the poll loop; regions competing for one fetch per
tick; sessions that are pruned by whoever looks; state that is in memory, in a
file, or in both. The list with lines is `hazards` in `PROJECT.json`.

What makes each component correct:

* notification: no connected stream stays behind an announced poll; nothing of
  a finished request stays behind; announcing never harms the process;
* write path: a poll reported complete is durable; the live map of the owner is
  not behind the store; a pod that lost its writers for good is replaced;
* scheduling: the upstream is not asked more often than it refreshes; no watched
  region starves;
* sessions: a connected viewer's region is polled for; a selection is kept as
  long as promised; the live counts are exact; silent sessions go;
* poller: bounded retries and pauses; a cycle marked as polled is committed; the
  live views are exact, also after a restart;
* replay: everything committed when it was asked for, once per vehicle and in
  order, also when resumed;
* pages: a tab shows the vehicles of the region it names;
* prefix life cycle: every handle that was opened is closed
  on every path; simulation: the verifier accepts exactly complete runs.

### Plan

1. `PollNotify` with the abstract `LiveMap`, refinement, proofs. *Done.*
2. `WriterFencing`, liveness after a bad rollout, proofs. *Done.*
3. `PollCoordinator`: floor and starvation, proof of the floor. *Done.*
4. `SessionStore`: expiry, persistence, live counts, proofs. *Done.*
5. `Simulation`: the FinTech run with the life cycle of its prefixes, its
   verification and the dashboard, proofs. *Done.*
6. `GtfsPoll`: retry loop, poll cycle, live views and ring, proofs. *Done.*
7. `Replay`, `ReplayPlayer`: draining the feeds while they change, frames,
   catalogue, the page that plays them, proofs. *Done.*
8. `LivePage`, `Pages`: the live map's script, both pages in one session, and
   that each page is implemented by the composition, proofs. *Done.*

## 2. Modules

### LiveMap, PollNotify

`PollNotify` models one process. `version` counts the changes of `vehicleSeen`;
`published` is its value when `NotifyPoll` last copied `pollSubs`. The poll loop
goes `select` -> `write` (`Ingest` is one iteration of `Write` that changes
`vehicleSeen`) -> `notify` (`CopySubs` under `notifyMu`, then one `Send` per
channel without it) -> `select`. A stream's handler goes `new` -> `push`
(`Subscribe`) -> `write` (`Snapshot` reads the positions) -> `select` (`Pushed`),
back to `push` on `Receive`, and to `returned`. The subscription's goroutine goes
`waiting` -> `removed` (`Unsubscribe`, under `notifyMu`) -> `exited`
(`CloseChan`). `Send` on a closed channel panics: `process` becomes `panicked`
and nothing moves any more. A member of `Streams` is one request.

`LiveMap` is the promise without channels: polls are ingested and published, a
connected stream shows snapshots, and while the process is up it does not stay
behind what was published. Under the mapping of `PollNotify` (a stream is
connected from its subscription until its handler returns) `PollNotify`
implements it.

Left out: the heartbeat case (see `SessionStore`), the contents of a snapshot.

### WriterFencing

Every pod runs one process, `down` -> `opening` -> `hydrating` -> `running` ->
`closing` -> `down`. `OpenAgency` takes the prefix (`owner`) from whoever had it.
`mem` is a writer's buffer, `durable` what is committed, `seen` the timestamp in
`vehicleSeen`. `runPoll` is `StartPoll`, then per position `Put` and `Apply` (two
steps: a background flush fits in between), `StartFlush`, per agency `Flush`,
`FlushFails` or `RefreshFails`, and `PollSucceeds`. `PollFails` is the common
error path: `RecordFailure`, `stopIfWriterDead`, early return. `Close` runs
agency by agency while a poll may be under way.

External parts, from how the code uses them: an IsleDB writer that lost its
prefix goes on buffering, finds out when it has to commit something, and then
fails every flush with a non-terminal error (`fencing_test.go`); a background
flush commits, discovers the fencing or fails the writer for good; Kubernetes
creates and deletes pods, restarts containers and terminates a process that was
deleted or whose `/healthz` fails. One vehicle per agency: vehicles do not
interact. Timestamps equal to the stored one are not newer, as in the code.

### PollCoordinator

Time passes in units, of 5 s or 10 s in the instances; the code between two
events takes none. A fetch, of all feeds of a region in turn with their retries,
takes `MinFetch` units or any larger number: nothing bounds its duration.
`lastPoll` is kept as its keys `polled`, the age of each mark, counted up to
`MaxAge`, beyond every threshold, and the order of the marks (`later[r]`, the
regions marked after `r`), which stays exact however old they are. `Scheduled` and `ForRegion` are the two ways from `pollLoop`'s select
into `runPoll`; `PollDone` is `MarkPolled`, `PollFails` the early return without
it. The sessions are an environment: `asked[r]` is what
`MinPollIntervalForRegion` answers, 0 standing for a region nobody watches, and
one call may change it for two regions; `onRegionChange` is the non-blocking
send to `pollNow`. `PollHistory` adds when each region was last fetched and
whether the write failed, for the floor; kept apart, these do not multiply the
states of the liveness run. Left out: the end of the loop at shutdown.

### SessionStore

The unit of time is the heartbeat interval. `sessions` and `file` are functions
on the known sessions, like the Go map and its JSON. Every method is one step,
its pruning and saving included; saving succeeds or leaves the file as it was
(temporary file and rename). A request passes `withSession` (`Request`, which
touches) and then is a stream (`AcquireLive` ... `ReleaseLive`), a POST
(`PostRegion`, `PostPollInterval`, `BadBody`), or nothing but a query. A stream
reports on heartbeats and polls unless it is `stalled` in a write. `Restart`
loads the file. `idle`, `chosen`, `picked` and `saved` are history for the
properties. Left out: the old file format (such entries have no `lastSeen` and
are dropped on load), unknown regions.

### Simulation

A member of `Runs` is one call of `simulation.Run`, in a process of its own
(`StartCLI`) or in the goroutine of the dev dashboard (`StartDashboard`, guarded
by `running`). Its `phase` follows the function from top to bottom: `generate`
(one `Emit` per iteration of `eventgen.Run`), `open` (one `OpenHandle` per call
of `OpenPrefixDB`; on an error `Cleanup` and `abort`, in which `New` closes the
other tenants), `write`, `flush`, `compact`, `verify`, and `close`, the deferred
`Close`. `CountKeys` only reads, so it is part of the phases around it. A run's
step fails because it must (`Refused`: fenced, failed, other keys than expected)
or by itself (`faulted`). `handles` is what is open, background maintenance
(`loop`) included. The store is external: ownership of writer and maintenance go
to who opened last, a commit adds keys and lengthens the change feed, compaction
keeps the set of keys. A tenant's `Close` is one step: its closers run in turn
whatever the ones before returned (db.go:233-272). A memory run has a store of its own. Keys stand for
tenant, type and idempotency key; the order in which an iterator returns them is
IsleDB's and `verifyKeyOrder` is left out, as are pacing and payloads.

### GtfsPoll

One process and its poll cycles. `phase` follows `runPoll`: `fetch` (one attempt
at one feed of `PollSequential`), `wait` (the pause after a 429), `write` (one
`Put` per position, then `FlushAll`), `idle`. A request ends in `Fetched`,
`FetchFails` (request, status, body, parsing, cancelled context) or
`RateLimited`. Durations are signed integers of a fixed width, as in Go, so
`Wrap` is what the multiplication in `retryAfterDuration` does. Time goes by
only in `Tick`; a pause may last any time. `parseFeedMessage` keeps what it does
to a message: entities it skips, the present time where a timestamp is missing.
`vehicleSeen` has timestamps only, `ingestBuf` is the ring, and `LivePositionsFor`
and `RecentIngest` are the reads. `Restart` ends the process anywhere and starts
one that hydrates: `bootstrapLatest` groups by the identifier it reads from the
key, which ends at the first colon (`KeyID`), and stores under the one in the
value. `WriterFencing` has the same write path with several processes and
failing writers, and splits what is one step here, the `Put` of a position and
the update of the live views; here one process owns the store and the data are
richer.
`found`, `header`, `ingested` and `restored` are history.

### Replay, ReplayPlayer

`feed[a]` is the change feed of one prefix, `oldest[a]` how much retention has
removed. `stream` is the one replay request being served: `drain` (agency by
agency: `NextFeed`, one page per `ReadPage`), `Build` (sort and group into
seconds), `fold` (frames before `from`), `play` (`SendVehicles`,
`SendProgress`). `stream.frames` is the set of the seconds still to come; the
sort of `buildReplayFrames` makes the least of them the next one. The sort compares seconds, agencies and vehicles, so of two
positions of a vehicle in one second either may come last (`Merges`). A drain
fails at any call, and must fail when retention has overtaken its cursor.
`catalog` is a catalogue request, with the same way of reading.
Left out: changes other than puts and values that cannot be parsed (the demo
writes neither), the pace.

`ReplayPlayer` adds the page: its buttons, the `EventSource` (there exactly
while the stream is the page's), the events, and `switchRegion`, whose choice
counts at once while the rest waits for the answer. Left out: the vehicle
selected by a click, what the page draws from the catalogue.

### LivePage, Pages

`LivePage` is a tab with the live map. A request to `/api/region` is served at
some time (`GetServed`, `PostStored` and then `PostServed`: storing a region and
reading the session back are two critical sections) and its answer arrives at
some later time, in any order. The stream is `connecting`, `served` (the server
has read the session's agencies), `open`. A vehicle list is drawn chunk by
chunk, all lists under way in every animation frame, the oldest first (`Drawn`,
`Remaining`). `mishap` and `settled` are
history: they mark the cases excluded from `PageAgrees` and `MapIsLatest`.

`Pages` composes it with `ReplayPlayer`: two tabs of one browser with one
session. A switch answered in the replay tab is the live map's `Elsewhere`.

Definitions introduced by "Mutation of" are deliberately wrong variants of the
definition that follows them. No specification uses them; putting one in place
of its original must violate the property named for it in `PROJECT.json`.

## 3. Runs

| run | shows |
|---|---|
| `notify` | `NoMissedPoll`, `SubscribedIsOpen`, the inductive invariant, `SubscriptionReleased` and the refinement of `LiveMap`, with 2 streams and 2 updates |
| `notify_panic` | violation: a disconnect between the copy of `pollSubs` and the send ends in a send on a closed channel |
| `writer_fencing` | `CompletePollIsDurable`, `OwnerSeesDurable` and the inductive invariant, 2 pods, 1 agency, 2 timestamps, 3 starts, 2 polls |
| `writer_replaced` | with 2 agencies, liveness: a pod with viewers in some region does not keep an unusable writer |
| `rollback_recovers` | liveness: after a rollback the surviving pod owns all prefixes again |
| `poll_floor` | `FloorUnlessFailed`: the 30 s floor except right after a failed write, 2 regions, arbitrary sessions and switches |
| `poll_again` | `PolledAgain`, liveness: a watched region that has been polled once is fetched again and again, with fetches of any length, failing writes, arbitrary sessions and switches, 3 regions |
| `poll_seven_regions` | violation: the seventh watched region is never fetched, although every fetch takes 5 s only |
| `sessions` | connected viewers stay polled for; selections are kept and survive a restart; the file is current; live counts are exact with two tabs; silent sessions are cleared |
| `gtfs_poll` | `PolledIsCommitted`, `RateLimitRespected`, `LiveIsNewest`, `RingIsRecent`, `LiveSurvivesRestart`, and liveness: `CycleEnds`; 2 feeds, 2 vehicles, 2 cycles, 1 restart |
| `pages` | the inductive invariants of both tabs (`PagesIInv`); replay: `DrainIsComplete`, `FrameIsExact`, `NoFrameSkipped`, `CatalogIsExact`, `RegionShown`; live map: `PageAgrees`, `MapIsLatest`; both tabs in one session |
| `simulation` | `NothingLeaked`, `OKIsExact`, `CleanRunPasses` and `DashboardFrees`: two runs on the same prefixes, overlapping or in turn, 2 tenants, one failing call |

### Bounds, and why they are enough

* `notify`: two streams let one be torn down while the other is sent to; two
  updates let an announced one and a later one differ. The theorems remove both.
* `writer_*`: two pods are what a rollout overlaps; two agencies are needed for
  a `FlushAll` that fails half-way (`writer_replaced`), two timestamps for a stale position, three
  starts for a pod that is fenced and comes back. The theorems remove the bounds
  for safety.
* `rollback_*`: `Bad` opens writers and never gets ready, as in
  `fencing_test.go`. `MaxPods` bounds pods ever created, `MaxFaults` crashes and
  failed starts of `Good`. With two agencies `GoodRecovers` is out of TLC's
  reach; agencies recover independently once the process is restarted.
* `poll_floor`, `poll_seven_regions`: 5 s is half a tick, so a fetch can end
  between two ticks. `MaxAge` is twice the floor, the largest age anything is
  compared with. `poll_floor` needs two regions, since a region's floor depends
  on others only through the loop being busy.
* `poll_again`: the unit is 10 s, one tick, and a fetch may end within it or last
  any number of them. With ages counted up to 60 s a fetch that lasts longer is
  like one of 60 s, so no duration is left out. Klang Valley and two regions of
  the last class let two promoted regions and the one of the first class compete
  for the fetch, with switches to each of them taken or dropped. All intervals a
  session can choose are raised to the floor, so one is enough. The property
  holds with Penang in place of a region of the last class too
  (`Regions = {1, 2, 3}`), and fails for Penang itself.
* `sessions`: one session has two tabs and the other one; a `TTL` of 2 heartbeats
  lets a session report, fall silent and expire; one restart is enough, as everything in memory is rebuilt by it.

* `gtfs_poll`: two feeds let one fail or give up beside one that answers. A
  second has 4 units and a Duration is -64..63, so a `Retry-After` of 9 s is
  beyond `Backoff.Max` (3 s), and one of 20 s wraps around to a negative
  pause; three attempts have two pauses. `ingestCap` is 2 and a cycle writes
  up to four positions. The two vehicles have the same identifier up to the
  first colon; bodies have old, present, future and missing timestamps.
  `MCGtfsPoll` lets time pass between feeds and cycles only, and ends a process
  only where something is left behind.
* `pages`: two feeds in one region, three changes, pages of one change, so that
  a feed grows and is trimmed between pages; times in three seconds, two of them
  in one second; two streams, so that one is resumed or restarted; two
  switches of the replay page and two clicks on the live map, also of the same
  region twice before an answer (`posts` counts them).
  `MCPages` does not enumerate what cannot matter: a stream on its way to the
  first frame is not disturbed by the page, feeds change only while somebody
  reads them or before, the catalogue and other clients come alone, a page that switches its region
  finds two changes at most, and the live
  map, which shares nothing but the session with the replay, is open only while
  nothing is replayed. Of clicks, switches, reconnections, lists and forgotten
  sessions there are three in all (`MaxEvents`), with lists of up to two chunks;
  each of three regions may be chosen.
* `simulation`: two runs are what it takes to fence and to mix events; two
  tenants, to fail half-way through opening, flushing or closing; two emissions,
  for a retry or for events of both tenants. `MCSimulation` lets steps that only
  touch a run's own state go first.

Deadlock is checked where the system always can move; `PollNotify` may end with
every request returned or with a panic, the writer runs end when their budgets
of starts and polls are used up, `gtfs_poll` and `pages` when their budgets of
cycles and events are, and `simulation` when both runs have returned.

### Fairness

* `PollNotify`: `NotifyPoll` never blocks, a handler leaves a push (pushed or
  failed) and takes what its select offers, the watcher wakes on `ctx.Done`.
  Polls and disconnections are not promised.
* `WriterFencing`: the process and its kubelet go on (`ProcessFairness`), and
  viewers of some region (`SomePolls`) or of every region
  (`PollsOfEveryAgency`, strong fairness: positions of each agency keep coming
  and are reached by `Write`) keep the poll loop busy. Nothing is promised of the
  other pod.
* `PollCoordinator`: fetches end, written or not (requests by the client's
  timeout and the number of attempts, writes because the store client returns),
  and a waiting switch is taken: weak fairness. Ticks and switches compete in
  `pollLoop`'s select, which takes a ready channel at random, so a tick that
  waits is not passed over for ever: strong fairness of `Scheduled`. Time passes
  whatever the sessions do: strong fairness of `Advance`. In
  `poll_seven_regions` nobody switches, and weak fairness is enough.
* `SessionStore`: the poll loop's tick calls `LiveRegionIDs`, so somebody always
  looks (`Query`).

* `GtfsPoll`: the next step of a poll cycle is taken (`Cycle`): a request ends
  within the client's timeout of 30 s, a pause after its time, and writes and
  flushes return. Nothing is promised of what the upstream answers.

* `Simulation`: a run that was started goes on: every call returns. The calls of
  the run itself do so at the latest when its context ends. The deferred `Close`
  (run.go:95) has `context.Background()`, so there it is the store client that is
  assumed to return, and `DashboardFrees` rests on that.

### What the runs found

* `notify_panic`: `NotifyPoll` sends outside `notifyMu`, the subscription's
  goroutine closes outside it too. A browser that leaves in between brings the
  process down. All other properties of the notification hold up to that.
* `poll_seven_regions`: a region polled at one tick is due again four ticks
  later (its fetch ends after the tick), and one of the third class is promoted
  after seven. With seven watched regions the promoted ones, Klang Valley and
  Penang fill every tick and a region that was never polled, which is not
  promoted, waits for ever. Slower fetches make it worse: when each takes 15 s
  (`MinFetch` = 3), five watched regions are enough, and four when each takes
  30 s. A region that has been polled once does not starve however long the
  fetches are (`poll_again`).

Other remarks, visible in the models:

* Penang is never promoted (poll.go:135) and ranks below promoted regions: with
  slow fetches Klang Valley and one promoted region can keep it waiting, although
  "Klang Valley and Penang win when due" (poll.go:145-146). And a write that fails leaves the mark of its
  region as it was, so a promoted region whose writes keep failing stays the
  oldest one and is fetched on every tick, before all others. `PolledAgain` has
  both exceptions.

* `runPoll` marks a region as polled only after a successful write, so while
  writes fail every watched region is downloaded again each time it is chosen,
  down to every 10 s, although DEMO.md:459 says at most once per 30 s;
  `FloorUnlessFailed` has that exception.
* Reports of sessions only update memory (session.go:203). After a restart a
  session is judged by the time of its last selection and may be dropped although
  it has just reported; `SelectionKept` is therefore stated up to a restart and
  `SelectionSurvives` from the last saved selection.
* A `Retry-After` beyond the width of a Duration makes the pause shorter than
  asked for, possibly none. `RateLimitRespected` has the premise that it fits.
* The pauses without `Retry-After` end at 16 s: the last attempt does not sleep,
  so the cap of 30 s that the comment at poller.go:25-28 speaks of is not
  reached. `SetLastPoll` is called for cycles without any position, too.
* The catalogue's note (snapshots.go:71) says that playback goes in writer
  order; it goes by the seconds of the timestamps, and within a second a
  vehicle's older position may win. `FrameIsExact` says what does hold.
* `bootstrapLatest` loses one of two vehicles whose identifiers agree up to a
  colon until it is polled again, and the catalogue has no times for such
  vehicles.
* In the live map `PageAgrees` fails when the GET of a stream fails or its
  answer is overtaken, or when another tab switches between the stream and that
  GET; the next stream repairs it. When a long list is still being drawn while
  the next one arrives, `dropMissing` of the older one removes what only the
  newer one has; it comes back with the next list. `MapIsLatest` excludes this.
* In the replay page a refused switch leaves the new name above the old stream,
  and Reset, Stop and Resume before the first frame resume at the old place
  (replay_render.go:341). Answers of two catalogue requests may arrive in the
  wrong order (replay_render.go:223).
* A failed change of the poll interval restores the button from before, although
  a second change may have succeeded since (render.go:283); statistics and
  ingest records of a stream are those of the session's present region, next to
  vehicles of the region it was opened with (server.go:373). Neither is
  modelled.
* A pod nobody watches does not poll (main.go:159), so a fenced writer goes
  unnoticed until a viewer comes; nothing is written then, and
  `GoodWriterReplaced` and `GoodRecovers` state the viewers they need.

`CleanRunPasses` needs its premise that the prefixes are the run's own: a second
`mise run simulate`, which passes no `--prefix-suffix`, finds the events of the
first one and fails its verification, as `OKIsExact` demands.

## 4. Proofs

Eight modules, `<Module>_proofs`, prove for every value of the constants the
invariants their runs check on small ones. Each component has an inductive
invariant `IInv`, which its run checks too; `Invariance` proves `Spec => []IInv`
with one lemma per action, and the properties follow from it, or, for action
properties, from it and one step of `Next`. What the invariants add to the
properties, and why:

* `PollNotify`: `NoMissedPoll` is not inductive alone. `CopySubs` raises
  `published` for streams that are not in `pollSubs`, so one needs that a
  connected, uncancelled stream is subscribed: `SubscriptionState` ties
  `pollSubs`, the goroutine's and the handler's control points together.
  `IInv` is this, the types, `published <= version` and `NoMissedPoll`.
  `Refinement` proves that every step is a step of `LiveMap` or leaves its
  variables alone. Assumption: `MaxVersion` is a natural number.
* `WriterFencing`: `CompletePollIsDurable` needs to know where the positions of
  a poll are at each moment (`PollState`), `OwnerSeesDurable` that what a pod
  has buffered is covered by its live positions and that a prefix has one owner
  (`SeenState`, `SingleOwner`, `NotYetServing`). One lemma per action shows that
  their conjunction `IInv` is preserved. Assumptions: timestamps are positive,
  the threshold is positive.
* `PollCoordinator`: `FloorUnlessFailed` is about the time since a fetch
  *began*, the code compares with the mark in `lastPoll`. `FetchAges` relates
  them: unless a region is being fetched or its last write failed, its mark is
  no older than the beginning of its last fetch, and a region without a mark was
  never fetched. `MarksOrdered` adds that the order of the marks agrees with
  their ages and decides between any two. Assumptions (`TimesAssumption`):
  durations are positive, and ages are counted up to at least twice the floor
  and twice every interval.
* `SessionStore`: `ConnectedIsPolled` rests on the heartbeat: a stream without a
  waiting heartbeat has reported since the last interval began
  (`ConnectedIsFresh`). `SelectionKept` needs that until a restart every session
  in the store, also one due for pruning, has its last selection, and that
  `LastSeen` is no older than the last report (`KeptState`); `SelectionSurvives`
  that a saved selection is in memory and file with a `LastSeen` no older than
  the selection (`SavedState`). `LiveCount` is a cardinality; its steps use the
  library's theorems on finite sets. Assumptions: a session has finitely many
  tabs, `TTL` is more than one heartbeat, the defaults are among the choices.
* `Simulation`: `NothingLeaked` needs which handles a tenant may have in each
  phase (`TenantHandles`): while opening, only what `OpenPrefixDB`'s own cleanup
  would close or what is in `Pipeline.tenants`. `OKIsExact` needs the same
  statement about each tenant from the moment `Verify` was content with it
  (`CheckedState`); that other runs may still write to it is why it is about runs
  that were content, too. `CleanRunPasses` follows from `CleanState`: a run none
  of whose calls failed and that has its store to itself owns what it opened,
  and what it has put is buffered or committed and nothing else is; `KeyState`
  adds which keys a buffer and a prefix may hold, and that the feed is as long
  as the prefix has keys. Assumptions: a run's memory store is none of the
  shared ones, `TotalUnique` is a natural number.
* `GtfsPoll`: `LiveIsNewest` needs that `vehicleSeen` is the maximum of what was
  restored and ingested (`SeenState`), `RingIsRecent` that the ring is the end
  of what was ingested, backwards (`RingState`), `LiveSurvivesRestart` that
  whatever is buffered was seen by this process (`StoredState`), and
  `PolledIsCommitted` that what was parsed waits to be written and what `Write`
  has passed is buffered or committed (`CycleState`). `RateLimitRespected` is
  arithmetic on wrapped integers. Maxima need the least-number principle; it is
  obtained from the library's theorem that `<` on the natural numbers is
  well-founded. Assumptions: positive attempts, seconds and ring size, a cap
  that fits a Duration (`WidthAssumption`) and is not below the first pause;
  `ShiftAssumption`, that the shift of `Backoff.duration` loses no bits within
  the attempts made (true of the default backoff); and `BodiesAssumption`, that
  bodies are sequences of entities and that selecting the valid ones of a body
  gives one again. The second half of that is a fact about `SelectSeq`, whose
  recursive definition the provers cannot unfold; TLC checks it for the bodies
  of the run.
* `LivePage`: `PageAgrees` needs that, unless an answer that replaces the stream
  is on its way, the last answer on its way or else the page has the stream's
  region, and the session keeps it until the GET is served (`AgreeState`);
  `MapIsLatest` that a list drawn alone is the newest and has its chunks so far
  among the markers (`DrawState`). One frame draws all lists (`Drawn`,
  `Remaining`, recursive functions). That such a function satisfies its equation
  is proved with the least-number principle: functions defined up to `i`
  satisfying the equation exist for all `i` up to the number of lists.
* `Pages`: the composition implements each page (`ReplayComposed`,
  `LiveComposed`: to the live map, the replay page's switches are steps of
  another tab), so what is proved of a page alone holds of both together.
  Of the replay: `DrainIsComplete` needs what holds in the middle of a drain:
  the agencies left to visit are the last ones of the region, of the ones before
  everything committed at the request and not trimmed is there, of the open feed
  everything from where it was opened up to the cursor (`DrainState`,
  `MutationState`); commits and trims keep this. `FrameIsExact` needs that the
  seconds to come are later than all that is merged, so a position that gives
  way to one of the next frame is older (`FrameState`); `NoFrameSkipped` that a
  stream of the page has passed no second later than the page's last frame
  (`PlayState`); `CatalogIsExact` the entries of the feeds visited and of the
  open one (`CatalogState`), with a page's size counted by the library's
  theorems on cardinality: each change carries its place, so no two are equal.
  The proofs first treat feeds, drains, streams and catalogues as values
  (operators ending in `At`), then each action, then the invariant.
  Assumptions: a page and a second are positive, timestamps are at least one
  second (`PageAssumption`, `TimeAssumption`; 0 is Go's zero time), a region
  lists no agency twice (`RegionAssumption`), clients' limits are times
  (`LimitsAssumption`), the first region is one (`FirstAssumption`), lists have
  a greatest length (`ChunksAssumption`). `MaxChanges` may have
  any value, and the proofs bound no number of streams, switches, answers or
  lists.

Only model-checked: all liveness (`SubscriptionReleased`, the fairness part of
`LiveMap`, `GoodWriterReplaced`, `GoodRecovers`, `PolledAgain`,
`AbandonedIsCleared`, `CycleEnds`, `DashboardFrees`), which is outside what the
prover handles. Every other property of a passing run is a theorem.

## 5. Not modelled

See the inventory and `components` in `PROJECT.json`.

* The generated Cloudflare worker: text for another runtime, whose behaviour is
  that of the database behind it.
* Reader-only handles (`OpenReaderDB`, `Probe`): the dashboard's status page
  opens, counts and closes; the closer's error is dropped by its only caller.
* Key ranges (`prefixUpperBound`) and the tables of feeds and regions: data.
* HTML, styles, popups and statistics of the pages; bucket set-up, the debug
  harness and the archived service (administration calls, diagnostics, dead
  code).
