------------------------------ MODULE GtfsPoll ------------------------------
(***************************************************************************)
(* One poll cycle after the other (runPoll in cmd/demo): the poller        *)
(* fetches the feeds of the cycle one at a time, with retries while it is  *)
(* rate limited (gtfs/poller.go), what it has parsed is written and        *)
(* flushed, and the in-memory views of the pipeline are updated position   *)
(* by position (demo/pipeline.go).  The process may be told to stop at any *)
(* time, and a new one starts from what is committed.                      *)
(*                                                                         *)
(* Durations are signed integers of a fixed width, as time.Duration is:    *)
(* Second units make a second and a Duration is in -Half..Half-1.          *)
(***************************************************************************)
EXTENDS Integers, Sequences, FiniteSets

CONSTANTS
  Feeds,            \* the feeds of a cycle (their agencies), in order
  Vehicles,         \* vehicle identifiers
  KeyID,            \* KeyID[v]: v up to its first colon
  maxPollAttempts,
  Initial, Cap,     \* Backoff.Initial and Backoff.Max, in seconds
  RetryAfters,      \* values of the Retry-After header; NoHeader for none
  NoHeader,
  Second, Half,
  Bodies,           \* what a feed may answer: sequences of Entities
  Window,           \* LiveMapVisibleWindow
  ingestCap,
  MaxNow,           \* bound on the clock
  MaxCycles,        \* bound on the number of poll cycles
  MaxRestarts       \* bound on the number of restarts

ASSUME AttemptsAssumption == maxPollAttempts \in Nat \ {0}
ASSUME BackoffAssumption == Initial \in Nat \ {0} /\ Cap \in Nat /\ Initial <= Cap
ASSUME WidthAssumption == Second \in Nat \ {0} /\ Half \in Nat /\ Cap * Second < Half
ASSUME HeaderAssumption == \A h \in RetryAfters \ {NoHeader} : h \in 0..(Half - 1)
ASSUME CapAssumption == ingestCap \in Nat \ {0}
ASSUME ClockAssumption == MaxNow \in Nat \ {0} /\ Window \in Nat

VARIABLES
  now,          \* the clock, in units of the timestamps of positions
  ctxDone,      \* the process has been told to stop
  \* runPoll and the poller
  phase,        \* "idle", "fetch", "wait" or "write"
  results,      \* PollResults of the feeds polled so far
  attempt,      \* the attempt at the next feed, from 0
  wait,         \* the pause before it, a Duration
  header,       \* history: the Retry-After that led to this pause
  all,          \* positions of the feeds that answered
  puts,         \* how many of them have been written
  found,        \* history: the positions parsed in this cycle
  \* the pipeline
  vehicleSeen,  \* vehicleSeen[<<a, v>>]: latest timestamp, 0 for none
  ingestBuf,    \* the ring of the latest ingests
  lastPoll,     \* the clock when a cycle was last marked as polled
  mem,          \* positions put and not committed
  store,        \* committed positions
  \* bounds and history
  ingested,     \* what Write has put since the process started, in order
  restored,     \* vehicleSeen when the process started
  cycles, restarts

pollVars == <<phase, results, attempt, wait, header, all, puts, found>>
pipeVars == <<vehicleSeen, ingestBuf, mem, store, ingested, restored>>
vars == <<now, ctxDone, phase, results, attempt, wait, header, all, puts, found, vehicleSeen,
          ingestBuf, lastPoll, mem, store, ingested, restored, cycles, restarts>>

Agencies == {Feeds[i] : i \in DOMAIN Feeds}
Slots == Agencies \X Vehicles
Stamps == 1..(MaxNow + 1)
Positions == [agency : Agencies, vehicle : Vehicles, at : Stamps]
Slot(p) == <<p.agency, p.vehicle>>
Elements(s) == {s[i] : i \in DOMAIN s}

\* An entity with a position: whether it is inside the bounds and has an
\* identifier, and its timestamp, 0 for none.
Entities == [vehicle : Vehicles, valid : BOOLEAN, at : {0} \cup Stamps]

\* The entities parseFeedMessage does not skip.
ValidEntities(body) == SelectSeq(body, LAMBDA e : e.valid)

ASSUME FeedsAssumption == Feeds \in Seq(Agencies)
ASSUME BodiesAssumption ==
    \A body \in Bodies : body \in Seq(Entities) /\ ValidEntities(body) \in Seq(Entities)

\* The latest timestamp of a vehicle among the given positions, 0 for none.
Newest(ps, k) ==
    LET ts == {p.at : p \in {q \in ps : Slot(q) = k}} \cup {0}
    IN  CHOOSE t \in ts : \A u \in ts : u <= t

Init ==
    /\ now = 1
    /\ ctxDone = FALSE
    /\ phase = "idle" /\ results = <<>> /\ attempt = 0
    /\ wait = 0 /\ header = NoHeader
    /\ all = <<>> /\ puts = 0 /\ found = {}
    /\ vehicleSeen = [k \in Slots |-> 0] /\ restored = [k \in Slots |-> 0]
    /\ ingestBuf = <<>> /\ lastPoll = 0
    /\ mem = {} /\ store = {} /\ ingested = <<>>
    /\ cycles = 0 /\ restarts = 0

-----------------------------------------------------------------------------
(* The poller *)

Feed == Feeds[Len(results) + 1]
Polling == phase = "fetch" /\ Len(results) < Len(Feeds)

\* PollSequential has the result of a feed and goes on to the next one.
Result(r) ==
    /\ results' = Append(results, r)
    /\ phase' = "fetch" /\ attempt' = 0 /\ wait' = 0 /\ header' = NoHeader

\* parseFeedMessage: entities out of bounds or without identifier are skipped,
\* a position without timestamp gets the present time.
parseFeedMessage(body) ==
    LET kept == ValidEntities(body)
    IN  [i \in DOMAIN kept |->
           [agency |-> Feed, vehicle |-> kept[i].vehicle,
            at |-> IF kept[i].at = 0 THEN now ELSE kept[i].at]]

\* The feed answers with a message that can be parsed.  (When the process is
\* told to stop meanwhile the cycle is given up anyway.)
Fetched(body) ==
    /\ Polling
    /\ ~ctxDone
    /\ Result("ok")
    /\ all' = all \o parseFeedMessage(body)
    /\ found' = found \cup Elements(parseFeedMessage(body))
    /\ UNCHANGED <<now, ctxDone, puts, pipeVars, lastPoll, cycles, restarts>>

\* Mutation of FetchFails: a failed feed ends the collection of positions.
FetchFailsAll ==
    /\ Polling \/ (phase = "wait" /\ ctxDone)
    /\ Result("error")
    /\ all' = <<>>
    /\ UNCHANGED <<now, ctxDone, puts, found, pipeVars, lastPoll, cycles, restarts>>

\* The request, the status, reading or parsing fails, or the context is done
\* before an attempt or in a pause: there is no retry.
FetchFails ==
    /\ Polling \/ (phase = "wait" /\ ctxDone)
    /\ Result("error")
    /\ UNCHANGED <<now, ctxDone, all, puts, found, pipeVars, lastPoll, cycles, restarts>>

Lesser(x, y) == IF x < y THEN x ELSE y

\* A product of Durations wraps around.
Wrap(x) == ((x + Half) % (2 * Half)) - Half

\* The shift of Backoff.duration, which loses no bits.
Shifted(n) == Initial * 2^n

ASSUME ShiftAssumption ==
    \A n \in 0..(maxPollAttempts - 1) :
       Shifted(n) \in Nat /\ Initial <= Shifted(n) /\ Shifted(n) * Second < Half

\* Backoff.duration
duration(n) == Lesser(Shifted(n), Cap) * Second

\* Mutation of WaitFor: what the header says is not capped.
WaitUncapped(n, h) == IF h = NoHeader THEN duration(n) ELSE Wrap(h * Second)

\* The pause after attempt n was answered with 429.
WaitFor(n, h) ==
    IF h = NoHeader THEN duration(n) ELSE Lesser(Wrap(h * Second), Cap * Second)

\* Mutation of RateLimited: the attempts are not counted.
RateLimitedForever(h) ==
    /\ Polling
    /\ ~ctxDone
    /\ phase' = "wait" /\ wait' = WaitFor(attempt, h) /\ header' = h
    /\ UNCHANGED <<now, ctxDone, results, attempt, all, puts, found, pipeVars, lastPoll, cycles, restarts>>

\* The feed answers with 429; the last attempt gives up without a pause.
RateLimited(h) ==
    /\ Polling
    /\ ~ctxDone
    /\ IF attempt = maxPollAttempts - 1
       THEN Result("error")
       ELSE /\ phase' = "wait" /\ wait' = WaitFor(attempt, h) /\ header' = h
            /\ attempt' = attempt + 1
            /\ UNCHANGED results
    /\ UNCHANGED <<now, ctxDone, all, puts, found, pipeVars, lastPoll, cycles, restarts>>

\* The pause is over.
Retry ==
    /\ phase = "wait"
    /\ phase' = "fetch" /\ wait' = 0 /\ header' = NoHeader
    /\ UNCHANGED <<now, ctxDone, results, attempt, all, puts, found, pipeVars, lastPoll, cycles, restarts>>

-----------------------------------------------------------------------------
(* runPoll and the pipeline *)

StartPoll ==
    /\ phase = "idle" /\ ~ctxDone
    /\ cycles < MaxCycles
    /\ cycles' = cycles + 1
    /\ phase' = "fetch" /\ results' = <<>> /\ attempt' = 0
    /\ all' = <<>> /\ puts' = 0 /\ found' = {}
    /\ UNCHANGED <<now, ctxDone, wait, header, pipeVars, lastPoll, restarts>>

\* All feeds have been polled: the process stops, there is nothing to write and
\* the cycle counts as polled, or Write begins.
Collected ==
    /\ phase = "fetch" /\ Len(results) = Len(Feeds)
    /\ phase' = IF ctxDone \/ all = <<>> THEN "idle" ELSE "write"
    /\ lastPoll' = IF ~ctxDone /\ all = <<>> THEN now ELSE lastPoll
    /\ UNCHANGED <<now, ctxDone, results, attempt, wait, header, all, puts, found,
                   pipeVars, cycles, restarts>>

\* Mutation of recordIngest: the ring drops the new record.
recordIngestFull(p) == IF Len(ingestBuf) < ingestCap THEN <<p>> \o ingestBuf ELSE ingestBuf

\* Mutation of recordIngest: the ring grows.
recordIngestUncapped(p) == <<p>> \o ingestBuf

recordIngest(p) ==
    LET buf == <<p>> \o ingestBuf
    IN  SubSeq(buf, 1, Lesser(Len(buf), ingestCap))

\* Mutation of Latest: the last one written wins.
LatestWritten(t, u) == u

\* The timestamp that is kept of a stored one and a new one.
Latest(t, u) == IF u > t THEN u ELSE t

\* One position of Write.
Put ==
    /\ phase = "write" /\ puts < Len(all)
    /\ LET p == all[puts + 1]
       IN  /\ mem' = mem \cup {p}
           /\ vehicleSeen' = [vehicleSeen EXCEPT ![Slot(p)] = Latest(@, p.at)]
           /\ ingestBuf' = recordIngest(p)
           /\ ingested' = Append(ingested, p)
    /\ puts' = puts + 1
    /\ UNCHANGED <<now, ctxDone, phase, results, attempt, wait, header, all, found,
                   lastPoll, store, restored, cycles, restarts>>

\* The agencies in done are flushed.
Flushed(done) ==
    /\ store' = store \cup {p \in mem : p.agency \in done}
    /\ mem' = {p \in mem : p.agency \notin done}

\* FlushAll succeeds and the cycle is marked as polled.
PollComplete ==
    /\ phase = "write" /\ puts = Len(all)
    /\ Flushed(Agencies)
    /\ phase' = "idle"
    /\ lastPoll' = now
    /\ UNCHANGED <<now, ctxDone, results, attempt, wait, header, all, puts, found,
                   vehicleSeen, ingestBuf, ingested, restored, cycles, restarts>>

\* A put, or the flush of some agency, fails: runPoll returns.
WriteFails ==
    /\ phase = "write"
    /\ \E done \in SUBSET Agencies :
          /\ puts < Len(all) => done = {}
          /\ Flushed(done)
    /\ phase' = "idle"
    /\ UNCHANGED <<now, ctxDone, results, attempt, wait, header, all, puts, found,
                   vehicleSeen, ingestBuf, ingested, restored, lastPoll, cycles, restarts>>

-----------------------------------------------------------------------------
(* The process *)

\* Mutation of Hydrations: the first position of a vehicle is kept.
HydrationsFirst(ps) ==
    {[k \in Slots |-> IF Newest(ps, k) = 0 THEN 0
                      ELSE CHOOSE t \in Stamps :
                              /\ [agency |-> k[1], vehicle |-> k[2], at |-> t] \in ps
                              /\ \A p \in ps : Slot(p) = k => t <= p.at]}

\* bootstrapLatest and hydrateFromSnapshot: the latest position for each
\* agency and identifier found in a key, stored under the identifier found in
\* the value.  Of two that are equally late the first in key order is kept.
Hydrations(ps) ==
    {[k \in Slots |-> IF k[2] = w[<<k[1], KeyID[k[2]]>>] THEN Newest(ps, k) ELSE 0] :
        w \in {f \in [Agencies \X {KeyID[v] : v \in Vehicles} -> Vehicles] :
                 \A a \in Agencies, v \in Vehicles :
                    LET best == f[<<a, KeyID[v]>>]
                    IN  /\ KeyID[best] = KeyID[v]
                        /\ Newest(ps, <<a, v>>) <= Newest(ps, <<a, best>>)}}

\* The writers commit in the background, at the latest when they are closed,
\* or what they hold is lost; the next process starts from what is committed.
Restart ==
    /\ restarts < MaxRestarts
    /\ restarts' = restarts + 1
    /\ \E done \in SUBSET Agencies : store' = store \cup {p \in mem : p.agency \in done}
    /\ mem' = {}
    /\ vehicleSeen' \in Hydrations(store')
    /\ restored' = vehicleSeen'
    /\ ingestBuf' = <<>> /\ ingested' = <<>> /\ lastPoll' = 0
    /\ phase' = "idle" /\ ctxDone' = FALSE
    /\ results' = <<>> /\ attempt' = 0 /\ wait' = 0 /\ header' = NoHeader
    /\ all' = <<>> /\ puts' = 0 /\ found' = {}
    /\ UNCHANGED <<now, cycles>>

\* SIGTERM, or a writer that must be given up.
Cancel ==
    /\ ~ctxDone
    /\ ctxDone' = TRUE
    /\ UNCHANGED <<now, pollVars, pipeVars, lastPoll, cycles, restarts>>

Tick ==
    /\ now < MaxNow
    /\ now' = now + 1
    /\ UNCHANGED <<ctxDone, pollVars, pipeVars, lastPoll, cycles, restarts>>

-----------------------------------------------------------------------------
\* The next step of a poll cycle.
Cycle ==
    \/ \E body \in Bodies : Fetched(body)
    \/ FetchFails
    \/ \E h \in RetryAfters : RateLimited(h)
    \/ Retry \/ Collected \/ Put \/ PollComplete \/ WriteFails

Next == StartPoll \/ Cycle \/ Restart \/ Cancel \/ Tick

Spec == Init /\ [][Next]_vars

\* A request ends within the client's timeout and a pause after its time.
FairSpec == Spec /\ WF_vars(Cycle)

-----------------------------------------------------------------------------
(* The views of the pipeline *)

\* LivePositionsFor; the count of StatsFor is its cardinality.
LivePositionsFor(agencies) ==
    {k \in Slots : /\ k[1] \in agencies
                   /\ vehicleSeen[k] # 0
                   /\ now - vehicleSeen[k] <= Window}

\* What a sequence of positions has of some agencies.
OfAgencies(ps, agencies) == SelectSeq(ps, LAMBDA p : p.agency \in agencies)

\* RecentIngestForRegion, newest first.
RecentIngest(agencies) == OfAgencies(ingestBuf, agencies)

-----------------------------------------------------------------------------
(* Properties *)

TypeOK ==
    /\ now \in 1..MaxNow /\ lastPoll \in 0..MaxNow
    /\ ctxDone \in BOOLEAN
    /\ phase \in {"idle", "fetch", "wait", "write"}
    /\ results \in Seq({"ok", "error"}) /\ Len(results) <= Len(Feeds)
    /\ attempt \in 0..(maxPollAttempts - 1)
    /\ wait \in -Half..(Half - 1)
    /\ header \in RetryAfters \cup {NoHeader}
    /\ all \in Seq(Positions) /\ puts \in 0..Len(all)
    /\ vehicleSeen \in [Slots -> {0} \cup Stamps]
    /\ restored \in [Slots -> {0} \cup Stamps]
    /\ ingestBuf \in Seq(Positions) /\ ingested \in Seq(Positions)
    /\ mem \subseteq Positions /\ store \subseteq Positions

\* A cycle is marked as polled only when every feed of it has been tried and
\* each position that any feed answered with is committed, whichever other
\* feeds failed or gave up after their retries.
PolledIsCommitted ==
    [][lastPoll' # lastPoll /\ lastPoll' # 0 =>
          Len(results) = Len(Feeds) /\ found \subseteq store']_vars

\* After a 429 the poller pauses no longer than Backoff.Max and, as long as the
\* upstream's Retry-After fits into a Duration, no shorter than it says or than
\* Backoff.Max; without the header the pause is at least Backoff.Initial.
RateLimitRespected ==
    phase = "wait" =>
       /\ wait <= Cap * Second
       /\ header = NoHeader => wait >= Initial * Second
       /\ header # NoHeader /\ header * Second < Half => wait >= Lesser(header, Cap) * Second

\* The live map shows a vehicle if and only if some position of it, ingested by
\* this process in any order or restored at its start, is within the window.
LiveIsNewest ==
    LivePositionsFor(Agencies) =
       {k \in Slots : \E t \in {restored[k]} \cup {p.at : p \in {q \in Elements(ingested) : Slot(q) = k}} :
                         t # 0 /\ now - t <= Window}

\* Of any agencies the ring has those of the last ingestCap positions written
\* that are theirs, the newest first, also while a cycle writes and after one
\* whose write failed.
RingIsRecent ==
    LET last == [i \in 1..Lesser(Len(ingested), ingestCap) |-> ingested[Len(ingested) + 1 - i]]
    IN  \A A \in SUBSET Agencies :
           RecentIngest(A) = OfAgencies(last, A)

\* No vehicle is behind what is committed, also after a restart, unless its
\* identifier is read from its keys as that of another committed vehicle.
LiveSurvivesRestart ==
    \A k \in Slots :
       \/ Newest(store, k) <= vehicleSeen[k]
       \/ \E v \in Vehicles \ {k[2]} : KeyID[v] = KeyID[k[2]] /\ Newest(store, <<k[1], v>>) # 0

\* What PolledIsCommitted rests on: what has been parsed waits to be written,
\* and what Write has passed over is in a buffer or committed.
CycleState ==
    /\ found = Elements(all)
    /\ phase \in {"fetch", "wait"} => puts = 0
    /\ phase = "wait" => Len(results) < Len(Feeds)
    /\ phase = "write" =>
          Len(results) = Len(Feeds) /\ \A i \in 1..puts : all[i] \in mem \cup store

\* What LiveIsNewest rests on: vehicleSeen has the latest of what was restored
\* and what was ingested.
SeenState ==
    \A k \in Slots :
       /\ restored[k] <= vehicleSeen[k]
       /\ \A i \in DOMAIN ingested : Slot(ingested[i]) = k => ingested[i].at <= vehicleSeen[k]
       /\ \/ vehicleSeen[k] = restored[k]
          \/ \E i \in DOMAIN ingested : Slot(ingested[i]) = k /\ ingested[i].at = vehicleSeen[k]

\* What RingIsRecent rests on: the ring is the end of what was ingested, backwards.
RingState ==
    /\ Len(ingestBuf) = Lesser(Len(ingested), ingestCap)
    /\ \A i \in 1..Len(ingestBuf) : ingestBuf[i] = ingested[Len(ingested) + 1 - i]

\* Another vehicle of the same agency, with the same identifier in its keys,
\* is committed.
Shadowed(p) ==
    \E q \in store : q.agency = p.agency /\ q.vehicle # p.vehicle /\ KeyID[q.vehicle] = KeyID[p.vehicle]

\* What LiveSurvivesRestart rests on: what is buffered was seen by this process,
\* what is committed by this one or an earlier one.
StoredState ==
    /\ \A p \in mem : p.at <= vehicleSeen[Slot(p)]
    /\ \A p \in store : p.at <= vehicleSeen[Slot(p)] \/ Shadowed(p)

\* The inductive invariant of GtfsPoll_proofs.
IInv ==
    TypeOK /\ CycleState /\ RateLimitRespected /\ SeenState /\ RingState /\ StoredState

\* Every cycle ends: also when feeds answer with 429 for ever, and when the
\* process is told to stop.
CycleEnds == phase # "idle" ~> phase = "idle"

=============================================================================
