------------------------------- MODULE Replay -------------------------------
(***************************************************************************)
(* Playback of the change feed (demo/replay.go, pipeline/changefeed.go,    *)
(* web/demo/replay.go) while pollers go on writing and retention goes on   *)
(* trimming it, and the catalogue of the feed (demo/snapshots.go).         *)
(*                                                                         *)
(* A stream drains the feeds of its region agency by agency and page by    *)
(* page, groups the positions it has found into frames of one second,      *)
(* merges the frames before the start into the state without sending       *)
(* them, and sends the others.  Time is counted in ticks, Sub of which     *)
(* make a second; time 0 is Go's zero time.                                *)
(***************************************************************************)
EXTENDS Integers, Sequences, FiniteSets, FiniteSetsExt, SequencesExt

CONSTANTS Agencies,     \* the keys of Pipeline.agencies
          Regions,      \* map regions
          AgenciesOf,   \* AgenciesOf[r]: the agencies of region r, in order
          Vehicles,     \* vehicle identifiers
          ColonIDs,     \* those that contain a colon
          Times,        \* timestamps of positions
          Sub,          \* ticks in a second
          PageSize,     \* changes in one page of the feed
          MaxChanges    \* bound on the number of changes ever committed

ASSUME TimeAssumption == Sub \in Nat \ {0} /\ \A t \in Times : t \in Nat /\ t >= Sub
ASSUME PageAssumption == PageSize \in Nat \ {0}
ASSUME RegionAssumption ==
    \A r \in Regions : AgenciesOf[r] \in Seq(Range(AgenciesOf[r])) /\ IsInjective(AgenciesOf[r])

VARIABLES
  feed,      \* feed[a]: the changes committed under prefix a
  oldest,    \* oldest[a]: how many of them retention has removed
  stream,    \* the replay request being served
  catalog    \* the catalogue request being served

feedVars == <<feed, oldest>>

Truncate(t) == (t \div Sub) * Sub
Mutations == [agency : Agencies, vehicle : Vehicles, at : Times, n : Nat \ {0}]

\* The key of the merged map: two mutations of one vehicle replace each other.
SameVehicle(m, k) == m.agency = k.agency /\ m.vehicle = k.vehicle

\* A drain that has not opened a feed: the agencies still to visit, the cursor
\* bounds.Oldest it began the present one with, and the cursor it is at.
Unopened == -1
Drain(r) == [todo |-> AgenciesOf[r], first |-> Unopened, cursor |-> Unopened]

Idle == [phase |-> "idle"]

Init ==
    /\ feed = [a \in Agencies |-> <<>>]
    /\ oldest = [a \in Agencies |-> 0]
    /\ stream = Idle
    /\ catalog = Idle

-----------------------------------------------------------------------------
(* The store *)

\* A flush of the writer commits a position.  Its timestamp is the upstream's,
\* in whole seconds and in any order, or the time of the poll.
Commit(a, v, t) ==
    /\ FoldSet(LAMBDA x, n : Len(feed[x]) + n, 0, Agencies) < MaxChanges
    /\ feed' = [feed EXCEPT ![a] =
          Append(@, [agency |-> a, vehicle |-> v, at |-> t, n |-> Len(@) + 1])]
    /\ UNCHANGED <<oldest, stream, catalog>>

\* Retention removes the oldest change; the newest one stays.
Trim(a) ==
    /\ oldest[a] + 1 < Len(feed[a])
    /\ oldest' = [oldest EXCEPT ![a] = @ + 1]
    /\ UNCHANGED <<feed, stream, catalog>>

-----------------------------------------------------------------------------
(* Reading the feed: the part that DrainChangeFeed and SummarizeChangeFeed
   have in common.  d is the drain of a stream or of the catalogue. *)

Draining(d) == d.todo # <<>>

\* Mutation of NextAgency: the cursor of the agency before is kept.
NextKeepsCursor(d) == [d EXCEPT !.todo = Tail(@)]

NextAgency(d) == [d EXCEPT !.todo = Tail(@), !.first = Unopened, !.cursor = Unopened]

\* The loop skips an agency without a writer and a feed without changes.
Skips(d) ==
    /\ Draining(d)
    /\ d.cursor = Unopened
    /\ Head(d.todo) \in Agencies => feed[Head(d.todo)] = <<>>

\* Bounds of the feed have been read.
Opens(d) ==
    /\ Draining(d)
    /\ d.cursor = Unopened
    /\ Head(d.todo) \in Agencies /\ feed[Head(d.todo)] # <<>>

Opened(d) == [d EXCEPT !.first = oldest[Head(d.todo)], !.cursor = oldest[Head(d.todo)]]

\* A page can be read as long as retention has not overtaken the cursor.
Reads(d) ==
    /\ Draining(d)
    /\ d.cursor # Unopened
    /\ d.cursor >= oldest[Head(d.todo)]

\* page.Next
PageEnd(d) == Min({d.cursor + PageSize, Len(feed[Head(d.todo)])})

\* page.Changes
Page(d) == {feed[Head(d.todo)][n] : n \in (d.cursor + 1)..PageEnd(d)}

\* Mutation of CaughtUp: the first page is taken for the whole feed.
CaughtUpAtOnce(d) == TRUE

CaughtUp(d) == PageEnd(d) = Len(feed[Head(d.todo)])

AfterPage(d) == IF CaughtUp(d) THEN NextAgency(d) ELSE [d EXCEPT !.cursor = PageEnd(d)]

-----------------------------------------------------------------------------
(* handleReplayStream and RunReplay *)

In(p) == stream.phase = p
Step(p) == stream' = [stream EXCEPT !.phase = p]

\* A request has passed the checks of its parameters and the "starting" event
\* has been written.  committed is a history variable: how much of each feed
\* was there by then.
StreamOpened(by, r, from, to) ==
    stream' = [phase |-> "drain", by |-> by, region |-> r, from |-> from, to |-> to,
               drain |-> Drain(r),
               mutations |-> {}, frames |-> {}, merged |-> {}, sent |-> FALSE,
               committed |-> [a \in Agencies |-> Len(feed[a])]]

\* A client other than the page names any interval.
Request(r, from, to) ==
    /\ In("idle")
    /\ StreamOpened("client", r, from, to)
    /\ UNCHANGED <<feedVars, catalog>>

NextFeed ==
    /\ In("drain")
    /\ \/ /\ Skips(stream.drain)
          /\ stream' = [stream EXCEPT !.drain = NextAgency(@)]
       \/ /\ Opens(stream.drain)
          /\ stream' = [stream EXCEPT !.drain = Opened(@)]
    /\ UNCHANGED <<feedVars, catalog>>

\* The filter of buildReplayFrames.
Wanted(m) == stream.to # 0 => m.at <= stream.to

ReadPage ==
    /\ In("drain")
    /\ Reads(stream.drain)
    /\ stream' = [stream EXCEPT
          !.mutations = @ \cup {m \in Page(stream.drain) : Wanted(m)},
          !.drain = AfterPage(@)]
    /\ UNCHANGED <<feedVars, catalog>>

\* One frame for each second that has mutations.
FrameTimes(ms) == {Truncate(m.at) : m \in ms}

\* Sort and group what the feeds held.
Build ==
    /\ In("drain")
    /\ ~Draining(stream.drain)
    /\ stream' = [stream EXCEPT !.phase = "fold", !.frames = FrameTimes(stream.mutations)]
    /\ UNCHANGED <<feedVars, catalog>>

\* The frames still to be merged, which are in the order of their seconds.
MoreFrames == stream.frames # {}

\* Mutation of FrameAt: the frames are in the opposite order.
FrameAtLast == Max(stream.frames)

FrameAt == Min(stream.frames)

Bucket == {m \in stream.mutations : Truncate(m.at) = FrameAt}

\* The possible results of storing a bucket in merged: the sort is by second,
\* agency and vehicle and not stable, so of several mutations of one vehicle
\* within the second any may come last.
Merges ==
    {{m \in stream.merged : \A k \in Bucket : ~SameVehicle(m, k)} \cup last :
        last \in {S \in SUBSET Bucket :
                    /\ \A m \in Bucket : \E k \in S : SameVehicle(m, k)
                    /\ \A m, k \in S : SameVehicle(m, k) => m = k}}

BeforeStart == stream.from # 0 /\ FrameAt < stream.from

\* Mutation of Fold: frames before the start are passed over.
SkipFold ==
    /\ In("fold")
    /\ MoreFrames /\ BeforeStart
    /\ stream' = [stream EXCEPT !.frames = @ \ {FrameAt}]
    /\ UNCHANGED <<feedVars, catalog>>

\* A frame before the start is merged and not sent.
Fold ==
    /\ In("fold")
    /\ MoreFrames /\ BeforeStart
    /\ \E ms \in Merges : stream' = [stream EXCEPT !.merged = ms, !.frames = @ \ {FrameAt}]
    /\ UNCHANGED <<feedVars, catalog>>

Play ==
    /\ In("fold")
    /\ ~(MoreFrames /\ BeforeStart)
    /\ Step("play")
    /\ UNCHANGED <<feedVars, catalog>>

\* The next frame is merged and its positions are sent.
SendVehicles ==
    /\ In("play") /\ MoreFrames /\ ~stream.sent
    /\ \E ms \in Merges : stream' = [stream EXCEPT !.merged = ms, !.sent = TRUE]
    /\ UNCHANGED <<feedVars, catalog>>

\* Its time is sent; the pause before the next frame ends, too.
SendProgress ==
    /\ In("play") /\ stream.sent
    /\ stream' = [stream EXCEPT !.sent = FALSE, !.frames = @ \ {FrameAt}]
    /\ UNCHANGED <<feedVars, catalog>>

\* RunReplay returns and "done" is sent.
SendDone ==
    /\ In("play") /\ ~MoreFrames
    /\ stream' = Idle
    /\ UNCHANGED <<feedVars, catalog>>

\* A call of the drain fails, as it must when retention has overtaken the
\* cursor, and "error" is sent; or the connection breaks, or the client has
\* left, and nothing is sent any more.
StreamEnds ==
    /\ ~In("idle")
    /\ stream' = Idle
    /\ UNCHANGED <<feedVars, catalog>>

-----------------------------------------------------------------------------
(* CatalogForRegion *)

NoEntry == [count |-> 0, from |-> 0, to |-> 0, first |-> 0, last |-> 0]

\* TimestampNSFromKey: the third part of the key, which is no number when the
\* vehicle's identifier contains a colon.
KeyTime(m) == IF m.vehicle \in ColonIDs THEN 0 ELSE m.at

\* Mutation of Summarize: the first timestamp is not taken over.
SummarizeKeepsZero(e, page) ==
    LET ts == {KeyTime(m) : m \in page} \ {0}
    IN  [e EXCEPT !.count = @ + Cardinality(page),
                  !.from = Min({@} \cup ts),
                  !.to = Max({@} \cup ts)]

\* What a page adds to the entry of its agency.
Summarize(e, page) ==
    LET ts == {KeyTime(m) : m \in page} \ {0}
    IN  [e EXCEPT !.count = @ + Cardinality(page),
                  !.from = IF ts = {} THEN @ ELSE Min(ts \cup ({@} \ {0})),
                  !.to = Max({@} \cup ts)]

CatalogRequest(r) ==
    /\ catalog.phase # "drain"
    /\ catalog' = [phase |-> "drain", region |-> r, drain |-> Drain(r),
                   entries |-> [a \in Agencies |-> NoEntry],
                   committed |-> [a \in Agencies |-> Len(feed[a])]]
    /\ UNCHANGED <<feedVars, stream>>

CatalogFeed ==
    /\ catalog.phase = "drain"
    /\ \/ /\ Skips(catalog.drain)
          /\ catalog' = [catalog EXCEPT !.drain = NextAgency(@)]
       \/ /\ Opens(catalog.drain)
          /\ catalog' = [catalog EXCEPT !.drain = Opened(@)]
    /\ UNCHANGED <<feedVars, stream>>

\* One page of SummarizeChangeFeed.  first and last record which changes the
\* entry is about.
CatalogPage ==
    /\ catalog.phase = "drain"
    /\ Reads(catalog.drain)
    /\ LET d == catalog.drain
           e == Summarize(catalog.entries[Head(d.todo)], Page(d))
       IN  catalog' = [catalog EXCEPT
              !.entries[Head(d.todo)] = [e EXCEPT !.first = d.first, !.last = PageEnd(d)],
              !.drain = AfterPage(d)]
    /\ UNCHANGED <<feedVars, stream>>

CatalogAnswered ==
    /\ catalog.phase = "drain"
    /\ ~Draining(catalog.drain)
    /\ catalog' = [catalog EXCEPT !.phase = "answered"]
    /\ UNCHANGED <<feedVars, stream>>

CatalogFails ==
    /\ catalog.phase = "drain"
    /\ catalog' = Idle
    /\ UNCHANGED <<feedVars, stream>>

-----------------------------------------------------------------------------
Store ==
    \E a \in Agencies :
       \/ \E v \in Vehicles, t \in Times : Commit(a, v, t)
       \/ Trim(a)

Catalog ==
    \/ \E r \in Regions : CatalogRequest(r)
    \/ CatalogFeed \/ CatalogPage \/ CatalogAnswered \/ CatalogFails

=============================================================================
