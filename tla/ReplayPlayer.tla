---------------------------- MODULE ReplayPlayer ----------------------------
(***************************************************************************)
(* The replay page (web/demo/replay_render.go) and the streams it opens.   *)
(*                                                                         *)
(* The page has an EventSource exactly while the stream of Replay is the   *)
(* page's.  Closing it cancels the request: what its handler still does    *)
(* reaches nobody, so the stream ends at once.  An event is handled when   *)
(* it is sent; events on their way are lost when the source is closed.     *)
(* The map forgets a vehicle that the latest frame does not hold.          *)
(***************************************************************************)
EXTENDS Replay

CONSTANTS FirstRegion,  \* the region of the session when the page is loaded
          Froms, Tos    \* what other clients ask for; 0 is no limit

ASSUME FirstAssumption == FirstRegion \in Regions
ASSUME LimitsAssumption == Froms \subseteq Nat /\ Tos \subseteq Nat

VARIABLES
  page,      \* the page's variables; markers: what the map shows
  posts,     \* posts[r]: how many POSTs of region r are not answered yet
  refused    \* history: some POST was refused

pageVars == <<page, posts, refused>>
vars == <<feed, oldest, stream, catalog, page, posts, refused>>

Source == ~In("idle") /\ stream.by = "page"
SourceFree == In("idle") \/ Source

PlayerInit ==
    /\ Init
    /\ page = [region |-> FirstRegion, lastFrameAt |-> 0, stop |-> "disabled", markers |-> {}]
    /\ posts = [r \in Regions |-> 0]
    /\ refused = FALSE

-----------------------------------------------------------------------------
(* The buttons *)

\* startReplay(fromTime), with 0 for none.
startReplay(from) ==
    /\ SourceFree
    /\ StreamOpened("page", page.region, from, 0)
    /\ page' = [page EXCEPT !.stop = "Stop"]
    /\ UNCHANGED <<feedVars, catalog, posts, refused>>

\* Play, or Reset while playing or paused.
PlayClicked == startReplay(0)

\* Stop closes the stream and keeps lastFrameAt.
pauseReplay ==
    /\ Source
    /\ stream' = Idle
    /\ page' = [page EXCEPT !.stop = "Resume"]
    /\ UNCHANGED <<feedVars, catalog, posts, refused>>

Resume == ~Source /\ page.stop = "Resume" /\ startReplay(page.lastFrameAt)

SpeedChanged == Source /\ startReplay(page.lastFrameAt)

\* resetReplay: back to the state of a fresh page.
resetReplay == [page EXCEPT !.lastFrameAt = 0, !.stop = "disabled"]

\* switchRegion: the choice counts at once, the stream goes on.
SwitchRegion(r) ==
    /\ page' = [page EXCEPT !.region = r]
    /\ posts' = [posts EXCEPT ![r] = @ + 1]
    /\ UNCHANGED <<feedVars, stream, catalog, refused>>

\* Mutation of SwitchAnswered: the stream of the old region is not closed.
SwitchKeepsStream(r) ==
    /\ posts[r] > 0
    /\ posts' = [posts EXCEPT ![r] = @ - 1]
    /\ page' = [page EXCEPT !.markers = {}]
    /\ UNCHANGED <<feedVars, stream, catalog, refused>>

\* The POST has succeeded: markers and stream go.
SwitchAnswered(r) ==
    /\ posts[r] > 0
    /\ posts' = [posts EXCEPT ![r] = @ - 1]
    /\ page' = [resetReplay EXCEPT !.markers = {}]
    /\ stream' = IF Source THEN Idle ELSE stream
    /\ UNCHANGED <<feedVars, catalog, refused>>

SwitchRefused(r) ==
    /\ posts[r] > 0
    /\ posts' = [posts EXCEPT ![r] = @ - 1]
    /\ refused' = TRUE
    /\ UNCHANGED <<feedVars, stream, catalog, page>>

-----------------------------------------------------------------------------
(* The events *)

\* "vehicles": applyVehicles replaces what the map shows.
VehiclesEvent ==
    /\ SendVehicles
    /\ page' = IF Source THEN [page EXCEPT !.markers = stream'.merged] ELSE page
    /\ UNCHANGED <<posts, refused>>

\* "progress" of a frame.
ProgressEvent ==
    /\ SendProgress
    /\ page' = IF Source THEN [page EXCEPT !.lastFrameAt = FrameAt] ELSE page
    /\ UNCHANGED <<posts, refused>>

\* "done", "error" and the error of the connection reset the page.
StreamClosed ==
    /\ SendDone \/ StreamEnds
    /\ page' = IF Source THEN resetReplay ELSE page
    /\ UNCHANGED <<posts, refused>>

-----------------------------------------------------------------------------
Handler == NextFeed \/ ReadPage \/ Build \/ Fold \/ Play

Client == \E r \in Regions, from \in Froms, to \in Tos : Request(r, from, to)

\* A stream is opened, by the page or by another client.
Start ==
    \/ PlayClicked \/ Resume \/ SpeedChanged
    \/ Client /\ UNCHANGED pageVars

\* A region is chosen.
Switch == \E r \in Regions : SwitchRegion(r)

\* Feeds, readers and the events of the stream.
Else ==
    \/ (Store \/ Catalog \/ Handler) /\ UNCHANGED pageVars
    \/ VehiclesEvent \/ ProgressEvent \/ StreamClosed
    \/ pauseReplay

Next ==
    \/ Start \/ Switch \/ Else
    \/ \E r \in Regions : SwitchAnswered(r) \/ SwitchRefused(r)

Spec == PlayerInit /\ [][Next]_vars

-----------------------------------------------------------------------------
(* Properties *)

AgencyNames == UNION {Range(AgenciesOf[r]) : r \in Regions}
Cursors == Nat \cup {Unopened}
Drains == [todo : Seq(AgencyNames), first : Cursors, cursor : Cursors]
Counts == [Agencies -> Nat]

Streams ==
    [phase : {"drain", "fold", "play"}, by : {"page", "client"},
     region : Regions, from : Nat, to : Nat, drain : Drains,
     mutations : SUBSET Mutations, frames : SUBSET Nat, merged : SUBSET Mutations,
     sent : BOOLEAN, committed : Counts]

Entries == [count : Nat, from : Nat, to : Nat, first : Nat, last : Nat]

Catalogs ==
    [phase : {"drain", "answered"}, region : Regions, drain : Drains,
     entries : [Agencies -> Entries], committed : Counts]

TypeOK ==
    /\ feed \in [Agencies -> Seq(Mutations)] /\ oldest \in Counts
    /\ stream = Idle \/ stream \in Streams
    /\ catalog = Idle \/ catalog \in Catalogs
    /\ page \in [region : Regions, lastFrameAt : Nat, stop : {"disabled", "Stop", "Resume"},
                 markers : SUBSET Mutations]
    /\ posts \in [Regions -> Nat] /\ refused \in BOOLEAN

\* A frame shows each vehicle of the region once, at a position of its latest
\* second up to the frame's, as if the replay had begun with the first frame:
\* also when it was resumed later, and when the feed grew meanwhile.  (Which
\* position of that second is open: RunReplay sorts by seconds.)
FrameIsExact ==
    In("play") /\ stream.sent =>
       LET seen == {m \in stream.mutations : Truncate(m.at) <= FrameAt}
       IN  /\ stream.merged \subseteq seen
           /\ \A m, k \in stream.merged : SameVehicle(m, k) => m = k
           /\ \A m \in seen : \E k \in stream.merged :
                 SameVehicle(m, k) /\ Truncate(m.at) <= Truncate(k.at)

\* A stream that plays has found every change of its region and interval that
\* was committed when it was requested and that retention has left, whatever
\* was written and trimmed between its pages, and nothing else.
DrainIsComplete ==
    stream.phase \in {"fold", "play"} =>
       LET inRegion == Range(AgenciesOf[stream.region]) \cap Agencies
       IN  /\ \A m \in stream.mutations : m.agency \in inRegion /\ Wanted(m)
           /\ \A a \in inRegion : \A n \in (oldest[a] + 1)..stream.committed[a] :
                 Wanted(feed[a][n]) => feed[a][n] \in stream.mutations

\* A page that goes on from one frame to a later one, also across Stop and
\* Resume or a change of speed, passes over no second of what it replays.
NoFrameSkipped ==
    [][0 < page.lastFrameAt /\ page.lastFrameAt < page'.lastFrameAt =>
          \A m \in stream.mutations :
             ~(page.lastFrameAt < Truncate(m.at) /\ Truncate(m.at) < page'.lastFrameAt)]_vars

\* Once every switch of region has been answered, and none was refused, the
\* page plays the region it names and shows no vehicle of another one.
RegionShown ==
    (\A r \in Regions : posts[r] = 0) /\ ~refused =>
       /\ Source => stream.region = page.region
       /\ \A m \in page.markers : m.agency \in Range(AgenciesOf[page.region])

\* An answered catalogue counts for each agency exactly the changes of one
\* interval of its feed, which ends no earlier than the feed did when the
\* catalogue was requested, and its times bound those of the vehicles whose
\* identifiers have no colon.
CatalogIsExact ==
    catalog.phase = "answered" =>
       \A a \in Range(AgenciesOf[catalog.region]) \cap Agencies :
          LET e == catalog.entries[a]
              seen == {feed[a][n] : n \in (e.first + 1)..e.last}
              ts == {m.at : m \in {k \in seen : k.vehicle \notin ColonIDs}}
          IN  /\ e.count = Cardinality(seen)
              /\ e.first <= oldest[a] /\ catalog.committed[a] <= e.last
              /\ e.from = IF ts = {} THEN 0 ELSE Min(ts)
              /\ e.to = IF ts = {} THEN 0 ELSE Max(ts)

-----------------------------------------------------------------------------
(* The inductive invariant of Pages_proofs *)

\* A change carries its agency and its place in the feed.
FeedState ==
    \A a \in Agencies :
       /\ oldest[a] <= Len(feed[a])
       /\ \A n \in DOMAIN feed[a] : feed[a][n].agency = a /\ feed[a][n].n = n

\* The agencies of r that the drain d has left behind.
Visited(d, r) == {AgenciesOf[r][i] : i \in 1..(Len(AgenciesOf[r]) - Len(d.todo))}

\* A drain has still to visit the last agencies of its region; an open feed is
\* one of theirs, and was opened where retention has not got less far since.
DrainState(d, r, committed) ==
    /\ \A a \in Agencies : committed[a] <= Len(feed[a])
    /\ Len(d.todo) <= Len(AgenciesOf[r])
    /\ \A i \in DOMAIN d.todo :
          d.todo[i] = AgenciesOf[r][Len(AgenciesOf[r]) - Len(d.todo) + i]
    /\ d.cursor # Unopened =>
          /\ d.todo # <<>> /\ Head(d.todo) \in Agencies
          /\ d.first # Unopened
          /\ d.first <= oldest[Head(d.todo)] /\ d.first <= d.cursor
          /\ d.cursor <= Len(feed[Head(d.todo)])

\* What DrainIsComplete rests on: of the feeds visited everything is there that
\* had been committed, of the open one everything up to the cursor.
MutationState ==
    LET d == stream.drain
    IN  /\ DrainState(d, stream.region, stream.committed)
        /\ stream.phase # "drain" => d.todo = <<>>
        /\ \A m \in stream.mutations :
              m.agency \in Range(AgenciesOf[stream.region]) /\ Wanted(m)
        /\ \A a \in Visited(d, stream.region) \cap Agencies :
              \A n \in (oldest[a] + 1)..stream.committed[a] :
                 Wanted(feed[a][n]) => feed[a][n] \in stream.mutations
        /\ d.cursor # Unopened =>
              \A n \in (d.first + 1)..d.cursor :
                 LET m == feed[Head(d.todo)][n] IN Wanted(m) => m \in stream.mutations

\* The mutations whose second has been merged.
Passed ==
    {m \in stream.mutations :
       Truncate(m.at) \notin stream.frames \/ (stream.sent /\ Truncate(m.at) = FrameAt)}

\* What FrameIsExact rests on: the frames to come are later than those merged,
\* and merged has one position of each vehicle among these, of its last second.
FrameState ==
    IF stream.phase = "drain"
    THEN stream.merged = {} /\ ~stream.sent
    ELSE /\ stream.frames \subseteq FrameTimes(stream.mutations)
         /\ stream.sent => stream.phase = "play" /\ stream.frames # {}
         /\ \A m \in stream.mutations, f \in stream.frames :
               Truncate(m.at) \in stream.frames \/ Truncate(m.at) < f
         /\ stream.merged \subseteq Passed
         /\ \A m, k \in stream.merged : SameVehicle(m, k) => m = k
         /\ \A m \in Passed : \E k \in stream.merged :
               SameVehicle(m, k) /\ Truncate(m.at) <= Truncate(k.at)

\* What NoFrameSkipped rests on: the page's stream starts at the beginning or
\* at the page's last frame, and has passed no frame later than that.
PlayState ==
    /\ stream.phase # "play" => stream.from \in {0, page.lastFrameAt}
    /\ stream.phase # "drain" =>
          \A m \in stream.mutations :
             Truncate(m.at) \in stream.frames \/ Truncate(m.at) <= page.lastFrameAt

\* The entry e is about the changes lo + 1 to hi of agency a.
Summary(a, e, lo, hi) ==
    LET ts == {m.at : m \in {k \in {feed[a][n] : n \in (lo + 1)..hi} : k.vehicle \notin ColonIDs}}
    IN  /\ e.count = hi - lo
        /\ e.from = IF ts = {} THEN 0 ELSE Min(ts)
        /\ e.to = IF ts = {} THEN 0 ELSE Max(ts)

\* What CatalogIsExact rests on: of the feeds visited the entry is about one
\* interval, of the open one about what was read; the others have none.
CatalogState ==
    LET d == catalog.drain
    IN  /\ DrainState(d, catalog.region, catalog.committed)
        /\ catalog.phase = "answered" => d.todo = <<>>
        /\ \A a \in Agencies :
              LET e == catalog.entries[a]
              IN  IF a \in Visited(d, catalog.region)
                  THEN /\ e.first <= oldest[a] /\ e.first <= e.last
                       /\ catalog.committed[a] <= e.last /\ e.last <= Len(feed[a])
                       /\ Summary(a, e, e.first, e.last)
                  ELSE IF d.cursor # Unopened /\ a = Head(d.todo)
                  THEN Summary(a, e, d.first, d.cursor)
                  ELSE e = NoEntry

IInv ==
    /\ TypeOK /\ FeedState /\ RegionShown
    /\ stream # Idle => MutationState /\ FrameState
    /\ Source => PlayState
    /\ catalog # Idle => CatalogState

=============================================================================
