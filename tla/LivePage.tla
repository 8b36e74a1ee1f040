------------------------------ MODULE LivePage ------------------------------
(***************************************************************************)
(* A tab with the live map (web/demo/render.go), the requests it makes     *)
(* about its region and the stream of vehicles it shows, while other tabs  *)
(* of the same session switch the session's region.                        *)
(*                                                                         *)
(* Requests are served in any order and their answers arrive in any order. *)
(* The stream has the region that the session had when the server began to *)
(* serve it.  A list of vehicles is drawn chunk by chunk, one chunk in     *)
(* every animation frame, and several lists may be drawn at once.  Regions *)
(* have no agency in common, so a chunk of vehicles is its region and a    *)
(* number, and currentAgencies goes with activeRegionId.                   *)
(***************************************************************************)
EXTENDS Integers, Sequences, SequencesExt

CONSTANTS Regions, FirstRegion,
          MaxChunks     \* chunks in the longest list of a region

VARIABLES
  session,    \* the region of the session, on the server
  page,       \* activeRegionId; markers; those of them on the map
  posts,      \* posts[r]: how many POSTs of region r the server has not stored
  stored,     \* stored[r]: how many it has stored and not answered
  gets,       \* how many GETs are not answered: at load, of a stream
  answers,    \* answers on their way, in the order the session was read
  stream,     \* the EventSource and the region it was served with
  renders,    \* lists being drawn, oldest first
  list,       \* history: number of chunks in the newest list
  settled,    \* history: the newest list was drawn undisturbed, see MapIsLatest
  mishap      \* history: see PageAgrees

requestVars == <<posts, stored, gets, answers>>
mapVars == <<renders, list, settled>>
vars == <<session, page, posts, stored, gets, answers, stream, renders, list, settled, mishap>>

AllChunks == Regions \X (1..MaxChunks)
Chunks(r, n) == {<<r, k>> : k \in 1..n}

Init ==
    /\ session = FirstRegion
    /\ page = [region |-> FirstRegion, markers |-> {}, onmap |-> {}]
    /\ posts = [r \in Regions |-> 0] /\ stored = posts /\ answers = <<>>
    /\ gets = [load |-> 0, sync |-> 0]
    /\ stream = [phase |-> "unloaded", region |-> FirstRegion]
    /\ renders = <<>> /\ list = 0 /\ settled = FALSE
    /\ mishap = FALSE

\* handleIndex: the page names the session's region and asks for it again.
OpenPage ==
    /\ stream.phase = "unloaded"
    /\ page' = [page EXCEPT !.region = session]
    /\ stream' = [stream EXCEPT !.phase = "closed"]
    /\ gets' = [gets EXCEPT !.load = 1]
    /\ UNCHANGED <<session, posts, stored, answers, mapVars, mishap>>

-----------------------------------------------------------------------------
(* The stream *)

\* The lists being drawn are not the newest of this stream any more.
Outdated == [i \in DOMAIN renders |-> [renders[i] EXCEPT !.alone = FALSE]]

\* connectStream, and what the browser does when a connection breaks.
connectStream ==
    /\ stream' = [stream EXCEPT !.phase = "connecting"]
    /\ renders' = Outdated
    /\ settled' = FALSE
    /\ mishap' = FALSE

\* handleVehicleStream reads ActiveAgencies.
StreamServed ==
    /\ stream.phase = "connecting"
    /\ stream' = [phase |-> "served", region |-> session]
    /\ UNCHANGED <<session, page, requestVars, mapVars, mishap>>

\* Mutation of onopen: the page does not ask for the region.
onopenUnsynced ==
    /\ stream.phase = "served"
    /\ stream' = [stream EXCEPT !.phase = "open"]
    /\ UNCHANGED <<session, page, requestVars, mapVars, mishap>>

\* Of a new connection and of one made again.
onopen ==
    /\ stream.phase = "served"
    /\ stream' = [stream EXCEPT !.phase = "open"]
    /\ gets' = [gets EXCEPT !.sync = @ + 1]
    /\ UNCHANGED <<session, page, posts, stored, answers, mapVars, mishap>>

Break ==
    /\ stream.phase \in {"served", "open"}
    /\ connectStream
    /\ UNCHANGED <<session, page, requestVars, list>>

\* A list arrives: at first, and after each poll.
Snapshot(n) ==
    /\ stream.phase = "open"
    /\ renders' = Append(Outdated, [region |-> stream.region, n |-> n, i |-> 0, alone |-> renders = <<>>])
    /\ list' = n
    /\ settled' = FALSE
    /\ UNCHANGED <<session, page, requestVars, stream, mishap>>

-----------------------------------------------------------------------------
(* Drawing: a map m has markers and those of them on the map. *)

\* updateVehicle for one chunk of a list: a new marker is on the map when its
\* agency is current, one that is there stays where it was.
updateVehicle(m, v) ==
    [m EXCEPT !.markers = @ \cup {v},
              !.onmap = IF v \notin m.markers /\ v[1] = m.region THEN @ \cup {v} ELSE @]

\* Mutation of Finished: markers that the list does not hold stay.
FinishedKeeps(m, d) == [m EXCEPT !.onmap = {v \in m.markers : v[1] = m.region}]

\* dropMissing and applyAgencyFilter, after the last chunk.
Finished(m, d) ==
    LET kept == m.markers \cap Chunks(d.region, d.n)
    IN  [m EXCEPT !.markers = kept, !.onmap = {v \in kept : v[1] = m.region}]

Draw(m, d) ==
    IF d.i < d.n THEN updateVehicle(m, <<d.region, d.i + 1>>) ELSE Finished(m, d)

\* The map after one chunk of each list, the oldest list first.
Drawn(m, ds) ==
    LET after[i \in 0..Len(ds)] == IF i = 0 THEN m ELSE Draw(after[i - 1], ds[i])
    IN  after[Len(ds)]

\* The lists that ask for another frame.
Remaining(ds) ==
    LET more[i \in 0..Len(ds)] ==
          IF i = 0 THEN <<>>
          ELSE IF ds[i].i < ds[i].n THEN Append(more[i - 1], [ds[i] EXCEPT !.i = @ + 1])
          ELSE more[i - 1]
    IN  more[Len(ds)]

\* One animation frame: each list is drawn one chunk further.
Frame ==
    /\ renders # <<>>
    /\ page' = Drawn(page, renders)
    /\ renders' = Remaining(renders)
    /\ settled' = \E i \in DOMAIN renders : renders[i].alone /\ renders[i].i = renders[i].n
    /\ UNCHANGED <<session, requestVars, stream, list, mishap>>

-----------------------------------------------------------------------------
(* The requests *)

\* switchRegion, with nothing but the POST so far.
switchRegion(r) ==
    /\ stream.phase # "unloaded"
    /\ r # page.region
    /\ posts' = [posts EXCEPT ![r] = @ + 1]
    /\ UNCHANGED <<session, page, stored, gets, answers, stream, mapVars, mishap>>

\* postRegion: SetRegion, ...
PostStored(r) ==
    /\ posts[r] > 0
    /\ session' = r
    /\ posts' = [posts EXCEPT ![r] = @ - 1]
    /\ stored' = [stored EXCEPT ![r] = @ + 1]
    /\ UNCHANGED <<page, gets, answers, stream, mapVars, mishap>>

\* ... and activeRegionPayload, which reads the session again.
PostServed(r) ==
    /\ stored[r] > 0
    /\ stored' = [stored EXCEPT ![r] = @ - 1]
    /\ answers' = Append(answers, [kind |-> "post", region |-> session])
    /\ UNCHANGED <<session, page, posts, gets, stream, mapVars, mishap>>

\* The server refuses the POST, cannot save what it has stored, or the answer
\* is lost: the page stays as it was.
PostFails(r) ==
    /\ \/ /\ posts[r] > 0
          /\ posts' = [posts EXCEPT ![r] = @ - 1]
          /\ UNCHANGED <<stored, mishap>>
       \/ /\ stored[r] > 0
          /\ stored' = [stored EXCEPT ![r] = @ - 1]
          /\ mishap' = TRUE
          /\ UNCHANGED posts
    /\ UNCHANGED <<session, page, gets, answers, stream, mapVars>>

\* getRegion
GetServed(k) ==
    /\ gets[k] > 0
    /\ gets' = [gets EXCEPT ![k] = @ - 1]
    /\ answers' = Append(answers, [kind |-> k, region |-> session])
    /\ UNCHANGED <<session, page, posts, stored, stream, mapVars, mishap>>

\* A GET fails.  At load the stream is connected all the same when there was
\* an answer.
GetFails(k) ==
    /\ gets[k] > 0
    /\ gets' = [gets EXCEPT ![k] = @ - 1]
    /\ \/ k = "load" /\ connectStream
       \/ mishap' = (mishap \/ k = "sync") /\ UNCHANGED <<stream, renders, settled>>
    /\ UNCHANGED <<session, page, posts, stored, answers, list>>

\* syncRegionFromServer has its answer: the page takes over the region, the
\* map stays as it is until the next list.
Synced(i) ==
    /\ answers[i].kind = "sync"
    /\ answers' = RemoveAt(answers, i)
    /\ page' = [page EXCEPT !.region = answers[i].region]
    /\ settled' = (settled /\ answers[i].region = page.region)
    /\ mishap' = (mishap \/ i > 1)
    /\ UNCHANGED <<session, posts, stored, gets, stream, renders, list>>

\* The first sync of the page goes on to connect the stream.
Loaded(i) ==
    /\ answers[i].kind = "load"
    /\ answers' = RemoveAt(answers, i)
    /\ page' = [page EXCEPT !.region = answers[i].region]
    /\ connectStream
    /\ UNCHANGED <<session, posts, stored, gets, list>>

\* switchRegion goes on: markers of other regions go, the stream is replaced.
Switched(i) ==
    /\ answers[i].kind = "post"
    /\ answers' = RemoveAt(answers, i)
    /\ LET r == answers[i].region
       IN  page' = [region |-> r,
                    markers |-> {v \in page.markers : v[1] = r},
                    onmap |-> {v \in page.onmap : v[1] = r}]
    /\ connectStream
    /\ UNCHANGED <<session, posts, stored, gets, list>>

\* Another tab of the session stores its region, or the session is forgotten
\* and begins again with the default.
Elsewhere(r) ==
    /\ session' = r
    /\ mishap' = (mishap \/ stream.phase = "served" \/ gets.sync > 0)
    /\ UNCHANGED <<page, requestVars, stream, mapVars>>

-----------------------------------------------------------------------------
Answered ==
    \/ \E k \in DOMAIN gets : GetServed(k) \/ GetFails(k)
    \/ \E r \in Regions : PostStored(r) \/ PostServed(r) \/ PostFails(r)
    \/ \E i \in DOMAIN answers : Synced(i) \/ Loaded(i) \/ Switched(i)

Next ==
    \/ OpenPage \/ StreamServed \/ onopen \/ Break \/ Frame
    \/ \E n \in 0..MaxChunks : Snapshot(n)
    \/ Answered
    \/ \E r \in Regions : switchRegion(r) \/ Elsewhere(r)

Spec == Init /\ [][Next]_vars

-----------------------------------------------------------------------------
(* Properties *)

Maps == [region : Regions, markers : SUBSET AllChunks, onmap : SUBSET AllChunks]
Kinds == {"load", "sync", "post"}
Lists == [region : Regions, n : 0..MaxChunks, i : 0..MaxChunks, alone : BOOLEAN]

TypeOK ==
    /\ session \in Regions
    /\ page \in Maps /\ page.onmap \subseteq page.markers
    /\ posts \in [Regions -> Nat] /\ stored \in [Regions -> Nat]
    /\ gets \in [load : Nat, sync : Nat]
    /\ answers \in Seq([kind : Kinds, region : Regions])
    /\ stream \in [phase : {"unloaded", "closed", "connecting", "served", "open"}, region : Regions]
    /\ renders \in Seq(Lists) /\ \A i \in DOMAIN renders : renders[i].i <= renders[i].n
    /\ list \in 0..MaxChunks
    /\ settled \in BOOLEAN /\ mishap \in BOOLEAN

\* The page has a stream and waits for no answer.
Quiet ==
    /\ stream.phase = "open"
    /\ \A r \in Regions : posts[r] = 0 /\ stored[r] = 0
    /\ answers = <<>>
    /\ \A k \in DOMAIN gets : gets[k] = 0

\* A page that waits for nothing names the region its stream was served with,
\* whatever was clicked in a row, reconnected, or switched by other tabs before
\* the stream was served.  Not so (mishap) when since then the GET of the
\* stream failed or its answer overtook an older one, the answer to a stored
\* POST was lost, or another tab stored a region before that GET was served.
PageAgrees == Quiet /\ ~mishap => page.region = stream.region

\* When the newest list of the stream was drawn while no other list was, and
\* the page has kept its region since, the map shows exactly the vehicles of
\* that list: none of another region, and none of earlier lists, including
\* lists of streams before that were torn by a switch of region.
MapIsLatest ==
    Quiet /\ ~mishap /\ settled /\ renders = <<>> =>
       page.onmap = Chunks(stream.region, list)

\* An answer that will replace the stream is on its way.
Replaced == (\E r \in Regions : stored[r] > 0) \/ \E i \in DOMAIN answers : answers[i].kind # "sync"

\* What PageAgrees rests on: unless the stream will be replaced, the session
\* keeps the stream's region until the GET of the stream is served, and then
\* the last answer on its way, or else the page, has that region.
AgreeState ==
    ~mishap /\ ~Replaced =>
       /\ stream.phase = "served" => session = stream.region
       /\ stream.phase = "open" =>
             /\ gets.sync > 0 => session = stream.region
             /\ gets.sync = 0 /\ answers = <<>> => page.region = stream.region
             /\ gets.sync = 0 /\ answers # <<>> => answers[Len(answers)].region = stream.region

\* What MapIsLatest rests on: a list that is drawn alone is the newest one of
\* the stream, and has its chunks up to the present one among the markers; a
\* map that is settled has the markers of the newest list and no others.
DrawState ==
    /\ \A i \in DOMAIN renders :
          renders[i].alone =>
             /\ stream.phase = "open"
             /\ Len(renders) = 1
             /\ renders[i].region = stream.region /\ renders[i].n = list
             /\ Chunks(stream.region, renders[i].i) \subseteq page.markers
    /\ settled =>
          /\ stream.phase = "open"
          /\ renders = <<>>
          /\ page.markers = Chunks(stream.region, list)
          /\ page.onmap = {v \in page.markers : v[1] = page.region}

\* The inductive invariant of LivePage_proofs.
IInv == TypeOK /\ AgreeState /\ DrawState

=============================================================================
