---------------------------- MODULE SessionStore ----------------------------
(***************************************************************************)
(* The browser sessions of the demo: SessionStore of                       *)
(* internal/demo/session.go with the HTTP requests that use it             *)
(* (withSession, postRegion, postPollInterval and handleVehicleStream of   *)
(* internal/web/demo).                                                     *)
(*                                                                         *)
(* A session is a cookie; it may have several requests under way, some of  *)
(* them open map streams.  The store keeps, per session, the selected      *)
(* region and poll interval and when the session last reported; it prunes  *)
(* what has been silent for SessionIdleTTL whenever somebody looks, and    *)
(* saves itself to a file.  Every method is one critical section of        *)
(* SessionStore.mu, file write included.                                   *)
(*                                                                         *)
(* The unit of time is SessionHeartbeatInterval.  LastSeen is kept as an   *)
(* age, counted up to TTL.                                                 *)
(***************************************************************************)
EXTENDS Naturals, FiniteSets

CONSTANTS
  Sessions,     \* the cookies
  Tabs,         \* the requests one session can have under way
  Regions,
  Default,      \* gtfs.DefaultRegionID
  Choices,      \* AllowedPollSeconds
  DefaultSecs,  \* DefaultPollSeconds
  TTL,          \* SessionIdleTTL
  MaxRestarts   \* bound on the number of restarts

ASSUME TabsAssumption == IsFiniteSet(Tabs)
ASSUME DefaultsAssumption == Default \in Regions /\ DefaultSecs \in Choices
ASSUME TTLAssumption == TTL \in Nat /\ TTL > 1
ASSUME MaxRestartsAssumption == MaxRestarts \in Nat

VARIABLES
  sessions,     \* SessionStore.sessions: a function on the known sessions
  live,         \* SessionStore.live: number of open streams per session
  file,         \* the sessions in the store's file
  request,      \* request[s][t]: control point of tab t's request
  beat,         \* the streams whose heartbeat ticker has fired
  restarts,     \* history: number of restarts
  idle,         \* history: time since a session last reported, up to TTL
  chosen,       \* history: the last selection of a session
  picked,       \* history: time since it was made and saved, up to TTL
  saved         \* history: the file was written the last time it had to be

storeVars == <<sessions, live, file>>
requestVars == <<request, beat>>
history == <<restarts, idle, chosen, picked, saved>>
vars == <<sessions, live, file, request, beat,
          restarts, idle, chosen, picked, saved>>

Selection == [region : Regions, secs : Choices]
State == [region : Regions, secs : Choices, age : 0..TTL]
Store == UNION {[D -> State] : D \in SUBSET Sessions}

\* "acquire": withSession has touched the session, the stream handler is about
\* to count itself; "body": a POST is reading its body; "stalled": the stream
\* handler is stuck writing to a browser that does not read.
Points == {"none", "acquire", "body", "open", "stalled"}

TypeOK ==
    /\ sessions \in Store
    /\ live \in [Sessions -> 0..Cardinality(Tabs)]
    /\ file \in Store
    /\ request \in [Sessions -> [Tabs -> Points]]
    /\ beat \in SUBSET (Sessions \X Tabs)
    /\ restarts \in 0..MaxRestarts
    /\ idle \in [Sessions -> 0..TTL]
    /\ chosen \in [Sessions -> Selection]
    /\ picked \in [Sessions -> 0..TTL]
    /\ saved \in BOOLEAN

-----------------------------------------------------------------------------
(* SessionStore *)

sessionExpired(st) == st.age >= TTL

\* Mutation of Pruned: sessions with an open stream are spared.
PrunedUnlessLive(m) ==
    [s \in {q \in DOMAIN m : ~sessionExpired(m[q]) \/ live[q] > 0} |-> m[s]]

\* What pruneExpiredLocked leaves.
Pruned(m) == [s \in {q \in DOMAIN m : ~sessionExpired(m[q])} |-> m[s]]

\* m with st stored for session s.
With(m, s, st) == [q \in DOMAIN m \cup {s} |-> IF q = s THEN st ELSE m[q]]

defaultState == [region |-> Default, secs |-> DefaultSecs, age |-> 0]
DefaultSelection == [region |-> Default, secs |-> DefaultSecs]

stateLocked(s) == IF s \in DOMAIN sessions THEN sessions[s] ELSE defaultState

\* persistLocked writes a temporary file and renames it: the file holds all of
\* m, or what it held before.
persistLocked(m) ==
    \/ file' = m /\ saved' = TRUE
    \/ UNCHANGED file /\ saved' = FALSE

\* What every report of session s does to the history.
Reported(s) == idle' = [idle EXCEPT ![s] = 0]

Chose(s, selection) == chosen' = [chosen EXCEPT ![s] = selection]

\* Mutation of Touch: the session starts over at every report.
TouchResets(s) ==
    LET m == Pruned(With(sessions, s, defaultState))
    IN  /\ sessions' = m
        /\ persistLocked(m)
        /\ Reported(s)
        /\ UNCHANGED <<chosen, picked>>

\* Mutation of Touch: a new session is not written to the file.
TouchUnsaved(s) ==
    LET m == With(sessions, s, [stateLocked(s) EXCEPT !.age = 0])
    IN  /\ sessions' = Pruned(m)
        /\ IF Pruned(m) # m THEN persistLocked(Pruned(m)) ELSE UNCHANGED <<file, saved>>
        /\ Reported(s)
        /\ IF s \in DOMAIN sessions THEN UNCHANGED chosen ELSE Chose(s, DefaultSelection)
        /\ UNCHANGED picked

\* Touch.  LastSeen is set before the pruning, so a session always survives
\* its own Touch; the file is written only for a new session or after a
\* pruning.
Touch(s) ==
    LET m == With(sessions, s, [stateLocked(s) EXCEPT !.age = 0])
    IN  /\ sessions' = Pruned(m)
        /\ IF s \notin DOMAIN sessions \/ Pruned(m) # m
           THEN persistLocked(Pruned(m))
           ELSE UNCHANGED <<file, saved>>
        /\ Reported(s)
        /\ IF s \in DOMAIN sessions THEN UNCHANGED chosen ELSE Chose(s, DefaultSelection)
        /\ UNCHANGED picked

Chosen(s, selection) ==
    With(sessions, s, [region |-> selection.region, secs |-> selection.secs, age |-> 0])

\* Mutation of Select: the file is not written.
SelectInMemory(s, selection) ==
    /\ sessions' = Pruned(Chosen(s, selection))
    /\ UNCHANGED <<file, saved>>
    /\ Reported(s)
    /\ Chose(s, selection)
    /\ picked' = [picked EXCEPT ![s] = 0]

\* SetRegion and SetPollSeconds: the selection is stored, the others are
\* pruned, the file is written; when that fails the caller gets the error and
\* the selection stays.
Select(s, selection) ==
    LET m == Pruned(Chosen(s, selection))
    IN  /\ sessions' = m
        /\ persistLocked(m)
        /\ Reported(s)
        /\ Chose(s, selection)
        /\ picked' = [picked EXCEPT ![s] = IF saved' THEN 0 ELSE TTL]

SetRegion(s, r) == Select(s, [region |-> r, secs |-> stateLocked(s).secs])
SetPollSeconds(s, c) == Select(s, [region |-> stateLocked(s).region, secs |-> c])

\* Region, PollSeconds, LiveRegionIDs, ActiveRegionIDs, RegionViewerCounts and
\* MinPollIntervalForRegion prune before they answer, and write the file if
\* there was something to prune.
Query ==
    /\ Pruned(sessions) # sessions
    /\ sessions' = Pruned(sessions)
    /\ persistLocked(Pruned(sessions))
    /\ UNCHANGED <<live, requestVars, restarts, idle, chosen, picked>>

\* LiveRegionIDs: what the poll loop polls for.
LiveRegionIDs ==
    {sessions[s].region : s \in {q \in DOMAIN sessions : live[q] > 0 /\ ~sessionExpired(sessions[q])}}

-----------------------------------------------------------------------------
(* The requests *)

At(s, t, point) == request' = [request EXCEPT ![s][t] = point]

\* withSession touches the session, then the request goes its way: a stream,
\* a POST, or something that only queries.
Request(s, t) ==
    /\ request[s][t] = "none"
    /\ Touch(s)
    /\ \E point \in {"none", "acquire", "body"} : At(s, t, point)
    /\ UNCHANGED <<live, beat, restarts>>

\* AcquireLive, before the stream's first push.
AcquireLive(s, t) ==
    /\ request[s][t] = "acquire"
    /\ live' = [live EXCEPT ![s] = @ + 1]
    /\ At(s, t, "open")
    /\ UNCHANGED <<sessions, file, beat, history>>

\* Mutation of ReleaseLive: the entry is deleted whatever its count.
ReleaseAll(s, t) ==
    /\ request[s][t] \in {"open", "stalled"}
    /\ live' = [live EXCEPT ![s] = 0]
    /\ At(s, t, "none")
    /\ beat' = beat \ {<<s, t>>}
    /\ UNCHANGED <<sessions, file, history>>

\* Mutation of ReleaseLive: the deferred call is missing.
NoRelease(s, t) ==
    /\ request[s][t] \in {"open", "stalled"}
    /\ At(s, t, "none")
    /\ beat' = beat \ {<<s, t>>}
    /\ UNCHANGED <<storeVars, history>>

\* The deferred ReleaseLive of a stream that ends: the browser left, or a
\* push to it failed.
ReleaseLive(s, t) ==
    /\ request[s][t] \in {"open", "stalled"}
    /\ live' = [live EXCEPT ![s] = IF @ > 0 THEN @ - 1 ELSE 0]
    /\ At(s, t, "none")
    /\ beat' = beat \ {<<s, t>>}
    /\ UNCHANGED <<sessions, file, history>>

\* postRegion and postPollInterval, when the body has been read.
PostRegion(s, t) ==
    /\ request[s][t] = "body"
    /\ \E r \in Regions : SetRegion(s, r)
    /\ At(s, t, "none")
    /\ UNCHANGED <<live, beat, restarts>>

PostPollInterval(s, t) ==
    /\ request[s][t] = "body"
    /\ \E c \in Choices : SetPollSeconds(s, c)
    /\ At(s, t, "none")
    /\ UNCHANGED <<live, beat, restarts>>

\* The body is no JSON, or names no region: the request ends.
BadBody(s, t) ==
    /\ request[s][t] = "body"
    /\ At(s, t, "none")
    /\ UNCHANGED <<storeVars, beat, history>>

\* Mutation of Heartbeat: it does not touch the session.
SilentHeartbeat(s, t) ==
    /\ request[s][t] = "open"
    /\ <<s, t>> \in beat
    /\ beat' = beat \ {<<s, t>>}
    /\ UNCHANGED <<storeVars, request, history>>

\* The heartbeat and the poll case of the stream's select both report.
Heartbeat(s, t) ==
    /\ request[s][t] = "open"
    /\ <<s, t>> \in beat
    /\ Touch(s)
    /\ beat' = beat \ {<<s, t>>}
    /\ UNCHANGED <<live, request, restarts>>

PollReport(s, t) ==
    /\ request[s][t] = "open"
    /\ Touch(s)
    /\ UNCHANGED <<live, requestVars, restarts>>

\* A push blocks, or goes on.
Stall(s, t) ==
    /\ request[s][t] = "open"
    /\ At(s, t, "stalled")
    /\ UNCHANGED <<storeVars, beat, history>>

Unstall(s, t) ==
    /\ request[s][t] = "stalled"
    /\ At(s, t, "open")
    /\ UNCHANGED <<storeVars, beat, history>>

-----------------------------------------------------------------------------
(* Time and restarts *)

Older(m) == [s \in DOMAIN m |-> IF m[s].age < TTL THEN [m[s] EXCEPT !.age = @ + 1] ELSE m[s]]

Longer(f) == [s \in Sessions |-> IF f[s] < TTL THEN f[s] + 1 ELSE TTL]

Streaming(s, t) == request[s][t] \in {"open", "stalled"}

\* One heartbeat interval.  By then a stream that is not stalled has taken
\* its last heartbeat, and no handler is still between two statements.
Tick ==
    /\ \A s \in Sessions, t \in Tabs :
          /\ request[s][t] # "acquire"
          /\ request[s][t] = "open" => <<s, t>> \notin beat
    /\ sessions' = Older(sessions)
    /\ file' = Older(file)
    /\ idle' = Longer(idle)
    /\ picked' = Longer(picked)
    /\ beat' = {x \in Sessions \X Tabs : Streaming(x[1], x[2])}
    /\ UNCHANGED <<live, request, restarts, chosen, saved>>

\* The process dies and a new one loads the file (OpenSessionStore): sessions
\* that are too old stay out, and no stream is open.
Restart ==
    /\ restarts < MaxRestarts
    /\ restarts' = restarts + 1
    /\ sessions' = Pruned(file)
    /\ live' = [s \in Sessions |-> 0]
    /\ request' = [s \in Sessions |-> [t \in Tabs |-> "none"]]
    /\ beat' = {}
    /\ saved' = TRUE
    /\ UNCHANGED <<file, idle, chosen, picked>>

-----------------------------------------------------------------------------
Init ==
    /\ sessions = [s \in {} |-> defaultState]
    /\ live = [s \in Sessions |-> 0]
    /\ file = [s \in {} |-> defaultState]
    /\ request = [s \in Sessions |-> [t \in Tabs |-> "none"]]
    /\ beat = {}
    /\ restarts = 0
    /\ idle = [s \in Sessions |-> TTL]
    /\ chosen = [s \in Sessions |-> DefaultSelection]
    /\ picked = [s \in Sessions |-> TTL]
    /\ saved = TRUE

Handler(s, t) ==
    \/ Request(s, t) \/ AcquireLive(s, t) \/ ReleaseLive(s, t)
    \/ PostRegion(s, t) \/ PostPollInterval(s, t) \/ BadBody(s, t)
    \/ Heartbeat(s, t) \/ PollReport(s, t) \/ Stall(s, t) \/ Unstall(s, t)

Next ==
    \/ Query \/ Tick \/ Restart
    \/ \E s \in Sessions, t \in Tabs : Handler(s, t)

Spec == Init /\ [][Next]_vars

\* The poll loop looks at the store on every tick of its own.
FairSpec == Spec /\ WF_vars(Query)

-----------------------------------------------------------------------------
(* Properties *)

\* live counts the open streams of a session: the other tabs of a session go
\* on being counted when one of them ends, and nothing is counted that has
\* ended, whatever expires or restarts in between.
LiveCount ==
    \A s \in Sessions : live[s] = Cardinality({t \in Tabs : Streaming(s, t)})

\* A stream that answers its heartbeats keeps its session known and its region
\* among the regions polled for, although Touch is all that protects it from
\* the pruning done on behalf of others.
ConnectedIsPolled ==
    \A s \in Sessions, t \in Tabs :
        request[s][t] = "open" /\ <<s, t>> \notin beat
            => s \in DOMAIN sessions /\ sessions[s].region \in LiveRegionIDs

HasSelection(s) ==
    /\ s \in DOMAIN sessions
    /\ sessions[s].region = chosen[s].region
    /\ sessions[s].secs = chosen[s].secs

\* Until a restart, a session that has reported within the TTL still has the
\* region and the interval it selected last, whether or not they were saved.
SelectionKept ==
    restarts = 0 => \A s \in Sessions : idle[s] < TTL => HasSelection(s)

\* A selection that was saved survives restarts for TTL, whatever is saved,
\* pruned or fails to be saved for other sessions in the meantime.
SelectionSurvives == \A s \in Sessions : picked[s] < TTL => HasSelection(s)

\* Unless its last write failed, the file agrees with the memory on every
\* selection, and what it holds besides is too old to be loaded: a restart
\* neither revives a pruned session nor brings back an earlier selection.
FileIsCurrent ==
    saved =>
        /\ \A s \in DOMAIN sessions :
              /\ s \in DOMAIN file
              /\ file[s].region = sessions[s].region
              /\ file[s].secs = sessions[s].secs
        /\ \A s \in DOMAIN file \ DOMAIN sessions : sessionExpired(file[s])

\* What ConnectedIsPolled rests on: since the last interval began, a stream
\* without a waiting heartbeat has reported, be it before its AcquireLive.
ConnectedIsFresh ==
    \A s \in Sessions, t \in Tabs :
        request[s][t] \in {"acquire", "open", "stalled"} /\ <<s, t>> \notin beat
            => s \in DOMAIN sessions /\ sessions[s].age = 0

\* What SelectionKept rests on: until a restart, every session in the store,
\* due for pruning or not, has its last selection (a Touch revives it), and
\* LastSeen is no older than the last report.
KeptState ==
    restarts = 0 =>
        /\ \A s \in DOMAIN sessions : HasSelection(s)
        /\ \A s \in Sessions :
              idle[s] < TTL => s \in DOMAIN sessions /\ sessions[s].age <= idle[s]

\* What SelectionSurvives rests on: a saved selection is in the memory and in
\* the file, and neither LastSeen is older than the selection.
SavedState ==
    \A s \in Sessions :
        picked[s] < TTL =>
            /\ HasSelection(s)
            /\ sessions[s].age <= picked[s]
            /\ s \in DOMAIN file
            /\ file[s].region = chosen[s].region
            /\ file[s].secs = chosen[s].secs
            /\ file[s].age <= picked[s]

\* The inductive invariant of SessionStore_proofs.
IInv ==
    /\ TypeOK /\ LiveCount /\ ConnectedIsFresh
    /\ KeptState /\ SavedState /\ FileIsCurrent

\* A session that stops reporting is cleared from the store, unless it comes
\* back: somebody always looks.
AbandonedIsCleared ==
    \A s \in Sessions :
        idle[s] = TTL ~> s \notin DOMAIN sessions \/ idle[s] < TTL

=============================================================================
