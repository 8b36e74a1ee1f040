------------------------------ MODULE MCPages ------------------------------
(***************************************************************************)
(* Model-checking instance of Pages.  North has two agencies with feeds,   *)
(* the agency of South has no writer; West is for the live map only.       *)
(***************************************************************************)
EXTENDS Pages

CONSTANTS North, South, West, A1, A2, Closed,   \* regions and agencies
          TimeOfA2,     \* when A2 reports
          MaxStarts,    \* bound on the number of streams ever opened
          MaxSwitches,  \* bound on the replay page's region switches
          MaxClicks, MaxForgets, MaxBreaks, MaxSnapshots,
          MaxEvents     \* bounds on events of the live map, and on their sum

VARIABLES starts, switches, events

bounds == <<starts, switches, events>>

AgencyTable == North :> <<A1, A2>> @@ South :> <<Closed>> @@ West :> <<>>

MCInit ==
    /\ PagesInit
    /\ starts = 0 /\ switches = 0
    /\ events = [click |-> 0, forget |-> 0, break |-> 0, snapshot |-> 0]

-----------------------------------------------------------------------------
\* Behind its first step and before its first frame a stream works on its own:
\* whoever stops it there could have done so before, unless retention does.
Working ==
    \/ In("fold")
    \/ /\ In("drain")
       /\ stream.drain # Drain(stream.region)
       /\ Reads(stream.drain) \/ Opens(stream.drain) \/ Skips(stream.drain)
          \/ ~Draining(stream.drain)

\* Nobody reads the feeds while a stream plays or the page is without one, so
\* they change before the first reader and between reads, of a page that does
\* not switch its region; A2 reports at one time only and has the vehicles with
\* a colon.  The catalogue and a stream of another client share nothing with
\* the page but the feeds: each of them comes alone.  A page that switches its
\* region finds one change less.
ReplayNext ==
    /\ IF Working
       THEN (Store \/ Handler) /\ UNCHANGED <<pageVars, liveVars, starts, switches>>
       ELSE \/ Start /\ starts < MaxStarts /\ starts' = starts + 1 /\ UNCHANGED <<liveVars, switches>>
            \/ Switch /\ switches < MaxSwitches /\ switches' = switches + 1 /\ UNCHANGED <<liveVars, starts>>
            \/ Else /\ UNCHANGED <<liveVars, starts, switches>>
            \/ ReplaySwitched /\ UNCHANGED <<starts, switches>>
    /\ UNCHANGED events
    /\ catalog'.phase # "idle" => starts' = 0 /\ switches' = 0 /\ catalog'.region # West
    /\ stream'.phase # "idle" /\ stream'.by = "client" =>
          starts' = 1 /\ switches' = 0 /\ stream'.region # West
    /\ page'.region # West
    /\ switches' > 0 => Len(feed[A1]) + Len(feed[A2]) < MaxChanges
    /\ feedVars' # feedVars => switches = 0 /\ (In("drain") \/ starts = 0)
    /\ oldest' # oldest => In("drain") \/ catalog.phase = "drain"
    /\ \A n \in DOMAIN feed'[A1] : feed'[A1][n].vehicle \notin ColonIDs
    /\ \A n \in DOMAIN feed'[A2] : feed'[A2][n].at = TimeOfA2

-----------------------------------------------------------------------------
\* The pages have nothing in common but the session's region, so the live map
\* is there, and the session is of interest, only while nothing is replayed,
\* written or listed.
Replaying ==
    starts > 0 \/ catalog.phase # "idle" \/ \E a \in Agencies : feed[a] # <<>>

Counted(e, max) == events[e] < max /\ events' = [events EXCEPT ![e] = @ + 1]

LiveNext ==
    /\ \/ LiveWorks /\ UNCHANGED events
       \/ SessionForgotten /\ session # FirstRegion /\ ~Replaying /\ Counted("forget", MaxForgets)
       \/ Live!Break /\ UNCHANGED vars /\ Counted("break", MaxBreaks)
       \/ (\E n \in 0..MaxChunks : Live!Snapshot(n)) /\ UNCHANGED vars /\ Counted("snapshot", MaxSnapshots)
       \/ (\E r \in Regions : Live!switchRegion(r)) /\ UNCHANGED vars /\ Counted("click", MaxClicks)
    /\ UNCHANGED <<starts, switches>>

MCNext ==
    /\ ReplayNext \/ LiveNext
    /\ Replaying' => tabStream'.phase = "unloaded" /\ \A e \in DOMAIN events' : events'[e] = 0
    /\ Replaying' /\ refused' => session' = FirstRegion
    /\ events'.click + events'.forget + events'.break + events'.snapshot + switches' <= MaxEvents

MCSpec == MCInit /\ [][MCNext]_<<vars, liveVars, bounds>>

=============================================================================
