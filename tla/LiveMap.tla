------------------------------ MODULE LiveMap ------------------------------
(***************************************************************************)
(* What the live map promises a browser, without channels or goroutines.   *)
(* The poll loop ingests positions and now and then publishes everything   *)
(* ingested so far; a connected stream shows snapshots of what has been    *)
(* ingested, and while the process is up it does not stay for ever behind  *)
(* what has been published.                                                *)
(***************************************************************************)
EXTENDS Naturals

CONSTANTS Streams,      \* the SSE connections
          MaxVersion    \* bound on the number of ingested updates

VARIABLES version,      \* number of updates applied to the live positions
          published,    \* value of version when the last poll was announced
          shown,        \* shown[s]: version of the last snapshot s received
          connected,    \* the streams a browser is listening on
          up            \* the process is running

vars == <<version, published, shown, connected, up>>

Init ==
    /\ version = 0
    /\ published = 0
    /\ shown = [s \in Streams |-> 0]
    /\ connected = {}
    /\ up = TRUE

Ingest ==
    /\ up
    /\ version < MaxVersion
    /\ version' = version + 1
    /\ UNCHANGED <<published, shown, connected, up>>

Publish ==
    /\ up
    /\ published' = version
    /\ UNCHANGED <<version, shown, connected, up>>

Join(s) ==
    /\ up
    /\ s \notin connected
    /\ connected' = connected \cup {s}
    /\ UNCHANGED <<version, published, shown, up>>

\* A snapshot is never older than what has been published.
Show(s) ==
    /\ up
    /\ s \in connected
    /\ shown' = [shown EXCEPT ![s] = version]
    /\ UNCHANGED <<version, published, connected, up>>

Leave(s) ==
    /\ up
    /\ s \in connected
    /\ connected' = connected \ {s}
    /\ UNCHANGED <<version, published, shown, up>>

Crash ==
    /\ up
    /\ up' = FALSE
    /\ UNCHANGED <<version, published, shown, connected>>

Next ==
    \/ Ingest
    \/ Publish
    \/ Crash
    \/ \E s \in Streams : Join(s) \/ Show(s) \/ Leave(s)

Behind(s) == s \in connected /\ shown[s] < published

CatchUp(s) == Behind(s) /\ Show(s)

\* The safety part: no stream ever shows what was not ingested, or less than
\* what was published when it took its snapshot.
Safety == Init /\ [][Next]_vars

Spec == Safety /\ \A s \in Streams : WF_vars(CatchUp(s))

=============================================================================
