----------------------------- MODULE MCGtfsPoll -----------------------------
(***************************************************************************)
(* Model-checking instance of GtfsPoll: two feeds and two vehicles, with   *)
(* the same identifier up to the first colon.                              *)
(***************************************************************************)
EXTENDS GtfsPoll, TLC

CONSTANTS F1, F2, V, VX   \* feeds and vehicles; VX stands for V:X

TwoFeeds == <<F1, F2>>

PrefixOf == V :> V @@ VX :> V

E(v, t) == [vehicle |-> v, valid |-> TRUE, at |-> t]

\* No vehicle; one without timestamp; one of the past next to one out of
\* bounds; both, one ahead of the clock.
SomeBodies ==
    {<<>>, <<E(V, 0)>>, <<[E(V, 2) EXCEPT !.valid = FALSE], E(VX, 1)>>, <<E(V, 2), E(VX, 0)>>}

\* Only the first feed sends a Retry-After.  Time passes between the feeds and
\* between the cycles.  A process is stopped in the middle of a cycle, and gone
\* only when it is idle or writes: a fetch leaves nothing behind.
MCNext ==
    /\ Next
    /\ header' = NoHeader \/ results' = <<>>
    /\ now' # now => ~ctxDone /\ (phase = "idle" \/ (Len(results) = 1 /\ phase = "fetch" /\ attempt = 0))
    /\ ctxDone' /\ ~ctxDone => phase # "idle"
    /\ restarts' # restarts => phase \in {"idle", "write"}

MCSpec == Init /\ [][MCNext]_vars /\ WF_vars(Cycle)

=============================================================================
