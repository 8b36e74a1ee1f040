------------------------- MODULE MCPollCoordinator -------------------------
(***************************************************************************)
(* Model-checking instances of PollCoordinator: the poll loop with the     *)
(* fairness of its goroutine and of the clock, and the audience that       *)
(* starves a region although every fetch is quick.                         *)
(***************************************************************************)
EXTENDS PollCoordinator

CONSTANT Watched    \* the regions with viewers in the starvation run

\* Every fetch ends, written or not, and a waiting switch is taken.  Ticker and
\* pollNow may both be ready, again and again: Go's select takes either at
\* random, so a tick is not passed over for ever.  Nor do the sessions' requests
\* stop the clock.
LoopFairness ==
    /\ WF_vars(PollDone \/ PollFails)
    /\ WF_vars(ForRegion)
    /\ SF_vars(Scheduled)
    /\ SF_vars(Advance)

FairSpec == Spec /\ LoopFairness

\* The viewers of all watched regions come back to a fresh process at once.
Reconnect ==
    /\ Live = {} /\ polled = {}
    /\ asked' = [r \in Regions |-> IF r \in Watched THEN Fallback ELSE 0]
    /\ UNCHANGED <<timeVars, polled, later, pollNow, ticked, target>>

\* Time passes, but no fetch takes longer than MinFetch.
PromptAdvance == Advance /\ ~Answered

\* No switches, no failed writes and no slow fetch.
ReconnectNext == Scheduled \/ PollDone \/ PromptAdvance \/ Reconnect
ReconnectSpec ==
    /\ Init /\ [][ReconnectNext]_vars
    /\ WF_vars(Scheduled) /\ WF_vars(PollDone) /\ WF_vars(PromptAdvance)

=============================================================================
