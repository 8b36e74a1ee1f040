----------------------------- MODULE MCRollback -----------------------------
(***************************************************************************)
(* The bad rollout of fencing_test.go: pod Good serves, pod Bad is         *)
(* created, opens some of the writers and never gets ready.  Good is not   *)
(* deleted; it crashes or fails to start at most MaxFaults times.          *)
(***************************************************************************)
EXTENDS WriterFencing

CONSTANTS Good, Bad,
          MaxPods,      \* bound on the number of pods ever created
          MaxFaults     \* bound on crashes and failed starts of Good

VARIABLES created, faults

MCInit == Init /\ created = 0 /\ faults = 0

MCNext ==
    /\ Next
    /\ Good \in desired => Good \in desired'
    /\ phase'[Bad] \in {"down", "opening", "closing"}
    /\ faults' = IF \/ phase[Good] \in {"opening", "hydrating"} /\ phase'[Good] = "closing"
                    \/ phase[Good] \in {"opening", "hydrating", "running"} /\ phase'[Good] = "down"
                 THEN faults + 1 ELSE faults
    /\ created' = IF desired' \subseteq desired THEN created ELSE created + 1
    /\ faults' <= MaxFaults
    /\ created' <= MaxPods

MCSpec == MCInit /\ [][MCNext]_<<vars, created, faults>>

\* Good has viewers in some region ...
WatchedSpec == MCSpec /\ ProcessFairness(Good) /\ SomePolls(Good)

\* ... or in every region.
WatchedEverywhereSpec == MCSpec /\ ProcessFairness(Good) /\ PollsOfEveryAgency(Good)

\* UnusableWriterReplaced for the pod that keeps serving.
GoodWriterReplaced == UnusableWriterReplaced(Good)

\* RollbackRecovers for the pod that keeps serving.
GoodRecovers == RollbackRecovers(Good)

=============================================================================
