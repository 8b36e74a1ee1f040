-------------------------- MODULE MCWriterFencing --------------------------
(***************************************************************************)
(* Model-checking instance of WriterFencing: the number of container       *)
(* starts and of polls in a behaviour is bounded, everything else is free. *)
(***************************************************************************)
EXTENDS WriterFencing, TLC

CONSTANTS MaxStarts,    \* bound on container starts, over all pods
          MaxPolls      \* bound on polls, over all pods

VARIABLES starts, polls

MCInit == Init /\ starts = 0 /\ polls = 0

MCNext ==
    /\ Next
    /\ starts' = IF \E p \in Pods : phase[p] = "down" /\ phase'[p] = "opening"
                 THEN starts + 1 ELSE starts
    /\ polls' = IF \E p \in Pods : step[p] = "idle" /\ step'[p] = "write"
                THEN polls + 1 ELSE polls
    /\ starts' <= MaxStarts
    /\ polls' <= MaxPolls

MCSpec == MCInit /\ [][MCNext]_<<vars, starts, polls>>

Symmetry == Permutations(Pods) \cup Permutations(Agencies)

=============================================================================
