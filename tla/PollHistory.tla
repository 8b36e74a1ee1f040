---------------------------- MODULE PollHistory ----------------------------
(***************************************************************************)
(* PollCoordinator with two history variables: when each region was last   *)
(* asked of the upstream, and whether what it answered could be written.   *)
(* They do not influence a step; the floor on the fetches is stated with   *)
(* them.                                                                   *)
(***************************************************************************)
EXTENDS PollCoordinator

VARIABLES
  fetched,      \* fetched[r]: time since a fetch of r last began, up to Floor
  failed        \* the regions whose last fetch could not be written

historyVars == <<fetched, failed>>
allVars == <<vars, historyVars>>

\* This step begins a fetch of region r.
BeginsFetch(r) == r \in target' /\ r \notin target

HistoryInit ==
    /\ Init
    /\ fetched = [r \in Regions |-> Floor]
    /\ failed = {}

HistoryNext ==
    \/ /\ Scheduled \/ ForRegion
       /\ fetched' = [r \in Regions |-> IF BeginsFetch(r) THEN 0 ELSE fetched[r]]
       /\ UNCHANGED failed
    \/ PollDone /\ failed' = failed \ target /\ UNCHANGED fetched
    \/ PollFails /\ failed' = failed \cup target /\ UNCHANGED fetched
    \/ Advance /\ fetched' = Older(fetched, Floor) /\ UNCHANGED failed
    \/ Sessions /\ UNCHANGED historyVars

HistorySpec == HistoryInit /\ [][HistoryNext]_allVars

-----------------------------------------------------------------------------
(* Properties *)

\* The upstream is not asked for a region again before Floor has passed since
\* its last fetch began, whatever intervals the sessions choose, however often
\* they switch and whichever of the two paths of the loop takes the region;
\* except that a region is fetched again at once when what was fetched could
\* not be written.
FloorUnlessFailed ==
    [][\A r \in Regions \ failed : BeginsFetch(r) => fetched[r] >= Floor]_allVars

HistoryOK ==
    /\ fetched \in [Regions -> 0..Floor]
    /\ failed \in SUBSET Regions

\* What FloorUnlessFailed rests on: unless a region is being fetched or its
\* last fetch could not be written, its mark in lastPoll is no older than the
\* beginning of that fetch, and a region without a mark was never fetched.
FetchAges ==
    \A r \in Regions \ (failed \cup target) :
        fetched[r] < Floor => r \in polled /\ age[r] <= fetched[r]

\* The inductive invariant of PollCoordinator_proofs: the types, with at most
\* one region waiting in pollNow and at most one being fetched, the order of
\* the marks in lastPoll, and what they say of the fetches.
IInv == TypeOK /\ HistoryOK /\ MarksOrdered /\ FetchAges

=============================================================================
