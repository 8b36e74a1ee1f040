------------------------------- MODULE Pages -------------------------------
(***************************************************************************)
(* Two tabs of one browser: the replay page (ReplayPlayer) and the live    *)
(* map (LivePage).  They have the cookie in common and so the session:     *)
(* when one of them switches its region, the other one's next request is   *)
(* answered with that region.                                              *)
(***************************************************************************)
EXTENDS ReplayPlayer

CONSTANT MaxChunks      \* chunks in the longest list of the live map

ASSUME ChunksAssumption == MaxChunks \in Nat

VARIABLES session,      \* the region of the session
          tab, tabPosts, tabStream,   \* page, posts and stream of the live map
          stored, gets, answers, renders, list, settled, mishap

liveVars == <<session, tab, tabPosts, tabStream, stored, gets, answers, renders, list,
              settled, mishap>>

Live == INSTANCE LivePage WITH page <- tab, posts <- tabPosts, stream <- tabStream

PagesInit == PlayerInit /\ Live!Init

\* The POST of the replay page is answered: the session has its region.  When
\* it is refused, that may be because the session could not be saved.
ReplaySwitched ==
    \E r \in Regions :
       \/ SwitchAnswered(r) /\ Live!Elsewhere(r)
       \/ SwitchRefused(r) /\ (Live!Elsewhere(r) \/ UNCHANGED liveVars)

\* The session has expired, or was not in the file that a restart has loaded.
SessionForgotten == Live!Elsewhere(FirstRegion) /\ UNCHANGED vars

\* What happens to the live map by itself.
LiveWorks ==
    /\ \/ Live!OpenPage \/ Live!StreamServed \/ Live!onopen \/ Live!Frame
       \/ Live!Answered
    /\ UNCHANGED vars

PagesNext ==
    \/ (Start \/ Switch \/ Else) /\ UNCHANGED liveVars
    \/ ReplaySwitched
    \/ SessionForgotten
    \/ LiveWorks
    \/ Live!Break /\ UNCHANGED vars
    \/ (\E n \in 0..MaxChunks : Live!Snapshot(n)) /\ UNCHANGED vars
    \/ (\E r \in Regions : Live!switchRegion(r)) /\ UNCHANGED vars

PagesSpec == PagesInit /\ [][PagesNext]_<<vars, liveVars>>

-----------------------------------------------------------------------------
(* Properties *)

\* The inductive invariants of both pages: the replay page with its streams and
\* the catalogue, and the live map.
PagesIInv == IInv /\ Live!IInv

\* The live map names the region of its stream, although the replay page
\* switches the session's region.
PageAgrees == Live!PageAgrees

\* The live map shows the vehicles of the newest list, and no others.
MapIsLatest == Live!MapIsLatest

=============================================================================
