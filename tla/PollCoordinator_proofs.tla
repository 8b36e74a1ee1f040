----------------------- MODULE PollCoordinator_proofs -----------------------
(***************************************************************************)
(* Proofs about PollCoordinator, for any set of regions, any intervals and *)
(* any duration of a fetch.                                                *)
(***************************************************************************)
EXTENDS PollHistory, TLAPS

\* The state of a fresh process satisfies IInv: no region is marked, and none
\* was fetched.
LEMMA InitInv == HistoryInit => IInv
BY TimesAssumption
   DEF HistoryInit, AtMostOne, Init, IInv, TypeOK, HistoryOK, MarksOrdered, FetchAges

\* What taking a tick or a switch out of its channel does to IInv, when the
\* loop begins to fetch region r and when it does not.
LEMMA TakeInv ==
  ASSUME IInv, Idle,
         \/ \E r \in Regions : BeginFetch(r)
         \/ UNCHANGED <<target, waited>>,
         fetched' = [r \in Regions |-> IF BeginsFetch(r) THEN 0 ELSE fetched[r]],
         ticked' \in BOOLEAN,
         pollNow' \in {pollNow, {}},
         UNCHANGED <<asked, polled, age, later, untilTick, failed>>
  PROVE  IInv'
<1>1. pollNow' \in SUBSET Regions /\ AtMostOne(pollNow')
  BY DEF IInv, TypeOK, AtMostOne
<1>2. target' \in SUBSET Regions /\ AtMostOne(target')
  BY DEF IInv, TypeOK, BeginFetch, AtMostOne
<1>3. waited' \in 0..MinFetch
  BY TimesAssumption DEF IInv, TypeOK, BeginFetch
<1>4. TypeOK'
  BY <1>1, <1>2, <1>3 DEF IInv, TypeOK
<1>5. HistoryOK'
  BY TimesAssumption DEF IInv, HistoryOK
<1>6. MarksOrdered'
  BY DEF IInv, MarksOrdered
<1>7. FetchAges'
  BY DEF IInv, HistoryOK, FetchAges, BeginsFetch, Idle
<1> QED
  BY <1>4, <1>5, <1>6, <1>7 DEF IInv

\* A mark set now is the youngest: the marks stay ordered.
LEMMA MarkKeepsOrder == IInv /\ PollDone => MarksOrdered'
<1> SUFFICES ASSUME IInv, PollDone, NEW q \in polled', NEW r \in polled'
             PROVE  /\ q # r => (q \in later'[r] <=> r \notin later'[q])
                    /\ q \in later'[r] => age'[q] <= age'[r]
  BY DEF MarksOrdered
<1>1. q \in Regions /\ r \in Regions
  BY DEF IInv, TypeOK, PollDone
<1>2. CASE r \in target
  BY <1>1, <1>2 DEF IInv, TypeOK, AtMostOne, PollDone
<1>3. CASE r \notin target /\ q \in target
  BY <1>1, <1>3 DEF IInv, TypeOK, PollDone
<1>4. CASE r \notin target /\ q \notin target
  BY <1>1, <1>4 DEF IInv, MarksOrdered, PollDone
<1> QED
  BY <1>2, <1>3, <1>4

\* The end of a fetch preserves IInv: a region that is marked was fetched no
\* later, a region that could not be written is noted in failed.
LEMMA EndInv ==
  ASSUME IInv, UNCHANGED fetched,
         \/ PollDone /\ failed' = failed \ target
         \/ PollFails /\ failed' = failed \cup target
  PROVE  IInv'
<1>1. CASE PollDone /\ failed' = failed \ target
  <2>1. TypeOK'
    BY <1>1, TimesAssumption DEF IInv, TypeOK, AtMostOne, PollDone
  <2>2. HistoryOK'
    BY <1>1 DEF IInv, HistoryOK
  <2>3. FetchAges'
    BY <1>1 DEF IInv, TypeOK, HistoryOK, FetchAges, PollDone
  <2> QED
    BY <1>1, <2>1, <2>2, <2>3, MarkKeepsOrder DEF IInv
<1>2. CASE PollFails /\ failed' = failed \cup target
  BY <1>2 DEF PollFails, timeVars, IInv, TypeOK, HistoryOK, MarksOrdered, FetchAges, AtMostOne
<1> QED
  BY <1>1, <1>2

\* Time preserves IInv: no age overtakes another.
LEMMA AdvanceInv ==
  ASSUME IInv, Advance, fetched' = Older(fetched, Floor), UNCHANGED failed
  PROVE  IInv'
<1> USE TimesAssumption DEF Advance, Older, UpTo
<1>1. TypeOK'
  BY DEF IInv, TypeOK
<1>2. HistoryOK'
  BY DEF IInv, HistoryOK
<1>3. MarksOrdered'
  BY DEF IInv, TypeOK, MarksOrdered
<1>4. FetchAges'
  BY DEF IInv, TypeOK, HistoryOK, FetchAges
<1> QED
  BY <1>1, <1>2, <1>3, <1>4 DEF IInv

\* What the sessions do preserves IInv.
LEMMA SessionsInv == IInv /\ Sessions /\ UNCHANGED historyVars => IInv'
<1> SUFFICES ASSUME IInv, Sessions, UNCHANGED historyVars PROVE IInv'
  OBVIOUS
<1> USE DEF IInv, TypeOK, HistoryOK, MarksOrdered, FetchAges, timeVars, historyVars
<1>1. ASSUME NEW q \in Regions, NEW r \in Regions, SessionsChange(q, r) PROVE IInv'
  BY <1>1 DEF SessionsChange
<1>2. ASSUME NEW r \in Regions, onRegionChange(r) PROVE IInv'
  BY <1>2 DEF onRegionChange, AtMostOne
<1> QED
  BY <1>1, <1>2 DEF Sessions

\* IInv holds in every reachable state of the poll loop.
THEOREM Invariance == HistorySpec => []IInv
<1>1. IInv /\ [HistoryNext]_allVars => IInv'
  <2> SUFFICES ASSUME IInv, [HistoryNext]_allVars PROVE IInv'
    OBVIOUS
  <2>1. CASE /\ Scheduled \/ ForRegion
             /\ fetched' = [r \in Regions |-> IF BeginsFetch(r) THEN 0 ELSE fetched[r]]
             /\ UNCHANGED failed
    <3>1. \/ \E r \in Regions : BeginFetch(r)
          \/ UNCHANGED <<target, waited>>
      BY <2>1 DEF Scheduled, ForRegion, nextDueRegion, Due, Live, IInv, TypeOK
    <3>2. /\ Idle /\ ticked' \in BOOLEAN /\ pollNow' \in {pollNow, {}}
          /\ UNCHANGED <<asked, polled, age, later, untilTick>>
      BY <2>1 DEF Scheduled, ForRegion, IInv, TypeOK
    <3> QED
      BY <2>1, <3>1, <3>2, TakeInv
  <2>2. CASE UNCHANGED allVars
    BY <2>2 DEF IInv, TypeOK, HistoryOK, MarksOrdered, FetchAges, AtMostOne,
                allVars, historyVars, vars
  <2> QED
    BY <2>1, <2>2, EndInv, AdvanceInv, SessionsInv DEF HistoryNext
<1> QED
  BY InitInv, <1>1, PTL DEF HistorySpec

-----------------------------------------------------------------------------
\* A region that is due, on either path, was not fetched within Floor unless
\* its last fetch failed: the interval of intervalLocked is never below Floor.
LEMMA StaleIsOld ==
  ASSUME IInv, NEW r \in Regions \ (failed \cup target), isStale(r)
  PROVE  fetched[r] >= Floor
<1>1. Interval(r) \in Nat /\ Interval(r) >= Floor
  <2>1. asked[r] \in Choices \cup {0}
    BY DEF IInv, TypeOK
  <2>2. asked[r] \in Nat
    <3>1. \A c \in Choices : c \in Nat
      BY TimesAssumption, Zenon
    <3>2. 0 \in Nat
      OBVIOUS
    <3> QED
      BY <2>1, <3>1, <3>2, Zenon
  <2> QED
    BY <2>2, TimesAssumption DEF Interval
<1>2. CASE r \in polled
  BY <1>1, <1>2, TimesAssumption DEF IInv, TypeOK, HistoryOK, FetchAges, isStale
<1>3. CASE r \notin polled
  BY <1>3, TimesAssumption DEF IInv, TypeOK, HistoryOK, FetchAges
<1> QED
  BY <1>2, <1>3

\* The only steps that begin a fetch are those of the loop, on a region that
\* is due.
LEMMA BeginsStale ==
  ASSUME IInv, [HistoryNext]_allVars, NEW r \in Regions, BeginsFetch(r)
  PROVE  isStale(r)
<1> USE DEF BeginsFetch
<1>1. CASE Scheduled
  BY <1>1 DEF Scheduled, BeginFetch, nextDueRegion, Due
<1>2. CASE ForRegion
  BY <1>2 DEF ForRegion, BeginFetch
<1>3. CASE PollDone \/ PollFails \/ Advance \/ Sessions \/ UNCHANGED allVars
  BY <1>3 DEF PollDone, PollFails, Advance, Sessions, SessionsChange, onRegionChange,
                allVars, vars
<1> QED
  BY <1>1, <1>2, <1>3 DEF HistoryNext

\* FloorUnlessFailed, whatever the sessions ask for and however long the
\* fetches take.
THEOREM FloorKept == HistorySpec => FloorUnlessFailed
<1>1. IInv /\ [HistoryNext]_allVars
        => [\A r \in Regions \ failed : BeginsFetch(r) => fetched[r] >= Floor]_allVars
  BY StaleIsOld, BeginsStale DEF BeginsFetch
<1> QED
  BY Invariance, <1>1, PTL DEF HistorySpec, FloorUnlessFailed

=============================================================================
