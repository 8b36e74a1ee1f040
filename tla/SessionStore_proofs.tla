------------------------ MODULE SessionStore_proofs ------------------------
(***************************************************************************)
(* Proofs about SessionStore, for any sessions, any finite set of tabs,    *)
(* any selections, any TTL and any number of restarts.                     *)
(***************************************************************************)
EXTENDS SessionStore, FiniteSetTheorems, TLAPS

(* The operators on the map of sessions *)

\* The members of Store are the functions from known sessions to states.
LEMMA StoreType ==
  ASSUME NEW m
  PROVE  m \in Store <=> /\ m = [s \in DOMAIN m |-> m[s]]
                         /\ DOMAIN m \subseteq Sessions
                         /\ \A s \in DOMAIN m : m[s] \in State
<1>1. ASSUME m \in Store PROVE \E D \in SUBSET Sessions : m \in [D -> State]
  BY <1>1 DEF Store
<1>2. ASSUME DOMAIN m \subseteq Sessions, m \in [DOMAIN m -> State] PROVE m \in Store
  BY <1>2 DEF Store
<1> QED
  BY <1>1, <1>2

\* pruneExpiredLocked keeps exactly the sessions that are not expired, as they
\* are.
LEMMA PrunedFacts ==
  ASSUME NEW m \in Store
  PROVE  /\ Pruned(m) \in Store
         /\ DOMAIN Pruned(m) \subseteq DOMAIN m
         /\ \A q \in DOMAIN m : q \in DOMAIN Pruned(m) <=> m[q].age < TTL
         /\ \A q \in DOMAIN Pruned(m) : Pruned(m)[q] = m[q]
<1>1. /\ m = [s \in DOMAIN m |-> m[s]]
      /\ DOMAIN m \subseteq Sessions
      /\ \A s \in DOMAIN m : m[s] \in State
  BY StoreType
<1>2. /\ DOMAIN Pruned(m) = {q \in DOMAIN m : ~sessionExpired(m[q])}
      /\ \A q \in DOMAIN Pruned(m) : Pruned(m)[q] = m[q]
      /\ Pruned(m) = [s \in DOMAIN Pruned(m) |-> Pruned(m)[s]]
  BY DEF Pruned
<1>3. Pruned(m) \in Store
  BY <1>1, <1>2, StoreType
<1>4. \A q \in DOMAIN m : ~sessionExpired(m[q]) <=> m[q].age < TTL
  BY <1>1, TTLAssumption DEF sessionExpired, State
<1> QED
  BY <1>2, <1>3, <1>4

\* Storing the state st of session s leaves the other sessions alone.
LEMMA WithFacts ==
  ASSUME NEW m \in Store, NEW s \in Sessions, NEW st \in State
  PROVE  /\ With(m, s, st) \in Store
         /\ DOMAIN With(m, s, st) = DOMAIN m \cup {s}
         /\ With(m, s, st)[s] = st
         /\ \A q \in DOMAIN m \ {s} : With(m, s, st)[q] = m[q]
<1>1. /\ m = [q \in DOMAIN m |-> m[q]]
      /\ DOMAIN m \subseteq Sessions
      /\ \A q \in DOMAIN m : m[q] \in State
  BY StoreType
<1>2. /\ DOMAIN With(m, s, st) = DOMAIN m \cup {s}
      /\ With(m, s, st)[s] = st
      /\ \A q \in DOMAIN m \ {s} : With(m, s, st)[q] = m[q]
      /\ With(m, s, st) = [q \in DOMAIN With(m, s, st) |-> With(m, s, st)[q]]
  BY DEF With
<1> QED
  BY <1>1, <1>2, StoreType

\* A report of session s, by Touch or with a selection, is stored before the
\* expired sessions are pruned: s survives it, every other session stays as it
\* is or goes because it is expired.
LEMMA ReportFacts ==
  ASSUME NEW m \in Store, NEW s \in Sessions, NEW st \in State, st.age = 0,
         NEW n, n = Pruned(With(m, s, st))
  PROVE  /\ n \in Store
         /\ DOMAIN n \subseteq DOMAIN m \cup {s}
         /\ s \in DOMAIN n
         /\ n[s] = st
         /\ \A q \in DOMAIN m : q # s => (q \in DOMAIN n <=> m[q].age < TTL)
         /\ \A q \in DOMAIN n : q # s => q \in DOMAIN m /\ n[q] = m[q]
<1> DEFINE w == With(m, s, st)
<1>1. /\ w \in Store
      /\ DOMAIN w = DOMAIN m \cup {s}
      /\ w[s] = st
      /\ \A q \in DOMAIN m \ {s} : w[q] = m[q]
  BY WithFacts
<1>2. w[s].age < TTL
  BY <1>1, TTLAssumption
<1>3. /\ Pruned(w) \in Store
      /\ DOMAIN Pruned(w) \subseteq DOMAIN w
      /\ \A q \in DOMAIN w : q \in DOMAIN Pruned(w) <=> w[q].age < TTL
      /\ \A q \in DOMAIN Pruned(w) : Pruned(w)[q] = w[q]
  BY <1>1, PrunedFacts
<1> HIDE DEF w
<1>4. n = Pruned(w)
  BY DEF w
<1> QED
  BY <1>1, <1>2, <1>3, <1>4

\* Time changes the ages only, and keeps them within TTL.
LEMMA OlderFacts ==
  ASSUME NEW m \in Store
  PROVE  /\ Older(m) \in Store
         /\ DOMAIN Older(m) = DOMAIN m
         /\ \A q \in DOMAIN m :
               /\ Older(m)[q].region = m[q].region
               /\ Older(m)[q].secs = m[q].secs
               /\ Older(m)[q].age = IF m[q].age < TTL THEN m[q].age + 1 ELSE m[q].age
<1>1. /\ m = [q \in DOMAIN m |-> m[q]]
      /\ DOMAIN m \subseteq Sessions
      /\ \A q \in DOMAIN m : m[q] \in State
  BY StoreType
<1>2. /\ DOMAIN Older(m) = DOMAIN m
      /\ Older(m) = [q \in DOMAIN Older(m) |-> Older(m)[q]]
      /\ \A q \in DOMAIN m :
            Older(m)[q] = IF m[q].age < TTL THEN [m[q] EXCEPT !.age = @ + 1] ELSE m[q]
  BY DEF Older
<1>3. ASSUME NEW q \in DOMAIN m
      PROVE  /\ Older(m)[q] \in State
             /\ Older(m)[q].region = m[q].region
             /\ Older(m)[q].secs = m[q].secs
             /\ Older(m)[q].age = IF m[q].age < TTL THEN m[q].age + 1 ELSE m[q].age
  BY <1>1, <1>2, TTLAssumption DEF State
<1> QED
  BY <1>1, <1>2, <1>3, StoreType

-----------------------------------------------------------------------------
(* The store and its file *)

\* The part of IInv about the store, its file and the histories of both.
StoreInv ==
    /\ sessions \in Store /\ file \in Store
    /\ idle \in [Sessions -> 0..TTL]
    /\ chosen \in [Sessions -> Selection]
    /\ picked \in [Sessions -> 0..TTL]
    /\ saved \in BOOLEAN
    /\ KeptState /\ SavedState /\ FileIsCurrent

\* The sessions that have just reported: what requests rely on.
Fresh == {q \in DOMAIN sessions : sessions[q].age = 0}

\* What is known of the states of a store.
LEMMA StateFacts ==
  ASSUME NEW m \in Store, NEW q \in DOMAIN m
  PROVE  /\ q \in Sessions
         /\ m[q] \in State
         /\ m[q].region \in Regions
         /\ m[q].secs \in Choices
         /\ m[q].age \in 0..TTL
         /\ sessionExpired(m[q]) <=> ~(m[q].age < TTL)
<1>1. q \in Sessions /\ m[q] \in State
  BY StoreType
<1> QED
  BY <1>1, TTLAssumption DEF State, sessionExpired

\* A report of session s that stores st, writes the file or does not have to,
\* and leaves in chosen what st selects.
LEMMA ReportStore ==
  ASSUME StoreInv, NEW s \in Sessions, NEW st \in State, st.age = 0,
         sessions' = Pruned(With(sessions, s, st)),
         \/ persistLocked(sessions')
         \/ UNCHANGED <<file, saved>> /\ DOMAIN sessions' = DOMAIN sessions
            /\ s \in DOMAIN sessions
            /\ st.region = sessions[s].region /\ st.secs = sessions[s].secs,
         idle' = [idle EXCEPT ![s] = 0],
         UNCHANGED restarts,
         chosen' \in [Sessions -> Selection],
         \A q \in Sessions \ {s} : chosen'[q] = chosen[q],
         restarts = 0 \/ picked'[s] < TTL
            => st.region = chosen'[s].region /\ st.secs = chosen'[s].secs,
         picked' \in [Sessions -> 0..TTL],
         \A q \in Sessions \ {s} : picked'[q] = picked[q],
         picked'[s] < TTL =>
            \/ file' = sessions'
            \/ picked'[s] = picked[s] /\ chosen'[s] = chosen[s]
  PROVE  StoreInv' /\ Fresh \cup {s} \subseteq Fresh'
<1>1. /\ sessions' \in Store
      /\ DOMAIN sessions' \subseteq DOMAIN sessions \cup {s}
      /\ s \in DOMAIN sessions'
      /\ sessions'[s] = st
      /\ \A q \in DOMAIN sessions :
            q # s => (q \in DOMAIN sessions' <=> sessions[q].age < TTL)
      /\ \A q \in DOMAIN sessions' :
            q # s => q \in DOMAIN sessions /\ sessions'[q] = sessions[q]
  BY ReportFacts DEF StoreInv
<1>2. \/ file' = sessions' /\ saved' = TRUE
      \/ file' = file /\ saved' = FALSE
      \/ /\ file' = file /\ saved' = saved
         /\ DOMAIN sessions' = DOMAIN sessions
         /\ s \in DOMAIN sessions
         /\ st.region = sessions[s].region /\ st.secs = sessions[s].secs
  BY DEF persistLocked
<1>3. Fresh \cup {s} \subseteq Fresh'
  BY <1>1, TTLAssumption DEF Fresh
<1>4. KeptState'
  <2> SUFFICES ASSUME restarts = 0
               PROVE  /\ \A q \in DOMAIN sessions' : HasSelection(q)'
                      /\ \A q \in Sessions : idle'[q] < TTL
                            => q \in DOMAIN sessions' /\ sessions'[q].age <= idle'[q]
    BY DEF KeptState
  <2>1. ASSUME NEW q \in DOMAIN sessions' PROVE HasSelection(q)'
    <3>1. CASE q = s
      BY <1>1, <3>1 DEF HasSelection
    <3>2. CASE q # s
      <4>1. q \in DOMAIN sessions /\ q \in Sessions
        BY <1>1, <3>2, StateFacts
      <4>2. HasSelection(q)
        BY <4>1 DEF StoreInv, KeptState
      <4> QED
        BY <1>1, <3>2, <4>1, <4>2 DEF HasSelection
    <3> QED
      BY <3>1, <3>2
  <2>2. ASSUME NEW q \in Sessions, idle'[q] < TTL
        PROVE  q \in DOMAIN sessions' /\ sessions'[q].age <= idle'[q]
    <3>1. CASE q = s
      BY <1>1, <3>1 DEF StoreInv
    <3>2. CASE q # s
      <4>1. idle'[q] = idle[q] /\ idle[q] \in 0..TTL
        BY <3>2 DEF StoreInv
      <4>2. q \in DOMAIN sessions /\ sessions[q].age <= idle[q]
        BY <2>2, <4>1 DEF StoreInv, KeptState
      <4>3. sessions[q].age \in 0..TTL
        BY <4>2, StateFacts DEF StoreInv
      <4>4. sessions[q].age < TTL
        BY <2>2, <4>1, <4>2, <4>3, TTLAssumption
      <4> QED
        BY <1>1, <3>2, <4>1, <4>2, <4>4
    <3> QED
      BY <3>1, <3>2
  <2> QED
    BY <2>1, <2>2
<1>5. SavedState'
  <2> SUFFICES ASSUME NEW q \in Sessions, picked'[q] < TTL
               PROVE  /\ HasSelection(q)'
                      /\ sessions'[q].age <= picked'[q]
                      /\ q \in DOMAIN file'
                      /\ file'[q].region = chosen'[q].region
                      /\ file'[q].secs = chosen'[q].secs
                      /\ file'[q].age <= picked'[q]
    BY DEF SavedState
  <2>1. CASE q = s
    <3>1. HasSelection(q)' /\ sessions'[q].age <= picked'[q]
      BY <1>1, <2>1 DEF HasSelection
    <3>2. CASE file' = sessions'
      BY <3>1, <3>2 DEF HasSelection
    <3>3. CASE file' = file /\ picked'[s] = picked[s] /\ chosen'[s] = chosen[s]
      BY <2>1, <3>1, <3>3 DEF StoreInv, SavedState
    <3> QED
      BY <1>2, <2>1, <3>2, <3>3
  <2>2. CASE q # s
    <3>1. picked'[q] = picked[q] /\ chosen'[q] = chosen[q]
      BY <2>2
    <3>2. /\ HasSelection(q)
          /\ sessions[q].age <= picked[q]
          /\ q \in DOMAIN file
          /\ file[q].region = chosen[q].region
          /\ file[q].secs = chosen[q].secs
          /\ file[q].age <= picked[q]
      BY <3>1 DEF StoreInv, SavedState
    <3>3. sessions[q].age \in 0..TTL
      BY <3>2, StateFacts DEF StoreInv, HasSelection
    <3>4. q \in DOMAIN sessions' /\ sessions'[q] = sessions[q]
      BY <1>1, <2>2, <3>1, <3>2, <3>3, TTLAssumption DEF HasSelection, StoreInv
    <3>5. HasSelection(q)' /\ sessions'[q].age <= picked'[q]
      BY <3>1, <3>2, <3>4 DEF HasSelection
    <3> QED
      BY <1>2, <3>1, <3>2, <3>5 DEF HasSelection
  <2> QED
    BY <2>1, <2>2
<1>6. FileIsCurrent'
  <2>1. CASE file' = sessions' /\ saved' = TRUE
    BY <2>1 DEF FileIsCurrent
  <2>2. CASE saved' = FALSE
    BY <2>2 DEF FileIsCurrent
  <2>3. CASE /\ file' = file /\ saved' = saved
             /\ DOMAIN sessions' = DOMAIN sessions
             /\ s \in DOMAIN sessions
             /\ st.region = sessions[s].region /\ st.secs = sessions[s].secs
    BY <1>1, <2>3 DEF StoreInv, FileIsCurrent
  <2> QED
    BY <1>2, <2>1, <2>2, <2>3
<1>7. file' \in Store /\ saved' \in BOOLEAN
  BY <1>1, <1>2 DEF StoreInv
<1>8. idle' \in [Sessions -> 0..TTL]
  BY TTLAssumption DEF StoreInv
<1> QED
  BY <1>1, <1>3, <1>4, <1>5, <1>6, <1>7, <1>8 DEF StoreInv

\* Touch, from whichever request: a known session keeps its selection, even
\* when it is due for pruning, and an unknown one starts with the defaults.
LEMMA TouchStore ==
  ASSUME StoreInv, NEW s \in Sessions, Touch(s), UNCHANGED restarts
  PROVE  StoreInv' /\ Fresh \cup {s} \subseteq Fresh'
<1> DEFINE st == [stateLocked(s) EXCEPT !.age = 0]
<1> DEFINE m == With(sessions, s, st)
<1>1. stateLocked(s) \in State
  <2>1. defaultState \in State
    BY DefaultsAssumption, TTLAssumption DEF defaultState, State
  <2> QED
    BY <2>1, StateFacts DEF stateLocked, StoreInv
<1>2. /\ st \in State /\ st.age = 0
      /\ st.region = stateLocked(s).region
      /\ st.secs = stateLocked(s).secs
  BY <1>1, TTLAssumption DEF State
<1>3. /\ sessions' = Pruned(m)
      /\ \/ persistLocked(Pruned(m))
         \/ UNCHANGED <<file, saved>> /\ s \in DOMAIN sessions /\ Pruned(m) = m
      /\ idle' = [idle EXCEPT ![s] = 0]
      /\ IF s \in DOMAIN sessions THEN chosen' = chosen
         ELSE chosen' = [chosen EXCEPT ![s] = DefaultSelection]
      /\ picked' = picked
  BY DEF Touch, Reported, Chose
<1>4. DOMAIN m = DOMAIN sessions \cup {s}
  BY <1>2, WithFacts DEF StoreInv
<1>5. \/ persistLocked(sessions')
      \/ UNCHANGED <<file, saved>> /\ DOMAIN sessions' = DOMAIN sessions
         /\ s \in DOMAIN sessions
         /\ st.region = sessions[s].region /\ st.secs = sessions[s].secs
  <2> HIDE DEF m
  <2>1. CASE persistLocked(Pruned(m))
    BY <1>3, <2>1
  <2>2. CASE UNCHANGED <<file, saved>> /\ s \in DOMAIN sessions /\ Pruned(m) = m
    BY <1>2, <1>3, <1>4, <2>2 DEF stateLocked
  <2> QED
    BY <1>3, <2>1, <2>2
<1> HIDE DEF st
<1>6. /\ chosen' \in [Sessions -> Selection]
      /\ \A q \in Sessions \ {s} : chosen'[q] = chosen[q]
  BY <1>3, DefaultsAssumption DEF StoreInv, Selection, DefaultSelection
<1>7. ASSUME restarts = 0 \/ picked'[s] < TTL
      PROVE  st.region = chosen'[s].region /\ st.secs = chosen'[s].secs
  <2>1. CASE s \in DOMAIN sessions
    <3>1. HasSelection(s)
      BY <1>3, <1>7, <2>1 DEF StoreInv, KeptState, SavedState
    <3> QED
      BY <1>2, <1>3, <2>1, <3>1 DEF HasSelection, stateLocked
  <2>2. CASE s \notin DOMAIN sessions
    <3>1. chosen'[s] = DefaultSelection
      BY <1>3, <2>2 DEF StoreInv
    <3> QED
      BY <1>2, <2>2, <3>1 DEF stateLocked, defaultState, DefaultSelection
  <2> QED
    BY <2>1, <2>2
<1>8. ASSUME picked'[s] < TTL PROVE picked'[s] = picked[s] /\ chosen'[s] = chosen[s]
  <2>1. s \in DOMAIN sessions
    BY <1>3, <1>8 DEF StoreInv, SavedState, HasSelection
  <2> QED
    BY <1>3, <2>1
<1>9. picked' \in [Sessions -> 0..TTL] /\ \A q \in Sessions \ {s} : picked'[q] = picked[q]
  BY <1>3 DEF StoreInv
<1> QED
  BY <1>2, <1>3, <1>5, <1>6, <1>7, <1>8, <1>9, ReportStore

\* SetRegion and SetPollSeconds: the selection is stored whether or not the
\* file could be written, and counts as saved only if it could.
LEMMA SelectStore ==
  ASSUME StoreInv, NEW s \in Sessions, NEW selection \in Selection,
         Select(s, selection), UNCHANGED restarts
  PROVE  StoreInv' /\ Fresh \cup {s} \subseteq Fresh'
<1> DEFINE st == [region |-> selection.region, secs |-> selection.secs, age |-> 0]
<1>1. /\ st \in State /\ st.age = 0
      /\ st.region = selection.region /\ st.secs = selection.secs
  BY TTLAssumption DEF State, Selection
<1>2. /\ sessions' = Pruned(With(sessions, s, st))
      /\ persistLocked(sessions')
      /\ idle' = [idle EXCEPT ![s] = 0]
      /\ chosen' = [chosen EXCEPT ![s] = selection]
      /\ picked' = [picked EXCEPT ![s] = IF saved' THEN 0 ELSE TTL]
  BY DEF Select, Chosen, Reported, Chose
<1> HIDE DEF st
<1>3. /\ chosen' \in [Sessions -> Selection]
      /\ chosen'[s] = selection
      /\ \A q \in Sessions \ {s} : chosen'[q] = chosen[q]
  BY <1>2 DEF StoreInv
<1>4. /\ picked' \in [Sessions -> 0..TTL]
      /\ picked'[s] = IF saved' THEN 0 ELSE TTL
      /\ \A q \in Sessions \ {s} : picked'[q] = picked[q]
  BY <1>2, TTLAssumption DEF StoreInv
<1>5. picked'[s] < TTL => file' = sessions'
  BY <1>2, <1>4, TTLAssumption DEF persistLocked
<1> QED
  BY <1>1, <1>2, <1>3, <1>4, <1>5, ReportStore

\* postRegion and postPollInterval select among what the page offers.
LEMMA PostStore ==
  ASSUME StoreInv, NEW s \in Sessions, UNCHANGED restarts,
         \/ \E r \in Regions : SetRegion(s, r)
         \/ \E c \in Choices : SetPollSeconds(s, c)
  PROVE  StoreInv' /\ Fresh \cup {s} \subseteq Fresh'
<1>1. stateLocked(s).region \in Regions /\ stateLocked(s).secs \in Choices
  BY StateFacts, DefaultsAssumption DEF stateLocked, defaultState, StoreInv
<1>2. \E selection \in Selection : Select(s, selection)
  BY <1>1 DEF SetRegion, SetPollSeconds, Selection
<1> QED
  BY <1>2, SelectStore

\* Query prunes what no report protects.
LEMMA QueryStore ==
  ASSUME StoreInv, Query
  PROVE  StoreInv' /\ Fresh \subseteq Fresh'
<1> DEFINE n == Pruned(sessions)
<1>1. /\ n \in Store
      /\ DOMAIN n \subseteq DOMAIN sessions
      /\ \A q \in DOMAIN sessions : q \in DOMAIN n <=> sessions[q].age < TTL
      /\ \A q \in DOMAIN n : n[q] = sessions[q]
  BY PrunedFacts DEF StoreInv
<1>2. /\ sessions' = n
      /\ \/ file' = n /\ saved' = TRUE
         \/ file' = file /\ saved' = FALSE
      /\ UNCHANGED <<restarts, idle, chosen, picked>>
  BY DEF Query, persistLocked
<1> HIDE DEF n
<1>3. Fresh \subseteq Fresh'
  BY <1>1, <1>2, TTLAssumption DEF Fresh
<1>4. ASSUME NEW q \in Sessions, NEW bound \in 0..TTL, bound < TTL,
             q \in DOMAIN sessions, sessions[q].age <= bound
      PROVE  q \in DOMAIN sessions' /\ sessions'[q] = sessions[q]
  <2>1. sessions[q].age \in 0..TTL
    BY <1>4, StateFacts DEF StoreInv
  <2> QED
    BY <1>1, <1>2, <1>4, <2>1, TTLAssumption
<1>5. KeptState'
  <2> SUFFICES ASSUME restarts = 0
               PROVE  /\ \A q \in DOMAIN sessions' : HasSelection(q)'
                      /\ \A q \in Sessions : idle[q] < TTL
                            => q \in DOMAIN sessions' /\ sessions'[q].age <= idle[q]
    BY <1>2 DEF KeptState
  <2>1. \A q \in DOMAIN sessions' : HasSelection(q)'
    BY <1>1, <1>2 DEF StoreInv, KeptState, HasSelection
  <2>2. ASSUME NEW q \in Sessions, idle[q] < TTL
        PROVE  q \in DOMAIN sessions' /\ sessions'[q].age <= idle[q]
    <3>1. q \in DOMAIN sessions /\ sessions[q].age <= idle[q] /\ idle[q] \in 0..TTL
      BY <2>2 DEF StoreInv, KeptState
    <3> QED
      BY <1>4, <2>2, <3>1
  <2> QED
    BY <2>1, <2>2
<1>6. SavedState'
  <2> SUFFICES ASSUME NEW q \in Sessions, picked[q] < TTL
               PROVE  /\ HasSelection(q)'
                      /\ sessions'[q].age <= picked[q]
                      /\ q \in DOMAIN file'
                      /\ file'[q].region = chosen[q].region
                      /\ file'[q].secs = chosen[q].secs
                      /\ file'[q].age <= picked[q]
    BY <1>2 DEF SavedState
  <2>1. q \in DOMAIN sessions' /\ sessions'[q] = sessions[q]
    BY <1>4 DEF StoreInv, SavedState, HasSelection
  <2> QED
    BY <1>2, <2>1 DEF StoreInv, SavedState, HasSelection
<1>7. FileIsCurrent'
  BY <1>2 DEF FileIsCurrent
<1> QED
  BY <1>1, <1>2, <1>3, <1>5, <1>6, <1>7 DEF StoreInv

\* An interval of time: LastSeen and the histories grow old together.
LEMMA TickStore ==
  ASSUME StoreInv, Tick
  PROVE  StoreInv'
<1>1. /\ sessions' = Older(sessions) /\ file' = Older(file)
      /\ idle' = Longer(idle) /\ picked' = Longer(picked)
      /\ UNCHANGED <<restarts, chosen, saved>>
  BY DEF Tick
<1>2. /\ sessions' \in Store
      /\ DOMAIN sessions' = DOMAIN sessions
      /\ \A q \in DOMAIN sessions :
            /\ sessions'[q].region = sessions[q].region
            /\ sessions'[q].secs = sessions[q].secs
            /\ sessions'[q].age = IF sessions[q].age < TTL THEN sessions[q].age + 1
                                                           ELSE sessions[q].age
  BY <1>1, OlderFacts DEF StoreInv
<1>3. /\ file' \in Store
      /\ DOMAIN file' = DOMAIN file
      /\ \A q \in DOMAIN file :
            /\ file'[q].region = file[q].region
            /\ file'[q].secs = file[q].secs
            /\ file'[q].age = IF file[q].age < TTL THEN file[q].age + 1
                                                   ELSE file[q].age
  BY <1>1, OlderFacts DEF StoreInv
<1>4. /\ \A q \in DOMAIN sessions : sessions[q].age \in 0..TTL
      /\ \A q \in DOMAIN file : file[q].age \in 0..TTL
  BY StateFacts DEF StoreInv
<1>5. /\ idle' \in [Sessions -> 0..TTL]
      /\ picked' \in [Sessions -> 0..TTL]
      /\ \A q \in Sessions :
            /\ idle'[q] < TTL => idle[q] < TTL /\ idle'[q] = idle[q] + 1
            /\ picked'[q] < TTL => picked[q] < TTL /\ picked'[q] = picked[q] + 1
  BY <1>1, TTLAssumption DEF StoreInv, Longer
<1>6. KeptState'
  <2> SUFFICES ASSUME restarts = 0
               PROVE  /\ \A q \in DOMAIN sessions' : HasSelection(q)'
                      /\ \A q \in Sessions : idle'[q] < TTL
                            => q \in DOMAIN sessions' /\ sessions'[q].age <= idle'[q]
    BY <1>1 DEF KeptState
  <2>1. \A q \in DOMAIN sessions' : HasSelection(q)'
    BY <1>1, <1>2 DEF StoreInv, KeptState, HasSelection
  <2>2. ASSUME NEW q \in Sessions, idle'[q] < TTL
        PROVE  q \in DOMAIN sessions' /\ sessions'[q].age <= idle'[q]
    <3>1. /\ q \in DOMAIN sessions /\ sessions[q].age <= idle[q]
          /\ idle[q] \in 0..TTL /\ idle'[q] = idle[q] + 1
      BY <1>5, <2>2 DEF StoreInv, KeptState
    <3> QED
      BY <1>2, <1>4, <3>1, TTLAssumption
  <2> QED
    BY <2>1, <2>2
<1>7. SavedState'
  <2> SUFFICES ASSUME NEW q \in Sessions, picked'[q] < TTL
               PROVE  /\ HasSelection(q)'
                      /\ sessions'[q].age <= picked'[q]
                      /\ q \in DOMAIN file'
                      /\ file'[q].region = chosen[q].region
                      /\ file'[q].secs = chosen[q].secs
                      /\ file'[q].age <= picked'[q]
    BY <1>1 DEF SavedState
  <2>1. picked[q] \in 0..TTL /\ picked[q] < TTL /\ picked'[q] = picked[q] + 1
    BY <1>5 DEF StoreInv
  <2>2. /\ HasSelection(q)
        /\ sessions[q].age <= picked[q]
        /\ q \in DOMAIN file
        /\ file[q].region = chosen[q].region
        /\ file[q].secs = chosen[q].secs
        /\ file[q].age <= picked[q]
    BY <2>1 DEF StoreInv, SavedState
  <2>3. HasSelection(q)'
    BY <1>1, <1>2, <2>2 DEF HasSelection
  <2>4. sessions'[q].age <= picked'[q]
    BY <1>2, <1>4, <2>1, <2>2, TTLAssumption DEF HasSelection
  <2>5. file'[q].age <= picked'[q]
    BY <1>3, <1>4, <2>1, <2>2, TTLAssumption
  <2> QED
    BY <1>3, <2>2, <2>3, <2>4, <2>5
<1>8. FileIsCurrent'
  BY <1>1, <1>2, <1>3, <1>4, TTLAssumption DEF StoreInv, FileIsCurrent, sessionExpired
<1> QED
  BY <1>1, <1>2, <1>3, <1>5, <1>6, <1>7, <1>8 DEF StoreInv

\* A restart loads what the file holds and is not expired.
LEMMA RestartStore ==
  ASSUME StoreInv, restarts \in Nat, Restart
  PROVE  StoreInv'
<1> DEFINE n == Pruned(file)
<1>1. /\ n \in Store
      /\ DOMAIN n \subseteq DOMAIN file
      /\ \A q \in DOMAIN file : q \in DOMAIN n <=> file[q].age < TTL
      /\ \A q \in DOMAIN n : n[q] = file[q]
  BY PrunedFacts DEF StoreInv
<1>2. /\ sessions' = n
      /\ UNCHANGED <<file, idle, chosen, picked>>
      /\ saved' = TRUE /\ restarts' = restarts + 1
  BY DEF Restart
<1> HIDE DEF n
<1>3. KeptState'
  BY <1>2 DEF KeptState
<1>4. SavedState'
  <2> SUFFICES ASSUME NEW q \in Sessions, picked[q] < TTL
               PROVE  /\ HasSelection(q)'
                      /\ sessions'[q].age <= picked[q]
                      /\ q \in DOMAIN file
                      /\ file[q].region = chosen[q].region
                      /\ file[q].secs = chosen[q].secs
                      /\ file[q].age <= picked[q]
    BY <1>2 DEF SavedState
  <2>1. /\ q \in DOMAIN file
        /\ file[q].region = chosen[q].region
        /\ file[q].secs = chosen[q].secs
        /\ file[q].age <= picked[q]
        /\ picked[q] \in 0..TTL
    BY DEF StoreInv, SavedState
  <2>2. file[q].age \in 0..TTL
    BY <2>1, StateFacts DEF StoreInv
  <2>3. q \in DOMAIN sessions' /\ sessions'[q] = file[q]
    BY <1>1, <1>2, <2>1, <2>2, TTLAssumption
  <2> QED
    BY <1>2, <2>1, <2>3 DEF HasSelection
<1>5. FileIsCurrent'
  <2>1. \A q \in DOMAIN file : q \in DOMAIN n \/ sessionExpired(file[q])
    BY <1>1, StateFacts DEF StoreInv
  <2> QED
    BY <1>1, <1>2, <2>1 DEF FileIsCurrent
<1> QED
  BY <1>1, <1>2, <1>3, <1>4, <1>5 DEF StoreInv

-----------------------------------------------------------------------------
(* The requests *)

\* The part of IInv about the requests and the count of the streams.
RequestInv ==
    /\ live \in [Sessions -> 0..Cardinality(Tabs)]
    /\ request \in [Sessions -> [Tabs -> Points]]
    /\ beat \in SUBSET (Sessions \X Tabs)
    /\ LiveCount /\ ConnectedIsFresh

\* The streams of a session that count in live.
Streams(s) == {t \in Tabs : Streaming(s, t)}

\* A step of one request moves that request only.
LEMMA AtFacts ==
  ASSUME request \in [Sessions -> [Tabs -> Points]],
         NEW s \in Sessions, NEW t \in Tabs, NEW point \in Points, At(s, t, point)
  PROVE  /\ request' \in [Sessions -> [Tabs -> Points]]
         /\ request'[s][t] = point
         /\ \A q \in Sessions, u \in Tabs :
               q # s \/ u # t => request'[q][u] = request[q][u]
BY DEF At

\* The number of streams is within the number of tabs.
LEMMA StreamsFinite ==
  ASSUME NEW s \in Sessions
  PROVE  IsFiniteSet(Streams(s)) /\ Cardinality(Streams(s)) \in 0..Cardinality(Tabs)
<1>1. Streams(s) \in SUBSET Tabs
  BY DEF Streams
<1>2. IsFiniteSet(Streams(s)) /\ Cardinality(Streams(s)) <= Cardinality(Tabs)
  BY <1>1, FS_Subset, TabsAssumption
<1>3. Cardinality(Streams(s)) \in Nat /\ Cardinality(Tabs) \in Nat
  BY <1>2, FS_CardinalityType, TabsAssumption
<1> QED
  BY <1>2, <1>3

\* The same in the next state.
LEMMA StreamsFiniteNext ==
  ASSUME NEW s \in Sessions
  PROVE  IsFiniteSet(Streams(s)') /\ Cardinality(Streams(s)') \in 0..Cardinality(Tabs)
<1>1. Streams(s)' \in SUBSET Tabs
  BY DEF Streams
<1>2. IsFiniteSet(Streams(s)') /\ Cardinality(Streams(s)') <= Cardinality(Tabs)
  BY <1>1, FS_Subset, TabsAssumption
<1>3. Cardinality(Streams(s)') \in Nat /\ Cardinality(Tabs) \in Nat
  BY <1>2, FS_CardinalityType, TabsAssumption
<1> QED
  BY <1>2, <1>3

\* When live follows the streams of s, LiveCount is preserved, and with it the
\* bound on live.
LEMMA CountFollows ==
  ASSUME RequestInv, NEW s \in Sessions,
         \A q \in Sessions \ {s} : Streams(q)' = Streams(q),
         NEW n, n = Cardinality(Streams(s)'), live' = [live EXCEPT ![s] = n]
  PROVE  live' \in [Sessions -> 0..Cardinality(Tabs)] /\ LiveCount'
<1>1. n \in 0..Cardinality(Tabs)
  BY StreamsFiniteNext
<1>2. live' \in [Sessions -> 0..Cardinality(Tabs)]
  BY <1>1 DEF RequestInv
<1>3. ASSUME NEW q \in Sessions PROVE live'[q] = Cardinality(Streams(q)')
  <2>1. CASE q = s
    BY <2>1 DEF RequestInv
  <2>2. CASE q # s
    BY <2>2 DEF RequestInv, LiveCount, Streams
  <2> QED
    BY <2>1, <2>2
<1> QED
  BY <1>2, <1>3 DEF LiveCount, Streams

\* A request that neither begins nor ends to stream is not counted.
LEMMA NotCounted ==
  ASSUME RequestInv, NEW s \in Sessions, NEW t \in Tabs, NEW point \in Points,
         At(s, t, point), UNCHANGED live,
         point \in {"open", "stalled"} <=> request[s][t] \in {"open", "stalled"}
  PROVE  live' \in [Sessions -> 0..Cardinality(Tabs)] /\ LiveCount'
<1>1. \A q \in Sessions, u \in Tabs : Streaming(q, u)' <=> Streaming(q, u)
  BY AtFacts DEF RequestInv, Streaming
<1>2. \A q \in Sessions : {u \in Tabs : Streaming(q, u)}' = {u \in Tabs : Streaming(q, u)}
  BY <1>1
<1> QED
  BY <1>2 DEF RequestInv, LiveCount

\* AcquireLive counts the stream that opens.
LEMMA AcquireCounts ==
  ASSUME RequestInv, NEW s \in Sessions, NEW t \in Tabs, AcquireLive(s, t)
  PROVE  live' \in [Sessions -> 0..Cardinality(Tabs)] /\ LiveCount'
<1>1. \A q \in Sessions, u \in Tabs :
         Streaming(q, u)' <=> Streaming(q, u) \/ (q = s /\ u = t)
  BY AtFacts DEF RequestInv, Streaming, AcquireLive, Points
<1>2. t \notin Streams(s)
  BY DEF AcquireLive, Streams, Streaming
<1>3. \A q \in Sessions \ {s} : Streams(q)' = Streams(q)
  BY <1>1 DEF Streams
<1>4. Streams(s)' = Streams(s) \cup {t}
  BY <1>1 DEF Streams
<1>5. Cardinality(Streams(s)') = Cardinality(Streams(s)) + 1
  BY <1>2, <1>4, StreamsFinite, FS_AddElement
<1>6. live[s] = Cardinality(Streams(s))
  BY DEF RequestInv, LiveCount, Streams
<1>7. live' = [live EXCEPT ![s] = Cardinality(Streams(s)')]
  BY <1>5, <1>6 DEF AcquireLive
<1> QED
  BY <1>3, <1>7, CountFollows

\* ReleaseLive stops counting the stream that ends, and that one only: the
\* count it decrements is never 0.
LEMMA ReleaseCounts ==
  ASSUME RequestInv, NEW s \in Sessions, NEW t \in Tabs, ReleaseLive(s, t)
  PROVE  live' \in [Sessions -> 0..Cardinality(Tabs)] /\ LiveCount'
<1>1. \A q \in Sessions, u \in Tabs :
         Streaming(q, u)' <=> Streaming(q, u) /\ ~(q = s /\ u = t)
  BY AtFacts DEF RequestInv, Streaming, ReleaseLive, Points
<1>2. t \in Streams(s)
  BY DEF ReleaseLive, Streams, Streaming
<1>3. \A q \in Sessions \ {s} : Streams(q)' = Streams(q)
  BY <1>1 DEF Streams
<1>4. Streams(s)' = Streams(s) \ {t}
  BY <1>1 DEF Streams
<1>5. Cardinality(Streams(s)') = Cardinality(Streams(s)) - 1
  BY <1>2, <1>4, StreamsFinite, FS_RemoveElement
<1>6. live[s] = Cardinality(Streams(s))
  BY DEF RequestInv, LiveCount, Streams
<1>7. live[s] > 0
  <2>1. Streams(s) # {}
    BY <1>2
  <2> QED
    BY <1>6, <2>1, StreamsFinite, FS_EmptySet
<1>8. live' = [live EXCEPT ![s] = Cardinality(Streams(s)')]
  BY <1>5, <1>6, <1>7 DEF ReleaseLive
<1> QED
  BY <1>3, <1>8, CountFollows

\* ConnectedIsFresh is preserved by a step of one request during which no
\* fresh session stops being one, if that request's session is fresh, the
\* request has nothing to do with a stream, or it was a stream before with no
\* more heartbeats taken.
LEMMA StaysFresh ==
  ASSUME RequestInv, NEW s \in Sessions, NEW t \in Tabs, NEW point \in Points,
         At(s, t, point), Fresh \subseteq Fresh',
         beat' = beat \/ beat' = beat \ {<<s, t>>},
         \/ s \in Fresh'
         \/ point \in {"none", "body"}
         \/ request[s][t] \in {"acquire", "open", "stalled"} /\ beat' = beat
  PROVE  ConnectedIsFresh'
<1> SUFFICES ASSUME NEW q \in Sessions, NEW u \in Tabs,
                    request'[q][u] \in {"acquire", "open", "stalled"},
                    <<q, u>> \notin beat'
             PROVE  q \in Fresh'
  BY DEF ConnectedIsFresh, Fresh
<1>1. \A x \in Sessions, y \in Tabs :
         request[x][y] \in {"acquire", "open", "stalled"} /\ <<x, y>> \notin beat
            => x \in Fresh
  BY DEF RequestInv, ConnectedIsFresh, Fresh
<1>2. CASE q = s /\ u = t
  <2>1. request'[s][t] = point
    BY AtFacts DEF RequestInv
  <2>2. CASE request[s][t] \in {"acquire", "open", "stalled"} /\ beat' = beat
    BY <1>1, <1>2, <2>2
  <2> QED
    BY <1>2, <2>1, <2>2
<1>3. CASE q # s \/ u # t
  <2>1. request'[q][u] = request[q][u]
    BY <1>3, AtFacts DEF RequestInv
  <2>2. <<q, u>> \notin beat
    BY <1>3
  <2> QED
    BY <1>1, <2>1, <2>2
<1> QED
  BY <1>2, <1>3

\* A step that leaves the requests and their count alone, and during which no
\* fresh session stops being one.
LEMMA RequestsUntouched ==
  ASSUME RequestInv, UNCHANGED <<live, request, beat>>, Fresh \subseteq Fresh'
  PROVE  RequestInv'
BY DEF RequestInv, LiveCount, Streaming, ConnectedIsFresh, Fresh

\* The store and its histories are left alone.
LEMMA StoreUntouched ==
  ASSUME StoreInv, UNCHANGED <<sessions, file, history>>
  PROVE  StoreInv' /\ Fresh' = Fresh
BY DEF StoreInv, KeptState, SavedState, FileIsCurrent, HasSelection, Fresh, history

\* IInv is the conjunction of its part about the store and its part about the
\* requests.
LEMMA Parts == IInv <=> StoreInv /\ RequestInv /\ restarts \in 0..MaxRestarts
BY DEF IInv, TypeOK, StoreInv, RequestInv

\* Every step of a request preserves IInv.
LEMMA HandlerInv ==
  ASSUME StoreInv, RequestInv, NEW s \in Sessions, NEW t \in Tabs, Handler(s, t)
  PROVE  StoreInv' /\ RequestInv' /\ UNCHANGED restarts
<1> USE DEF Points
<1>1. ASSUME NEW point \in {"none", "acquire", "body"},
             request[s][t] = "none", Touch(s), At(s, t, point),
             UNCHANGED <<live, beat, restarts>>
      PROVE  StoreInv' /\ RequestInv'
  <2>1. StoreInv' /\ Fresh \cup {s} \subseteq Fresh'
    BY <1>1, TouchStore
  <2>2. live' \in [Sessions -> 0..Cardinality(Tabs)] /\ LiveCount'
    BY <1>1, NotCounted
  <2>3. ConnectedIsFresh'
    BY <1>1, <2>1, StaysFresh
  <2> QED
    BY <1>1, <2>1, <2>2, <2>3, AtFacts DEF RequestInv
<1>2. CASE AcquireLive(s, t)
  <2>1. StoreInv' /\ Fresh' = Fresh
    BY <1>2, StoreUntouched DEF AcquireLive
  <2>2. live' \in [Sessions -> 0..Cardinality(Tabs)] /\ LiveCount'
    BY <1>2, AcquireCounts
  <2>3. ConnectedIsFresh'
    BY <1>2, <2>1, StaysFresh DEF AcquireLive
  <2> QED
    BY <1>2, <2>1, <2>2, <2>3, AtFacts DEF RequestInv, AcquireLive, history
<1>3. CASE ReleaseLive(s, t)
  <2>1. StoreInv' /\ Fresh' = Fresh
    BY <1>3, StoreUntouched DEF ReleaseLive
  <2>2. live' \in [Sessions -> 0..Cardinality(Tabs)] /\ LiveCount'
    BY <1>3, ReleaseCounts
  <2>3. ConnectedIsFresh'
    BY <1>3, <2>1, StaysFresh DEF ReleaseLive
  <2> QED
    BY <1>3, <2>1, <2>2, <2>3, AtFacts DEF RequestInv, ReleaseLive, history
<1>4. CASE PostRegion(s, t) \/ PostPollInterval(s, t)
  <2>1. /\ request[s][t] = "body" /\ At(s, t, "none")
        /\ UNCHANGED <<live, beat, restarts>>
    BY <1>4 DEF PostRegion, PostPollInterval
  <2>2. StoreInv' /\ Fresh \cup {s} \subseteq Fresh'
    BY <1>4, <2>1, PostStore DEF PostRegion, PostPollInterval
  <2>3. live' \in [Sessions -> 0..Cardinality(Tabs)] /\ LiveCount'
    BY <2>1, NotCounted
  <2>4. ConnectedIsFresh'
    BY <2>1, <2>2, StaysFresh
  <2> QED
    BY <2>1, <2>2, <2>3, <2>4, AtFacts DEF RequestInv
<1>5. CASE BadBody(s, t) \/ Stall(s, t) \/ Unstall(s, t)
  <2>1. PICK point \in Points :
          /\ At(s, t, point)
          /\ point \in {"open", "stalled"} <=> request[s][t] \in {"open", "stalled"}
          /\ point = "none" \/ request[s][t] \in {"open", "stalled"}
    BY <1>5 DEF BadBody, Stall, Unstall
  <2>2. UNCHANGED <<sessions, live, file, beat, history>>
    BY <1>5 DEF BadBody, Stall, Unstall, storeVars
  <2>3. StoreInv' /\ Fresh' = Fresh
    BY <2>2, StoreUntouched
  <2>4. live' \in [Sessions -> 0..Cardinality(Tabs)] /\ LiveCount'
    BY <2>1, <2>2, NotCounted
  <2>5. ConnectedIsFresh'
    BY <2>1, <2>2, <2>3, StaysFresh
  <2> QED
    BY <2>1, <2>2, <2>3, <2>4, <2>5, AtFacts DEF RequestInv, history
<1>6. CASE Heartbeat(s, t)
  <2>1. StoreInv' /\ Fresh \cup {s} \subseteq Fresh'
    BY <1>6, TouchStore DEF Heartbeat
  <2>2. LiveCount' /\ live' = live /\ request' = request /\ beat' = beat \ {<<s, t>>}
    BY <1>6 DEF Heartbeat, RequestInv, LiveCount, Streaming
  <2>3. ConnectedIsFresh'
    BY <2>1, <2>2 DEF RequestInv, ConnectedIsFresh, Fresh
  <2> QED
    BY <1>6, <2>1, <2>2, <2>3 DEF RequestInv, Heartbeat
<1>7. CASE PollReport(s, t)
  <2>1. StoreInv' /\ Fresh \cup {s} \subseteq Fresh'
    BY <1>7, TouchStore DEF PollReport
  <2> QED
    BY <1>7, <2>1, RequestsUntouched DEF PollReport, requestVars
<1> QED
  BY <1>1, <1>2, <1>3, <1>4, <1>5, <1>6, <1>7
     DEF Handler, Request, AcquireLive, ReleaseLive, PostRegion, PostPollInterval,
         BadBody, Heartbeat, PollReport, Stall, Unstall, history

-----------------------------------------------------------------------------
(* The theorems *)

\* An interval begins: every stream has a heartbeat waiting.
LEMMA TickInv == IInv /\ Tick => IInv'
<1> SUFFICES ASSUME IInv, Tick PROVE IInv'
  OBVIOUS
<1>1. StoreInv /\ RequestInv /\ restarts \in 0..MaxRestarts
  BY Parts
<1>2. StoreInv'
  BY <1>1, TickStore
<1>3. /\ live' = live /\ request' = request /\ restarts' = restarts
      /\ beat' = {x \in Sessions \X Tabs : Streaming(x[1], x[2])}
      /\ \A q \in Sessions, u \in Tabs : request[q][u] # "acquire"
  BY DEF Tick
<1>4. ConnectedIsFresh'
  BY <1>3 DEF ConnectedIsFresh, Streaming
<1>5. RequestInv'
  BY <1>1, <1>3, <1>4 DEF RequestInv, LiveCount, Streaming
<1> QED
  BY <1>1, <1>2, <1>3, <1>5 DEF IInv, TypeOK, StoreInv, RequestInv

\* A restart: no stream is open, and none is counted.
LEMMA RestartInv == IInv /\ Restart => IInv'
<1> SUFFICES ASSUME IInv, Restart PROVE IInv'
  OBVIOUS
<1>1. StoreInv /\ RequestInv /\ restarts \in 0..MaxRestarts
  BY Parts
<1>2. StoreInv'
  BY <1>1, RestartStore
<1>3. /\ live' = [q \in Sessions |-> 0]
      /\ request' = [q \in Sessions |-> [u \in Tabs |-> "none"]]
      /\ beat' = {} /\ restarts' = restarts + 1 /\ restarts < MaxRestarts
  BY DEF Restart
<1>4. \A q \in Sessions : {u \in Tabs : Streaming(q, u)}' = {}
  BY <1>3 DEF Streaming
<1>5. Cardinality(Tabs) \in Nat
  BY FS_CardinalityType, TabsAssumption
<1>6. RequestInv'
  <2>1. LiveCount'
    BY <1>3, <1>4, FS_EmptySet DEF LiveCount
  <2>2. ConnectedIsFresh'
    BY <1>3 DEF ConnectedIsFresh
  <2> QED
    BY <1>3, <1>5, <2>1, <2>2 DEF RequestInv, Points
<1>7. restarts' \in 0..MaxRestarts
  BY <1>1, <1>3, MaxRestartsAssumption
<1> QED
  BY <1>2, <1>6, <1>7 DEF IInv, TypeOK, StoreInv, RequestInv

\* A fresh process without a file satisfies IInv.
LEMMA InitInv == Init => IInv
<1> SUFFICES ASSUME Init PROVE IInv
  OBVIOUS
<1>1. DOMAIN sessions = {} /\ DOMAIN file = {}
  BY DEF Init
<1>2. sessions \in Store /\ file \in Store
  BY <1>1, StoreType DEF Init
<1>3. StoreInv
  BY <1>1, <1>2, TTLAssumption, DefaultsAssumption
     DEF Init, StoreInv, KeptState, SavedState, FileIsCurrent, Selection, DefaultSelection
<1>4. \A q \in Sessions : {u \in Tabs : Streaming(q, u)} = {}
  BY DEF Init, Streaming
<1>5. Cardinality(Tabs) \in Nat
  BY FS_CardinalityType, TabsAssumption
<1>6. RequestInv
  <2>1. LiveCount
    BY <1>4, FS_EmptySet DEF Init, LiveCount
  <2>2. ConnectedIsFresh
    BY DEF Init, ConnectedIsFresh
  <2> QED
    BY <1>5, <2>1, <2>2 DEF Init, RequestInv, Points
<1> QED
  BY <1>3, <1>6, Parts, MaxRestartsAssumption DEF Init

\* IInv holds in every reachable state, whatever the requests of the sessions
\* do between two reports, whichever writes of the file fail and whenever the
\* process restarts.
THEOREM Invariance == Spec => []IInv
<1>1. IInv /\ [Next]_vars => IInv'
  <2> SUFFICES ASSUME IInv, [Next]_vars PROVE IInv'
    OBVIOUS
  <2>1. StoreInv /\ RequestInv /\ restarts \in 0..MaxRestarts
    BY Parts
  <2>2. CASE Query
    <3>1. StoreInv' /\ Fresh \subseteq Fresh'
      BY <2>1, <2>2, QueryStore
    <3>2. RequestInv' /\ restarts' = restarts
      BY <2>1, <2>2, <3>1, RequestsUntouched DEF Query, requestVars
    <3> QED
      BY <2>1, <3>1, <3>2 DEF IInv, TypeOK, StoreInv, RequestInv
  <2>3. ASSUME NEW s \in Sessions, NEW t \in Tabs, Handler(s, t) PROVE IInv'
    <3>1. StoreInv' /\ RequestInv' /\ restarts' = restarts
      BY <2>1, <2>3, HandlerInv
    <3> QED
      BY <2>1, <3>1 DEF IInv, TypeOK, StoreInv, RequestInv
  <2>4. CASE UNCHANGED vars
    <3>1. StoreInv' /\ Fresh' = Fresh
      BY <2>1, <2>4, StoreUntouched DEF vars, history
    <3>2. RequestInv' /\ restarts' = restarts
      BY <2>1, <2>4, <3>1, RequestsUntouched DEF vars
    <3> QED
      BY <2>1, <3>1, <3>2 DEF IInv, TypeOK, StoreInv, RequestInv
  <2> QED
    BY <2>2, <2>3, <2>4, TickInv, RestartInv DEF Next
<1> QED
  BY InitInv, <1>1, PTL DEF Spec

\* The types of the store, its file and the requests.
THEOREM TypeCorrect == Spec => []TypeOK
BY Invariance, PTL DEF IInv

\* LiveCount: AcquireLive and ReleaseLive are balanced per session, for any
\* number of tabs.
THEOREM LiveCounted == Spec => []LiveCount
BY Invariance, PTL DEF IInv

\* FileIsCurrent: what a restart would load is what the memory holds.
THEOREM FileCurrent == Spec => []FileIsCurrent
BY Invariance, PTL DEF IInv

\* ConnectedIsPolled: no pruning on behalf of others, save or restart loses
\* the session of a stream that answers its heartbeats.
THEOREM ConnectedPolled == Spec => []ConnectedIsPolled
<1>1. IInv => ConnectedIsPolled
  <2> SUFFICES ASSUME IInv, NEW s \in Sessions, NEW t \in Tabs,
                      request[s][t] = "open", <<s, t>> \notin beat
               PROVE  s \in DOMAIN sessions /\ sessions[s].region \in LiveRegionIDs
    BY DEF ConnectedIsPolled
  <2>1. s \in DOMAIN sessions /\ sessions[s].age = 0
    BY DEF IInv, ConnectedIsFresh
  <2>2. ~sessionExpired(sessions[s])
    BY <2>1, TTLAssumption DEF sessionExpired
  <2>3. live[s] > 0
    <3>1. live[s] = Cardinality(Streams(s))
      BY DEF IInv, LiveCount, Streams
    <3>2. t \in Streams(s)
      BY DEF Streams, Streaming
    <3> QED
      BY <3>1, <3>2, StreamsFinite, FS_EmptySet
  <2> QED
    BY <2>1, <2>2, <2>3 DEF LiveRegionIDs
<1> QED
  BY Invariance, <1>1, PTL

\* SelectionKept: a session that reports in time keeps what it selected.
THEOREM SelectionIsKept == Spec => []SelectionKept
<1>1. IInv => SelectionKept
  BY DEF IInv, KeptState, SelectionKept
<1> QED
  BY Invariance, <1>1, PTL

\* SelectionSurvives: a selection that was saved outlives restarts for TTL.
THEOREM SelectionOutlivesRestart == Spec => []SelectionSurvives
<1>1. IInv => SelectionSurvives
  BY DEF IInv, SavedState, SelectionSurvives
<1> QED
  BY Invariance, <1>1, PTL

=============================================================================
