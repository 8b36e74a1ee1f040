------------------------- MODULE PollNotify_proofs -------------------------
(***************************************************************************)
(* Proofs about PollNotify, for any set of streams and any bound on the    *)
(* number of updates.                                                      *)
(***************************************************************************)
EXTENDS PollNotify, TLAPS

\* The initial state of the poll loop and the handlers satisfies IInv.
LEMMA InitInv == Init => IInv
<1> SUFFICES ASSUME Init PROVE IInv
  OBVIOUS
<1> USE MaxVersionAssumption DEF Init
<1>1. TypeOK
  BY DEF TypeOK, LoopPoints, WatcherPoints, HandlerPoints
<1>2. SubscriptionState
  BY DEF SubscriptionState
<1>3. published <= version /\ NoMissedPoll
  BY DEF NoMissedPoll
<1> QED
  BY <1>1, <1>2, <1>3 DEF IInv

\* Every step of the poll loop (StartPoll, Ingest, PollFails, CopySubs, Send,
\* NotifyReturns) preserves IInv.
LEMMA PollLoopInv == IInv /\ PollLoop => IInv'
<1> SUFFICES ASSUME IInv, PollLoop PROVE IInv'
  OBVIOUS
<1> USE MaxVersionAssumption
        DEF IInv, TypeOK, SubscriptionState, NoMissedPoll,
            LoopPoints, chanVars, handlerVars
<1>1. CASE StartPoll \/ PollFails \/ NotifyReturns
  BY <1>1 DEF StartPoll, PollFails, NotifyReturns
<1>2. CASE Ingest
  BY <1>2 DEF Ingest
<1>3. CASE CopySubs
  <2>1. ASSUME NEW s \in Streams, handler[s] \in {"write", "select"}, s \notin cancelled
        PROVE  s \in targets'
    <3>1. s \in subs
      BY <2>1 DEF WatcherPoints
    <3> QED
      BY <1>3, <3>1 DEF CopySubs
  <2>2. NoMissedPoll'
    BY <1>3, <2>1 DEF CopySubs
  <2> QED
    BY <1>3, <2>2 DEF CopySubs
<1>4. ASSUME NEW s \in Streams, Send(s) PROVE IInv'
  <2>1. CASE s \in closed
    BY <1>4, <2>1 DEF Send
  <2>2. CASE s \notin closed
    BY <1>4, <2>2 DEF Send
  <2> QED
    BY <2>1, <2>2
<1> QED
  BY <1>1, <1>2, <1>3, <1>4 DEF PollLoop

\* Every step of a request's handler preserves IInv.
LEMMA HandlerInv ==
  ASSUME NEW s \in Streams, IInv, Handler(s)
  PROVE  IInv'
<1> USE DEF IInv, TypeOK, SubscriptionState, NoMissedPoll,
            HandlerPoints, loopVars, chanVars
<1>1. CASE Subscribe(s)
  BY <1>1 DEF Subscribe, WatcherPoints
<1>2. CASE Snapshot(s)
  BY <1>2 DEF Snapshot
<1>3. CASE Pushed(s) \/ PushFails(s)
  BY <1>3 DEF Pushed, PushFails
<1>4. CASE Receive(s)
  BY <1>4 DEF Receive
<1>5. CASE Return(s)
  BY <1>5 DEF Return
<1> QED
  BY <1>1, <1>2, <1>3, <1>4, <1>5 DEF Handler, Reply

\* The subscription's goroutine and a disconnecting browser preserve IInv.
LEMMA WatcherInv ==
  ASSUME NEW s \in Streams, IInv, Watcher(s) \/ Disconnect(s)
  PROVE  IInv'
<1> USE DEF IInv, TypeOK, SubscriptionState, NoMissedPoll,
            WatcherPoints, loopVars, chanVars, handlerVars
<1>1. CASE Unsubscribe(s)
  BY <1>1 DEF Unsubscribe
<1>2. CASE CloseChan(s)
  BY <1>2 DEF CloseChan
<1>3. CASE Disconnect(s)
  BY <1>3 DEF Disconnect
<1> QED
  BY <1>1, <1>2, <1>3 DEF Watcher

\* IInv holds in every reachable state.
THEOREM Invariance == Spec => []IInv
<1>1. IInv /\ [Next]_vars => IInv'
  <2> SUFFICES ASSUME IInv, [Next]_vars PROVE IInv'
    OBVIOUS
  <2>1. CASE Next
    BY <2>1, PollLoopInv, HandlerInv, WatcherInv DEF Next
  <2>2. CASE UNCHANGED vars
    BY <2>2 DEF vars, IInv, TypeOK, SubscriptionState, NoMissedPoll
  <2> QED
    BY <2>1, <2>2
<1> QED
  BY InitInv, <1>1, PTL DEF Spec

\* The variables of the poll loop, the channels and the handlers stay within
\* their types.
THEOREM TypeCorrect == Spec => []TypeOK
BY Invariance, PTL DEF IInv

\* No stream misses an announced poll, however NotifyPoll, SubscribePolls and
\* handleVehicleStream interleave.
THEOREM NoPollIsMissed == Spec => []NoMissedPoll
BY Invariance, PTL DEF IInv

\* pollSubs never holds a closed channel.
THEOREM SubscribersAreOpen == Spec => []SubscribedIsOpen
<1>1. IInv => SubscribedIsOpen
  BY DEF IInv, TypeOK, SubscriptionState, SubscribedIsOpen
<1> QED
  BY <1>1, Invariance, PTL

-----------------------------------------------------------------------------
\* Every step of the poll loop and of a request is a step of LiveMap or
\* leaves what a browser can observe unchanged.
LEMMA StepRefines ==
  ASSUME IInv, [Next]_vars
  PROVE  [Map!Next]_Map!vars
<1> DEFINE conn == {s \in Streams : handler[s] \in {"push", "write", "select"}}
<1> USE DEF Map!vars, loopVars, chanVars, handlerVars
<1>1. CASE StartPoll /\ process = "up"
  BY <1>1 DEF StartPoll
<1>2. CASE Ingest /\ process = "up"
  BY <1>2 DEF Ingest, Map!Next, Map!Ingest
<1>3. CASE PollFails /\ process = "up"
  BY <1>3 DEF PollFails
<1>4. CASE CopySubs /\ process = "up"
  BY <1>4 DEF CopySubs, Map!Next, Map!Publish
<1>5. ASSUME NEW s \in Streams, Send(s), process = "up"
      PROVE  [Map!Next]_Map!vars
  BY <1>5 DEF Send, Map!Next, Map!Crash
<1>6. CASE NotifyReturns /\ process = "up"
  BY <1>6 DEF NotifyReturns
<1>7. ASSUME NEW s \in Streams, Subscribe(s), process = "up"
      PROVE  [Map!Next]_Map!vars
  <2>1. s \notin conn /\ conn' = conn \cup {s}
    BY <1>7 DEF Subscribe, IInv, TypeOK
  <2> QED
    BY <1>7, <2>1 DEF Subscribe, Map!Next, Map!Join
<1>8. ASSUME NEW s \in Streams, Snapshot(s), process = "up"
      PROVE  [Map!Next]_Map!vars
  <2>1. s \in conn /\ conn' = conn
    BY <1>8 DEF Snapshot, IInv, TypeOK
  <2> QED
    BY <1>8, <2>1 DEF Snapshot, Map!Next, Map!Show
<1>9. ASSUME NEW s \in Streams, PushFails(s) \/ Return(s), process = "up"
      PROVE  [Map!Next]_Map!vars
  <2>1. s \in conn /\ conn' = conn \ {s}
    BY <1>9 DEF PushFails, Return, IInv, TypeOK
  <2> QED
    BY <1>9, <2>1 DEF PushFails, Return, Map!Next, Map!Leave
<1>10. ASSUME NEW s \in Streams, Receive(s) \/ Pushed(s), process = "up"
       PROVE  [Map!Next]_Map!vars
  <2>1. conn' = conn
    BY <1>10 DEF Receive, Pushed, IInv, TypeOK
  <2> QED
    BY <1>10, <2>1 DEF Receive, Pushed
<1>11. ASSUME NEW s \in Streams, Disconnect(s) \/ Watcher(s), process = "up"
       PROVE  [Map!Next]_Map!vars
  BY <1>11 DEF Disconnect, Watcher, Unsubscribe, CloseChan
<1>12. CASE UNCHANGED vars
  BY <1>12 DEF vars
<1> QED
  BY <1>1, <1>2, <1>3, <1>4, <1>5, <1>6, <1>7, <1>8, <1>9, <1>10, <1>11, <1>12
     DEF Next, PollLoop, Handler, Reply

\* The notification machinery implements the safety part of LiveMap: what a
\* browser is shown, and when a poll counts as announced, are as promised.
THEOREM Refinement == Spec => Map!Safety
<1>1. Init => Map!Init
  BY DEF Init, Map!Init
<1> QED
  BY <1>1, Invariance, StepRefines, PTL DEF Spec, Map!Safety

=============================================================================
