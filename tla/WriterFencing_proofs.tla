----------------------- MODULE WriterFencing_proofs -----------------------
(***************************************************************************)
(* Proofs about WriterFencing, for any set of pods and agencies, any set   *)
(* of timestamps and any threshold, and without a bound on the number of   *)
(* restarts and polls.                                                     *)
(***************************************************************************)
EXTENDS WriterFencing, TLAPS

\* Before any pod is created nothing is open, buffered or committed.
LEMMA InitInv == Init => IInv
<1> SUFFICES ASSUME Init PROVE IInv
  OBVIOUS
<1> USE ThresholdAssumption DEF Init
<1>1. TypeOK
  BY DEF TypeOK
<1>2. PollState /\ NotYetServing
  BY DEF PollState, NotYetServing
<1>3. SingleOwner /\ SeenState
  BY DEF SingleOwner, SeenState, Hydrated
<1> QED
  BY <1>1, <1>2, <1>3 DEF IInv

\* Creating a pod changes no process and no store.
LEMMA CreatePodInv ==
  ASSUME NEW p \in Pods, IInv, CreatePod(p)
  PROVE  IInv'
<1> USE TimestampsAssumption, ThresholdAssumption DEF IInv, CreatePod, storeVars, processVars
<1>1. TypeOK'
  BY DEF TypeOK
<1>2. PollState'
  BY DEF TypeOK, PollState, NotYetServing
<1>3. NotYetServing'
  BY DEF TypeOK, PollState, NotYetServing
<1>4. SingleOwner'
  BY DEF TypeOK, SingleOwner
<1>5. SeenState'
  BY DEF TypeOK, PollState, NotYetServing, SingleOwner, SeenState, Hydrated, Covers, Owns
<1> QED
  BY <1>1, <1>2, <1>3, <1>4, <1>5

\* Deleting a pod changes no process and no store.
LEMMA DeletePodInv ==
  ASSUME NEW p \in Pods, IInv, DeletePod(p)
  PROVE  IInv'
<1> USE TimestampsAssumption, ThresholdAssumption DEF IInv, DeletePod, storeVars, processVars
<1>1. TypeOK'
  BY DEF TypeOK
<1>2. PollState'
  BY DEF TypeOK, PollState, NotYetServing
<1>3. NotYetServing'
  BY DEF TypeOK, PollState, NotYetServing
<1>4. SingleOwner'
  BY DEF TypeOK, SingleOwner
<1>5. SeenState'
  BY DEF TypeOK, PollState, NotYetServing, SingleOwner, SeenState, Hydrated, Covers, Owns
<1> QED
  BY <1>1, <1>2, <1>3, <1>4, <1>5

\* A fresh process starts with nothing open and nothing polled.
LEMMA StartContainerInv ==
  ASSUME NEW p \in Pods, IInv, StartContainer(p)
  PROVE  IInv'
<1> USE TimestampsAssumption, ThresholdAssumption DEF IInv, StartContainer, storeVars, pollVars
<1>1. TypeOK'
  BY DEF TypeOK
<1>2. PollState'
  BY DEF TypeOK, PollState, NotYetServing
<1>3. NotYetServing'
  BY DEF TypeOK, PollState, NotYetServing
<1>4. SingleOwner'
  BY DEF TypeOK, SingleOwner
<1>5. SeenState'
  BY DEF TypeOK, PollState, NotYetServing, SingleOwner, SeenState, Hydrated, Covers, Owns
<1> QED
  BY <1>1, <1>2, <1>3, <1>4, <1>5

\* Crash and Exit drop the process's buffers and live positions.
LEMMA GoneInv ==
  ASSUME NEW p \in Pods, IInv, ProcessGone(p), UNCHANGED <<desired, storeVars>>
  PROVE  IInv'
<1> USE TimestampsAssumption, ThresholdAssumption DEF IInv, ProcessGone, storeVars
<1>1. TypeOK'
  BY DEF TypeOK
<1>2. PollState'
  BY DEF TypeOK, PollState, NotYetServing
<1>3. NotYetServing'
  BY DEF TypeOK, PollState, NotYetServing
<1>4. SingleOwner'
  BY DEF TypeOK, SingleOwner
<1>5. SeenState'
  BY DEF TypeOK, PollState, NotYetServing, SingleOwner, SeenState, Hydrated, Covers, Owns
<1> QED
  BY <1>1, <1>2, <1>3, <1>4, <1>5

\* The signal that ends the context starts Close and nothing else.
LEMMA TerminateInv ==
  ASSUME NEW p \in Pods, IInv, Terminate(p)
  PROVE  IInv'
<1> USE TimestampsAssumption, ThresholdAssumption DEF IInv, Terminate, storeVars, pollVars
<1>1. TypeOK'
  BY DEF TypeOK
<1>2. PollState'
  BY DEF TypeOK, PollState, NotYetServing
<1>3. NotYetServing'
  BY DEF TypeOK, PollState, NotYetServing
<1>4. SingleOwner'
  BY DEF TypeOK, SingleOwner
<1>5. SeenState'
  BY DEF TypeOK, PollState, NotYetServing, SingleOwner, SeenState, Hydrated, Covers, Owns
<1> QED
  BY <1>1, <1>2, <1>3, <1>4, <1>5

\* openAgency moves the prefix to a process that serves nothing yet.
LEMMA OpenAgencyInv ==
  ASSUME NEW p \in Pods, NEW a \in Agencies, IInv, OpenAgency(p, a)
  PROVE  IInv'
<1> USE TimestampsAssumption, ThresholdAssumption DEF IInv, OpenAgency, pollVars
<1>1. TypeOK'
  BY DEF TypeOK
<1>2. PollState'
  BY DEF TypeOK, PollState, NotYetServing
<1>3. NotYetServing'
  BY DEF TypeOK, PollState, NotYetServing
<1>4. SingleOwner'
  BY DEF TypeOK, SingleOwner
<1>5. SeenState'
  BY DEF TypeOK, PollState, NotYetServing, SingleOwner, SeenState, Hydrated, Covers, Owns
<1> QED
  BY <1>1, <1>2, <1>3, <1>4, <1>5

\* Hydration starts with every agency still to be hydrated.
LEMMA OpenedAllInv ==
  ASSUME NEW p \in Pods, IInv, OpenedAll(p)
  PROVE  IInv'
<1> USE TimestampsAssumption, ThresholdAssumption DEF IInv, OpenedAll, storeVars
<1>1. TypeOK'
  BY DEF TypeOK
<1>2. PollState'
  BY DEF TypeOK, PollState, NotYetServing
<1>3. NotYetServing'
  BY DEF TypeOK, PollState, NotYetServing
<1>4. SingleOwner'
  BY DEF TypeOK, SingleOwner
<1>5. SeenState'
  BY DEF TypeOK, PollState, NotYetServing, SingleOwner, SeenState, Hydrated, Covers, Owns
<1> QED
  BY <1>1, <1>2, <1>3, <1>4, <1>5

\* Hydration makes the live positions of one agency cover what is committed.
LEMMA HydrateInv ==
  ASSUME NEW p \in Pods, NEW a \in Agencies, IInv, Hydrate(p, a)
  PROVE  IInv'
<1> USE TimestampsAssumption, ThresholdAssumption DEF IInv, Hydrate, Latest, storeVars
<1>1. TypeOK'
  BY DEF TypeOK
<1>2. PollState'
  BY DEF TypeOK, PollState, NotYetServing
<1>3. NotYetServing'
  BY DEF TypeOK, PollState, NotYetServing
<1>4. SingleOwner'
  BY DEF TypeOK, SingleOwner
<1>5. SeenState'
  BY DEF TypeOK, PollState, NotYetServing, SingleOwner, SeenState, Hydrated, Covers, Owns
<1> QED
  BY <1>1, <1>2, <1>3, <1>4, <1>5

\* A process serves only when all its agencies are hydrated.
LEMMA ServeInv ==
  ASSUME NEW p \in Pods, IInv, Serve(p)
  PROVE  IInv'
<1> USE TimestampsAssumption, ThresholdAssumption DEF IInv, Serve, storeVars, pollVars
<1>1. TypeOK'
  BY DEF TypeOK
<1>2. PollState'
  BY DEF TypeOK, PollState, NotYetServing
<1>3. NotYetServing'
  BY DEF TypeOK, PollState, NotYetServing
<1>4. SingleOwner'
  BY DEF TypeOK, SingleOwner
<1>5. SeenState'
  BY DEF TypeOK, PollState, NotYetServing, SingleOwner, SeenState, Hydrated, Covers, Owns
<1> QED
  BY <1>1, <1>2, <1>3, <1>4, <1>5

\* A failed NewPipeline has polled nothing.
LEMMA StartupFailsInv ==
  ASSUME NEW p \in Pods, IInv, StartupFails(p)
  PROVE  IInv'
<1> USE TimestampsAssumption, ThresholdAssumption DEF IInv, StartupFails, storeVars, pollVars
<1>1. TypeOK'
  BY DEF TypeOK
<1>2. PollState'
  BY DEF TypeOK, PollState, NotYetServing
<1>3. NotYetServing'
  BY DEF TypeOK, PollState, NotYetServing
<1>4. SingleOwner'
  BY DEF TypeOK, SingleOwner
<1>5. SeenState'
  BY DEF TypeOK, PollState, NotYetServing, SingleOwner, SeenState, Hydrated, Covers, Owns
<1> QED
  BY <1>1, <1>2, <1>3, <1>4, <1>5

\* Close commits the buffer or loses it; a poll in progress cannot flush that
\* agency any more.
LEMMA CloseAgencyInv ==
  ASSUME NEW p \in Pods, NEW a \in Agencies, IInv, CloseAgency(p, a)
  PROVE  IInv'
<1> USE TimestampsAssumption, ThresholdAssumption DEF IInv
<1>1. CASE Commit(p, a) /\ writer[p][a] = "open" /\ Owns(p, a)
  <2> USE <1>1 DEF CloseAgency, Commit, pollVars
  <2>1. TypeOK'
    BY DEF TypeOK
  <2>2. PollState'
    BY DEF TypeOK, PollState, NotYetServing
  <2>3. NotYetServing'
    BY DEF TypeOK, PollState, NotYetServing
  <2>4. SingleOwner'
    BY DEF TypeOK, SingleOwner
  <2>5. SeenState'
    BY DEF TypeOK, PollState, NotYetServing, SingleOwner, SeenState, Hydrated, Covers, Owns
  <2> QED
    BY <2>1, <2>2, <2>3, <2>4, <2>5
<1>2. CASE UNCHANGED durable
  <2> USE <1>2 DEF CloseAgency, Commit, pollVars
  <2>1. TypeOK'
    BY DEF TypeOK
  <2>2. PollState'
    BY DEF TypeOK, PollState, NotYetServing
  <2>3. NotYetServing'
    BY DEF TypeOK, PollState, NotYetServing
  <2>4. SingleOwner'
    BY DEF TypeOK, SingleOwner
  <2>5. SeenState'
    BY DEF TypeOK, PollState, NotYetServing, SingleOwner, SeenState, Hydrated, Covers, Owns
  <2> QED
    BY <2>1, <2>2, <2>3, <2>4, <2>5
<1> QED
  BY <1>1, <1>2 DEF CloseAgency

\* A new poll has all its positions still to be put.
LEMMA StartPollInv ==
  ASSUME NEW p \in Pods, NEW b \in SUBSET Positions, IInv, StartPoll(p, b)
  PROVE  IInv'
<1> USE TimestampsAssumption, ThresholdAssumption DEF IInv, StartPoll, storeVars
<1>1. TypeOK'
  BY DEF TypeOK
<1>2. PollState'
  BY DEF TypeOK, PollState, NotYetServing
<1>3. NotYetServing'
  BY DEF TypeOK, PollState, NotYetServing
<1>4. SingleOwner'
  BY DEF TypeOK, SingleOwner
<1>5. SeenState'
  BY DEF TypeOK, PollState, NotYetServing, SingleOwner, SeenState, Hydrated, Covers, Owns
<1> QED
  BY <1>1, <1>2, <1>3, <1>4, <1>5

\* Put buffers a position that Write is about to apply to vehicleSeen.
LEMMA PutInv ==
  ASSUME NEW p \in Pods, NEW x \in Positions, IInv, Put(p, x)
  PROVE  IInv'
<1> USE TimestampsAssumption, ThresholdAssumption DEF IInv, Put, storeVars, Positions
<1>1. TypeOK'
  BY DEF TypeOK
<1>2. PollState'
  BY DEF TypeOK, PollState, NotYetServing
<1>3. NotYetServing'
  BY DEF TypeOK, PollState, NotYetServing
<1>4. SingleOwner'
  BY DEF TypeOK, SingleOwner
<1>5. SeenState'
  <2> SUFFICES ASSUME NEW q \in Pods, NEW a \in Agencies, Hydrated(q, a)'
               PROVE  /\ \A t \in mem'[q][a] : Covers(q, a, t)'
                      /\ Owns(q, a)' => \A t \in durable'[a] : Covers(q, a, t)'
    BY DEF SeenState
  <2>1. x = <<x[1], x[2]>>
    OBVIOUS
  <2>2. Hydrated(q, a) /\ (Owns(q, a)' => Owns(q, a))
    BY DEF TypeOK, Hydrated, Owns
  <2>3. ASSUME NEW t \in Timestamps, Covers(q, a, t) PROVE Covers(q, a, t)'
    BY <2>3 DEF TypeOK, Covers
  <2>4. ASSUME NEW t \in mem'[q][a] PROVE t \in mem[q][a] \/ <<a, t>> \in applying'[q]
    BY <2>1 DEF TypeOK
  <2> QED
    BY <2>2, <2>3, <2>4 DEF TypeOK, SeenState, Covers
<1> QED
  BY <1>1, <1>2, <1>3, <1>4, <1>5

\* Write applies the position it has just put.
LEMMA ApplyInv ==
  ASSUME NEW p \in Pods, NEW x \in Positions, IInv, Apply(p, x)
  PROVE  IInv'
<1> USE TimestampsAssumption, ThresholdAssumption DEF IInv, Apply, storeVars, Positions
<1>1. TypeOK'
  BY DEF TypeOK
<1>2. PollState'
  BY DEF TypeOK, PollState, NotYetServing
<1>3. NotYetServing'
  BY DEF TypeOK, PollState, NotYetServing
<1>4. SingleOwner'
  BY DEF TypeOK, SingleOwner
<1>5. SeenState'
  <2> SUFFICES ASSUME NEW q \in Pods, NEW a \in Agencies, Hydrated(q, a)'
               PROVE  /\ \A t \in mem'[q][a] : Covers(q, a, t)'
                      /\ Owns(q, a)' => \A t \in durable'[a] : Covers(q, a, t)'
    BY DEF SeenState
  <2>1. Hydrated(q, a) /\ (Owns(q, a)' => Owns(q, a))
    BY DEF TypeOK, Hydrated, Owns
  <2> DEFINE old == seen[p][x[1]]
             new == IF x[2] > old THEN x[2] ELSE old
  <2>2. x[1] \in Agencies /\ x[2] \in Nat /\ old \in Nat /\ seen[q][a] \in Nat
    <3>1. x[1] \in Agencies /\ x[2] \in Nat
      OBVIOUS
    <3>2. seen[p][x[1]] \in Timestamps \cup {0} /\ seen[q][a] \in Timestamps \cup {0}
      BY <3>1 DEF TypeOK
    <3> QED
      BY <3>1, <3>2
  <2>3. old <= new /\ x[2] <= new
    BY <2>2
  <2>4. seen'[q][a] = IF q = p /\ a = x[1] THEN new ELSE seen[q][a]
    BY <2>2 DEF TypeOK
  <2>5. seen[q][a] <= seen'[q][a]
    BY <2>2, <2>3, <2>4
  <2>6. ASSUME NEW t \in Timestamps, <<a, t>> \in applying[q]
        PROVE  <<a, t>> \in applying'[q] \/ t <= seen'[q][a]
    <3>1. CASE q = p
      <4>1. x = <<a, t>>
        BY <2>6, <3>1 DEF PollState
      <4> QED
        BY <3>1, <4>1, <2>3, <2>4
    <3>2. CASE q # p
      BY <2>6, <3>2 DEF TypeOK
    <3> QED
      BY <3>1, <3>2
  <2>7. ASSUME NEW t \in Timestamps, Covers(q, a, t) PROVE Covers(q, a, t)'
    <3>1. seen'[q][a] \in Nat /\ t \in Nat
      BY <2>2, <2>4
    <3> QED
      BY <2>5, <2>6, <2>7, <2>2, <3>1 DEF Covers
  <2> QED
    BY <2>1, <2>7 DEF TypeOK, SeenState
<1> QED
  BY <1>1, <1>2, <1>3, <1>4, <1>5

\* A failed Put abandons the poll.
LEMMA PutFailsInv ==
  ASSUME NEW p \in Pods, NEW x \in Positions, IInv, PutFails(p, x)
  PROVE  IInv'
<1> USE TimestampsAssumption, ThresholdAssumption DEF IInv, PutFails, PollFails, storeVars
<1>1. TypeOK'
  BY DEF TypeOK
<1>2. PollState'
  BY DEF TypeOK, PollState, NotYetServing
<1>3. NotYetServing'
  BY DEF TypeOK, PollState, NotYetServing
<1>4. SingleOwner'
  BY DEF TypeOK, SingleOwner
<1>5. SeenState'
  BY DEF TypeOK, PollState, NotYetServing, SingleOwner, SeenState, Hydrated, Covers, Owns
<1> QED
  BY <1>1, <1>2, <1>3, <1>4, <1>5

\* FlushAll starts with every agency to be flushed.
LEMMA StartFlushInv ==
  ASSUME NEW p \in Pods, IInv, StartFlush(p)
  PROVE  IInv'
<1> USE TimestampsAssumption, ThresholdAssumption DEF IInv, StartFlush, storeVars
<1>1. TypeOK'
  BY DEF TypeOK
<1>2. PollState'
  BY DEF TypeOK, PollState, NotYetServing, Positions
<1>3. NotYetServing'
  BY DEF TypeOK, PollState, NotYetServing
<1>4. SingleOwner'
  BY DEF TypeOK, SingleOwner
<1>5. SeenState'
  BY DEF TypeOK, PollState, NotYetServing, SingleOwner, SeenState, Hydrated, Covers, Owns
<1> QED
  BY <1>1, <1>2, <1>3, <1>4, <1>5

\* A successful flush commits what the poll has buffered for the agency.
LEMMA FlushInv ==
  ASSUME NEW p \in Pods, NEW a \in Agencies, IInv, Flush(p, a)
  PROVE  IInv'
<1> USE TimestampsAssumption, ThresholdAssumption DEF IInv, Flush, Commit
<1>1. TypeOK'
  BY DEF TypeOK
<1>2. PollState'
  BY DEF TypeOK, PollState, NotYetServing
<1>3. NotYetServing'
  BY DEF TypeOK, PollState, NotYetServing
<1>4. SingleOwner'
  BY DEF TypeOK, SingleOwner
<1>5. SeenState'
  BY DEF TypeOK, PollState, NotYetServing, SingleOwner, SeenState, Hydrated, Covers, Owns
<1> QED
  BY <1>1, <1>2, <1>3, <1>4, <1>5

\* A failed flush abandons the poll.
LEMMA FlushFailsInv ==
  ASSUME NEW p \in Pods, NEW a \in Agencies, IInv, FlushFails(p, a)
  PROVE  IInv'
<1> USE TimestampsAssumption, ThresholdAssumption DEF IInv
<1>1. CASE PollFails(p, FALSE) /\ UNCHANGED writer
  <2> USE <1>1 DEF FlushFails, PollFails, Dead, storeVars
  <2>1. TypeOK'
    BY DEF TypeOK
  <2>2. PollState'
    BY DEF TypeOK, PollState, NotYetServing
  <2>3. NotYetServing'
    BY DEF TypeOK, PollState, NotYetServing
  <2>4. SingleOwner'
    BY DEF TypeOK, SingleOwner
  <2>5. SeenState'
    BY DEF TypeOK, PollState, NotYetServing, SingleOwner, SeenState, Hydrated, Covers, Owns
  <2> QED
    BY <2>1, <2>2, <2>3, <2>4, <2>5
<1>2. CASE PollFails(p, FALSE) /\ writer' = [writer EXCEPT ![p][a] = "fenced"]
  <2> USE <1>2 DEF FlushFails, PollFails, Dead, storeVars
  <2>1. TypeOK'
    BY DEF TypeOK
  <2>2. PollState'
    BY DEF TypeOK, PollState, NotYetServing
  <2>3. NotYetServing'
    BY DEF TypeOK, PollState, NotYetServing
  <2>4. SingleOwner'
    BY DEF TypeOK, SingleOwner
  <2>5. SeenState'
    BY DEF TypeOK, PollState, NotYetServing, SingleOwner, SeenState, Hydrated, Covers, Owns
  <2> QED
    BY <2>1, <2>2, <2>3, <2>4, <2>5
<1>3. CASE PollFails(p, TRUE) /\ writer' = [writer EXCEPT ![p][a] = "failed"]
  <2> USE <1>3 DEF FlushFails, PollFails, Dead, storeVars
  <2>1. TypeOK'
    BY DEF TypeOK
  <2>2. PollState'
    BY DEF TypeOK, PollState, NotYetServing
  <2>3. NotYetServing'
    BY DEF TypeOK, PollState, NotYetServing
  <2>4. SingleOwner'
    BY DEF TypeOK, SingleOwner
  <2>5. SeenState'
    BY DEF TypeOK, PollState, NotYetServing, SingleOwner, SeenState, Hydrated, Covers, Owns
  <2> QED
    BY <2>1, <2>2, <2>3, <2>4, <2>5
<1>4. CASE PollFails(p, Dead(p, a)) /\ UNCHANGED writer
  <2> USE <1>4 DEF FlushFails, PollFails, Dead, storeVars
  <2>1. TypeOK'
    BY DEF TypeOK
  <2>2. PollState'
    BY DEF TypeOK, PollState, NotYetServing
  <2>3. NotYetServing'
    BY DEF TypeOK, PollState, NotYetServing
  <2>4. SingleOwner'
    BY DEF TypeOK, SingleOwner
  <2>5. SeenState'
    BY DEF TypeOK, PollState, NotYetServing, SingleOwner, SeenState, Hydrated, Covers, Owns
  <2> QED
    BY <2>1, <2>2, <2>3, <2>4, <2>5
<1> QED
  BY <1>1, <1>2, <1>3, <1>4 DEF FlushFails

\* A failed RefreshReader abandons the poll after its data is committed.
LEMMA RefreshFailsInv ==
  ASSUME NEW p \in Pods, NEW a \in Agencies, IInv, RefreshFails(p, a)
  PROVE  IInv'
<1> USE TimestampsAssumption, ThresholdAssumption DEF IInv, RefreshFails, PollFails, Commit
<1>1. TypeOK'
  BY DEF TypeOK
<1>2. PollState'
  BY DEF TypeOK, PollState, NotYetServing
<1>3. NotYetServing'
  BY DEF TypeOK, PollState, NotYetServing
<1>4. SingleOwner'
  BY DEF TypeOK, SingleOwner
<1>5. SeenState'
  BY DEF TypeOK, PollState, NotYetServing, SingleOwner, SeenState, Hydrated, Covers, Owns
<1> QED
  BY <1>1, <1>2, <1>3, <1>4, <1>5

\* A completed poll leaves the loop idle.
LEMMA PollSucceedsInv ==
  ASSUME NEW p \in Pods, IInv, PollSucceeds(p)
  PROVE  IInv'
<1> USE TimestampsAssumption, ThresholdAssumption DEF IInv, PollSucceeds, storeVars
<1>1. TypeOK'
  BY DEF TypeOK
<1>2. PollState'
  BY DEF TypeOK, PollState, NotYetServing
<1>3. NotYetServing'
  BY DEF TypeOK, PollState, NotYetServing
<1>4. SingleOwner'
  BY DEF TypeOK, SingleOwner
<1>5. SeenState'
  BY DEF TypeOK, PollState, NotYetServing, SingleOwner, SeenState, Hydrated, Covers, Owns
<1> QED
  BY <1>1, <1>2, <1>3, <1>4, <1>5

\* IsleDB's own flush may come between any two steps of a poll.
LEMMA BackgroundFlushInv ==
  ASSUME NEW p \in Pods, NEW a \in Agencies, IInv, BackgroundFlush(p, a)
  PROVE  IInv'
<1> USE TimestampsAssumption, ThresholdAssumption DEF IInv
<1>1. CASE Commit(p, a) /\ Owns(p, a) /\ mem' = [mem EXCEPT ![p][a] = {}] /\ UNCHANGED writer
  <2> USE <1>1 DEF BackgroundFlush, Commit, pollVars
  <2>1. TypeOK'
    BY DEF TypeOK
  <2>2. PollState'
    BY DEF TypeOK, PollState, NotYetServing
  <2>3. NotYetServing'
    BY DEF TypeOK, PollState, NotYetServing
  <2>4. SingleOwner'
    BY DEF TypeOK, SingleOwner
  <2>5. SeenState'
    BY DEF TypeOK, PollState, NotYetServing, SingleOwner, SeenState, Hydrated, Covers, Owns
  <2> QED
    BY <2>1, <2>2, <2>3, <2>4, <2>5
<1>2. CASE writer' = [writer EXCEPT ![p][a] = "failed"] /\ UNCHANGED <<durable, mem>>
  <2> USE <1>2 DEF BackgroundFlush, Commit, pollVars
  <2>1. TypeOK'
    BY DEF TypeOK
  <2>2. PollState'
    BY DEF TypeOK, PollState, NotYetServing
  <2>3. NotYetServing'
    BY DEF TypeOK, PollState, NotYetServing
  <2>4. SingleOwner'
    BY DEF TypeOK, SingleOwner
  <2>5. SeenState'
    BY DEF TypeOK, PollState, NotYetServing, SingleOwner, SeenState, Hydrated, Covers, Owns
  <2> QED
    BY <2>1, <2>2, <2>3, <2>4, <2>5
<1>3. CASE writer' = [writer EXCEPT ![p][a] = "fenced"] /\ UNCHANGED <<durable, mem>>
  <2> USE <1>3 DEF BackgroundFlush, Commit, pollVars
  <2>1. TypeOK'
    BY DEF TypeOK
  <2>2. PollState'
    BY DEF TypeOK, PollState, NotYetServing
  <2>3. NotYetServing'
    BY DEF TypeOK, PollState, NotYetServing
  <2>4. SingleOwner'
    BY DEF TypeOK, SingleOwner
  <2>5. SeenState'
    BY DEF TypeOK, PollState, NotYetServing, SingleOwner, SeenState, Hydrated, Covers, Owns
  <2> QED
    BY <2>1, <2>2, <2>3, <2>4, <2>5
<1> QED
  BY <1>1, <1>2, <1>3 DEF BackgroundFlush

-----------------------------------------------------------------------------
\* IInv holds in every reachable state.
THEOREM Invariance == Spec => []IInv
<1>1. IInv /\ [Next]_vars => IInv'
  <2> SUFFICES ASSUME IInv, [Next]_vars PROVE IInv'
    OBVIOUS
  <2>1. ASSUME NEW p \in Pods, Kubernetes(p) PROVE IInv'
    BY <2>1, CreatePodInv, DeletePodInv, StartContainerInv, GoneInv, TerminateInv
       DEF Kubernetes, Crash
  <2>2. ASSUME NEW p \in Pods, Startup(p) \/ StartupFails(p) PROVE IInv'
    BY <2>2, OpenAgencyInv, OpenedAllInv, HydrateInv, ServeInv, StartupFailsInv
       DEF Startup
  <2>3. ASSUME NEW p \in Pods, Close(p) PROVE IInv'
    BY <2>3, CloseAgencyInv, GoneInv DEF Close, Exit
  <2>4. ASSUME NEW p \in Pods, RunPoll(p) PROVE IInv'
    BY <2>4, PutInv, ApplyInv, PutFailsInv, StartFlushInv, FlushInv,
       FlushFailsInv, RefreshFailsInv, PollSucceedsInv
       DEF RunPoll
  <2>5. ASSUME NEW p \in Pods, NEW b \in SUBSET Positions, StartPoll(p, b) PROVE IInv'
    BY <2>5, StartPollInv
  <2>6. ASSUME NEW p \in Pods, NEW a \in Agencies, BackgroundFlush(p, a) PROVE IInv'
    BY <2>6, BackgroundFlushInv
  <2>7. CASE UNCHANGED vars
    BY <2>7 DEF vars, IInv, TypeOK, PollState, NotYetServing, SingleOwner,
                SeenState, Hydrated, Covers, Owns
  <2> QED
    BY <2>1, <2>2, <2>3, <2>4, <2>5, <2>6, <2>7 DEF Next, NextPod
<1> QED
  BY InitInv, <1>1, PTL DEF Spec

\* Every variable of the store, the processes and the poll loops keeps its type.
THEOREM TypeCorrect == Spec => []TypeOK
BY Invariance, PTL DEF IInv

\* A poll that FlushAll lets pass is committed, for every interleaving of
\* fencing, background flushes, crashes and Close.
THEOREM CompletePollsAreDurable == Spec => []CompletePollIsDurable
<1>1. IInv => CompletePollIsDurable
  BY DEF IInv, PollState, CompletePollIsDurable
<1> QED
  BY <1>1, Invariance, PTL

\* A serving pod that owns a prefix is never behind what is committed there.
THEOREM OwnersSeeDurable == Spec => []OwnerSeesDurable
<1>1. IInv => OwnerSeesDurable
  BY DEF IInv, SeenState, Hydrated, Covers, OwnerSeesDurable
<1> QED
  BY <1>1, Invariance, PTL

=============================================================================
