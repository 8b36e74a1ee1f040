--------------------------- MODULE WriterFencing ---------------------------
(***************************************************************************)
(* The write path of the demo across pods.  Every pod runs one process:    *)
(* NewPipeline opens one IsleDB writer per agency and hydrates the live    *)
(* positions from what is durable; the poll loop writes and flushes;       *)
(* WriteHealth counts consecutive failures for the liveness probe; Close   *)
(* flushes and closes the writers while the poll loop may still be at      *)
(* work, because run() does not wait for it.                               *)
(*                                                                         *)
(* IsleDB fences by ownership: opening a writer on a prefix takes it from  *)
(* whoever had it.  The loser is not told.  Its Put goes on buffering, and *)
(* it finds out when a flush tries to commit; from then on every flush of  *)
(* that writer fails, with an error that is not one of the terminal ones   *)
(* the poll loop stops on.                                                 *)
(*                                                                         *)
(* A position is an agency and the timestamp of the feed (one vehicle per  *)
(* agency: vehicles do not interact).                                      *)
(***************************************************************************)
EXTENDS Naturals

CONSTANTS Pods,         \* the pods Kubernetes may run
          Agencies,     \* the agencies, each an IsleDB prefix
          Timestamps,   \* feed timestamps
          Threshold     \* WriteHealth.threshold

ASSUME TimestampsAssumption == Timestamps \subseteq Nat \ {0}
ASSUME ThresholdAssumption == Threshold \in Nat \ {0}

VARIABLES
  desired,      \* the pods Kubernetes wants to be running
  \* the object store
  owner,        \* owner[a]: the pods that opened a's newest writer (at most one)
  durable,      \* durable[a]: committed timestamps of a
  \* one process per pod
  phase,        \* life cycle of the process
  writer,       \* writer[p][a]: what p's writer for a knows about itself
  mem,          \* mem[p][a]: buffered, not yet committed timestamps
  seen,         \* seen[p][a]: timestamp of vehicleSeen's entry, 0 if none
  todo,         \* agencies left to hydrate, or to flush in FlushAll
  step,         \* control point of runPoll
  batch,        \* the positions runPoll was called with
  left,         \* the positions Write has not put yet
  applying,     \* the position put but not yet applied to vehicleSeen
  failures      \* WriteHealth.consecutiveFailures, counted up to Threshold

storeVars == <<owner, durable>>
processVars == <<phase, writer, mem, seen, todo, step, batch, left, applying, failures>>
pollVars == <<todo, step, batch, left, applying>>
vars == <<desired, owner, durable, phase, writer, mem, seen, todo, step,
          batch, left, applying, failures>>

Positions == Agencies \X Timestamps

TypeOK ==
    /\ desired \in SUBSET Pods
    /\ owner \in [Agencies -> SUBSET Pods]
    /\ durable \in [Agencies -> SUBSET Timestamps]
    /\ phase \in [Pods -> {"down", "opening", "hydrating", "running", "closing"}]
    /\ writer \in [Pods -> [Agencies -> {"closed", "open", "fenced", "failed"}]]
    /\ mem \in [Pods -> [Agencies -> SUBSET Timestamps]]
    /\ seen \in [Pods -> [Agencies -> Timestamps \cup {0}]]
    /\ todo \in [Pods -> SUBSET Agencies]
    /\ step \in [Pods -> {"idle", "write", "flush"}]
    /\ batch \in [Pods -> SUBSET Positions]
    /\ left \in [Pods -> SUBSET Positions]
    /\ applying \in [Pods -> SUBSET Positions]
    /\ failures \in [Pods -> 0..Threshold]

Init ==
    /\ desired = {}
    /\ owner = [a \in Agencies |-> {}]
    /\ durable = [a \in Agencies |-> {}]
    /\ phase = [p \in Pods |-> "down"]
    /\ writer = [p \in Pods |-> [a \in Agencies |-> "closed"]]
    /\ mem = [p \in Pods |-> [a \in Agencies |-> {}]]
    /\ seen = [p \in Pods |-> [a \in Agencies |-> 0]]
    /\ todo = [p \in Pods |-> {}]
    /\ step = [p \in Pods |-> "idle"]
    /\ batch = [p \in Pods |-> {}]
    /\ left = [p \in Pods |-> {}]
    /\ applying = [p \in Pods |-> {}]
    /\ failures = [p \in Pods |-> 0]

Owns(p, a) == p \in owner[a]

-----------------------------------------------------------------------------
(* Kubernetes *)

\* A rollout creates a pod, and a rollout or rollback deletes one.
CreatePod(p) ==
    /\ p \notin desired
    /\ phase[p] = "down"
    /\ desired' = desired \cup {p}
    /\ UNCHANGED <<storeVars, processVars>>

DeletePod(p) ==
    /\ p \in desired
    /\ desired' = desired \ {p}
    /\ UNCHANGED <<storeVars, processVars>>

\* The memory of p's process is gone, and with it what was only buffered.
ProcessGone(p) ==
    /\ phase' = [phase EXCEPT ![p] = "down"]
    /\ writer' = [writer EXCEPT ![p] = [a \in Agencies |-> "closed"]]
    /\ mem' = [mem EXCEPT ![p] = [a \in Agencies |-> {}]]
    /\ seen' = [seen EXCEPT ![p] = [a \in Agencies |-> 0]]
    /\ todo' = [todo EXCEPT ![p] = {}]
    /\ step' = [step EXCEPT ![p] = "idle"]
    /\ batch' = [batch EXCEPT ![p] = {}]
    /\ left' = [left EXCEPT ![p] = {}]
    /\ applying' = [applying EXCEPT ![p] = {}]
    /\ failures' = [failures EXCEPT ![p] = 0]

\* The container is (re)started.
StartContainer(p) ==
    /\ p \in desired
    /\ phase[p] = "down"
    /\ phase' = [phase EXCEPT ![p] = "opening"]
    /\ UNCHANGED <<desired, storeVars, writer, mem, seen, pollVars, failures>>

\* SIGKILL, out of memory, or a panic.
Crash(p) ==
    /\ phase[p] # "down"
    /\ ProcessGone(p)
    /\ UNCHANGED <<desired, storeVars>>

\* The signal context ends and run() goes on to its deferred Close: SIGTERM
\* to a deleted pod, or to one whose /healthz answers 503.
Terminate(p) ==
    /\ phase[p] = "running"
    /\ p \notin desired \/ failures[p] >= Threshold
    /\ phase' = [phase EXCEPT ![p] = "closing"]
    /\ UNCHANGED <<desired, storeVars, writer, mem, seen, pollVars, failures>>

-----------------------------------------------------------------------------
(* NewPipeline and Close *)

\* openAgency: the new writer takes the prefix from every older one.
OpenAgency(p, a) ==
    /\ phase[p] = "opening"
    /\ writer[p][a] = "closed"
    /\ owner' = [owner EXCEPT ![a] = {p}]
    /\ writer' = [writer EXCEPT ![p][a] = "open"]
    /\ UNCHANGED <<desired, durable, phase, mem, seen, pollVars, failures>>

\* All writers are open; only now does hydrateFromSnapshot start.
OpenedAll(p) ==
    /\ phase[p] = "opening"
    /\ \A a \in Agencies : writer[p][a] = "open"
    /\ phase' = [phase EXCEPT ![p] = "hydrating"]
    /\ todo' = [todo EXCEPT ![p] = Agencies]
    /\ UNCHANGED <<desired, storeVars, writer, mem, seen, step, batch, left, applying, failures>>

\* m is the newest timestamp of S, or 0 when there is none.
Latest(m, S) == m \in S \cup {0} /\ \A t \in S : t <= m

\* Mutation of Hydrate: the snapshot's positions are read and not kept.
HydrateNothing(p, a) ==
    /\ phase[p] = "hydrating"
    /\ a \in todo[p]
    /\ todo' = [todo EXCEPT ![p] = @ \ {a}]
    /\ UNCHANGED <<desired, storeVars, phase, writer, mem, seen, step, batch, left, applying, failures>>

\* One agency of hydrateFromSnapshot: bootstrapLatest keeps the newest
\* position of a consistent snapshot of what is committed.
Hydrate(p, a) ==
    /\ phase[p] = "hydrating"
    /\ a \in todo[p]
    /\ \E m \in durable[a] \cup {0} :
          /\ Latest(m, durable[a])
          /\ seen' = [seen EXCEPT ![p][a] = m]
    /\ todo' = [todo EXCEPT ![p] = @ \ {a}]
    /\ UNCHANGED <<desired, storeVars, phase, writer, mem, step, batch, left, applying, failures>>

\* NewPipeline returns; the server and the poll loop start.
Serve(p) ==
    /\ phase[p] = "hydrating"
    /\ todo[p] = {}
    /\ phase' = [phase EXCEPT ![p] = "running"]
    /\ UNCHANGED <<desired, storeVars, writer, mem, seen, pollVars, failures>>

\* Opening an agency or reading its snapshot fails: NewPipeline closes what
\* it has opened and the process exits.
StartupFails(p) ==
    /\ phase[p] \in {"opening", "hydrating"}
    /\ phase' = [phase EXCEPT ![p] = "closing"]
    /\ UNCHANGED <<desired, storeVars, writer, mem, seen, pollVars, failures>>

\* What a successful commit of p's buffer for a does to the store.
Commit(p, a) == durable' = [durable EXCEPT ![a] = @ \cup mem[p][a]]

\* PrefixDB.Close of one agency: a last flush, which may fail, and the writer
\* is closed whatever the flush returned.
CloseAgency(p, a) ==
    /\ phase[p] = "closing"
    /\ writer[p][a] # "closed"
    /\ \/ writer[p][a] = "open" /\ Owns(p, a) /\ Commit(p, a)
       \/ UNCHANGED durable
    /\ writer' = [writer EXCEPT ![p][a] = "closed"]
    /\ mem' = [mem EXCEPT ![p][a] = {}]
    /\ UNCHANGED <<desired, owner, phase, seen, pollVars, failures>>

Exit(p) ==
    /\ phase[p] = "closing"
    /\ \A a \in Agencies : writer[p][a] = "closed"
    /\ ProcessGone(p)
    /\ UNCHANGED <<desired, storeVars>>

-----------------------------------------------------------------------------
(* runPoll *)

\* The feeds were fetched and produced positions.
StartPoll(p, b) ==
    /\ phase[p] = "running"
    /\ step[p] = "idle"
    /\ batch' = [batch EXCEPT ![p] = b]
    /\ left' = [left EXCEPT ![p] = b]
    /\ step' = [step EXCEPT ![p] = "write"]
    /\ UNCHANGED <<desired, storeVars, phase, writer, mem, seen, todo, applying, failures>>

\* One iteration of Write: the position goes into the writer's buffer ...
Put(p, x) ==
    /\ step[p] = "write"
    /\ applying[p] = {}
    /\ x \in left[p]
    /\ writer[p][x[1]] \in {"open", "fenced"}
    /\ mem' = [mem EXCEPT ![p][x[1]] = @ \cup {x[2]}]
    /\ left' = [left EXCEPT ![p] = @ \ {x}]
    /\ applying' = [applying EXCEPT ![p] = {x}]
    /\ UNCHANGED <<desired, storeVars, phase, writer, seen, todo, step, batch, failures>>

\* Mutation of Apply: the comparison of timestamps is missing.
ApplyAlways(p, x) ==
    /\ x \in applying[p]
    /\ seen' = [seen EXCEPT ![p][x[1]] = x[2]]
    /\ applying' = [applying EXCEPT ![p] = {}]
    /\ UNCHANGED <<desired, storeVars, phase, writer, mem, todo, step, batch, left, failures>>

\* ... and then, under the pipeline's lock, into vehicleSeen if it is newer.
Apply(p, x) ==
    /\ x \in applying[p]
    /\ seen' = [seen EXCEPT ![p][x[1]] = IF x[2] > @ THEN x[2] ELSE @]
    /\ applying' = [applying EXCEPT ![p] = {}]
    /\ UNCHANGED <<desired, storeVars, phase, writer, mem, todo, step, batch, left, failures>>

\* Mutation of PollFails: RecordFailure is not called.
PollFailsUncounted(p, dead) ==
    /\ phase' = [phase EXCEPT ![p] = IF dead THEN "closing" ELSE @]
    /\ step' = [step EXCEPT ![p] = "idle"]
    /\ batch' = [batch EXCEPT ![p] = {}]
    /\ left' = [left EXCEPT ![p] = {}]
    /\ todo' = [todo EXCEPT ![p] = {}]
    /\ UNCHANGED failures

\* RecordFailure and the early return of runPoll; stopIfWriterDead cancels the
\* process's context on ErrWriterFailed and ErrWriterClosed.
PollFails(p, dead) ==
    /\ failures' = [failures EXCEPT ![p] = IF @ < Threshold THEN @ + 1 ELSE @]
    /\ phase' = [phase EXCEPT ![p] = IF dead THEN "closing" ELSE @]
    /\ step' = [step EXCEPT ![p] = "idle"]
    /\ batch' = [batch EXCEPT ![p] = {}]
    /\ left' = [left EXCEPT ![p] = {}]
    /\ todo' = [todo EXCEPT ![p] = {}]

Dead(p, a) == writer[p][a] \in {"failed", "closed"}

\* Mutation of PutFails: Write skips the position and goes on.
SkipFailedPut(p, x) ==
    /\ step[p] = "write"
    /\ applying[p] = {}
    /\ x \in left[p]
    /\ left' = [left EXCEPT ![p] = @ \ {x}]
    /\ UNCHANGED <<desired, storeVars, phase, writer, mem, seen, todo, step, batch, applying, failures>>

\* Put returns an error; a writer that failed or was closed always does.
PutFails(p, x) ==
    /\ step[p] = "write"
    /\ applying[p] = {}
    /\ x \in left[p]
    /\ PollFails(p, Dead(p, x[1]))
    /\ UNCHANGED <<desired, storeVars, writer, mem, seen, applying>>

\* Mutation of StartFlush: only the agencies of this poll are flushed.
FlushPolledOnly(p) ==
    /\ step[p] = "write"
    /\ left[p] = {}
    /\ applying[p] = {}
    /\ step' = [step EXCEPT ![p] = "flush"]
    /\ todo' = [todo EXCEPT ![p] = {x[1] : x \in batch[p]}]
    /\ UNCHANGED <<desired, storeVars, phase, writer, mem, seen, batch, left, applying, failures>>

\* Write returned; FlushAll visits every agency, polled or not.
StartFlush(p) ==
    /\ step[p] = "write"
    /\ left[p] = {}
    /\ applying[p] = {}
    /\ step' = [step EXCEPT ![p] = "flush"]
    /\ todo' = [todo EXCEPT ![p] = Agencies]
    /\ UNCHANGED <<desired, storeVars, phase, writer, mem, seen, batch, left, applying, failures>>

\* Flush and RefreshReader succeed for one agency.  With nothing buffered a
\* writer that lost its prefix has nothing to commit and does not notice.
Flush(p, a) ==
    /\ step[p] = "flush"
    /\ a \in todo[p]
    /\ writer[p][a] = "open"
    /\ Owns(p, a) \/ mem[p][a] = {}
    /\ Commit(p, a)
    /\ mem' = [mem EXCEPT ![p][a] = {}]
    /\ todo' = [todo EXCEPT ![p] = @ \ {a}]
    /\ UNCHANGED <<desired, owner, phase, writer, seen, step, batch, left, applying, failures>>

\* Flush fails.  An open writer that lost its prefix finds out; one that owns
\* it may keep its buffer for a retry or be failed for good.  A fenced writer
\* fails every time, and so does a failed or a closed one.
FlushFails(p, a) ==
    /\ step[p] = "flush"
    /\ a \in todo[p]
    /\ \/ /\ writer[p][a] = "open"
          /\ ~Owns(p, a)
          /\ writer' = [writer EXCEPT ![p][a] = "fenced"]
          /\ PollFails(p, FALSE)
       \/ /\ writer[p][a] = "open"
          /\ Owns(p, a)
          /\ \/ UNCHANGED writer /\ PollFails(p, FALSE)
             \/ writer' = [writer EXCEPT ![p][a] = "failed"] /\ PollFails(p, TRUE)
       \/ /\ writer[p][a] # "open"
          /\ UNCHANGED writer
          /\ PollFails(p, Dead(p, a))
    /\ UNCHANGED <<desired, storeVars, mem, seen, applying>>

\* Flush commits but RefreshReader fails: the poll is reported failed although
\* its data is durable.
RefreshFails(p, a) ==
    /\ step[p] = "flush"
    /\ a \in todo[p]
    /\ writer[p][a] = "open"
    /\ Owns(p, a)
    /\ Commit(p, a)
    /\ mem' = [mem EXCEPT ![p][a] = {}]
    /\ PollFails(p, FALSE)
    /\ UNCHANGED <<desired, owner, writer, seen, applying>>

\* FlushAll returned nil: RecordSuccess.
PollSucceeds(p) ==
    /\ step[p] = "flush"
    /\ todo[p] = {}
    /\ failures' = [failures EXCEPT ![p] = 0]
    /\ step' = [step EXCEPT ![p] = "idle"]
    /\ batch' = [batch EXCEPT ![p] = {}]
    /\ UNCHANGED <<desired, storeVars, phase, writer, mem, seen, todo, left, applying>>

\* IsleDB's own flush, every FlushEvery: it commits, finds out that it is
\* fenced, or fails the writer for good (OnFlushError).
BackgroundFlush(p, a) ==
    /\ writer[p][a] = "open"
    /\ mem[p][a] # {}
    /\ \/ /\ Owns(p, a)
          /\ Commit(p, a)
          /\ mem' = [mem EXCEPT ![p][a] = {}]
          /\ UNCHANGED writer
       \/ /\ Owns(p, a)
          /\ writer' = [writer EXCEPT ![p][a] = "failed"]
          /\ UNCHANGED <<durable, mem>>
       \/ /\ ~Owns(p, a)
          /\ writer' = [writer EXCEPT ![p][a] = "fenced"]
          /\ UNCHANGED <<durable, mem>>
    /\ UNCHANGED <<desired, owner, phase, seen, pollVars, failures>>

-----------------------------------------------------------------------------
Startup(p) ==
    \/ OpenedAll(p) \/ Serve(p)
    \/ \E a \in Agencies : OpenAgency(p, a) \/ Hydrate(p, a)

Close(p) == Exit(p) \/ \E a \in Agencies : CloseAgency(p, a)

RunPoll(p) ==
    \/ StartFlush(p) \/ PollSucceeds(p)
    \/ \E x \in Positions : Put(p, x) \/ PutFails(p, x) \/ Apply(p, x)
    \/ \E a \in Agencies : Flush(p, a) \/ FlushFails(p, a) \/ RefreshFails(p, a)

Kubernetes(p) ==
    CreatePod(p) \/ DeletePod(p) \/ StartContainer(p) \/ Crash(p) \/ Terminate(p)

NextPod(p) ==
    \/ Kubernetes(p)
    \/ Startup(p) \/ StartupFails(p) \/ Close(p)
    \/ RunPoll(p)
    \/ \E b \in SUBSET Positions \ {{}} : StartPoll(p, b)
    \/ \E a \in Agencies : BackgroundFlush(p, a)

Next == \E p \in Pods : NextPod(p)

Spec == Init /\ [][Next]_vars

\* What pod p's process and its kubelet do once they can: a stopped container
\* is restarted, a failing probe or a deletion terminates it, NewPipeline,
\* Close and a poll that has begun go on to their end.
ProcessFairness(p) ==
    /\ WF_vars(StartContainer(p))
    /\ WF_vars(Terminate(p))
    /\ WF_vars(Startup(p))
    /\ WF_vars(Close(p))
    /\ WF_vars(RunPoll(p))

\* p has viewers: again and again a poll brings positions.
SomePolls(p) == WF_vars(\E b \in SUBSET Positions \ {{}} : StartPoll(p, b))

\* Every region has viewers on p: again and again a poll brings a position of
\* each agency, and Write gets as far as putting it.
PollsOfEveryAgency(p) ==
    \A a \in Agencies :
        /\ SF_vars(\E b \in SUBSET Positions : (\E t \in Timestamps : <<a, t>> \in b) /\ StartPoll(p, b))
        /\ SF_vars(\E t \in Timestamps : Put(p, <<a, t>>))

-----------------------------------------------------------------------------
(* Properties *)

\* When FlushAll has returned nil for a poll, which is when runPoll reports it
\* complete (RecordSuccess, NotifyPoll), every position of the poll is
\* committed: losing the prefix between two flushes, a background flush, or a
\* Close racing with the poll loop never lets a poll pass whose data is lost.
CompletePollIsDurable ==
    \A p \in Pods :
        step[p] = "flush" /\ todo[p] = {}
            => \A x \in batch[p] : x[2] \in durable[x[1]]

\* The live positions of a serving pod that owns an agency's prefix are never
\* behind what is committed for that agency, except for the one position
\* Write has handed to the writer and not yet applied: opening (and so
\* fencing) before hydrating leaves no window for an older pod's flush.
OwnerSeesDurable ==
    \A p \in Pods, a \in Agencies :
        phase[p] = "running" /\ Owns(p, a)
            => \A t \in durable[a] : t <= seen[p][a] \/ <<a, t>> \in applying[p]

\* Where the positions of a poll in progress are: still to be put, buffered,
\* committed, or lost with a writer that Close has already closed; and FlushAll
\* has committed those of every agency it is done with.
PollState ==
    \A p \in Pods :
        /\ step[p] = "idle" => applying[p] = {}
        /\ step[p] = "flush" => left[p] = {} /\ applying[p] = {}
        /\ \A x, y \in applying[p] : x = y
        /\ \A x \in batch[p] :
              /\ \/ x \in left[p]
                 \/ x[2] \in mem[p][x[1]]
                 \/ x[2] \in durable[x[1]]
                 \/ writer[p][x[1]] = "closed"
              /\ step[p] = "flush" /\ x[1] \notin todo[p] => x[2] \in durable[x[1]]

\* A process that is not yet serving has polled nothing.
NotYetServing ==
    \A p \in Pods :
        phase[p] \in {"down", "opening", "hydrating"}
            => /\ step[p] = "idle"
               /\ batch[p] = {}
               /\ \A a \in Agencies : mem[p][a] = {}

\* A prefix has one owner.
SingleOwner == \A a \in Agencies : \A p, q \in owner[a] : p = q

Hydrated(p, a) == phase[p] = "running" \/ (phase[p] = "hydrating" /\ a \notin todo[p])

\* p's live positions cover timestamp t of agency a, or are about to.
Covers(p, a, t) == t <= seen[p][a] \/ <<a, t>> \in applying[p]

\* From its hydration on, p's live positions cover what p has buffered, and
\* what is committed as long as p owns the prefix.
SeenState ==
    \A p \in Pods, a \in Agencies :
        Hydrated(p, a) =>
            /\ \A t \in mem[p][a] : Covers(p, a, t)
            /\ Owns(p, a) => \A t \in durable[a] : Covers(p, a, t)

\* The inductive invariant of WriterFencing_proofs.
IInv == TypeOK /\ PollState /\ NotYetServing /\ SingleOwner /\ SeenState

\* A writer that can never commit again does not go unnoticed while polls of
\* any region bring positions: FlushAll visits every agency, so each such poll
\* fails, and the process is stopped by stopIfWriterDead or by the probe.
UnusableWriterReplaced(p) ==
    \A a \in Agencies :
        writer[p][a] \in {"fenced", "failed"} ~> writer[p][a] \in {"open", "closed"}

\* After a rollback that leaves only pod p, p takes every prefix back from the
\* deleted pod: the probe on consecutive write failures restarts it, and its
\* new process reopens the writers (fencing_test.go: "the only recovery path").
RollbackRecovers(p) ==
    <>[](desired = {p}) => <>[](\A a \in Agencies : Owns(p, a))

=============================================================================
