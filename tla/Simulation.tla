----------------------------- MODULE Simulation -----------------------------
(***************************************************************************)
(* Runs of the FinTech simulation (simulation.Run), started from the       *)
(* command line or from the dev dashboard, over a shared object store.     *)
(* A run generates emissions, opens one PrefixDB per tenant, writes,       *)
(* flushes, counts, compacts, verifies what a reader finds, and closes.    *)
(*                                                                         *)
(* A store is a backend with a prefix suffix: every run that uses it has   *)
(* the same prefixes.  A run with the memory backend has a store of its    *)
(* own, named by the run.  Runs of the dashboard take the current second   *)
(* as suffix, so two of them may share a store too.  Opening a writer or   *)
(* the maintenance of a prefix takes it from whoever had it.               *)
(***************************************************************************)
EXTENDS Naturals, Sequences, FiniteSets

CONSTANTS Runs,           \* calls of simulation.Run
          AllTenantIDs,   \* the tenants, in the order they are opened
          Stores,         \* shared stores
          TotalUnique     \* unique events a run asks for

ASSUME RunsAssumption == Runs \cap Stores = {}
ASSUME TotalAssumption == TotalUnique \in Nat

VARIABLES
  run,          \* run[r]: control and data of simulation.Run
  handles,      \* handles[r][t]: what r has open for tenant t
  writer,       \* writer[r][t]: what r's writer for t knows about itself
  mem,          \* mem[r][t]: keys put and not committed
  \* the object store
  owner,        \* owner[s][t]: the runs that opened the newest writer
  keeper,       \* keeper[s][t]: the runs that opened the newest maintenance
  durable,      \* durable[s][t]: committed keys
  feed,         \* feed[s][t]: length of the change feed
  \* the dashboard
  running,      \* Server.running
  faulted       \* history: the runs some call of which failed by itself

storeVars == <<owner, keeper, durable, feed>>
prefixVars == <<handles, writer, mem>>
vars == <<run, handles, writer, mem, owner, keeper, durable, feed, running, faulted>>

Tenants == {AllTenantIDs[i] : i \in DOMAIN AllTenantIDs}
AllStores == Stores \cup Runs
Keys == Runs \X (1..TotalUnique)
Emissions == [key : Keys, tenant : Tenants, retry : BOOLEAN]
Handles == {"bucket", "db", "writer", "reader", "maintenance", "loop"}

\* The phases in which simulation.Run has a pipeline and no result yet.
Working == {"write", "flush", "compact", "verify"}
Phases == Working \cup {"new", "generate", "open", "abort", "close", "returned"}

Init ==
    /\ run = [r \in Runs |->
                [phase |-> "new", store |-> r, dashboard |-> FALSE, ok |-> FALSE,
                 emissions |-> <<>>, puts |-> 0,
                 tenants |-> {},      \* the domain of Pipeline.tenants
                 left |-> {}]]        \* the tenants this phase has still to visit
    /\ handles = [r \in Runs |-> [t \in Tenants |-> {}]]
    /\ writer = [r \in Runs |-> [t \in Tenants |-> "open"]]
    /\ mem = [r \in Runs |-> [t \in Tenants |-> {}]]
    /\ owner = [s \in AllStores |-> [t \in Tenants |-> {}]]
    /\ keeper = [s \in AllStores |-> [t \in Tenants |-> {}]]
    /\ durable = [s \in AllStores |-> [t \in Tenants |-> {}]]
    /\ feed = [s \in AllStores |-> [t \in Tenants |-> 0]]
    /\ running = FALSE
    /\ faulted = {}

In(r, p) == run[r].phase = p
Memory(r) == run[r].store = r
Enter(r, p, left) == run' = [run EXCEPT ![r].phase = p, ![r].left = left]
Visited(r, t) == run' = [run EXCEPT ![r].left = @ \ {t}]

-----------------------------------------------------------------------------
(* Starting a run *)

\* cmd/simulate: the store is what the flags say.
StartCLI(r, s) ==
    /\ In(r, "new")
    /\ run' = [run EXCEPT ![r].phase = "generate", ![r].store = s]
    /\ UNCHANGED <<prefixVars, storeVars, running, faulted>>

\* POST to the dashboard: a second run at the same time is refused.  The
\* dashboard offers no memory backend.
StartDashboard(r, s) ==
    /\ In(r, "new")
    /\ ~running
    /\ running' = TRUE
    /\ run' = [run EXCEPT ![r].phase = "generate", ![r].store = s, ![r].dashboard = TRUE]
    /\ UNCHANGED <<prefixVars, storeVars, faulted>>

-----------------------------------------------------------------------------
(* eventgen.Run *)

Unique(r) == {i \in DOMAIN run[r].emissions : ~run[r].emissions[i].retry}

\* Mutation of Emit: the key of a retry is not that of the event.
EmitOtherKey(r, t) ==
    /\ In(r, "generate")
    /\ Cardinality(Unique(r)) < TotalUnique
    /\ LET n == Cardinality(Unique(r)) + 1
           e == [key |-> <<r, n>>, tenant |-> t, retry |-> FALSE]
           f == [key |-> <<r, n + TotalUnique>>, tenant |-> t, retry |-> TRUE]
       IN  \E more \in {<<e>>, <<e, f>>} :
              run' = [run EXCEPT ![r].emissions = @ \o more]
    /\ UNCHANGED <<prefixVars, storeVars, running, faulted>>

\* One unique event and perhaps its retry, which has the same key.
Emit(r, t) ==
    /\ In(r, "generate")
    /\ Cardinality(Unique(r)) < TotalUnique
    /\ LET e == [key |-> <<r, Cardinality(Unique(r)) + 1>>, tenant |-> t, retry |-> FALSE]
       IN  \E more \in {<<e>>, <<e, [e EXCEPT !.retry = TRUE]>>} :
              run' = [run EXCEPT ![r].emissions = @ \o more]
    /\ UNCHANGED <<prefixVars, storeVars, running, faulted>>

\* All events are there, or the deadline has passed before.
Generated(r) ==
    /\ In(r, "generate")
    /\ Enter(r, "open", {})
    /\ UNCHANGED <<prefixVars, storeVars, running, faulted>>

\* ExpectedKeys and groupKeysByTenant: the keys of first emissions.
Expected(r, t) ==
    {run[r].emissions[i].key : i \in {j \in Unique(r) : run[r].emissions[j].tenant = t}}

-----------------------------------------------------------------------------
(* pipeline.New and OpenPrefixDB *)

\* The tenant New is at.
Opening(r, t) ==
    /\ In(r, "open")
    /\ run[r].tenants # Tenants
    /\ t = AllTenantIDs[Cardinality(run[r].tenants) + 1]

\* What comes after the handles in H have been opened.
NextHandle(H) ==
    IF "db" \notin H THEN "db"
    ELSE IF "writer" \notin H THEN "writer"
    ELSE IF "reader" \notin H THEN "reader"
    ELSE "maintenance"

\* openIsleDB opens a bucket of its own for the memory backend only; the
\* maintenance runs in the background for the others.
Opened(r, h) ==
    CASE h = "db" /\ Memory(r) -> {"bucket", "db"}
      [] h = "maintenance" /\ ~Memory(r) -> {"maintenance", "loop"}
      [] OTHER -> {h}

\* The next call of OpenPrefixDB succeeds; after the last one the tenant is
\* in Pipeline.tenants.
OpenHandle(r, t) ==
    /\ Opening(r, t)
    /\ LET h == NextHandle(handles[r][t])
           s == run[r].store
       IN  /\ handles' = [handles EXCEPT ![r][t] = @ \cup Opened(r, h)]
           /\ owner' = IF h = "writer" THEN [owner EXCEPT ![s][t] = {r}] ELSE owner
           /\ keeper' = IF h = "maintenance" THEN [keeper EXCEPT ![s][t] = {r}] ELSE keeper
           /\ run' = IF h = "maintenance" THEN [run EXCEPT ![r].tenants = @ \cup {t}] ELSE run
    /\ UNCHANGED <<writer, mem, durable, feed, running, faulted>>

\* What OpenPrefixDB closes again when opening h fails.
Cleanup(h) ==
    CASE h = "db" -> {"bucket"}
      [] h = "writer" -> {"db", "bucket"}
      [] h = "reader" -> {"writer", "db", "bucket"}
      [] h = "maintenance" -> {"reader", "writer", "db", "bucket"}

\* A call of OpenPrefixDB fails (creating the cache directory counts as part of
\* opening the writer: the same handles are closed): New closes the tenants
\* opened so far and Run returns the error.
OpenFails(r, t) ==
    /\ Opening(r, t)
    /\ handles' = [handles EXCEPT ![r][t] = @ \ Cleanup(NextHandle(@))]
    /\ faulted' = faulted \cup {r}
    /\ Enter(r, "abort", run[r].tenants)
    /\ UNCHANGED <<writer, mem, storeVars, running>>

OpenedAll(r) ==
    /\ In(r, "open")
    /\ run[r].tenants = Tenants
    /\ Enter(r, "write", {})
    /\ UNCHANGED <<prefixVars, storeVars, running, faulted>>

-----------------------------------------------------------------------------
(* Writing, flushing, compacting *)

Owns(r, t) == r \in owner[run[r].store][t]
Keeps(r, t) == r \in keeper[run[r].store][t]

\* What a successful commit of r's buffer for t does to the store.
Commit(r, t) ==
    /\ durable' = [durable EXCEPT ![run[r].store][t] = @ \cup mem[r][t]]
    /\ feed' = [feed EXCEPT ![run[r].store][t] = @ + Cardinality(mem[r][t])]
    /\ mem' = [mem EXCEPT ![r][t] = {}]

\* One iteration of WriteEmissions.
Put(r) ==
    /\ In(r, "write")
    /\ run[r].puts < Len(run[r].emissions)
    /\ LET e == run[r].emissions[run[r].puts + 1]
       IN  /\ writer[r][e.tenant] # "failed"
           /\ mem' = [mem EXCEPT ![r][e.tenant] = @ \cup {e.key}]
    /\ run' = [run EXCEPT ![r].puts = @ + 1]
    /\ UNCHANGED <<handles, writer, storeVars, running, faulted>>

Written(r) ==
    /\ In(r, "write")
    /\ run[r].puts = Len(run[r].emissions)
    /\ Enter(r, "flush", Tenants)
    /\ UNCHANGED <<prefixVars, storeVars, running, faulted>>

\* The writer's flush every tenantFlushInterval: it commits, finds that the
\* prefix has a new owner, or fails the writer for good.
BackgroundFlush(r, t) ==
    /\ "writer" \in handles[r][t]
    /\ writer[r][t] = "open"
    /\ mem[r][t] # {}
    /\ \/ Owns(r, t) /\ Commit(r, t) /\ UNCHANGED <<writer, faulted>>
       \/ /\ writer' = [writer EXCEPT ![r][t] = IF Owns(r, t) THEN "failed" ELSE "fenced"]
          /\ faulted' = IF Owns(r, t) THEN faulted \cup {r} ELSE faulted
          /\ UNCHANGED <<mem, durable, feed>>
    /\ UNCHANGED <<run, handles, owner, keeper, running>>

\* One tenant of FlushAll.  Without anything to commit a writer does not
\* notice that it has lost its prefix.
Flush(r, t) ==
    /\ In(r, "flush")
    /\ t \in run[r].left
    /\ writer[r][t] = "open"
    /\ Owns(r, t) \/ mem[r][t] = {}
    /\ Commit(r, t)
    /\ Visited(r, t)
    /\ UNCHANGED <<handles, writer, owner, keeper, running, faulted>>

\* One tenant of CompactAll: duplicates go, the set of keys stays.
Compact(r, t) ==
    /\ In(r, "compact")
    /\ t \in run[r].left
    /\ Keeps(r, t)
    /\ Visited(r, t)
    /\ UNCHANGED <<prefixVars, storeVars, running, faulted>>

\* FlushAll or CompactAll returns.  CountKeys, before and after CompactAll,
\* only reads: its failure is one of the phase's.  Verify visits the tenants
\* with expected keys.
NextPhase(r) ==
    /\ run[r].left = {}
    /\ \/ In(r, "flush") /\ Enter(r, "compact", Tenants)
       \/ In(r, "compact") /\ Enter(r, "verify", {t \in Tenants : Expected(r, t) # {}})
    /\ UNCHANGED <<prefixVars, storeVars, running, faulted>>

-----------------------------------------------------------------------------
(* Verify *)

\* The reader is refreshed and finds what is committed.
ScanKeys(r, t) == durable[run[r].store][t]

\* The number of changes from the oldest to the newest.
ChangeFeedCount(r, t) == feed[run[r].store][t]

\* Mutation of verifyKeySet: keys that were not expected are overlooked.
verifyKeysFound(want, got) == want \subseteq got

verifyKeySet(want, got) == want = got

\* Mutation of Matches: the change feed may not repeat a key.
MatchesFeed(r, t) ==
    /\ verifyKeySet(Expected(r, t), ScanKeys(r, t))
    /\ ChangeFeedCount(r, t) = Cardinality(Expected(r, t))

\* What Verify demands of one tenant.
Matches(r, t) ==
    /\ verifyKeySet(Expected(r, t), ScanKeys(r, t))
    /\ ChangeFeedCount(r, t) >= Cardinality(Expected(r, t))

VerifyTenant(r, t) ==
    /\ In(r, "verify")
    /\ t \in run[r].left
    /\ Matches(r, t)
    /\ Visited(r, t)
    /\ UNCHANGED <<prefixVars, storeVars, running, faulted>>

\* The counts Verify compares at the end.
CountsAgree(r) ==
    LET puts == Len(run[r].emissions)
        unique == Cardinality(Unique(r))
    IN  /\ puts >= unique
        /\ (\E i \in DOMAIN run[r].emissions : run[r].emissions[i].retry) => puts > unique

Verified(r) ==
    /\ In(r, "verify")
    /\ run[r].left = {}
    /\ run' = [run EXCEPT ![r].phase = "close", ![r].left = Tenants, ![r].ok = CountsAgree(r)]
    /\ UNCHANGED <<prefixVars, storeVars, running, faulted>>

-----------------------------------------------------------------------------
(* Errors, Close and the end of a run *)

\* A step refuses for a reason of its own: the writer or the maintenance has
\* been fenced or has failed, or the reader finds other keys than expected.
Refused(r) ==
    \/ /\ In(r, "write")
       /\ run[r].puts < Len(run[r].emissions)
       /\ writer[r][run[r].emissions[run[r].puts + 1].tenant] # "open"
    \/ /\ In(r, "flush")
       /\ \E t \in run[r].left :
             writer[r][t] # "open" \/ (~Owns(r, t) /\ mem[r][t] # {})
    \/ In(r, "compact") /\ \E t \in run[r].left : ~Keeps(r, t)
    \/ In(r, "verify") /\ \E t \in run[r].left : ~Matches(r, t)

\* Run returns early with the error, through the deferred Close.
Fails(r) ==
    /\ run[r].phase \in Working
    /\ \/ Refused(r) /\ UNCHANGED faulted
       \/ faulted' = faulted \cup {r}
    /\ Enter(r, "close", Tenants)
    /\ UNCHANGED <<prefixVars, storeVars, running>>

\* The generator fails or is interrupted, before anything is open.
GenerateFails(r) ==
    /\ In(r, "generate")
    /\ faulted' = faulted \cup {r}
    /\ Enter(r, "returned", {})
    /\ UNCHANGED <<prefixVars, storeVars, running>>

CloseSteps == <<"flush", "maintenance", "writer", "reader", "db", "bucket">>

\* Mutation of Released: Close returns at the first error.
ReleasedUntilError(failed) ==
    {"loop"} \cup {CloseSteps[i] : i \in
        {j \in DOMAIN CloseSteps : \A k \in 1..j : CloseSteps[k] \notin failed}}

\* What PrefixDB.Close releases when the steps in failed return errors: it
\* cancels the background maintenance and goes on through every step.
Released(failed) == Handles

\* PrefixDB.Close of one tenant.  The flush at its beginning commits or fails,
\* and what is left in the buffer is lost.
CloseTenant(r, t) ==
    /\ run[r].phase \in {"abort", "close"}
    /\ t \in run[r].left
    /\ \E failed \in SUBSET {"flush", "reader"} :
          /\ handles' = [handles EXCEPT ![r][t] = @ \ Released(failed)]
          /\ IF "flush" \notin failed /\ writer[r][t] = "open" /\ Owns(r, t)
             THEN Commit(r, t)
             ELSE mem' = [mem EXCEPT ![r][t] = {}] /\ UNCHANGED <<durable, feed>>
    /\ Visited(r, t)
    /\ UNCHANGED <<writer, owner, keeper, running, faulted>>

Closed(r) ==
    /\ run[r].phase \in {"abort", "close"}
    /\ run[r].left = {}
    /\ Enter(r, "returned", {})
    /\ UNCHANGED <<prefixVars, storeVars, running, faulted>>

\* Mutation of Report: only a run that passed makes room for the next one.
ReportPassed(r) ==
    /\ In(r, "returned")
    /\ run[r].dashboard /\ run[r].ok
    /\ running' = FALSE
    /\ run' = [run EXCEPT ![r].dashboard = FALSE]
    /\ UNCHANGED <<prefixVars, storeVars, faulted>>

\* The dashboard's goroutine keeps the result and clears running.
Report(r) ==
    /\ In(r, "returned")
    /\ run[r].dashboard
    /\ running' = FALSE
    /\ run' = [run EXCEPT ![r].dashboard = FALSE]
    /\ UNCHANGED <<prefixVars, storeVars, faulted>>

-----------------------------------------------------------------------------
\* The next step of simulation.Run and of the goroutine around it.
Step(r) ==
    \/ \E t \in Tenants : Emit(r, t)
    \/ Generated(r) \/ GenerateFails(r)
    \/ \E t \in Tenants : OpenHandle(r, t) \/ OpenFails(r, t)
    \/ OpenedAll(r)
    \/ Put(r) \/ Written(r)
    \/ \E t \in Tenants : Flush(r, t) \/ Compact(r, t) \/ VerifyTenant(r, t)
    \/ NextPhase(r) \/ Verified(r) \/ Fails(r)
    \/ \E t \in Tenants : CloseTenant(r, t)
    \/ Closed(r) \/ Report(r)

Start(r) ==
    \/ \E s \in Stores \cup {r} : StartCLI(r, s)
    \/ \E s \in Stores : StartDashboard(r, s)

Next ==
    \E r \in Runs :
       \/ Start(r)
       \/ Step(r)
       \/ \E t \in Tenants : BackgroundFlush(r, t)

Spec == Init /\ [][Next]_vars

\* A run that has started goes on: no call blocks for ever.
FairSpec == Spec /\ \A r \in Runs : WF_vars(Step(r))

-----------------------------------------------------------------------------
(* Properties *)

RunStates ==
    [phase : Phases, store : AllStores, dashboard : BOOLEAN, ok : BOOLEAN,
     emissions : Seq(Emissions), puts : Nat,
     tenants : SUBSET Tenants, left : SUBSET Tenants]

TypeOK ==
    /\ run \in [Runs -> RunStates]
    /\ \A r \in Runs :
          /\ run[r].store \in Stores \cup {r}
          /\ run[r].puts <= Len(run[r].emissions)
    /\ handles \in [Runs -> [Tenants -> SUBSET Handles]]
    /\ writer \in [Runs -> [Tenants -> {"open", "fenced", "failed"}]]
    /\ mem \in [Runs -> [Tenants -> SUBSET Keys]]
    /\ owner \in [AllStores -> [Tenants -> SUBSET Runs]]
    /\ keeper \in [AllStores -> [Tenants -> SUBSET Runs]]
    /\ durable \in [AllStores -> [Tenants -> SUBSET Keys]]
    /\ feed \in [AllStores -> [Tenants -> Nat]]
    /\ running \in BOOLEAN
    /\ faulted \in SUBSET Runs

\* A run that has returned has closed every handle of every tenant and stopped
\* its background maintenance, whichever step of opening, running or closing
\* failed on the way.
NothingLeaked ==
    \A r \in Runs : In(r, "returned") => \A t \in Tenants : handles[r][t] = {}

\* A run that reports success has each of its events committed under its
\* tenant's prefix, also when another run fenced it, and no other run that
\* reports success has events under the same prefix: a reader found the events
\* of this run and nothing else.
OKIsExact ==
    \A r \in Runs : run[r].ok =>
       \A t \in Tenants :
          /\ Expected(r, t) \subseteq durable[run[r].store][t]
          /\ \A q \in Runs \ {r} :
                run[q].ok /\ run[q].store = run[r].store /\ Expected(q, t) # {}
                => Expected(r, t) = {}

\* A run none of whose calls failed, and that had its prefixes to itself,
\* passes its own verification, whatever it retried and however the background
\* flushes cut its writes.
CleanRunPasses ==
    \A r \in Runs :
       /\ In(r, "returned")
       /\ r \notin faulted
       /\ \A q \in Runs \ {r} : run[q].store # run[r].store
       => run[r].ok

\* What NothingLeaked rests on: nothing is open before a run opens its
\* tenants; while it does, a tenant that is not in Pipeline.tenants has handles
\* only if New is at it, and what opening failed to complete is what
\* OpenPrefixDB would clean up; while it closes, only the tenants it has still
\* to visit have handles.
TenantHandles(r, t) ==
    /\ run[r].phase \in {"new", "generate", "returned"} => handles[r][t] = {}
    /\ In(r, "open") /\ t \notin run[r].tenants =>
          /\ handles[r][t] # {} => Opening(r, t)
          /\ handles[r][t] \subseteq Cleanup(NextHandle(handles[r][t]))
    /\ run[r].phase \in {"abort", "close"} /\ t \notin run[r].left => handles[r][t] = {}

HandleState == \A r \in Runs, t \in Tenants : TenantHandles(r, t)

\* Verify has been content with what it found of tenant t.
Checked(r, t) == run[r].ok \/ (In(r, "verify") /\ t \notin run[r].left)

\* What OKIsExact rests on: the events of a run carry its name, and what a
\* reader has found of it stays, without the events of another run that was
\* content with the same prefix.
CheckedState ==
    \A r \in Runs :
       /\ \A i \in DOMAIN run[r].emissions : run[r].emissions[i].key[1] = r
       /\ run[r].ok => run[r].phase \in {"close", "returned"}
       /\ \A t \in Tenants : Checked(r, t) =>
             /\ Expected(r, t) \subseteq durable[run[r].store][t]
             /\ \A q \in Runs \ {r} :
                   run[q].store = run[r].store /\ Checked(q, t)
                   => Expected(r, t) = {} \/ Expected(q, t) = {}

\* The keys of the first n emissions of r for tenant t, retries included.
KeysUpTo(r, t, n) ==
    {run[r].emissions[i].key : i \in {j \in 1..n : run[r].emissions[j].tenant = t}}

\* No call of r failed by itself, and no other run has its store.
Clean(r) == r \notin faulted /\ \A q \in Runs \ {r} : run[q].store # run[r].store

\* What CleanRunPasses rests on: such a run keeps what it opened, what it has
\* put is buffered or committed and nothing else is, and each phase leaves
\* behind what the next one demands.
CleanTenant(r, t) ==
    /\ run[r].phase \in Working \cup {"generate", "open"} =>
          /\ writer[r][t] = "open"
          /\ mem[r][t] \cup durable[run[r].store][t] = KeysUpTo(r, t, run[r].puts)
    /\ run[r].phase \in Working \cup {"open"} =>
          /\ "writer" \in handles[r][t] \/ t \in run[r].tenants \/ ~In(r, "open")
             => Owns(r, t)
          /\ t \in run[r].tenants \/ ~In(r, "open") => Keeps(r, t)
    /\ \/ In(r, "flush") /\ t \notin run[r].left
       \/ run[r].phase \in {"compact", "verify"}
       => mem[r][t] = {}

\* The same for the whole run: it never aborts, and once it closes it has passed.
CleanState(r) ==
    /\ ~In(r, "abort")
    /\ In(r, "generate") => run[r].tenants = {}
    /\ run[r].phase \in {"generate", "open"} => run[r].puts = 0
    /\ run[r].phase \in {"flush", "compact", "verify"} =>
          run[r].puts = Len(run[r].emissions)
    /\ run[r].phase \in {"close", "returned"} => run[r].ok
    /\ \A t \in Tenants : CleanTenant(r, t)

\* A retry repeats an event of the same tenant, and a buffer has keys of its
\* own run only.
RunKeys(r) ==
    /\ \A i \in DOMAIN run[r].emissions :
          \E j \in Unique(r) :
             /\ run[r].emissions[j].key = run[r].emissions[i].key
             /\ run[r].emissions[j].tenant = run[r].emissions[i].tenant
    /\ In(r, "new") =>
          /\ run[r].store = r /\ run[r].puts = 0 /\ run[r].tenants = {}
          /\ \A t \in Tenants : writer[r][t] = "open"
    /\ \A t \in Tenants :
          IsFiniteSet(mem[r][t]) /\ \A k \in mem[r][t] : k[1] = r /\ ~In(r, "new")

\* A prefix has keys of runs that use its store only, and its feed has them all.
PrefixKeys(s, t) ==
    /\ \A k \in durable[s][t] : run[k[1]].store = s /\ ~In(k[1], "new")
    /\ IsFiniteSet(durable[s][t]) /\ feed[s][t] >= Cardinality(durable[s][t])

KeyState ==
    /\ \A r \in Runs : RunKeys(r)
    /\ \A s \in AllStores, t \in Tenants : PrefixKeys(s, t)

\* The inductive invariant of Simulation_proofs.
IInv ==
    /\ TypeOK /\ HandleState /\ CheckedState /\ KeyState
    /\ \A r \in Runs : Clean(r) /\ ~In(r, "new") => CleanState(r)

\* The dashboard becomes free again after every run it started.
DashboardFrees == running ~> ~running

=============================================================================
