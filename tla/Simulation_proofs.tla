------------------------- MODULE Simulation_proofs -------------------------
(***************************************************************************)
(* Proofs about Simulation, for any runs, tenants, shared stores and       *)
(* number of events.                                                       *)
(***************************************************************************)
EXTENDS Simulation, FiniteSetTheorems, TLAPS

\* An update at one run or store and one tenant.
LEMMA UpdateAt ==
  ASSUME NEW A, NEW B, NEW C, NEW f \in [A -> [B -> C]],
         NEW a \in A, NEW b \in B, NEW c \in C, NEW g, g = [f EXCEPT ![a][b] = c]
  PROVE  /\ g \in [A -> [B -> C]]
         /\ \A x \in A, y \in B : g[x][y] = IF x = a /\ y = b THEN c ELSE f[x][y]
         /\ \A x \in A \ {a} : g[x] = f[x]
OBVIOUS

(* What the steps do to the record of a run *)

\* What a step of run r leaves alone in every run: its own events and store,
\* and everything of the others.
RunSteps(r) ==
    /\ run' \in [Runs -> RunStates]
    /\ \A q \in Runs \ {r} : run'[q] = run[q]
    /\ run'[r].store = run[r].store
    /\ run'[r].emissions = run[r].emissions

\* simulation.Run goes on to another phase.
LEMMA EnterFacts ==
  ASSUME run \in [Runs -> RunStates], NEW r \in Runs,
         NEW p \in Phases, NEW L \in SUBSET Tenants, Enter(r, p, L)
  PROVE  /\ RunSteps(r)
         /\ run'[r].phase = p /\ run'[r].left = L
         /\ run'[r].puts = run[r].puts /\ run'[r].tenants = run[r].tenants
         /\ run'[r].ok = run[r].ok /\ run'[r].dashboard = run[r].dashboard
BY DEF Enter, RunStates, RunSteps

\* A phase has dealt with one tenant.
LEMMA VisitedFacts ==
  ASSUME run \in [Runs -> RunStates], NEW r \in Runs, NEW t \in Tenants, Visited(r, t)
  PROVE  /\ RunSteps(r)
         /\ run'[r].phase = run[r].phase /\ run'[r].left = run[r].left \ {t}
         /\ run'[r].puts = run[r].puts /\ run'[r].tenants = run[r].tenants
         /\ run'[r].ok = run[r].ok /\ run'[r].dashboard = run[r].dashboard
BY DEF Visited, RunStates, RunSteps

\* WriteEmissions has put one emission.
LEMMA PutFacts ==
  ASSUME run \in [Runs -> RunStates], NEW r \in Runs,
         run' = [run EXCEPT ![r].puts = @ + 1]
  PROVE  /\ RunSteps(r)
         /\ run'[r].phase = run[r].phase /\ run'[r].left = run[r].left
         /\ run'[r].puts = run[r].puts + 1 /\ run'[r].tenants = run[r].tenants
         /\ run'[r].ok = run[r].ok
<1>1. run[r] \in RunStates /\ run[r].puts + 1 \in Nat
  BY DEF RunStates
<1> DEFINE after == [run[r] EXCEPT !.puts = run[r].puts + 1]
<1>2. /\ after \in RunStates
      /\ after.store = run[r].store /\ after.emissions = run[r].emissions
      /\ after.phase = run[r].phase /\ after.left = run[r].left
      /\ after.puts = run[r].puts + 1 /\ after.tenants = run[r].tenants
      /\ after.ok = run[r].ok
  BY <1>1 DEF RunStates
<1>3. run' = [run EXCEPT ![r] = after]
  OBVIOUS
<1> HIDE DEF after
<1>4. run'[r] = after /\ \A q \in Runs \ {r} : run'[q] = run[q]
  BY <1>3
<1> QED
  BY <1>2, <1>3, <1>4 DEF RunSteps

\* New has a tenant's PrefixDB.
LEMMA TenantFacts ==
  ASSUME run \in [Runs -> RunStates], NEW r \in Runs, NEW t \in Tenants,
         run' = [run EXCEPT ![r].tenants = @ \cup {t}]
  PROVE  /\ RunSteps(r)
         /\ run'[r].phase = run[r].phase /\ run'[r].left = run[r].left
         /\ run'[r].puts = run[r].puts /\ run'[r].tenants = run[r].tenants \cup {t}
         /\ run'[r].ok = run[r].ok
BY DEF RunStates, RunSteps

\* Verify has compared the counts.
LEMMA VerifiedFacts ==
  ASSUME run \in [Runs -> RunStates], NEW r \in Runs, Verified(r)
  PROVE  /\ RunSteps(r)
         /\ run'[r].phase = "close" /\ run'[r].left = Tenants
         /\ run'[r].puts = run[r].puts /\ run'[r].tenants = run[r].tenants
         /\ run'[r].ok = CountsAgree(r)
<1>1. CountsAgree(r) \in BOOLEAN
  BY DEF CountsAgree
<1> QED
  BY <1>1 DEF Verified, RunStates, RunSteps, Phases, Working

\* The dashboard's goroutine is through with a run.
LEMMA ReportFacts ==
  ASSUME run \in [Runs -> RunStates], NEW r \in Runs,
         run' = [run EXCEPT ![r].dashboard = FALSE]
  PROVE  /\ RunSteps(r)
         /\ run'[r].phase = run[r].phase /\ run'[r].left = run[r].left
         /\ run'[r].puts = run[r].puts /\ run'[r].tenants = run[r].tenants
         /\ run'[r].ok = run[r].ok
BY DEF RunStates, RunSteps

\* A run starts, from either side.
LEMMA StartFacts ==
  ASSUME run \in [Runs -> RunStates], NEW r \in Runs, Start(r)
  PROVE  /\ run' \in [Runs -> RunStates]
         /\ \A q \in Runs \ {r} : run'[q] = run[q]
         /\ In(r, "new") /\ run'[r].phase = "generate"
         /\ run'[r].store \in Stores \cup {r}
         /\ run'[r].left = run[r].left
         /\ run'[r].emissions = run[r].emissions
         /\ run'[r].puts = run[r].puts /\ run'[r].tenants = run[r].tenants
         /\ run'[r].ok = run[r].ok
         /\ UNCHANGED <<prefixVars, storeVars, faulted>>
         /\ running' \in {running, TRUE}
<1>1. ASSUME NEW s \in Stores \cup {r}, StartCLI(r, s)
      PROVE  /\ run' \in [Runs -> RunStates]
             /\ \A q \in Runs \ {r} : run'[q] = run[q]
             /\ In(r, "new") /\ run'[r].phase = "generate"
             /\ run'[r].store = s
             /\ run'[r].left = run[r].left
             /\ run'[r].emissions = run[r].emissions
             /\ run'[r].puts = run[r].puts /\ run'[r].tenants = run[r].tenants
             /\ run'[r].ok = run[r].ok
  BY <1>1 DEF StartCLI, RunStates, In, Phases, Working, AllStores
<1>2. ASSUME NEW s \in Stores, StartDashboard(r, s)
      PROVE  /\ run' \in [Runs -> RunStates]
             /\ \A q \in Runs \ {r} : run'[q] = run[q]
             /\ In(r, "new") /\ run'[r].phase = "generate"
             /\ run'[r].store = s
             /\ run'[r].left = run[r].left
             /\ run'[r].emissions = run[r].emissions
             /\ run'[r].puts = run[r].puts /\ run'[r].tenants = run[r].tenants
             /\ run'[r].ok = run[r].ok
  <2> DEFINE after == [run[r] EXCEPT !.phase = "generate", !.store = s, !.dashboard = TRUE]
  <2>1. run[r] \in RunStates
    OBVIOUS
  <2>2. /\ after \in RunStates
        /\ after.phase = "generate" /\ after.store = s
        /\ after.left = run[r].left /\ after.emissions = run[r].emissions
        /\ after.puts = run[r].puts /\ after.tenants = run[r].tenants
        /\ after.ok = run[r].ok
    BY <2>1 DEF RunStates, Phases, Working, AllStores
  <2>3. run' = [run EXCEPT ![r] = after]
    BY <1>2 DEF StartDashboard
  <2> HIDE DEF after
  <2>4. run'[r] = after /\ \A q \in Runs \ {r} : run'[q] = run[q]
    BY <2>3
  <2> QED
    BY <1>2, <2>2, <2>3, <2>4 DEF StartDashboard
<1>3. UNCHANGED <<prefixVars, storeVars, faulted>> /\ running' \in {running, TRUE}
  BY DEF Start, StartCLI, StartDashboard
<1> QED
  BY <1>1, <1>2, <1>3 DEF Start

\* The number of unique events is that of some of the emissions, and less than
\* their number if there is a retry: what Verify compares at the end.
LEMMA UniqueFacts ==
  ASSUME run \in [Runs -> RunStates], NEW r \in Runs
  PROVE  /\ Cardinality(Unique(r)) \in Nat
         /\ CountsAgree(r)
<1> DEFINE em == run[r].emissions
<1>1. em \in Seq(Emissions)
  BY DEF RunStates
<1>2. DOMAIN em = 1..Len(em) /\ Len(em) \in Nat
  BY <1>1
<1>3. IsFiniteSet(DOMAIN em) /\ Cardinality(DOMAIN em) = Len(em)
  BY <1>2, FS_Interval
<1>4. Unique(r) \in SUBSET (DOMAIN em)
  BY DEF Unique
<1>5. /\ IsFiniteSet(Unique(r)) /\ Cardinality(Unique(r)) <= Len(em)
      /\ Cardinality(Unique(r)) = Len(em) => Unique(r) = DOMAIN em
  BY <1>3, <1>4, FS_Subset
<1>6. Cardinality(Unique(r)) \in Nat
  BY <1>5, FS_CardinalityType
<1>7. ASSUME \E i \in DOMAIN em : em[i].retry PROVE Unique(r) # DOMAIN em
  BY <1>7 DEF Unique
<1>8. CountsAgree(r)
  <2> HIDE DEF em
  <2>1. Len(em) >= Cardinality(Unique(r))
    BY <1>2, <1>5, <1>6
  <2>2. (\E i \in DOMAIN em : em[i].retry) => Len(em) > Cardinality(Unique(r))
    BY <1>2, <1>5, <1>6, <1>7
  <2> QED
    BY <2>1, <2>2 DEF CountsAgree, em
<1> QED
  BY <1>6, <1>8

\* eventgen.Run emits a new event of tenant t, and perhaps its retry.
LEMMA EmitFacts ==
  ASSUME run \in [Runs -> RunStates], NEW r \in Runs, NEW t \in Tenants, Emit(r, t)
  PROVE  /\ run' \in [Runs -> RunStates]
         /\ \A q \in Runs \ {r} : run'[q] = run[q]
         /\ In(r, "generate") /\ run'[r].phase = "generate"
         /\ run'[r].store = run[r].store
         /\ run'[r].left = run[r].left
         /\ run'[r].puts = run[r].puts /\ run'[r].tenants = run[r].tenants
         /\ run'[r].ok = run[r].ok
         /\ Len(run'[r].emissions) > Len(run[r].emissions)
         /\ \A i \in 1..Len(run[r].emissions) : run'[r].emissions[i] = run[r].emissions[i]
         /\ ~run'[r].emissions[Len(run[r].emissions) + 1].retry
         /\ \A i \in 1..Len(run'[r].emissions) : i > Len(run[r].emissions) =>
               /\ run'[r].emissions[i].key
                     = run'[r].emissions[Len(run[r].emissions) + 1].key
               /\ run'[r].emissions[i].key[1] = r
               /\ run'[r].emissions[i].tenant = t
<1> DEFINE n == Cardinality(Unique(r)) + 1
           e == [key |-> <<r, n>>, tenant |-> t, retry |-> FALSE]
           f == [e EXCEPT !.retry = TRUE]
           em == run[r].emissions
<1>1. n \in 1..TotalUnique
  BY UniqueFacts, TotalAssumption DEF Emit
<1>2. /\ e \in Emissions /\ f \in Emissions
      /\ e.key = <<r, n>> /\ f.key = <<r, n>> /\ e.tenant = t /\ f.tenant = t /\ ~e.retry
  BY <1>1 DEF Emissions, Keys
<1>3. PICK more \in {<<e>>, <<e, f>>} : run' = [run EXCEPT ![r].emissions = @ \o more]
  BY DEF Emit
<1>4. em \in Seq(Emissions) /\ run[r] \in RunStates
  BY DEF RunStates
<1> HIDE DEF n, em
<1>5. /\ em \o more \in Seq(Emissions)
      /\ Len(em \o more) > Len(em)
      /\ \A i \in 1..Len(em) : (em \o more)[i] = em[i]
      /\ (em \o more)[Len(em) + 1] = e
      /\ \A i \in 1..Len(em \o more) : i > Len(em) => (em \o more)[i] \in {e, f}
  <2> HIDE DEF e, f
  <2>1. CASE more = <<e>>
    BY <1>2, <1>4, <2>1
  <2>2. CASE more = <<e, f>>
    BY <1>2, <1>4, <2>2
  <2> QED
    BY <1>3, <2>1, <2>2
<1> DEFINE after == [run[r] EXCEPT !.emissions = em \o more]
<1>6. /\ after \in RunStates
      /\ after.phase = run[r].phase /\ after.store = run[r].store
      /\ after.left = run[r].left /\ after.emissions = em \o more
      /\ after.puts = run[r].puts /\ after.tenants = run[r].tenants
      /\ after.ok = run[r].ok
  BY <1>4, <1>5 DEF RunStates
<1>7. run' = [run EXCEPT ![r] = after]
  BY <1>3 DEF em
<1> HIDE DEF after, e, f
<1>8. run'[r] = after /\ \A q \in Runs \ {r} : run'[q] = run[q]
  BY <1>7
<1>9. In(r, "generate") /\ run[r].phase = "generate"
  BY DEF Emit, In
<1>10. run' \in [Runs -> RunStates]
  BY <1>6, <1>7
<1>11. /\ Len(run'[r].emissions) > Len(em)
       /\ \A i \in 1..Len(em) : run'[r].emissions[i] = em[i]
       /\ run'[r].emissions[Len(em) + 1] = e
       /\ \A i \in 1..Len(run'[r].emissions) : i > Len(em) =>
             run'[r].emissions[i] \in {e, f}
  BY <1>5, <1>6, <1>8
<1>12. <<r, n>>[1] = r
  OBVIOUS
<1>13. ASSUME NEW i \in 1..Len(run'[r].emissions), i > Len(em)
       PROVE  /\ run'[r].emissions[i].key = run'[r].emissions[Len(em) + 1].key
              /\ run'[r].emissions[i].key[1] = r
              /\ run'[r].emissions[i].tenant = t
  BY <1>2, <1>11, <1>12, <1>13
<1> QED
  BY <1>2, <1>6, <1>8, <1>9, <1>10, <1>11, <1>13 DEF em

-----------------------------------------------------------------------------
(* What a step of one run cannot touch *)

\* What a successful commit does, at one prefix.
CommitEffect(r, t) ==
    /\ durable' \in [AllStores -> [Tenants -> SUBSET Keys]]
    /\ \A s \in AllStores, u \in Tenants :
          durable'[s][u] = IF s = run[r].store /\ u = t
                           THEN durable[s][u] \cup mem[r][t] ELSE durable[s][u]
    /\ feed' \in [AllStores -> [Tenants -> Nat]]
    /\ \A s \in AllStores, u \in Tenants :
          feed'[s][u] = IF s = run[r].store /\ u = t
                        THEN feed[s][u] + Cardinality(mem[r][t]) ELSE feed[s][u]
    /\ mem' \in [Runs -> [Tenants -> SUBSET Keys]]
    /\ \A q \in Runs, u \in Tenants :
          mem'[q][u] = IF q = r /\ u = t THEN {} ELSE mem[q][u]
    /\ Cardinality(mem[r][t]) \in Nat

\* A successful commit has this effect.
LEMMA CommitFacts ==
  ASSUME TypeOK, NEW r \in Runs, NEW t \in Tenants, RunKeys(r), Commit(r, t)
  PROVE  CommitEffect(r, t)
<1> DEFINE s0 == run[r].store
           c == Cardinality(mem[r][t])
<1>1. s0 \in AllStores
  BY DEF TypeOK, RunStates
<1>2. c \in Nat
  BY FS_CardinalityType DEF RunKeys
<1>3. /\ durable' = [durable EXCEPT ![s0][t] = durable[s0][t] \cup mem[r][t]]
      /\ feed' = [feed EXCEPT ![s0][t] = feed[s0][t] + c]
      /\ mem' = [mem EXCEPT ![r][t] = {}]
  BY DEF Commit
<1> HIDE DEF s0, c
<1>4. /\ durable' \in [AllStores -> [Tenants -> SUBSET Keys]]
      /\ \A s \in AllStores, u \in Tenants :
            durable'[s][u] = IF s = s0 /\ u = t
                             THEN durable[s][u] \cup mem[r][t] ELSE durable[s][u]
  <2> DEFINE d == durable[s0][t] \cup mem[r][t]
  <2>1. d \in SUBSET Keys
    BY <1>1 DEF TypeOK
  <2>2. durable \in [AllStores -> [Tenants -> SUBSET Keys]]
    BY DEF TypeOK
  <2>3. durable' = [durable EXCEPT ![s0][t] = d]
    BY <1>3
  <2> HIDE DEF d
  <2>4. /\ durable' \in [AllStores -> [Tenants -> SUBSET Keys]]
        /\ \A s \in AllStores, u \in Tenants :
              durable'[s][u] = IF s = s0 /\ u = t THEN d ELSE durable[s][u]
    BY <1>1, <2>1, <2>2, <2>3, UpdateAt
  <2> QED
    BY <2>4 DEF d
<1>5. /\ feed' \in [AllStores -> [Tenants -> Nat]]
      /\ \A s \in AllStores, u \in Tenants :
            feed'[s][u] = IF s = s0 /\ u = t THEN feed[s][u] + c ELSE feed[s][u]
  BY <1>1, <1>2, <1>3 DEF TypeOK
<1>6. /\ mem' \in [Runs -> [Tenants -> SUBSET Keys]]
      /\ \A q \in Runs, u \in Tenants :
            mem'[q][u] = IF q = r /\ u = t THEN {} ELSE mem[q][u]
  BY <1>3 DEF TypeOK
<1> QED
  BY <1>2, <1>4, <1>5, <1>6 DEF s0, c, CommitEffect

\* The steps of a run that change its control and nothing outside it.
Quiet(r) ==
    \/ Generated(r) \/ GenerateFails(r) \/ OpenedAll(r) \/ Written(r)
    \/ \E t \in Tenants : Compact(r, t) \/ VerifyTenant(r, t)
    \/ NextPhase(r) \/ Verified(r) \/ Fails(r) \/ Closed(r) \/ Report(r)

\* They leave the handles, the buffers and the store alone.
LEMMA QuietFacts ==
  ASSUME run \in [Runs -> RunStates], NEW r \in Runs, Quiet(r)
  PROVE  /\ RunSteps(r)
         /\ run'[r].puts = run[r].puts /\ run'[r].tenants = run[r].tenants
         /\ run[r].phase # "new" /\ run'[r].phase # "new"
         /\ UNCHANGED <<prefixVars, storeVars>>
         /\ faulted' \in {faulted, faulted \cup {r}}
         /\ running' \in {running, FALSE}
<1> USE DEF Phases, Working, In
<1>1. CASE Generated(r)
  BY <1>1, EnterFacts DEF Generated
<1>2. CASE GenerateFails(r)
  BY <1>2, EnterFacts DEF GenerateFails
<1>3. CASE OpenedAll(r)
  BY <1>3, EnterFacts DEF OpenedAll
<1>4. CASE Written(r)
  BY <1>4, EnterFacts DEF Written
<1>5. ASSUME NEW t \in Tenants, Compact(r, t) \/ VerifyTenant(r, t)
      PROVE  /\ RunSteps(r)
             /\ run'[r].puts = run[r].puts /\ run'[r].tenants = run[r].tenants
             /\ run[r].phase # "new" /\ run'[r].phase # "new"
             /\ UNCHANGED <<prefixVars, storeVars, faulted, running>>
  BY <1>5, VisitedFacts DEF Compact, VerifyTenant
<1>6. CASE NextPhase(r)
  BY <1>6, EnterFacts DEF NextPhase
<1>7. CASE Verified(r)
  BY <1>7, VerifiedFacts DEF Verified
<1>8. CASE Fails(r)
  BY <1>8, EnterFacts DEF Fails
<1>9. CASE Closed(r)
  BY <1>9, EnterFacts DEF Closed
<1>10. CASE Report(r)
  BY <1>10, ReportFacts DEF Report
<1> QED
  BY <1>1, <1>2, <1>3, <1>4, <1>5, <1>6, <1>7, <1>8, <1>9, <1>10 DEF Quiet

\* What opening handle h of tenant t does.
OpenEffect(r, t, h) ==
    /\ RunSteps(r)
    /\ run[r].phase = "open" /\ run'[r].phase = "open" /\ run'[r].left = run[r].left
    /\ run'[r].puts = run[r].puts /\ run'[r].ok = run[r].ok
    /\ run'[r].tenants = IF h = "maintenance" THEN run[r].tenants \cup {t}
                                              ELSE run[r].tenants
    /\ handles' \in [Runs -> [Tenants -> SUBSET Handles]]
    /\ \A q \in Runs, u \in Tenants :
          handles'[q][u] = IF q = r /\ u = t THEN handles[q][u] \cup Opened(r, h)
                                             ELSE handles[q][u]
    /\ owner' \in [AllStores -> [Tenants -> SUBSET Runs]]
    /\ keeper' \in [AllStores -> [Tenants -> SUBSET Runs]]
    /\ \A s \in AllStores, u \in Tenants :
          /\ owner'[s][u] = IF h = "writer" /\ s = run[r].store /\ u = t
                            THEN {r} ELSE owner[s][u]
          /\ keeper'[s][u] = IF h = "maintenance" /\ s = run[r].store /\ u = t
                             THEN {r} ELSE keeper[s][u]
    /\ UNCHANGED <<writer, mem, durable, feed, running, faulted>>

\* A call of OpenPrefixDB that succeeds has this effect.
LEMMA OpenHandleFacts ==
  ASSUME TypeOK, NEW r \in Runs, NEW t \in Tenants, OpenHandle(r, t),
         NEW h, h = NextHandle(handles[r][t])
  PROVE  OpenEffect(r, t, h)
<1> DEFINE s0 == run[r].store
           H == handles[r][t] \cup Opened(r, h)
<1>1. s0 \in AllStores /\ run \in [Runs -> RunStates]
  BY DEF TypeOK, RunStates
<1>2. h \in {"db", "writer", "reader", "maintenance"}
  BY DEF NextHandle
<1>3. H \in SUBSET Handles
  BY <1>2 DEF TypeOK, Opened, Handles
<1>4. /\ handles' = [handles EXCEPT ![r][t] = H]
      /\ owner' = IF h = "writer" THEN [owner EXCEPT ![s0][t] = {r}] ELSE owner
      /\ keeper' = IF h = "maintenance" THEN [keeper EXCEPT ![s0][t] = {r}] ELSE keeper
      /\ run' = IF h = "maintenance" THEN [run EXCEPT ![r].tenants = @ \cup {t}] ELSE run
      /\ UNCHANGED <<writer, mem, durable, feed, running, faulted>>
      /\ run[r].phase = "open"
  BY DEF OpenHandle, Opening, In
<1> HIDE DEF s0, H
<1>5. /\ handles' \in [Runs -> [Tenants -> SUBSET Handles]]
      /\ \A q \in Runs, u \in Tenants :
            handles'[q][u] = IF q = r /\ u = t THEN H ELSE handles[q][u]
  <2>1. handles \in [Runs -> [Tenants -> SUBSET Handles]]
    BY DEF TypeOK
  <2> QED
    BY <1>3, <1>4, <2>1, UpdateAt
<1>6. {r} \in SUBSET Runs
  OBVIOUS
<1>7. /\ owner' \in [AllStores -> [Tenants -> SUBSET Runs]]
      /\ \A s \in AllStores, u \in Tenants :
            owner'[s][u] = IF h = "writer" /\ s = s0 /\ u = t THEN {r} ELSE owner[s][u]
  BY <1>1, <1>4, <1>6 DEF TypeOK
<1>8. /\ keeper' \in [AllStores -> [Tenants -> SUBSET Runs]]
      /\ \A s \in AllStores, u \in Tenants :
            keeper'[s][u] = IF h = "maintenance" /\ s = s0 /\ u = t
                            THEN {r} ELSE keeper[s][u]
  BY <1>1, <1>4, <1>6 DEF TypeOK
<1>9. /\ RunSteps(r)
      /\ run'[r].phase = run[r].phase /\ run'[r].left = run[r].left
      /\ run'[r].puts = run[r].puts /\ run'[r].ok = run[r].ok
      /\ run'[r].tenants = IF h = "maintenance" THEN run[r].tenants \cup {t}
                                                ELSE run[r].tenants
  <2>1. CASE h = "maintenance"
    BY <1>1, <1>4, <2>1, TenantFacts
  <2>2. CASE h # "maintenance"
    BY <1>1, <1>4, <2>2 DEF RunSteps
  <2> QED
    BY <2>1, <2>2
<1> QED
  BY <1>4, <1>5, <1>7, <1>8, <1>9 DEF s0, H, OpenEffect

\* Opening a handle fails and OpenPrefixDB cleans up.
LEMMA OpenFailsFacts ==
  ASSUME TypeOK, NEW r \in Runs, NEW t \in Tenants, OpenFails(r, t)
  PROVE  /\ RunSteps(r)
         /\ run[r].phase = "open" /\ run'[r].phase = "abort"
         /\ run'[r].left = run[r].tenants
         /\ run'[r].puts = run[r].puts /\ run'[r].ok = run[r].ok
         /\ handles' \in [Runs -> [Tenants -> SUBSET Handles]]
         /\ \A q \in Runs, u \in Tenants :
               handles'[q][u] = IF q = r /\ u = t
                                THEN handles[q][u] \ Cleanup(NextHandle(handles[q][u]))
                                ELSE handles[q][u]
         /\ UNCHANGED <<writer, mem, storeVars, running>>
         /\ faulted' = faulted \cup {r}
<1> DEFINE H == handles[r][t] \ Cleanup(NextHandle(handles[r][t]))
<1>1. /\ run \in [Runs -> RunStates] /\ run[r].tenants \in SUBSET Tenants
      /\ handles \in [Runs -> [Tenants -> SUBSET Handles]]
  BY DEF TypeOK, RunStates
<1>2. H \in SUBSET Handles
  BY <1>1
<1>3. /\ handles' = [handles EXCEPT ![r][t] = H]
      /\ run[r].phase = "open" /\ Enter(r, "abort", run[r].tenants)
      /\ UNCHANGED <<writer, mem, storeVars, running>>
      /\ faulted' = faulted \cup {r}
  BY DEF OpenFails, Opening, In
<1>4. /\ RunSteps(r) /\ run'[r].phase = "abort" /\ run'[r].left = run[r].tenants
      /\ run'[r].puts = run[r].puts /\ run'[r].ok = run[r].ok
  BY <1>1, <1>3, EnterFacts DEF Phases
<1> HIDE DEF H
<1>5. /\ handles' \in [Runs -> [Tenants -> SUBSET Handles]]
      /\ \A q \in Runs, u \in Tenants :
            handles'[q][u] = IF q = r /\ u = t THEN H ELSE handles[q][u]
  BY <1>1, <1>2, <1>3, UpdateAt
<1> QED
  BY <1>3, <1>4, <1>5 DEF H

\* What putting emission e does.
PutEffect(r, e) ==
    /\ RunSteps(r)
    /\ run[r].phase = "write" /\ run'[r].phase = "write"
    /\ run'[r].left = run[r].left /\ run'[r].tenants = run[r].tenants
    /\ run'[r].ok = run[r].ok
    /\ run[r].puts \in Nat /\ Len(run[r].emissions) \in Nat
    /\ run[r].puts < Len(run[r].emissions) /\ run'[r].puts = run[r].puts + 1
    /\ e \in Emissions
    /\ mem' \in [Runs -> [Tenants -> SUBSET Keys]]
    /\ \A q \in Runs, u \in Tenants :
          mem'[q][u] = IF q = r /\ u = e.tenant THEN mem[q][u] \cup {e.key} ELSE mem[q][u]
    /\ UNCHANGED <<handles, writer, storeVars, running, faulted>>

\* WriteEmissions puts the next emission into the buffer of its tenant.
LEMMA PutStepFacts ==
  ASSUME TypeOK, NEW r \in Runs, Put(r),
         NEW e, e = run[r].emissions[run[r].puts + 1]
  PROVE  PutEffect(r, e)
<1>1. /\ run \in [Runs -> RunStates] /\ run[r].emissions \in Seq(Emissions)
      /\ run[r].puts \in Nat
      /\ mem \in [Runs -> [Tenants -> SUBSET Keys]]
  BY DEF TypeOK, RunStates
<1>2. run[r].puts + 1 \in 1..Len(run[r].emissions)
  BY <1>1 DEF Put
<1>3. e \in Emissions
  BY <1>1, <1>2
<1>4. e.tenant \in Tenants /\ e.key \in Keys
  BY <1>3 DEF Emissions
<1> DEFINE M == mem[r][e.tenant] \cup {e.key}
<1>5. M \in SUBSET Keys
  BY <1>1, <1>4
<1>6. mem' = [mem EXCEPT ![r][e.tenant] = M]
  BY DEF Put
<1> HIDE DEF M
<1>7. /\ mem' \in [Runs -> [Tenants -> SUBSET Keys]]
      /\ \A q \in Runs, u \in Tenants :
            mem'[q][u] = IF q = r /\ u = e.tenant THEN M ELSE mem[q][u]
  BY <1>1, <1>4, <1>5, <1>6, UpdateAt
<1>8. /\ RunSteps(r)
      /\ run'[r].phase = run[r].phase /\ run'[r].left = run[r].left
      /\ run'[r].puts = run[r].puts + 1 /\ run'[r].tenants = run[r].tenants
      /\ run'[r].ok = run[r].ok
  BY <1>1, PutFacts DEF Put
<1>9. /\ run[r].phase = "write" /\ run[r].puts < Len(run[r].emissions)
      /\ UNCHANGED <<handles, writer, storeVars, running, faulted>>
  BY DEF Put, In
<1>10. Len(run[r].emissions) \in Nat
  BY <1>1
<1> QED
  BY <1>1, <1>3, <1>7, <1>8, <1>9, <1>10 DEF M, PutEffect

\* The writer's background flush.
LEMMA BackgroundFacts ==
  ASSUME TypeOK, NEW r \in Runs, NEW t \in Tenants, BackgroundFlush(r, t)
  PROVE  /\ "writer" \in handles[r][t]
         /\ UNCHANGED <<run, handles, owner, keeper, running>>
         /\ \/ Commit(r, t) /\ UNCHANGED <<writer, faulted>>
            \/ /\ writer' \in [Runs -> [Tenants -> {"open", "fenced", "failed"}]]
               /\ \A q \in Runs \ {r} : writer'[q] = writer[q]
               /\ Owns(r, t) => faulted' = faulted \cup {r}
               /\ faulted' \in {faulted, faulted \cup {r}}
               /\ UNCHANGED <<mem, durable, feed>>
<1>1. CASE Commit(r, t) /\ UNCHANGED <<writer, faulted>>
  BY <1>1 DEF BackgroundFlush
<1>2. CASE /\ writer' = [writer EXCEPT ![r][t] = IF Owns(r, t) THEN "failed" ELSE "fenced"]
           /\ faulted' = IF Owns(r, t) THEN faulted \cup {r} ELSE faulted
           /\ UNCHANGED <<mem, durable, feed>>
  <2>1. writer \in [Runs -> [Tenants -> {"open", "fenced", "failed"}]]
    BY DEF TypeOK
  <2>2. PICK w \in {"open", "fenced", "failed"} : writer' = [writer EXCEPT ![r][t] = w]
    BY <1>2
  <2>3. /\ writer' \in [Runs -> [Tenants -> {"open", "fenced", "failed"}]]
        /\ \A q \in Runs \ {r} : writer'[q] = writer[q]
    BY <2>1, <2>2, UpdateAt
  <2> QED
    BY <1>2, <2>3 DEF BackgroundFlush
<1> QED
  BY <1>1, <1>2 DEF BackgroundFlush

\* PrefixDB.Close of one tenant: every handle goes, the buffer is committed or
\* lost.
LEMMA CloseFacts ==
  ASSUME TypeOK, NEW r \in Runs, NEW t \in Tenants, CloseTenant(r, t)
  PROVE  /\ RunSteps(r)
         /\ run[r].phase \in {"abort", "close"} /\ run'[r].phase = run[r].phase
         /\ run'[r].left = run[r].left \ {t}
         /\ run'[r].puts = run[r].puts /\ run'[r].tenants = run[r].tenants
         /\ run'[r].ok = run[r].ok
         /\ handles' \in [Runs -> [Tenants -> SUBSET Handles]]
         /\ \A q \in Runs, u \in Tenants :
               handles'[q][u] = IF q = r /\ u = t THEN {} ELSE handles[q][u]
         /\ \/ Commit(r, t)
            \/ mem' = [mem EXCEPT ![r][t] = {}] /\ UNCHANGED <<durable, feed>>
         /\ UNCHANGED <<writer, owner, keeper, running, faulted>>
<1>1. /\ run \in [Runs -> RunStates]
      /\ handles \in [Runs -> [Tenants -> SUBSET Handles]]
  BY DEF TypeOK
<1>2. handles' = [handles EXCEPT ![r][t] = handles[r][t] \ Handles]
  BY DEF CloseTenant, Released
<1>3. handles[r][t] \ Handles = {}
  BY <1>1
<1>4. handles' = [handles EXCEPT ![r][t] = {}]
  BY <1>2, <1>3
<1>5. {} \in SUBSET Handles
  OBVIOUS
<1>6. /\ handles' \in [Runs -> [Tenants -> SUBSET Handles]]
      /\ \A q \in Runs, u \in Tenants :
            handles'[q][u] = IF q = r /\ u = t THEN {} ELSE handles[q][u]
  BY <1>1, <1>4, <1>5, UpdateAt
<1>7. /\ RunSteps(r)
      /\ run'[r].phase = run[r].phase /\ run'[r].left = run[r].left \ {t}
      /\ run'[r].puts = run[r].puts /\ run'[r].tenants = run[r].tenants
      /\ run'[r].ok = run[r].ok
  BY <1>1, VisitedFacts DEF CloseTenant
<1>8. /\ \/ Commit(r, t)
         \/ mem' = [mem EXCEPT ![r][t] = {}] /\ UNCHANGED <<durable, feed>>
      /\ UNCHANGED <<writer, owner, keeper, running, faulted>>
      /\ run[r].phase \in {"abort", "close"}
  BY DEF CloseTenant
<1> QED
  BY <1>6, <1>7, <1>8

\* One tenant of FlushAll.
LEMMA FlushFacts ==
  ASSUME TypeOK, NEW r \in Runs, NEW t \in Tenants, Flush(r, t)
  PROVE  /\ RunSteps(r)
         /\ run[r].phase = "flush" /\ run'[r].phase = "flush"
         /\ run'[r].left = run[r].left \ {t}
         /\ run'[r].puts = run[r].puts /\ run'[r].tenants = run[r].tenants
         /\ run'[r].ok = run[r].ok
         /\ Commit(r, t)
         /\ UNCHANGED <<handles, writer, owner, keeper, running, faulted>>
<1>1. run \in [Runs -> RunStates]
  BY DEF TypeOK
<1> QED
  BY <1>1, VisitedFacts DEF Flush, In

\* The steps of a run, by what they change.
LEMMA StepCases ==
  ASSUME NEW r \in Runs, Step(r)
  PROVE  \/ Quiet(r) \/ Put(r)
         \/ \E t \in Tenants : \/ Emit(r, t) \/ OpenHandle(r, t) \/ OpenFails(r, t)
                               \/ Flush(r, t) \/ CloseTenant(r, t)
BY DEF Step, Quiet

\* A buffer that is dropped instead of committed.
LEMMA DropFacts ==
  ASSUME TypeOK, NEW r \in Runs, NEW t \in Tenants, mem' = [mem EXCEPT ![r][t] = {}]
  PROVE  /\ mem' \in [Runs -> [Tenants -> SUBSET Keys]]
         /\ \A q \in Runs, u \in Tenants :
               mem'[q][u] = IF q = r /\ u = t THEN {} ELSE mem[q][u]
<1>1. mem \in [Runs -> [Tenants -> SUBSET Keys]] /\ {} \in SUBSET Keys
  BY DEF TypeOK
<1> QED
  BY <1>1, UpdateAt

\* Every step preserves the types.
LEMMA StepType ==
  ASSUME TypeOK, NEW r \in Runs, RunKeys(r),
         Start(r) \/ Step(r) \/ \E t \in Tenants : BackgroundFlush(r, t)
  PROVE  TypeOK'
<1>1. run \in [Runs -> RunStates]
  BY DEF TypeOK
<1>2. CASE Start(r)
  BY <1>1, <1>2, StartFacts DEF TypeOK, prefixVars, storeVars
<1>3. CASE Quiet(r)
  <2>1. RunSteps(r) /\ run'[r].puts = run[r].puts /\ faulted' \in SUBSET Runs
    BY <1>1, <1>3, QuietFacts DEF TypeOK
  <2>2. UNCHANGED <<prefixVars, storeVars>> /\ running' \in {running, FALSE}
    BY <1>1, <1>3, QuietFacts
  <2> QED
    BY <2>1, <2>2 DEF TypeOK, RunSteps, prefixVars, storeVars
<1>4. CASE Put(r)
  <2>1. /\ RunSteps(r)
        /\ run[r].puts \in Nat /\ Len(run[r].emissions) \in Nat
        /\ run[r].puts < Len(run[r].emissions) /\ run'[r].puts = run[r].puts + 1
        /\ mem' \in [Runs -> [Tenants -> SUBSET Keys]]
        /\ UNCHANGED <<handles, writer, storeVars, running, faulted>>
    BY <1>4, PutStepFacts DEF PutEffect
  <2>2. run'[r].puts <= Len(run'[r].emissions)
    BY <2>1 DEF RunSteps
  <2>3. \A q \in Runs : /\ run'[q].store \in Stores \cup {q}
                       /\ run'[q].puts <= Len(run'[q].emissions)
    BY <2>1, <2>2 DEF TypeOK, RunSteps
  <2> QED
    BY <2>1, <2>3 DEF TypeOK, RunSteps, storeVars
<1>5. ASSUME NEW t \in Tenants, Emit(r, t) PROVE TypeOK'
  <2>1. /\ run' \in [Runs -> RunStates]
        /\ \A q \in Runs \ {r} : run'[q] = run[q]
        /\ run'[r].store = run[r].store /\ run'[r].puts = run[r].puts
        /\ Len(run'[r].emissions) > Len(run[r].emissions)
    BY <1>1, <1>5, EmitFacts
  <2>2. /\ run[r].puts \in Nat /\ Len(run[r].emissions) \in Nat
        /\ Len(run'[r].emissions) \in Nat
    BY <1>1, <2>1 DEF RunStates
  <2>3. run'[r].puts <= Len(run'[r].emissions)
    BY <2>1, <2>2 DEF TypeOK
  <2>4. UNCHANGED <<prefixVars, storeVars, running, faulted>>
    BY <1>5 DEF Emit
  <2>5. \A q \in Runs : /\ run'[q].store \in Stores \cup {q}
                       /\ run'[q].puts <= Len(run'[q].emissions)
    BY <2>1, <2>3 DEF TypeOK
  <2> QED
    BY <2>1, <2>4, <2>5 DEF TypeOK, prefixVars, storeVars
<1>6. ASSUME NEW t \in Tenants, OpenHandle(r, t) PROVE TypeOK'
  <2>1. /\ RunSteps(r) /\ run'[r].puts = run[r].puts
        /\ handles' \in [Runs -> [Tenants -> SUBSET Handles]]
        /\ owner' \in [AllStores -> [Tenants -> SUBSET Runs]]
        /\ keeper' \in [AllStores -> [Tenants -> SUBSET Runs]]
        /\ UNCHANGED <<writer, mem, durable, feed, running, faulted>>
    BY <1>6, OpenHandleFacts DEF OpenEffect
  <2> QED
    BY <2>1 DEF TypeOK, RunSteps
<1>7. ASSUME NEW t \in Tenants, OpenFails(r, t) PROVE TypeOK'
  <2>1. /\ RunSteps(r) /\ run'[r].puts = run[r].puts
        /\ handles' \in [Runs -> [Tenants -> SUBSET Handles]]
        /\ UNCHANGED <<writer, mem, storeVars, running>>
        /\ faulted' = faulted \cup {r}
    BY <1>7, OpenFailsFacts
  <2> QED
    BY <2>1 DEF TypeOK, RunSteps, storeVars
<1>8. ASSUME NEW t \in Tenants, Flush(r, t) PROVE TypeOK'
  <2>1. /\ RunSteps(r) /\ run'[r].puts = run[r].puts /\ Commit(r, t)
        /\ UNCHANGED <<handles, writer, owner, keeper, running, faulted>>
    BY <1>8, FlushFacts
  <2> QED
    BY <2>1, CommitFacts DEF TypeOK, RunSteps, CommitEffect
<1>9. ASSUME NEW t \in Tenants, CloseTenant(r, t) PROVE TypeOK'
  <2>1. /\ RunSteps(r) /\ run'[r].puts = run[r].puts
        /\ handles' \in [Runs -> [Tenants -> SUBSET Handles]]
        /\ \/ Commit(r, t)
           \/ mem' = [mem EXCEPT ![r][t] = {}] /\ UNCHANGED <<durable, feed>>
        /\ UNCHANGED <<writer, owner, keeper, running, faulted>>
    BY <1>9, CloseFacts
  <2>2. /\ mem' \in [Runs -> [Tenants -> SUBSET Keys]]
        /\ durable' \in [AllStores -> [Tenants -> SUBSET Keys]]
        /\ feed' \in [AllStores -> [Tenants -> Nat]]
    BY <2>1, CommitFacts, DropFacts DEF TypeOK, CommitEffect
  <2> QED
    BY <2>1, <2>2 DEF TypeOK, RunSteps
<1>10. ASSUME NEW t \in Tenants, BackgroundFlush(r, t) PROVE TypeOK'
  <2>1. UNCHANGED <<run, handles, owner, keeper, running>>
    BY <1>10, BackgroundFacts
  <2>2. CASE Commit(r, t) /\ UNCHANGED <<writer, faulted>>
    BY <2>1, <2>2, CommitFacts DEF TypeOK, CommitEffect
  <2>3. CASE /\ writer' \in [Runs -> [Tenants -> {"open", "fenced", "failed"}]]
             /\ faulted' \in {faulted, faulted \cup {r}}
             /\ UNCHANGED <<mem, durable, feed>>
    BY <2>1, <2>3 DEF TypeOK
  <2> QED
    BY <1>10, <2>2, <2>3, BackgroundFacts
<1> QED
  BY <1>2, <1>3, <1>4, <1>5, <1>6, <1>7, <1>8, <1>9, <1>10, StepCases

\* What a step of run r leaves alone: the other runs, and the prefixes of the
\* stores it does not use.
Footprint(r) ==
    /\ \A q \in Runs \ {r} :
          /\ run'[q] = run[q]
          /\ \A u \in Tenants : /\ handles'[q][u] = handles[q][u]
                                /\ writer'[q][u] = writer[q][u]
                                /\ mem'[q][u] = mem[q][u]
    /\ \A s \in AllStores \ {run[r].store}, u \in Tenants :
          /\ owner'[s][u] = owner[s][u] /\ keeper'[s][u] = keeper[s][u]
          /\ durable'[s][u] = durable[s][u] /\ feed'[s][u] = feed[s][u]
    /\ \A s \in AllStores, u \in Tenants : durable[s][u] \subseteq durable'[s][u]
    /\ faulted' \in {faulted, faulted \cup {r}}

\* A commit of run r, seen from the other runs and stores.
LEMMA CommitFootprint ==
  ASSUME TypeOK, NEW r \in Runs, NEW t \in Tenants, RunKeys(r), Commit(r, t)
  PROVE  /\ \A q \in Runs \ {r}, u \in Tenants : mem'[q][u] = mem[q][u]
         /\ \A s \in AllStores \ {run[r].store}, u \in Tenants :
               durable'[s][u] = durable[s][u] /\ feed'[s][u] = feed[s][u]
         /\ \A s \in AllStores, u \in Tenants : durable[s][u] \subseteq durable'[s][u]
<1>1. CommitEffect(r, t)
  BY CommitFacts
<1> QED
  BY <1>1 DEF CommitEffect

\* Every step keeps to its footprint.
LEMMA StepFootprint ==
  ASSUME TypeOK, NEW r \in Runs, RunKeys(r),
         Start(r) \/ Step(r) \/ \E t \in Tenants : BackgroundFlush(r, t)
  PROVE  Footprint(r)
<1>1. run \in [Runs -> RunStates]
  BY DEF TypeOK
<1> USE DEF Footprint
<1>2. CASE Start(r)
  BY <1>1, <1>2, StartFacts DEF prefixVars, storeVars
<1>3. CASE Quiet(r)
  BY <1>1, <1>3, QuietFacts DEF RunSteps, prefixVars, storeVars
<1>4. CASE Put(r)
  BY <1>4, PutStepFacts DEF PutEffect, RunSteps, storeVars
<1>5. ASSUME NEW t \in Tenants, Emit(r, t) PROVE Footprint(r)
  <2>1. \A q \in Runs \ {r} : run'[q] = run[q]
    BY <1>1, <1>5, EmitFacts
  <2> QED
    BY <1>5, <2>1 DEF Emit, prefixVars, storeVars
<1>6. ASSUME NEW t \in Tenants, OpenHandle(r, t) PROVE Footprint(r)
  <2>1. PICK h : h = NextHandle(handles[r][t])
    OBVIOUS
  <2>2. OpenEffect(r, t, h)
    BY <1>6, <2>1, OpenHandleFacts
  <2> QED
    BY <2>2 DEF RunSteps, OpenEffect
<1>7. ASSUME NEW t \in Tenants, OpenFails(r, t) PROVE Footprint(r)
  <2>1. RunSteps(r) /\ UNCHANGED <<writer, mem, storeVars, running>> /\ faulted' = faulted \cup {r}
    BY <1>7, OpenFailsFacts
  <2>2. \A q \in Runs, u \in Tenants :
           handles'[q][u] = IF q = r /\ u = t
                            THEN handles[q][u] \ Cleanup(NextHandle(handles[q][u]))
                            ELSE handles[q][u]
    BY <1>7, OpenFailsFacts
  <2> QED
    BY <2>1, <2>2 DEF RunSteps, storeVars
<1>8. ASSUME NEW t \in Tenants, Flush(r, t) PROVE Footprint(r)
  <2>1. /\ RunSteps(r) /\ Commit(r, t)
        /\ UNCHANGED <<handles, writer, owner, keeper, running, faulted>>
    BY <1>8, FlushFacts
  <2> QED
    BY <2>1, CommitFootprint DEF RunSteps
<1>9. ASSUME NEW t \in Tenants, CloseTenant(r, t) PROVE Footprint(r)
  <2>1. RunSteps(r) /\ UNCHANGED <<writer, owner, keeper, running, faulted>>
    BY <1>9, CloseFacts
  <2>2. \A q \in Runs, u \in Tenants :
           handles'[q][u] = IF q = r /\ u = t THEN {} ELSE handles[q][u]
    BY <1>9, CloseFacts
  <2>3. CASE Commit(r, t)
    BY <2>1, <2>2, <2>3, CommitFootprint DEF RunSteps
  <2>4. CASE mem' = [mem EXCEPT ![r][t] = {}] /\ UNCHANGED <<durable, feed>>
    <3>1. \A q \in Runs, u \in Tenants :
             mem'[q][u] = IF q = r /\ u = t THEN {} ELSE mem[q][u]
      BY <2>4, DropFacts
    <3> QED
      BY <2>1, <2>2, <2>4, <3>1 DEF RunSteps
  <2> QED
    BY <1>9, <2>3, <2>4, CloseFacts
<1>10. ASSUME NEW t \in Tenants, BackgroundFlush(r, t) PROVE Footprint(r)
  <2>1. UNCHANGED <<run, handles, owner, keeper, running>>
    BY <1>10, BackgroundFacts
  <2>2. CASE Commit(r, t) /\ UNCHANGED <<writer, faulted>>
    BY <2>1, <2>2, CommitFootprint
  <2>3. CASE /\ \A q \in Runs \ {r} : writer'[q] = writer[q]
             /\ faulted' \in {faulted, faulted \cup {r}}
             /\ UNCHANGED <<mem, durable, feed>>
    BY <2>1, <2>3
  <2> QED
    BY <1>10, <2>2, <2>3, BackgroundFacts
<1> QED
  BY <1>2, <1>3, <1>4, <1>5, <1>6, <1>7, <1>8, <1>9, <1>10, StepCases

-----------------------------------------------------------------------------
(* NothingLeaked *)

\* A handle is opened for tenant t: unless it is the last one, what is open now
\* is again what OpenPrefixDB would clean up.
LEMMA OpenedFacts ==
  ASSUME NEW r, NEW H, H \subseteq Cleanup(NextHandle(H)),
         NEW h, h = NextHandle(H), h # "maintenance",
         NEW G, G = H \cup Opened(r, h)
  PROVE  G \subseteq Cleanup(NextHandle(G))
<1>1. CASE "db" \notin H
  BY <1>1 DEF NextHandle, Cleanup, Opened
<1>2. CASE "db" \in H /\ "writer" \notin H
  BY <1>2 DEF NextHandle, Cleanup, Opened
<1>3. CASE "db" \in H /\ "writer" \in H /\ "reader" \notin H
  BY <1>3 DEF NextHandle, Cleanup, Opened
<1>4. CASE "db" \in H /\ "writer" \in H /\ "reader" \in H
  BY <1>4 DEF NextHandle
<1> QED
  BY <1>1, <1>2, <1>3, <1>4

\* Every step preserves HandleState.
LEMMA StepHandles ==
  ASSUME TypeOK, HandleState, NEW r \in Runs, RunKeys(r),
         Start(r) \/ Step(r) \/ \E t \in Tenants : BackgroundFlush(r, t)
  PROVE  HandleState'
<1>1. run \in [Runs -> RunStates]
  BY DEF TypeOK
<1>2. ASSUME NEW q \in Runs \ {r}, NEW u \in Tenants PROVE TenantHandles(q, u)'
  <2>1. TenantHandles(q, u) /\ run'[q] = run[q] /\ handles'[q][u] = handles[q][u]
    BY StepFootprint DEF HandleState, Footprint
  <2> QED
    BY <2>1 DEF TenantHandles, In, Opening
<1> SUFFICES ASSUME NEW u \in Tenants PROVE TenantHandles(r, u)'
  BY <1>2 DEF HandleState
<1>3. TenantHandles(r, u)
  BY DEF HandleState
<1> USE DEF TenantHandles, In
<1>4. CASE Start(r)
  BY <1>1, <1>3, <1>4, StartFacts DEF prefixVars
<1>5. CASE Quiet(r)
  <2>1. handles' = handles /\ run'[r].tenants = run[r].tenants
    BY <1>1, <1>5, QuietFacts DEF prefixVars
  <2>2. CASE Generated(r)
    BY <1>1, <1>3, <2>1, <2>2, EnterFacts DEF Generated, Phases
  <2>3. CASE GenerateFails(r)
    BY <1>1, <1>3, <2>1, <2>3, EnterFacts DEF GenerateFails, Phases
  <2>4. CASE OpenedAll(r)
    BY <1>1, <1>3, <2>1, <2>4, EnterFacts DEF OpenedAll, Phases, Working
  <2>5. CASE Written(r)
    BY <1>1, <1>3, <2>1, <2>5, EnterFacts DEF Written, Phases, Working
  <2>6. ASSUME NEW t \in Tenants, Compact(r, t) \/ VerifyTenant(r, t)
        PROVE  TenantHandles(r, u)'
    BY <1>1, <1>3, <2>1, <2>6, VisitedFacts DEF Compact, VerifyTenant
  <2>7. CASE NextPhase(r)
    BY <1>1, <1>3, <2>1, <2>7, EnterFacts DEF NextPhase, Phases, Working
  <2>8. CASE Verified(r)
    BY <1>1, <1>3, <2>1, <2>8, VerifiedFacts
  <2>9. CASE Fails(r)
    BY <1>1, <1>3, <2>1, <2>9, EnterFacts DEF Fails, Phases
  <2>10. CASE Closed(r)
    BY <1>1, <1>3, <2>1, <2>10, EnterFacts DEF Closed, Phases
  <2>11. CASE Report(r)
    BY <1>1, <1>3, <2>1, <2>11, ReportFacts DEF Report
  <2> QED
    BY <1>5, <2>2, <2>3, <2>4, <2>5, <2>6, <2>7, <2>8, <2>9, <2>10, <2>11 DEF Quiet
<1>6. CASE Put(r)
  BY <1>3, <1>6, PutStepFacts DEF PutEffect
<1>7. ASSUME NEW t \in Tenants, Emit(r, t) PROVE TenantHandles(r, u)'
  BY <1>1, <1>3, <1>7, EmitFacts DEF Emit, prefixVars
<1>8. ASSUME NEW t \in Tenants, OpenHandle(r, t) PROVE TenantHandles(r, u)'
  <2>0. PICK h : h = NextHandle(handles[r][t])
    OBVIOUS
  <2>1. /\ run[r].phase = "open" /\ run'[r].phase = "open"
        /\ run'[r].tenants = IF h = "maintenance" THEN run[r].tenants \cup {t}
                                                  ELSE run[r].tenants
        /\ handles'[r][u] = IF u = t THEN handles[r][u] \cup Opened(r, h)
                                     ELSE handles[r][u]
    <3>1. OpenEffect(r, t, h)
      BY <1>8, <2>0, OpenHandleFacts
    <3> QED
      BY <3>1 DEF OpenEffect
  <2>2. Opening(r, t)
    BY <1>8 DEF OpenHandle
  <2> SUFFICES ASSUME u \notin run'[r].tenants
               PROVE  /\ handles'[r][u] # {} => Opening(r, u)'
                      /\ handles'[r][u] \subseteq Cleanup(NextHandle(handles'[r][u]))
    BY <2>1
  <2>3. /\ handles[r][u] # {} => Opening(r, u)
        /\ handles[r][u] \subseteq Cleanup(NextHandle(handles[r][u]))
    BY <1>3, <2>1
  <2>4. CASE u = t
    <3>1. h # "maintenance" /\ run'[r].tenants = run[r].tenants
      BY <2>1, <2>4
    <3>2. Opening(r, u)'
      BY <2>1, <2>2, <2>4, <3>1 DEF Opening
    <3>3. handles'[r][u] \subseteq Cleanup(NextHandle(handles'[r][u]))
      BY <2>0, <2>1, <2>3, <2>4, <3>1, OpenedFacts
    <3> QED
      BY <3>2, <3>3
  <2>5. CASE u # t
    <3>1. handles[r][u] = {}
      BY <2>2, <2>3, <2>5 DEF Opening
    <3> QED
      BY <2>1, <2>5, <3>1
  <2> QED
    BY <2>4, <2>5
<1>9. ASSUME NEW t \in Tenants, OpenFails(r, t) PROVE TenantHandles(r, u)'
  <2>1. /\ run[r].phase = "open" /\ run'[r].phase = "abort"
        /\ run'[r].left = run[r].tenants
        /\ handles'[r][u] = IF u = t
                            THEN handles[r][u] \ Cleanup(NextHandle(handles[r][u]))
                            ELSE handles[r][u]
    <3>1. \A q \in Runs, v \in Tenants :
             handles'[q][v] = IF q = r /\ v = t
                              THEN handles[q][v] \ Cleanup(NextHandle(handles[q][v]))
                              ELSE handles[q][v]
      BY <1>9, OpenFailsFacts
    <3>2. /\ run[r].phase = "open" /\ run'[r].phase = "abort"
          /\ run'[r].left = run[r].tenants
      BY <1>9, OpenFailsFacts
    <3> QED
      BY <3>1, <3>2
  <2>2. Opening(r, t)
    BY <1>9 DEF OpenFails
  <2>3. u \notin run[r].tenants => handles'[r][u] = {}
    BY <1>3, <2>1, <2>2 DEF Opening
  <2> QED
    BY <2>1, <2>3
<1>10. ASSUME NEW t \in Tenants, Flush(r, t) PROVE TenantHandles(r, u)'
  BY <1>3, <1>10, FlushFacts
<1>11. ASSUME NEW t \in Tenants, CloseTenant(r, t) PROVE TenantHandles(r, u)'
  BY <1>3, <1>11, CloseFacts
<1>12. ASSUME NEW t \in Tenants, BackgroundFlush(r, t) PROVE TenantHandles(r, u)'
  BY <1>3, <1>12, BackgroundFacts DEF Opening
<1> QED
  BY <1>4, <1>5, <1>6, <1>7, <1>8, <1>9, <1>10, <1>11, <1>12, StepCases

-----------------------------------------------------------------------------
(* OKIsExact *)

\* The expected keys of a run carry its name.
LEMMA ExpectedNamed ==
  ASSUME CheckedState, NEW r \in Runs, NEW t \in Tenants, NEW k \in Expected(r, t)
  PROVE  k[1] = r
BY DEF CheckedState, Expected, Unique

\* What a run expects depends on its emissions only.
LEMMA SameExpected ==
  ASSUME NEW r \in Runs, run'[r].emissions = run[r].emissions, NEW t \in Tenants
  PROVE  Expected(r, t)' = Expected(r, t)
BY DEF Expected, Unique

\* A step of run r during which Verify is content with no tenant, unless it
\* expects no key of it or has found just what it expects.
LEMMA CheckedStep ==
  ASSUME TypeOK, CheckedState, NEW r \in Runs, Footprint(r), RunSteps(r),
         run'[r].ok => run'[r].phase \in {"close", "returned"},
         \A t \in Tenants : Checked(r, t)' =>
            \/ Checked(r, t)
            \/ Expected(r, t) = {}
            \/ Expected(r, t) = durable[run[r].store][t]
  PROVE  CheckedState'
<1>1. \A q \in Runs : /\ run'[q].emissions = run[q].emissions
                      /\ run'[q].store = run[q].store
                      /\ run[q].store \in AllStores
  BY DEF Footprint, RunSteps, TypeOK, RunStates
<1>2. \A q \in Runs, t \in Tenants : Expected(q, t)' = Expected(q, t)
  BY <1>1, SameExpected
<1>3. \A q \in Runs \ {r}, t \in Tenants : Checked(q, t)' <=> Checked(q, t)
  BY DEF Footprint, Checked, In
<1>4. \A q \in Runs : /\ \A i \in DOMAIN run'[q].emissions : run'[q].emissions[i].key[1] = q
                      /\ run'[q].ok => run'[q].phase \in {"close", "returned"}
  BY <1>1 DEF CheckedState, Footprint
<1>5. ASSUME NEW q \in Runs, NEW t \in Tenants, Checked(q, t)'
      PROVE  Expected(q, t)' \subseteq durable'[run'[q].store][t]
  <2>1. durable[run[q].store][t] \subseteq durable'[run[q].store][t]
    BY <1>1 DEF Footprint
  <2>2. Expected(q, t) \subseteq durable[run[q].store][t]
    BY <1>3, <1>5 DEF CheckedState
  <2> QED
    BY <1>1, <1>2, <2>1, <2>2
<1>6. ASSUME NEW p \in Runs, NEW q \in Runs \ {p}, NEW t \in Tenants,
             run[q].store = run[p].store, Checked(q, t),
             \/ Checked(p, t)
             \/ Expected(p, t) = {}
             \/ Expected(p, t) = durable[run[p].store][t]
      PROVE  Expected(p, t) = {} \/ Expected(q, t) = {}
  <2>1. CASE Checked(p, t)
    BY <1>6, <2>1 DEF CheckedState
  <2>2. CASE Expected(p, t) = durable[run[p].store][t]
    <3>1. Expected(q, t) \subseteq Expected(p, t)
      BY <1>6, <2>2 DEF CheckedState
    <3> QED
      BY <3>1, ExpectedNamed
  <2> QED
    BY <1>6, <2>1, <2>2
<1>7. ASSUME NEW p \in Runs, NEW q \in Runs \ {p}, NEW t \in Tenants,
             Checked(p, t)', Checked(q, t)', run'[q].store = run'[p].store
      PROVE  Expected(p, t)' = {} \/ Expected(q, t)' = {}
  <2>1. run[q].store = run[p].store
    BY <1>1, <1>7
  <2>2. CASE p = r
    BY <1>2, <1>3, <1>6, <1>7, <2>1, <2>2
  <2>3. CASE q = r
    BY <1>2, <1>3, <1>6, <1>7, <2>1, <2>3
  <2>4. CASE p # r /\ q # r
    BY <1>2, <1>3, <1>6, <1>7, <2>1, <2>4
  <2> QED
    BY <2>2, <2>3, <2>4
<1> QED
  BY <1>4, <1>5, <1>7 DEF CheckedState

\* A step of run r after which Verify has not begun.
LEMMA UncheckedStep ==
  ASSUME TypeOK, CheckedState, NEW r \in Runs, Footprint(r),
         ~run'[r].ok, run'[r].phase # "verify",
         \A i \in DOMAIN run'[r].emissions : run'[r].emissions[i].key[1] = r
  PROVE  CheckedState'
<1>1. \A q \in Runs \ {r} : run'[q] = run[q] /\ run[q].store \in AllStores
  BY DEF Footprint, TypeOK, RunStates
<1>2. \A t \in Tenants : ~Checked(r, t)'
  BY DEF Checked, In
<1>3. \A q \in Runs \ {r}, t \in Tenants :
         /\ Checked(q, t)' <=> Checked(q, t)
         /\ Expected(q, t)' = Expected(q, t)
  BY <1>1, SameExpected DEF Checked, In
<1>4. \A q \in Runs : /\ \A i \in DOMAIN run'[q].emissions : run'[q].emissions[i].key[1] = q
                      /\ run'[q].ok => run'[q].phase \in {"close", "returned"}
  BY <1>1 DEF CheckedState
<1>5. ASSUME NEW q \in Runs, NEW t \in Tenants, Checked(q, t)'
      PROVE  Expected(q, t)' \subseteq durable'[run'[q].store][t]
  <2>1. q # r /\ Expected(q, t) \subseteq durable[run[q].store][t]
    BY <1>2, <1>3, <1>5 DEF CheckedState
  <2>2. durable[run[q].store][t] \subseteq durable'[run[q].store][t]
    BY <1>1, <2>1 DEF Footprint
  <2> QED
    BY <1>1, <1>3, <2>1, <2>2
<1>6. ASSUME NEW p \in Runs, NEW q \in Runs \ {p}, NEW t \in Tenants,
             Checked(p, t)', Checked(q, t)', run'[q].store = run'[p].store
      PROVE  Expected(p, t)' = {} \/ Expected(q, t)' = {}
  <2>1. p # r /\ q # r
    BY <1>2, <1>6
  <2> QED
    BY <1>1, <1>3, <1>6, <2>1 DEF CheckedState
<1> QED
  BY <1>4, <1>5, <1>6 DEF CheckedState

\* Every step preserves CheckedState.
LEMMA StepChecked ==
  ASSUME TypeOK, CheckedState, NEW r \in Runs, RunKeys(r),
         Start(r) \/ Step(r) \/ \E t \in Tenants : BackgroundFlush(r, t)
  PROVE  CheckedState'
<1>1. run \in [Runs -> RunStates] /\ run[r] \in RunStates
  BY DEF TypeOK
<1>2. Footprint(r)
  BY StepFootprint
<1>3. /\ \A i \in DOMAIN run[r].emissions : run[r].emissions[i].key[1] = r
      /\ run[r].ok => run[r].phase \in {"close", "returned"}
  BY DEF CheckedState
<1>4. ASSUME RunSteps(r), run'[r].phase = run[r].phase, run'[r].ok = run[r].ok,
             run'[r].left = run[r].left \/ run[r].phase # "verify"
      PROVE  CheckedState'
  BY <1>2, <1>3, <1>4, CheckedStep DEF Checked, In
<1>5. ASSUME RunSteps(r), run'[r].ok = run[r].ok, ~run[r].ok, run'[r].phase # "verify"
      PROVE  CheckedState'
  BY <1>2, <1>3, <1>5, UncheckedStep DEF RunSteps
<1> USE DEF In
<1>6. CASE Start(r)
  <2>1. ~run'[r].ok /\ run'[r].phase # "verify" /\ run'[r].emissions = run[r].emissions
    BY <1>1, <1>3, <1>6, StartFacts
  <2> QED
    BY <1>2, <1>3, <2>1, UncheckedStep
<1>7. ASSUME NEW t \in Tenants, Emit(r, t) PROVE CheckedState'
  <2>1. ~run'[r].ok /\ run'[r].phase # "verify"
    BY <1>1, <1>3, <1>7, EmitFacts
  <2>2. /\ \A i \in 1..Len(run[r].emissions) : run'[r].emissions[i] = run[r].emissions[i]
        /\ \A i \in 1..Len(run'[r].emissions) : i > Len(run[r].emissions)
              => run'[r].emissions[i].key[1] = r
        /\ run' \in [Runs -> RunStates]
    BY <1>1, <1>7, EmitFacts
  <2>3. /\ DOMAIN run[r].emissions = 1..Len(run[r].emissions) /\ Len(run[r].emissions) \in Nat
        /\ DOMAIN run'[r].emissions = 1..Len(run'[r].emissions)
        /\ Len(run'[r].emissions) \in Nat
    BY <1>1, <2>2 DEF RunStates
  <2>4. \A i \in DOMAIN run'[r].emissions : run'[r].emissions[i].key[1] = r
    BY <1>3, <2>2, <2>3
  <2> QED
    BY <1>2, <2>1, <2>4, UncheckedStep
<1>8. CASE Quiet(r)
  <2>1. CASE Generated(r)
    BY <1>1, <1>3, <1>5, <2>1, EnterFacts DEF Generated, Phases
  <2>2. CASE GenerateFails(r)
    BY <1>1, <1>3, <1>5, <2>2, EnterFacts DEF GenerateFails, Phases
  <2>3. CASE OpenedAll(r)
    BY <1>1, <1>3, <1>5, <2>3, EnterFacts DEF OpenedAll, Phases, Working
  <2>4. CASE Written(r)
    BY <1>1, <1>3, <1>5, <2>4, EnterFacts DEF Written, Phases, Working
  <2>5. ASSUME NEW t \in Tenants, Compact(r, t) PROVE CheckedState'
    BY <1>1, <1>4, <2>5, VisitedFacts DEF Compact
  <2>6. ASSUME NEW t \in Tenants, VerifyTenant(r, t) PROVE CheckedState'
    <3>1. /\ RunSteps(r) /\ run[r].phase = "verify" /\ run'[r].phase = "verify"
          /\ run'[r].left = run[r].left \ {t} /\ run'[r].ok = run[r].ok
      BY <1>1, <2>6, VisitedFacts DEF VerifyTenant
    <3>2. Expected(r, t) = durable[run[r].store][t]
      BY <2>6 DEF VerifyTenant, Matches, verifyKeySet, ScanKeys
    <3>3. \A u \in Tenants : Checked(r, u)' => Checked(r, u) \/ u = t
      BY <3>1 DEF Checked
    <3> QED
      BY <1>2, <1>3, <3>1, <3>2, <3>3, CheckedStep
  <2>7. CASE NextPhase(r)
    <3>1. CASE Enter(r, "compact", Tenants) /\ In(r, "flush")
      BY <1>1, <1>3, <1>5, <3>1, EnterFacts DEF Phases, Working
    <3>2. CASE Enter(r, "verify", {t \in Tenants : Expected(r, t) # {}}) /\ In(r, "compact")
      <4>1. /\ RunSteps(r) /\ run'[r].phase = "verify"
            /\ run'[r].left = {t \in Tenants : Expected(r, t) # {}}
            /\ run'[r].ok = run[r].ok
        BY <1>1, <3>2, EnterFacts DEF Phases, Working
      <4>2. ~run[r].ok
        BY <1>3, <3>2
      <4>3. \A u \in Tenants : Checked(r, u)' => Expected(r, u) = {}
        BY <4>1, <4>2 DEF Checked
      <4> QED
        BY <1>2, <4>1, <4>2, <4>3, CheckedStep
    <3> QED
      BY <2>7, <3>1, <3>2 DEF NextPhase
  <2>8. CASE Verified(r)
    <3>1. RunSteps(r) /\ run'[r].phase = "close"
      BY <1>1, <2>8, VerifiedFacts
    <3>2. \A u \in Tenants : Checked(r, u)
      BY <2>8 DEF Verified, Checked
    <3> QED
      BY <1>2, <3>1, <3>2, CheckedStep
  <2>9. CASE Fails(r)
    BY <1>1, <1>3, <1>5, <2>9, EnterFacts DEF Fails, Phases, Working
  <2>10. CASE Closed(r)
    <3>1. /\ RunSteps(r) /\ run'[r].phase = "returned" /\ run'[r].ok = run[r].ok
      BY <1>1, <2>10, EnterFacts DEF Closed, Phases
    <3> QED
      BY <1>2, <3>1, CheckedStep DEF Checked
  <2>11. CASE Report(r)
    BY <1>1, <1>4, <2>11, ReportFacts DEF Report
  <2> QED
    BY <1>8, <2>1, <2>2, <2>3, <2>4, <2>5, <2>6, <2>7, <2>8, <2>9, <2>10, <2>11 DEF Quiet
<1>9. CASE Put(r)
  BY <1>4, <1>9, PutStepFacts DEF PutEffect
<1>10. ASSUME NEW t \in Tenants, OpenHandle(r, t) PROVE CheckedState'
  <2>1. OpenEffect(r, t, NextHandle(handles[r][t]))
    BY <1>10, OpenHandleFacts
  <2> QED
    BY <1>4, <2>1 DEF OpenEffect
<1>11. ASSUME NEW t \in Tenants, OpenFails(r, t) PROVE CheckedState'
  BY <1>3, <1>5, <1>11, OpenFailsFacts
<1>12. ASSUME NEW t \in Tenants, Flush(r, t) PROVE CheckedState'
  BY <1>4, <1>12, FlushFacts
<1>13. ASSUME NEW t \in Tenants, CloseTenant(r, t) PROVE CheckedState'
  BY <1>4, <1>13, CloseFacts
<1>14. ASSUME NEW t \in Tenants, BackgroundFlush(r, t) PROVE CheckedState'
  <2>1. run' = run
    BY <1>14, BackgroundFacts
  <2>2. RunSteps(r)
    BY <1>1, <2>1 DEF RunSteps
  <2> QED
    BY <1>4, <2>1, <2>2
<1> QED
  BY <1>6, <1>7, <1>8, <1>9, <1>10, <1>11, <1>12, <1>13, <1>14, StepCases
-----------------------------------------------------------------------------
(* KeyState *)

\* A run that has no new events and puts nothing keeps RunKeys, if it was under
\* way or changes nothing that a new run promises.
LEMMA SameRunKeys ==
  ASSUME NEW q \in Runs, RunKeys(q),
         run'[q].emissions = run[q].emissions,
         \A t \in Tenants : mem'[q][t] = mem[q][t] \/ mem'[q][t] = {},
         \/ run[q].phase # "new" /\ run'[q].phase # "new"
         \/ run'[q] = run[q] /\ \A t \in Tenants : writer'[q][t] = writer[q][t]
  PROVE  RunKeys(q)'
<1>1. Unique(q)' = Unique(q)
  BY DEF Unique
<1>2. /\ \A i \in DOMAIN run'[q].emissions :
            \E j \in Unique(q)' :
               /\ run'[q].emissions[j].key = run'[q].emissions[i].key
               /\ run'[q].emissions[j].tenant = run'[q].emissions[i].tenant
  BY <1>1 DEF RunKeys
<1>3. \A t \in Tenants :
         IsFiniteSet(mem'[q][t]) /\ \A k \in mem'[q][t] : k[1] = q /\ ~In(q, "new")'
  <2>1. TAKE t \in Tenants
  <2>2. CASE mem'[q][t] = {}
    BY <2>2, FS_EmptySet
  <2>3. CASE mem'[q][t] = mem[q][t]
    BY <2>3 DEF RunKeys, In
  <2> QED
    BY <2>2, <2>3
<1>4. In(q, "new")' =>
         /\ run'[q].store = q /\ run'[q].puts = 0 /\ run'[q].tenants = {}
         /\ \A t \in Tenants : writer'[q][t] = "open"
  BY DEF RunKeys, In
<1> QED
  BY <1>2, <1>3, <1>4 DEF RunKeys

\* The events that eventgen.Run adds are one unique event and its retry.
LEMMA EmitKeys ==
  ASSUME TypeOK, NEW r \in Runs, RunKeys(r), NEW t \in Tenants, Emit(r, t)
  PROVE  RunKeys(r)'
<1> DEFINE n == Len(run[r].emissions)
           m == Len(run'[r].emissions)
<1>1. run \in [Runs -> RunStates]
  BY DEF TypeOK
<1>2. /\ run' \in [Runs -> RunStates]
      /\ run[r].phase = "generate" /\ run'[r].phase = "generate"
      /\ m > n
      /\ \A i \in 1..n : run'[r].emissions[i] = run[r].emissions[i]
      /\ ~run'[r].emissions[n + 1].retry
      /\ \A i \in 1..m : i > n =>
            /\ run'[r].emissions[i].key = run'[r].emissions[n + 1].key
            /\ run'[r].emissions[i].tenant = t
  BY <1>1, EmitFacts DEF In
<1>3. /\ n \in Nat /\ m \in Nat
      /\ DOMAIN run[r].emissions = 1..n /\ DOMAIN run'[r].emissions = 1..m
  BY <1>1, <1>2 DEF RunStates
<1> HIDE DEF n, m
<1>4. n + 1 \in Unique(r)' /\ run'[r].emissions[n + 1].tenant = t
  BY <1>2, <1>3 DEF Unique
<1>5. \A j \in Unique(r) : j \in Unique(r)' /\ j \in 1..n
  BY <1>2, <1>3 DEF Unique
<1>6. ASSUME NEW i \in DOMAIN run'[r].emissions
      PROVE  \E j \in Unique(r)' :
                /\ run'[r].emissions[j].key = run'[r].emissions[i].key
                /\ run'[r].emissions[j].tenant = run'[r].emissions[i].tenant
  <2>1. CASE i \in 1..n
    <3>1. PICK j \in Unique(r) :
             /\ run[r].emissions[j].key = run[r].emissions[i].key
             /\ run[r].emissions[j].tenant = run[r].emissions[i].tenant
      BY <1>3, <2>1 DEF RunKeys
    <3> QED
      BY <1>2, <1>5, <2>1, <3>1
  <2>2. CASE i > n
    BY <1>2, <1>3, <1>4, <2>2
  <2> QED
    BY <1>3, <2>1, <2>2
<1>7. \A u \in Tenants :
         IsFiniteSet(mem'[r][u]) /\ \A k \in mem'[r][u] : k[1] = r /\ ~In(r, "new")'
  BY <1>2 DEF RunKeys, Emit, prefixVars, In
<1> QED
  BY <1>2, <1>6, <1>7 DEF RunKeys, In

\* A key that WriteEmissions puts is a key of the run.
LEMMA PutKeys ==
  ASSUME TypeOK, CheckedState, NEW r \in Runs, RunKeys(r), Put(r)
  PROVE  RunKeys(r)'
<1> DEFINE e == run[r].emissions[run[r].puts + 1]
<1>1. /\ RunSteps(r)
      /\ run[r].phase = "write" /\ run'[r].phase = "write"
      /\ run[r].puts \in Nat /\ Len(run[r].emissions) \in Nat
      /\ run[r].puts < Len(run[r].emissions)
      /\ \A u \in Tenants :
            mem'[r][u] = IF u = e.tenant THEN mem[r][u] \cup {e.key} ELSE mem[r][u]
  <2>1. PutEffect(r, e)
    BY PutStepFacts
  <2> HIDE DEF e
  <2> QED
    BY <2>1 DEF PutEffect
<1>2. DOMAIN run[r].emissions = 1..Len(run[r].emissions)
  BY DEF TypeOK, RunStates
<1>3. e.key[1] = r
  BY <1>1, <1>2 DEF CheckedState
<1> HIDE DEF e
<1>4. ASSUME NEW u \in Tenants
      PROVE  IsFiniteSet(mem'[r][u]) /\ \A k \in mem'[r][u] : k[1] = r /\ ~In(r, "new")'
  <2>1. IsFiniteSet(mem[r][u]) /\ \A k \in mem[r][u] : k[1] = r
    BY DEF RunKeys
  <2>2. IsFiniteSet(mem[r][u] \cup {e.key})
    BY <2>1, FS_AddElement
  <2> QED
    BY <1>1, <1>3, <2>1, <2>2 DEF In
<1>5. Unique(r)' = Unique(r) /\ run'[r].emissions = run[r].emissions
  BY <1>1 DEF Unique, RunSteps
<1>6. \A i \in DOMAIN run'[r].emissions :
         \E j \in Unique(r)' :
            /\ run'[r].emissions[j].key = run'[r].emissions[i].key
            /\ run'[r].emissions[j].tenant = run'[r].emissions[i].tenant
  BY <1>5 DEF RunKeys
<1> QED
  BY <1>1, <1>4, <1>6 DEF RunKeys, In

\* A run that has started keeps its store, and none goes back to being new.
Started ==
    \A q \in Runs : run[q].phase # "new" =>
       run'[q].store = run[q].store /\ run'[q].phase # "new"

\* A prefix that is not committed to.
LEMMA SamePrefixKeys ==
  ASSUME TypeOK, NEW r \in Runs, Started,
         NEW s \in AllStores, NEW t \in Tenants, PrefixKeys(s, t),
         durable'[s][t] = durable[s][t], feed'[s][t] = feed[s][t]
  PROVE  PrefixKeys(s, t)'
<1>1. \A k \in durable[s][t] : k[1] \in Runs
  BY DEF TypeOK, Keys
<1> QED
  BY <1>1 DEF PrefixKeys, Started, In

\* A commit adds keys of its own run to the prefix and all of them to the feed.
LEMMA CommitKeys ==
  ASSUME TypeOK, NEW r \in Runs, Started, RunKeys(r),
         NEW t \in Tenants, Commit(r, t),
         \A s \in AllStores, u \in Tenants : PrefixKeys(s, u)
  PROVE  \A s \in AllStores, u \in Tenants : PrefixKeys(s, u)'
<1>1. CommitEffect(r, t)
  BY CommitFacts
<1>2. TAKE s \in AllStores, u \in Tenants
<1>3. CASE s = run[r].store /\ u = t
  <2>0. feed[s][u] \in Nat
    BY DEF TypeOK
  <2>1. /\ durable'[s][u] = durable[s][u] \cup mem[r][t]
        /\ feed'[s][u] = feed[s][u] + Cardinality(mem[r][t])
        /\ Cardinality(mem[r][t]) \in Nat
    BY <1>1, <1>3 DEF CommitEffect
  <2>2. /\ IsFiniteSet(durable[s][u]) /\ feed[s][u] >= Cardinality(durable[s][u])
        /\ \A k \in durable[s][u] : run[k[1]].store = s /\ ~In(k[1], "new")
    BY DEF PrefixKeys
  <2>3. IsFiniteSet(mem[r][t]) /\ \A k \in mem[r][t] : k[1] = r /\ run[r].phase # "new"
    BY DEF RunKeys, In
  <2>4. Cardinality(durable[s][u]) \in Nat
        /\ Cardinality(durable[s][u] \cap mem[r][t]) \in Nat
    BY <2>2, <2>3, FS_CardinalityType, FS_Intersection
  <2>5. /\ IsFiniteSet(durable[s][u] \cup mem[r][t])
        /\ Cardinality(durable[s][u] \cup mem[r][t])
              = Cardinality(durable[s][u]) + Cardinality(mem[r][t])
                - Cardinality(durable[s][u] \cap mem[r][t])
    BY <2>2, <2>3, FS_Union
  <2>6. feed'[s][u] >= Cardinality(durable'[s][u]) /\ IsFiniteSet(durable'[s][u])
    BY <2>0, <2>1, <2>2, <2>4, <2>5
  <2>7. ASSUME NEW k \in durable'[s][u] PROVE run'[k[1]].store = s /\ ~In(k[1], "new")'
    <3>1. k[1] \in Runs /\ run[k[1]].store = s /\ run[k[1]].phase # "new"
      BY <1>3, <2>1, <2>2, <2>3 DEF TypeOK, Keys, In
    <3> QED
      BY <3>1 DEF Started, In
  <2> QED
    BY <2>6, <2>7 DEF PrefixKeys
<1>4. CASE ~(s = run[r].store /\ u = t)
  <2>1. durable'[s][u] = durable[s][u] /\ feed'[s][u] = feed[s][u]
    BY <1>1, <1>4 DEF CommitEffect
  <2> QED
    BY <2>1, SamePrefixKeys
<1> QED
  BY <1>3, <1>4

\* Every step preserves KeyState, and a started run stays one.
LEMMA StepKeys ==
  ASSUME TypeOK, CheckedState, KeyState, NEW r \in Runs,
         Start(r) \/ Step(r) \/ \E t \in Tenants : BackgroundFlush(r, t)
  PROVE  KeyState' /\ Started
<1>1. run \in [Runs -> RunStates] /\ RunKeys(r)
  BY DEF TypeOK, KeyState
<1>2. Footprint(r)
  BY <1>1, StepFootprint
<1>3. \A q \in Runs \ {r} : RunKeys(q)'
  BY <1>2, SameRunKeys DEF KeyState, Footprint
<1>4. ASSUME RunKeys(r)', Started, durable' = durable, feed' = feed PROVE KeyState' /\ Started
  BY <1>3, <1>4, SamePrefixKeys DEF KeyState
<1>5. ASSUME RunKeys(r)', Started, NEW t \in Tenants, Commit(r, t) PROVE KeyState' /\ Started
  <2>1. \A s \in AllStores, u \in Tenants : PrefixKeys(s, u)
    BY DEF KeyState
  <2>2. \A s \in AllStores, u \in Tenants : PrefixKeys(s, u)'
    BY <1>1, <1>5, <2>1, CommitKeys
  <2> QED
    BY <1>3, <1>5, <2>2 DEF KeyState
<1>6. ASSUME RunSteps(r), run[r].phase # "new", run'[r].phase # "new"
      PROVE  /\ Started
             /\ (\A t \in Tenants : mem'[r][t] = mem[r][t] \/ mem'[r][t] = {}) => RunKeys(r)'
  <2>1. Started
    BY <1>6 DEF Started, RunSteps
  <2> QED
    BY <1>1, <1>6, <2>1, SameRunKeys DEF RunSteps
<1>7. CASE Start(r)
  <2>1. /\ \A q \in Runs \ {r} : run'[q] = run[q]
        /\ run[r].phase = "new" /\ run'[r].phase = "generate"
        /\ run'[r].emissions = run[r].emissions
        /\ UNCHANGED <<mem, durable, feed>>
    BY <1>1, <1>7, StartFacts DEF In, prefixVars, storeVars
  <2>2. Started
    BY <2>1 DEF Started
  <2>3. Unique(r)' = Unique(r)
    BY <2>1 DEF Unique
  <2>4. RunKeys(r)'
    BY <1>1, <2>1, <2>3 DEF RunKeys, In
  <2> QED
    BY <1>4, <2>1, <2>2, <2>4
<1>8. CASE Quiet(r)
  <2>1. /\ RunSteps(r) /\ run[r].phase # "new" /\ run'[r].phase # "new"
        /\ UNCHANGED <<mem, durable, feed>>
    BY <1>1, <1>8, QuietFacts DEF prefixVars, storeVars
  <2> QED
    BY <1>4, <1>6, <2>1
<1>9. CASE Put(r)
  <2>1. /\ RunSteps(r) /\ run[r].phase = "write" /\ run'[r].phase = "write"
        /\ UNCHANGED <<durable, feed>>
    BY <1>9, PutStepFacts DEF PutEffect, storeVars
  <2>2. RunKeys(r)'
    BY <1>1, <1>9, PutKeys
  <2> QED
    BY <1>4, <1>6, <2>1, <2>2
<1>10. ASSUME NEW t \in Tenants, Emit(r, t) PROVE KeyState' /\ Started
  <2>1. /\ \A q \in Runs \ {r} : run'[q] = run[q]
        /\ run[r].phase = "generate" /\ run'[r].phase = "generate"
        /\ run'[r].store = run[r].store
    BY <1>1, <1>10, EmitFacts DEF In
  <2>2. Started
    BY <2>1 DEF Started
  <2>3. RunKeys(r)' /\ UNCHANGED <<durable, feed>>
    BY <1>1, <1>10, EmitKeys DEF Emit, storeVars
  <2> QED
    BY <1>4, <2>2, <2>3
<1>11. ASSUME NEW t \in Tenants, OpenHandle(r, t) PROVE KeyState' /\ Started
  <2>1. OpenEffect(r, t, NextHandle(handles[r][t]))
    BY <1>11, OpenHandleFacts
  <2>2. /\ RunSteps(r) /\ run[r].phase = "open" /\ run'[r].phase = "open"
        /\ UNCHANGED <<mem, durable, feed>>
    BY <2>1 DEF OpenEffect
  <2> QED
    BY <1>4, <1>6, <2>2
<1>12. ASSUME NEW t \in Tenants, OpenFails(r, t) PROVE KeyState' /\ Started
  <2>1. /\ RunSteps(r) /\ run[r].phase = "open" /\ run'[r].phase = "abort"
        /\ UNCHANGED <<mem, durable, feed>>
    BY <1>12, OpenFailsFacts DEF storeVars
  <2> QED
    BY <1>4, <1>6, <2>1
<1>13. ASSUME NEW t \in Tenants, Commit(r, t)
       PROVE  \A u \in Tenants : mem'[r][u] = mem[r][u] \/ mem'[r][u] = {}
  BY <1>1, <1>13, CommitFacts DEF CommitEffect
<1>14. ASSUME NEW t \in Tenants, Flush(r, t) PROVE KeyState' /\ Started
  <2>1. RunSteps(r) /\ run[r].phase = "flush" /\ run'[r].phase = "flush" /\ Commit(r, t)
    BY <1>14, FlushFacts
  <2> QED
    BY <1>5, <1>6, <1>13, <2>1
<1>15. ASSUME NEW t \in Tenants, CloseTenant(r, t) PROVE KeyState' /\ Started
  <2>1. /\ RunSteps(r) /\ run[r].phase # "new" /\ run'[r].phase # "new"
        /\ \/ Commit(r, t)
           \/ mem' = [mem EXCEPT ![r][t] = {}] /\ UNCHANGED <<durable, feed>>
    BY <1>15, CloseFacts
  <2>2. CASE Commit(r, t)
    BY <1>5, <1>6, <1>13, <2>1, <2>2
  <2>3. CASE mem' = [mem EXCEPT ![r][t] = {}] /\ UNCHANGED <<durable, feed>>
    <3>1. \A u \in Tenants : mem'[r][u] = mem[r][u] \/ mem'[r][u] = {}
      BY <2>3, DropFacts
    <3> QED
      BY <1>4, <1>6, <2>1, <2>3, <3>1
  <2> QED
    BY <2>1, <2>2, <2>3
<1>16. ASSUME NEW t \in Tenants, BackgroundFlush(r, t) PROVE KeyState' /\ Started
  <2>1. run' = run /\ mem[r][t] # {}
    BY <1>16 DEF BackgroundFlush
  <2>2. run[r].phase # "new"
    BY <1>1, <2>1 DEF RunKeys, In
  <2>3. RunSteps(r) /\ run'[r].phase # "new"
    BY <1>1, <2>1, <2>2 DEF RunSteps
  <2>4. CASE Commit(r, t)
    BY <1>5, <1>6, <1>13, <2>2, <2>3, <2>4
  <2>5. CASE UNCHANGED <<mem, durable, feed>>
    BY <1>4, <1>6, <2>2, <2>3, <2>5
  <2> QED
    BY <1>16, <2>4, <2>5 DEF BackgroundFlush
<1> QED
  BY <1>7, <1>8, <1>9, <1>10, <1>11, <1>12, <1>14, <1>15, <1>16, StepCases

-----------------------------------------------------------------------------
(* CleanRunPasses *)

\* A step of run r neither helps nor harms another run that has its store to
\* itself.
LEMMA OthersClean ==
  ASSUME TypeOK, NEW r \in Runs, RunKeys(r), Footprint(r), Started,
         NEW q \in Runs \ {r}, Clean(q)', ~In(q, "new")',
         Clean(q) /\ ~In(q, "new") => CleanState(q)
  PROVE  CleanState(q)'
<1>1. /\ run'[q] = run[q] /\ ~In(q, "new")
      /\ \A u \in Tenants : /\ handles'[q][u] = handles[q][u]
                            /\ writer'[q][u] = writer[q][u]
                            /\ mem'[q][u] = mem[q][u]
  BY DEF Footprint, In
<1>2. run[q].store \in AllStores /\ run[q].store \in Stores \cup {q}
  BY DEF TypeOK, RunStates
<1>3. run[r].store # run[q].store
  <2>1. CASE run[r].phase = "new"
    BY <1>2, <2>1, RunsAssumption DEF RunKeys, In
  <2>2. CASE run[r].phase # "new"
    BY <1>1, <2>2 DEF Started, Clean
  <2> QED
    BY <2>1, <2>2
<1>4. Clean(q)
  BY <1>1, <1>3 DEF Clean, Footprint
<1>5. \A u \in Tenants : /\ owner'[run[q].store][u] = owner[run[q].store][u]
                         /\ keeper'[run[q].store][u] = keeper[run[q].store][u]
                         /\ durable'[run[q].store][u] = durable[run[q].store][u]
  BY <1>2, <1>3 DEF Footprint
<1>6. ASSUME NEW u \in Tenants PROVE CleanTenant(q, u)'
  <2>1. CleanTenant(q, u)
    BY <1>1, <1>4 DEF CleanState
  <2>2. /\ Owns(q, u)' <=> Owns(q, u)
        /\ Keeps(q, u)' <=> Keeps(q, u)
        /\ KeysUpTo(q, u, run[q].puts)' = KeysUpTo(q, u, run[q].puts)
    BY <1>1, <1>5 DEF Owns, Keeps, KeysUpTo
  <2> QED
    BY <1>1, <1>5, <2>1, <2>2 DEF CleanTenant, In
<1> QED
  BY <1>1, <1>4, <1>6 DEF CleanState, In

\* A retry repeats a key, so what a run has put in the end is what it expects.
LEMMA AllKeysUpTo ==
  ASSUME TypeOK, NEW r \in Runs, RunKeys(r), NEW t \in Tenants
  PROVE  KeysUpTo(r, t, Len(run[r].emissions)) = Expected(r, t)
<1>1. DOMAIN run[r].emissions = 1..Len(run[r].emissions)
  BY DEF TypeOK, RunStates
<1>2. Expected(r, t) \subseteq KeysUpTo(r, t, Len(run[r].emissions))
  BY <1>1 DEF Expected, Unique, KeysUpTo
<1>3. ASSUME NEW k \in KeysUpTo(r, t, Len(run[r].emissions)) PROVE k \in Expected(r, t)
  <2>1. PICK i \in DOMAIN run[r].emissions :
           run[r].emissions[i].key = k /\ run[r].emissions[i].tenant = t
    BY <1>1 DEF KeysUpTo
  <2>2. PICK j \in Unique(r) :
           run[r].emissions[j].key = k /\ run[r].emissions[j].tenant = t
    BY <2>1 DEF RunKeys
  <2> QED
    BY <2>2 DEF Expected
<1> QED
  BY <1>2, <1>3

\* Nothing makes a run refuse that has its store to itself and no failed call.
LEMMA NotRefused ==
  ASSUME TypeOK, NEW r \in Runs, RunKeys(r), CleanState(r),
         \A s \in AllStores, t \in Tenants : PrefixKeys(s, t)
  PROVE  ~Refused(r)
<1>1. /\ run[r].emissions \in Seq(Emissions) /\ run[r].puts \in Nat
      /\ run[r].left \subseteq Tenants /\ run[r].store \in AllStores
  BY DEF TypeOK, RunStates
<1>2. \A t \in Tenants : CleanTenant(r, t)
  BY DEF CleanState
<1>3. ASSUME In(r, "write"), run[r].puts < Len(run[r].emissions)
      PROVE  writer[r][run[r].emissions[run[r].puts + 1].tenant] = "open"
  <2>1. run[r].puts + 1 \in 1..Len(run[r].emissions)
    BY <1>1, <1>3
  <2>2. run[r].emissions[run[r].puts + 1] \in Emissions
    BY <1>1, <2>1
  <2> QED
    BY <1>2, <1>3, <2>2 DEF CleanTenant, In, Working, Emissions
<1>4. ASSUME In(r, "flush"), NEW t \in run[r].left
      PROVE  writer[r][t] = "open" /\ Owns(r, t)
  BY <1>1, <1>2, <1>4 DEF CleanTenant, In, Working
<1>5. ASSUME In(r, "compact"), NEW t \in run[r].left PROVE Keeps(r, t)
  BY <1>1, <1>2, <1>5 DEF CleanTenant, In, Working
<1>6. ASSUME In(r, "verify"), NEW t \in run[r].left PROVE Matches(r, t)
  <2>1. /\ mem[r][t] = {} /\ run[r].puts = Len(run[r].emissions)
        /\ mem[r][t] \cup durable[run[r].store][t] = KeysUpTo(r, t, run[r].puts)
    BY <1>1, <1>2, <1>6 DEF CleanTenant, CleanState, In, Working
  <2>2. durable[run[r].store][t] = Expected(r, t)
    BY <1>1, <2>1, AllKeysUpTo
  <2>3. feed[run[r].store][t] >= Cardinality(durable[run[r].store][t])
    BY <1>1 DEF PrefixKeys
  <2> QED
    BY <2>2, <2>3 DEF Matches, verifyKeySet, ScanKeys, ChangeFeedCount
<1> QED
  BY <1>3, <1>4, <1>5, <1>6 DEF Refused

\* A run that starts with a store to itself finds nothing in it.
LEMMA StartClean ==
  ASSUME TypeOK, NEW r \in Runs, RunKeys(r), Start(r), Clean(r)',
         \A s \in AllStores, t \in Tenants : PrefixKeys(s, t)
  PROVE  CleanState(r)'
<1>0. run \in [Runs -> RunStates]
  BY DEF TypeOK
<1>1. /\ run' \in [Runs -> RunStates]
      /\ \A q \in Runs \ {r} : run'[q] = run[q]
      /\ run[r].phase = "new" /\ run'[r].phase = "generate"
      /\ run'[r].emissions = run[r].emissions
      /\ run'[r].puts = run[r].puts /\ run'[r].tenants = run[r].tenants
      /\ UNCHANGED <<prefixVars, storeVars, faulted>>
  BY <1>0, StartFacts DEF In
<1>2. /\ run'[r].puts = 0 /\ run'[r].tenants = {} /\ run'[r].store \in AllStores
      /\ \A t \in Tenants : writer[r][t] = "open" /\ mem[r][t] = {}
  BY <1>1 DEF RunKeys, In, RunStates
<1>3. ASSUME NEW t \in Tenants PROVE durable[run'[r].store][t] = {}
  <2>1. SUFFICES ASSUME NEW k \in durable[run'[r].store][t] PROVE FALSE
    OBVIOUS
  <2>2. k[1] \in Runs
    BY <1>2, <2>1 DEF TypeOK, Keys
  <2>3. run[k[1]].store = run'[r].store /\ run[k[1]].phase # "new"
    BY <1>2, <2>1 DEF PrefixKeys, In
  <2>4. k[1] # r
    BY <1>1, <2>3
  <2> QED
    BY <1>1, <2>2, <2>3, <2>4 DEF Clean
<1>4. \A t \in Tenants : KeysUpTo(r, t, run[r].puts)' = {}
  BY <1>2 DEF KeysUpTo
<1>5. ASSUME NEW t \in Tenants PROVE CleanTenant(r, t)'
  BY <1>1, <1>2, <1>3, <1>4 DEF CleanTenant, In, Working, prefixVars, storeVars
<1> QED
  BY <1>1, <1>2, <1>5 DEF CleanState, In

\* What a run has put in one tenant does not change with its control.
LEMMA SameKeysUpTo ==
  ASSUME NEW r \in Runs, NEW t \in Tenants, run'[r].emissions = run[r].emissions,
         run'[r].puts = run[r].puts
  PROVE  KeysUpTo(r, t, run[r].puts)' = KeysUpTo(r, t, run[r].puts)
BY DEF KeysUpTo

\* The steps that change control only, of a run with its store to itself.
LEMMA QuietClean ==
  ASSUME TypeOK, HandleState, NEW r \in Runs, RunKeys(r), CleanState(r),
         \A s \in AllStores, t \in Tenants : PrefixKeys(s, t),
         Quiet(r), Clean(r)'
  PROVE  CleanState(r)'
<1>1. run \in [Runs -> RunStates]
  BY DEF TypeOK
<1>2. /\ RunSteps(r)
      /\ run'[r].puts = run[r].puts /\ run'[r].tenants = run[r].tenants
      /\ UNCHANGED <<handles, writer, mem, owner, keeper, durable>>
  BY <1>1, QuietFacts DEF prefixVars, storeVars
<1>3. r \notin faulted'
  BY DEF Clean
<1>4. ASSUME NEW u \in Tenants
      PROVE  /\ CleanTenant(r, u) /\ TenantHandles(r, u)
             /\ KeysUpTo(r, u, run[r].puts)' = KeysUpTo(r, u, run[r].puts)
             /\ Owns(r, u)' <=> Owns(r, u)
             /\ Keeps(r, u)' <=> Keeps(r, u)
             /\ durable'[run'[r].store][u] = durable[run[r].store][u]
             /\ mem'[r][u] = mem[r][u] /\ writer'[r][u] = writer[r][u]
             /\ handles'[r][u] = handles[r][u]
  BY <1>2, SameKeysUpTo DEF CleanState, HandleState, RunSteps, Owns, Keeps
<1>5. run'[r].emissions = run[r].emissions
  BY <1>2 DEF RunSteps
<1> USE DEF In, Working
<1>6. CASE Generated(r)
  <2>1. run[r].phase = "generate" /\ run'[r].phase = "open" /\ run'[r].left = {}
    BY <1>1, <1>6, EnterFacts DEF Generated, Phases
  <2>2. ASSUME NEW u \in Tenants PROVE CleanTenant(r, u)'
    BY <1>2, <1>4, <2>1 DEF CleanTenant, CleanState, TenantHandles
  <2> QED
    BY <1>2, <2>1, <2>2 DEF CleanState
<1>7. CASE GenerateFails(r)
  BY <1>3, <1>7 DEF GenerateFails
<1>8. CASE OpenedAll(r)
  <2>1. /\ run[r].phase = "open" /\ run'[r].phase = "write"
        /\ run[r].tenants = Tenants
    BY <1>1, <1>8, EnterFacts DEF OpenedAll, Phases
  <2>2. ASSUME NEW u \in Tenants PROVE CleanTenant(r, u)'
    BY <1>2, <1>4, <2>1 DEF CleanTenant
  <2> QED
    BY <1>2, <2>1, <2>2 DEF CleanState
<1>9. CASE Written(r)
  <2>1. /\ run[r].phase = "write" /\ run'[r].phase = "flush"
        /\ run'[r].left = Tenants /\ run[r].puts = Len(run[r].emissions)
    BY <1>1, <1>9, EnterFacts DEF Written, Phases
  <2>2. ASSUME NEW u \in Tenants PROVE CleanTenant(r, u)'
    BY <1>2, <1>4, <2>1 DEF CleanTenant
  <2> QED
    BY <1>2, <1>5, <2>1, <2>2 DEF CleanState
<1>10. ASSUME NEW t \in Tenants, Compact(r, t) \/ VerifyTenant(r, t) PROVE CleanState(r)'
  <2>1. run[r].phase \in {"compact", "verify"} /\ run'[r].phase = run[r].phase
    BY <1>1, <1>10, VisitedFacts DEF Compact, VerifyTenant
  <2>2. ASSUME NEW u \in Tenants PROVE CleanTenant(r, u)'
    BY <1>2, <1>4, <2>1 DEF CleanTenant
  <2> QED
    BY <1>2, <1>5, <2>1, <2>2 DEF CleanState
<1>11. CASE NextPhase(r)
  <2>1. /\ run[r].left = {}
        /\ \/ run[r].phase = "flush" /\ run'[r].phase = "compact"
           \/ run[r].phase = "compact" /\ run'[r].phase = "verify"
    BY <1>1, <1>11, EnterFacts DEF NextPhase, Phases
  <2>2. ASSUME NEW u \in Tenants PROVE CleanTenant(r, u)'
    BY <1>2, <1>4, <2>1 DEF CleanTenant
  <2> QED
    BY <1>2, <1>5, <2>1, <2>2 DEF CleanState
<1>12. CASE Verified(r)
  <2>1. run'[r].phase = "close" /\ run'[r].ok
    BY <1>1, <1>12, VerifiedFacts, UniqueFacts
  <2>2. ASSUME NEW u \in Tenants PROVE CleanTenant(r, u)'
    BY <2>1 DEF CleanTenant
  <2> QED
    BY <2>1, <2>2 DEF CleanState
<1>13. CASE Fails(r)
  BY <1>3, <1>13, NotRefused DEF Fails
<1>14. CASE Closed(r)
  <2>1. /\ run[r].phase = "close" /\ run'[r].phase = "returned"
        /\ run'[r].ok = run[r].ok
    BY <1>1, <1>14, EnterFacts DEF Closed, Phases, CleanState
  <2>2. ASSUME NEW u \in Tenants PROVE CleanTenant(r, u)'
    BY <2>1 DEF CleanTenant
  <2> QED
    BY <2>1, <2>2 DEF CleanState
<1>15. CASE Report(r)
  <2>1. /\ run[r].phase = "returned" /\ run'[r].phase = "returned"
        /\ run'[r].ok = run[r].ok
    BY <1>1, <1>15, ReportFacts DEF Report
  <2>2. ASSUME NEW u \in Tenants PROVE CleanTenant(r, u)'
    BY <2>1 DEF CleanTenant
  <2> QED
    BY <2>1, <2>2 DEF CleanState
<1> QED
  BY <1>6, <1>7, <1>8, <1>9, <1>10, <1>11, <1>12, <1>13, <1>14, <1>15 DEF Quiet

\* A put adds the emission's key to what has been put of its tenant.
LEMMA PutClean ==
  ASSUME TypeOK, NEW r \in Runs, CleanState(r), Put(r)
  PROVE  CleanState(r)'
<1> DEFINE e == run[r].emissions[run[r].puts + 1]
<1>1. PutEffect(r, e)
  BY PutStepFacts
<1>2. /\ run'[r].emissions = run[r].emissions /\ run'[r].store = run[r].store
      /\ run[r].phase = "write" /\ run'[r].phase = "write"
      /\ run[r].puts \in Nat /\ run'[r].puts = run[r].puts + 1
      /\ UNCHANGED <<handles, writer, owner, keeper, durable>>
  BY <1>1 DEF PutEffect, RunSteps, storeVars
<1>3. ASSUME NEW u \in Tenants PROVE CleanTenant(r, u)'
  <2>1. CleanTenant(r, u)
    BY DEF CleanState
  <2>2. 1..(run[r].puts + 1) = (1..run[r].puts) \cup {run[r].puts + 1}
    BY <1>2
  <2>3. KeysUpTo(r, u, run[r].puts)'
          = KeysUpTo(r, u, run[r].puts) \cup (IF u = e.tenant THEN {e.key} ELSE {})
    BY <1>2, <2>2 DEF KeysUpTo
  <2>4. mem'[r][u] = mem[r][u] \cup (IF u = e.tenant THEN {e.key} ELSE {})
    <3> HIDE DEF e
    <3> QED
      BY <1>1 DEF PutEffect
  <2>5. mem[r][u] \cup durable[run[r].store][u] = KeysUpTo(r, u, run[r].puts)
    BY <1>2, <2>1 DEF CleanTenant, Working
  <2> HIDE DEF e
  <2>6. mem'[r][u] \cup durable'[run'[r].store][u] = KeysUpTo(r, u, run[r].puts)'
    BY <1>2, <2>3, <2>4, <2>5
  <2>7. Owns(r, u)' /\ Keeps(r, u)' /\ writer'[r][u] = "open"
    BY <1>2, <2>1 DEF CleanTenant, Working, In, Owns, Keeps
  <2> QED
    BY <1>2, <2>6, <2>7 DEF CleanTenant, In
<1> QED
  BY <1>2, <1>3 DEF CleanState, In

\* Nothing has been put while events are generated.
LEMMA EmitClean ==
  ASSUME TypeOK, NEW r \in Runs, CleanState(r), NEW t \in Tenants, Emit(r, t)
  PROVE  CleanState(r)'
<1>1. run \in [Runs -> RunStates]
  BY DEF TypeOK
<1>2. /\ run[r].phase = "generate" /\ run'[r].phase = "generate"
      /\ run'[r].store = run[r].store
      /\ run'[r].puts = run[r].puts /\ run'[r].tenants = run[r].tenants
  BY <1>1, EmitFacts DEF In
<1>3. run[r].puts = 0 /\ run[r].tenants = {}
  BY <1>2 DEF CleanState, In
<1>4. UNCHANGED <<writer, mem, durable>>
  BY DEF Emit, prefixVars, storeVars
<1>5. ASSUME NEW u \in Tenants PROVE CleanTenant(r, u)'
  <2>1. CleanTenant(r, u)
    BY DEF CleanState
  <2>2. KeysUpTo(r, u, run[r].puts)' = {} /\ KeysUpTo(r, u, run[r].puts) = {}
    BY <1>2, <1>3 DEF KeysUpTo
  <2> QED
    BY <1>2, <1>4, <2>1, <2>2 DEF CleanTenant, In, Working
<1> QED
  BY <1>2, <1>3, <1>5 DEF CleanState, In

\* What a run opens it owns.
LEMMA OpenClean ==
  ASSUME TypeOK, NEW r \in Runs, CleanState(r), NEW t \in Tenants, OpenHandle(r, t)
  PROVE  CleanState(r)'
<1>1. PICK h : h = NextHandle(handles[r][t])
  OBVIOUS
<1>2. OpenEffect(r, t, h)
  BY <1>1, OpenHandleFacts
<1>3. /\ run[r].phase = "open" /\ run'[r].phase = "open"
      /\ run'[r].store = run[r].store /\ run'[r].emissions = run[r].emissions
      /\ run'[r].puts = run[r].puts /\ run[r].puts = 0
      /\ run'[r].tenants = IF h = "maintenance" THEN run[r].tenants \cup {t}
                                                ELSE run[r].tenants
      /\ UNCHANGED <<writer, mem, durable>>
  BY <1>2 DEF OpenEffect, RunSteps, CleanState, In
<1>4. run[r].store \in AllStores
  BY DEF TypeOK, RunStates
<1>5. ASSUME NEW u \in Tenants PROVE CleanTenant(r, u)'
  <2>1. CleanTenant(r, u)
    BY DEF CleanState
  <2>2. KeysUpTo(r, u, run[r].puts)' = KeysUpTo(r, u, run[r].puts)
    BY <1>3, SameKeysUpTo
  <2>3. /\ handles'[r][u] = IF u = t THEN handles[r][u] \cup Opened(r, h) ELSE handles[r][u]
        /\ owner'[run[r].store][u] = IF h = "writer" /\ u = t
                                     THEN {r} ELSE owner[run[r].store][u]
        /\ keeper'[run[r].store][u] = IF h = "maintenance" /\ u = t
                                      THEN {r} ELSE keeper[run[r].store][u]
    BY <1>2, <1>4 DEF OpenEffect
  <2>4. ASSUME "writer" \in handles'[r][u] \/ u \in run'[r].tenants PROVE Owns(r, u)'
    <3>1. \/ "writer" \in handles[r][u] \/ u \in run[r].tenants
          \/ u = t /\ h = "writer"
      BY <1>1, <1>3, <2>3, <2>4 DEF NextHandle, Opened
    <3>2. CASE "writer" \in handles[r][u] \/ u \in run[r].tenants
      BY <1>3, <2>1, <2>3, <3>2 DEF CleanTenant, Owns
    <3>3. CASE u = t /\ h = "writer"
      BY <1>3, <2>3, <3>3 DEF Owns
    <3> QED
      BY <3>1, <3>2, <3>3
  <2>5. ASSUME u \in run'[r].tenants PROVE Keeps(r, u)'
    BY <1>3, <2>1, <2>3, <2>5 DEF CleanTenant, Keeps
  <2> QED
    BY <1>3, <2>1, <2>2, <2>4, <2>5 DEF CleanTenant, In, Working
<1> QED
  BY <1>3, <1>5 DEF CleanState, In

\* A commit moves what has been put from the buffer to the store.
LEMMA CommitClean ==
  ASSUME TypeOK, NEW r \in Runs, RunKeys(r), CleanState(r), NEW t \in Tenants, Commit(r, t),
         RunSteps(r), run'[r].phase = run[r].phase, run'[r].puts = run[r].puts,
         run'[r].tenants = run[r].tenants, run'[r].ok = run[r].ok,
         run'[r].left \in {run[r].left, run[r].left \ {t}},
         UNCHANGED <<handles, writer, owner, keeper>>
  PROVE  CleanState(r)'
<1>1. CommitEffect(r, t)
  BY CommitFacts
<1>2. run[r].store \in AllStores
  BY DEF TypeOK, RunStates
<1>3. run'[r].store = run[r].store /\ run'[r].emissions = run[r].emissions
  BY DEF RunSteps
<1>4. ASSUME NEW u \in Tenants PROVE CleanTenant(r, u)'
  <2>1. CleanTenant(r, u)
    BY DEF CleanState
  <2>2. KeysUpTo(r, u, run[r].puts)' = KeysUpTo(r, u, run[r].puts)
    BY <1>3, SameKeysUpTo
  <2>3. /\ durable'[run[r].store][u] = IF u = t THEN durable[run[r].store][u] \cup mem[r][t]
                                                ELSE durable[run[r].store][u]
        /\ mem'[r][u] = IF u = t THEN {} ELSE mem[r][u]
    BY <1>1, <1>2 DEF CommitEffect
  <2>4. mem'[r][u] \cup durable'[run'[r].store][u] = mem[r][u] \cup durable[run[r].store][u]
    BY <1>3, <2>3
  <2>5. (Owns(r, u)' <=> Owns(r, u)) /\ (Keeps(r, u)' <=> Keeps(r, u))
    BY <1>3 DEF Owns, Keeps
  <2> QED
    BY <2>1, <2>2, <2>3, <2>4, <2>5 DEF CleanTenant, In
<1> QED
  BY <1>3, <1>4 DEF CleanState, In

\* Every step preserves CleanState of its own run.
LEMMA StepClean ==
  ASSUME TypeOK, HandleState, KeyState, NEW r \in Runs, Clean(r)', ~In(r, "new")',
         Clean(r) /\ ~In(r, "new") => CleanState(r), Footprint(r), Started,
         Start(r) \/ Step(r) \/ \E t \in Tenants : BackgroundFlush(r, t)
  PROVE  CleanState(r)'
<1>1. /\ run \in [Runs -> RunStates] /\ RunKeys(r)
      /\ \A s \in AllStores, t \in Tenants : PrefixKeys(s, t)
  BY DEF TypeOK, KeyState
<1>2. CASE Start(r)
  BY <1>1, <1>2, StartClean
<1>3. ASSUME run[r].phase # "new" PROVE CleanState(r)
  <2>1. run'[r].store = run[r].store
    BY <1>3 DEF Started
  <2> QED
    BY <1>3, <2>1 DEF Clean, Footprint, In
<1>4. CASE Quiet(r)
  BY <1>1, <1>3, <1>4, QuietFacts, QuietClean
<1>5. CASE Put(r)
  BY <1>3, <1>5, PutClean DEF Put, In
<1>6. ASSUME NEW t \in Tenants, Emit(r, t) PROVE CleanState(r)'
  BY <1>3, <1>6, EmitClean DEF Emit, In
<1>7. ASSUME NEW t \in Tenants, OpenHandle(r, t) PROVE CleanState(r)'
  BY <1>3, <1>7, OpenClean DEF OpenHandle, Opening, In
<1>8. ASSUME NEW t \in Tenants, OpenFails(r, t) PROVE CleanState(r)'
  BY <1>8 DEF OpenFails, Clean
<1>9. ASSUME NEW t \in Tenants, Flush(r, t) PROVE CleanState(r)'
  <2>1. /\ RunSteps(r) /\ run[r].phase = "flush" /\ run'[r].phase = "flush"
        /\ run'[r].left = run[r].left \ {t}
        /\ run'[r].puts = run[r].puts /\ run'[r].tenants = run[r].tenants
        /\ run'[r].ok = run[r].ok /\ Commit(r, t)
        /\ UNCHANGED <<handles, writer, owner, keeper>>
    BY <1>9, FlushFacts
  <2> QED
    BY <1>1, <1>3, <2>1, CommitClean
<1>10. ASSUME run'[r].phase = "close", run'[r].ok PROVE CleanState(r)'
  BY <1>10 DEF CleanState, CleanTenant, In, Working
<1>11. ASSUME NEW t \in Tenants, CloseTenant(r, t) PROVE CleanState(r)'
  <2>1. /\ run[r].phase \in {"abort", "close"} /\ run'[r].phase = run[r].phase
        /\ run'[r].ok = run[r].ok
    BY <1>11, CloseFacts
  <2> QED
    BY <1>3, <1>10, <2>1 DEF CleanState, In
<1>12. ASSUME NEW t \in Tenants, BackgroundFlush(r, t) PROVE CleanState(r)'
  <2>1. /\ run' = run /\ mem[r][t] # {} /\ "writer" \in handles[r][t]
        /\ UNCHANGED <<handles, owner, keeper>>
    BY <1>12 DEF BackgroundFlush
  <2>2. CleanState(r) /\ RunSteps(r)
    BY <1>1, <1>3, <2>1 DEF RunKeys, In, RunSteps
  <2>3. CASE Commit(r, t) /\ UNCHANGED writer
    BY <1>1, <2>1, <2>2, <2>3, CommitClean
  <2>4. CASE Owns(r, t) => faulted' = faulted \cup {r}
    <3>1. ~Owns(r, t)
      BY <2>4 DEF Clean
    <3>2. CleanTenant(r, t) /\ TenantHandles(r, t) /\ run[r].phase \in Phases
      BY <1>1, <2>2 DEF CleanState, HandleState, RunStates
    <3>3. run[r].phase = "close"
      BY <2>1, <2>2, <3>1, <3>2 DEF CleanTenant, CleanState, TenantHandles, In, Working, Phases
    <3> QED
      BY <1>10, <2>1, <2>2, <3>3 DEF CleanState, In
  <2> QED
    BY <1>12, <2>3, <2>4, BackgroundFacts
<1> QED
  BY <1>2, <1>4, <1>5, <1>6, <1>7, <1>8, <1>9, <1>11, <1>12, StepCases

-----------------------------------------------------------------------------
(* The theorems *)

\* The inductive invariant holds before any run has started.
LEMMA InitInv == Init => IInv
<1> SUFFICES ASSUME Init PROVE IInv
  OBVIOUS
<1> DEFINE new(r) == [phase |-> "new", store |-> r, dashboard |-> FALSE, ok |-> FALSE,
                      emissions |-> <<>>, puts |-> 0, tenants |-> {}, left |-> {}]
<1>1. run = [r \in Runs |-> new(r)]
  BY DEF Init
<1>2. ASSUME NEW r \in Runs
      PROVE  /\ new(r) \in RunStates
             /\ new(r).phase = "new" /\ new(r).store = r /\ ~new(r).ok
             /\ new(r).emissions = <<>> /\ new(r).puts = 0
             /\ new(r).tenants = {} /\ new(r).left = {}
  <2>1. <<>> \in Seq(Emissions)
    OBVIOUS
  <2> QED
    BY <2>1 DEF RunStates, Phases, Working, AllStores
<1> HIDE DEF new
<1>3. /\ run \in [Runs -> RunStates]
      /\ \A r \in Runs :
            /\ run[r].phase = "new" /\ run[r].store = r /\ ~run[r].ok
            /\ run[r].emissions = <<>> /\ run[r].puts = 0
            /\ run[r].tenants = {} /\ run[r].left = {}
  BY <1>1, <1>2
<1>4. \A r \in Runs, t \in Tenants :
         handles[r][t] = {} /\ writer[r][t] = "open" /\ mem[r][t] = {}
  BY DEF Init
<1>5. \A s \in AllStores, t \in Tenants : durable[s][t] = {} /\ feed[s][t] = 0
  BY DEF Init
<1>6. TypeOK
  <2>1. \A r \in Runs : run[r].store \in Stores \cup {r} /\ run[r].puts <= Len(run[r].emissions)
    BY <1>3
  <2>2. /\ handles \in [Runs -> [Tenants -> SUBSET Handles]]
        /\ writer \in [Runs -> [Tenants -> {"open", "fenced", "failed"}]]
        /\ mem \in [Runs -> [Tenants -> SUBSET Keys]]
        /\ owner \in [AllStores -> [Tenants -> SUBSET Runs]]
        /\ keeper \in [AllStores -> [Tenants -> SUBSET Runs]]
        /\ durable \in [AllStores -> [Tenants -> SUBSET Keys]]
        /\ feed \in [AllStores -> [Tenants -> Nat]]
        /\ running \in BOOLEAN /\ faulted \in SUBSET Runs
    BY DEF Init
  <2> QED
    BY <1>3, <2>1, <2>2 DEF TypeOK
<1>7. HandleState
  BY <1>3, <1>4 DEF HandleState, TenantHandles, In
<1>8. CheckedState
  BY <1>3 DEF CheckedState, Checked, In
<1>9. KeyState
  <2>1. IsFiniteSet({}) /\ Cardinality({}) = 0
    BY FS_EmptySet
  <2>2. ASSUME NEW r \in Runs PROVE RunKeys(r)
    <3>1. ASSUME NEW t \in Tenants PROVE mem[r][t] = {} /\ IsFiniteSet(mem[r][t])
      <4>1. mem[r][t] = {}
        BY <1>4
      <4> QED
        BY <2>1, <4>1
    <3>2. DOMAIN run[r].emissions = {}
      BY <1>3
    <3> QED
      BY <1>3, <1>4, <3>1, <3>2 DEF RunKeys, In
  <2>3. ASSUME NEW s \in AllStores, NEW t \in Tenants PROVE PrefixKeys(s, t)
    <3>1. durable[s][t] = {} /\ feed[s][t] = 0
      BY <1>5
    <3>2. IsFiniteSet(durable[s][t]) /\ Cardinality(durable[s][t]) = 0
      BY <2>1, <3>1
    <3> QED
      BY <3>1, <3>2 DEF PrefixKeys
  <2> QED
    BY <2>2, <2>3 DEF KeyState
<1> QED
  BY <1>3, <1>6, <1>7, <1>8, <1>9 DEF IInv, In

\* Every step preserves the inductive invariant.
LEMMA NextInv == IInv /\ [Next]_vars => IInv'
<1> SUFFICES ASSUME IInv, [Next]_vars PROVE IInv'
  OBVIOUS
<1>1. CASE UNCHANGED vars
  <2>1. TypeOK'
    BY <1>1 DEF vars, IInv, TypeOK
  <2>2. HandleState'
    BY <1>1 DEF vars, IInv, HandleState, TenantHandles, Opening, In
  <2>3. CheckedState'
    <3>1. \A r \in Runs, t \in Tenants :
             /\ Expected(r, t)' = Expected(r, t)
             /\ Checked(r, t)' <=> Checked(r, t)
      BY <1>1 DEF vars, Expected, Unique, Checked, In
    <3>2. CheckedState /\ run' = run /\ durable' = durable
      BY <1>1 DEF vars, IInv
    <3> QED
      BY <3>1, <3>2 DEF CheckedState
  <2>4. KeyState'
    <3>1. \A r \in Runs : RunKeys(r)'
      BY <1>1 DEF vars, IInv, KeyState, RunKeys, Unique, In
    <3>2. \A s \in AllStores, t \in Tenants : PrefixKeys(s, t)'
      BY <1>1 DEF vars, IInv, KeyState, PrefixKeys, In
    <3> QED
      BY <3>1, <3>2 DEF KeyState
  <2>5. ASSUME NEW r \in Runs, Clean(r)', ~In(r, "new")' PROVE CleanState(r)'
    <3>1. CleanState(r)
      BY <1>1, <2>5 DEF vars, IInv, Clean, In
    <3>2. \A t \in Tenants : CleanTenant(r, t)'
      BY <1>1, <3>1 DEF vars, CleanState, CleanTenant, Owns, Keeps, KeysUpTo, In
    <3> QED
      BY <1>1, <3>1, <3>2 DEF vars, CleanState, In
  <2> QED
    BY <2>1, <2>2, <2>3, <2>4, <2>5 DEF IInv
<1>2. ASSUME NEW r \in Runs,
             Start(r) \/ Step(r) \/ \E t \in Tenants : BackgroundFlush(r, t)
      PROVE  IInv'
  <2>1. TypeOK /\ HandleState /\ CheckedState /\ KeyState /\ RunKeys(r)
    BY DEF IInv, KeyState
  <2>2. TypeOK' /\ Footprint(r) /\ HandleState' /\ CheckedState'
    BY <1>2, <2>1, StepType, StepFootprint, StepHandles, StepChecked
  <2>3. KeyState' /\ Started
    BY <1>2, <2>1, StepKeys
  <2>4. ASSUME NEW q \in Runs, Clean(q)', ~In(q, "new")' PROVE CleanState(q)'
    <3>1. Clean(q) /\ ~In(q, "new") => CleanState(q)
      BY DEF IInv
    <3>2. CASE q = r
      BY <1>2, <2>1, <2>2, <2>3, <2>4, <3>1, <3>2, StepClean
    <3>3. CASE q # r
      BY <2>1, <2>2, <2>3, <2>4, <3>1, <3>3, OthersClean
    <3> QED
      BY <3>2, <3>3
  <2> QED
    BY <2>2, <2>3, <2>4 DEF IInv
<1> QED
  BY <1>1, <1>2 DEF Next

\* The inductive invariant: what is open, what Verify has found, whose keys are
\* where, and what a run with its store to itself relies on.
THEOREM Invariance == Spec => []IInv
<1> QED
  BY InitInv, NextInv, PTL DEF Spec

\* Every variable keeps its type, however many runs share a store.
THEOREM TypeCorrect == Spec => []TypeOK
<1>1. IInv => TypeOK
  BY DEF IInv
<1> QED
  BY <1>1, Invariance, PTL

\* Whatever fails in OpenPrefixDB, simulation.Run or Close, a run that has
\* returned has nothing open.
THEOREM NoLeak == Spec => []NothingLeaked
<1>1. IInv => NothingLeaked
  BY DEF IInv, HandleState, TenantHandles, NothingLeaked, In
<1> QED
  BY <1>1, Invariance, PTL

\* What simulation.Run reports as passed is committed, and at most one of the
\* runs that share a prefix and have events for it can report so.
THEOREM ExactOK == Spec => []OKIsExact
<1>1. IInv => OKIsExact
  BY DEF IInv, CheckedState, Checked, OKIsExact
<1> QED
  BY <1>1, Invariance, PTL

\* A run with its prefixes to itself, no call of which failed, passes.
THEOREM CleanPasses == Spec => []CleanRunPasses
<1>1. IInv => CleanRunPasses
  BY DEF IInv, Clean, CleanState, CleanRunPasses, In
<1> QED
  BY <1>1, Invariance, PTL

=============================================================================
