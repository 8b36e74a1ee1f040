---------------------------- MODULE MCSimulation ----------------------------
(***************************************************************************)
(* Model-checking instance of Simulation: two tenants and at most one run  *)
(* with a call that fails by itself.  To keep it small, a run whose next   *)
(* step reads and changes nothing but its own state takes it before        *)
(* others move, and a run with a store of its own has the machine to       *)
(* itself: neither hides anything another run could see.                   *)
(***************************************************************************)
EXTENDS Simulation

CONSTANTS Alpha, Beta,   \* two tenants
          CommandLine,   \* the runs that may be started by cmd/simulate
          MaxEmissions   \* bound on what these emit, retries included

BothTenants == <<Alpha, Beta>>

UnderWay == {r \in Runs : run[r].phase \notin {"new", "returned"}}

\* The runs that are generating, between two phases, opening a handle that
\* takes nothing from another run, or closing with nothing to commit.
Local ==
    {r \in UnderWay :
       \/ In(r, "generate")
       \/ In(r, "open") /\ run[r].tenants = Tenants
       \/ \E t \in Tenants : Opening(r, t) /\ NextHandle(handles[r][t]) \in {"db", "reader"}
       \/ In(r, "write") /\ run[r].puts = Len(run[r].emissions)
       \/ run[r].phase \in {"flush", "compact", "verify"} /\ run[r].left = {}
       \/ run[r].phase \in {"abort", "close"} /\ \A t \in run[r].left : mem[r][t] = {}}

\* A run of the command line emits at most MaxEmissions times, one of the
\* dashboard exactly once: it is there to disturb the others.
Modest(r) ==
    LET n == Len(run[r].emissions)
    IN  IF r \in CommandLine
        THEN n <= MaxEmissions
        ELSE n <= 1 /\ (In(r, "open") => n = 1)

MCNext ==
    /\ \E r \in IF Local = {} THEN Runs ELSE Local :
          \/ r \in CommandLine /\ \E s \in Stores \cup {r} : StartCLI(r, s)
          \/ \E s \in Stores : StartDashboard(r, s)
          \/ Step(r)
          \/ \E t \in Tenants : BackgroundFlush(r, t)
    /\ Cardinality(faulted') <= 1
    /\ \A r \in Runs : Modest(r)'
    /\ (\E r \in UnderWay' : run'[r].store = r) => Cardinality(UnderWay') = 1

MCSpec == Init /\ [][MCNext]_vars /\ \A r \in Runs : WF_vars(Step(r))

=============================================================================
