-------------------------- MODULE PollCoordinator --------------------------
(***************************************************************************)
(* The demo's upstream scheduler: pollLoop of cmd/demo/main.go with        *)
(* PollCoordinator of internal/demo/poll.go.  A ticker and a one-element   *)
(* channel of region switches wake the loop; it fetches one region at a    *)
(* time, chosen among the regions with live viewers by staleness,          *)
(* priority and age.                                                       *)
(*                                                                         *)
(* Time passes in units; between two events the loop is instantaneous, a   *)
(* fetch takes MinFetch units or any larger number.  Instead of time       *)
(* stamps the module keeps the age of each mark, counted up to MaxAge,     *)
(* beyond every threshold, and the order of the marks, which is exact.     *)
(***************************************************************************)
EXTENDS Naturals

CONSTANTS
  Regions,      \* region ids, numbers in the order of the ids
  KlangValley,  \* gtfs.DefaultRegionID
  Penang,
  Tick,         \* PollTickInterval
  Floor,        \* gtfs.UpstreamRefreshInterval
  Choices,      \* AllowedPollSeconds
  Fallback,     \* PollCoordinator.interval
  MinFetch,     \* shortest duration of a fetch; there is no longest one
  MaxAge        \* ages are counted up to here

ASSUME RegionsAssumption == Regions \subseteq Nat
ASSUME TimesAssumption ==
    /\ Tick \in Nat \ {0} /\ Floor \in Nat \ {0}
    /\ Choices \subseteq Nat \ {0} /\ Choices # {}
    /\ Fallback \in Nat \ {0}
    /\ MinFetch \in 0..Floor
    /\ MaxAge \in Nat
    /\ \A t \in Choices \cup {Fallback, Floor} : MaxAge >= 2 * t

VARIABLES
  asked,        \* asked[r]: MinPollIntervalForRegion, 0 when nobody watches r
  polled,       \* the keys of PollCoordinator.lastPoll
  age,          \* age[r]: time since lastPoll[r]
  later,        \* later[r]: the regions whose lastPoll is after lastPoll[r]
  pollNow,      \* the pollNow channel: at most one region
  ticked,       \* the ticker's channel holds a tick
  untilTick,    \* time to the next tick
  target,       \* the region being fetched: at most one
  waited        \* time since the fetch began, up to MinFetch

timeVars == <<age, untilTick, waited>>
vars == <<asked, polled, age, later, pollNow, ticked, untilTick, target, waited>>

AtMostOne(S) == \A q, r \in S : q = r

TypeOK ==
    /\ asked \in [Regions -> Choices \cup {0}]
    /\ polled \in SUBSET Regions
    /\ age \in [Regions -> 0..MaxAge]
    /\ later \in [Regions -> SUBSET Regions]
    /\ pollNow \in SUBSET Regions /\ AtMostOne(pollNow)
    /\ ticked \in BOOLEAN
    /\ untilTick \in 1..Tick
    /\ target \in SUBSET Regions /\ AtMostOne(target)
    /\ waited \in 0..MinFetch

-----------------------------------------------------------------------------
(* PollCoordinator *)

\* LiveRegionIDs: the regions connected map viewers have selected.
Live == {r \in Regions : asked[r] > 0}

\* intervalLocked: what the sessions ask for, but never below the upstream's
\* own refresh interval.
Interval(r) ==
    LET wanted == IF asked[r] > 0 THEN asked[r] ELSE Fallback
    IN  IF wanted < Floor THEN Floor ELSE wanted

isStale(r) == r \in polled => age[r] >= Interval(r)

regionPollPriority(r) ==
    CASE r = KlangValley -> 0
      [] r = Penang -> 1
      [] OTHER -> 2

\* Mutation of effectivePollPriority: no region is promoted.
NeverPromoted(r) == regionPollPriority(r)

\* effectivePollPriorityLocked: only regions of the last class are promoted,
\* and only if they have been polled before.
effectivePollPriority(r) ==
    IF /\ regionPollPriority(r) = 2
       /\ r \in polled
       /\ age[r] >= 2 * Interval(r)
    THEN 0
    ELSE regionPollPriority(r)

\* preferDueRegion: by priority, then never polled before polled, then the
\* older lastPoll (two are never equal: the loop marks one region at a time),
\* then the smaller id.
preferDueRegion(r, best) ==
    LET pr == effectivePollPriority(r)
        pb == effectivePollPriority(best)
    IN  \/ pr < pb
        \/ /\ pr = pb
           /\ \/ r \notin polled /\ best \in polled
              \/ /\ r \notin polled /\ best \notin polled
                 /\ r < best
              \/ r \in polled /\ best \in polled /\ best \in later[r]

Due == {r \in Live : isStale(r)}

\* nextDueRegion: the due region that is preferred to every other one.
nextDueRegion == {r \in Due : \A q \in Due \ {r} : preferDueRegion(r, q)}

-----------------------------------------------------------------------------
(* pollLoop *)

Idle == target = {}

\* runPoll begins to fetch region r.
BeginFetch(r) ==
    /\ target' = {r}
    /\ waited' = 0

\* scheduled(): on a tick, FeedsForScheduledPoll picks at most one region.
Scheduled ==
    /\ Idle
    /\ ticked
    /\ ticked' = FALSE
    /\ \/ /\ Due # {}
          /\ \E r \in nextDueRegion : BeginFetch(r)
       \/ /\ Due = {}
          /\ UNCHANGED <<target, waited>>
    /\ UNCHANGED <<asked, polled, age, later, untilTick, pollNow>>

\* Mutation of ForRegion: a region switch always fetches.
SwitchFetches ==
    /\ Idle
    /\ \E r \in pollNow : BeginFetch(r)
    /\ pollNow' = {}
    /\ UNCHANGED <<asked, polled, age, later, untilTick, ticked>>

\* forRegion(): FeedsForRegionSwitch skips a region that was polled recently;
\* it does not ask whether anyone is still watching it.
ForRegion ==
    /\ Idle
    /\ \E r \in pollNow :
          \/ isStale(r) /\ BeginFetch(r)
          \/ ~isStale(r) /\ UNCHANGED <<target, waited>>
    /\ pollNow' = {}
    /\ UNCHANGED <<asked, polled, age, later, untilTick, ticked>>

\* The requests of the fetch have been answered or have timed out.
Answered == ~Idle /\ waited = MinFetch

\* The fetch is over and its positions are written (or there were none):
\* MarkPolled.
PollDone ==
    /\ Answered
    /\ polled' = polled \cup target
    /\ age' = [r \in Regions |-> IF r \in target THEN 0 ELSE age[r]]
    /\ later' = [r \in Regions |->
                   IF r \in polled \ target THEN later[r] \cup target ELSE {}]
    /\ target' = {}
    /\ UNCHANGED <<asked, untilTick, waited, pollNow, ticked>>

\* Write or FlushAll fails: runPoll returns before MarkPolled.
PollFails ==
    /\ Answered
    /\ target' = {}
    /\ UNCHANGED <<asked, timeVars, polled, later, pollNow, ticked>>

\* One unit of time.  The loop does not sleep on a tick or a switch that is
\* there to be taken; a tick that finds the last one still waiting is lost.
UpTo(cap, t) == IF t < cap THEN t + 1 ELSE cap
Older(f, cap) == [r \in Regions |-> UpTo(cap, f[r])]

Advance ==
    /\ Idle => ~ticked /\ pollNow = {}
    /\ age' = Older(age, MaxAge)
    /\ waited' = IF Idle THEN waited ELSE UpTo(MinFetch, waited)
    /\ untilTick' = IF untilTick = 1 THEN Tick ELSE untilTick - 1
    /\ ticked' = (ticked \/ untilTick = 1)
    /\ UNCHANGED <<asked, polled, later, pollNow, target>>

-----------------------------------------------------------------------------
(* The sessions: what the HTTP handlers do between two steps of the loop *)

\* A stream opens or closes, a session switches region, chooses an interval or
\* expires: one call of SessionStore changes the answers for at most two
\* regions, the one a session leaves and the one it goes to.
SessionsChange(q, r) ==
    /\ \E c, d \in Choices \cup {0} :
          asked' = [asked EXCEPT ![q] = c, ![r] = d]
    /\ UNCHANGED <<timeVars, polled, later, pollNow, ticked, target>>

\* Mutation of onRegionChange: the wake-up is queued whatever is waiting.
QueueSwitch(r) ==
    /\ pollNow' = pollNow \cup {r}
    /\ UNCHANGED <<asked, timeVars, polled, later, ticked, target>>

\* onRegionChange, after postRegion or postPollInterval of any session, live
\* or not: the wake-up is dropped when one is already waiting.
onRegionChange(r) ==
    /\ pollNow' = IF pollNow = {} THEN {r} ELSE pollNow
    /\ UNCHANGED <<asked, timeVars, polled, later, ticked, target>>

-----------------------------------------------------------------------------
\* Refcounts of live viewers are not persisted and lastPoll is empty: a fresh
\* process has nothing to poll.  Its first scheduled() comes before the first
\* tick.
Init ==
    /\ asked = [r \in Regions |-> 0]
    /\ polled = {}
    /\ age = [r \in Regions |-> MaxAge]
    /\ later = [r \in Regions |-> {}]
    /\ pollNow = {}
    /\ ticked = TRUE
    /\ untilTick = Tick
    /\ target = {}
    /\ waited = 0

PollLoop == Scheduled \/ ForRegion \/ PollDone \/ PollFails

Sessions ==
    \/ \E q, r \in Regions : SessionsChange(q, r)
    \/ \E r \in Regions : onRegionChange(r)

Next == PollLoop \/ Advance \/ Sessions

Spec == Init /\ [][Next]_vars

-----------------------------------------------------------------------------
(* Properties *)

\* Of two marks one is the older: preferDueRegion always finds a region, and
\* the order of the marks is the order of their ages.
MarksOrdered ==
    \A q, r \in polled :
        /\ q # r => (q \in later[r] <=> r \notin later[q])
        /\ q \in later[r] => age[q] <= age[r]

\* However long the fetches take and whatever the sessions do meanwhile, a
\* region that has been polled and is being watched is fetched again and
\* again, whether or not its own wake-ups were dropped; except Penang, which
\* nothing promotes, and unless writes fail again and again, which leaves the
\* region that failed the oldest one.
PolledAgain ==
    \/ \A r \in Regions \ {Penang} :
          []<>(r \notin Live \cap polled \/ r \in target)
    \/ []<><<PollFails>>_vars

\* A region somebody keeps watching is fetched again and again.
NoStarvation ==
    \A r \in Regions : []<>(r \notin Live \/ r \in target)

=============================================================================
