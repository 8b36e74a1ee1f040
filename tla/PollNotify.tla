----------------------------- MODULE PollNotify -----------------------------
(***************************************************************************)
(* The in-process fan-out of "a poll was ingested" from the poll loop to   *)
(* the SSE handlers of the demo server:                                    *)
(*                                                                         *)
(*   - runPoll of cmd/demo/main.go writes positions into                   *)
(*     Pipeline.vehicleSeen and, if the flush succeeds, calls NotifyPoll;  *)
(*   - Pipeline.SubscribePolls hands every stream a channel of capacity 1  *)
(*     and starts a goroutine that unsubscribes and closes the channel     *)
(*     when the request's context ends;                                    *)
(*   - handleVehicleStream subscribes, pushes a first snapshot and then    *)
(*     pushes one more for every token it receives.                        *)
(*                                                                         *)
(* A member of Streams is one HTTP request: it subscribes at most once, so *)
(* it also names its channel.  The positions are abstracted to version,    *)
(* the number of changes made to vehicleSeen.                              *)
(***************************************************************************)
EXTENDS Naturals

CONSTANTS Streams,      \* the SSE requests
          MaxVersion    \* bound on the number of changes to vehicleSeen

ASSUME MaxVersionAssumption == MaxVersion \in Nat

VARIABLES
  \* the poll loop
  version,      \* number of changes made to vehicleSeen
  published,    \* history: version when NotifyPoll last copied pollSubs
  loop,         \* control point of runPoll
  targets,      \* the channels of NotifyPoll's copy still to be sent to
  process,      \* "panicked" after a send on a closed channel
  \* the subscriptions
  subs,         \* Pipeline.pollSubs
  token,        \* the streams whose channel has its one value buffered
  closed,       \* the streams whose channel has been closed
  watcher,      \* control point of SubscribePolls' goroutine
  \* the handlers
  handler,      \* control point of handleVehicleStream
  cancelled,    \* the requests whose context is done
  shown         \* shown[s]: version of the last snapshot taken for s

loopVars == <<version, published, loop, targets, process>>
chanVars == <<subs, token, closed, watcher>>
handlerVars == <<handler, cancelled, shown>>
vars == <<version, published, loop, targets, process,
          subs, token, closed, watcher, handler, cancelled, shown>>

LoopPoints == {"select", "write", "notify"}
WatcherPoints == {"none", "waiting", "removed", "exited"}
HandlerPoints == {"new", "push", "write", "select", "returned"}

TypeOK ==
    /\ version \in 0..MaxVersion
    /\ published \in 0..MaxVersion
    /\ loop \in LoopPoints
    /\ targets \in SUBSET Streams
    /\ process \in {"up", "panicked"}
    /\ subs \in SUBSET Streams
    /\ token \in SUBSET Streams
    /\ closed \in SUBSET Streams
    /\ watcher \in [Streams -> WatcherPoints]
    /\ handler \in [Streams -> HandlerPoints]
    /\ cancelled \in SUBSET Streams
    /\ shown \in [Streams -> 0..MaxVersion]

Init ==
    /\ version = 0
    /\ published = 0
    /\ loop = "select"
    /\ targets = {}
    /\ process = "up"
    /\ subs = {}
    /\ token = {}
    /\ closed = {}
    /\ watcher = [s \in Streams |-> "none"]
    /\ handler = [s \in Streams |-> "new"]
    /\ cancelled = {}
    /\ shown = [s \in Streams |-> 0]

-----------------------------------------------------------------------------
(* The poll loop *)

\* A ticker or region-switch poll fetched some positions; Write begins.
StartPoll ==
    /\ loop = "select"
    /\ loop' = "write"
    /\ UNCHANGED <<version, published, targets, process, chanVars, handlerVars>>

\* One iteration of Write that replaces an entry of vehicleSeen.  Positions
\* that are not newer than the entry leave it alone: they are no step here.
Ingest ==
    /\ loop = "write"
    /\ version < MaxVersion
    /\ version' = version + 1
    /\ UNCHANGED <<published, loop, targets, process, chanVars, handlerVars>>

\* Write or FlushAll failed: runPoll returns without notifying, and what it
\* put into vehicleSeen so far stays there.
PollFails ==
    /\ loop = "write"
    /\ loop' = "select"
    /\ UNCHANGED <<version, published, targets, process, chanVars, handlerVars>>

\* NotifyPoll copies pollSubs while it holds notifyMu.
CopySubs ==
    /\ loop = "write"
    /\ loop' = "notify"
    /\ targets' = subs
    /\ published' = version
    /\ UNCHANGED <<version, process, chanVars, handlerVars>>

\* Mutation of Send: the channel has no buffer, so the value is dropped unless
\* the handler is waiting for it.
SendUnbuffered(s) ==
    /\ loop = "notify"
    /\ s \in targets
    /\ targets' = targets \ {s}
    /\ token' = IF handler[s] = "select" THEN token \cup {s} ELSE token
    /\ UNCHANGED <<version, published, loop, process, subs, closed, watcher, handlerVars>>

\* One non-blocking send of NotifyPoll, notifyMu released: the value is
\* buffered, or dropped when the buffer is full; a closed channel panics.
Send(s) ==
    /\ loop = "notify"
    /\ s \in targets
    /\ IF s \in closed
       THEN /\ process' = "panicked"
            /\ UNCHANGED <<targets, token>>
       ELSE /\ targets' = targets \ {s}
            /\ token' = token \cup {s}
            /\ UNCHANGED process
    /\ UNCHANGED <<version, published, loop, subs, closed, watcher, handlerVars>>

NotifyReturns ==
    /\ loop = "notify"
    /\ targets = {}
    /\ loop' = "select"
    /\ UNCHANGED <<version, published, targets, process, chanVars, handlerVars>>

-----------------------------------------------------------------------------
(* One SSE request: its handler and SubscribePolls' goroutine *)

\* SubscribePolls: make the channel, append it under notifyMu, start the
\* goroutine.  It comes before the first push.
Subscribe(s) ==
    /\ handler[s] = "new"
    /\ subs' = subs \cup {s}
    /\ watcher' = [watcher EXCEPT ![s] = "waiting"]
    /\ handler' = [handler EXCEPT ![s] = "push"]
    /\ UNCHANGED <<loopVars, token, closed, cancelled, shown>>

\* pushSnapshot reads the positions under the pipeline's lock ...
Snapshot(s) ==
    /\ handler[s] = "push"
    /\ shown' = [shown EXCEPT ![s] = version]
    /\ handler' = [handler EXCEPT ![s] = "write"]
    /\ UNCHANGED <<loopVars, chanVars, cancelled>>

\* ... and takes its time to write them to the response.
Pushed(s) ==
    /\ handler[s] = "write"
    /\ handler' = [handler EXCEPT ![s] = "select"]
    /\ UNCHANGED <<loopVars, chanVars, cancelled, shown>>

\* The write to the response fails; the handler returns, and net/http
\* cancels the request's context.
PushFails(s) ==
    /\ handler[s] = "write"
    /\ handler' = [handler EXCEPT ![s] = "returned"]
    /\ cancelled' = cancelled \cup {s}
    /\ UNCHANGED <<loopVars, chanVars, shown>>

\* The polls case of the handler's select: a buffered value is delivered even
\* from a closed channel.
Receive(s) ==
    /\ handler[s] = "select"
    /\ s \in token
    /\ token' = token \ {s}
    /\ handler' = [handler EXCEPT ![s] = "push"]
    /\ UNCHANGED <<loopVars, subs, closed, watcher, cancelled, shown>>

\* The ctx.Done case, or the polls case on a closed and drained channel.
Return(s) ==
    /\ handler[s] = "select"
    /\ s \in cancelled \/ (s \in closed /\ s \notin token)
    /\ handler' = [handler EXCEPT ![s] = "returned"]
    /\ cancelled' = cancelled \cup {s}
    /\ UNCHANGED <<loopVars, chanVars, shown>>

\* The browser closes the connection.
Disconnect(s) ==
    /\ handler[s] \in {"push", "write", "select"}
    /\ s \notin cancelled
    /\ cancelled' = cancelled \cup {s}
    /\ UNCHANGED <<loopVars, chanVars, handler, shown>>

\* Mutation of Unsubscribe: the channel is closed before it is removed.
CloseBeforeRemoval(s) ==
    /\ watcher[s] = "waiting"
    /\ s \in cancelled
    /\ closed' = closed \cup {s}
    /\ watcher' = [watcher EXCEPT ![s] = "removed"]
    /\ UNCHANGED <<loopVars, subs, token, handlerVars>>

\* Mutation of Unsubscribe: the goroutine returns without removing the channel.
NoRemoval(s) ==
    /\ watcher[s] = "waiting"
    /\ s \in cancelled
    /\ watcher' = [watcher EXCEPT ![s] = "exited"]
    /\ UNCHANGED <<loopVars, subs, token, closed, handlerVars>>

\* The goroutine wakes up and removes the channel under notifyMu ...
Unsubscribe(s) ==
    /\ watcher[s] = "waiting"
    /\ s \in cancelled
    /\ subs' = subs \ {s}
    /\ watcher' = [watcher EXCEPT ![s] = "removed"]
    /\ UNCHANGED <<loopVars, token, closed, handlerVars>>

\* ... and closes it after releasing the lock.
CloseChan(s) ==
    /\ watcher[s] = "removed"
    /\ closed' = closed \cup {s}
    /\ watcher' = [watcher EXCEPT ![s] = "exited"]
    /\ UNCHANGED <<loopVars, subs, token, handlerVars>>

-----------------------------------------------------------------------------
PollLoop ==
    StartPoll \/ Ingest \/ PollFails \/ CopySubs \/ NotifyReturns
    \/ \E s \in Streams : Send(s)

Reply(s) == Snapshot(s) \/ Pushed(s) \/ PushFails(s) \/ Receive(s) \/ Return(s)

Handler(s) == Subscribe(s) \/ Reply(s)

Watcher(s) == Unsubscribe(s) \/ CloseChan(s)

\* After a panic the process is gone and nothing moves any more.
Next ==
    /\ process = "up"
    /\ \/ PollLoop
       \/ \E s \in Streams : Handler(s) \/ Watcher(s) \/ Disconnect(s)

Spec == Init /\ [][Next]_vars

\* Goroutines that can run do run: NotifyPoll's sends never block, a handler
\* leaves push and select when it can, and the watcher wakes on ctx.Done.
\* Whether a poll happens, or a browser leaves, is up to the environment.
Fairness ==
    /\ WF_vars(process = "up" /\ (NotifyReturns \/ \E s \in Streams : Send(s)))
    /\ \A s \in Streams :
          /\ WF_vars(process = "up" /\ Reply(s))
          /\ WF_vars(process = "up" /\ Watcher(s))

FairSpec == Spec /\ Fairness

-----------------------------------------------------------------------------
(* Properties *)

\* A stream that has taken a snapshot, finds no value in its channel and is not
\* among those the running NotifyPoll still has to send to, has been given
\* everything the last announced poll ingested: neither the drop of a value
\* on a full channel nor a subscription racing with NotifyPoll loses a poll
\* (handleVehicleStream: "Subscribe before the first push so we cannot miss
\* NotifyPoll between them").
NoMissedPoll ==
    \A s \in Streams \ (cancelled \cup token \cup targets) :
        handler[s] \in {"write", "select"} => shown[s] >= published

\* A channel still in pollSubs is open, so a send that starts from a fresh
\* copy of pollSubs never finds its channel closed: SubscribePolls' goroutine
\* removes the channel before it closes it.
SubscribedIsOpen == \A s \in subs : s \notin closed

\* What the two invariants rest on: a channel is in pollSubs exactly while its
\* goroutine waits for ctx.Done, that goroutine exists from the subscription
\* on and moves only once the context is done, and only it closes the channel.
SubscriptionState ==
    \A s \in Streams :
        /\ s \in subs <=> watcher[s] = "waiting"
        /\ watcher[s] = "none" <=> handler[s] = "new"
        /\ watcher[s] \in {"removed", "exited"} => s \in cancelled
        /\ s \in closed => watcher[s] = "exited"

\* The inductive invariant of PollNotify_proofs.
IInv ==
    /\ TypeOK
    /\ SubscriptionState
    /\ published <= version
    /\ NoMissedPoll

\* The subscription and the goroutine of a request whose context is done do
\* not outlive it: the channel leaves pollSubs and is closed.
SubscriptionReleased ==
    \A s \in Streams :
        s \in cancelled /\ watcher[s] # "none"
            ~> (s \notin subs /\ s \in closed) \/ process # "up"

\* NotifyPoll only ever sends on open channels, so announcing a poll cannot
\* bring the process down.
NoSendOnClosed == process = "up"

\* The refinement mapping: a stream is connected from its subscription until
\* its handler returns.
Map == INSTANCE LiveMap
         WITH connected <- {s \in Streams : handler[s] \in {"push", "write", "select"}},
              up <- (process = "up")

\* The channels, copies and goroutines implement the promise of LiveMap:
\* while the process is up every connected stream catches up with what
\* NotifyPoll announced.
ImplementsLiveMap == Map!Spec

=============================================================================
