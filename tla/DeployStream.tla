---------------------------- MODULE DeployStream ----------------------------
(***************************************************************************)
(* Progress events of deployments: Bridge.Deploy and DeployAsync publish   *)
(* them on InMemoryEventBus, handlers of DeploySSE write them to clients.  *)
(*                                                                         *)
(* One step is one critical section of the bus, one channel operation, one *)
(* event written to a client, or one step of a deployment between two      *)
(* events.  A topic is the AppID of an event, which is the container name  *)
(* in the events of Deploy and the app's id in the event "done" of         *)
(* DeployAsync.                                                            *)
(***************************************************************************)
EXTENDS Naturals, Sequences

CONSTANTS
  Deploys,   \* deployments, each one made at most once
  Clients,   \* connections to the SSE endpoint, each one made at most once
  Stalled,   \* clients that may stop reading: their handler blocks in a write
  Slow,      \* bound: the clients whose requests can last until they time out
  Topics,    \* app ids and container names
  Plans,     \* bound: the deployments that are made (async, app and name)
  Cap,       \* capacity of a subscriber's channel (100 in the code)
  Shutdown   \* bound: whether the server may be shut down

ASSUME StreamAssumption ==
  /\ Stalled \subseteq Clients
  /\ Slow \subseteq Clients
  /\ Plans \subseteq [async : BOOLEAN, app : Topics, name : Topics]
  /\ Cap \in Nat
  /\ Shutdown \in BOOLEAN

VARIABLES
  subs,     \* subs[t]: the clients whose channel is registered for topic t
  chan,     \* chan[c]: the events in c's channel
  closed,   \* closed[c]: c's channel is closed
  conn,     \* conn[c]: c's connection and its handler
  pub,      \* pub[d]: the goroutine of deployment d
  task,     \* task[d]: the status Bridge.tasks keeps for d
  down,     \* the bus was closed by the graceful shutdown
  alive,    \* the server process runs
  missed    \* missed[c]: a send found c's channel full (history variable)

vars == <<subs, chan, closed, conn, pub, task, down, alive, missed>>

\* Ranks gives the order of a deployment's events; "none" is for no event.
Ranks == [none |-> 0, preflight |-> 1, pull |-> 2, run |-> 3, done |-> 4]

Event == [by : Deploys, step : DOMAIN Ranks, status : {"running", "success", "failed"}]

NoEvent(d) == [by |-> d, step |-> "none", status |-> "running"]

\* last = the last event of each deployment that was written to the client,
\* gone = whether the client has left, or the server has cut the connection.
Connection == [state : {"new", "streaming", "ended"}, topic : Topics,
               last : [Deploys -> Event], gone : {"no", "left", "cut"}]

(***************************************************************************)
(* A deployment: pc = what it does next, event and todo = the event it is  *)
(* sending and the channels it has not come to yet (Publish copies them    *)
(* and sends without the lock), next = where it goes on after that,        *)
(* rescued = DeployAsync has recovered from a panic.  The order in which   *)
(* channels were registered, and so are sent to, is abstracted.            *)
(***************************************************************************)
Stages == {"new", "preflight", "pull", "run", "return", "announce", "ended"}

Publisher == [async : BOOLEAN, app : Topics, name : Topics,
              pc : Stages \cup {"send"}, next : Stages, event : Event,
              todo : SUBSET Clients, verdict : {"success", "failed"},
              rescued : BOOLEAN]

\* The topic deployment d uses for an event of the given step.
TopicOf(d, step) == IF step = "done" THEN pub[d].app ELSE pub[d].name

\* The request's context is done when the connection is gone or the handler has
\* returned.
Cancelled(c) == conn[c].gone # "no" \/ conn[c].state = "ended"

\* What the client has been told of d, or will be told next.
Told(c, d) == {conn[c].last[d]} \cup {chan[c][i] : i \in DOMAIN chan[c]}

\* Where a goroutine or a handler stands, in a running process.
At(d, stage) == alive /\ pub[d].pc = stage

Is(c, state) == alive /\ conn[c].state = state

-----------------------------------------------------------------------------
(***************************************************************************)
(* Deploy and DeployAsync.                                                 *)
(***************************************************************************)

\* A deployment starts; DeployAsync has created its task and marked it running.
Start(d, plan) ==
  /\ At(d, "new")
  /\ pub' = [pub EXCEPT ![d] = [@ EXCEPT !.async = plan.async, !.app = plan.app,
                                         !.name = plan.name, !.pc = "preflight"]]
  /\ task' = [task EXCEPT ![d] = IF plan.async THEN "running" ELSE @]
  /\ UNCHANGED <<subs, chan, closed, conn, down, alive, missed>>

\* Mutant: the event goes to the subscribers of every topic.
SendToAll(d, step, status, next) ==
  LET channels == UNION {subs[t] : t \in Topics} IN
  [pub[d] EXCEPT !.event = [by |-> d, step |-> step, status |-> status],
                 !.todo = channels, !.next = next,
                 !.pc = IF channels = {} THEN next ELSE "send"]

\* EventBus.Publish, first half: copy the channels under the read lock.
SendTo(d, step, status, next) ==
  LET channels == subs[TopicOf(d, step)] IN
  [pub[d] EXCEPT !.event = [by |-> d, step |-> step, status |-> status],
                 !.todo = channels, !.next = next,
                 !.pc = IF channels = {} THEN next ELSE "send"]

Publish(d, step, status, next) ==
  /\ pub' = [pub EXCEPT ![d] = SendTo(d, step, status, next)]
  /\ UNCHANGED <<subs, chan, closed, conn, task, down, alive, missed>>

\* Preflight passes, or the deployment fails before it.
PassPreflight(d) ==
  /\ At(d, "preflight")
  /\ Publish(d, "preflight", "success", "pull")

FailPreflight(d) ==
  /\ At(d, "preflight")
  /\ Publish(d, "preflight", "failed", "return")

NoServer(d) ==
  /\ At(d, "preflight")
  /\ pub' = [pub EXCEPT ![d].pc = "return"]
  /\ UNCHANGED <<subs, chan, closed, conn, task, down, alive, missed>>

StartPull(d) ==
  /\ At(d, "pull")
  /\ Publish(d, "pull", "running", "run")

\* The deployer has returned.
RunEnds(d, status) ==
  /\ At(d, "run")
  /\ pub' = [pub EXCEPT ![d] = [SendTo(d, "run", status, "return") EXCEPT !.verdict = status]]
  /\ UNCHANGED <<subs, chan, closed, conn, task, down, alive, missed>>

\* Mutant: DeployAsync announces the outcome before it records it.
ReturnUnrecorded(d) ==
  /\ At(d, "return")
  /\ pub' = [pub EXCEPT ![d].pc = IF pub[d].async THEN "announce" ELSE "ended"]
  /\ UNCHANGED <<subs, chan, closed, conn, task, down, alive, missed>>

\* Deploy returns; DeployAsync records the outcome in the task.
Return(d) ==
  /\ At(d, "return")
  /\ pub' = [pub EXCEPT ![d].pc = IF pub[d].async THEN "announce" ELSE "ended"]
  /\ task' = [task EXCEPT ![d] = IF pub[d].async THEN pub[d].verdict ELSE @]
  /\ UNCHANGED <<subs, chan, closed, conn, down, alive, missed>>

Announce(d) ==
  /\ At(d, "announce")
  /\ Publish(d, "done", pub[d].verdict, "ended")

\* The event has gone to c: the goroutine goes on after the last channel.
Past(d, c) ==
  pub' = [pub EXCEPT ![d] =
    [@ EXCEPT !.todo = pub[d].todo \ {c},
              !.pc = IF pub[d].todo = {c} THEN pub[d].next ELSE "send"]]

\* Mutant: the publisher waits for room in the channel.
SendOrWait(d, c) ==
  /\ At(d, "send")
  /\ c \in pub[d].todo
  /\ ~closed[c]
  /\ Len(chan[c]) < Cap
  /\ chan' = [chan EXCEPT ![c] = Append(@, pub[d].event)]
  /\ Past(d, c)
  /\ UNCHANGED <<subs, closed, conn, task, down, alive, missed>>

\* EventBus.Publish, second half: one channel after the other, without the lock;
\* an event for which a channel has no room is dropped.
Send(d, c) ==
  /\ At(d, "send")
  /\ c \in pub[d].todo
  /\ ~closed[c]
  /\ IF Len(chan[c]) < Cap
     THEN /\ chan' = [chan EXCEPT ![c] = Append(@, pub[d].event)]
          /\ UNCHANGED missed
     ELSE /\ missed' = [missed EXCEPT ![c] = TRUE]
          /\ UNCHANGED chan
  /\ Past(d, c)
  /\ UNCHANGED <<subs, closed, conn, task, down, alive>>

\* Mutants: the task gets a status of its own for panics; DeployAsync recovers
\* without telling anybody.
RecoverPanicked(d) ==
  /\ pub' = [pub EXCEPT ![d] = [@ EXCEPT !.pc = "announce", !.todo = {},
                                         !.verdict = "failed", !.rescued = TRUE]]
  /\ task' = [task EXCEPT ![d] = "panicked"]

RecoverSilently(d) ==
  /\ pub' = [pub EXCEPT ![d] = [@ EXCEPT !.pc = "ended", !.todo = {},
                                         !.verdict = "failed", !.rescued = TRUE]]
  /\ task' = [task EXCEPT ![d] = "failed"]

\* The deferred function of DeployAsync.
Recover(d) ==
  /\ pub' = [pub EXCEPT ![d] = [@ EXCEPT !.pc = "announce", !.todo = {},
                                         !.verdict = "failed", !.rescued = TRUE]]
  /\ task' = [task EXCEPT ![d] = "failed"]

\* A send on a channel that was closed after Publish had copied it panics.  The
\* panic ends a synchronous call; DeployAsync recovers from the first one, and a
\* second one, in the deferred function, ends the process.
SendPanics(d, c) ==
  /\ At(d, "send")
  /\ c \in pub[d].todo
  /\ closed[c]
  /\ \/ /\ ~pub[d].async
        /\ pub' = [pub EXCEPT ![d] = [@ EXCEPT !.pc = "ended", !.todo = {}]]
        /\ UNCHANGED <<task, alive>>
     \/ /\ pub[d].async /\ ~pub[d].rescued
        /\ Recover(d)
        /\ UNCHANGED alive
     \/ /\ pub[d].async /\ pub[d].rescued
        /\ alive' = FALSE
        /\ UNCHANGED <<pub, task>>
  /\ UNCHANGED <<subs, chan, closed, conn, down, missed>>

-----------------------------------------------------------------------------
(***************************************************************************)
(* Subscribers: the handler of DeploySSE, and the goroutine that Subscribe *)
(* starts to unsubscribe when the request's context is done.               *)
(***************************************************************************)

Connect(c, t) ==
  /\ Is(c, "new")
  /\ subs' = [subs EXCEPT ![t] = @ \cup {c}]
  /\ conn' = [conn EXCEPT ![c] = [@ EXCEPT !.state = "streaming", !.topic = t]]
  /\ UNCHANGED <<chan, closed, pub, task, down, alive, missed>>

\* The handler takes an event and writes it; it returns after "done".  (From a
\* closed channel it takes empty events, without end: the state stays the same.)
Receive(c) ==
  /\ Is(c, "streaming")
  /\ chan[c] # <<>>
  /\ chan' = [chan EXCEPT ![c] = Tail(@)]
  /\ conn' = [conn EXCEPT ![c] =
       [@ EXCEPT !.last[Head(chan[c]).by] = Head(chan[c]),
                 !.state = IF Head(chan[c]).step = "done" THEN "ended" ELSE "streaming"]]
  /\ UNCHANGED <<subs, closed, pub, task, down, alive, missed>>

\* The client disconnects, or the read and write timeouts of the HTTP server end
\* the request; the handler notices either.
Leave(c) ==
  /\ Is(c, "streaming") /\ conn[c].gone = "no"
  /\ conn' = [conn EXCEPT ![c].gone = "left"]
  /\ UNCHANGED <<subs, chan, closed, pub, task, down, alive, missed>>

TimesOut(c) ==
  /\ c \in Slow
  /\ Is(c, "streaming") /\ conn[c].gone = "no"
  /\ conn' = [conn EXCEPT ![c].gone = "cut"]
  /\ UNCHANGED <<subs, chan, closed, pub, task, down, alive, missed>>

HandlerStops(c) ==
  /\ Is(c, "streaming") /\ conn[c].gone # "no"
  /\ conn' = [conn EXCEPT ![c].state = "ended"]
  /\ UNCHANGED <<subs, chan, closed, pub, task, down, alive, missed>>

\* Mutant: only a client whose connection is gone is unsubscribed.
UnsubscribeLeft(c) ==
  /\ alive /\ conn[c].gone # "no"
  /\ c \in subs[conn[c].topic]
  /\ subs' = [subs EXCEPT ![conn[c].topic] = @ \ {c}]
  /\ closed' = [closed EXCEPT ![c] = TRUE]
  /\ UNCHANGED <<chan, conn, pub, task, down, alive, missed>>

\* Under the lock; a channel that is not registered any more is left alone.
Unsubscribe(c) ==
  /\ alive /\ Cancelled(c)
  /\ c \in subs[conn[c].topic]
  /\ subs' = [subs EXCEPT ![conn[c].topic] = @ \ {c}]
  /\ closed' = [closed EXCEPT ![c] = TRUE]
  /\ UNCHANGED <<chan, conn, pub, task, down, alive, missed>>

\* Mutant: the map of the subscribers is not cleared.
CloseKeepsMap ==
  /\ alive /\ Shutdown /\ ~down
  /\ down' = TRUE
  /\ closed' = [c \in Clients |-> closed[c] \/ \E t \in Topics : c \in subs[t]]
  /\ UNCHANGED <<subs, chan, conn, pub, task, alive, missed>>

\* EventBus.Close, in the graceful shutdown, which does not wait for the
\* goroutines of DeployAsync nor, past its timeout, for the handlers.
CloseBus ==
  /\ alive /\ Shutdown /\ ~down
  /\ down' = TRUE
  /\ closed' = [c \in Clients |-> closed[c] \/ \E t \in Topics : c \in subs[t]]
  /\ subs' = [t \in Topics |-> {}]
  /\ UNCHANGED <<chan, conn, pub, task, alive, missed>>

-----------------------------------------------------------------------------
\* What was not made yet: its parameters mean nothing.
NotConnected(t) ==
  [state |-> "new", topic |-> t, last |-> [d \in Deploys |-> NoEvent(d)], gone |-> "no"]

NotStarted(d, t) ==
  [async |-> FALSE, app |-> t, name |-> t, pc |-> "new", next |-> "ended",
   event |-> NoEvent(d), todo |-> {}, verdict |-> "failed", rescued |-> FALSE]

Init ==
  /\ subs = [t \in Topics |-> {}]
  /\ chan = [c \in Clients |-> <<>>]
  /\ closed = [c \in Clients |-> FALSE]
  /\ \E t \in Topics : /\ conn = [c \in Clients |-> NotConnected(t)]
                       /\ pub = [d \in Deploys |-> NotStarted(d, t)]
  /\ task = [d \in Deploys |-> "none"]
  /\ down = FALSE
  /\ alive = TRUE
  /\ missed = [c \in Clients |-> FALSE]

\* What goroutine d does once it was started.
Work(d) ==
  \/ PassPreflight(d) \/ FailPreflight(d) \/ NoServer(d) \/ StartPull(d)
  \/ \E status \in {"success", "failed"} : RunEnds(d, status)
  \/ Return(d) \/ Announce(d)
  \/ \E c \in Clients : Send(d, c) \/ SendPanics(d, c)

Handle(c) == Receive(c) \/ HandlerStops(c)

Next ==
  \/ \E d \in Deploys : Work(d) \/ \E plan \in Plans : Start(d, plan)
  \/ \E c \in Clients :
       Handle(c) \/ Leave(c) \/ TimesOut(c) \/ Unsubscribe(c) \/ \E t \in Topics : Connect(c, t)
  \/ CloseBus

\* Goroutines keep running while the process does: that of a deployment (every
\* command it waits for is bounded by its context), that which waits for the end
\* of a context, and the handler of a client that keeps reading.  The timeouts of
\* the connections come or not: a deployment may be faster.
Fairness ==
  /\ \A d \in Deploys : WF_vars(Work(d))
  /\ \A c \in Clients : WF_vars(Unsubscribe(c))
  /\ \A c \in Clients \ Stalled : WF_vars(Handle(c))

Spec == Init /\ [][Next]_vars /\ Fairness

\* The same with connections that all reach their timeout in the end.
TimedSpec == Spec /\ \A c \in Clients : WF_vars(TimesOut(c))

-----------------------------------------------------------------------------
(***************************************************************************)
(* Properties.                                                             *)
(***************************************************************************)

\* Every variable has its type; a channel never holds more than its capacity.
TypeOK ==
  /\ subs \in [Topics -> SUBSET Clients]
  /\ chan \in [Clients -> Seq(Event)]
  /\ \A c \in Clients : Len(chan[c]) <= Cap
  /\ closed \in [Clients -> BOOLEAN]
  /\ conn \in [Clients -> Connection]
  /\ pub \in [Deploys -> Publisher]
  /\ task \in [Deploys -> {"none", "running", "success", "failed"}]
  /\ down \in BOOLEAN
  /\ alive \in BOOLEAN
  /\ missed \in [Clients -> BOOLEAN]

\* A client is sent events of the topic it asked for and no other; of each
\* deployment it gets them in the order they were published and none twice,
\* but for a second "done" of a deployment that recovered from a panic
\* (Publish and DeploySSE, with several deployments of one app at a time).
Follows(e, f) ==
  e.by = f.by => \/ Ranks[e.step] < Ranks[f.step]
                 \/ e.step = "done" /\ f.step = "done" /\ pub[e.by].rescued

StreamIsFaithful ==
  \A c \in Clients : \A j \in DOMAIN chan[c] :
    /\ TopicOf(chan[c][j].by, chan[c][j].step) = conn[c].topic
    /\ Follows(conn[c].last[chan[c][j].by], chan[c][j])
    /\ \A i \in 1 .. j - 1 : Follows(chan[c][i], chan[c][j])

\* The bus holds no closed channel: a Publish that starts now meets a closed
\* channel only if it is closed while the events are sent, and neither Close nor
\* unsubscribe closes a channel twice, which would end the process.
RegisteredOpen ==
  \A t \in Topics, c \in Clients : c \in subs[t] => ~closed[c] /\ conn[c].topic = t

\* A client that is told the outcome of a deployment and then polls its task
\* reads the same outcome, or "failed" after a panic (DeployAsync updates the
\* task before it publishes "done").
OutcomeIsRecorded ==
  \A c \in Clients, d \in Deploys : \A e \in Told(c, d) :
    e.step = "done" =>
      task[e.by] = IF pub[e.by].rescued THEN "failed" ELSE e.status

\* A deployment does not wait for those who watch it, even if they stopped
\* reading: it ends, unless the process does (the default branch of Publish).
DeployEnds ==
  \A d \in Deploys : pub[d].pc = "preflight" ~> pub[d].pc = "ended" \/ ~alive

\* A stream that was open before an asynchronous deployment of its app recorded
\* its outcome ends, if its client keeps reading, no event was dropped for it and
\* the server is not shut down - even when a panic cut a Publish short.
Watching(c, d) ==
  /\ conn[c].state = "streaming" /\ pub[d].async /\ pub[d].app = conn[c].topic
  /\ pub[d].pc \in {"preflight", "pull", "run", "return"}

StreamEnds ==
  \A c \in Clients \ Stalled, d \in Deploys :
    Watching(c, d) ~> conn[c].state = "ended" \/ missed[c] \/ down \/ ~alive

\* The bus forgets every stream that has ended (Subscribe's goroutine).
EndedIsForgotten ==
  \A c \in Clients :
    conn[c].state = "ended" ~> c \notin subs[conn[c].topic] \/ ~alive

(***************************************************************************)
(* The inductive invariant from which the safety properties follow.        *)
(***************************************************************************)

\* Where a goroutine goes on once its event is sent, and the events that can be
\* its last ones when it is there.
Stage(d) == IF pub[d].pc = "send" THEN pub[d].next ELSE pub[d].pc

LastSteps == [new       |-> {"none"},
              preflight |-> {"none"},
              pull      |-> {"preflight"},
              run       |-> {"pull"},
              return    |-> {"none", "preflight", "run"},
              announce  |-> {"none", "preflight", "run"},
              ended     |-> DOMAIN Ranks]

Progress(d) ==
  /\ pub[d].event.by = d
  /\ ~pub[d].rescued => pub[d].event.step \in LastSteps[Stage(d)]
  /\ pub[d].rescued => Stage(d) \in {"announce", "ended"}
  /\ pub[d].pc # "send" => pub[d].todo = {}

\* The task tells the outcome from the moment it is announced.
Recorded(d) ==
  /\ pub[d].event.step = "done" =>
       task[d] = IF pub[d].rescued THEN "failed" ELSE pub[d].event.status
  /\ Stage(d) = "announce" =>
       task[d] = pub[d].verdict /\ (pub[d].rescued => pub[d].verdict = "failed")

\* The event that is being sent is news to the clients it goes to.
Pending(d) ==
  \A c \in pub[d].todo :
    /\ conn[c].state # "new"
    /\ conn[c].topic = TopicOf(d, pub[d].event.step)
    /\ \A e \in Told(c, d) : Follows(e, pub[d].event)

\* A client has not been told more than was published.
Behind(c) ==
  /\ conn[c].state = "new" =>
       chan[c] = <<>> /\ ~closed[c] /\ \A t \in Topics : c \notin subs[t]
  /\ \A d \in Deploys :
       /\ conn[c].last[d].by = d
       /\ Ranks[conn[c].last[d].step] <= Ranks[pub[d].event.step]
  /\ \A i \in DOMAIN chan[c] :
       /\ chan[c][i].step # "none"
       /\ Ranks[chan[c][i].step] <= Ranks[pub[chan[c][i].by].event.step]

Inv ==
  /\ TypeOK
  /\ RegisteredOpen
  /\ \A d \in Deploys : Progress(d) /\ Recorded(d) /\ Pending(d)
  /\ \A c \in Clients : Behind(c)
  /\ StreamIsFaithful
  /\ OutcomeIsRecorded

\* sse.go:44, "close connection when deploy finishes", and the stream's proxy in
\* DEPLOY.md:282-289, which holds a silent stream for a day: the stream of a client
\* that stays is not ended before it was told of the end of a deployment.
Heard(c) == \E d \in Deploys : conn[c].last[d].step = "done"

KeptUntilDone ==
  \A c \in Clients : conn[c].state = "ended" /\ conn[c].gone # "left" => Heard(c)

\* sse.go:44 again, of the stream whose address DeployAsyncHandler returns once
\* the deployment has been started: a stream that is open for an app one of whose
\* deployments has ended is told so, as long as the client stays, even if no event
\* waits for it.
ClosesWhenDeployFinishes ==
  \A c \in Clients \ Stalled, d \in Deploys :
    /\ conn[c].state = "streaming" /\ pub[d].async /\ pub[d].app = conn[c].topic
    /\ pub[d].pc = "ended" /\ conn[c].gone = "no" /\ chan[c] = <<>>
    ~> Heard(c) \/ conn[c].gone = "left" \/ missed[c] \/ down \/ ~alive

=============================================================================
