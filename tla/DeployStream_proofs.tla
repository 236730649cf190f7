------------------------ MODULE DeployStream_proofs ------------------------
(***************************************************************************)
(* Proofs about DeployStream, for every set of deployments, clients and    *)
(* topics, every plan and every capacity of the channels.                  *)
(***************************************************************************)
EXTENDS DeployStream, TLAPS

USE StreamAssumption

-----------------------------------------------------------------------------
(***************************************************************************)
(* Lemmas about the records.                                               *)
(***************************************************************************)

Steps == DOMAIN Ranks

\* The steps and their ranks, one by one.
LEMMA RankOf ==
  /\ Steps = {"none", "preflight", "pull", "run", "done"}
  /\ Ranks["none"] = 0 /\ Ranks["preflight"] = 1 /\ Ranks["pull"] = 2
  /\ Ranks["run"] = 3 /\ Ranks["done"] = 4
  /\ \A s \in Steps : Ranks[s] \in 0 .. 4
  BY DEF Steps, Ranks

\* A deployment comes to its next event; RunEnds also sets its verdict.
Sends(d, step, status, next, v) ==
  pub' = [pub EXCEPT ![d] = [SendTo(d, step, status, next) EXCEPT !.verdict = v]]

\* What SendTo makes of a deployment: the event, the channels of its topic, and
\* no waiting when there are none.
Sent(d, step, status, next, v) ==
  /\ pub' \in [Deploys -> Publisher]
  /\ \A x \in Deploys : x # d => pub'[x] = pub[x]
  /\ pub'[d].async = pub[d].async
  /\ pub'[d].app = pub[d].app
  /\ pub'[d].name = pub[d].name
  /\ pub'[d].rescued = pub[d].rescued
  /\ pub'[d].verdict = v
  /\ pub'[d].next = next
  /\ pub'[d].event = [by |-> d, step |-> step, status |-> status]
  /\ pub'[d].todo = subs[TopicOf(d, step)]
  /\ pub'[d].pc \in {"send", next}
  /\ pub'[d].pc # "send" => pub'[d].todo = {}

LEMMA SendToFields ==
  ASSUME TypeOK, NEW d \in Deploys, NEW step \in Steps,
         NEW status \in {"running", "success", "failed"}, NEW next \in Stages,
         NEW v \in {"success", "failed"},
         Sends(d, step, status, next, v)
  PROVE  Sent(d, step, status, next, v)
  <1> DEFINE q == [SendTo(d, step, status, next) EXCEPT !.verdict = v]
  <1>1. pub[d] \in Publisher
    BY DEF TypeOK
  <1>2. TopicOf(d, step) \in Topics
    BY <1>1 DEF TopicOf, Publisher
  <1>3. subs[TopicOf(d, step)] \in SUBSET Clients
    BY <1>2 DEF TypeOK
  <1>4. [by |-> d, step |-> step, status |-> status] \in Event
    BY DEF Event, Steps
  <1>5. "send" \notin Stages
    BY DEF Stages
  <1>6. /\ q \in Publisher
        /\ q.async = pub[d].async /\ q.app = pub[d].app /\ q.name = pub[d].name
        /\ q.rescued = pub[d].rescued /\ q.verdict = v /\ q.next = next
        /\ q.event = [by |-> d, step |-> step, status |-> status]
        /\ q.todo = subs[TopicOf(d, step)]
        /\ q.pc = IF subs[TopicOf(d, step)] = {} THEN next ELSE "send"
    BY <1>1, <1>3, <1>4 DEF SendTo, Publisher
  <1>7. /\ pub'[d] = q
        /\ \A x \in Deploys : x # d => pub'[x] = pub[x]
        /\ pub' \in [Deploys -> Publisher]
    BY <1>6 DEF TypeOK, Sends
  <1> HIDE DEF q
  <1> QED
    BY <1>5, <1>6, <1>7 DEF Sent

\* Publish is a SendTo that leaves the verdict.
LEMMA PublishIsSendTo ==
  ASSUME TypeOK, NEW d \in Deploys, NEW step, NEW status, NEW next,
         Publish(d, step, status, next)
  PROVE  Sends(d, step, status, next, pub[d].verdict)
  <1>1. pub[d] \in Publisher
    BY DEF TypeOK
  <1>2. SendTo(d, step, status, next) =
          [SendTo(d, step, status, next) EXCEPT !.verdict = pub[d].verdict]
    BY <1>1 DEF SendTo, Publisher
  <1> QED
    BY <1>2 DEF Publish, Sends

-----------------------------------------------------------------------------
(***************************************************************************)
(* Steps of a deployment that touch no channel and no connection.          *)
(***************************************************************************)

\* The elements that the invariant speaks of have their types.
LEMMA EventTypes ==
  ASSUME TypeOK
  PROVE  /\ \A d \in Deploys : pub[d] \in Publisher /\ pub[d].event \in Event
         /\ \A c \in Clients : conn[c] \in Connection /\ chan[c] \in Seq(Event)
         /\ \A c \in Clients : \A i \in DOMAIN chan[c] : chan[c][i] \in Event
         /\ \A c \in Clients, d \in Deploys : conn[c].last[d] \in Event
         /\ \A c \in Clients, d \in Deploys : Told(c, d) \subseteq Event
         /\ \A e \in Event : e.by \in Deploys /\ e.step \in Steps
  <1>1. \A d \in Deploys : pub[d] \in Publisher /\ pub[d].event \in Event
    BY DEF TypeOK, Publisher
  <1>2. \A c \in Clients : conn[c] \in Connection /\ chan[c] \in Seq(Event)
    BY DEF TypeOK
  <1>3. \A c \in Clients : \A i \in DOMAIN chan[c] : chan[c][i] \in Event
    BY <1>2
  <1>4. \A c \in Clients, d \in Deploys : conn[c].last[d] \in Event
    BY <1>2 DEF Connection
  <1>5. \A e \in Event : e.by \in Deploys /\ e.step \in Steps
    BY DEF Event, Steps
  <1>6. \A c \in Clients, d \in Deploys : Told(c, d) \subseteq Event
    BY <1>3, <1>4 DEF Told
  <1> QED
    BY <1>1, <1>2, <1>3, <1>4, <1>5, <1>6

\* What no client was told of deployments that have published less than that.
LEMMA ToldIsBehind ==
  ASSUME Inv, NEW c \in Clients, NEW d \in Deploys, NEW e \in Told(c, d)
  PROVE  /\ e \in Event
         /\ Ranks[e.step] <= Ranks[pub[e.by].event.step]
         /\ e.step = "done" => pub[e.by].event.step = "done"
  <1>1. e \in Event /\ e.by \in Deploys /\ e.step \in Steps
    BY EventTypes DEF Inv
  <1>2. pub[e.by].event.step \in Steps
    BY <1>1, EventTypes DEF Inv
  <1>3. Ranks[e.step] <= Ranks[pub[e.by].event.step]
    <2>1. CASE e = conn[c].last[d]
      BY <2>1 DEF Inv, Behind
    <2>2. CASE \E i \in DOMAIN chan[c] : e = chan[c][i]
      BY <2>2 DEF Inv, Behind
    <2> QED
      BY <2>1, <2>2 DEF Told
  <1> QED
    BY <1>1, <1>2, <1>3, RankOf

\* A step of d that leaves channels and connections alone, publishes nothing of
\* a lower rank, and keeps what the invariant says of d itself.
LEMMA PublisherStep ==
  ASSUME Inv, TypeOK', NEW d \in Deploys,
         UNCHANGED <<subs, chan, closed, conn>>,
         \A x \in Deploys : x # d => pub'[x] = pub[x] /\ task'[x] = task[x],
         pub[d].rescued => pub'[d].rescued,
         \/ pub'[d].app = pub[d].app /\ pub'[d].name = pub[d].name
         \/ pub[d].event.step = "none",
         Ranks[pub[d].event.step] <= Ranks[pub'[d].event.step],
         \/ task'[d] = task[d] /\ pub'[d].rescued = pub[d].rescued
         \/ task'[d] = "failed" /\ pub'[d].rescued
         \/ pub[d].event.step # "done",
         Progress(d)', Recorded(d)', Pending(d)'
  PROVE  Inv'
  <1>0. /\ \A x \in Deploys : pub[x] \in Publisher /\ pub[x].event \in Event
        /\ \A c \in Clients : \A i \in DOMAIN chan[c] : chan[c][i] \in Event
        /\ \A c \in Clients, x \in Deploys : conn[c].last[x] \in Event
        /\ \A c \in Clients, x \in Deploys : Told(c, x) \subseteq Event
        /\ \A e \in Event : e.by \in Deploys /\ e.step \in Steps
    BY EventTypes DEF Inv
  <1>a. \A x \in Deploys : pub'[x].event \in Event
    BY DEF TypeOK, Publisher
  <1>1. \A e \in Event : pub[e.by].rescued => pub'[e.by].rescued
    BY <1>0
  <1>2. \A c \in Clients, x \in Deploys : Told(c, x)' = Told(c, x)
    BY DEF Told
  <1>3. RegisteredOpen'
    BY DEF Inv, RegisteredOpen
  <1>4. ASSUME NEW x \in Deploys, x # d
        PROVE  Progress(x)' /\ Recorded(x)' /\ Pending(x)'
    <2>1. Progress(x)' /\ Recorded(x)'
      BY <1>4 DEF Inv, Progress, Recorded, Stage
    <2>2. SUFFICES ASSUME NEW c \in pub[x].todo
                   PROVE  /\ conn[c].state # "new"
                          /\ conn[c].topic = TopicOf(x, pub[x].event.step)
                          /\ \A e \in Told(c, x) : Follows(e, pub[x].event)'
      <3>1. \A c \in pub[x].todo : c \in Clients
        BY <1>0 DEF Publisher
      <3>2. \A c \in pub[x].todo : Told(c, x)' = Told(c, x)
        BY <3>1, <1>2
      <3> QED
        BY <1>4, <2>1, <3>2 DEF Pending, TopicOf
    <2>3. Pending(x) /\ c \in Clients
      BY <1>0 DEF Inv, Publisher
    <2>4. \A e \in Told(c, x) : e \in Event /\ Follows(e, pub[x].event)
      BY <1>0, <2>3 DEF Pending
    <2> QED
      BY <1>1, <1>4, <2>3, <2>4 DEF Pending, Follows
  <1>5. ASSUME NEW c \in Clients
        PROVE  Behind(c)'
    <2>1. \A x \in Deploys : Ranks[pub[x].event.step] \in Nat /\ Ranks[pub'[x].event.step] \in Nat
      BY <1>0, <1>a, RankOf
    <2>2. \A x \in Deploys : Ranks[pub[x].event.step] <= Ranks[pub'[x].event.step]
      BY <2>1
    <2>3. \A x \in Deploys : Ranks[conn[c].last[x].step] \in Nat
      BY <1>0, RankOf
    <2>4. \A i \in DOMAIN chan[c] : chan[c][i].by \in Deploys /\ Ranks[chan[c][i].step] \in Nat
      BY <1>0, RankOf
    <2>5. Behind(c)
      BY DEF Inv
    <2>6. /\ \A x \in Deploys : Ranks[conn[c].last[x].step] <= Ranks[pub'[x].event.step]
          /\ \A i \in DOMAIN chan[c] :
               Ranks[chan[c][i].step] <= Ranks[pub'[chan[c][i].by].event.step]
      BY <2>1, <2>2, <2>3, <2>4, <2>5 DEF Behind
    <2> QED
      BY <2>5, <2>6 DEF Behind
  <1>6. StreamIsFaithful'
    <2>1. SUFFICES ASSUME NEW c \in Clients, NEW j \in DOMAIN chan[c]
                   PROVE  /\ TopicOf(chan[c][j].by, chan[c][j].step)' = conn[c].topic
                          /\ Follows(conn[c].last[chan[c][j].by], chan[c][j])'
                          /\ \A i \in 1 .. j - 1 : Follows(chan[c][i], chan[c][j])'
      BY DEF StreamIsFaithful
    <2>2. chan[c][j] \in Event /\ chan[c][j].by \in Deploys
      BY <1>0
    <2>3. chan[c][j].by = d => pub[d].event.step # "none"
      <3>1. /\ chan[c][j].step \in Steps \ {"none"}
            /\ Ranks[chan[c][j].step] <= Ranks[pub[chan[c][j].by].event.step]
        BY <1>0 DEF Inv, Behind
      <3> QED
        BY <3>1, RankOf
    <2>4. TopicOf(chan[c][j].by, chan[c][j].step)' = conn[c].topic
      BY <2>2, <2>3 DEF Inv, StreamIsFaithful, TopicOf
    <2>5. /\ conn[c].last[chan[c][j].by] \in Event
          /\ Follows(conn[c].last[chan[c][j].by], chan[c][j])
          /\ \A i \in 1 .. j - 1 : Follows(chan[c][i], chan[c][j])
      BY <1>0, <2>2 DEF Inv, StreamIsFaithful
    <2>6. \A i \in 1 .. j - 1 : chan[c][i] \in Event
      <3>1. chan[c] \in Seq(Event)
        BY DEF Inv, TypeOK
      <3> QED
        BY <3>1
    <2> QED
      BY <1>1, <2>4, <2>5, <2>6 DEF Follows
  <1>7. OutcomeIsRecorded'
    <2>1. SUFFICES ASSUME NEW c \in Clients, NEW x \in Deploys, NEW e \in Told(c, x),
                          e.step = "done"
                   PROVE  task'[e.by] = IF pub'[e.by].rescued THEN "failed" ELSE e.status
      BY <1>2 DEF OutcomeIsRecorded
    <2>2. e.by \in Deploys /\ pub[e.by].event.step = "done"
      BY <1>0, <2>1, ToldIsBehind
    <2>3. task[e.by] = IF pub[e.by].rescued THEN "failed" ELSE e.status
      BY <2>1 DEF Inv, OutcomeIsRecorded
    <2> QED
      BY <2>2, <2>3
  <1> QED
    BY <1>3, <1>4, <1>5, <1>6, <1>7 DEF Inv

\* Publishing an event of a higher rank, or "done" once more after a panic,
\* keeps the invariant.
LEMMA PublishKeeps ==
  ASSUME Inv, NEW d \in Deploys, NEW step \in Steps \ {"none"},
         NEW status \in {"running", "success", "failed"},
         NEW next \in {"pull", "run", "return", "ended"},
         NEW v \in {"success", "failed"},
         Sends(d, step, status, next, v),
         UNCHANGED <<subs, chan, closed, conn, task, down, alive, missed>>,
         \/ Ranks[pub[d].event.step] < Ranks[step]
         \/ step = "done" /\ pub[d].rescued,
         step \in LastSteps[next],
         pub[d].rescued => next = "ended",
         step = "done" => task[d] = IF pub[d].rescued THEN "failed" ELSE status
  PROVE  Inv'
  <1>0. TypeOK /\ next \in Stages /\ "send" \notin Stages /\ step \in Steps
    BY DEF Inv, Stages
  <1>z. Sent(d, step, status, next, v)
    BY <1>0, SendToFields
  <1>1. /\ pub' \in [Deploys -> Publisher]
        /\ \A x \in Deploys : x # d => pub'[x] = pub[x]
        /\ pub'[d].app = pub[d].app
        /\ pub'[d].name = pub[d].name
        /\ pub'[d].rescued = pub[d].rescued
        /\ pub'[d].next = next
        /\ pub'[d].event = [by |-> d, step |-> step, status |-> status]
        /\ pub'[d].todo = subs[TopicOf(d, step)]
        /\ pub'[d].pc \in {"send", next}
        /\ pub'[d].pc # "send" => pub'[d].todo = {}
    BY <1>z DEF Sent
  <1>2. TypeOK'
    BY <1>0, <1>1 DEF TypeOK
  <1>3. /\ pub'[d].event.by = d /\ pub'[d].event.step = step
        /\ pub'[d].event.status = status
    BY <1>1
  <1>4. Stage(d)' = next
    BY <1>1 DEF Stage
  <1>5. pub[d].event.step \in Steps /\ pub[d] \in Publisher
    BY <1>0, EventTypes
  <1>6. Ranks[pub[d].event.step] <= Ranks[pub'[d].event.step]
    BY <1>3, <1>5, RankOf
  <1>7. Progress(d)'
    BY <1>1, <1>3, <1>4 DEF Progress
  <1>8. Recorded(d)'
    BY <1>1, <1>3, <1>4 DEF Recorded
  <1>9. Pending(d)'
    <2>1. SUFFICES ASSUME NEW c \in subs[TopicOf(d, step)]
                   PROVE  /\ conn[c].state # "new"
                          /\ conn[c].topic = TopicOf(d, step)
                          /\ \A e \in Told(c, d) : Follows(e, pub[d].event)'
      <3>1. \A c \in Clients : Told(c, d)' = Told(c, d)
        BY DEF Told
      <3>2. TopicOf(d, step)' = TopicOf(d, step)
        BY <1>1 DEF TopicOf
      <3>3. TopicOf(d, step) \in Topics
        BY <1>5 DEF TopicOf, Publisher
      <3>4. subs[TopicOf(d, step)] \subseteq Clients
        BY <1>0, <3>3 DEF TypeOK
      <3> QED
        BY <1>1, <1>3, <2>1, <3>1, <3>2, <3>4 DEF Pending
    <2>2. TopicOf(d, step) \in Topics /\ c \in Clients
      BY <1>0, <1>5 DEF TopicOf, Publisher, TypeOK
    <2>3. conn[c].topic = TopicOf(d, step)
      BY <2>2 DEF Inv, RegisteredOpen
    <2>4. conn[c].state # "new"
      BY <2>2 DEF Inv, Behind
    <2>5. ASSUME NEW e \in Told(c, d), e.by = d
          PROVE  \/ Ranks[e.step] < Ranks[step]
                 \/ e.step = "done" /\ step = "done" /\ pub[d].rescued
      <3>1. e.step \in Steps /\ Ranks[e.step] <= Ranks[pub[d].event.step]
        BY <2>2, <2>5, ToldIsBehind, EventTypes, <1>0
      <3> QED
        BY <1>5, <3>1, RankOf
    <2> QED
      BY <1>1, <1>3, <2>3, <2>4, <2>5 DEF Follows
  <1> QED
    BY <1>1, <1>2, <1>6, <1>7, <1>8, <1>9, PublisherStep

\* A deployment whose goroutine stands at one of the first stages has not
\* recovered from a panic, and its last event is one of the stage's.
LEMMA AtStage ==
  ASSUME Inv, NEW d \in Deploys, NEW stage \in Stages, At(d, stage)
  PROVE  /\ Stage(d) = stage
         /\ stage \notin {"announce", "ended"} => ~pub[d].rescued
         /\ ~pub[d].rescued => pub[d].event.step \in LastSteps[stage]
         /\ pub[d].event.step \in Steps
         /\ pub[d].todo = {}
  <1>1. Stage(d) = stage /\ stage # "send"
    BY DEF At, Stage, Stages
  <1> QED
    BY <1>1, EventTypes DEF Inv, Progress, At

\* The ranks and stages that the publishing steps need.
LEMMA NextSteps ==
  /\ {"preflight", "pull", "run", "done"} = Steps \ {"none"}
  /\ "preflight" \in LastSteps["pull"] \cap LastSteps["return"]
  /\ "pull" \in LastSteps["run"]
  /\ "run" \in LastSteps["return"]
  /\ "done" \in LastSteps["ended"]
  /\ Ranks["none"] < Ranks["preflight"] /\ Ranks["preflight"] < Ranks["pull"]
  /\ Ranks["pull"] < Ranks["run"]
  /\ \A s \in {"none", "preflight", "run"} : Ranks[s] < Ranks["done"]
  BY DEF Ranks, Steps, LastSteps

\* The steps that publish an event.
LEMMA PublishingStep ==
  ASSUME Inv, NEW d \in Deploys,
         \/ PassPreflight(d) \/ FailPreflight(d) \/ StartPull(d) \/ Announce(d)
         \/ \E status \in {"success", "failed"} : RunEnds(d, status)
  PROVE  Inv'
  <1>0. TypeOK /\ pub[d] \in Publisher /\ pub[d].verdict \in {"success", "failed"}
    BY DEF Inv, TypeOK, Publisher
  <1>1. CASE PassPreflight(d)
    <2>1. At(d, "preflight") /\ Publish(d, "preflight", "success", "pull")
      BY <1>1 DEF PassPreflight
    <2>2. ~pub[d].rescued /\ pub[d].event.step = "none"
      BY <2>1, AtStage DEF Stages, LastSteps
    <2>3. Sends(d, "preflight", "success", "pull", pub[d].verdict)
      BY <1>0, <2>1, PublishIsSendTo
    <2>4. UNCHANGED <<subs, chan, closed, conn, task, down, alive, missed>>
      BY <2>1 DEF Publish
    <2> QED
      BY <1>0, <2>2, <2>3, <2>4, NextSteps, PublishKeeps
  <1>2. CASE FailPreflight(d)
    <2>1. At(d, "preflight") /\ Publish(d, "preflight", "failed", "return")
      BY <1>2 DEF FailPreflight
    <2>2. ~pub[d].rescued /\ pub[d].event.step = "none"
      BY <2>1, AtStage DEF Stages, LastSteps
    <2>3. Sends(d, "preflight", "failed", "return", pub[d].verdict)
      BY <1>0, <2>1, PublishIsSendTo
    <2>4. UNCHANGED <<subs, chan, closed, conn, task, down, alive, missed>>
      BY <2>1 DEF Publish
    <2> QED
      BY <1>0, <2>2, <2>3, <2>4, NextSteps, PublishKeeps
  <1>3. CASE StartPull(d)
    <2>1. At(d, "pull") /\ Publish(d, "pull", "running", "run")
      BY <1>3 DEF StartPull
    <2>2. ~pub[d].rescued /\ pub[d].event.step = "preflight"
      BY <2>1, AtStage DEF Stages, LastSteps
    <2>3. Sends(d, "pull", "running", "run", pub[d].verdict)
      BY <1>0, <2>1, PublishIsSendTo
    <2>4. UNCHANGED <<subs, chan, closed, conn, task, down, alive, missed>>
      BY <2>1 DEF Publish
    <2> QED
      BY <1>0, <2>2, <2>3, <2>4, NextSteps, PublishKeeps
  <1>4. CASE Announce(d)
    <2>1. At(d, "announce") /\ Publish(d, "done", pub[d].verdict, "ended")
      BY <1>4 DEF Announce
    <2>2. /\ Stage(d) = "announce"
          /\ ~pub[d].rescued => pub[d].event.step \in {"none", "preflight", "run"}
      BY <2>1, AtStage DEF Stages, LastSteps
    <2>3. task[d] = IF pub[d].rescued THEN "failed" ELSE pub[d].verdict
      BY <2>2 DEF Inv, Recorded
    <2>4. \/ Ranks[pub[d].event.step] < Ranks["done"]
          \/ pub[d].rescued
      BY <2>2, NextSteps
    <2>5. Sends(d, "done", pub[d].verdict, "ended", pub[d].verdict)
      BY <1>0, <2>1, PublishIsSendTo
    <2>6. UNCHANGED <<subs, chan, closed, conn, task, down, alive, missed>>
      BY <2>1 DEF Publish
    <2> QED
      BY <1>0, <2>3, <2>4, <2>5, <2>6, NextSteps, PublishKeeps
  <1>5. ASSUME NEW status \in {"success", "failed"}, RunEnds(d, status)
        PROVE  Inv'
    <2>1. At(d, "run")
      BY <1>5 DEF RunEnds
    <2>2. ~pub[d].rescued /\ pub[d].event.step = "pull"
      BY <2>1, AtStage DEF Stages, LastSteps
    <2>3. Sends(d, "run", status, "return", status)
      BY <1>5 DEF RunEnds, Sends
    <2> QED
      BY <1>5, <2>2, <2>3, NextSteps, PublishKeeps DEF RunEnds
  <1> QED
    BY <1>1, <1>2, <1>3, <1>4, <1>5

-----------------------------------------------------------------------------
(***************************************************************************)
(* The other steps of a deployment.                                        *)
(***************************************************************************)

\* What starts, returns or panics sends to no channel.
LEMMA QuietStep ==
  ASSUME Inv, TypeOK', NEW d \in Deploys,
         UNCHANGED <<subs, chan, closed, conn>>,
         \A x \in Deploys : x # d => pub'[x] = pub[x] /\ task'[x] = task[x],
         pub'[d].event = pub[d].event, pub'[d].todo = {},
         pub[d].rescued => pub'[d].rescued,
         \/ pub'[d].app = pub[d].app /\ pub'[d].name = pub[d].name
         \/ pub[d].event.step = "none",
         \/ task'[d] = task[d] /\ pub'[d].rescued = pub[d].rescued
         \/ task'[d] = "failed" /\ pub'[d].rescued
         \/ pub[d].event.step # "done",
         Progress(d)', Recorded(d)'
  PROVE  Inv'
  <1>1. Ranks[pub[d].event.step] <= Ranks[pub'[d].event.step]
    BY EventTypes, RankOf DEF Inv
  <1>2. Pending(d)'
    BY DEF Pending
  <1> QED
    BY <1>1, <1>2, PublisherStep

LEMMA StartKeeps ==
  ASSUME Inv, NEW d \in Deploys, NEW plan \in Plans, Start(d, plan)
  PROVE  Inv'
  <1>0. TypeOK /\ pub[d] \in Publisher /\ "new" \in Stages
    BY DEF Inv, TypeOK, Stages
  <1>1. /\ At(d, "new")
        /\ pub' = [pub EXCEPT ![d] = [@ EXCEPT !.async = plan.async, !.app = plan.app,
                                               !.name = plan.name, !.pc = "preflight"]]
        /\ task' = [task EXCEPT ![d] = IF plan.async THEN "running" ELSE @]
        /\ UNCHANGED <<subs, chan, closed, conn, down, alive, missed>>
    BY DEF Start
  <1>2. ~pub[d].rescued /\ pub[d].event.step = "none" /\ pub[d].todo = {}
    BY <1>0, <1>1, AtStage DEF LastSteps
  <1>3. plan \in [async : BOOLEAN, app : Topics, name : Topics]
    BY StreamAssumption
  <1>4. [pub[d] EXCEPT !.async = plan.async, !.app = plan.app,
                       !.name = plan.name, !.pc = "preflight"] \in Publisher
    BY <1>0, <1>3 DEF Publisher, Stages
  <1>5. TypeOK'
    BY <1>0, <1>1, <1>4 DEF TypeOK
  <1>6. /\ pub'[d].event = pub[d].event /\ pub'[d].todo = {}
        /\ pub'[d].rescued = pub[d].rescued /\ pub'[d].pc = "preflight"
        /\ \A x \in Deploys : x # d => pub'[x] = pub[x] /\ task'[x] = task[x]
    BY <1>0, <1>1, <1>2 DEF TypeOK, Publisher
  <1>7. Progress(d)' /\ Recorded(d)'
    <2>1. pub[d].event.by = d
      BY DEF Inv, Progress
    <2> QED
      BY <1>2, <1>6, <2>1 DEF Progress, Recorded, Stage, LastSteps
  <1> QED
    BY <1>1, <1>2, <1>5, <1>6, <1>7, QuietStep

LEMMA NoServerKeeps ==
  ASSUME Inv, NEW d \in Deploys, NoServer(d)
  PROVE  Inv'
  <1>0. TypeOK /\ pub[d] \in Publisher /\ "preflight" \in Stages
    BY DEF Inv, TypeOK, Stages
  <1>1. /\ At(d, "preflight")
        /\ pub' = [pub EXCEPT ![d].pc = "return"]
        /\ UNCHANGED <<subs, chan, closed, conn, task, down, alive, missed>>
    BY DEF NoServer
  <1>2. ~pub[d].rescued /\ pub[d].event.step = "none" /\ pub[d].todo = {}
    BY <1>0, <1>1, AtStage DEF LastSteps
  <1>3. [pub[d] EXCEPT !.pc = "return"] \in Publisher
    BY <1>0 DEF Publisher, Stages
  <1>4. TypeOK'
    BY <1>0, <1>1, <1>3 DEF TypeOK
  <1>5. /\ pub'[d].event = pub[d].event /\ pub'[d].todo = {}
        /\ pub'[d].rescued = pub[d].rescued /\ pub'[d].pc = "return"
        /\ \A x \in Deploys : x # d => pub'[x] = pub[x] /\ task'[x] = task[x]
    BY <1>0, <1>1, <1>2 DEF TypeOK, Publisher
  <1>6. Progress(d)' /\ Recorded(d)'
    <2>1. pub[d].event.by = d
      BY DEF Inv, Progress
    <2> QED
      BY <1>2, <1>5, <2>1 DEF Progress, Recorded, Stage, LastSteps
  <1> QED
    BY <1>1, <1>2, <1>4, <1>5, <1>6, QuietStep

LEMMA ReturnKeeps ==
  ASSUME Inv, NEW d \in Deploys, Return(d)
  PROVE  Inv'
  <1>0. TypeOK /\ pub[d] \in Publisher /\ "return" \in Stages
    BY DEF Inv, TypeOK, Stages
  <1> DEFINE next == IF pub[d].async THEN "announce" ELSE "ended"
  <1>1. /\ At(d, "return")
        /\ pub' = [pub EXCEPT ![d].pc = next]
        /\ task' = [task EXCEPT ![d] = IF pub[d].async THEN pub[d].verdict ELSE @]
        /\ UNCHANGED <<subs, chan, closed, conn, down, alive, missed>>
    BY DEF Return
  <1>2. /\ ~pub[d].rescued /\ pub[d].event.step \in {"none", "preflight", "run"}
        /\ pub[d].todo = {}
    BY <1>0, <1>1, AtStage DEF LastSteps
  <1>3. [pub[d] EXCEPT !.pc = next] \in Publisher
    BY <1>0 DEF Publisher, Stages
  <1>4. TypeOK'
    BY <1>0, <1>1, <1>3 DEF TypeOK, Publisher
  <1>5. /\ pub'[d].event = pub[d].event /\ pub'[d].todo = {}
        /\ pub'[d].rescued = pub[d].rescued /\ pub'[d].pc = next
        /\ pub'[d].verdict = pub[d].verdict
        /\ \A x \in Deploys : x # d => pub'[x] = pub[x] /\ task'[x] = task[x]
        /\ pub[d].async => task'[d] = pub[d].verdict
    BY <1>0, <1>1, <1>2 DEF TypeOK, Publisher
  <1>6. Stage(d)' = next
    BY <1>5 DEF Stage
  <1>7. Progress(d)' /\ Recorded(d)'
    <2>1. pub[d].event.by = d
      BY DEF Inv, Progress
    <2>2. LastSteps["announce"] = {"none", "preflight", "run"}
          /\ {"none", "preflight", "run"} \subseteq LastSteps["ended"]
      BY DEF LastSteps, Ranks
    <2> QED
      BY <1>2, <1>5, <1>6, <2>1, <2>2 DEF Progress, Recorded
  <1> QED
    BY <1>1, <1>2, <1>4, <1>5, <1>7, QuietStep

\* A closed channel ends a synchronous call, and the first panic of DeployAsync;
\* the second one ends the process and leaves everything else alone.
LEMMA SendPanicsKeeps ==
  ASSUME Inv, NEW d \in Deploys, NEW c \in Clients, SendPanics(d, c)
  PROVE  Inv'
  <1>0. /\ TypeOK /\ pub[d] \in Publisher
        /\ pub[d].event.by = d /\ pub[d].event.step \in Steps
        /\ UNCHANGED <<subs, chan, closed, conn, down, missed>>
    BY EventTypes DEF Inv, TypeOK, Progress, SendPanics
  <1>1. CASE ~pub[d].async
    <2>1. /\ pub' = [pub EXCEPT ![d] = [@ EXCEPT !.pc = "ended", !.todo = {}]]
          /\ UNCHANGED <<task, alive>>
      BY <1>1 DEF SendPanics
    <2>2. [pub[d] EXCEPT !.pc = "ended", !.todo = {}] \in Publisher
      BY <1>0 DEF Publisher, Stages
    <2>3. TypeOK'
      BY <1>0, <2>1, <2>2 DEF TypeOK
    <2>4. /\ pub'[d].event = pub[d].event /\ pub'[d].todo = {}
          /\ pub'[d].rescued = pub[d].rescued /\ pub'[d].pc = "ended"
          /\ pub'[d].app = pub[d].app /\ pub'[d].name = pub[d].name
          /\ \A x \in Deploys : x # d => pub'[x] = pub[x] /\ task'[x] = task[x]
          /\ task'[d] = task[d]
      BY <1>0, <2>1 DEF TypeOK, Publisher
    <2>5. Progress(d)' /\ Recorded(d)'
      <3>1. Recorded(d)
        BY DEF Inv
      <3>2. LastSteps["ended"] = Steps
        BY DEF LastSteps, Steps
      <3> QED
        BY <1>0, <2>4, <3>1, <3>2 DEF Progress, Recorded, Stage
    <2> QED
      BY <1>0, <2>3, <2>4, <2>5, QuietStep
  <1>2. CASE pub[d].async /\ ~pub[d].rescued
    <2>1. Recover(d) /\ UNCHANGED alive
      BY <1>2 DEF SendPanics
    <2>2. [pub[d] EXCEPT !.pc = "announce", !.todo = {},
                         !.verdict = "failed", !.rescued = TRUE] \in Publisher
      BY <1>0 DEF Publisher, Stages
    <2>3. TypeOK'
      BY <1>0, <2>1, <2>2 DEF TypeOK, Recover
    <2>4. /\ pub'[d].event = pub[d].event /\ pub'[d].todo = {}
          /\ pub'[d].rescued /\ pub'[d].pc = "announce" /\ pub'[d].verdict = "failed"
          /\ pub'[d].app = pub[d].app /\ pub'[d].name = pub[d].name
          /\ \A x \in Deploys : x # d => pub'[x] = pub[x] /\ task'[x] = task[x]
          /\ task'[d] = "failed"
      BY <1>0, <2>1 DEF TypeOK, Publisher, Recover
    <2>5. Progress(d)' /\ Recorded(d)'
      BY <1>0, <2>4 DEF Progress, Recorded, Stage
    <2> QED
      BY <1>0, <2>3, <2>4, <2>5, QuietStep
  <1>3. CASE pub[d].async /\ pub[d].rescued
    <2>1. alive' = FALSE /\ UNCHANGED <<pub, task>>
      BY <1>3 DEF SendPanics
    <2>2. TypeOK'
      BY <1>0, <2>1 DEF TypeOK
    <2>3. Progress(d)' /\ Recorded(d)'
      BY <2>1 DEF Inv, Progress, Recorded, Stage
    <2>4. Pending(d)'
      BY <1>0, <2>1 DEF Inv, Pending, Told, TopicOf, Follows
    <2>5. Ranks[pub[d].event.step] <= Ranks[pub'[d].event.step]
      BY <1>0, <2>1, RankOf
    <2> QED
      BY <1>0, <2>1, <2>2, <2>3, <2>4, <2>5, PublisherStep
  <1> QED
    BY <1>1, <1>2, <1>3

-----------------------------------------------------------------------------
(***************************************************************************)
(* Steps of clients and of the bus that move no event.                     *)
(***************************************************************************)

\* The streams keep what is in their channels, what they have written and, once
\* they are open, their topic.
LEMMA SubscriberStep ==
  ASSUME Inv, TypeOK', RegisteredOpen',
         UNCHANGED <<chan, pub, task>>,
         \A c \in Clients : conn'[c].last = conn[c].last,
         \A c \in Clients : conn[c].state # "new" =>
           conn'[c].state # "new" /\ conn'[c].topic = conn[c].topic,
         \A c \in Clients : conn'[c].state = "new" =>
           ~closed'[c] /\ \A t \in Topics : c \notin subs'[t]
  PROVE  Inv'
  <1>0. /\ TypeOK
        /\ \A c \in Clients, d \in Deploys : Told(c, d)' = Told(c, d)
    BY DEF Inv, Told
  <1>1. \A d \in Deploys : Progress(d)' /\ Recorded(d)'
    BY DEF Inv, Progress, Recorded, Stage
  <1>2. ASSUME NEW d \in Deploys
        PROVE  Pending(d)'
    <2>1. pub[d].todo \subseteq Clients
      BY <1>0, EventTypes DEF Publisher
    <2>2. Pending(d)
      BY DEF Inv
    <2> QED
      BY <1>0, <2>1, <2>2 DEF Pending, TopicOf, Follows
  <1>3. ASSUME NEW c \in Clients
        PROVE  Behind(c)'
    <2>1. Behind(c)
      BY DEF Inv
    <2> QED
      BY <2>1 DEF Behind
  <1>4. StreamIsFaithful'
    <2>1. SUFFICES ASSUME NEW c \in Clients, NEW j \in DOMAIN chan[c]
                   PROVE  /\ TopicOf(chan[c][j].by, chan[c][j].step)' = conn'[c].topic
                          /\ Follows(conn[c].last[chan[c][j].by], chan[c][j])'
                          /\ \A i \in 1 .. j - 1 : Follows(chan[c][i], chan[c][j])'
      BY DEF StreamIsFaithful
    <2>2. conn[c].state # "new"
      BY DEF Inv, Behind
    <2>3. /\ TopicOf(chan[c][j].by, chan[c][j].step) = conn[c].topic
          /\ Follows(conn[c].last[chan[c][j].by], chan[c][j])
          /\ \A i \in 1 .. j - 1 : Follows(chan[c][i], chan[c][j])
      BY DEF Inv, StreamIsFaithful
    <2> QED
      BY <2>2, <2>3 DEF TopicOf, Follows
  <1>5. OutcomeIsRecorded'
    BY <1>0 DEF Inv, OutcomeIsRecorded
  <1> QED
    BY <1>1, <1>2, <1>3, <1>4, <1>5 DEF Inv

LEMMA ConnectKeeps ==
  ASSUME Inv, NEW c \in Clients, NEW t \in Topics, Connect(c, t)
  PROVE  Inv'
  <1>1. /\ TypeOK /\ conn[c] \in Connection /\ conn[c].state = "new"
        /\ subs' = [subs EXCEPT ![t] = @ \cup {c}]
        /\ conn' = [conn EXCEPT ![c] = [@ EXCEPT !.state = "streaming", !.topic = t]]
        /\ UNCHANGED <<chan, closed, pub, task, down, alive, missed>>
    BY DEF Inv, TypeOK, Connect, Is
  <1>2. ~closed[c] /\ \A u \in Topics : c \notin subs[u]
    BY <1>1 DEF Inv, Behind
  <1>3. /\ conn' \in [Clients -> Connection]
        /\ conn'[c].state = "streaming" /\ conn'[c].topic = t /\ conn'[c].last = conn[c].last
        /\ \A x \in Clients : x # c => conn'[x] = conn[x]
    BY <1>1 DEF TypeOK, Connection
  <1>4. /\ subs' \in [Topics -> SUBSET Clients]
        /\ \A u \in Topics, x \in Clients :
             x \in subs'[u] <=> (x \in subs[u] \/ (u = t /\ x = c))
    BY <1>1 DEF TypeOK
  <1>5. TypeOK'
    BY <1>1, <1>3, <1>4 DEF TypeOK
  <1>6. RegisteredOpen'
    BY <1>1, <1>2, <1>3, <1>4 DEF Inv, RegisteredOpen
  <1>7. \A x \in Clients : conn'[x].state = "new" =>
          ~closed'[x] /\ \A u \in Topics : x \notin subs'[u]
    BY <1>1, <1>3, <1>4 DEF Inv, Behind
  <1> QED
    BY <1>1, <1>3, <1>5, <1>6, <1>7, SubscriberStep

\* A connection that is gone, or whose handler returns.
LEMMA ConnectionKeeps ==
  ASSUME Inv, NEW c \in Clients, Leave(c) \/ TimesOut(c) \/ HandlerStops(c)
  PROVE  Inv'
  <1>1. /\ TypeOK /\ conn[c] \in Connection /\ conn[c].state = "streaming"
        /\ UNCHANGED <<subs, chan, closed, pub, task, down, alive, missed>>
    BY DEF Inv, TypeOK, Leave, TimesOut, HandlerStops, Is
  <1>2. \/ conn' = [conn EXCEPT ![c].gone = "left"]
        \/ conn' = [conn EXCEPT ![c].gone = "cut"]
        \/ conn' = [conn EXCEPT ![c].state = "ended"]
    BY DEF Leave, TimesOut, HandlerStops
  <1>3. /\ conn' \in [Clients -> Connection]
        /\ conn'[c].state # "new" /\ conn'[c].topic = conn[c].topic
        /\ conn'[c].last = conn[c].last
        /\ \A x \in Clients : x # c => conn'[x] = conn[x]
    <2>1. CASE conn' = [conn EXCEPT ![c].gone = "left"]
      BY <1>1, <2>1 DEF TypeOK, Connection
    <2>2. CASE conn' = [conn EXCEPT ![c].gone = "cut"]
      BY <1>1, <2>2 DEF TypeOK, Connection
    <2>3. CASE conn' = [conn EXCEPT ![c].state = "ended"]
      BY <1>1, <2>3 DEF TypeOK, Connection
    <2> QED
      BY <1>2, <2>1, <2>2, <2>3
  <1>4. TypeOK'
    BY <1>1, <1>3 DEF TypeOK
  <1>5. RegisteredOpen'
    BY <1>1, <1>3 DEF Inv, RegisteredOpen
  <1>6. \A x \in Clients : conn'[x].state = "new" =>
          ~closed'[x] /\ \A u \in Topics : x \notin subs'[u]
    BY <1>1, <1>3 DEF Inv, Behind
  <1> QED
    BY <1>1, <1>3, <1>4, <1>5, <1>6, SubscriberStep

LEMMA UnsubscribeKeeps ==
  ASSUME Inv, NEW c \in Clients, Unsubscribe(c)
  PROVE  Inv'
  <1>1. /\ TypeOK /\ conn[c].topic \in Topics /\ c \in subs[conn[c].topic]
        /\ subs' = [subs EXCEPT ![conn[c].topic] = @ \ {c}]
        /\ closed' = [closed EXCEPT ![c] = TRUE]
        /\ UNCHANGED <<chan, conn, pub, task, down, alive, missed>>
    BY DEF Inv, TypeOK, Connection, Unsubscribe
  <1>2. conn[c].state # "new"
    BY <1>1 DEF Inv, Behind
  <1>3. /\ subs' \in [Topics -> SUBSET Clients]
        /\ \A u \in Topics, x \in Clients :
             x \in subs'[u] <=> (x \in subs[u] /\ ~(u = conn[c].topic /\ x = c))
    BY <1>1 DEF TypeOK
  <1>4. TypeOK'
    BY <1>1, <1>3 DEF TypeOK
  <1>5. RegisteredOpen'
    BY <1>1, <1>3 DEF Inv, TypeOK, RegisteredOpen
  <1>6. \A x \in Clients : conn'[x].state = "new" =>
          ~closed'[x] /\ \A u \in Topics : x \notin subs'[u]
    BY <1>1, <1>2, <1>3 DEF Inv, TypeOK, Behind
  <1> QED
    BY <1>1, <1>4, <1>5, <1>6, SubscriberStep

LEMMA CloseBusKeeps ==
  ASSUME Inv, CloseBus
  PROVE  Inv'
  <1>1. TypeOK /\ UNCHANGED <<chan, conn, pub, task, alive, missed>>
    BY DEF Inv, CloseBus
  <1>2. TypeOK'
    BY <1>1 DEF TypeOK, CloseBus
  <1>3. RegisteredOpen'
    BY DEF RegisteredOpen, CloseBus
  <1>4. \A c \in Clients : conn'[c].state = "new" =>
          ~closed'[c] /\ \A t \in Topics : c \notin subs'[t]
    BY <1>1 DEF Inv, TypeOK, Behind, CloseBus
  <1> QED
    BY <1>1, <1>2, <1>3, <1>4, SubscriberStep

-----------------------------------------------------------------------------
(***************************************************************************)
(* Steps that move an event.                                               *)
(***************************************************************************)

\* The event of a Publish reaches one channel, or is dropped.
LEMMA SendKeeps ==
  ASSUME Inv, NEW d \in Deploys, NEW c \in Clients, Send(d, c)
  PROVE  Inv'
  <1> DEFINE event == pub[d].event
  <1>0. /\ TypeOK /\ pub[d] \in Publisher /\ event \in Event
        /\ pub[d].pc = "send" /\ c \in pub[d].todo
        /\ chan[c] \in Seq(Event) /\ event.by = d
        /\ UNCHANGED <<subs, closed, conn, task, down, alive>>
    BY EventTypes DEF Inv, Progress, Send, At
  <1>1. /\ \A x \in Clients : x # c => chan'[x] = chan[x]
        /\ \/ chan'[c] = chan[c]
           \/ chan'[c] = Append(chan[c], event) /\ Len(chan[c]) < Cap
        /\ chan' \in [Clients -> Seq(Event)]
        /\ missed' \in [Clients -> BOOLEAN]
    <2>1. CASE Len(chan[c]) < Cap
      <3>1. chan' = [chan EXCEPT ![c] = Append(@, event)] /\ UNCHANGED missed
        BY <2>1 DEF Send
      <3>2. Append(chan[c], event) \in Seq(Event)
        BY <1>0
      <3> QED
        BY <1>0, <2>1, <3>1, <3>2 DEF TypeOK
    <2>2. CASE ~(Len(chan[c]) < Cap)
      BY <1>0, <2>2 DEF TypeOK, Send
    <2> QED
      BY <2>1, <2>2
  <1>2. /\ pub' \in [Deploys -> Publisher]
        /\ \A x \in Deploys : x # d => pub'[x] = pub[x]
        /\ pub'[d].app = pub[d].app /\ pub'[d].name = pub[d].name
        /\ pub'[d].rescued = pub[d].rescued /\ pub'[d].verdict = pub[d].verdict
        /\ pub'[d].event = event /\ pub'[d].next = pub[d].next
        /\ pub'[d].todo = pub[d].todo \ {c}
        /\ pub'[d].pc = IF pub[d].todo = {c} THEN pub[d].next ELSE pub[d].pc
    <2> DEFINE stage == IF pub[d].todo = {c} THEN pub[d].next ELSE "send"
               q == [pub[d] EXCEPT !.todo = @ \ {c}, !.pc = stage]
    <2>1. pub' = [pub EXCEPT ![d] = q]
      BY <1>0 DEF Send, Past, TypeOK
    <2>4. stage \in Stages \cup {"send"}
      BY <1>0 DEF Publisher
    <2> HIDE DEF stage
    <2>2. /\ q \in Publisher
          /\ q.app = pub[d].app /\ q.name = pub[d].name
          /\ q.rescued = pub[d].rescued /\ q.verdict = pub[d].verdict
          /\ q.event = event /\ q.next = pub[d].next
          /\ q.todo = pub[d].todo \ {c}
          /\ q.pc = stage
      BY <1>0, <2>4 DEF Publisher
    <2> HIDE DEF q, event
    <2>3. /\ pub'[d] = q
          /\ \A x \in Deploys : x # d => pub'[x] = pub[x]
          /\ pub' \in [Deploys -> Publisher]
      BY <1>0, <2>1, <2>2 DEF TypeOK
    <2> QED
      BY <1>0, <2>2, <2>3 DEF stage
  <1> HIDE DEF event
  <1>3. \A x \in Deploys : pub'[x].event = pub[x].event /\ pub'[x].rescued = pub[x].rescued
                             /\ pub'[x].app = pub[x].app /\ pub'[x].name = pub[x].name
                             /\ pub'[x].verdict = pub[x].verdict
    BY <1>2 DEF event
  <1>4. TypeOK'
    <2>1. ASSUME NEW x \in Clients
          PROVE  Len(chan'[x]) <= Cap
      <3>1. Len(chan[x]) <= Cap
        BY <1>0 DEF TypeOK
      <3> QED
        BY <1>0, <1>1, <3>1
    <2> QED
      BY <1>0, <1>1, <1>2, <2>1 DEF TypeOK
  <1>5. RegisteredOpen'
    BY <1>0 DEF Inv, RegisteredOpen
  <1>6. \A x \in Deploys : Stage(x)' = Stage(x)
    <2>1. "send" \notin Stages /\ pub[d].next \in Stages
      BY <1>0 DEF Publisher, Stages
    <2> QED
      BY <1>0, <1>2, <2>1 DEF Stage
  <1>7. \A x \in Deploys : Progress(x)' /\ Recorded(x)'
    <2>1. \A x \in Deploys : pub'[x].pc # "send" => pub'[x].todo = {}
      BY <1>0, <1>2 DEF Inv, Progress
    <2>2. \A x \in Deploys : task'[x] = task[x]
      BY <1>0
    <2> QED
      BY <1>3, <1>6, <2>1, <2>2 DEF Inv, Progress, Recorded
  <1>a. \A e, f \in Event : Follows(e, f)' <=> Follows(e, f)
    <2>1. \A e \in Event : pub'[e.by].rescued = pub[e.by].rescued
      BY <1>0, <1>3, EventTypes
    <2> QED
      BY <2>1 DEF Follows
  <1>b. \A x \in Clients : \A i \in DOMAIN chan'[x] : chan'[x][i] \in Event
    BY <1>1
  \* The event is news to c.
  <1>8. /\ conn[c].state # "new" /\ conn[c].topic = TopicOf(d, event.step)
        /\ \A e \in Told(c, d) : Follows(e, event)
    BY <1>0 DEF Inv, Pending, event
  <1>9. event.step # "none"
    <2>1. conn[c].last[d] \in Told(c, d) /\ conn[c].last[d].by = d
      BY DEF Told, Inv, Behind
    <2>2. conn[c].last[d].step \in Steps
      BY <1>0, EventTypes
    <2> QED
      BY <1>0, <1>8, <2>1, <2>2, RankOf DEF Follows
  <1>10. \A x \in Clients : \A i \in DOMAIN chan'[x] :
           \/ i \in DOMAIN chan[x] /\ chan'[x][i] = chan[x][i]
           \/ x = c /\ i = Len(chan[c]) + 1 /\ chan'[x][i] = event
    <2>1. CASE chan'[c] = Append(chan[c], event)
      <3>1. \A i \in DOMAIN chan'[c] :
              \/ i \in DOMAIN chan[c] /\ chan'[c][i] = chan[c][i]
              \/ i = Len(chan[c]) + 1 /\ chan'[c][i] = event
        BY <1>0, <2>1
      <3> QED
        BY <1>1, <3>1
    <2>2. CASE chan'[c] = chan[c]
      BY <1>1, <2>2
    <2> QED
      BY <1>1, <2>1, <2>2
  <1>11. \A x \in Clients, y \in Deploys : \A e \in Told(x, y)' :
           e \in Told(x, y) \/ (x = c /\ e = event)
    BY <1>0, <1>10 DEF Told
  <1>12. ASSUME NEW x \in Deploys
         PROVE  Pending(x)'
    <2>1. SUFFICES ASSUME NEW y \in pub'[x].todo
                   PROVE  /\ conn[y].state # "new"
                          /\ conn[y].topic = TopicOf(x, pub[x].event.step)
                          /\ \A e \in Told(y, x)' : Follows(e, pub[x].event)
      <3>1. pub[x].event \in Event /\ \A y \in pub'[x].todo : y \in Clients
        BY <1>0, <1>2, EventTypes DEF Publisher
      <3>2. \A y \in pub'[x].todo : \A e \in Told(y, x)' : e \in Event
        BY <1>0, <1>b, <3>1, EventTypes DEF Told
      <3>3. TopicOf(x, pub[x].event.step)' = TopicOf(x, pub[x].event.step)
        BY <1>3 DEF TopicOf
      <3> QED
        BY <1>0, <1>3, <1>a, <3>1, <3>2, <3>3 DEF Pending
    <2>2. y \in pub[x].todo /\ y \in Clients /\ Pending(x) /\ pub[x].event.by = x
      BY <1>2, EventTypes DEF Inv, Publisher, Progress
    <2>3. CASE x = d
      BY <1>2, <1>11, <2>2, <2>3 DEF Pending
    <2>4. CASE x # d
      BY <1>0, <1>11, <2>2, <2>4 DEF Pending, Follows
    <2> QED
      BY <2>3, <2>4
  <1>13. ASSUME NEW x \in Clients
         PROVE  Behind(x)'
    <2>1. Behind(x)
      BY DEF Inv
    <2>2. conn[x].state = "new" => chan'[x] = <<>>
      BY <1>1, <1>8, <2>1 DEF Behind
    <2>3. Ranks[event.step] <= Ranks[pub[event.by].event.step]
      <3>1. event.step \in Steps /\ event = pub[d].event
        BY <1>0, EventTypes DEF event
      <3> QED
        BY <1>0, <3>1, RankOf
    <2>4. \A i \in DOMAIN chan'[x] :
            /\ chan'[x][i].step # "none"
            /\ Ranks[chan'[x][i].step] <= Ranks[pub[chan'[x][i].by].event.step]
      BY <1>9, <1>10, <2>1, <2>3 DEF Behind
    <2>5. \A i \in DOMAIN chan'[x] : chan'[x][i].by \in Deploys
      BY <1>b DEF Event
    <2> QED
      BY <1>0, <1>3, <2>1, <2>2, <2>4, <2>5 DEF Behind
  <1>14. StreamIsFaithful'
    <2>1. SUFFICES ASSUME NEW x \in Clients, NEW j \in DOMAIN chan'[x]
                   PROVE  /\ TopicOf(chan[x][j].by, chan[x][j].step)' = conn[x].topic
                          /\ Follows(conn[x].last[chan[x][j].by], chan[x][j])'
                          /\ \A i \in 1 .. j - 1 : Follows(chan[x][i], chan[x][j])'
      BY <1>0 DEF StreamIsFaithful
    <2> DEFINE f == chan'[x][j]
    <2>2. /\ f \in Event /\ f.by \in Deploys /\ conn[x].last[f.by] \in Event
          /\ chan[x] \in Seq(Event) /\ chan'[x] \in Seq(Event)
      BY <1>0, <1>1, <1>b, EventTypes
    <2>3. \A i \in 1 .. j - 1 : i \in DOMAIN chan[x] /\ chan'[x][i] = chan[x][i]
                                /\ chan[x][i] \in Event
      <3>1. \A i \in 1 .. j - 1 : i \in DOMAIN chan'[x] /\ i < j
        BY <2>2
      <3>2. j \in 1 .. Len(chan[x]) \/ (x = c /\ j = Len(chan[c]) + 1)
        BY <1>10, <2>2
      <3>3. \A i \in 1 .. j - 1 : i # Len(chan[c]) + 1 \/ x # c
        BY <2>2, <3>1, <3>2
      <3> QED
        BY <1>10, <2>2, <3>1, <3>3
    <2>4. /\ TopicOf(f.by, f.step) = conn[x].topic
          /\ Follows(conn[x].last[f.by], f)
          /\ \A i \in 1 .. j - 1 : Follows(chan[x][i], f)
      <3>1. CASE j \in DOMAIN chan[x] /\ f = chan[x][j]
        BY <2>2, <3>1 DEF Inv, StreamIsFaithful
      <3>2. CASE x = c /\ f = event
        <4>1. conn[c].last[d] \in Told(c, d) /\ \A i \in 1 .. j - 1 : chan[c][i] \in Told(c, d)
          BY <2>3, <3>2 DEF Told
        <4> QED
          BY <1>0, <1>8, <3>2, <4>1
      <3> QED
        BY <1>10, <3>1, <3>2
    <2>5. /\ Follows(conn[x].last[f.by], f)
          /\ \A i \in 1 .. j - 1 : Follows(chan'[x][i], f)
      BY <2>3, <2>4
    <2> QED
      BY <1>0, <1>3, <2>2, <2>3, <2>4, <2>5 DEF TopicOf, Follows
  <1>15. OutcomeIsRecorded'
    <2>1. SUFFICES ASSUME NEW x \in Clients, NEW y \in Deploys, NEW e \in Told(x, y)',
                          e.step = "done"
                   PROVE  task'[e.by] = IF pub'[e.by].rescued THEN "failed" ELSE e.status
      BY DEF OutcomeIsRecorded
    <2>2. CASE e \in Told(x, y)
      <3>1. e.by \in Deploys
        BY <1>0, <2>2, EventTypes
      <3> QED
        BY <1>0, <1>3, <2>1, <2>2, <3>1 DEF Inv, OutcomeIsRecorded
    <2>3. CASE e = event
      BY <1>0, <1>3, <2>1, <2>3 DEF Inv, Recorded, event
    <2> QED
      BY <1>11, <2>2, <2>3
  <1> QED
    BY <1>4, <1>5, <1>7, <1>12, <1>13, <1>14, <1>15 DEF Inv

\* The handler takes the first event of its channel and writes it.
LEMMA ReceiveKeeps ==
  ASSUME Inv, NEW c \in Clients, Receive(c)
  PROVE  Inv'
  <1> DEFINE event == Head(chan[c])
             last == [conn[c].last EXCEPT ![event.by] = event]
  <1>0. /\ TypeOK /\ conn[c] \in Connection /\ conn[c].state = "streaming"
        /\ chan[c] \in Seq(Event) /\ chan[c] # <<>>
        /\ UNCHANGED <<subs, closed, pub, task, down, alive, missed>>
    BY EventTypes DEF Inv, Receive, Is
  <1>1. /\ event \in Event /\ event.by \in Deploys /\ event = chan[c][1]
        /\ 1 \in DOMAIN chan[c]
    <2>1. Head(chan[c]) \in Event /\ Head(chan[c]) = chan[c][1] /\ 1 \in DOMAIN chan[c]
      BY <1>0
    <2> QED
      BY <2>1 DEF Event
  <1>2. /\ chan' \in [Clients -> Seq(Event)]
        /\ \A x \in Clients : x # c => chan'[x] = chan[x]
        /\ chan'[c] = Tail(chan[c])
    BY <1>0 DEF TypeOK, Receive
  <1>3. /\ Len(chan'[c]) = Len(chan[c]) - 1
        /\ \A i \in DOMAIN chan'[c] :
             i + 1 \in DOMAIN chan[c] /\ chan'[c][i] = chan[c][i + 1] /\ i \in Nat
    BY <1>0, <1>2
  <1>4. last \in [Deploys -> Event]
    BY <1>0, <1>1 DEF Connection
  <1>5. /\ conn' \in [Clients -> Connection]
        /\ \A x \in Clients : x # c => conn'[x] = conn[x]
        /\ conn'[c].last = last /\ conn'[c].topic = conn[c].topic
        /\ conn'[c].state # "new"
    <2> DEFINE q == [conn[c] EXCEPT !.last = last,
                                    !.state = IF event.step = "done" THEN "ended" ELSE "streaming"]
    <2>1. conn' = [conn EXCEPT ![c] = q]
      BY <1>0 DEF Receive, TypeOK
    <2>2. /\ q \in Connection
          /\ q.last = last /\ q.topic = conn[c].topic /\ q.state # "new"
      BY <1>0, <1>4 DEF Connection
    <2> HIDE DEF q, last
    <2> QED
      BY <1>0, <2>1, <2>2 DEF TypeOK
  <1>6. \A d \in Deploys : last[d] = IF d = event.by THEN event ELSE conn[c].last[d]
    BY <1>0, <1>1 DEF Connection
  <1> HIDE DEF event, last
  <1>7. TypeOK'
    <2>1. Len(chan'[c]) <= Cap
      <3>1. Len(chan[c]) <= Cap /\ Len(chan[c]) \in Nat
        BY <1>0 DEF TypeOK
      <3> QED
        BY <1>3, <3>1
    <2> QED
      BY <1>0, <1>2, <1>5, <2>1 DEF TypeOK
  <1>8. RegisteredOpen'
    BY <1>0, <1>5 DEF Inv, RegisteredOpen
  <1>9. \A x \in Clients, d \in Deploys : \A e \in Told(x, d)' : e \in Told(x, d)
    <2>1. ASSUME NEW d \in Deploys, NEW e \in Told(c, d)'
          PROVE  e \in Told(c, d)
      <3>1. CASE e = conn'[c].last[d]
        BY <1>1, <1>5, <1>6, <3>1 DEF Told
      <3>2. CASE \E i \in DOMAIN chan'[c] : e = chan'[c][i]
        BY <1>3, <3>2 DEF Told
      <3> QED
        BY <2>1, <3>1, <3>2 DEF Told
    <2>2. \A x \in Clients, d \in Deploys : x # c => Told(x, d)' = Told(x, d)
      BY <1>2, <1>5 DEF Told
    <2> QED
      BY <2>1, <2>2
  <1>10. \A d \in Deploys : Progress(d)' /\ Recorded(d)'
    BY <1>0 DEF Inv, Progress, Recorded, Stage
  <1>11. ASSUME NEW d \in Deploys
         PROVE  Pending(d)'
    <2>1. pub[d].todo \subseteq Clients /\ Pending(d)
      BY <1>0, EventTypes DEF Inv, Publisher
    <2> QED
      BY <1>0, <1>5, <1>9, <2>1 DEF Pending, TopicOf, Follows
  <1>12. ASSUME NEW x \in Clients
         PROVE  Behind(x)'
    <2>1. Behind(x)
      BY DEF Inv
    <2>2. CASE x # c
      BY <1>0, <1>2, <1>5, <2>1, <2>2 DEF Behind
    <2>3. CASE x = c
      <3>1. \A d \in Deploys : /\ last[d].by = d
                               /\ Ranks[last[d].step] <= Ranks[pub[d].event.step]
        BY <1>1, <1>6, <2>1, <2>3 DEF Behind
      <3>2. \A i \in DOMAIN chan'[c] :
              /\ chan'[c][i].step # "none"
              /\ Ranks[chan'[c][i].step] <= Ranks[pub[chan'[c][i].by].event.step]
        BY <1>3, <2>1, <2>3 DEF Behind
      <3> QED
        BY <1>0, <1>5, <2>3, <3>1, <3>2 DEF Behind
    <2> QED
      BY <2>2, <2>3
  <1>13. StreamIsFaithful'
    <2>1. SUFFICES ASSUME NEW x \in Clients, NEW j \in DOMAIN chan'[x]
                   PROVE  /\ TopicOf(chan'[x][j].by, chan'[x][j].step) = conn'[x].topic
                          /\ Follows(conn'[x].last[chan'[x][j].by], chan'[x][j])
                          /\ \A i \in 1 .. j - 1 : Follows(chan'[x][i], chan'[x][j])
      BY <1>0 DEF StreamIsFaithful, TopicOf, Follows
    <2>2. CASE x # c
      BY <1>2, <1>5, <2>2 DEF Inv, StreamIsFaithful
    <2>3. CASE x = c
      <3> DEFINE f == chan[c][j + 1]
      <3>1. /\ j \in Nat /\ j + 1 \in DOMAIN chan[c] /\ chan'[c][j] = f
            /\ \A i \in 1 .. j - 1 : i + 1 \in 1 .. j /\ chan'[c][i] = chan[c][i + 1]
            /\ 1 \in 1 .. j
        BY <1>0, <1>2, <1>3, <2>3
      <3>2. /\ TopicOf(f.by, f.step) = conn[c].topic
            /\ Follows(conn[c].last[f.by], f)
            /\ \A i \in 1 .. (j + 1) - 1 : Follows(chan[c][i], f)
        BY <3>1 DEF Inv, StreamIsFaithful
      <3>3. f \in Event /\ f.by \in Deploys
        BY <3>1, EventTypes DEF Inv
      <3>4. (j + 1) - 1 = j
        BY <3>1
      <3> HIDE DEF f
      <3>5. Follows(last[f.by], f)
        BY <1>1, <1>6, <3>1, <3>2, <3>3, <3>4
      <3> QED
        BY <1>5, <2>3, <3>1, <3>2, <3>4, <3>5
    <2> QED
      BY <2>2, <2>3
  <1>14. OutcomeIsRecorded'
    BY <1>0, <1>9 DEF Inv, OutcomeIsRecorded
  <1> QED
    BY <1>7, <1>8, <1>10, <1>11, <1>12, <1>13, <1>14 DEF Inv

-----------------------------------------------------------------------------
(***************************************************************************)
(* The theorems.                                                           *)
(***************************************************************************)

\* A bus without subscribers satisfies the invariant.
LEMMA InitInv == Init => Inv
  <1> SUFFICES ASSUME Init PROVE Inv
    OBVIOUS
  <1>1. PICK t \in Topics : /\ conn = [c \in Clients |-> NotConnected(t)]
                            /\ pub = [d \in Deploys |-> NotStarted(d, t)]
    BY DEF Init
  <1>2. \A d \in Deploys : NoEvent(d) \in Event
    BY RankOf DEF NoEvent, Event, Steps
  <1>3. NotConnected(t) \in Connection
    BY <1>2 DEF NotConnected, Connection
  <1>4. \A d \in Deploys : NotStarted(d, t) \in Publisher
    BY <1>2 DEF NotStarted, Publisher, Stages
  <1>11. /\ subs = [u \in Topics |-> {}] /\ chan = [c \in Clients |-> <<>>]
        /\ closed = [c \in Clients |-> FALSE] /\ missed = [c \in Clients |-> FALSE]
        /\ task = [d \in Deploys |-> "none"] /\ down = FALSE /\ alive = TRUE
    BY DEF Init
  <1>5. /\ \A c \in Clients : conn[c] = NotConnected(t) /\ ~closed[c]
        /\ \A c \in Clients : chan[c] = <<>> /\ Len(chan[c]) = 0 /\ DOMAIN chan[c] = {}
        /\ \A d \in Deploys : pub[d] = NotStarted(d, t) /\ task[d] = "none"
        /\ \A u \in Topics : subs[u] = {}
    BY <1>1, <1>11
  <1>6. TypeOK
    <2>1. conn \in [Clients -> Connection] /\ pub \in [Deploys -> Publisher]
      BY <1>1, <1>3, <1>4
    <2>2. chan \in [Clients -> Seq(Event)] /\ \A c \in Clients : Len(chan[c]) <= Cap
      BY <1>11, StreamAssumption
    <2>3. /\ subs \in [Topics -> SUBSET Clients]
          /\ closed \in [Clients -> BOOLEAN] /\ missed \in [Clients -> BOOLEAN]
          /\ task \in [Deploys -> {"none", "running", "success", "failed"}]
          /\ down \in BOOLEAN /\ alive \in BOOLEAN
      BY <1>11
    <2> QED
      BY <2>1, <2>2, <2>3 DEF TypeOK
  <1>7. ASSUME NEW d \in Deploys
        PROVE  Progress(d) /\ Recorded(d) /\ Pending(d)
    <2>1. pub[d] = NotStarted(d, t)
      BY <1>1
    <2>2. pub[d].event = NoEvent(d)
      BY <2>1 DEF NotStarted
    <2>3. /\ pub[d].pc = "new" /\ ~pub[d].rescued /\ pub[d].todo = {}
          /\ pub[d].event.by = d /\ pub[d].event.step = "none"
      BY <2>1, <2>2 DEF NotStarted, NoEvent
    <2>4. "none" \in LastSteps["new"]
      BY DEF LastSteps
    <2> QED
      BY <2>3, <2>4 DEF Progress, Recorded, Pending, Stage
  <1>8. ASSUME NEW c \in Clients
        PROVE  Behind(c)
    <2>1. conn[c].last = [d \in Deploys |-> NoEvent(d)]
      BY <1>1 DEF NotConnected
    <2>2. ASSUME NEW d \in Deploys
          PROVE  /\ conn[c].last[d].by = d
                 /\ Ranks[conn[c].last[d].step] <= Ranks[pub[d].event.step]
      <3>1. conn[c].last[d] = NoEvent(d)
        BY <2>1
      <3>2. pub[d].event = NoEvent(d)
        BY <1>1 DEF NotStarted
      <3>3. NoEvent(d).by = d /\ NoEvent(d).step = "none"
        BY DEF NoEvent
      <3> QED
        BY <3>1, <3>2, <3>3, RankOf
    <2> QED
      BY <1>5, <2>2 DEF Behind
  <1>9. RegisteredOpen /\ StreamIsFaithful
    BY <1>5 DEF RegisteredOpen, StreamIsFaithful
  <1>10. OutcomeIsRecorded
    <2>1. ASSUME NEW c \in Clients, NEW d \in Deploys, NEW e \in Told(c, d)
          PROVE  e = NoEvent(d)
      <3>1. conn[c].last[d] = NoEvent(d)
        BY <1>1 DEF NotConnected
      <3> QED
        BY <1>5, <3>1 DEF Told
    <2> QED
      BY <2>1 DEF OutcomeIsRecorded, NoEvent
  <1> QED
    BY <1>6, <1>7, <1>8, <1>9, <1>10 DEF Inv

\* Every step keeps the invariant.
LEMMA NextInv == Inv /\ [Next]_vars => Inv'
  <1> SUFFICES ASSUME Inv, [Next]_vars PROVE Inv'
    OBVIOUS
  <1>1. CASE Next
    <2>1. CASE \E d \in Deploys : Work(d)
      <3>1. PICK d \in Deploys : Work(d)
        BY <2>1
      <3> QED
        BY <3>1, PublishingStep, NoServerKeeps, ReturnKeeps, SendKeeps, SendPanicsKeeps
        DEF Work
    <2>2. CASE \E d \in Deploys, plan \in Plans : Start(d, plan)
      BY <2>2, StartKeeps
    <2>3. CASE \E c \in Clients :
                 Handle(c) \/ Leave(c) \/ TimesOut(c) \/ Unsubscribe(c)
      BY <2>3, ReceiveKeeps, ConnectionKeeps, UnsubscribeKeeps DEF Handle
    <2>4. CASE \E c \in Clients, t \in Topics : Connect(c, t)
      BY <2>4, ConnectKeeps
    <2>5. CASE CloseBus
      BY <2>5, CloseBusKeeps
    <2> QED
      BY <1>1, <2>1, <2>2, <2>3, <2>4, <2>5 DEF Next
  <1>2. CASE UNCHANGED vars
    <2>1. TypeOK' /\ RegisteredOpen'
      BY <1>2 DEF Inv, TypeOK, RegisteredOpen, vars
    <2>2. \A c \in Clients : conn'[c].state = "new" =>
            ~closed'[c] /\ \A t \in Topics : c \notin subs'[t]
      BY <1>2 DEF Inv, Behind, vars
    <2> QED
      BY <1>2, <2>1, <2>2, SubscriberStep DEF vars
  <1> QED
    BY <1>1, <1>2

\* The inductive invariant of the bus, its subscribers and its publishers.
THEOREM StreamInvariance == Spec => []Inv
  <1> QED
    BY InitInv, NextInv, PTL DEF Spec

\* Every variable has its type, and no channel holds more than its capacity
\* (NewEventBus, Publish).
THEOREM StreamTypeCorrect == Spec => []TypeOK
  <1>1. Inv => TypeOK
    BY DEF Inv
  <1> QED
    BY <1>1, StreamInvariance, PTL

\* The bus holds no closed channel, so that no channel is closed twice
\* (unsubscribe and Close of InMemoryEventBus).
THEOREM RegisteredOpenCorrect == Spec => []RegisteredOpen
  <1>1. Inv => RegisteredOpen
    BY DEF Inv
  <1> QED
    BY <1>1, StreamInvariance, PTL

\* Clients get the events of their topic, of each deployment in order and once
\* (Publish, Subscribe and DeploySSE).
THEOREM StreamIsFaithfulCorrect == Spec => []StreamIsFaithful
  <1>1. Inv => StreamIsFaithful
    BY DEF Inv
  <1> QED
    BY <1>1, StreamInvariance, PTL

\* The outcome that a client is told is the one of the task it polls
\* (DeployAsync and its deferred function).
THEOREM OutcomeIsRecordedCorrect == Spec => []OutcomeIsRecorded
  <1>1. Inv => OutcomeIsRecorded
    BY DEF Inv
  <1> QED
    BY <1>1, StreamInvariance, PTL

=============================================================================
