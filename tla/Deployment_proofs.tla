------------------------- MODULE Deployment_proofs -------------------------
(***************************************************************************)
(* Proofs about Deployment, for every set of requests, hosts, names and    *)
(* images and any number of crashes.                                       *)
(***************************************************************************)
EXTENDS Deployment, TLAPS

USE DeploymentAssumption

-----------------------------------------------------------------------------
(***************************************************************************)
(* Type correctness.                                                       *)
(***************************************************************************)

\* The first label of a request is a label (FirstLabel covers every kind).
LEMMA FirstLabelType == \A k \in Kinds : FirstLabel[k] \in Labels
  BY DEF FirstLabel, Kinds, Labels

\* Init establishes the types.
LEMMA TypeInit == Init => TypeOK
  BY DEF Init, TypeOK, Container, Absent, Hosts, Request, NotMade, Row, TaskStatus,
         Kinds, Labels, Verdicts

\* What Goto and Conclude leave in req has the type of requests, for the labels
\* that the actions pass to them.
LEMMA GotoType ==
  ASSUME TypeOK, NEW r \in Requests, NEW l \in Labels, Goto(r, l)
  PROVE  req' \in [Requests -> Request]
  <1>1. req \in [Requests -> Request] /\ req[r] \in Request
    BY DEF TypeOK
  <1>2. [req[r] EXCEPT !.pc = l] \in Request
    BY <1>1 DEF Request
  <1>3. req' = [req EXCEPT ![r] = [req[r] EXCEPT !.pc = l]]
    BY DEF Goto
  <1> QED
    BY <1>1, <1>2, <1>3

LEMMA ConcludeType ==
  ASSUME TypeOK, NEW r \in Requests, NEW v \in Verdicts, Conclude(r, v)
  PROVE  req' \in [Requests -> Request]
  <1>1. AfterDeployer(r) \in Labels
    BY DEF AfterDeployer, Labels
  <1>2. req[r] \in Request
    BY DEF TypeOK
  <1>3. [req[r] EXCEPT !.pc = AfterDeployer(r), !.verdict = v] \in Request
    BY <1>1, <1>2 DEF Request
  <1> QED
    BY <1>3 DEF TypeOK, Conclude

\* A step of a request preserves the types.
LEMMA TypeArrive ==
  ASSUME TypeOK, NEW r \in Requests, Arrive(r)
  PROVE  TypeOK'
  <1>1. PICK kind \in Calls, n \in Names, img \in Images \cup {NoImage}, h \in Hosts :
          Begin(r, kind, n, img, h)
    BY DEF Arrive
  <1>2. req' \in [Requests -> Request]
    BY <1>1, FirstLabelType DEF Begin, TypeOK, Request, Verdicts
  <1>3. task' \in [Requests -> TaskStatus]
    BY <1>1 DEF Begin, TypeOK, TaskStatus
  <1>4. clean' \in [Names -> BOOLEAN]
    BY <1>1, Zenon DEF Begin, TypeOK
  <1> QED
    BY <1>1, <1>2, <1>3, <1>4 DEF Begin, TypeOK

\* The three ways in which a step changes a container keep the types: it is
\* replaced by another one, it disappears, it stops.
LEMMA ContainerType ==
  ASSUME TypeOK, NEW h \in Hosts, NEW n \in Names
  PROVE  /\ \A c \in Container : [ctr EXCEPT ![h][n] = c] \in [Hosts -> [Names -> Container]]
         /\ [ctr EXCEPT ![h][n] = Absent] \in [Hosts -> [Names -> Container]]
         /\ [ctr EXCEPT ![h][n].up = FALSE] \in [Hosts -> [Names -> Container]]
  <1>1. ctr[h] \in [Names -> Container] /\ ctr[h][n] \in Container
    BY DEF TypeOK
  <1>2. \A d \in Container : [ctr EXCEPT ![h][n] = d] \in [Hosts -> [Names -> Container]]
    BY <1>1 DEF TypeOK
  <1>3. Absent \in Container
    BY DEF Absent, Container
  <1>4. [ctr[h][n] EXCEPT !.up = FALSE] \in Container
    BY <1>1 DEF Container
  <1>5. [ctr EXCEPT ![h][n].up = FALSE] \in [Hosts -> [Names -> Container]]
    BY <1>1, <1>4 DEF TypeOK
  <1> QED
    BY <1>2, <1>3, <1>5

\* Appending a row keeps the type of the history.
LEMMA HistoryType ==
  ASSUME TypeOK, NEW n \in Names, NEW row \in Row
  PROVE  [history EXCEPT ![n] = Append(@, row)] \in [Names -> Seq(Row)]
  BY DEF TypeOK

\* The type of the requests after a step of one of them.
LEMMA TypeReqWork ==
  ASSUME TypeOK, NEW r \in Requests, Work(r)
  PROVE  req' \in [Requests -> Request]
  <1>0. req[r] \in Request
    BY DEF TypeOK
  <1>1. ASSUME NEW q \in Request, req' = [req EXCEPT ![r] = q]
        PROVE  req' \in [Requests -> Request]
    BY <1>1 DEF TypeOK
  <1>2. \A l \in Labels : Goto(r, l) => req' \in [Requests -> Request]
    BY GotoType
  <1>3. \A v \in Verdicts : Conclude(r, v) => req' \in [Requests -> Request]
    BY ConcludeType
  <1> USE DEF Labels, Verdicts
  <1>4. CASE Preflight(r)
    <2>1. [req[r] EXCEPT !.pc = "return", !.verdict = "unreachable"] \in Request
      BY <1>0 DEF Request
    <2> QED
      BY <1>1, <1>2, <1>3, <1>4, <2>1 DEF Preflight
  <1>5. CASE RunSucceeds(r)
    <2>1. AfterDeployer(r) \in Labels
      BY DEF AfterDeployer
    <2>2. [req[r] EXCEPT !.pc = AfterDeployer(r), !.verdict = "success", !.ran = TRUE]
            \in Request
      BY <1>0, <2>1 DEF Request
    <2> QED
      BY <1>1, <1>5, <2>2 DEF RunSucceeds
  <1>6. CASE Resolve(r)
    <2>1. \A i \in SuccessRows(req[r].name) :
            [req[r] EXCEPT !.pc = "inspect", !.image = history[req[r].name][i].image]
              \in Request
      <3>1. SUFFICES ASSUME NEW i \in SuccessRows(req[r].name)
                     PROVE  history[req[r].name][i].image \in Images \cup {NoImage}
        BY <1>0 DEF Request
      <3>2. history[req[r].name] \in Seq(Row)
        BY <1>0 DEF TypeOK, Request
      <3>3. history[req[r].name][i] \in Row
        BY <3>2 DEF SuccessRows
      <3> QED
        BY <3>3 DEF Row
    <2> QED
      BY <1>1, <1>2, <1>6, <2>1 DEF Resolve
  <1>7. CASE Inspect(r)
    <2>1. ctr[Local][req[r].name].image \in Images \cup {NoImage}
      BY <1>0 DEF TypeOK, Request, Hosts, Container
    <2>2. \A seen \in {ctr[Local][req[r].name].image, NoImage} :
            [req[r] EXCEPT !.pc = "pullTarget", !.from = seen] \in Request
      BY <1>0, <2>1 DEF Request
    <2> QED
      BY <1>1, <1>7, <2>2 DEF Inspect
  <1>8. CASE Lookup(r)
    <2> DEFINE img == IF version[req[r].name] = NoImage THEN Fallback
                      ELSE version[req[r].name]
    <2>1. img \in Images \cup {NoImage}
      BY <1>0 DEF TypeOK, Request
    <2>2. [req[r] EXCEPT !.pc = "stopOld", !.image = img] \in Request
      BY <1>0, <2>1 DEF Request
    <2> QED
      BY <1>1, <1>2, <1>8, <2>2 DEF Lookup
  <1>9. CASE \/ MarkRunning(r) \/ Build(r) \/ Replace(r) \/ SaveRecord(r) \/ Return(r)
             \/ PublishDone(r) \/ PullTarget(r) \/ StopOld(r) \/ RemoveOld(r)
             \/ SaveRollback(r) \/ UpdateVersion(r) \/ StopContainer(r)
             \/ RemoveContainer(r) \/ Backup(r)
    BY <1>2, <1>9 DEF MarkRunning, Build, Replace, SaveRecord, Return, PublishDone,
         PullTarget, StopOld, RemoveOld, SaveRollback, UpdateVersion, StopContainer,
         RemoveContainer, Backup
  <1>10. CASE Pull(r) \/ RunFails(r)
    BY <1>2, <1>3, <1>10 DEF Pull, RunFails
  <1> QED
    BY <1>4, <1>5, <1>6, <1>7, <1>8, <1>9, <1>10 DEF Work

\* A step of a request preserves the types.
LEMMA TypeWork ==
  ASSUME TypeOK, NEW r \in Requests, Work(r)
  PROVE  TypeOK'
  <1>0. req[r] \in Request
    BY DEF TypeOK
  <1>1. /\ req[r].name \in Names
        /\ req[r].host \in Hosts
        /\ Local \in Hosts
        /\ req[r].image \in Images \cup {NoImage}
        /\ req[r].verdict \in Verdicts
    BY <1>0 DEF Request, Hosts
  <1>2. req' \in [Requests -> Request]
    BY TypeReqWork
  <1>3. task' \in [Requests -> TaskStatus]
    BY DEF Work, MarkRunning, Build, Preflight, Pull, Replace, RunSucceeds, RunFails,
         SaveRecord, Return, PublishDone, Resolve, Inspect, PullTarget, StopOld,
         RemoveOld, SaveRollback, UpdateVersion, StopContainer, RemoveContainer, Backup,
         Lookup, TypeOK, TaskStatus
  <1>4. stored' \in [Hosts -> SUBSET (Images \cup {NoImage})]
    <2>1. \/ stored' = stored
          \/ \E h \in Hosts : stored' = [stored EXCEPT ![h] = @ \cup {req[r].image}]
      BY <1>1 DEF Work, MarkRunning, Build, Preflight, Pull, Replace, RunSucceeds, RunFails,
         SaveRecord, Return, PublishDone, Resolve, Inspect, PullTarget, StopOld,
         RemoveOld, SaveRollback, UpdateVersion, StopContainer, RemoveContainer, Backup,
         Lookup
    <2>2. ASSUME NEW h \in Hosts
          PROVE  [stored EXCEPT ![h] = @ \cup {req[r].image}]
                   \in [Hosts -> SUBSET (Images \cup {NoImage})]
      BY <1>1 DEF TypeOK
    <2>3. stored \in [Hosts -> SUBSET (Images \cup {NoImage})]
      BY DEF TypeOK
    <2> QED
      BY <2>1, <2>2, <2>3
  <1>5. ctr' \in [Hosts -> [Names -> Container]]
    <2>1. \A b \in BOOLEAN : [image |-> req[r].image, up |-> b] \in Container
      BY <1>1 DEF Container
    <2>2. Absent \in Container
      BY DEF Absent, Container
    <2>3. \/ \E c \in Container : ctr' = [ctr EXCEPT ![req[r].host][req[r].name] = c]
          \/ ctr' = [ctr EXCEPT ![Local][req[r].name] = Absent]
          \/ ctr' = [ctr EXCEPT ![Local][req[r].name].up = FALSE]
          \/ ctr' = ctr
      BY <2>1, <2>2 DEF Create, Work, MarkRunning, Build, Preflight, Pull, Replace, RunSucceeds, RunFails,
         SaveRecord, Return, PublishDone, Resolve, Inspect, PullTarget, StopOld,
         RemoveOld, SaveRollback, UpdateVersion, StopContainer, RemoveContainer, Backup,
         Lookup
    <2>4. ctr \in [Hosts -> [Names -> Container]]
      BY DEF TypeOK
    <2>5. CASE \E c \in Container : ctr' = [ctr EXCEPT ![req[r].host][req[r].name] = c]
      <3>1. \A c \in Container :
              [ctr EXCEPT ![req[r].host][req[r].name] = c] \in [Hosts -> [Names -> Container]]
        BY <1>1, ContainerType
      <3> QED
        BY <2>5, <3>1
    <2>6. /\ [ctr EXCEPT ![Local][req[r].name] = Absent] \in [Hosts -> [Names -> Container]]
          /\ [ctr EXCEPT ![Local][req[r].name].up = FALSE] \in [Hosts -> [Names -> Container]]
      BY <1>1, ContainerType
    <2> QED
      BY <2>3, <2>4, <2>5, <2>6
  <1>6. history' \in [Names -> Seq(Row)]
    <2>1. DeployRow(r) \in Row /\ RollbackRow(r) \in Row
      BY <1>1 DEF DeployRow, RollbackRow, Row, Verdicts
    <2>2. \/ \E row \in Row : history' = [history EXCEPT ![req[r].name] = Append(@, row)]
          \/ history' = history
      BY <2>1 DEF Work, MarkRunning, Build, Preflight, Pull, Replace, RunSucceeds, RunFails,
         SaveRecord, Return, PublishDone, Resolve, Inspect, PullTarget, StopOld,
         RemoveOld, SaveRollback, UpdateVersion, StopContainer, RemoveContainer, Backup,
         Lookup
    <2>3. history \in [Names -> Seq(Row)]
      BY DEF TypeOK
    <2>4. \A row \in Row :
            [history EXCEPT ![req[r].name] = Append(@, row)] \in [Names -> Seq(Row)]
      BY <1>1, HistoryType
    <2> QED
      BY <2>2, <2>3, <2>4
  <1>7. version' \in [Names -> Images \cup {NoImage}]
    BY <1>1 DEF Work, MarkRunning, Build, Preflight, Pull, Replace, RunSucceeds, RunFails,
         SaveRecord, Return, PublishDone, Resolve, Inspect, PullTarget, StopOld,
         RemoveOld, SaveRollback, UpdateVersion, StopContainer, RemoveContainer, Backup,
         Lookup, TypeOK
  <1>8. backups' \subseteq Names
    BY <1>1 DEF Work, MarkRunning, Build, Preflight, Pull, Replace, RunSucceeds, RunFails,
         SaveRecord, Return, PublishDone, Resolve, Inspect, PullTarget, StopOld,
         RemoveOld, SaveRollback, UpdateVersion, StopContainer, RemoveContainer, Backup,
         Lookup, TypeOK
  <1>9. clean' \in [Names -> BOOLEAN]
    BY <1>1 DEF Disturb, Work, MarkRunning, Build, Preflight, Pull, Replace, RunSucceeds, RunFails,
         SaveRecord, Return, PublishDone, Resolve, Inspect, PullTarget, StopOld,
         RemoveOld, SaveRollback, UpdateVersion, StopContainer, RemoveContainer, Backup,
         Lookup, TypeOK
  <1>10. crashes' = crashes
    BY DEF Work, MarkRunning, Build, Preflight, Pull, Replace, RunSucceeds, RunFails,
         SaveRecord, Return, PublishDone, Resolve, Inspect, PullTarget, StopOld,
         RemoveOld, SaveRollback, UpdateVersion, StopContainer, RemoveContainer, Backup,
         Lookup
  <1> QED
    BY <1>2, <1>3, <1>4, <1>5, <1>6, <1>7, <1>8, <1>9, <1>10 DEF TypeOK

\* Every step preserves the types.
LEMMA TypeStep ==
  ASSUME TypeOK, [Next]_vars
  PROVE  TypeOK'
  <1>1. ASSUME NEW r \in Requests, Arrive(r)
        PROVE  TypeOK'
    BY <1>1, TypeArrive
  <1>2. ASSUME NEW r \in Requests, Work(r)
        PROVE  TypeOK'
    BY <1>2, TypeWork
  <1>3. ASSUME NEW r \in Requests, Panic(r)
        PROVE  TypeOK'
    <2>1. req' \in [Requests -> Request]
      BY <1>3, GotoType DEF Panic, Labels
    <2> QED
      BY <1>3, <2>1 DEF Panic, TypeOK, TaskStatus
  <1>4. ASSUME NEW h \in Hosts, NEW n \in Names, ContainerExits(h, n)
        PROVE  TypeOK'
    <2>1. Absent \in Container
      BY DEF Absent, Container
    <2>2. ctr' \in [Hosts -> [Names -> Container]]
      BY <1>4, <2>1, ContainerType DEF ContainerExits
    <2> QED
      BY <1>4, <2>2 DEF ContainerExits, TypeOK
  <1>5. CASE Crash
    <2>1. ASSUME NEW r \in Requests
          PROVE  [req[r] EXCEPT !.pc = "lost"] \in Request
      <3>1. req[r] \in Request
        BY DEF TypeOK
      <3> QED
        BY <3>1 DEF Request, Labels
    <2>2. req' \in [Requests -> Request]
      BY <1>5, <2>1 DEF Crash, TypeOK
    <2>3. clean' \in [Names -> BOOLEAN]
      BY <1>5, Zenon DEF Crash, TypeOK
    <2> QED
      BY <1>5, <2>2, <2>3 DEF Crash, TypeOK, TaskStatus
  <1>6. CASE UNCHANGED vars
    BY <1>6 DEF vars, TypeOK
  <1> QED
    BY <1>1, <1>2, <1>3, <1>4, <1>5, <1>6 DEF Next

\* The types hold in every behaviour of the engine.
THEOREM TypeCorrect == Spec => []TypeOK
  BY TypeInit, TypeStep, PTL DEF Spec

-----------------------------------------------------------------------------
(***************************************************************************)
(* The inductive invariant.                                                *)
(***************************************************************************)

\* Inv holds at first: no request was made, there is no container and no row.
LEMMA InvInit == Init => Inv
  <1> SUFFICES ASSUME Init PROVE Inv
    OBVIOUS
  <1>1. TypeOK
    BY TypeInit
  <1>2. \A r \in Requests : Control(r) /\ Fetched(r) /\ Truthful(r) /\ TaskFits(r)
    <2>1. SUFFICES ASSUME NEW r \in Requests
                   PROVE  Control(r) /\ Fetched(r) /\ Truthful(r) /\ TaskFits(r)
      OBVIOUS
    <2>2. /\ req[r].pc = "new" /\ req[r].kind = "deploy" /\ req[r].verdict = "none"
          /\ req[r].ran = FALSE /\ task[r] = "none"
      BY DEF Init, NotMade
    <2> QED
      BY <2>2 DEF Control, Fetched, Truthful, TaskFits, DeployLabels
  <1>3. SuccessIsTrue
    BY DEF Init, SuccessIsTrue
  <1>4. OnlyPulledImagesRun
    BY DEF Init, OnlyPulledImagesRun
  <1> QED
    BY <1>1, <1>2, <1>3, <1>4 DEF Inv

\* A step of one request leaves the others, and their tasks, as they are.
LEMMA Others ==
  ASSUME TypeOK, NEW r \in Requests, Arrive(r) \/ Work(r) \/ Panic(r),
         NEW q \in Requests, q # r
  PROVE  req'[q] = req[q] /\ task'[q] = task[q]
  <1>1. CASE Arrive(r)
    BY <1>1 DEF Arrive, Begin, TypeOK
  <1>2. CASE Work(r)
    BY <1>2 DEF Goto, Conclude, Work, MarkRunning, Build, Preflight, Pull, Replace, RunSucceeds, RunFails,
         SaveRecord, Return, PublishDone, Resolve, Inspect, PullTarget, StopOld,
         RemoveOld, SaveRollback, UpdateVersion, StopContainer, RemoveContainer, Backup,
         Lookup, TypeOK
  <1>3. CASE Panic(r)
    BY <1>3 DEF Panic, Goto, TypeOK
  <1> QED
    BY <1>1, <1>2, <1>3

\* No step takes an image out of a store.
LEMMA StoreGrows ==
  ASSUME TypeOK, [Next]_vars, NEW h \in Hosts
  PROVE  stored[h] \subseteq stored'[h]
  <1>1. ASSUME NEW r \in Requests, Work(r)
        PROVE  stored[h] \subseteq stored'[h]
    BY <1>1 DEF Work, MarkRunning, Build, Preflight, Pull, Replace, RunSucceeds, RunFails,
         SaveRecord, Return, PublishDone, Resolve, Inspect, PullTarget, StopOld,
         RemoveOld, SaveRollback, UpdateVersion, StopContainer, RemoveContainer, Backup,
         Lookup, TypeOK
  <1>2. CASE \/ \E r \in Requests : Arrive(r) \/ Panic(r)
             \/ \E g \in Hosts, n \in Names : ContainerExits(g, n)
             \/ Crash
             \/ UNCHANGED vars
    BY <1>2 DEF Arrive, Begin, Panic, ContainerExits, Crash, vars
  <1> QED
    BY <1>1, <1>2 DEF Next

\* What Goto and Conclude do to a request, field by field.
LEMMA GotoFields ==
  ASSUME TypeOK, NEW r \in Requests, NEW l, Goto(r, l)
  PROVE  /\ req'[r].pc = l
         /\ req'[r].kind = req[r].kind /\ req'[r].name = req[r].name
         /\ req'[r].image = req[r].image /\ req'[r].host = req[r].host
         /\ req'[r].from = req[r].from /\ req'[r].verdict = req[r].verdict
         /\ req'[r].ran = req[r].ran
  BY DEF TypeOK, Request, Goto

LEMMA ConcludeFields ==
  ASSUME TypeOK, NEW r \in Requests, NEW v, Conclude(r, v)
  PROVE  /\ req'[r].pc = AfterDeployer(r) /\ req'[r].verdict = v
         /\ req'[r].kind = req[r].kind /\ req'[r].name = req[r].name
         /\ req'[r].image = req[r].image /\ req'[r].host = req[r].host
         /\ req'[r].from = req[r].from /\ req'[r].ran = req[r].ran
  <1>1. req[r] \in Request
    BY DEF TypeOK
  <1>2. req'[r] = [req[r] EXCEPT !.pc = AfterDeployer(r), !.verdict = v]
    BY DEF TypeOK, Conclude
  <1> QED
    BY <1>1, <1>2 DEF Request

\* The kinds of request that can be at a label.
LEMMA KindAt ==
  ASSUME TypeOK, NEW r \in Requests, Control(r)
  PROVE  /\ req[r].pc \in {"mark", "publish"} => req[r].kind = "async"
         /\ req[r].pc = "build" => req[r].kind = "build"
         /\ req[r].pc \in {"resolve", "inspect", "pullTarget", "saveRollback",
                           "updateVersion"} => req[r].kind = "rollback"
         /\ req[r].pc \in {"stopOld", "removeOld"} => req[r].kind \in {"rollback", "restore"}
         /\ req[r].pc \in {"preflight", "save", "return"} =>
              req[r].kind \in {"deploy", "async", "build", "rollback"}
         /\ req[r].pc \in {"pull", "replace", "run"} =>
              req[r].kind \in {"deploy", "async", "build", "rollback", "restore"}
         /\ req[r].pc = "stop" => req[r].kind = "stop"
         /\ req[r].pc = "remove" => req[r].kind = "remove"
         /\ req[r].pc = "backup" => req[r].kind = "backup"
         /\ req[r].pc = "lookup" => req[r].kind = "restore"
  <1>1. req[r].kind \in Kinds
    BY DEF TypeOK, Request
  <1> QED
    BY <1>1 DEF Control, LabelsOf, DeployLabels, Kinds

\* The control invariants of one request, and its own steps.
Sound(r) == Control(r) /\ Fetched(r) /\ Truthful(r) /\ TaskFits(r)

LEMMA SoundWork ==
  ASSUME TypeOK, NEW r \in Requests, Work(r), Sound(r)
  PROVE  Sound(r)'
  <1>0. req[r] \in Request /\ req[r].host \in Hosts /\ req[r].kind \in Kinds
    BY DEF TypeOK, Request
  <1> USE DEF Sound
  <1>1. CASE MarkRunning(r)
    BY <1>0, <1>1, GotoFields, KindAt DEF MarkRunning, TypeOK, Control, LabelsOf,
       DeployLabels, Fetched, Truthful, AfterRun, TaskFits, Kinds
  <1>2. CASE Build(r)
    BY <1>0, <1>2, GotoFields, KindAt DEF Build, TypeOK, Control, LabelsOf,
       DeployLabels, Fetched, Truthful, AfterRun, TaskFits, Kinds
  <1>3. CASE Preflight(r)
    <2>1. /\ req[r].pc = "preflight" /\ task' = task /\ stored' = stored
          /\ \/ Goto(r, "pull") \/ Conclude(r, "preflight_failed")
             \/ req'[r] = [req[r] EXCEPT !.pc = "return", !.verdict = "unreachable"]
      BY <1>3 DEF Preflight, TypeOK
    <2>2. req[r].kind \in {"deploy", "async", "build", "rollback"} /\ ~req[r].ran
      BY <2>1, KindAt DEF Truthful, AfterRun
    <2>3. /\ req'[r].pc \in {"pull", "save", "return"} /\ req'[r].kind = req[r].kind
          /\ req'[r].host = req[r].host /\ req'[r].ran = req[r].ran
          /\ req'[r].verdict # "success"
      <3>1. req[r].verdict # "success"
        BY <2>2 DEF Truthful
      <3>2. CASE Goto(r, "pull")
        BY <3>1, <3>2, GotoFields
      <3>3. CASE Conclude(r, "preflight_failed")
        BY <2>2, <3>3, ConcludeFields DEF AfterDeployer
      <3>4. CASE req'[r] = [req[r] EXCEPT !.pc = "return", !.verdict = "unreachable"]
        BY <1>0, <3>4 DEF Request
      <3> QED
        BY <2>1, <3>2, <3>3, <3>4
    <2>4. Control(r)'
      BY <1>0, <2>2, <2>3 DEF Control, LabelsOf, DeployLabels
    <2>5. Fetched(r)' /\ Truthful(r)'
      BY <2>2, <2>3 DEF Fetched, Truthful
    <2>6. TaskFits(r)'
      BY <2>1, <2>2, <2>3 DEF TaskFits, DeployLabels
    <2> QED
      BY <2>4, <2>5, <2>6
  <1>4. CASE Pull(r)
    BY <1>0, <1>4, GotoFields, ConcludeFields, KindAt DEF Pull, TypeOK,
       AfterDeployer, Control, LabelsOf, DeployLabels, Fetched, Truthful, AfterRun, TaskFits, Kinds
  <1>5. CASE Replace(r)
    BY <1>0, <1>5, GotoFields, KindAt DEF Replace, TypeOK, Control, LabelsOf,
       DeployLabels, Fetched, Truthful, AfterRun, TaskFits, Kinds
  <1>6. CASE RunSucceeds(r)
    <2>1. /\ req[r].pc = "run" /\ task' = task
          /\ req'[r] = [req[r] EXCEPT !.pc = AfterDeployer(r), !.verdict = "success",
                                     !.ran = TRUE]
      BY <1>6 DEF RunSucceeds, TypeOK
    <2>2. /\ req'[r].pc = AfterDeployer(r) /\ req'[r].kind = req[r].kind
          /\ req'[r].host = req[r].host /\ req'[r].ran = TRUE
      BY <1>0, <2>1 DEF Request
    <2> QED
      BY <1>0, <2>1, <2>2, KindAt DEF Control, LabelsOf, DeployLabels, Fetched, Truthful,
       AfterRun, TaskFits, AfterDeployer, Kinds
  <1>7. CASE RunFails(r)
    BY <1>0, <1>7, GotoFields, ConcludeFields, KindAt DEF RunFails, TypeOK,
       AfterDeployer, Control, LabelsOf, DeployLabels, Fetched, Truthful, AfterRun, TaskFits, Kinds
  <1>8. CASE SaveRecord(r)
    BY <1>0, <1>8, GotoFields, KindAt DEF SaveRecord, TypeOK, Control, LabelsOf,
       DeployLabels, Fetched, Truthful, AfterRun, TaskFits, Kinds
  <1>9. CASE Return(r)
    BY <1>0, <1>9, GotoFields, KindAt DEF Return, TypeOK, Control, LabelsOf,
       DeployLabels, Fetched, Truthful, AfterRun, TaskFits, Kinds
  <1>10. CASE PublishDone(r)
    BY <1>0, <1>10, GotoFields, KindAt DEF PublishDone, TypeOK, Control, LabelsOf,
       DeployLabels, Fetched, Truthful, AfterRun, TaskFits, Kinds
  <1>11. CASE Resolve(r)
    <2>1. /\ req[r].pc = "resolve" /\ task' = task /\ stored' = stored
          /\ \/ Goto(r, "inspect") \/ Goto(r, "done")
             \/ \E img : req'[r] = [req[r] EXCEPT !.pc = "inspect", !.image = img]
      BY <1>11 DEF Resolve, TypeOK
    <2>2. /\ req'[r].pc \in {"inspect", "done"} /\ req'[r].kind = req[r].kind
          /\ req'[r].host = req[r].host /\ req'[r].ran = req[r].ran
          /\ req'[r].verdict = req[r].verdict
      <3>1. CASE Goto(r, "inspect")
        BY <1>0, <3>1, GotoFields DEF Labels
      <3>2. CASE Goto(r, "done")
        BY <1>0, <3>2, GotoFields DEF Labels
      <3>3. CASE \E img : req'[r] = [req[r] EXCEPT !.pc = "inspect", !.image = img]
        <4>1. PICK img : req'[r] = [req[r] EXCEPT !.pc = "inspect", !.image = img]
          BY <3>3
        <4> QED
          BY <1>0, <4>1 DEF Request
      <3> QED
        BY <2>1, <3>1, <3>2, <3>3
    <2>3. req[r].kind = "rollback" /\ ~req[r].ran
      BY <2>1, KindAt DEF Truthful, AfterRun
    <2>4. Control(r)'
      BY <1>0, <2>2, <2>3 DEF Control, LabelsOf, DeployLabels
    <2>5. Fetched(r)' /\ Truthful(r)'
      BY <2>2, <2>3 DEF Fetched, Truthful
    <2>6. TaskFits(r)'
      BY <2>1, <2>2, <2>3 DEF TaskFits
    <2> QED
      BY <2>4, <2>5, <2>6
  <1>12. CASE Inspect(r)
    <2>1. /\ req[r].pc = "inspect" /\ task' = task /\ stored' = stored
          /\ \E img : req'[r] = [req[r] EXCEPT !.pc = "pullTarget", !.from = img]
      BY <1>12 DEF Inspect, TypeOK
    <2>2. /\ req'[r].pc = "pullTarget" /\ req'[r].kind = req[r].kind
          /\ req'[r].host = req[r].host /\ req'[r].ran = req[r].ran
          /\ req'[r].verdict = req[r].verdict
      BY <1>0, <2>1 DEF Request
    <2> QED
      BY <1>0, <2>1, <2>2, KindAt DEF Control, LabelsOf,
       DeployLabels, Fetched, Truthful, AfterRun, TaskFits, Kinds
  <1>13. CASE PullTarget(r)
    BY <1>0, <1>13, GotoFields, KindAt DEF PullTarget, TypeOK, Control, LabelsOf,
       DeployLabels, Fetched, Truthful, AfterRun, TaskFits, Kinds
  <1>14. CASE StopOld(r)
    BY <1>0, <1>14, GotoFields, KindAt DEF StopOld, TypeOK, Control, LabelsOf,
       DeployLabels, Fetched, Truthful, AfterRun, TaskFits, Kinds
  <1>15. CASE RemoveOld(r)
    BY <1>0, <1>15, GotoFields, KindAt DEF RemoveOld, TypeOK, Control, LabelsOf,
       DeployLabels, Fetched, Truthful, AfterRun, TaskFits, Kinds
  <1>16. CASE SaveRollback(r)
    BY <1>0, <1>16, GotoFields, KindAt DEF SaveRollback, TypeOK, Control, LabelsOf,
       DeployLabels, Fetched, Truthful, AfterRun, TaskFits, Kinds
  <1>17. CASE UpdateVersion(r)
    BY <1>0, <1>17, GotoFields, KindAt DEF UpdateVersion, TypeOK, Control, LabelsOf,
       DeployLabels, Fetched, Truthful, AfterRun, TaskFits, Kinds
  <1>18. CASE StopContainer(r)
    BY <1>0, <1>18, GotoFields, KindAt DEF StopContainer, TypeOK, Control, LabelsOf,
       DeployLabels, Fetched, Truthful, AfterRun, TaskFits, Kinds
  <1>19. CASE RemoveContainer(r)
    BY <1>0, <1>19, GotoFields, KindAt DEF RemoveContainer, TypeOK, Control, LabelsOf,
       DeployLabels, Fetched, Truthful, AfterRun, TaskFits, Kinds
  <1>20. CASE Backup(r)
    BY <1>0, <1>20, GotoFields, KindAt DEF Backup, TypeOK, Control, LabelsOf,
       DeployLabels, Fetched, Truthful, AfterRun, TaskFits, Kinds
  <1>21. CASE Lookup(r)
    <2>1. /\ req[r].pc = "lookup" /\ task' = task /\ stored' = stored
          /\ \/ Goto(r, "done")
             \/ \E img : req'[r] = [req[r] EXCEPT !.pc = "stopOld", !.image = img]
      BY <1>21 DEF Lookup, TypeOK
    <2>2. /\ req'[r].pc \in {"stopOld", "done"} /\ req'[r].kind = req[r].kind
          /\ req'[r].host = req[r].host /\ req'[r].ran = req[r].ran
          /\ req'[r].verdict = req[r].verdict
      BY <1>0, <2>1, GotoFields DEF Request
    <2>3. req[r].kind = "restore" /\ ~req[r].ran
      BY <2>1, KindAt DEF Truthful, AfterRun
    <2>4. Control(r)'
      BY <1>0, <2>2, <2>3 DEF Control, LabelsOf, DeployLabels
    <2>5. Fetched(r)' /\ Truthful(r)'
      BY <2>2, <2>3 DEF Fetched, Truthful
    <2>6. TaskFits(r)'
      BY <2>1, <2>2, <2>3 DEF TaskFits
    <2> QED
      BY <2>4, <2>5, <2>6
  <1> QED
    BY <1>1, <1>2, <1>3, <1>4, <1>5, <1>6, <1>7, <1>8, <1>9, <1>10, <1>11, <1>12, <1>13, <1>14,
       <1>15, <1>16, <1>17, <1>18, <1>19, <1>20, <1>21 DEF Work

\* The control invariants hold of every request after every step.
LEMMA SoundStep ==
  ASSUME TypeOK, TypeOK', [Next]_vars, NEW q \in Requests, Sound(q)
  PROVE  Sound(q)'
  <1>0. req[q] \in Request /\ req[q].host \in Hosts
    BY DEF TypeOK, Request
  <1>1. CASE Work(q)
    BY <1>1, SoundWork
  <1>2. CASE Arrive(q)
    <2>1. PICK kind \in Calls, n \in Names, img \in Images \cup {NoImage}, h \in Hosts :
            Begin(q, kind, n, img, h)
      BY <1>2 DEF Arrive
    <2>2. /\ req[q].pc = "new"
          /\ kind \notin {"deploy", "async", "build"} => h = Local
          /\ req'[q] = [kind |-> kind, pc |-> FirstLabel[kind], name |-> n, image |-> img,
                        host |-> h, from |-> NoImage, verdict |-> "none", ran |-> FALSE]
          /\ task'[q] = IF kind = "async" THEN "pending" ELSE task[q]
      BY <2>1 DEF Begin, TypeOK
    <2>3. task[q] = "none" /\ kind \in Kinds
      BY <2>2 DEF Sound, TaskFits
    <2>4. Control(q)'
      BY <2>2, <2>3 DEF Control, LabelsOf, DeployLabels, FirstLabel, Kinds
    <2>5. Fetched(q)' /\ Truthful(q)' /\ TaskFits(q)'
      BY <2>2, <2>3 DEF Fetched, Truthful, TaskFits, DeployLabels, FirstLabel, Kinds
    <2> QED
      BY <2>4, <2>5 DEF Sound
  <1>3. CASE Panic(q)
    <2>1. /\ Goto(q, "done") /\ stored' = stored
          /\ task'[q] = IF req[q].kind = "async" THEN "failed" ELSE task[q]
      BY <1>3 DEF Panic, TypeOK
    <2>2. req[q].pc # "mark" /\ req[q].pc # "new"
      BY <1>3 DEF Panic
    <2> QED
      BY <2>1, <2>2, GotoFields DEF Sound, Control, Fetched, Truthful, AfterRun, TaskFits,
         DeployLabels
  <1>4. ASSUME NEW r \in Requests, r # q, Arrive(r) \/ Work(r) \/ Panic(r)
        PROVE  Sound(q)'
    <2>1. req'[q] = req[q] /\ task'[q] = task[q]
      BY <1>4, Others
    <2>2. stored[req[q].host] \subseteq stored'[req[q].host]
      BY <1>0, StoreGrows
    <2> QED
      BY <2>1, <2>2 DEF Sound, Control, Fetched, Truthful, TaskFits
  <1>5. CASE Crash
    <2>1. /\ req'[q] = IF InFlight(q) THEN [req[q] EXCEPT !.pc = "lost"] ELSE req[q]
          /\ task'[q] = "none" /\ stored' = stored
      BY <1>5 DEF Crash
    <2>2. /\ req'[q].pc \in {"new", "done", "lost"} /\ req'[q].kind = req[q].kind
          /\ req'[q].host = req[q].host /\ req'[q].verdict = req[q].verdict
          /\ req'[q].ran = req[q].ran
          /\ req'[q].pc = "new" => req[q].pc = "new"
      BY <1>0, <2>1 DEF InFlight, Request
    <2> QED
      BY <2>1, <2>2 DEF Sound, Control, Fetched, Truthful, AfterRun, TaskFits, DeployLabels
  <1>6. CASE (\E h \in Hosts, n \in Names : ContainerExits(h, n)) \/ UNCHANGED vars
    BY <1>6 DEF ContainerExits, vars, Sound, Control, Fetched, Truthful, TaskFits
  <1> QED
    BY <1>1, <1>2, <1>3, <1>4, <1>5, <1>6 DEF Next

\* Containers are created from fetched images only.
LEMMA PulledImagesStep ==
  ASSUME TypeOK, [Next]_vars, \A r \in Requests : Sound(r), OnlyPulledImagesRun
  PROVE  OnlyPulledImagesRun'
  <1> SUFFICES ASSUME NEW h \in Hosts, NEW n \in Names, ctr'[h][n] # Absent
               PROVE  ctr'[h][n].image \in Published \cap stored'[h]
    BY DEF OnlyPulledImagesRun
  <1>1. stored[h] \subseteq stored'[h]
    BY StoreGrows
  <1>2. ctr \in [Hosts -> [Names -> Container]] /\ ctr[h][n] \in Container
    BY DEF TypeOK
  <1>3. ctr[h][n] # Absent => ctr[h][n].image \in Published \cap stored[h]
    BY DEF OnlyPulledImagesRun
  <1>4. ASSUME ctr'[h][n] = ctr[h][n] \/ ctr'[h][n] = [ctr[h][n] EXCEPT !.up = FALSE]
        PROVE  ctr'[h][n].image \in Published \cap stored'[h]
    <2>1. [Absent EXCEPT !.up = FALSE] = Absent
      <3>1. \A c, d \in Container : c.image = d.image /\ c.up = d.up => c = d
        BY DEF Container
      <3>2. Absent \in Container /\ Absent.up = FALSE
        BY DEF Absent, Container
      <3>3. /\ [Absent EXCEPT !.up = FALSE] \in Container
            /\ [Absent EXCEPT !.up = FALSE].image = Absent.image
            /\ [Absent EXCEPT !.up = FALSE].up = FALSE
        BY <3>2 DEF Container
      <3> QED
        BY <3>1, <3>2, <3>3
    <2>2. ctr[h][n] # Absent
      BY <1>4, <2>1
    <2>3. ctr'[h][n].image = ctr[h][n].image
      BY <1>2, <1>4 DEF Container
    <2> QED
      BY <1>1, <1>3, <2>2, <2>3
  <1>5. ASSUME NEW r \in Requests, Work(r), ctr' # ctr
        PROVE  ctr'[h][n].image \in Published \cap stored'[h]
    <2>0. req[r] \in Request /\ req[r].host \in Hosts /\ req[r].name \in Names
          /\ Local \in Hosts
      BY DEF TypeOK, Request, Hosts
    <2>1. CASE RunSucceeds(r) \/ RunFails(r)
      <3>1. PICK up \in BOOLEAN : Create(r, up)
        BY <1>5, <2>1 DEF RunSucceeds, RunFails
      <3>2. req[r].image \in Published \cap stored[req[r].host]
        BY <2>1 DEF Sound, Fetched, RunSucceeds, RunFails
      <3>3. CASE h = req[r].host /\ n = req[r].name
        BY <1>1, <1>2, <2>0, <3>1, <3>2, <3>3 DEF Create
      <3>4. CASE ~(h = req[r].host /\ n = req[r].name)
        <4>1. ctr'[h][n] = ctr[h][n]
          BY <1>2, <2>0, <3>1, <3>4 DEF Create
        <4> QED
          BY <1>4, <4>1
      <3> QED
        BY <3>3, <3>4
    <2>2. CASE \/ ctr' = [ctr EXCEPT ![req[r].host][req[r].name] = Absent]
               \/ ctr' = [ctr EXCEPT ![Local][req[r].name] = Absent]
      <3>1. ctr'[h][n] = Absent \/ ctr'[h][n] = ctr[h][n]
        BY <1>2, <2>0, <2>2
      <3> QED
        BY <1>4, <3>1
    <2>3. CASE ctr' = [ctr EXCEPT ![Local][req[r].name].up = FALSE]
      <3>1. ctr'[h][n] = [ctr[h][n] EXCEPT !.up = FALSE] \/ ctr'[h][n] = ctr[h][n]
        BY <1>2, <2>0, <2>3
      <3> QED
        BY <1>4, <3>1
    <2> QED
      BY <1>5, <2>1, <2>2, <2>3 DEF Work, MarkRunning, Build, Preflight, Pull, Replace, RunSucceeds, RunFails,
         SaveRecord, Return, PublishDone, Resolve, Inspect, PullTarget, StopOld,
         RemoveOld, SaveRollback, UpdateVersion, StopContainer, RemoveContainer, Backup,
         Lookup
  <1>6. ASSUME NEW g \in Hosts, NEW m \in Names, ContainerExits(g, m)
        PROVE  ctr'[h][n].image \in Published \cap stored'[h]
    <2>1. ctr'[h][n] = [ctr[h][n] EXCEPT !.up = FALSE] \/ ctr'[h][n] = ctr[h][n]
      BY <1>2, <1>6 DEF ContainerExits
    <2> QED
      BY <1>4, <2>1
  <1>7. CASE ctr' = ctr
    BY <1>4, <1>7
  <1>8. ASSUME NEW r \in Requests, Arrive(r) \/ Panic(r)
        PROVE  ctr' = ctr
    BY <1>8 DEF Arrive, Begin, Panic
  <1> QED
    BY <1>5, <1>6, <1>7, <1>8 DEF Next, Crash, vars

\* A request whose docker run succeeded keeps its parameters for ever.
LEMMA RanKeeps ==
  ASSUME TypeOK, [Next]_vars, NEW q \in Requests, Sound(q), req[q].ran
  PROVE  /\ req'[q].ran
         /\ req'[q].name = req[q].name
         /\ req'[q].image = req[q].image
         /\ req'[q].host = req[q].host
  <1>0. req[q] \in Request /\ req[q].pc \in AfterRun
    BY DEF TypeOK, Sound, Truthful
  <1>1. CASE \E l \in Labels : Goto(q, l)
    BY <1>1, GotoFields
  <1>2. CASE Work(q)
    <2>1. \E l \in Labels : Goto(q, l)
      BY <1>0, <1>2 DEF AfterRun, Labels, Work, MarkRunning, Build, Preflight, Pull, Replace, RunSucceeds, RunFails,
         SaveRecord, Return, PublishDone, Resolve, Inspect, PullTarget, StopOld,
         RemoveOld, SaveRollback, UpdateVersion, StopContainer, RemoveContainer, Backup,
         Lookup
    <2> QED
      BY <1>1, <2>1
  <1>3. CASE Arrive(q) \/ Panic(q)
    <2>1. Goto(q, "done")
      BY <1>0, <1>3 DEF AfterRun, Arrive, Begin, Panic
    <2> QED
      BY <2>1, GotoFields
  <1>4. ASSUME NEW r \in Requests, r # q, Arrive(r) \/ Work(r) \/ Panic(r)
        PROVE  req'[q] = req[q]
    BY <1>4, Others
  <1>5. CASE Crash
    <2>1. req'[q] = IF InFlight(q) THEN [req[q] EXCEPT !.pc = "lost"] ELSE req[q]
      BY <1>5 DEF Crash
    <2> QED
      BY <1>0, <2>1 DEF Request
  <1>6. CASE (\E h \in Hosts, n \in Names : ContainerExits(h, n)) \/ UNCHANGED vars
    BY <1>6 DEF ContainerExits, vars
  <1> QED
    BY <1>2, <1>3, <1>4, <1>5, <1>6 DEF Next

\* A row is only appended by the request it names, with what that request did.
LEMMA RowsStep ==
  ASSUME TypeOK, [Next]_vars, \A r \in Requests : Sound(r)
  PROVE  \/ history' = history
         \/ \E r \in Requests : \E row \in {DeployRow(r), RollbackRow(r)} :
              /\ history' = [history EXCEPT ![req[r].name] = Append(@, row)]
              /\ row.status = "success" => req[r].verdict = "success"
              /\ row.by = r /\ row.image = req[r].image /\ row.host = req[r].host
  <1>1. ASSUME NEW r \in Requests
        PROVE  \A row \in {DeployRow(r), RollbackRow(r)} :
                 /\ row.status = "success" => req[r].verdict = "success"
                 /\ row.by = r /\ row.image = req[r].image /\ row.host = req[r].host
    BY DEF DeployRow, RollbackRow
  <1>2. ASSUME NEW r \in Requests, Work(r)
        PROVE  \/ history' = history
               \/ \E row \in {DeployRow(r), RollbackRow(r)} :
                    history' = [history EXCEPT ![req[r].name] = Append(@, row)]
    BY <1>2 DEF Work, MarkRunning, Build, Preflight, Pull, Replace, RunSucceeds, RunFails,
         SaveRecord, Return, PublishDone, Resolve, Inspect, PullTarget, StopOld,
         RemoveOld, SaveRollback, UpdateVersion, StopContainer, RemoveContainer, Backup,
         Lookup
  <1>3. CASE \/ \E r \in Requests : Arrive(r) \/ Panic(r)
             \/ \E h \in Hosts, n \in Names : ContainerExits(h, n)
             \/ Crash
             \/ UNCHANGED vars
    BY <1>3 DEF Arrive, Begin, Panic, ContainerExits, Crash, vars
  <1> QED
    BY <1>1, <1>2, <1>3 DEF Next

\* No step claims a success that did not happen.
LEMMA SuccessStep ==
  ASSUME TypeOK, TypeOK', [Next]_vars, \A r \in Requests : Sound(r), SuccessIsTrue
  PROVE  SuccessIsTrue'
  <1>1. ASSUME NEW n \in Names, NEW i \in DOMAIN history'[n],
               history'[n][i].status = "success"
        PROVE  /\ req'[history'[n][i].by].ran
               /\ req'[history'[n][i].by].name = n
               /\ req'[history'[n][i].by].image = history'[n][i].image
               /\ req'[history'[n][i].by].host = history'[n][i].host
    <2>0. history \in [Names -> Seq(Row)] /\ history[n] \in Seq(Row)
      BY DEF TypeOK
    <2>1. CASE i \in DOMAIN history[n] /\ history'[n][i] = history[n][i]
      <3>1. history[n][i].by \in Requests
        <4>1. history[n][i] \in Row
          BY <2>0, <2>1
        <4> QED
          BY <4>1 DEF Row
      <3>2. /\ req[history[n][i].by].ran
            /\ req[history[n][i].by].name = n
            /\ req[history[n][i].by].image = history[n][i].image
            /\ req[history[n][i].by].host = history[n][i].host
        BY <1>1, <2>1 DEF SuccessIsTrue, TrueRow
      <3> QED
        BY <2>1, <3>1, <3>2, RanKeeps
    <2>2. ASSUME NEW r \in Requests, NEW row \in {DeployRow(r), RollbackRow(r)},
                 history' = [history EXCEPT ![req[r].name] = Append(@, row)],
                 row.status = "success" => req[r].verdict = "success",
                 row.by = r, row.image = req[r].image, row.host = req[r].host,
                 ~(i \in DOMAIN history[n] /\ history'[n][i] = history[n][i])
          PROVE  /\ n = req[r].name
                 /\ history'[n][i] = row
      <3>1. CASE n # req[r].name
        BY <1>1, <2>0, <2>2, <3>1
      <3>2. CASE n = req[r].name
        <4>1. history'[n] = Append(history[n], row)
          BY <2>0, <2>2, <3>2
        <4>2. i \in 1 .. Len(history[n]) + 1
          BY <1>1, <2>0, <4>1
        <4>3. i = Len(history[n]) + 1
          BY <2>0, <2>2, <4>1, <4>2
        <4> QED
          BY <2>0, <3>2, <4>1, <4>3
      <3> QED
        BY <3>1, <3>2
    <2>3. ASSUME NEW r \in Requests, NEW row \in {DeployRow(r), RollbackRow(r)},
                 history'[n][i] = row, n = req[r].name,
                 row.status = "success" => req[r].verdict = "success",
                 row.by = r, row.image = req[r].image, row.host = req[r].host
          PROVE  /\ req'[history'[n][i].by].ran
                 /\ req'[history'[n][i].by].name = n
                 /\ req'[history'[n][i].by].image = history'[n][i].image
                 /\ req'[history'[n][i].by].host = history'[n][i].host
      <3>1. req[r].ran
        BY <1>1, <2>3 DEF Sound, Truthful
      <3> QED
        BY <2>3, <3>1, RanKeeps
    <2>4. CASE history' = history
      BY <1>1, <2>1, <2>4
    <2> QED
      BY <2>1, <2>2, <2>3, <2>4, RowsStep
  <1>2. ASSUME NEW r \in Requests, task'[r] = "success"
        PROVE  req'[r].ran
    <2>1. CASE req[r].ran
      BY <2>1, RanKeeps
    <2>2. CASE ~req[r].ran
      <3>1. task[r] # "success" /\ req[r].verdict # "success"
        BY <2>2 DEF SuccessIsTrue, Sound, Truthful
      <3>2. ~Work(r)
        BY <1>2, <3>1 DEF TypeOK, Work, MarkRunning, Build, Preflight, Pull, Replace, RunSucceeds, RunFails,
         SaveRecord, Return, PublishDone, Resolve, Inspect, PullTarget, StopOld,
         RemoveOld, SaveRollback, UpdateVersion, StopContainer, RemoveContainer, Backup,
         Lookup
      <3>3. ~Arrive(r) /\ ~Panic(r)
        BY <1>2, <3>1 DEF TypeOK, Arrive, Begin, Panic
      <3>4. ASSUME NEW q \in Requests, q # r, Arrive(q) \/ Work(q) \/ Panic(q)
            PROVE  FALSE
        BY <1>2, <3>1, <3>4, Others
      <3> QED
        BY <1>2, <3>1, <3>2, <3>3, <3>4 DEF Next, ContainerExits, Crash, vars
    <2> QED
      BY <2>1, <2>2
  <1> QED
    BY <1>1, <1>2 DEF SuccessIsTrue, TrueRow

\* Inv is inductive.
LEMMA InvStep ==
  ASSUME Inv, [Next]_vars
  PROVE  Inv'
  <1>1. TypeOK /\ TypeOK'
    BY TypeStep DEF Inv
  <1>2. \A r \in Requests : Sound(r)
    BY DEF Inv, Sound
  <1>3. \A r \in Requests : Sound(r)'
    BY <1>1, <1>2, SoundStep
  <1>4. SuccessIsTrue'
    BY <1>1, <1>2, SuccessStep DEF Inv
  <1>5. OnlyPulledImagesRun'
    BY <1>1, <1>2, PulledImagesStep DEF Inv
  <1> QED
    BY <1>1, <1>3, <1>4, <1>5 DEF Inv, Sound

THEOREM Invariance == Spec => []Inv
  BY InvInit, InvStep, PTL DEF Spec

-----------------------------------------------------------------------------
(***************************************************************************)
(* The properties.                                                         *)
(***************************************************************************)

\* No row of the history and no task claims a success that did not happen
\* (saveDeploymentRecord, saveRollbackRecord, DeployAsync).
THEOREM SuccessCorrect == Spec => []SuccessIsTrue
  <1>1. Inv => SuccessIsTrue
    BY DEF Inv
  <1> QED
    BY <1>1, Invariance, PTL

\* Whatever runs was pulled from the registry (DockerDeployer.Deploy).
THEOREM OnlyPulledCorrect == Spec => []OnlyPulledImagesRun
  <1>1. Inv => OnlyPulledImagesRun
    BY DEF Inv
  <1> QED
    BY <1>1, Invariance, PTL

\* A deploy or a rollback takes a container away only with its own image at hand
\* (RollbackWithType and DockerDeployer.Deploy pull before they remove).
THEOREM RemovalCorrect == Spec => PulledBeforeRemoval
  <1>1. ASSUME Inv, Next, NEW r \in Requests, TakenAway(r)
        PROVE  req[r].image \in stored[req[r].host]
    <2>0. /\ TypeOK /\ Sound(r)
          /\ req[r] \in Request /\ req[r].host \in Hosts /\ req[r].name \in Names
          /\ req[r].kind \in {"deploy", "async", "build", "rollback"}
          /\ req'[r] # req[r]
          /\ ctr[req[r].host][req[r].name] # Absent
          /\ ctr'[req[r].host][req[r].name] = Absent
      BY <1>1 DEF Inv, Sound, TypeOK, Request, TakenAway
    <2>1. Work(r)
      <3>1. ASSUME NEW q \in Requests, q # r, Arrive(q) \/ Work(q) \/ Panic(q)
            PROVE  req'[r] = req[r]
        BY <2>0, <3>1, Others
      <3>2. Arrive(r) \/ Panic(r) \/ Crash => ctr' = ctr
        BY DEF Arrive, Begin, Panic, Crash
      <3> QED
        BY <1>1, <2>0, <3>1, <3>2 DEF Next, ContainerExits
    <2>2. req[r].pc \notin {"stop", "remove"}
      BY <2>0, KindAt DEF Sound
    <2>3. ctr[req[r].host][req[r].name].image # NoImage
      BY <1>1, <2>0 DEF Inv, OnlyPulledImagesRun
    <2>4. CASE Replace(r) \/ RemoveOld(r)
      <3>1. req[r].pc = "removeOld" => req[r].kind = "rollback"
        BY <2>0, KindAt DEF Sound
      <3> QED
        BY <2>0, <2>4, <3>1 DEF Sound, Fetched, Replace, RemoveOld
    <2>5. CASE StopOld(r)
      <3>1. ctr \in [Hosts -> [Names -> Container]]
        BY <2>0 DEF TypeOK
      <3>2. \/ ctr' = ctr
            \/ ctr' = [ctr EXCEPT ![Local][req[r].name].up = FALSE]
        BY <2>5 DEF StopOld
      <3>3. ctr'[req[r].host][req[r].name].image = ctr[req[r].host][req[r].name].image
        BY <2>0, <3>1, <3>2 DEF Container, Hosts
      <3> QED
        BY <2>0, <2>3, <3>3 DEF Absent
    <2>6. CASE RunSucceeds(r) \/ RunFails(r)
      BY <2>0, <2>6 DEF RunSucceeds, RunFails, CanCreate
    <2> QED
      BY <2>0, <2>1, <2>2, <2>4, <2>5, <2>6 DEF Work, MarkRunning, Build, Preflight, Pull, Replace, RunSucceeds, RunFails,
         SaveRecord, Return, PublishDone, Resolve, Inspect, PullTarget, StopOld,
         RemoveOld, SaveRollback, UpdateVersion, StopContainer, RemoveContainer, Backup,
         Lookup
  <1>2. Inv /\ [Next]_vars
          => [\A r \in Requests : TakenAway(r) => req[r].image \in stored[req[r].host]]_vars
    BY <1>1
  <1> QED
    BY <1>2, Invariance, PTL DEF Spec, PulledBeforeRemoval

\* The table of tasks implements the life cycle of DeployTask: every step of the
\* engine creates, starts, finishes, retracts or forgets tasks, or leaves them.
THEOREM Refinement == Spec => TaskLifecycle
  <1>1. Init => Lifecycle!Init
    BY DEF Init, Lifecycle!Init
  <1>2. ASSUME Inv, [Next]_vars
        PROVE  [Lifecycle!Next]_task
    <2>0. TypeOK /\ \A r \in Requests : Sound(r) /\ req[r] \in Request
      BY <1>2 DEF Inv, Sound, TypeOK
    <2>1. ASSUME NEW r \in Requests, Arrive(r)
          PROVE  [Lifecycle!Next]_task
      <3>1. task[r] = "none"
        BY <2>0, <2>1 DEF Sound, TaskFits, Arrive, Begin
      <3>2. PICK kind \in Calls, n \in Names, img \in Images \cup {NoImage}, h \in Hosts :
              Begin(r, kind, n, img, h)
        BY <2>1 DEF Arrive
      <3>3. task' = [task EXCEPT ![r] = IF kind = "async" THEN "pending" ELSE @]
        BY <3>2 DEF Begin
      <3>4. [task EXCEPT ![r] = task[r]] = task
        BY <2>0 DEF TypeOK
      <3>5. task' = [task EXCEPT ![r] = "pending"] \/ task' = task
        BY <3>3, <3>4
      <3> QED
        BY <3>1, <3>5 DEF Lifecycle!Next, Lifecycle!Create, Lifecycle!Set
    <2>2. ASSUME NEW r \in Requests, Work(r)
          PROVE  [Lifecycle!Next]_task
      <3>1. CASE MarkRunning(r)
        BY <2>0, <3>1 DEF MarkRunning, Sound, TaskFits, Lifecycle!Next, Lifecycle!Start,
           Lifecycle!Set
      <3>2. CASE Return(r)
        <4>1. req[r].kind = "async" => task[r] = "running"
          BY <2>0, <3>2 DEF Return, Sound, TaskFits, DeployLabels
        <4>2. \/ task' = task
              \/ /\ req[r].kind = "async"
                 /\ \/ task' = [task EXCEPT ![r] = "success"]
                    \/ task' = [task EXCEPT ![r] = "failed"]
          BY <3>2 DEF Return
        <4> QED
          BY <4>1, <4>2 DEF Lifecycle!Next, Lifecycle!Finish, Lifecycle!Set
      <3>3. CASE task' = task
        BY <3>3
      <3> QED
        BY <2>2, <3>1, <3>2, <3>3 DEF Work, MarkRunning, Build, Preflight, Pull, Replace, RunSucceeds, RunFails,
         SaveRecord, Return, PublishDone, Resolve, Inspect, PullTarget, StopOld,
         RemoveOld, SaveRollback, UpdateVersion, StopContainer, RemoveContainer, Backup,
         Lookup
    <2>3. ASSUME NEW r \in Requests, Panic(r)
          PROVE  [Lifecycle!Next]_task
      <3>1. req[r].kind = "async" => task[r] \in {"running", "success", "failed"}
        BY <2>0, <2>3 DEF Panic, Sound, TaskFits, DeployLabels
      <3>2. \/ task' = [task EXCEPT ![r] = "failed"] /\ req[r].kind = "async"
            \/ task' = task
        BY <2>0, <2>3 DEF Panic, TypeOK
      <3>3. task[r] = "failed" => [task EXCEPT ![r] = "failed"] = task
        BY <2>0 DEF TypeOK
      <3> QED
        BY <3>1, <3>2, <3>3 DEF Lifecycle!Next, Lifecycle!Finish, Lifecycle!Retract,
           Lifecycle!Set
    <2>4. CASE Crash
      BY <2>4 DEF Crash, Lifecycle!Next, Lifecycle!Forget
    <2>5. CASE (\E h \in Hosts, n \in Names : ContainerExits(h, n)) \/ UNCHANGED vars
      BY <2>5 DEF ContainerExits, vars
    <2> QED
      BY <1>2, <2>1, <2>2, <2>3, <2>4, <2>5 DEF Next
  <1> QED
    BY <1>1, <1>2, Invariance, PTL DEF Spec, TaskLifecycle, Lifecycle!Spec

-----------------------------------------------------------------------------
(***************************************************************************)
(* The history.                                                            *)
(***************************************************************************)

\* Another row leaves those of the host, and which of them is the latest.
LEMMA AppendKeeps ==
  ASSUME TypeOK, NEW n \in Names, NEW row \in Row, NEW h, row.status # "success" \/ row.host # h,
         history' = [history EXCEPT ![n] = Append(@, row)]
  PROVE  /\ RowsFor(h, n)' = RowsFor(h, n)
         /\ \A i \in RowsFor(h, n) : history'[n][i] = history[n][i]
  <1>1. history[n] \in Seq(Row) /\ Len(history[n]) \in Nat
    BY DEF TypeOK
  <1>2. history'[n] = Append(history[n], row)
    BY DEF TypeOK
  <1>3. /\ DOMAIN history'[n] = DOMAIN history[n] \cup {Len(history[n]) + 1}
        /\ history'[n][Len(history[n]) + 1] = row
        /\ \A i \in DOMAIN history[n] : history'[n][i] = history[n][i]
    BY <1>1, <1>2
  <1> QED
    BY <1>3 DEF RowsFor, SuccessRows

\* The rows of one name, and what its container is, decide what is told.
LEMMA ToldKeeps ==
  ASSUME NEW h, NEW n, RowsFor(h, n)' = RowsFor(h, n),
         \A i \in RowsFor(h, n) : history'[n][i] = history[n][i],
         ctr'[h][n].image = ctr[h][n].image, Told(h, n)
  PROVE  Told(h, n)'
  BY DEF Told, IsLatest

\* A row that is true of the host, or is not about it, leaves the history telling.
LEMMA AppendTold ==
  ASSUME TypeOK, NEW n \in Names, NEW row \in Row, NEW h, ctr' = ctr,
         history' = [history EXCEPT ![n] = Append(@, row)],
         \/ row.status = "success" /\ row.host = h /\ row.image = ctr[h][n].image
         \/ (row.status # "success" \/ row.host # h) /\ Told(h, n)
  PROVE  Told(h, n)'
  <1>1. CASE row.status = "success" /\ row.host = h /\ row.image = ctr[h][n].image
    <2>1. history[n] \in Seq(Row) /\ Len(history[n]) \in Nat
      BY DEF TypeOK
    <2>2. history'[n] = Append(history[n], row)
      BY DEF TypeOK
    <2>3. PICK k : k = Len(history[n]) + 1
      OBVIOUS
    <2>4. k \in DOMAIN history'[n] /\ history'[n][k] = row /\ \A j \in DOMAIN history'[n] : j <= k
      BY <2>1, <2>2, <2>3
    <2> QED
      BY <1>1, <2>4 DEF Told, RowsFor, SuccessRows, IsLatest
  <1>2. CASE (row.status # "success" \/ row.host # h) /\ Told(h, n)
    <2>1. /\ RowsFor(h, n)' = RowsFor(h, n)
          /\ \A i \in RowsFor(h, n) : history'[n][i] = history[n][i]
      BY <1>2, AppendKeeps
    <2> QED
      BY <1>2, <2>1, ToldKeeps
  <1> QED
    BY <1>1, <1>2

\* What a step of a request leaves as it is.
LEMMA WorkFrame ==
  ASSUME TypeOK, NEW r \in Requests, Control(r), Work(r)
  PROVE  /\ req'[r].name = req[r].name /\ req'[r].kind = req[r].kind /\ req'[r].host = req[r].host
         /\ InFlight(r)
         /\ \A n \in Names : n # req[r].name =>
              /\ history'[n] = history[n] /\ clean'[n] = clean[n]
              /\ \A h \in Hosts : ctr'[h][n] = ctr[h][n]
         /\ \A n \in Names : clean'[n] => clean[n]
  <1>0. /\ req[r] \in Request /\ req[r].name \in Names /\ req[r].host \in Hosts /\ Local \in Hosts
        /\ ctr \in [Hosts -> [Names -> Container]] /\ history \in [Names -> Seq(Row)]
        /\ clean \in [Names -> BOOLEAN]
    BY DEF TypeOK, Request, Hosts
  <1>1. req'[r].name = req[r].name /\ req'[r].kind = req[r].kind /\ req'[r].host = req[r].host
    <2>1. ASSUME NEW l \in Labels, Goto(r, l)
          PROVE  req'[r].name = req[r].name /\ req'[r].kind = req[r].kind /\ req'[r].host = req[r].host
      BY <2>1, GotoFields
    <2>2. ASSUME NEW v \in Verdicts, Conclude(r, v)
          PROVE  req'[r].name = req[r].name /\ req'[r].kind = req[r].kind /\ req'[r].host = req[r].host
      BY <2>2, ConcludeFields
    <2>3. CASE Preflight(r)
      <3>1. \/ Goto(r, "pull") \/ Conclude(r, "preflight_failed")
            \/ req'[r] = [req[r] EXCEPT !.pc = "return", !.verdict = "unreachable"]
        BY <2>3 DEF Preflight, TypeOK
      <3>2. CASE req'[r] = [req[r] EXCEPT !.pc = "return", !.verdict = "unreachable"]
        BY <1>0, <3>2 DEF Request
      <3> QED
        BY <2>1, <2>2, <3>1, <3>2 DEF Labels, Verdicts
    <2>4. CASE RunSucceeds(r)
      <3>1. req'[r] = [req[r] EXCEPT !.pc = AfterDeployer(r), !.verdict = "success", !.ran = TRUE]
        BY <2>4 DEF RunSucceeds, TypeOK
      <3> QED
        BY <1>0, <3>1 DEF Request
    <2>5. CASE Resolve(r)
      <3>1. \/ Goto(r, "inspect") \/ Goto(r, "done")
            \/ \E img : req'[r] = [req[r] EXCEPT !.pc = "inspect", !.image = img]
        BY <2>5 DEF Resolve, TypeOK
      <3>2. CASE \E img : req'[r] = [req[r] EXCEPT !.pc = "inspect", !.image = img]
        <4>1. PICK img : req'[r] = [req[r] EXCEPT !.pc = "inspect", !.image = img]
          BY <3>2
        <4> QED
          BY <1>0, <4>1 DEF Request
      <3> QED
        BY <2>1, <3>1, <3>2 DEF Labels
    <2>6. CASE Inspect(r)
      <3>1. PICK img : req'[r] = [req[r] EXCEPT !.pc = "pullTarget", !.from = img]
        BY <2>6 DEF Inspect, TypeOK
      <3> QED
        BY <1>0, <3>1 DEF Request
    <2>7. CASE Lookup(r)
      <3>1. \/ Goto(r, "done")
            \/ \E img : req'[r] = [req[r] EXCEPT !.pc = "stopOld", !.image = img]
        BY <2>7 DEF Lookup, TypeOK
      <3>2. CASE \E img : req'[r] = [req[r] EXCEPT !.pc = "stopOld", !.image = img]
        <4>1. PICK img : req'[r] = [req[r] EXCEPT !.pc = "stopOld", !.image = img]
          BY <3>2
        <4> QED
          BY <1>0, <4>1 DEF Request
      <3> QED
        BY <2>1, <3>1, <3>2 DEF Labels
    <2>8. CASE \E l \in Labels : Goto(r, l)
      BY <2>1, <2>8
    <2>9. CASE \E v \in Verdicts : Conclude(r, v)
      BY <2>2, <2>9
    <2>10. CASE \/ MarkRunning(r) \/ Build(r) \/ Replace(r) \/ SaveRecord(r) \/ Return(r)
                \/ PublishDone(r) \/ PullTarget(r) \/ StopOld(r) \/ RemoveOld(r)
                \/ SaveRollback(r) \/ UpdateVersion(r) \/ StopContainer(r)
                \/ RemoveContainer(r) \/ Backup(r) \/ Pull(r) \/ RunFails(r)
      <3>1. (\E l \in Labels : Goto(r, l)) \/ (\E v \in Verdicts : Conclude(r, v))
        BY <2>10 DEF Labels, Verdicts, MarkRunning, Build, Replace, SaveRecord, Return, PublishDone,
           PullTarget, StopOld, RemoveOld, SaveRollback, UpdateVersion, StopContainer,
           RemoveContainer, Backup, Pull, RunFails
      <3> QED
        BY <2>8, <2>9, <3>1
    <2> QED
      BY <2>3, <2>4, <2>5, <2>6, <2>7, <2>10 DEF Work
  <1>2. req[r].pc \notin {"new", "done", "lost"}
    BY DEF Work, MarkRunning, Build, Preflight, Pull, Replace, RunSucceeds, RunFails,
         SaveRecord, Return, PublishDone, Resolve, Inspect, PullTarget, StopOld,
         RemoveOld, SaveRollback, UpdateVersion, StopContainer, RemoveContainer, Backup,
         Lookup
  <1>3. ASSUME NEW n \in Names, n # req[r].name PROVE history'[n] = history[n]
    BY <1>0, <1>3 DEF Work, MarkRunning, Build, Preflight, Pull, Replace, RunSucceeds, RunFails,
         SaveRecord, Return, PublishDone, Resolve, Inspect, PullTarget, StopOld,
         RemoveOld, SaveRollback, UpdateVersion, StopContainer, RemoveContainer, Backup,
         Lookup
  <1>4. clean' = clean \/ clean' = [clean EXCEPT ![req[r].name] = FALSE]
    BY DEF Disturb, Work, MarkRunning, Build, Preflight, Pull, Replace, RunSucceeds, RunFails,
         SaveRecord, Return, PublishDone, Resolve, Inspect, PullTarget, StopOld,
         RemoveOld, SaveRollback, UpdateVersion, StopContainer, RemoveContainer, Backup,
         Lookup
  <1>5. ASSUME NEW n \in Names, n # req[r].name, NEW h \in Hosts PROVE ctr'[h][n] = ctr[h][n]
    <2>1. \/ \E g \in Hosts, c \in Container : ctr' = [ctr EXCEPT ![g][req[r].name] = c]
          \/ ctr' = [ctr EXCEPT ![Local][req[r].name].up = FALSE]
          \/ ctr' = ctr
      <3>1. \A b \in BOOLEAN : [image |-> req[r].image, up |-> b] \in Container
        BY <1>0 DEF Container, Request
      <3>2. Absent \in Container
        BY DEF Absent, Container
      <3> QED
        BY <1>0, <3>1, <3>2 DEF Create, Work, MarkRunning, Build, Preflight, Pull, Replace, RunSucceeds, RunFails,
         SaveRecord, Return, PublishDone, Resolve, Inspect, PullTarget, StopOld,
         RemoveOld, SaveRollback, UpdateVersion, StopContainer, RemoveContainer, Backup,
         Lookup
    <2>2. ASSUME NEW g \in Hosts, NEW c \in Container, ctr' = [ctr EXCEPT ![g][req[r].name] = c]
          PROVE  ctr'[h][n] = ctr[h][n]
      BY <1>0, <1>5, <2>2
    <2>3. ASSUME ctr' = [ctr EXCEPT ![Local][req[r].name].up = FALSE]
          PROVE  ctr'[h][n] = ctr[h][n]
      BY <1>0, <1>5, <2>3
    <2> QED
      BY <2>1, <2>2, <2>3
  <1> QED
    BY <1>0, <1>1, <1>2, <1>3, <1>4, <1>5 DEF InFlight

\* What the clause of HistoryInv says of one name.
Follows(n) ==
  clean[n] =>
    /\ Alone(n)
    /\ \A h \in Hosts : ctr[h][n].up => Told(h, n) \/ Owed(h, n)
    /\ \A r \in Requests : req[r].name = n => Placed(r)

\* A name of which neither the rows nor the containers change, and no request on it,
\* except that one may end that has nothing to write any more.
LEMMA FollowsKeeps ==
  ASSUME TypeOK, NEW n \in Names, Follows(n), clean'[n] => clean[n],
         history'[n] = history[n],
         \A h \in Hosts : \/ ctr'[h][n] = ctr[h][n] \/ ~ctr'[h][n].up,
         \A r \in Requests :
           \/ req'[r] = req[r]
           \/ ~InFlight(r)' /\ (req[r].name = n => req[r].pc # "save")
  PROVE  Follows(n)'
  <1> SUFFICES ASSUME clean'[n] PROVE Follows(n)'
    BY DEF Follows
  <1>0. Follows(n) /\ clean[n]
    OBVIOUS
  <1>1. Alone(n)'
    BY <1>0 DEF Follows, Alone, InFlight
  <1>2. ASSUME NEW h \in Hosts, ctr'[h][n].up PROVE Told(h, n)' \/ Owed(h, n)'
    <2>1. ctr'[h][n] = ctr[h][n] /\ (Told(h, n) \/ Owed(h, n))
      BY <1>0, <1>2 DEF Follows
    <2>2. Told(h, n) => Told(h, n)'
      BY <2>1 DEF Told, RowsFor, SuccessRows, IsLatest
    <2>3. Owed(h, n) => Owed(h, n)'
      BY DEF Owed, InFlight
    <2> QED
      BY <2>1, <2>2, <2>3
  <1>3. ASSUME NEW r \in Requests, req'[r].name = n PROVE Placed(r)'
    <2>1. CASE req'[r] = req[r]
      <3>1. Placed(r) /\ req[r].host \in Hosts
        BY <1>0, <1>3, <2>1 DEF Follows, TypeOK, Request
      <3> QED
        BY <1>3, <2>1, <3>1 DEF Placed, InFlight
    <2>2. CASE ~InFlight(r)'
      BY <2>2 DEF Placed
    <2> QED
      BY <2>1, <2>2
  <1> QED
    BY <1>1, <1>2, <1>3 DEF Follows

\* The request that moves, on a clean name: no other is in flight.
LEMMA WorkAlone ==
  ASSUME Inv, NEW r \in Requests, Work(r), NEW n \in Names, n = req[r].name, Follows(n), clean'[n]
  PROVE  /\ Alone(n)'
         /\ \A q \in Requests : q # r /\ req[q].name = n => ~InFlight(q) /\ ~InFlight(q)'
         /\ \A q \in Requests : q # r => req'[q] = req[q]
         /\ req[r].kind # "restore" /\ clean[n]
         /\ \A h \in Hosts : Owed(h, n) => req[r].pc = "save" /\ req[r].verdict = "success" /\ req[r].host = h
  <1>1. \A q \in Requests : q # r => req'[q] = req[q]
    BY Others DEF Inv
  <1>2. InFlight(r) /\ req'[r].name = req[r].name /\ req'[r].kind = req[r].kind
    BY WorkFrame DEF Inv
  <1>3. clean[n]
    BY WorkFrame DEF Inv
  <1>4. \A q \in Requests : InFlight(q) /\ req[q].name = n => q = r /\ req[q].kind # "restore"
    BY <1>2, <1>3 DEF Follows, Alone
  <1>5. \A q \in Requests : q # r /\ req[q].name = n => ~InFlight(q) /\ ~InFlight(q)'
    BY <1>1, <1>4 DEF InFlight
  <1>6. Alone(n)'
    BY <1>1, <1>2, <1>4 DEF Alone, InFlight
  <1>7. ASSUME NEW h \in Hosts, Owed(h, n)
        PROVE  req[r].pc = "save" /\ req[r].verdict = "success" /\ req[r].host = h
    <2>1. PICK q \in Requests : /\ req[q].pc = "save" /\ req[q].verdict = "success"
                                /\ req[q].name = n /\ req[q].host = h
      BY <1>7 DEF Owed
    <2> QED
      BY <1>4, <2>1 DEF InFlight
  <1> QED
    BY <1>1, <1>2, <1>3, <1>4, <1>5, <1>6, <1>7

\* From its docker run on, a request only writes what it did.
LEMMA WorkPlaced ==
  ASSUME Inv, NEW r \in Requests, Work(r), Follows(req[r].name), clean'[req[r].name]
  PROVE  Placed(r)'
  <1>0. /\ TypeOK /\ Truthful(r) /\ req[r] \in Request /\ req[r].name \in Names /\ req[r].host \in Hosts
        /\ req[r].kind # "restore"
    BY WorkAlone DEF Inv, TypeOK, Request
  <1>1. CASE RunSucceeds(r)
    <2>1. /\ ctr' = [ctr EXCEPT ![req[r].host][req[r].name] = [image |-> req[r].image, up |-> TRUE]]
          /\ req'[r] = [req[r] EXCEPT !.pc = AfterDeployer(r), !.verdict = "success", !.ran = TRUE]
      BY <1>0, <1>1 DEF RunSucceeds, Create, TypeOK
    <2>2. req'[r].image = req[r].image /\ req'[r].host = req[r].host /\ req'[r].name = req[r].name
      BY <1>0, <2>1 DEF Request
    <2>3. ctr'[req[r].host][req[r].name].image = req[r].image
      BY <1>0, <2>1 DEF TypeOK
    <2> QED
      BY <2>2, <2>3 DEF Placed
  <1>2. CASE ~req[r].ran /\ ~RunSucceeds(r)
    <2>1. req[r].verdict # "success"
      BY <1>0, <1>2 DEF Truthful
    <2>2. req'[r].verdict # "success"
      <3>1. ASSUME NEW l \in Labels, Goto(r, l) PROVE req'[r].verdict # "success"
        BY <1>0, <2>1, <3>1, GotoFields
      <3>2. ASSUME NEW v \in Verdicts, Conclude(r, v), v # "success" PROVE req'[r].verdict # "success"
        BY <1>0, <3>2, ConcludeFields
      <3>3. CASE Preflight(r)
        <4>1. \/ Goto(r, "pull") \/ Conclude(r, "preflight_failed")
              \/ req'[r] = [req[r] EXCEPT !.pc = "return", !.verdict = "unreachable"]
          BY <1>0, <3>3 DEF Preflight, TypeOK
        <4>2. CASE req'[r] = [req[r] EXCEPT !.pc = "return", !.verdict = "unreachable"]
          BY <1>0, <4>2 DEF Request
        <4> QED
          BY <3>1, <3>2, <4>1, <4>2 DEF Labels, Verdicts
      <3>4. CASE Resolve(r)
        <4>1. \/ Goto(r, "inspect") \/ Goto(r, "done")
              \/ \E img : req'[r] = [req[r] EXCEPT !.pc = "inspect", !.image = img]
          BY <1>0, <3>4 DEF Resolve, TypeOK
        <4>2. CASE \E img : req'[r] = [req[r] EXCEPT !.pc = "inspect", !.image = img]
          <5>1. PICK img : req'[r] = [req[r] EXCEPT !.pc = "inspect", !.image = img]
            BY <4>2
          <5> QED
            BY <1>0, <2>1, <5>1 DEF Request
        <4> QED
          BY <3>1, <4>1, <4>2 DEF Labels
      <3>5. CASE Inspect(r)
        <4>1. PICK img : req'[r] = [req[r] EXCEPT !.pc = "pullTarget", !.from = img]
          BY <1>0, <3>5 DEF Inspect, TypeOK
        <4> QED
          BY <1>0, <2>1, <4>1 DEF Request
      <3>6. CASE Lookup(r)
        <4>1. req[r].kind = "restore"
          BY <1>0, <3>6, KindAt DEF Inv, Lookup
        <4> QED
          BY <1>0, <4>1
      <3>7. CASE \/ MarkRunning(r) \/ Build(r) \/ Replace(r) \/ SaveRecord(r) \/ Return(r)
                 \/ PublishDone(r) \/ PullTarget(r) \/ StopOld(r) \/ RemoveOld(r)
                 \/ SaveRollback(r) \/ UpdateVersion(r) \/ StopContainer(r)
                 \/ RemoveContainer(r) \/ Backup(r) \/ Pull(r) \/ RunFails(r)
        <4>1. \/ \E l \in Labels : Goto(r, l)
              \/ \E v \in Verdicts : v # "success" /\ Conclude(r, v)
          BY <3>7 DEF Labels, Verdicts, MarkRunning, Build, Replace, SaveRecord, Return, PublishDone,
             PullTarget, StopOld, RemoveOld, SaveRollback, UpdateVersion, StopContainer,
             RemoveContainer, Backup, Pull, RunFails
        <4> QED
          BY <3>1, <3>2, <4>1
      <3> QED
        BY <1>2, <3>3, <3>4, <3>5, <3>6, <3>7 DEF Work
    <2> QED
      BY <2>2 DEF Placed
  <1>3. CASE req[r].ran
    <2>1. req[r].pc \in {"save", "return", "publish", "saveRollback", "updateVersion"}
      <3>1. InFlight(r)
        BY <1>0, WorkFrame DEF Inv
      <3> QED
        BY <1>0, <1>3, <3>1 DEF Truthful, AfterRun, InFlight
    <2>2. ctr' = ctr /\ \E l \in Labels : Goto(r, l)
      BY <2>1 DEF Labels, Work, MarkRunning, Build, Preflight, Pull, Replace, RunSucceeds, RunFails,
         SaveRecord, Return, PublishDone, Resolve, Inspect, PullTarget, StopOld,
         RemoveOld, SaveRollback, UpdateVersion, StopContainer, RemoveContainer, Backup,
         Lookup
    <2>3. /\ req'[r].image = req[r].image /\ req'[r].host = req[r].host /\ req'[r].name = req[r].name
          /\ req'[r].verdict = req[r].verdict
      BY <1>0, <2>2, GotoFields
    <2>4. Placed(r) /\ InFlight(r)
      <3>1. clean[req[r].name] /\ InFlight(r)
        BY <1>0, WorkFrame DEF Inv
      <3> QED
        BY <3>1 DEF Follows
    <2> QED
      BY <2>2, <2>3, <2>4 DEF Placed
  <1> QED
    BY <1>1, <1>2, <1>3

\* What is up after a step of a request is told, or owed by it.
LEMMA WorkTells ==
  ASSUME Inv, NEW r \in Requests, Work(r), NEW n \in Names, n = req[r].name, Follows(n), clean'[n],
         NEW h \in Hosts, ctr'[h][n].up
  PROVE  Told(h, n)' \/ Owed(h, n)'
  <1>0. /\ TypeOK /\ Truthful(r) /\ req[r] \in Request /\ n \in Names /\ req[r].host \in Hosts
        /\ Local \in Hosts /\ clean[n] /\ InFlight(r)
        /\ ctr \in [Hosts -> [Names -> Container]]
    BY WorkAlone, WorkFrame DEF Inv, TypeOK, Request, Hosts
  <1>1. ctr[h][n].up => Told(h, n) \/ Owed(h, n)
    BY <1>0 DEF Follows
  <1>2. Owed(h, n) => req[r].pc = "save" /\ req[r].verdict = "success" /\ req[r].host = h
    BY WorkAlone
  <1>3. ASSUME history' = history, ctr'[h][n] = ctr[h][n], req[r].pc # "save"
        PROVE  Told(h, n)'
    <2>1. Told(h, n)
      BY <1>1, <1>2, <1>3
    <2> QED
      BY <1>3, <2>1 DEF Told, RowsFor, SuccessRows, IsLatest
  <1>4. CASE RunSucceeds(r) /\ h = req[r].host
    <2>1. req'[r] = [req[r] EXCEPT !.pc = AfterDeployer(r), !.verdict = "success", !.ran = TRUE]
      BY <1>0, <1>4 DEF RunSucceeds, TypeOK
    <2>2. AfterDeployer(r) = "save"
      BY WorkAlone DEF AfterDeployer
    <2>3. /\ req'[r].pc = "save" /\ req'[r].verdict = "success" /\ req'[r].name = n /\ req'[r].host = h
      BY <1>0, <1>4, <2>1, <2>2 DEF Request
    <2> QED
      BY <2>3 DEF Owed
  <1>5. CASE RunSucceeds(r) /\ h # req[r].host
    <2>1. ctr'[h][n] = ctr[h][n] /\ history' = history /\ req[r].pc = "run"
      BY <1>0, <1>5 DEF RunSucceeds, Create
    <2> QED
      BY <1>3, <2>1
  <1>6. CASE RunFails(r)
    <2>1. history' = history /\ req[r].pc = "run"
      BY <1>6 DEF RunFails
    <2>2. ctr' = ctr \/ Create(r, FALSE)
      <3>1. ~Disturb(n)
        BY <1>0 DEF Disturb, TypeOK
      <3> QED
        BY <1>6, <3>1 DEF RunFails
    <2>3. ctr'[h][n] = ctr[h][n]
      <3>1. CASE Create(r, FALSE)
        <4>1. CASE h = req[r].host
          BY <1>0, <3>1, <4>1 DEF Create
        <4>2. CASE h # req[r].host
          BY <1>0, <3>1, <4>2 DEF Create
        <4> QED
          BY <4>1, <4>2
      <3> QED
        BY <2>2, <3>1
    <2> QED
      BY <1>3, <2>1, <2>3
  <1>7. ASSUME NEW row \in {DeployRow(r), RollbackRow(r)},
               history' = [history EXCEPT ![n] = Append(@, row)], ctr' = ctr,
               row.status = "success" => req[r].verdict = "success",
               req[r].pc = "save" => row.status = req[r].verdict
        PROVE  Told(h, n)'
    <2>1. row \in Row /\ row.image = req[r].image /\ row.host = req[r].host
      BY <1>0, <1>7 DEF DeployRow, RollbackRow, Row, Request, Verdicts
    <2>2. CASE row.status = "success" /\ row.host = h
      <3>1. ctr[h][n].image = req[r].image
        <4>1. Placed(r)
          BY <1>0 DEF Follows
        <4> QED
          BY <1>0, <1>7, <2>1, <2>2, <4>1 DEF Placed
      <3> QED
        BY <1>0, <1>7, <2>1, <2>2, <3>1, AppendTold
    <2>3. CASE row.status # "success" \/ row.host # h
      <3>1. Told(h, n)
        BY <1>1, <1>2, <1>7, <2>1, <2>3
      <3> QED
        BY <1>0, <1>7, <2>1, <2>3, <3>1, AppendTold
    <2> QED
      BY <2>2, <2>3
  <1>8. CASE SaveRecord(r)
    <2>1. ~Disturb(n)
      BY <1>0 DEF Disturb, TypeOK
    <2>2. history' = [history EXCEPT ![n] = Append(@, DeployRow(r))] /\ ctr' = ctr
      BY <1>8, <2>1 DEF SaveRecord
    <2>3. DeployRow(r).status = req[r].verdict
      BY DEF DeployRow
    <2> QED
      BY <1>7, <2>2, <2>3
  <1>9. CASE SaveRollback(r)
    <2>1. req[r].pc = "saveRollback" /\ ctr' = ctr
      BY <1>9 DEF SaveRollback
    <2>2. CASE history' = history
      BY <1>3, <2>1, <2>2
    <2>3. CASE history' = [history EXCEPT ![n] = Append(@, RollbackRow(r))]
      <3>1. RollbackRow(r).status = "success" => req[r].verdict = "success"
        BY DEF RollbackRow
      <3> QED
        BY <1>7, <2>1, <2>3, <3>1
    <2> QED
      BY <1>9, <2>2, <2>3 DEF SaveRollback
  <1>10. CASE \/ Replace(r) \/ StopOld(r) \/ RemoveOld(r) \/ StopContainer(r) \/ RemoveContainer(r)
    <2>1. history' = history /\ req[r].pc # "save"
      BY <1>10 DEF Replace, StopOld, RemoveOld, StopContainer, RemoveContainer
    <2>2. \/ ctr' = ctr \/ \E g \in Hosts : ctr' = [ctr EXCEPT ![g][n] = Absent]
          \/ ctr' = [ctr EXCEPT ![Local][n].up = FALSE]
      BY <1>0, <1>10 DEF Replace, StopOld, RemoveOld, StopContainer, RemoveContainer
    <2>3. ASSUME NEW g \in Hosts, ctr' = [ctr EXCEPT ![g][n] = Absent]
          PROVE  ctr'[h][n] = ctr[h][n]
      BY <1>0, <2>3 DEF Absent
    <2>4. ASSUME ctr' = [ctr EXCEPT ![Local][n].up = FALSE]
          PROVE  ctr'[h][n] = ctr[h][n]
      <3>1. CASE h = Local
        <4>1. ctr'[h][n] = [ctr[h][n] EXCEPT !.up = FALSE] /\ ctr[h][n] \in Container
          BY <1>0, <2>4, <3>1
        <4> QED
          BY <4>1 DEF Container
      <3>2. CASE h # Local
        BY <1>0, <2>4, <3>2
      <3> QED
        BY <3>1, <3>2
    <2> QED
      BY <1>3, <2>1, <2>2, <2>3, <2>4
  <1>11. CASE \/ MarkRunning(r) \/ Build(r) \/ Preflight(r) \/ Pull(r) \/ Return(r) \/ PublishDone(r)
              \/ Resolve(r) \/ Inspect(r) \/ PullTarget(r) \/ UpdateVersion(r) \/ Backup(r) \/ Lookup(r)
    <2>1. history' = history /\ ctr' = ctr /\ req[r].pc # "save"
      BY <1>11 DEF MarkRunning, Build, Preflight, Pull, Return, PublishDone, Resolve, Inspect,
         PullTarget, UpdateVersion, Backup, Lookup
    <2> QED
      BY <1>3, <2>1
  <1> QED
    BY <1>4, <1>5, <1>6, <1>8, <1>9, <1>10, <1>11 DEF Work

\* A step of a request keeps what is said of every name.
LEMMA FollowsWork ==
  ASSUME Inv, NEW r \in Requests, Work(r), NEW n \in Names, Follows(n)
  PROVE  Follows(n)'
  <1>0. /\ TypeOK /\ req[r].name \in Names /\ req'[r].name = req[r].name
        /\ \A q \in Requests : q # r => req'[q] = req[q]
    BY WorkFrame, Others DEF Inv, TypeOK, Request
  <1>1. CASE n = req[r].name
    <2> SUFFICES ASSUME clean'[n] PROVE Follows(n)'
      BY DEF Follows
    <2>1. Alone(n)' /\ Placed(r)'
      BY <1>1, WorkAlone, WorkPlaced
    <2>2. \A h \in Hosts : ctr'[h][n].up => Told(h, n)' \/ Owed(h, n)'
      BY <1>1, WorkTells
    <2>3. \A q \in Requests : req'[q].name = n => Placed(q)'
      <3>1. ASSUME NEW q \in Requests, q # r, req'[q].name = n PROVE Placed(q)'
        BY <1>0, <1>1, <3>1, WorkAlone DEF Placed
      <3> QED
        BY <2>1, <3>1
    <2> QED
      BY <2>1, <2>2, <2>3 DEF Follows
  <1>2. CASE n # req[r].name
    <2>1. /\ history'[n] = history[n] /\ clean'[n] = clean[n] /\ \A h \in Hosts : ctr'[h][n] = ctr[h][n]
      BY <1>2, WorkFrame DEF Inv
    <2> SUFFICES ASSUME clean[n] PROVE Follows(n)'
      BY <2>1 DEF Follows
    <2>2. Alone(n)'
      BY <1>0, <1>2 DEF Follows, Alone, InFlight
    <2>3. ASSUME NEW h \in Hosts, ctr'[h][n].up PROVE Told(h, n)' \/ Owed(h, n)'
      <3>1. Told(h, n) \/ Owed(h, n)
        BY <2>1, <2>3 DEF Follows
      <3>2. Told(h, n) => Told(h, n)'
        BY <2>1 DEF Told, RowsFor, SuccessRows, IsLatest
      <3>3. Owed(h, n) => Owed(h, n)'
        BY <1>0, <1>2 DEF Owed
      <3> QED
        BY <3>1, <3>2, <3>3
    <2>4. ASSUME NEW q \in Requests, req'[q].name = n PROVE Placed(q)'
      <3>1. q # r /\ req'[q] = req[q] /\ Placed(q) /\ req[q].host \in Hosts
        BY <1>0, <1>2, <2>4 DEF Follows, TypeOK, Request
      <3> QED
        BY <2>1, <2>4, <3>1 DEF Placed, InFlight
    <2> QED
      BY <2>2, <2>3, <2>4 DEF Follows
  <1> QED
    BY <1>1, <1>2

LEMMA FollowsArrive ==
  ASSUME Inv, NEW r \in Requests, Arrive(r), NEW n \in Names, Follows(n)
  PROVE  Follows(n)'
  <1>0. TypeOK /\ \A q \in Requests : q # r => req'[q] = req[q]
    BY Others DEF Inv
  <1>1. PICK kind \in Calls, m \in Names, img \in Images \cup {NoImage}, h \in Hosts :
          Begin(r, kind, m, img, h)
    BY DEF Arrive
  <1>2. /\ req[r].pc = "new" /\ history' = history /\ ctr' = ctr /\ kind \in Kinds
        /\ req'[r].name = m /\ req'[r].kind = kind /\ req'[r].verdict = "none"
    BY <1>0, <1>1 DEF Begin, TypeOK
  <1>3. /\ clean'[n] => clean[n]
        /\ clean'[m] => ~Busy(m) /\ kind # "restore"
    BY <1>0, <1>1 DEF Begin, TypeOK
  <1> SUFFICES ASSUME clean'[n] PROVE Follows(n)'
    BY DEF Follows
  <1>4. clean[n] /\ Alone(n)
    BY <1>3 DEF Follows
  <1>5. Alone(n)'
    <2>1. CASE n = m
      <3>1. \A q \in Requests : q # r => ~(InFlight(q)' /\ req'[q].name = n)
        BY <1>0, <1>3, <2>1 DEF Busy, InFlight
      <3> QED
        BY <1>2, <1>3, <2>1, <3>1 DEF Alone
    <2>2. CASE n # m
      BY <1>0, <1>2, <1>4, <2>2 DEF Alone, InFlight
    <2> QED
      BY <2>1, <2>2
  <1>6. ASSUME NEW g \in Hosts, ctr'[g][n].up PROVE Told(g, n)' \/ Owed(g, n)'
    <2>1. Told(g, n) \/ Owed(g, n)
      BY <1>2, <1>4, <1>6 DEF Follows
    <2>2. Told(g, n) => Told(g, n)'
      BY <1>2 DEF Told, RowsFor, SuccessRows, IsLatest
    <2>3. Owed(g, n) => Owed(g, n)'
      BY <1>0, <1>2 DEF Owed
    <2> QED
      BY <2>1, <2>2, <2>3
  <1>7. ASSUME NEW q \in Requests, req'[q].name = n PROVE Placed(q)'
    <2>1. CASE q = r
      BY <1>2, <2>1 DEF Placed
    <2>2. CASE q # r
      BY <1>0, <1>2, <1>4, <1>7, <2>2 DEF Follows, Placed, InFlight
    <2> QED
      BY <2>1, <2>2
  <1> QED
    BY <1>5, <1>6, <1>7 DEF Follows

LEMMA FollowsStep ==
  ASSUME Inv, [Next]_vars, NEW n \in Names, Follows(n)
  PROVE  Follows(n)'
  <1>0. TypeOK
    BY DEF Inv
  <1>1. ASSUME NEW r \in Requests, Panic(r) PROVE Follows(n)'
    <2>1. /\ history' = history /\ ctr' = ctr /\ clean' = clean /\ req[r].pc # "save"
          /\ req'[r].pc = "done"
      BY <1>0, <1>1, GotoFields DEF Panic
    <2>2. \A q \in Requests : q # r => req'[q] = req[q]
      BY <1>0, <1>1, Others
    <2>3. ~InFlight(r)'
      BY <2>1 DEF InFlight
    <2> QED
      BY <1>0, <2>1, <2>2, <2>3, FollowsKeeps
  <1>2. ASSUME NEW g \in Hosts, NEW m \in Names, ContainerExits(g, m) PROVE Follows(n)'
    <2>1. /\ history' = history /\ clean' = clean /\ req' = req
          /\ ctr' = [ctr EXCEPT ![g][m].up = FALSE] /\ ctr \in [Hosts -> [Names -> Container]]
      BY <1>0, <1>2 DEF ContainerExits, TypeOK
    <2>2. ASSUME NEW h \in Hosts PROVE ctr'[h][n] = ctr[h][n] \/ ~ctr'[h][n].up
      <3>1. CASE h = g /\ n = m
        <4>1. ctr'[h][n] = [ctr[h][n] EXCEPT !.up = FALSE] /\ ctr[h][n] \in Container
          BY <2>1, <3>1
        <4> QED
          BY <4>1 DEF Container
      <3>2. CASE ~(h = g /\ n = m)
        BY <2>1, <3>2
      <3> QED
        BY <3>1, <3>2
    <2> QED
      BY <1>0, <2>1, <2>2, FollowsKeeps
  <1>3. CASE Crash
    <2>1. /\ history' = history /\ ctr' = ctr /\ clean'[n] = (clean[n] /\ ~Busy(n))
          /\ \A q \in Requests : req'[q] = IF InFlight(q) THEN [req[q] EXCEPT !.pc = "lost"] ELSE req[q]
      BY <1>3 DEF Crash
    <2> SUFFICES ASSUME clean'[n] PROVE Follows(n)'
      BY DEF Follows
    <2>2. clean[n] /\ \A q \in Requests : InFlight(q) => req[q].name # n
      BY <2>1 DEF Busy
    <2>3. \A q \in Requests : req'[q] = req[q] \/ (~InFlight(q)' /\ (req[q].name = n => req[q].pc # "save"))
      <3>1. ASSUME NEW q \in Requests, InFlight(q) PROVE ~InFlight(q)' /\ req[q].name # n
        <4>1. req'[q].pc = "lost"
          BY <1>0, <2>1, <3>1 DEF TypeOK, Request
        <4> QED
          BY <2>2, <3>1, <4>1 DEF InFlight
      <3> QED
        BY <2>1, <3>1
    <2> QED
      BY <1>0, <2>1, <2>2, <2>3, FollowsKeeps
  <1>4. CASE UNCHANGED vars
    <2>1. history' = history /\ ctr' = ctr /\ clean' = clean /\ req' = req
      BY <1>4 DEF vars
    <2> QED
      BY <1>0, <2>1, FollowsKeeps
  <1> QED
    BY <1>1, <1>2, <1>3, <1>4, FollowsWork, FollowsArrive DEF Next

\* While requests come one at a time, what is up was told by the latest success of its
\* host, or the request that has put it there is about to write its row.
THEOREM HistoryInvariance == Spec => []HistoryInv
  <1>1. Init => HistoryInv
    <2> SUFFICES ASSUME Init PROVE HistoryInv
      OBVIOUS
    <2>1. Inv
      BY InvInit
    <2>2. /\ \A r \in Requests : req[r].pc = "new"
          /\ \A h \in Hosts, n \in Names : ~ctr[h][n].up
      BY DEF Init, NotMade, Absent
    <2> QED
      BY <2>1, <2>2 DEF HistoryInv, Alone, Placed, InFlight
  <1>2. HistoryInv /\ [Next]_vars => HistoryInv'
    <2> SUFFICES ASSUME HistoryInv, [Next]_vars PROVE HistoryInv'
      OBVIOUS
    <2>1. Inv' /\ \A n \in Names : Follows(n)'
      BY InvStep, FollowsStep DEF HistoryInv, Follows
    <2> QED
      BY <2>1 DEF HistoryInv, Follows
  <1> QED
    BY <1>1, <1>2, PTL DEF Spec

\* What the history says is what runs (Deploy, RollbackWithType, Stop and Remove with
\* saveDeploymentRecord and saveRollbackRecord).
THEOREM HistoryCorrect == Spec => []HistoryTellsWhatRuns
  <1>1. HistoryInv => HistoryTellsWhatRuns
    BY DEF HistoryInv, HistoryTellsWhatRuns, Busy, InFlight, Told, Owed
  <1> QED
    BY <1>1, HistoryInvariance, PTL

=============================================================================
