----------------------------- MODULE Deployment -----------------------------
(***************************************************************************)
(* The deployment engine of DeployPilot: Bridge.Deploy, DeployAsync,       *)
(* BuildAndDeploy, RollbackWithType, Backup, Restore, Stop and Remove,     *)
(* running concurrently as requests over the containers of several hosts,  *)
(* the deployment history in the database and the tables in memory.        *)
(*                                                                         *)
(* One step is one command sent to a Docker host, one database statement   *)
(* or one critical section on an in-memory table.  A command may fail, and *)
(* a failed command may nevertheless have taken effect (the answer was     *)
(* lost, the context expired).  Docker, the hosts and the registry are     *)
(* external.                                                               *)
(***************************************************************************)
EXTENDS Naturals, Sequences

CONSTANTS
  Requests,    \* API or MCP calls; each one is made at most once
  Calls,       \* bound: the kinds of calls that are made
  Local,       \* the host behind Bridge.Executor
  Remotes,     \* the hosts with a row in the table "servers"
  Names,       \* container names
  Images,      \* image references
  NoImage,     \* stands for the empty image reference
  Fallback,    \* the image Restore takes for an app without current version
  Published,   \* the images a docker pull finds in the registry
  WithApp,     \* the container names that have a row in the table "apps"
  MaxCrashes   \* bound: how often the server process dies

Kinds == {"deploy", "async", "build", "rollback", "stop", "remove", "backup", "restore"}

ASSUME DeploymentAssumption ==
  /\ Calls \subseteq Kinds
  /\ Local \notin Remotes
  /\ NoImage \notin Images
  /\ Fallback \in Images
  /\ Published \subseteq Images
  /\ WithApp \subseteq Names
  /\ MaxCrashes \in Nat

VARIABLES
  ctr,      \* ctr[h][n]: the container called n on host h (external)
  stored,   \* stored[h]: the images in host h's image store (external)
  history,  \* history[n]: the rows of table "deployments" for n, oldest first
  version,  \* version[n]: apps.current_version
  backups,  \* the names some backup of which is in Bridge.backupApps
  task,     \* task[r]: the status Bridge.tasks keeps for request r
  req,      \* req[r]: where request r stands, and its local variables
  crashes,  \* number of process deaths so far
  clean     \* clean[n]: nothing ever disturbed the requests on n (history variable)

vars == <<ctr, stored, history, version, backups, task, req, crashes, clean>>

Hosts == {Local} \cup Remotes

Labels == {"new", "mark", "build", "resolve", "inspect", "pullTarget", "lookup",
           "stopOld", "removeOld", "preflight", "pull", "replace", "run", "save",
           "return", "publish", "saveRollback", "updateVersion", "stop", "remove",
           "backup", "done", "lost"}

Verdicts == {"none", "unreachable", "preflight_failed", "failed", "success"}

TaskStatus == {"none", "pending", "running", "success", "failed"}

\* A container: the image it was created from (NoImage when there is no
\* container of that name), and whether it is running.
Container == [image : Images \cup {NoImage}, up : BOOLEAN]

Absent == [image |-> NoImage, up |-> FALSE]

\* One row of the table "deployments"; "by" is the request that wrote it.
Row == [image : Images \cup {NoImage}, host : Hosts, status : Verdicts,
        type : {"deploy", "rollback"}, by : Requests]

(***************************************************************************)
(* A request: its parameters (image is NoImage in a rollback that is to    *)
(* find its target itself), from = the image a rollback found in place,    *)
(* verdict = how Deploy ended, ran = whether its docker run has put a      *)
(* running container in place and said so (history variable).              *)
(***************************************************************************)
Request == [kind : Kinds, pc : Labels, name : Names, image : Images \cup {NoImage},
            host : Hosts, from : Images \cup {NoImage}, verdict : Verdicts,
            ran : BOOLEAN]

InFlight(r) == req[r].pc \notin {"new", "done", "lost"}

Busy(n) == \E r \in Requests : InFlight(r) /\ req[r].name = n

\* Rows that a query with status = "success" finds, and the latest of them.
SuccessRows(n) == {i \in DOMAIN history[n] : history[n][i].status = "success"}

IsLatest(i, S) == i \in S /\ \A j \in S : j <= i

Goto(r, label) == req' = [req EXCEPT ![r].pc = label]

\* Where a request goes on when the deployer returns: the record is written next,
\* except by a restore, which calls the deployer without Bridge.Deploy.
AfterDeployer(r) == IF req[r].kind = "restore" THEN "done" ELSE "save"

Conclude(r, v) ==
  req' = [req EXCEPT ![r] = [@ EXCEPT !.pc = AfterDeployer(r), !.verdict = v]]

Disturb(n) == clean' = [clean EXCEPT ![n] = FALSE]

-----------------------------------------------------------------------------
(***************************************************************************)
(* A request arrives.  DeployAsync creates its task before anything else.  *)
(***************************************************************************)

FirstLabel == [deploy |-> "preflight", async |-> "mark", build |-> "build",
               rollback |-> "resolve", stop |-> "stop", remove |-> "remove",
               backup |-> "backup", restore |-> "lookup"]

\* Only Deploy takes a server, the other calls use the local executor; a
\* restore and a backup take an app.  A restore writes no record of what it
\* deploys, so that the history cannot tell what runs after one.
Begin(r, kind, n, img, h) ==
  /\ req[r].pc = "new"
  /\ kind \notin {"deploy", "async", "build"} => h = Local
  /\ kind \in {"deploy", "async", "build"} => img # NoImage
  /\ kind \in {"stop", "remove", "backup", "restore"} => img = NoImage
  /\ kind \in {"backup", "restore"} => n \in WithApp
  /\ req' = [req EXCEPT ![r] =
       [kind |-> kind, pc |-> FirstLabel[kind], name |-> n, image |-> img,
        host |-> h, from |-> NoImage, verdict |-> "none", ran |-> FALSE]]
  /\ task' = [task EXCEPT ![r] = IF kind = "async" THEN "pending" ELSE @]
  /\ clean' = [clean EXCEPT ![n] = @ /\ ~Busy(n) /\ kind # "restore"]
  /\ UNCHANGED <<ctr, stored, history, version, backups, crashes>>

\* Mutant: the task is marked done when the deploy starts.
MarkDone(r) ==
  /\ req[r].pc = "mark"
  /\ task' = [task EXCEPT ![r] = "success"]
  /\ Goto(r, "preflight")
  /\ UNCHANGED <<ctr, stored, history, version, backups, crashes, clean>>

MarkRunning(r) ==
  /\ req[r].pc = "mark"
  /\ task' = [task EXCEPT ![r] = "running"]
  /\ Goto(r, "preflight")
  /\ UNCHANGED <<ctr, stored, history, version, backups, crashes, clean>>

\* Builder.BuildAndDeploy: clone, detect, docker build on the local host.  The
\* image tag is local; pushing it yields another reference, which Deploy ignores.
Build(r) ==
  /\ req[r].pc = "build"
  /\ \/ /\ stored' = [stored EXCEPT ![Local] = @ \cup {req[r].image}]
        /\ Goto(r, "preflight") \/ Goto(r, "done")
     \/ /\ Goto(r, "done")
        /\ UNCHANGED stored
  /\ UNCHANGED <<ctr, history, version, backups, task, crashes, clean>>

-----------------------------------------------------------------------------
(***************************************************************************)
(* Bridge.Deploy and DockerDeployer.Deploy.                                *)
(***************************************************************************)

\* The server row and the SSH connection, then RunPreflight: TCP, SSH, Docker
\* and the port check may each refuse.  None of them changes a host; a port
\* check whose own command fails counts as passed.
Preflight(r) ==
  /\ req[r].pc = "preflight"
  /\ \/ Goto(r, "pull")
     \/ Conclude(r, "preflight_failed")
     \/ /\ req[r].host # Local
        /\ req' = [req EXCEPT ![r] = [@ EXCEPT !.pc = "return", !.verdict = "unreachable"]]
  /\ UNCHANGED <<ctr, stored, history, version, backups, task, crashes, clean>>

\* Mutant: an image that is already in the store does for a failed pull.
PullOrStored(r) ==
  /\ req[r].pc = "pull"
  /\ \/ /\ req[r].image \in Published
        /\ stored' = [stored EXCEPT ![req[r].host] = @ \cup {req[r].image}]
        /\ Goto(r, "replace") \/ Conclude(r, "failed")
     \/ /\ IF req[r].image \in stored[req[r].host]
           THEN Goto(r, "replace") ELSE Conclude(r, "failed")
        /\ UNCHANGED stored
  /\ UNCHANGED <<ctr, history, version, backups, task, crashes, clean>>

Pull(r) ==
  /\ req[r].pc = "pull"
  /\ \/ /\ req[r].image \in Published
        /\ stored' = [stored EXCEPT ![req[r].host] = @ \cup {req[r].image}]
        /\ Goto(r, "replace") \/ Conclude(r, "failed")
     \/ /\ Conclude(r, "failed")
        /\ UNCHANGED stored
  /\ UNCHANGED <<ctr, history, version, backups, task, crashes, clean>>

\* docker rm -f ... || true: whether it worked is not looked at.
Replace(r) ==
  /\ req[r].pc = "replace"
  /\ \/ ctr' = [ctr EXCEPT ![req[r].host][req[r].name] = Absent]
     \/ UNCHANGED ctr
  /\ Goto(r, "run")
  /\ UNCHANGED <<stored, history, version, backups, task, crashes, clean>>

\* docker run creates the container, if the name is free; it may then fail to
\* start it, for instance because a port is taken.
CanCreate(r) == ctr[req[r].host][req[r].name] = Absent

Create(r, up) ==
  ctr' = [ctr EXCEPT ![req[r].host][req[r].name] = [image |-> req[r].image, up |-> up]]

RunSucceeds(r) ==
  /\ req[r].pc = "run"
  /\ CanCreate(r)
  /\ Create(r, TRUE)
  /\ req' = [req EXCEPT ![r] = [@ EXCEPT !.pc = AfterDeployer(r),
                                            !.verdict = "success", !.ran = TRUE]]
  /\ UNCHANGED <<stored, history, version, backups, task, crashes, clean>>

\* docker run reports an error: nothing was created, the container was created
\* and not started, or it runs and the answer was lost.
RunFails(r) ==
  /\ req[r].pc = "run"
  /\ Conclude(r, "failed")
  /\ \/ UNCHANGED <<ctr, clean>>
     \/ CanCreate(r) /\ Create(r, FALSE) /\ UNCHANGED clean
     \/ CanCreate(r) /\ Create(r, TRUE) /\ Disturb(req[r].name)
  /\ UNCHANGED <<stored, history, version, backups, task, crashes>>

\* Mutants: the record is written before the error is looked at; without its
\* server.
OptimisticRow(r) ==
  [image |-> req[r].image, host |-> req[r].host, type |-> "deploy", by |-> r,
   status |-> IF req[r].verdict = "failed" THEN "success" ELSE req[r].verdict]

RowWithoutServer(r) ==
  [image |-> req[r].image, host |-> Local, type |-> "deploy", by |-> r,
   status |-> req[r].verdict]

DeployRow(r) ==
  [image |-> req[r].image, host |-> req[r].host, type |-> "deploy", by |-> r,
   status |-> req[r].verdict]

\* saveDeploymentRecord: an error of the insert is only logged.
SaveRecord(r) ==
  /\ req[r].pc = "save"
  /\ \/ /\ history' = [history EXCEPT ![req[r].name] = Append(@, DeployRow(r))]
        /\ UNCHANGED clean
     \/ /\ Disturb(req[r].name)
        /\ UNCHANGED history
  /\ Goto(r, "return")
  /\ UNCHANGED <<ctr, stored, version, backups, task, crashes>>

\* Mutants: DeployAsync takes the verdict for a task status; it forgets to
\* update the task on one of the error returns.
ReturnVerdict(r) ==
  /\ req[r].pc = "return"
  /\ task' = [task EXCEPT ![r] = IF req[r].kind = "async" THEN req[r].verdict ELSE @]
  /\ Goto(r, IF req[r].kind = "async" THEN "publish"
             ELSE IF req[r].kind = "rollback" THEN "saveRollback" ELSE "done")
  /\ UNCHANGED <<ctr, stored, history, version, backups, crashes, clean>>

ReturnForgets(r) ==
  /\ req[r].pc = "return"
  /\ task' = [task EXCEPT ![r] = IF req[r].kind # "async" \/ req[r].verdict = "unreachable"
                                 THEN @
                                 ELSE IF req[r].verdict = "success" THEN "success"
                                 ELSE "failed"]
  /\ Goto(r, IF req[r].kind = "async" THEN "publish"
             ELSE IF req[r].kind = "rollback" THEN "saveRollback" ELSE "done")
  /\ UNCHANGED <<ctr, stored, history, version, backups, crashes, clean>>

\* Deploy returns to its caller: the goroutine of DeployAsync records the
\* outcome, a rollback goes on, the others answer their client.
Return(r) ==
  /\ req[r].pc = "return"
  /\ IF req[r].kind = "async"
     THEN /\ task' = [task EXCEPT ![r] =
                        IF req[r].verdict = "success" THEN "success" ELSE "failed"]
          /\ Goto(r, "publish")
     ELSE /\ Goto(r, IF req[r].kind = "rollback" THEN "saveRollback" ELSE "done")
          /\ UNCHANGED task
  /\ UNCHANGED <<ctr, stored, history, version, backups, crashes, clean>>

\* DeployAsync publishes the event "done" and ends.
PublishDone(r) ==
  /\ req[r].pc = "publish"
  /\ Goto(r, "done")
  /\ UNCHANGED <<ctr, stored, history, version, backups, task, crashes, clean>>

\* EventBus.Publish panics when a subscriber's channel was closed under it.
\* Deploy publishes before the pull and after each record, DeployAsync after it
\* recorded the outcome.  DeployAsync recovers and marks the task failed;
\* elsewhere the panic ends the call.
Panic(r) ==
  /\ req[r].kind # "restore"
  /\ \/ req[r].pc \in {"pull", "publish"}
     \/ req[r].pc = "return" /\ req[r].verdict # "unreachable"
  /\ task' = [task EXCEPT ![r] = IF req[r].kind = "async" THEN "failed" ELSE @]
  /\ Goto(r, "done")
  /\ UNCHANGED <<ctr, stored, history, version, backups, crashes, clean>>

-----------------------------------------------------------------------------
(***************************************************************************)
(* Bridge.RollbackWithType.                                                *)
(***************************************************************************)

\* findPreviousSuccessfulImage: the latest successful record of the name.
Resolve(r) ==
  /\ req[r].pc = "resolve"
  /\ \/ /\ req[r].image # NoImage
        /\ Goto(r, "inspect")
     \/ /\ req[r].image = NoImage
        /\ \E i \in SuccessRows(req[r].name) :
             /\ IsLatest(i, SuccessRows(req[r].name))
             /\ req' = [req EXCEPT ![r] =
                  [@ EXCEPT !.pc = "inspect", !.image = history[req[r].name][i].image]]
     \/ /\ req[r].image = NoImage
        /\ Goto(r, "done")
  /\ UNCHANGED <<ctr, stored, history, version, backups, task, crashes, clean>>

\* The current image (unknown when docker inspect fails) and buildRollbackConfig,
\* which restores the settings of the container but not its server.
Inspect(r) ==
  /\ req[r].pc = "inspect"
  /\ \E seen \in {ctr[Local][req[r].name].image, NoImage} :
       req' = [req EXCEPT ![r] = [@ EXCEPT !.pc = "pullTarget", !.from = seen]]
  /\ UNCHANGED <<ctr, stored, history, version, backups, task, crashes, clean>>

\* Mutant: the error of the pull is only logged, as those of stop and rm are.
PullTargetLogs(r) ==
  /\ req[r].pc = "pullTarget"
  /\ \/ /\ req[r].image \in Published
        /\ stored' = [stored EXCEPT ![Local] = @ \cup {req[r].image}]
     \/ UNCHANGED stored
  /\ Goto(r, "stopOld")
  /\ UNCHANGED <<ctr, history, version, backups, task, crashes, clean>>

PullTarget(r) ==
  /\ req[r].pc = "pullTarget"
  /\ \/ /\ req[r].image \in Published
        /\ stored' = [stored EXCEPT ![Local] = @ \cup {req[r].image}]
        /\ Goto(r, "stopOld") \/ Goto(r, "done")
     \/ /\ Goto(r, "done")
        /\ UNCHANGED stored
  /\ UNCHANGED <<ctr, history, version, backups, task, crashes, clean>>

\* docker stop, then docker rm -f; an error of either is only logged.  Rollback
\* and Restore share these two commands, on the local host.
StopOld(r) ==
  /\ req[r].pc = "stopOld"
  /\ \/ ctr' = [ctr EXCEPT ![Local][req[r].name].up = FALSE]
     \/ UNCHANGED ctr
  /\ Goto(r, "removeOld")
  /\ UNCHANGED <<stored, history, version, backups, task, crashes, clean>>

RemoveOld(r) ==
  /\ req[r].pc = "removeOld"
  /\ \/ ctr' = [ctr EXCEPT ![Local][req[r].name] = Absent]
     \/ UNCHANGED ctr
  /\ Goto(r, IF req[r].kind = "restore" THEN "pull" ELSE "preflight")
  /\ UNCHANGED <<stored, history, version, backups, task, crashes, clean>>

RollbackRow(r) ==
  [image |-> req[r].image, host |-> req[r].host, type |-> "rollback", by |-> r,
   status |-> IF req[r].verdict = "success" THEN "success" ELSE "failed"]

\* saveRollbackRecord; only a successful rollback goes on to the app row.
SaveRollback(r) ==
  /\ req[r].pc = "saveRollback"
  /\ \/ history' = [history EXCEPT ![req[r].name] = Append(@, RollbackRow(r))]
     \/ UNCHANGED history
  /\ Goto(r, IF req[r].verdict = "success" /\ req[r].name \in WithApp
             THEN "updateVersion" ELSE "done")
  /\ UNCHANGED <<ctr, stored, version, backups, task, crashes, clean>>

UpdateVersion(r) ==
  /\ req[r].pc = "updateVersion"
  /\ \/ version' = [version EXCEPT ![req[r].name] = req[r].image]
     \/ UNCHANGED version
  /\ Goto(r, "done")
  /\ UNCHANGED <<ctr, stored, history, backups, task, crashes, clean>>

-----------------------------------------------------------------------------
(***************************************************************************)
(* Bridge.Stop, Remove, Backup and Restore.                                *)
(***************************************************************************)

StopContainer(r) ==
  /\ req[r].pc = "stop"
  /\ \/ ctr' = [ctr EXCEPT ![Local][req[r].name].up = FALSE]
     \/ UNCHANGED ctr
  /\ Goto(r, "done")
  /\ UNCHANGED <<stored, history, version, backups, task, crashes, clean>>

RemoveContainer(r) ==
  /\ req[r].pc = "remove"
  /\ \/ ctr' = [ctr EXCEPT ![Local][req[r].name] = Absent]
     \/ UNCHANGED ctr
  /\ Goto(r, "done")
  /\ UNCHANGED <<stored, history, version, backups, task, crashes, clean>>

\* The archive's command may fail: the backup is registered all the same.
Backup(r) ==
  /\ req[r].pc = "backup"
  /\ backups' = backups \cup {req[r].name}
  /\ Goto(r, "done")
  /\ UNCHANGED <<ctr, stored, history, version, task, crashes, clean>>

\* The backup's app, and the image to deploy: apps.current_version, or the
\* fallback if there is none.
Lookup(r) ==
  /\ req[r].pc = "lookup"
  /\ \/ /\ req[r].name \in backups
        /\ req' = [req EXCEPT ![r] =
             [@ EXCEPT !.pc = "stopOld",
                       !.image = IF version[req[r].name] = NoImage THEN Fallback
                                 ELSE version[req[r].name]]]
     \/ Goto(r, "done")
  /\ UNCHANGED <<ctr, stored, history, version, backups, task, crashes, clean>>

-----------------------------------------------------------------------------
(***************************************************************************)
(* The environment.                                                        *)
(***************************************************************************)

\* A container's main process ends.
ContainerExits(h, n) ==
  /\ ctr[h][n].up
  /\ ctr' = [ctr EXCEPT ![h][n].up = FALSE]
  /\ UNCHANGED <<stored, history, version, backups, task, req, crashes, clean>>

\* The server process dies: every running request and the tables in memory are
\* gone, containers and database remain.
Crash ==
  /\ crashes < MaxCrashes
  /\ crashes' = crashes + 1
  /\ req' = [r \in Requests |-> IF InFlight(r) THEN [req[r] EXCEPT !.pc = "lost"]
                                ELSE req[r]]
  /\ task' = [r \in Requests |-> "none"]
  /\ backups' = {}
  /\ clean' = [n \in Names |-> clean[n] /\ ~Busy(n)]
  /\ UNCHANGED <<ctr, stored, history, version>>

\* A request that was not made yet: its parameters mean nothing.
NotMade(n) ==
  [kind |-> "deploy", pc |-> "new", name |-> n, image |-> NoImage, host |-> Local,
   from |-> NoImage, verdict |-> "none", ran |-> FALSE]

Init ==
  /\ ctr = [h \in Hosts |-> [n \in Names |-> Absent]]
  /\ stored = [h \in Hosts |-> {}]
  /\ history = [n \in Names |-> <<>>]
  /\ version = [n \in Names |-> NoImage]
  /\ backups = {}
  /\ task = [r \in Requests |-> "none"]
  /\ \E n \in Names : req = [r \in Requests |-> NotMade(n)]
  /\ crashes = 0
  /\ clean = [n \in Names |-> TRUE]

Work(r) ==
  \/ MarkRunning(r) \/ Build(r)
  \/ Preflight(r) \/ Pull(r) \/ Replace(r) \/ RunSucceeds(r) \/ RunFails(r)
  \/ SaveRecord(r) \/ Return(r) \/ PublishDone(r)
  \/ Resolve(r) \/ Inspect(r) \/ PullTarget(r) \/ StopOld(r) \/ RemoveOld(r)
  \/ SaveRollback(r) \/ UpdateVersion(r)
  \/ StopContainer(r) \/ RemoveContainer(r) \/ Backup(r) \/ Lookup(r)

Arrive(r) ==
  \E kind \in Calls, n \in Names, img \in Images \cup {NoImage}, h \in Hosts :
    Begin(r, kind, n, img, h)

Next ==
  \/ \E r \in Requests : Arrive(r) \/ Work(r) \/ Panic(r)
  \/ \E h \in Hosts, n \in Names : ContainerExits(h, n)
  \/ Crash

\* The goroutine of an asynchronous deploy keeps executing: every command that it
\* waits for is bounded by its context of 30 minutes, so each one ends.
Fairness == \A r \in Requests : WF_vars(req[r].kind = "async" /\ Work(r))

Spec == Init /\ [][Next]_vars /\ Fairness

-----------------------------------------------------------------------------
(***************************************************************************)
(* Properties.                                                             *)
(***************************************************************************)

\* Every variable has its type; statuses of tasks are those of taskInfo.
TypeOK ==
  /\ ctr \in [Hosts -> [Names -> Container]]
  /\ stored \in [Hosts -> SUBSET (Images \cup {NoImage})]
  /\ history \in [Names -> Seq(Row)]
  /\ version \in [Names -> Images \cup {NoImage}]
  /\ backups \subseteq Names
  /\ task \in [Requests -> TaskStatus]
  /\ req \in [Requests -> Request]
  /\ crashes \in Nat
  /\ clean \in [Names -> BOOLEAN]

\* No success is claimed that did not happen: a row "success", of a deploy or
\* of a rollback, and a task "success" belong to a request whose docker run has
\* put that very image into a running container on that very host
\* (Deploy, RollbackWithType, DeployAsync and their error returns).
TrueRow(n, row) ==
  row.status = "success" => /\ req[row.by].ran
                            /\ req[row.by].name = n
                            /\ req[row.by].image = row.image
                            /\ req[row.by].host = row.host

SuccessIsTrue ==
  /\ \A n \in Names : \A i \in DOMAIN history[n] : TrueRow(n, history[n][i])
  /\ \A r \in Requests : task[r] = "success" => req[r].ran

\* What the history says is what runs.  If the requests on a name came one at a
\* time, none was cut short, no record was lost and none was a restore, then a
\* container that is up runs the image of the latest row "success" for its host,
\* whatever failed or was stopped in between (Deploy, RollbackWithType, Stop and
\* Remove with saveDeploymentRecord and saveRollbackRecord).
RowsFor(h, n) == {i \in SuccessRows(n) : history[n][i].host = h}

HistoryTellsWhatRuns ==
  \A h \in Hosts, n \in Names :
    (clean[n] /\ ~Busy(n) /\ ctr[h][n].up) =>
      \E i \in RowsFor(h, n) :
        /\ IsLatest(i, RowsFor(h, n))
        /\ history[n][i].image = ctr[h][n].image

\* A container always runs an image that the registry has and that was pulled to
\* its host, over failed pulls, lost answers and requests that interleave, because
\* DockerDeployer.Deploy pulls every image it runs (deployer.go:77-81).  This is not
\* what is said of BuildAndDeploy, that it builds an image and deploys it
\* (deploy_service.go:236-237, 267, apps.go:578-579): the builder only tags the
\* image on its host (builder.go:124), so unless somebody publishes it the pull
\* fails, and what was built never runs.
OnlyPulledImagesRun ==
  \A h \in Hosts, n \in Names :
    ctr[h][n] # Absent => ctr[h][n].image \in Published \cap stored[h]

\* Deploys and rollbacks take an existing container away only when their image
\* has reached the host's store before (pull first, then stop and remove, in
\* RollbackWithType and in DockerDeployer.Deploy).
TakenAway(r) ==
  /\ req[r].kind \in {"deploy", "async", "build", "rollback"}
  /\ req'[r] # req[r]
  /\ ctr[req[r].host][req[r].name] # Absent
  /\ ctr'[req[r].host][req[r].name] = Absent

PulledBeforeRemoval ==
  [][\A r \in Requests : TakenAway(r) => req[r].image \in stored[req[r].host]]_vars

\* The client of an asynchronous deploy, who polls its task, learns an outcome,
\* unless the process dies and the task with it (DeployAsync).
TaskEnds ==
  \A r \in Requests : task[r] = "pending" ~> task[r] \in {"success", "failed", "none"}

\* Every task goes through the life cycle of module DeployTask.
Lifecycle == INSTANCE DeployTask WITH Tasks <- Requests, status <- task

TaskLifecycle == Lifecycle!Spec

(***************************************************************************)
(* The inductive invariant from which the safety properties follow.        *)
(***************************************************************************)

\* Where a request of each kind can stand while it is in flight.
DeployLabels == {"preflight", "pull", "replace", "run", "save", "return"}

LabelsOf == [deploy   |-> DeployLabels,
             async    |-> DeployLabels \cup {"mark", "publish"},
             build    |-> DeployLabels \cup {"build"},
             rollback |-> DeployLabels \cup {"resolve", "inspect", "pullTarget", "stopOld",
                                            "removeOld", "saveRollback", "updateVersion"},
             stop     |-> {"stop"},
             remove   |-> {"remove"},
             backup   |-> {"backup"},
             restore  |-> {"lookup", "stopOld", "removeOld", "pull", "replace", "run"}]

Control(r) ==
  /\ req[r].pc \in LabelsOf[req[r].kind] \cup {"new", "done", "lost"}
  /\ req[r].kind \notin {"deploy", "async", "build"} => req[r].host = Local

\* Past its pull, a request has its image in the store of its host.
Fetched(r) ==
  /\ req[r].pc \in {"replace", "run"} =>
       req[r].image \in Published \cap stored[req[r].host]
  /\ req[r].kind = "rollback" /\ req[r].pc \in {"stopOld", "removeOld"} =>
       req[r].image \in stored[req[r].host]

\* The verdict "success" is not given before docker run did its work, after which
\* the parameters of the request are not changed any more.
AfterRun == {"save", "return", "publish", "saveRollback", "updateVersion", "done", "lost"}

Truthful(r) ==
  /\ req[r].verdict = "success" => req[r].ran
  /\ req[r].ran => req[r].pc \in AfterRun

\* The task of a request tells where the request stands.
TaskFits(r) ==
  /\ req[r].kind # "async" \/ req[r].pc = "new" => task[r] = "none"
  /\ req[r].pc = "mark" => task[r] = "pending"
  /\ req[r].kind = "async" /\ req[r].pc \in DeployLabels => task[r] = "running"
  /\ req[r].pc = "publish" => task[r] \in {"success", "failed"}

Inv ==
  /\ TypeOK
  /\ \A r \in Requests : Control(r) /\ Fetched(r) /\ Truthful(r) /\ TaskFits(r)
  /\ SuccessIsTrue
  /\ OnlyPulledImagesRun

(***************************************************************************)
(* What HistoryTellsWhatRuns rests on, of a name that is clean.            *)
(***************************************************************************)

Told(h, n) ==
  \E i \in RowsFor(h, n) :
    IsLatest(i, RowsFor(h, n)) /\ history[n][i].image = ctr[h][n].image

\* At most one request on the name is in flight, and it is not a restore.
Alone(n) ==
  \A r, q \in Requests :
    InFlight(r) /\ InFlight(q) /\ req[r].name = n /\ req[q].name = n =>
      r = q /\ req[r].kind # "restore"

\* A request is about to write the row of what it has put on the host.
Owed(h, n) ==
  \E r \in Requests : /\ req[r].pc = "save" /\ req[r].verdict = "success"
                      /\ req[r].name = n /\ req[r].host = h

\* From its docker run to its end, what is up in its place is what it has put there.
Placed(r) ==
  InFlight(r) /\ req[r].verdict = "success" /\ ctr[req[r].host][req[r].name].up
    => ctr[req[r].host][req[r].name].image = req[r].image

HistoryInv ==
  /\ Inv
  /\ \A n \in Names : clean[n] =>
       /\ Alone(n)
       /\ \A h \in Hosts : ctr[h][n].up => Told(h, n) \/ Owed(h, n)
       /\ \A r \in Requests : req[r].name = n => Placed(r)

\* deploy_service.go:371-372, "pull new image FIRST, then stop/remove old
\* container.  This ensures we don't destroy the running container if the image
\* pull fails": when a rollback ends because a pull failed, the container that
\* it found is still there.
FailedPull(r) ==
  /\ req[r].kind = "rollback"
  /\ \/ req[r].pc = "pullTarget" /\ req'[r].pc = "done"
     \/ req[r].pc = "pull" /\ req'[r].verdict = "failed"

FailedPullKeepsContainer ==
  [][\A r \in Requests : FailedPull(r) /\ req[r].from # NoImage
       => ctr[Local][req[r].name] # Absent]_vars

\* backup_service.go:98, "Re-deploy the app using its current version": when
\* the history has a success for the app, a restore deploys an image that some
\* row "success" names.
RestoreDeploysKnownVersion ==
  \A r \in Requests :
    /\ req[r].kind = "restore" /\ req[r].verdict = "success"
    /\ SuccessRows(req[r].name) # {}
    => \E i \in SuccessRows(req[r].name) :
         history[req[r].name][i].image = req[r].image

=============================================================================
