---------------------------- MODULE RowHandlers ----------------------------
(***************************************************************************)
(* Two requests to the handlers of one table.                              *)
(*                                                                         *)
(* ResourcePrograms, AccountPrograms, ServerPrograms and ToolPrograms give *)
(* each handler, with the service it calls, as the sequence of its         *)
(* statements that can refuse, read, write or act.  Here two of one table  *)
(* run at once, against one row that was there before, a statement at a    *)
(* time, and the database or the remote host may fail at any of them.      *)
(*                                                                         *)
(* The row has a column for each request, which an edit of that request    *)
(* writes.  gorm's Save writes all columns and inserts the row when there  *)
(* is none.  A statement of the database that fails, and a remote command  *)
(* that fails, have no effect.                                             *)
(***************************************************************************)
EXTENDS Naturals, Sequences, FiniteSets, ResourcePrograms, AccountPrograms, ServerPrograms,
        ToolPrograms

CONSTANTS Requests

VARIABLES there,    \* the row exists
          columns,  \* its columns
          made,     \* requests whose new row was inserted
          call      \* per request: the handler

vars == <<there, columns, made, call>>

\* The handlers of one table, or of what else they share, each a record of programs.
Tables ==
  {[CredentialReads |-> CredentialReads, CredentialWrites |-> CredentialWrites,
    CredentialTools |-> CredentialTools],
   [ClusterHandlers |-> ClusterHandlers, ClusterWrites |-> ClusterWrites, K8sTools |-> K8sTools],
   [ServerHandlers |-> ServerHandlers, ServerChecks |-> ServerChecks,
    ServerTools |-> ServerTools, CommandTools |-> CommandTools, DemoData |-> DemoData],
   [RegistryHandlers |-> RegistryHandlers, RegistryTools |-> RegistryTools,
    ImageTools |-> ImageTools],
   [ProviderHandlers |-> ProviderHandlers, BuildHandlers |-> BuildHandlers,
    BuildTools |-> BuildTools],
   [NotificationHandlers |-> NotificationHandlers, NotificationTools |-> NotificationTools],
   [TemplateHandlers |-> TemplateHandlers, TemplateTools |-> TemplateTools],
   [CertificateHandlers |-> CertificateHandlers, CertificateTools |-> CertificateTools],
   [AlertRuleHandlers |-> AlertRuleHandlers],
   [SilenceHandlers |-> SilenceHandlers],
   [AlertHistoryHandlers |-> AlertHistoryHandlers, MonitorQueries |-> MonitorQueries,
    MonitorExports |-> MonitorExports],
   [MetricHandlers |-> MetricHandlers, MonitorTools |-> MonitorTools],
   [MonitorHandlers |-> MonitorHandlers, UptimeTools |-> UptimeTools],
   [HeartbeatHandlers |-> HeartbeatHandlers, HeartbeatTools |-> HeartbeatTools],
   [WebhookHandlers |-> WebhookHandlers],
   [PluginHandlers |-> PluginHandlers, PluginSwitches |-> PluginSwitches,
    PluginTools |-> PluginTools],
   [FlagHandlers |-> FlagHandlers],
   [OverrideHandlers |-> OverrideHandlers],
   [APIKeyHandlers |-> APIKeyHandlers, APIKeyRows |-> APIKeyRows,
    APIKeyChanges |-> APIKeyChanges],
   [WhitelistHandlers |-> WhitelistHandlers],
   [DeviceHandlers |-> DeviceHandlers, DeviceTrust |-> DeviceTrust],
   [SecurityConfigHandlers |-> SecurityConfigHandlers,
    BruteForceHandlers |-> BruteForceHandlers],
   [OnboardingHandlers |-> OnboardingHandlers, CurrentUser |-> CurrentUser,
    UserHandlers |-> UserHandlers],
   [SigningReads |-> SigningReads, SigningKeyWrites |-> SigningKeyWrites],
   [LicenseKeyHandlers |-> LicenseKeyHandlers],
   [LicenseHandlers |-> LicenseHandlers],
   [TrialHandlers |-> TrialHandlers, DegradationHandlers |-> DegradationHandlers],
   [SessionHandlers |-> SessionHandlers, LoginHistory |-> LoginHistory],
   [AuditProofs |-> AuditProofs, GdprHandlers |-> GdprHandlers,
    ComplianceHandlers |-> ComplianceHandlers, AuditHandlers |-> AuditHandlers,
    AuditQueries |-> AuditQueries, TraceLogs |-> TraceLogs],
   [AppHandlers |-> AppHandlers, AppCreation |-> AppCreation, AppViews |-> AppViews,
    AppEnv |-> AppEnv, AppBackups |-> AppBackups, AppBuild |-> AppBuild,
    DeploymentHandlers |-> DeploymentHandlers, AppTools |-> AppTools, LogTools |-> LogTools,
    BackupTools |-> BackupTools],
   [DeployTools |-> DeployTools, ComposeTools |-> ComposeTools, TaskTools |-> TaskTools],
   [FileReadHandlers |-> FileReadHandlers, FileWriteHandlers |-> FileWriteHandlers,
    FileFactHandlers |-> FileFactHandlers],
   [FirewallHandlers |-> FirewallHandlers],
   [ProcessHandlers |-> ProcessHandlers, ProcessRuleHandlers |-> ProcessRuleHandlers],
   [ToolboxHandlers |-> ToolboxHandlers, ToolboxScriptHandlers |-> ToolboxScriptHandlers],
   [SnapshotHandlers |-> SnapshotHandlers],
   [KeyPairHandlers |-> KeyPairHandlers],
   [KeyHandlers |-> KeyHandlers, KeyPairHandlers |-> [delete |-> KeyPairHandlers.delete]],
   [GrafanaHandlers |-> GrafanaHandlers],
   [DetectHandlers |-> DetectHandlers, SystemHandlers |-> SystemHandlers,
    SandboxHandlers |-> SandboxHandlers, SystemTools |-> SystemTools,
    ContextTools |-> ContextTools],
   [Confirmations |-> Confirmations, Rejections |-> Rejections],
   [BackupHandlers |-> BackupHandlers, BackupRows |-> BackupRows],
   [SchedulerTools |-> SchedulerTools],
   [PortForwardTools |-> PortForwardTools]}

\* The handlers of a table, each with its name: two may have the same program.
Handlers(T) ==
  UNION {{[name |-> <<group, op>>, steps |-> T[group][op]] : op \in DOMAIN T[group]} :
         group \in DOMAIN T}

Original == [r \in Requests |-> "old"]

Called(h) == [name |-> h.name, steps |-> h.steps, at |-> 1, copy |-> Original, seen |-> 0, did |-> {},
              answer |-> IF h.steps = <<>> THEN "ok" ELSE "none"]

Init ==
  /\ there = TRUE
  /\ columns = Original
  /\ made = {}
  /\ \E T \in Tables : call \in [Requests -> {Called(h) : h \in Handlers(T)}]

(* Statements whose failure the handler ignores. *)
Ignored == [tryVacant |-> "vacant", tryNumber |-> "number", tryInsert |-> "insert",
            tryUpdate |-> "update", trySave |-> "save", tryAct |-> "act", peek |-> "look"]
Kind(s) == IF s \in DOMAIN Ignored THEN Ignored[s] ELSE s

Changing == {"insert", "insertOnce", "insertNext", "update", "updateRow", "save", "put", "delete",
             "deleteRow", "act", "set"}
Changes(p) == {i \in DOMAIN p : Kind(p[i]) \in Changing}

Runs(r, kinds) ==
  call[r].answer = "none" /\ Kind(call[r].steps[call[r].at]) \in kinds

GoesOn(r, c) ==
  call' = [call EXCEPT ![r] = [c EXCEPT !.at = @ + 1,
                                        !.answer = IF c.at = Len(c.steps) THEN "ok" ELSE "none"]]
Does(r) == GoesOn(r, [call[r] EXCEPT !.did = @ \union {call[r].at}])
Skips(r) == GoesOn(r, call[r])
Refuses(r) == call' = [call EXCEPT ![r].answer = "refused"]
-----------------------------------------------------------------------------
\* The request, its user, its input or the configuration.
Check(r) ==
  /\ Runs(r, {"bind", "who", "check"})
  /\ Skips(r) \/ Refuses(r)
  /\ UNCHANGED <<there, columns, made>>

\* A statement fails: the handler answers an error, or ignores it.
Fail(r) ==
  /\ Runs(r, {"find", "look", "number", "vacant", "ask", "refuse"} \union (Changing \ {"set"}))
  /\ IF call[r].steps[call[r].at] \in DOMAIN Ignored THEN Skips(r) ELSE Refuses(r)
  /\ UNCHANGED <<there, columns, made>>

\* Reads of any rows, of a remote host, of memory; an audit entry, whose error is dropped.
Look(r) ==
  /\ Runs(r, {"look", "ask", "record"})
  /\ Skips(r)
  /\ UNCHANGED <<there, columns, made>>

Find(r) ==
  /\ Runs(r, {"find"})
  /\ there
  /\ GoesOn(r, [call[r] EXCEPT !.copy = columns])
  /\ UNCHANGED <<there, columns, made>>

\* The highest number of the rows, zero when they cannot be read.
Number(r) ==
  /\ Runs(r, {"number"})
  /\ GoesOn(r, [call[r] EXCEPT !.seen = Cardinality(made)])
  /\ UNCHANGED <<there, columns, made>>

\* The handler refuses when a row with the new row's name exists.
Vacant(r) ==
  /\ Runs(r, {"vacant"})
  /\ made = {}
  /\ Skips(r)
  /\ UNCHANGED <<there, columns, made>>

\* A plausible bug: a migration that makes the table without its unique index.
InsertUnindexed(r) ==
  /\ Runs(r, {"insert", "insertOnce", "insertNext"})
  /\ made' = made \union {r}
  /\ Does(r)
  /\ UNCHANGED <<there, columns>>

\* insertOnce: the table has a unique index on the name; insertNext: on the number.
Insert(r) ==
  /\ Runs(r, {"insert", "insertOnce", "insertNext"})
  /\ Runs(r, {"insertOnce"}) => made = {}
  /\ Runs(r, {"insertNext"}) => Cardinality(made) = call[r].seen
  /\ made' = made \union {r}
  /\ Does(r)
  /\ UNCHANGED <<there, columns>>

Update(r) ==
  /\ Runs(r, {"update", "updateRow"})
  /\ Runs(r, {"updateRow"}) => there
  /\ columns' = IF there THEN [columns EXCEPT ![r] = "new"] ELSE columns
  /\ IF there THEN Does(r) ELSE Skips(r)
  /\ UNCHANGED <<there, made>>

\* Save of the row that was read.
Save(r) ==
  /\ Runs(r, {"save"})
  /\ columns' = [call[r].copy EXCEPT ![r] = "new"]
  /\ there' = TRUE
  /\ Does(r)
  /\ UNCHANGED made

\* Save of a row made from the request: the other columns become the request's.
Put(r) ==
  /\ Runs(r, {"put"})
  /\ columns' = [q \in Requests |-> IF q = r THEN "new" ELSE "request"]
  /\ there' = TRUE
  /\ Does(r)
  /\ UNCHANGED made

\* To delete what is gone already is done.
Delete(r) ==
  /\ Runs(r, {"delete", "deleteRow"})
  /\ Runs(r, {"deleteRow"}) => there
  /\ there' = FALSE
  /\ Does(r)
  /\ UNCHANGED <<columns, made>>

\* On a host, in another table or in memory.
Act(r) ==
  /\ Runs(r, {"act", "set"})
  /\ Does(r)
  /\ UNCHANGED <<there, columns, made>>

Next ==
  \E r \in Requests :
    Check(r) \/ Fail(r) \/ Look(r) \/ Find(r) \/ Number(r) \/ Vacant(r) \/ Insert(r) \/ Update(r)
    \/ Save(r) \/ Put(r) \/ Delete(r) \/ Act(r)

Spec == Init /\ [][Next]_vars
-----------------------------------------------------------------------------
TypeOK ==
  /\ there \in BOOLEAN
  /\ columns \in [Requests -> {"old", "new", "request"}]
  /\ made \subseteq Requests
  /\ \A r \in Requests : call[r].at \in 1..(Len(call[r].steps) + 1)
                         /\ call[r].answer \in {"none", "ok", "refused"}

Tried(s) == s \in DOMAIN Ignored
Answered(r, a) == call[r].answer = a
Did(r, kinds) == \E i \in call[r].did : Kind(call[r].steps[i]) \in kinds

(* Handlers that do not ask whether their update found a row, which may be gone: they *)
(* answer success.  Each of these sets has no name that its property does not need.   *)
Unasked ==
  {<<"CredentialWrites", "update">>, <<"CredentialWrites", "rotate">>,
   <<"CredentialTools", "update_credential">>, <<"ServerHandlers", "update">>,
   <<"ServerTools", "update_server">>, <<"ProviderHandlers", "update">>,
   <<"NotificationHandlers", "update">>, <<"TemplateHandlers", "update">>, <<"AppHandlers", "update">>,
   <<"AppTools", "update_app">>, <<"AppEnv", "update">>, <<"OverrideHandlers", "set">>,
   <<"UserHandlers", "role">>, <<"OnboardingHandlers", "complete">>, <<"HeartbeatHandlers", "ping">>}

\* A success means that every change whose error the handler does not drop was made,
\* also when the other request deletes the row between two statements.
AnswersAreTrue ==
  \A r \in Requests : Answered(r, "ok") /\ call[r].name \notin Unasked =>
    \A i \in Changes(call[r].steps) : i \in call[r].did \/ Tried(call[r].steps[i])

(* Handlers that answer an error after they changed something: the row is read    *)
(* again for the answer, or a later statement failed and nothing undoes the first. *)
HalfDone ==
  {<<"ClusterWrites", "update">>, <<"RegistryHandlers", "update">>, <<"PluginHandlers", "update">>,
   <<"FlagHandlers", "update">>, <<"LicenseHandlers", "activate">>, <<"LicenseHandlers", "community">>,
   <<"LicenseHandlers", "communityKey">>, <<"LicenseKeyHandlers", "rotate">>,
   <<"SigningKeyWrites", "generate">>, <<"SigningKeyWrites", "rotate">>, <<"AppHandlers", "delete">>,
   <<"AppTools", "delete_app">>, <<"AppBackups", "restore">>, <<"BackupTools", "restore_database">>,
   <<"BackupHandlers", "trigger">>, <<"BackupHandlers", "delete">>, <<"BackupRows", "delete">>,
   <<"KeyPairHandlers", "delete">>, <<"KeyHandlers", "authorize">>, <<"KeyHandlers", "revoke">>,
   <<"GrafanaHandlers", "sync">>, <<"WebhookHandlers", "test">>, <<"DemoData", "generate">>}

\* A refused request changed nothing.
RefusedChangesNothing ==
  \A r \in Requests :
    Answered(r, "refused") /\ call[r].name \notin HalfDone => call[r].did = {}

(* Handlers that save a row they read or were given. *)
Overwriting ==
  {<<"CertificateHandlers", "renew">>, <<"CertificateTools", "renew_ssl_certificate">>,
   <<"GrafanaHandlers", "update">>, <<"MonitorHandlers", "check">>, <<"MonitorHandlers", "update">>,
   <<"UptimeTools", "check_uptime_monitor">>, <<"AlertRuleHandlers", "update">>,
   <<"WebhookHandlers", "update">>, <<"ProcessRuleHandlers", "update">>,
   <<"ToolboxScriptHandlers", "update">>}

\* What was answered stands: an edit is still in its row and a deleted row does not
\* come back, unless the other request saves the whole row.
ChangesStand ==
  \A r \in Requests :
    Answered(r, "ok") /\ (\A q \in Requests \ {r} : call[q].name \notin Overwriting) =>
      /\ Did(r, {"update", "updateRow", "save", "put"}) /\ there => columns[r] = "new"
      /\ Did(r, {"delete", "deleteRow"}) => ~there

(* Handlers that ask for the name first and insert later. *)
Duplicating ==
  {<<"KeyHandlers", "authorize">>, <<"DemoData", "generate">>}

\* It makes sure that a name is new.
Naming(p) == \E i \in DOMAIN p : Kind(p[i]) \in {"vacant", "insertOnce"}

\* Two requests that create the same name make one row.
OncePerName ==
  \A q, r \in made :
    (\A t \in {q, r} : Naming(call[t].steps) /\ call[t].name \notin Duplicating) => q = r

\* Some tools have a second program under another name.
SecondPrograms ==
  {"run_preflight_remote", "list_images_remote", "get_system_metrics_remote", "get_ci_build_status_none"}

OpenToViewers(name) == name[2] \in ViewerTools \union SecondPrograms

\* A tool open to viewers changes nothing.
ViewersChangeNothing ==
  \A r \in Requests : call[r].did # {} => ~OpenToViewers(call[r].name)

Deletes(p) == \E i \in DOMAIN p : Kind(p[i]) \in {"delete", "deleteRow"}
Updates(p) == \E i \in DOMAIN p : p[i] = "update"
CannotRefuse == DOMAIN Ignored \union {"record", "set"}

\* What a statement that comes after another says of one handler's program.
ProgramHolds(name, p) ==
  /\ p \in Seq(STRING)
  /\ name \in HalfDone \/ \A i \in Changes(p), j \in DOMAIN p : i < j => p[j] \in CannotRefuse
  /\ \A i, j \in DOMAIN p :
       i < j /\ Kind(p[i]) \in {"delete", "deleteRow"} => Kind(p[j]) \notin {"save", "put"}
  /\ name \in Overwriting \/ \A i \in DOMAIN p : Kind(p[i]) \notin {"save", "put"}
  /\ Naming(p) /\ name \notin Duplicating =>
       \A i \in DOMAIN p : Kind(p[i]) \in {"insert", "insertOnce", "insertNext"} => p[i] = "insertOnce"
  /\ OpenToViewers(name) => Changes(p) = {}

\* All are such, and where one updates and does not ask none deletes.
ProgramAssumption ==
  \A T \in Tables :
    /\ \A h \in Handlers(T) : ProgramHolds(h.name, h.steps)
    /\ \/ \A h \in Handlers(T) : ~Deletes(h.steps)
       \/ \A h \in Handlers(T) : Updates(h.steps) => h.name \in Unasked
=============================================================================
