--------------------------- MODULE ServerPrograms ---------------------------
(***************************************************************************)
(* The handlers that work on a server over SSH, on the host of the API, on *)
(* a cluster or on a service that is configured, and the rows they keep,   *)
(* each as the program ResourcePrograms describes.                         *)
(***************************************************************************)
EXTENDS Sequences

\* The server's row, its credential (whose error is ignored), its user, the dial.
getRemoteExecutor == <<"look", "peek", "check", "ask">>

\* Also resolves symbolic links, of the host of the API.
isPathBlocked == <<"check">>
validateFilePath == <<"check">>

\* Refused paths, then the command's sandbox, then the connection.
FileAccess == isPathBlocked \o <<"check">> \o getRemoteExecutor

FileReads == [list |-> FileAccess \o <<"ask">>, read |-> FileAccess \o <<"ask", "peek">>]
FileWrites == [write |-> FileAccess \o <<"act">>, delete |-> FileAccess \o <<"act">>,
               mkdir |-> FileAccess \o <<"act">>, move |-> FileAccess \o <<"act">>]
FileFacts == [disk |-> FileAccess \o <<"ask", "check">>, info |-> FileAccess \o <<"ask", "check">>,
              search |-> FileAccess \o <<"ask">>]

FileReadHandlers == [list |-> validateFilePath \o FileReads.list,
                     read |-> <<"bind">> \o validateFilePath \o FileReads.read]
FileWriteHandlers == [write |-> <<"bind">> \o validateFilePath \o FileWrites.write,
                      delete |-> <<"bind">> \o validateFilePath \o FileWrites.delete,
                      mkdir |-> <<"bind">> \o validateFilePath \o FileWrites.mkdir,
                      move |-> <<"bind">> \o validateFilePath \o FileWrites.move]
FileFactHandlers == [disk |-> validateFilePath \o FileFacts.disk,
                     info |-> <<"bind">> \o validateFilePath \o FileFacts.info,
                     search |-> <<"bind">> \o validateFilePath \o FileFacts.search]

\* Each tool is asked for in turn; a firewall that none found is an answer.
DetectFirewall == getRemoteExecutor \o <<"peek", "peek", "peek">>
FirewallStatus == [known |-> DetectFirewall \o getRemoteExecutor \o <<"ask">>,
                   unknown |-> DetectFirewall]

\* The port, the protocol or the address is looked at by ufw's branch alone.
ufwChange == <<"check", "act">>
firewalldChange == <<"act">>
iptablesChange == <<"act", "tryAct">>  \* and the rules are saved

FirewallChange ==
  [ufw |-> DetectFirewall \o getRemoteExecutor \o ufwChange,
   firewalld |-> DetectFirewall \o getRemoteExecutor \o firewalldChange,
   iptables |-> DetectFirewall \o getRemoteExecutor \o iptablesChange,
   unknown |-> DetectFirewall \o getRemoteExecutor \o <<"refuse">>]

\* The failure to open a port is logged.
AllowCommonPorts == <<"tryAct", "tryAct", "tryAct", "tryAct">>

\* Opening and closing a port, blocking and unblocking an address.
FirewallHandlers ==
  [status |-> FirewallStatus.known, statusNone |-> FirewallStatus.unknown,
   ufw |-> <<"bind", "check">> \o FirewallChange.ufw,
   firewalld |-> <<"bind", "check">> \o FirewallChange.firewalld,
   iptables |-> <<"bind", "check">> \o FirewallChange.iptables,
   unknown |-> <<"bind", "check">> \o FirewallChange.unknown,
   common |-> AllowCommonPorts]

\* The signal is looked at when the connection stands.
ProcessService ==
  [list |-> getRemoteExecutor \o <<"ask">>,
   get |-> getRemoteExecutor \o <<"ask", "check">>,
   kill |-> getRemoteExecutor \o <<"check", "act">>,
   resources |-> getRemoteExecutor \o <<"peek">>]

ProcessRules ==
  [create |-> <<"insert">>, list |-> <<"look">>, get |-> <<"find">>, update |-> <<"put">>,
   delete |-> <<"delete">>]

ProcessHandlers ==
  [list |-> ProcessService.list, get |-> <<"bind">> \o ProcessService.get,
   kill |-> <<"bind">> \o ProcessService.kill, search |-> <<"bind">> \o ProcessService.list,
   tree |-> ProcessService.list, resources |-> ProcessService.resources]

ProcessRuleHandlers ==
  [create |-> <<"bind">> \o ProcessRules.create, list |-> ProcessRules.list, get |-> ProcessRules.get,
   update |-> <<"bind">> \o ProcessRules.update, delete |-> ProcessRules.delete]

DetectEnvironment == getRemoteExecutor \o <<"peek">>

\* The outcome of a script is the answer, whatever it was.
RunScript == getRemoteExecutor \o <<"check", "tryAct">>
RunBuiltInScript == <<"check">> \o RunScript

ToolboxScripts ==
  [create |-> <<"insert">>, list |-> <<"look">>, get |-> <<"find">>, update |-> <<"put">>,
   delete |-> <<"delete">>]

ToolboxHandlers ==
  [detect |-> DetectEnvironment, run |-> <<"bind">> \o RunScript,
   builtin |-> <<"bind">> \o RunBuiltInScript, templates |-> <<>>]

ToolboxScriptHandlers ==
  [create |-> <<"bind">> \o ToolboxScripts.create, list |-> ToolboxScripts.list,
   get |-> ToolboxScripts.get, update |-> <<"bind">> \o ToolboxScripts.update,
   delete |-> ToolboxScripts.delete]

\* Files that cannot be read are left out.  A comparison and a restoration collect
\* the files of now, and only the latter looks at the snapshot's row.
collectFiles == <<"peek">>
CreateSnapshot == getRemoteExecutor \o <<"peek", "insert">>
SnapshotRows == [list |-> <<"look">>, get |-> <<"find">>, delete |-> <<"delete">>]
DiffSnapshots == getRemoteExecutor \o <<"find", "find">> \o collectFiles
RestoreSnapshot == getRemoteExecutor \o <<"find">> \o collectFiles
GetSnapshotFiles == getRemoteExecutor \o collectFiles

SnapshotHandlers ==
  [create |-> <<"bind">> \o CreateSnapshot, list |-> SnapshotRows.list, get |-> SnapshotRows.get,
   delete |-> SnapshotRows.delete, diff |-> <<"bind">> \o DiffSnapshots,
   restore |-> RestoreSnapshot, files |-> GetSnapshotFiles]

\* The row is the key pair's, a new one is a pair's or an authorization's.  The pair's
\* authorizations go without an error, and stay on the hosts.
KeyPairs == [generate |-> <<"check", "insert">>, import |-> <<"check", "insert">>, list |-> <<"look">>,
             get |-> <<"find">>, delete |-> <<"tryAct", "delete">>]

\* The host is changed before the row.
AuthorizeKey == <<"find", "check", "tryVacant">> \o getRemoteExecutor \o <<"act", "insert">>
RevokeKey == <<"find", "check">> \o getRemoteExecutor \o <<"act", "act">>

KeyPairHandlers ==
  [generate |-> <<"bind">> \o KeyPairs.generate, import |-> <<"bind">> \o KeyPairs.import,
   list |-> KeyPairs.list, get |-> KeyPairs.get, delete |-> KeyPairs.delete]

KeyHandlers ==
  [authorize |-> <<"bind">> \o AuthorizeKey, revoke |-> <<"bind">> \o RevokeKey,
   ofServer |-> <<"look">>, ofKey |-> <<"look">>]

\* A row whose JSON or upload fails is skipped, and the count is the answer.
EnsureDatasource == <<"ask", "act">>
EnsureFolder == <<"ask", "act">>
SyncAll == <<"check">> \o EnsureDatasource \o EnsureFolder \o <<"look", "tryAct">>

Dashboards ==
  [list |-> <<"look">>, get |-> <<"find">>, create |-> <<"check", "insertOnce">>,
   update |-> <<"find", "check", "save">>, delete |-> <<"delete">>]

GrafanaHandlers ==
  [status |-> <<>>, test |-> <<"check", "ask">>, sync |-> SyncAll, list |-> Dashboards.list,
   get |-> Dashboards.get, create |-> <<"bind">> \o Dashboards.create,
   update |-> <<"bind">> \o Dashboards.update, delete |-> Dashboards.delete, export |-> <<"look">>]

\* No provider, and a build that could not be started, are answers.
getCICDProvider == [some |-> <<"look", "check">>, none |-> <<"peek">>]
TriggerCIBuild == [some |-> getCICDProvider.some \o <<"tryAct">>, none |-> getCICDProvider.none]
GetCIBuildStatus == [some |-> getCICDProvider.some \o <<"peek">>, none |-> getCICDProvider.none]

BuildHandlers ==
  [trigger |-> <<"bind">> \o TriggerCIBuild.some, triggerNone |-> <<"bind">> \o TriggerCIBuild.none,
   status |-> <<"bind">> \o GetCIBuildStatus.some, statusNone |-> <<"bind">> \o GetCIBuildStatus.none]

\* Created, or updated when it is there already.
K8sApply == [new |-> <<"act">>, existing |-> <<"ask", "ask", "act">>]
K8sRead == <<"ask">>

\* The cluster's row with its secrets, and a client for it.
K8sCluster == <<"find", "check", "check">>
K8sDeploy == [new |-> K8sCluster \o K8sApply.new, existing |-> K8sCluster \o K8sApply.existing]
K8sList == K8sCluster \o K8sRead

\* Every probe that fails is part of the answer.
DetectEnv == <<"peek">>
HealthCheck == <<"peek">>
CheckDeployReadiness == <<"peek">>
PerformSystemUpdate == <<"check", "act">>

\* The container is restarted; when that did not help the healer may say it was
\* rolled back, and the rollback's outcome is part of the answer.
HealContainer == [healed |-> <<"check", "act">>, rolledBack |-> <<"check", "act", "tryAct">>]

\* Rows that do not make a notifier are skipped; the outcome is the answer.
SendNotification == <<"peek", "tryAct">>

DetectHandlers == [all |-> <<"check", "ask">>, databases |-> <<"check", "ask">>,
                   webServers |-> <<"check", "ask">>]

MonitorQueries == [history |-> <<"look">>, overview |-> <<"look", "look">>]

\* An error of the database counts as no rows, which is refused.
MonitorExports == [results |-> <<"peek", "check">>, alerts |-> <<"peek", "check">>]

SystemHandlers == [version |-> <<>>, checkUpdate |-> <<"check", "peek">>,
                   update |-> PerformSystemUpdate, health |-> <<"peek">>]
SandboxHandlers == [config |-> <<>>, validate |-> <<"bind", "peek">>]

\* Nothing asks for a confirmation (the store is always empty).
Confirmations == [list |-> <<>>, confirm |-> <<"check", "refuse">>]
Rejections == [reject |-> <<"check", "refuse">>]

BruteForceHandlers == [status |-> <<>>, unlockAccount |-> <<"check", "check", "set">>,
                       unlockAddress |-> <<"check", "check", "set">>]

\* The service of backups of the database (DatabaseBackups).
BackupHandlers ==
  [status |-> <<"check">>, trigger |-> <<"check", "act", "insert">>, list |-> <<"check", "look">>,
   delete |-> <<"check", "find", "tryAct", "delete">>, download |-> <<"check", "find", "ask">>,
   retention |-> <<"check", "tryAct">>]
BackupRows == [list |-> <<"look">>, delete |-> <<"find", "tryAct", "delete">>]

TraceLogs == [list |-> <<"look", "look">>]
=============================================================================
