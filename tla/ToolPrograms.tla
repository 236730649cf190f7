---------------------------- MODULE ToolPrograms ----------------------------
(***************************************************************************)
(* The tools of the MCP server: who may call which, and each tool, with    *)
(* what the bridge does for it, as the program ResourcePrograms describes. *)
(* A failure of the bridge is the tool's failure.  Left out: the texts,    *)
(* and the list of recent operations.                                      *)
(***************************************************************************)
EXTENDS Sequences, ResourcePrograms, AccountPrograms, ServerPrograms

ViewerTools ==
  {"list_apps", "get_app_detail", "list_servers", "list_credentials", "list_dns_records",
   "list_templates", "get_template", "list_env_templates", "get_env_template", "get_deploy_status",
   "get_task_status", "list_tasks", "list_deployments", "detect_environment", "health_check",
   "doctor", "get_container_metrics", "get_system_metrics", "list_alerts", "list_alert_rules",
   "query_metric_history", "query_alert_history", "get_ci_build_status", "list_ssl_certificates",
   "get_context", "detect_panel", "list_recent_operations", "list_clusters", "k8s_list_deployments",
   "k8s_get_pods", "list_images", "compose_ps", "compose_logs", "run_preflight",
   "list_scheduled_tasks", "get_task_executions", "list_uptime_monitors", "get_monitor_sla",
   "list_heartbeats"}

DevTools ==
  {"deploy_app", "create_app", "update_app", "add_server", "update_server", "test_server",
   "add_credential", "update_credential", "add_dns_record", "update_dns_record", "rollback_app",
   "backup_database", "restore_database", "build_and_deploy", "send_notification", "heal_container",
   "check_deploy_readiness", "trigger_ci_build", "search_app_logs", "get_app_logs",
   "request_ssl_certificate", "renew_ssl_certificate", "registry_login", "push_image",
   "list_registry_tags", "ping_registry", "k8s_deploy", "list_plugins", "manage_plugin",
   "get_plugin_info", "port_forward", "compose_restart", "create_uptime_monitor",
   "check_uptime_monitor", "create_heartbeat", "clear_context"}

AdminTools ==
  {"delete_app", "delete_server", "delete_credential", "delete_dns_record", "batch_deploy",
   "batch_dns", "batch_backup", "delete_ssl_certificate", "exec_command", "compose_deploy",
   "compose_stop", "create_scheduled_task", "toggle_scheduled_task", "delete_scheduled_task",
   "delete_uptime_monitor", "delete_heartbeat"}

ToolPermissions ==
  [viewer |-> ViewerTools, dev |-> DevTools, admin |-> AdminTools,
   owner |-> {"update_user_role", "delete_user"}]

\* The role, unknown tools being refused to every one; and what the tool does.
withPermissionCheck(tool, p) ==
  IF \E role \in DOMAIN ToolPermissions : tool \in ToolPermissions[role]
  THEN <<"check">> \o p ELSE <<"refuse">>

\* The parameters.
withValidation(p) == <<"bind">> \o p

Tool(tool, p) == withPermissionCheck(tool, withValidation(p))

\* The engine's own steps are Deployment's.
DeployTools ==
  [deploy_app |-> Tool("deploy_app", <<"check", "check", "act">>),
   build_and_deploy |-> Tool("build_and_deploy", <<"check", "act">>),
   rollback_app |-> Tool("rollback_app", <<"act">>),
   batch_deploy |-> Tool("batch_deploy", <<"check", "tryAct">>),
   get_deploy_status |-> Tool("get_deploy_status", <<"ask", "peek">>),
   check_deploy_readiness |-> Tool("check_deploy_readiness", <<"check">> \o CheckDeployReadiness),
   run_preflight |-> Tool("run_preflight", <<"peek">>),
   run_preflight_remote |-> Tool("run_preflight", getRemoteExecutor \o <<"peek", "peek">>)]

AppTools ==
  [list_apps |-> Tool("list_apps", AppService.list),
   create_app |-> Tool("create_app", AppService.create),
   delete_app |-> Tool("delete_app", AppService.delete),
   get_app_detail |-> Tool("get_app_detail", AppService.get),
   update_app |-> Tool("update_app", <<"check">> \o AppService.update)]

\* The record of a deployment may be lost.
ComposeDeploy == <<"find">> \o getRemoteExecutor \o <<"peek", "act", "tryAct">>
ComposeChange == <<"find">> \o getRemoteExecutor \o <<"act">>
ComposeRead == <<"find">> \o getRemoteExecutor \o <<"ask">>

ComposeTools ==
  [compose_deploy |-> Tool("compose_deploy", ComposeDeploy),
   compose_stop |-> Tool("compose_stop", ComposeChange),
   compose_restart |-> Tool("compose_restart", ComposeChange),
   compose_ps |-> Tool("compose_ps", ComposeRead),
   compose_logs |-> Tool("compose_logs", ComposeRead)]

ExecCommand == [local |-> <<"act">>, remote |-> getRemoteExecutor \o <<"act">>]
ListImages == [local |-> <<"ask">>, remote |-> getRemoteExecutor \o <<"ask">>]

ImageTools ==
  [list_images |-> Tool("list_images", ListImages.local),
   list_images_remote |-> Tool("list_images", ListImages.remote)]

ServerTools ==
  [list_servers |-> Tool("list_servers", ServerService.list),
   add_server |-> Tool("add_server", ServerService.add),
   delete_server |-> Tool("delete_server", ServerService.remove),
   test_server |-> Tool("test_server", ServerService.test),
   detect_panel |-> Tool("detect_panel", ServerService.test),
   update_server |-> Tool("update_server", <<"check">> \o ServerService.update)]

CommandTools ==
  [doctor |-> Tool("doctor", <<"peek">>),
   exec_command |-> Tool("exec_command", ExecCommand.local),
   exec_command_remote |-> Tool("exec_command", ExecCommand.remote)]

CredentialTools ==
  [add_credential |-> Tool("add_credential", CredentialService.create),
   list_credentials |-> Tool("list_credentials", CredentialService.list),
   delete_credential |-> Tool("delete_credential", CredentialService.delete),
   update_credential |-> Tool("update_credential", CredentialService.update)]

\* There is no monitor: constants, or nothing to ask.
BridgeMonitor == [constants |-> <<>>, remote |-> getRemoteExecutor \o <<"peek">>, history |-> <<"refuse">>]

MonitorTools ==
  [detect_environment |-> Tool("detect_environment", DetectEnv),
   health_check |-> Tool("health_check", HealthCheck),
   heal_container |-> Tool("heal_container", HealContainer.healed),
   heal_container_back |-> Tool("heal_container", HealContainer.rolledBack),
   get_container_metrics |-> Tool("get_container_metrics", BridgeMonitor.constants),
   get_system_metrics |-> Tool("get_system_metrics", BridgeMonitor.constants),
   get_system_metrics_remote |-> Tool("get_system_metrics", BridgeMonitor.remote),
   list_alerts |-> Tool("list_alerts", BridgeMonitor.constants),
   list_alert_rules |-> Tool("list_alert_rules", BridgeMonitor.constants),
   query_metric_history |-> Tool("query_metric_history", BridgeMonitor.history),
   query_alert_history |-> Tool("query_alert_history", BridgeMonitor.history)]

K8sTools ==
  [list_clusters |-> Tool("list_clusters", ClusterService.list),
   k8s_deploy |-> Tool("k8s_deploy", <<"check", "check">> \o K8sDeploy.new),
   k8s_deploy_again |-> Tool("k8s_deploy", <<"check", "check">> \o K8sDeploy.existing),
   k8s_list_deployments |-> Tool("k8s_list_deployments", K8sList),
   k8s_get_pods |-> Tool("k8s_get_pods", K8sList)]

UptimeBridge ==
  [create |-> <<"check">> \o MonitorService.create, list |-> <<"check">> \o MonitorService.list,
   check |-> <<"check">> \o MonitorService.check, sla |-> <<"check", "peek">>,
   delete |-> <<"check">> \o MonitorService.delete,
   createHeartbeat |-> <<"check", "insert">>, listHeartbeats |-> <<"check", "look">>,
   deleteHeartbeat |-> <<"check", "delete">>]

UptimeTools ==
  [create_uptime_monitor |-> Tool("create_uptime_monitor", UptimeBridge.create),
   list_uptime_monitors |-> Tool("list_uptime_monitors", UptimeBridge.list),
   check_uptime_monitor |-> Tool("check_uptime_monitor", UptimeBridge.check),
   get_monitor_sla |-> Tool("get_monitor_sla", UptimeBridge.sla),
   delete_uptime_monitor |-> Tool("delete_uptime_monitor", UptimeBridge.delete)]

HeartbeatTools ==
  [create_heartbeat |-> Tool("create_heartbeat", UptimeBridge.createHeartbeat),
   list_heartbeats |-> Tool("list_heartbeats", UptimeBridge.listHeartbeats),
   delete_heartbeat |-> Tool("delete_heartbeat", UptimeBridge.deleteHeartbeat)]

\* The bridge was not given the scheduler.
BridgeScheduler == <<"refuse">>

SchedulerTools ==
  [create_scheduled_task |-> Tool("create_scheduled_task", BridgeScheduler),
   list_scheduled_tasks |-> Tool("list_scheduled_tasks", BridgeScheduler),
   get_task_executions |-> Tool("get_task_executions", BridgeScheduler),
   toggle_scheduled_task |-> Tool("toggle_scheduled_task", BridgeScheduler),
   delete_scheduled_task |-> Tool("delete_scheduled_task", BridgeScheduler)]

RegistryTools ==
  [registry_login |-> Tool("registry_login", RegistryOps.login),
   push_image |-> Tool("push_image", RegistryOps.push),
   list_registry_tags |-> Tool("list_registry_tags", RegistryOps.list_tags),
   ping_registry |-> Tool("ping_registry", RegistryOps.ping)]

BackupTools ==
  [backup_database |-> Tool("backup_database", BridgeBackup.backup),
   restore_database |-> Tool("restore_database", BridgeBackup.restore),
   batch_backup |-> Tool("batch_backup", <<"check">> \o BridgeBackup.batch)]

BuildTools ==
  [trigger_ci_build |-> Tool("trigger_ci_build", TriggerCIBuild.some),
   trigger_ci_build_none |-> Tool("trigger_ci_build", TriggerCIBuild.none),
   get_ci_build_status |-> Tool("get_ci_build_status", GetCIBuildStatus.some),
   get_ci_build_status_none |-> Tool("get_ci_build_status", GetCIBuildStatus.none)]

LogTools ==
  [get_app_logs |-> Tool("get_app_logs", <<"ask">>),
   search_app_logs |-> Tool("search_app_logs", AppService.searchLogs)]

NotificationTools == [send_notification |-> Tool("send_notification", SendNotification)]

\* No manager for the switches.
BridgePlugins == [list |-> <<"look">>, manage |-> <<"refuse">>, info |-> <<"find">>]

PluginTools ==
  [list_plugins |-> Tool("list_plugins", BridgePlugins.list),
   manage_plugin |-> Tool("manage_plugin", BridgePlugins.manage),
   get_plugin_info |-> Tool("get_plugin_info", BridgePlugins.info)]

\* A change is made under the lock of the forwards: in one piece.  The tunnel is
\* started, and ended, besides.
PortForward ==
  [list |-> <<>>, create |-> <<"check", "look", "check", "insertOnce", "tryAct">>,
   delete |-> <<"check", "deleteRow", "tryAct">>]

PortForwardTools ==
  [list |-> Tool("port_forward", PortForward.list),
   create |-> Tool("port_forward", PortForward.create),
   delete |-> Tool("port_forward", PortForward.delete)]

CertificateTools ==
  [list_ssl_certificates |-> Tool("list_ssl_certificates", CertificateService.list),
   request_ssl_certificate |-> Tool("request_ssl_certificate", CertificateService.request),
   renew_ssl_certificate |-> Tool("renew_ssl_certificate", CertificateService.renew),
   delete_ssl_certificate |-> Tool("delete_ssl_certificate", CertificateService.delete)]

SystemTools ==
  [check_system_update |-> Tool("check_system_update", <<"peek">>),
   get_context |-> Tool("get_context", <<>>)]

TaskTools ==
  [get_task_status |-> Tool("get_task_status", <<"peek">>), list_tasks |-> Tool("list_tasks", <<>>)]

TemplateTools ==
  [list_templates |-> Tool("list_templates", TemplateService.list),
   get_template |-> Tool("get_template", TemplateService.get),
   list_env_templates |-> Tool("list_env_templates", TemplateService.envList),
   get_env_template |-> Tool("get_env_template", TemplateService.envGet)]

ContextTools ==
  [list_recent_operations |-> Tool("list_recent_operations", <<>>),
   clear_context |-> Tool("clear_context", <<"set">>)]
=============================================================================
