--------------------------- MODULE MigrationSteps ---------------------------
(***************************************************************************)
(* What the migrations of the database create and alter, table by table:   *)
(* the numbered SQL files of migrations/, and the list of MigrateLegacy    *)
(* (internal/database/migrate.go) in its order.  Columns and indexes are   *)
(* left out; a migration that adds one needs its table.                    *)
(***************************************************************************)
EXTENDS Sequences

Creates(tables) == [creates |-> tables, alters |-> {}]
Alters(tables)  == [creates |-> {}, alters |-> tables]

-----------------------------------------------------------------------------
(* migrations/NNNNNN_*.up.sql; each .down.sql drops what its .up.sql creates. *)

InitSchema == Creates({"tenants", "roles", "users", "credentials", "providers", "servers", "apps"})
Deployments == Creates({"deployments"})
AuditLogs == Creates({"audit_logs"})
SslCertificates == Creates({"ssl_certificates"})
RegistriesClustersPlugins == Creates({"registries", "clusters", "plugins"})
BackupRecords == Creates({"backup_records"})
ApiKeys == Creates({"api_keys"})
Monitoring == Creates({"metric_records", "alert_histories"})
AlertsScheduledTasks ==
  Creates({"alert_rules", "scheduled_tasks", "task_executions", "alert_silences", "alert_escalations",
           "alert_groups", "event_logs", "ssh_key_pairs", "ssh_authorizations", "process_rules",
           "system_snapshots", "toolbox_scripts", "monitors", "monitor_check_results", "heartbeats"})
OAuth2 == Creates({"oauth2_clients", "oauth2_authorizations", "oauth2_tokens"})
GrafanaPluginConfig == Creates({"grafana_custom_dashboards", "grafana_sync_logs", "plugin_configs"})
SecurityAuditDeviceSigning == Creates({"audit_hashes", "ip_whitelists", "devices", "signing_keys"})

\* Placeholders for what the first files already contain (5, 7, 9 and 10).
Nothing == Creates({})

SqlSteps ==
  <<InitSchema, Deployments, AuditLogs, SslCertificates, Nothing, RegistriesClustersPlugins,
    Nothing, BackupRecords, Nothing, Nothing, ApiKeys, Monitoring, AlertsScheduledTasks,
    OAuth2, GrafanaPluginConfig, SecurityAuditDeviceSigning>>

-----------------------------------------------------------------------------
(* MigrateLegacy, the entries with their IDs in the order of the list. *)

\* 202604060001
LegacyCore == <<InitSchema>>

\* 202604080001 to 202604250001
LegacyFirst == <<Deployments, AuditLogs, SslCertificates>>

\* 202604250002 to 202604250005
LegacyApril == <<Alters({"credentials"}), Creates({"registries"}), Creates({"clusters"}), Creates({"plugins"})>>

\* 202604270001 to 202604290001
LegacyEnhancements ==
  <<Alters({"deployments"}), BackupRecords, Alters({"audit_logs"}), Alters({"users", "audit_logs"}),
    Alters({"apps"})>>

\* 202604300001 to 202605010200
LegacyMonitoring ==
  <<Monitoring, Creates({"scheduled_tasks", "task_executions"}), Alters({"users"}), ApiKeys,
    Alters({"api_keys"})>>

\* 202605020001 to 202605010500
LegacyAlertRules ==
  <<Creates({"alert_rules"}), Alters({"backup_records"}), Alters({"audit_logs"}), Alters({"users"}),
    Creates({"event_logs"})>>

\* 202605010600 to 202605011000
LegacyTools ==
  <<Creates({"alert_silences", "alert_escalations", "alert_groups"}),
    Creates({"ssh_key_pairs", "ssh_authorizations"}), Creates({"process_rules"}),
    Creates({"system_snapshots"}), Creates({"toolbox_scripts"})>>

\* 202605011100 to 202605020300
LegacyMonitors ==
  <<Creates({"monitors", "monitor_check_results", "heartbeats"}),
    Creates({"grafana_custom_dashboards", "grafana_sync_logs"}), OAuth2, Creates({"plugin_configs"})>>

\* 202605030001 to 202605030006
LegacySecurity ==
  <<Creates({"audit_hashes"}), Creates({"ip_whitelists"}), Creates({"devices"}),
    Creates({"signing_keys"}), Creates({"licenses"}), Alters({"licenses"})>>

\* 202605030007 to 202605040002
LegacyLicensing ==
  <<Creates({"feature_flags"}), Creates({"feature_flag_overrides"}), Creates({"trial_periods"}),
    Creates({"degradation_audits"}), Creates({"license_signing_keys"}),
    Alters({"apps", "servers", "credentials"})>>

LegacySteps ==
  LegacyCore \o LegacyFirst \o LegacyApril \o LegacyEnhancements \o LegacyMonitoring
    \o LegacyAlertRules \o LegacyTools \o LegacyMonitors \o LegacySecurity \o LegacyLicensing
=============================================================================
