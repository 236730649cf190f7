-------------------------- MODULE ResourcePrograms --------------------------
(***************************************************************************)
(* The handlers of the rows that users keep: credentials, clusters,        *)
(* servers, registries, providers, notification channels, templates,       *)
(* certificates, alert rules, monitors, webhooks, plugins and feature      *)
(* flags.                                                                  *)
(*                                                                         *)
(* A program is the sequence of the statements of a handler, with those of *)
(* the service it calls, that can end it or that touch what another        *)
(* request can see:                                                        *)
(*   bind        the path, the query or the body may be refused            *)
(*   who         there may be no user in the context                       *)
(*   check       another refusal: input, encryption, configuration         *)
(*   find        reads the row, refused when there is none                 *)
(*   look        reads rows or memory, refused only when that fails        *)
(*   ask, act    asks a host or a service, changes something there or in   *)
(*               another table                                             *)
(*   vacant      refused when a row of the new row's name exists           *)
(*   insert      inserts a row;  insertOnce  with a unique index           *)
(*   update      writes columns of the row, if there is one                *)
(*   updateRow   the same, refused when no row was affected                *)
(*   save        Save of the row that was read                             *)
(*   put         Save of a row built from the request                      *)
(*   delete, deleteRow    alike                                            *)
(*   record      the audit entry                                           *)
(*   refuse      always refuses                                            *)
(* With "try" before it the statement's error is ignored, and peek is a    *)
(* look whose error is.  Where the input chooses between two sequences     *)
(* each is a program.  Left out: wording, paging, what an answer contains. *)
(***************************************************************************)
EXTENDS Sequences

CredentialService ==
  [list |-> <<"look">>,
   create |-> <<"check", "insert">>,
   update |-> <<"check", "update">>,
   rotate |-> <<"find", "check", "update">>,
   delete |-> <<"deleteRow">>]

CredentialReads ==
  [list |-> CredentialService.list,
   create |-> <<"bind">> \o CredentialService.create \o <<"record">>]

CredentialWrites ==
  [update |-> <<"bind">> \o CredentialService.update \o <<"record">>,
   delete |-> CredentialService.delete \o <<"record">>,
   rotate |-> <<"bind">> \o CredentialService.rotate \o <<"record">>]

\* An update reads the row again for its answer; with nothing to update it only reads.
ClusterRows ==
  [create |-> <<"check", "check", "insert">>,
   get |-> <<"find">>,
   list |-> <<"look">>,
   update |-> <<"check", "updateRow", "find">>,
   touch |-> <<"find">>,
   delete |-> <<"deleteRow">>]

\* With its secrets decrypted.
ClusterSecrets == <<"find", "check">>

ClusterService ==
  [create |-> ClusterRows.create, get |-> ClusterRows.get, list |-> ClusterRows.list,
   update |-> ClusterRows.update, touch |-> ClusterRows.touch, delete |-> ClusterRows.delete,
   test |-> ClusterSecrets \o <<"peek">>]  \* a failed connection is an answer

ClusterHandlers ==
  [create |-> <<"bind">> \o ClusterService.create, list |-> ClusterService.list,
   get |-> ClusterService.get]

ClusterWrites ==
  [update |-> <<"bind">> \o ClusterService.update, touch |-> <<"bind">> \o ClusterService.touch,
   delete |-> ClusterService.delete, test |-> ClusterService.test]

\* The echo of a new or a tested server runs on the local executor, and its
\* failure is part of the answer.
ServerService ==
  [list |-> <<"look">>,
   add |-> <<"peek", "insert">>,
   remove |-> <<"deleteRow">>,
   test |-> <<"find", "peek">>,
   update |-> <<"update", "peek">>]

ServerHandlers ==
  [add |-> <<"bind">> \o ServerService.add, list |-> ServerService.list,
   update |-> <<"bind">> \o ServerService.update, delete |-> ServerService.remove]

ServerChecks ==
  [detect |-> <<"ask">>, environment |-> <<"find">>, test |-> ServerService.test]

RegistryRows ==
  [create |-> <<"check", "insert">>,
   get |-> <<"find", "check">>,
   list |-> <<"look">>,
   update |-> <<"check", "updateRow", "find", "check">>,
   touch |-> <<"find", "check">>,
   delete |-> <<"deleteRow">>]

RegistryHandlers ==
  [list |-> RegistryRows.list, create |-> <<"bind", "check">> \o RegistryRows.create,
   get |-> RegistryRows.get, update |-> <<"bind">> \o RegistryRows.update,
   touch |-> <<"bind">> \o RegistryRows.touch, delete |-> RegistryRows.delete]

\* The row and then its password are read; the plugin of its provider is asked.
RegistryOps ==
  [login |-> <<"find", "find", "check", "ask">>,
   push |-> <<"find", "find", "check", "check", "act">>,
   list_tags |-> <<"find", "find", "check", "check", "ask">>,
   ping |-> <<"find", "find", "check", "peek">>,
   unknown |-> <<"find", "find", "check", "check">>]

\* An update does not ask whether there was a row, and reads it for the answer.
ProviderHandlers ==
  [list |-> <<"look", "look">>,
   create |-> <<"bind", "insert">>,
   update |-> <<"bind", "update", "peek">>,
   delete |-> <<"deleteRow">>]

NotificationHandlers ==
  [list |-> <<"look">>,
   create |-> <<"bind", "insert">>,
   update |-> <<"bind", "update", "peek">>,
   delete |-> <<"deleteRow">>]

\* The built-in templates are constants; custom ones are rows of table providers.
TemplateService ==
  [list |-> <<>>, get |-> <<"check">>, envList |-> <<>>, envGet |-> <<"check">>]

TemplateHandlers ==
  [list |-> TemplateService.list,
   create |-> <<"bind", "insert">>,
   update |-> <<"bind", "update">>,
   delete |-> <<"deleteRow">>]

CertificateService ==
  [list |-> <<"look">>, request |-> <<"insertOnce">>, renew |-> <<"find", "save">>,
   delete |-> <<"deleteRow">>]

CertificateHandlers ==
  [list |-> <<"look", "look">>,
   request |-> <<"bind", "check", "insertOnce">>,
   delete |-> <<"bind", "deleteRow">>,
   renew |-> <<"bind", "find", "save">>]

AlertRuleService ==
  [create |-> <<"insert">>, update |-> <<"put">>, delete |-> <<"delete">>, get |-> <<"find">>,
   list |-> <<"look">>]

AlertRuleHandlers ==
  [create |-> <<"bind">> \o AlertRuleService.create,
   update |-> <<"bind">> \o AlertRuleService.update,
   delete |-> AlertRuleService.delete,
   get |-> AlertRuleService.get]

SilenceHandlers ==
  [createSilence |-> <<"bind", "check", "check", "insert">>, listSilences |-> <<"look">>,
   deleteSilence |-> <<"delete">>,
   createEscalation |-> <<"bind", "check", "insert">>, listEscalations |-> <<"look">>,
   deleteEscalation |-> <<"delete">>,
   listGroups |-> <<"look">>]

AlertHistoryHandlers ==
  [list |-> <<"peek", "look">>, get |-> <<"find", "peek">>, stats |-> <<"peek">>]

\* Charts and checks of this host and its containers.
MetricHandlers ==
  [system |-> <<"ask">>, container |-> <<"bind", "ask">>, alerts |-> <<"look">>, rules |-> <<"look">>,
   heal |-> <<"bind", "act">>, check |-> <<"bind", "ask">>]

\* A check inserts its result and saves the row read before it (Uptime).
MonitorService ==
  [create |-> <<"insert">>, list |-> <<"look">>, get |-> <<"find">>, update |-> <<"put">>,
   delete |-> <<"delete">>, check |-> <<"find", "peek", "tryInsert", "trySave">>]

MonitorHandlers ==
  [create |-> <<"bind">> \o MonitorService.create, list |-> MonitorService.list,
   get |-> MonitorService.get, update |-> <<"bind">> \o MonitorService.update,
   delete |-> MonitorService.delete, check |-> MonitorService.check,
   checkAll |-> <<"look">>,  \* and the check of each
   results |-> <<"look">>, sla |-> <<"peek">>]

HeartbeatHandlers ==
  [statusPage |-> <<"look">>, create |-> <<"bind", "insert">>, list |-> <<"look">>,
   delete |-> <<"delete">>, ping |-> <<"find", "update">>]

WebhookService ==
  [create |-> <<"insert">>, get |-> <<"find">>, list |-> <<"look", "look">>, update |-> <<"put">>,
   delete |-> <<"delete">>]

\* A test posts once and records the delivery, whatever its outcome.
WebhookTest == <<"find", "check", "tryAct", "act">>

WebhookHandlers ==
  [create |-> <<"bind">> \o WebhookService.create, list |-> WebhookService.list,
   get |-> WebhookService.get, update |-> <<"bind">> \o WebhookService.update,
   delete |-> WebhookService.delete, test |-> WebhookTest, deliveries |-> <<"look", "look">>,
   delivery |-> <<"find">>]

PluginRows ==
  [create |-> <<"insertOnce">>, get |-> <<"find">>, list |-> <<"look">>,
   update |-> <<"updateRow", "find">>, touch |-> <<"find">>, delete |-> <<"deleteRow">>]

PluginHandlers ==
  [list |-> PluginRows.list, create |-> <<"bind">> \o PluginRows.create, get |-> PluginRows.get,
   update |-> <<"bind">> \o PluginRows.update, touch |-> <<"bind">> \o PluginRows.touch]

\* The server is made without a plugin manager: nothing is loaded or dropped.
PluginSwitches ==
  [delete |-> PluginRows.delete, enable |-> <<"refuse">>, disable |-> <<"refuse">>,
   reload |-> <<"refuse">>]

FlagService ==
  [list |-> <<"look">>, get |-> <<"find">>,
   update |-> <<"find", "check", "update", "find">>,
   addOverride |-> <<"find", "look", "insertOnce", "tryAct">>,
   setOverride |-> <<"find", "look", "update", "tryAct">>,
   deleteOverride |-> <<"deleteRow", "tryAct">>,
   listOverrides |-> <<"look">>, forTenant |-> <<"look">>]

FlagHandlers ==
  [list |-> FlagService.list, get |-> FlagService.get, update |-> <<"bind">> \o FlagService.update]

OverrideHandlers ==
  [add |-> <<"bind">> \o FlagService.addOverride, set |-> <<"bind">> \o FlagService.setOverride,
   delete |-> <<"bind">> \o FlagService.deleteOverride, list |-> FlagService.listOverrides,
   forTenant |-> <<"bind">> \o FlagService.forTenant]
=============================================================================
