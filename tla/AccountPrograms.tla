--------------------------- MODULE AccountPrograms ---------------------------
(***************************************************************************)
(* The handlers of accounts and of what is kept about them: API keys,      *)
(* address whitelists, devices, users, sessions, signing keys, licences,   *)
(* trials, the audit log and the applications of a tenant, each as the     *)
(* program ResourcePrograms describes.  Two more statements:               *)
(*   tryNumber, insertNext reads the highest number, inserts a row with    *)
(*                         the next one, which must be new                 *)
(*   set                   a change of memory, which cannot fail           *)
(***************************************************************************)
EXTENDS Sequences

APIKeyService ==
  [list |-> <<"look">>, create |-> <<"check", "insert">>, validate |-> <<"find", "check", "tryUpdate">>,
   get |-> <<"find">>, update |-> <<"updateRow">>, delete |-> <<"deleteRow">>]

\* The addresses of a new key are written by a second statement.
APIKeyHandlers ==
  [list |-> <<"who">> \o APIKeyService.list,
   create |-> <<"who", "bind">> \o APIKeyService.create \o <<"record">>,
   createFor |-> <<"who", "bind">> \o APIKeyService.create \o <<"tryAct", "record">>]

APIKeyRows ==
  [delete |-> <<"who">> \o APIKeyService.delete \o <<"record">>, get |-> <<"who">> \o APIKeyService.get]

APIKeyChanges ==
  [update |-> <<"who", "bind", "check">> \o APIKeyService.update \o <<"record">>,
   stats |-> <<"who">> \o APIKeyService.get]

WhitelistRows == [create |-> <<"insert">>, list |-> <<"look">>, delete |-> <<"deleteRow">>,
                  check |-> <<"peek", "peek">>]

WhitelistService ==
  [create |-> <<"check">> \o WhitelistRows.create, list |-> WhitelistRows.list,
   delete |-> WhitelistRows.delete, check |-> WhitelistRows.check, isEnforced |-> <<"peek">>]

\* A check answers twice: before and after it counted the entries.
WhitelistHandlers ==
  [list |-> <<"check", "who">> \o WhitelistService.list,
   add |-> <<"check", "who", "bind">> \o WhitelistService.create,
   delete |-> <<"check", "who", "bind">> \o WhitelistService.delete,
   check |-> <<"check", "who">> \o WhitelistService.isEnforced \o WhitelistService.check \o <<"peek">>]

DeviceService ==
  [list |-> <<"look">>, revoke |-> <<"updateRow">>, trust |-> <<"updateRow">>, isNew |-> <<"look">>]

DeviceHandlers ==
  [list |-> <<"check", "who">> \o DeviceService.list,
   revoke |-> <<"check", "who", "bind">> \o DeviceService.revoke]

DeviceTrust ==
  [trust |-> <<"check", "who", "bind">> \o DeviceService.trust,
   current |-> <<"check", "who">> \o DeviceService.isNew]

\* Under the lock of the configuration; the password validator is replaced with it.
SecurityConfigHandlers == [get |-> <<>>, update |-> <<"bind", "check", "check", "set">>]

OnboardingHandlers ==
  [complete |-> <<"who", "update">>, status |-> <<"who", "find", "peek">>]

\* Of a credential, a server and an application; the server is this row.
DemoData == [generate |-> <<"who", "look", "tryVacant", "act", "insert", "act">>]

CurrentUser == [get |-> <<"who", "check", "check", "find">>]

UserHandlers ==
  [list |-> <<"look", "look">>, delete |-> <<"deleteRow">>, role |-> <<"bind", "look", "update">>,
   roles |-> <<"look">>]

LoadSigner == <<"check">>

SigningReads ==
  [status |-> <<"check", "look">>, verify |-> <<"check", "look">> \o LoadSigner \o <<"check">>]

\* All keys are deactivated before the new one is inserted.
SigningKeyWrites ==
  [generate |-> <<"check", "who", "check", "tryNumber", "check", "update", "insertNext">>,
   rotate |-> <<"check", "who", "check", "tryNumber", "check", "update", "insertNext", "peek">>]

LicenseKeyReads == [list |-> <<"look">>, version |-> <<"look">>]

RotateLicenseKeys == <<"check", "tryNumber", "tryUpdate", "insertNext", "set">>

LicenseKeyHandlers ==
  [rotate |-> RotateLicenseKeys, list |-> LicenseKeyReads.list, version |-> LicenseKeyReads.version,
   backup |-> <<"bind", "check">>]

\* The engine takes a key before the active row expires.
ActivateWithKey == <<"check", "act", "check", "check", "tryUpdate", "check", "insertOnce", "tryAct">>

\* A row without a key; the key of an engine that can sign is written into it afterwards.
ActivateCommunity == [plain |-> <<"tryUpdate", "check", "insertOnce">>,
                      signed |-> <<"tryUpdate", "check", "insertOnce", "tryAct", "tryAct">>]

PurchaseAddon == <<"check", "find", "check", "update", "tryAct">>

IssueLicense == [issue |-> <<"check", "check", "insertOnce">>, list |-> <<"look">>,
                 revoke |-> <<"check", "updateRow">>]

\* From the engine, or the active row.
LicenseStatus == <<"look">>

LicenseHandlers ==
  [status |-> LicenseStatus,
   activate |-> <<"bind">> \o ActivateWithKey, community |-> <<"bind">> \o ActivateCommunity.plain,
   communityKey |-> <<"bind">> \o ActivateCommunity.signed, neither |-> <<"bind", "refuse">>,
   deactivate |-> <<"update">>,
   issue |-> <<"bind">> \o IssueLicense.issue, list |-> IssueLicense.list,
   revoke |-> <<"bind", "bind">> \o IssueLicense.revoke,
   addon |-> <<"bind">> \o PurchaseAddon]

TrialStatus == <<"look">>
TrialPeriods == <<"look">>

TrialHandlers ==
  [status |-> TrialStatus, extend |-> <<"bind", "check", "find", "check", "update">>,
   list |-> TrialPeriods]

\* The engine, the flags and the trial; every error counts as "no".
DegradationStatus == <<"peek", "peek">>

DegradationReads == [audits |-> <<"look">>, summary |-> <<"peek">>]

DegradationHandlers ==
  [status |-> DegradationStatus, audits |-> DegradationReads.audits,
   summary |-> DegradationReads.summary]

\* The rows are those of the store of refresh tokens.
SessionHandlers ==
  [list |-> <<"who", "look">>, kick |-> <<"who", "bind", "check", "find", "check", "delete">>]

LoginHistory == [list |-> <<"who", "look", "look">>]

AuditReads == [trace |-> <<"look", "look">>]
AuditStats == [stats |-> <<"look">>]

ExportUserData == <<"look", "peek">>
DeleteUserData == <<"update">>
GenerateComplianceReport == <<"look", "look", "peek">>
AuditExport == <<"look", "look">>  \* logs and hashes

AuditProofs ==
  [verify |-> <<"check", "look">>, export |-> <<"check", "bind">> \o AuditExport]

GdprHandlers ==
  [export |-> <<"check", "who">> \o ExportUserData,
   delete |-> <<"check", "who", "check", "bind">> \o DeleteUserData]

ComplianceHandlers == [report |-> <<"check">> \o GenerateComplianceReport]

AuditHandlers ==
  [export |-> <<"look", "look">>, archive |-> <<"bind", "update">>, stats |-> AuditStats.stats,
   verify |-> <<"look", "look">>]

AuditQueries == [list |-> <<"look", "look">>]

AppService ==
  [list |-> <<"look">>, create |-> <<"insert">>, delete |-> <<"find", "tryAct", "tryAct", "delete">>,
   history |-> <<"look">>, get |-> <<"find">>, update |-> <<"update", "peek">>,
   searchLogs |-> <<"find", "check", "ask">>]

AppHandlers ==
  [list |-> <<"look", "look">>, get |-> <<"find">>, update |-> <<"bind", "update", "peek">>,
   delete |-> AppService.delete]

AppCreation == [create |-> <<"bind", "check", "insert">>]

\* The archive's failure is logged, the copy of the row's ID is kept in memory; a
\* restoration asks for an archive of its own second.
BridgeBackup ==
  [backup |-> <<"find", "tryAct", "set">>,
   restore |-> <<"check", "find", "tryAct", "tryAct", "tryAct", "act">>, batch |-> <<"tryAct">>]

AppBackups == [backup |-> BridgeBackup.backup, restore |-> <<"bind">> \o BridgeBackup.restore]

AppBuild == [build |-> <<"find", "act">>]

AppViews ==
  [status |-> <<"find", "ask">>, history |-> <<"find">> \o AppService.history,
   logs |-> <<"find", "ask">>]

AppHistory == [history |-> AppViews.history, logs |-> AppViews.logs]

AppEnv == [get |-> <<"find">>, update |-> <<"bind", "update">>]

DeploymentHandlers == [list |-> <<"look", "look">>, get |-> <<"find">>]
=============================================================================
