------------------------------ MODULE Platform ------------------------------
(***************************************************************************)
(* The components that keep rows, files or tables in memory and share no   *)
(* state with the deployment engine or with one another.  Actors stands    *)
(* for the interchangeable actors of each: requests, deliveries,           *)
(* rotations, processes, checkers, tabs.                                   *)
(***************************************************************************)
CONSTANTS Actors, Users, None,
          IPs, MaxAttempts, IPMaxAttempts, Window, Lockout, IPLockout, MaxPerIP,  \* LoginGuard
          RefreshTokens, MaxLogouts,                                    \* Sessions
          BackupCodes, MaxGenerated,                                    \* TwoFactor
          WebhookRetries, WebhookSlots, MaxEdits,                       \* Webhooks
          SigningKeys, ConfigKey, MaxRows,                              \* Licensing
          Watched, MaxUpdates,                                          \* Migrations
          Servers, FlagRequests, HomeOf, MaxChanges,                    \* FeatureFlags
          Monitors, Heartbeats, CheckTimeout, MaxChecks,                \* Uptime
          Releases,                                                     \* Upgrade
          Kept, Lifetime, Suffix, MaxBackupTime,                        \* DatabaseBackups
          AccessUsers, AccessTokens, AccessRequests, Resources,         \* AccessControl
          ResourceKind, TokenLife, CacheLife, MaxAccessTime,
          Apps, MaxConcurrent, DefaultConcurrent, MaxPanics,            \* BatchDeploy
          Rate, Minute, StaleAfter, CodeAttempts, CodeWindow, MaxLimitTime,  \* RateLimits
          OriginalDays, MaxDays, Grace, MaxExtended, MaxTrialTime,      \* Trials
          PageLimit, MaxAuditRows, MaxKeys,                             \* AuditLog
          Admin, MaxTokens, MaxCalls,                                   \* WebSession
          Names, PageSize, ListingLife, MaxVersions, MaxDnsTime         \* DnsRecords

VARIABLES accounts, ips, login,
          backend, token, request, epoch,
          row, handler, generated, accepted, excused,
          hook, delivery, record, serving, edits, intended, disturbed,
          keys, licences, rotation, engine, privKey, up, started, skipped,
          tables, versioned, version, recorded, applied, process, forgotten, dropped, mixed,
          revision, overridden, cache, flagRequest, settled, outdated,
          monitor, checker, results, counted, overlapped, heartbeat, sweep, raced,
          bin, inUse, copies, api, pc, at, rolling, outcome, before, damaged, answering,
          now, file, cloud, backupRecord, backup, stale,
          accessBackend, accessTime, user, resource, issued, revoked, answers, access,
          maker, lostAt, loggedOut,
          batch, item, slots,
          limitTime, bucket, allowed, attempts, admitted,
          trialTime, trial, licence, extension, overwritten,
          arrival, chain, context, result, audit,
          auditRows, hmacKey, writers, lines,
          owner, valid, stored, tab, calls, crossed,
          provider, zone, versions, ended, listing, dnsTime, dnsCall,
          there, columns, inserted, handling

loginVars == <<accounts, ips, login>>
sessionVars == <<backend, token, request, epoch>>
twoFactorVars == <<row, handler, generated, accepted, excused>>
webhookVars == <<hook, delivery, record, serving, edits, intended, disturbed>>
licenceVars == <<keys, licences, rotation, engine, privKey, up, started, skipped>>
migrationVars ==
  <<tables, versioned, version, recorded, applied, process, forgotten, dropped, mixed>>
flagVars == <<revision, overridden, cache, flagRequest, settled, outdated>>
uptimeVars == <<monitor, checker, results, counted, overlapped, heartbeat, sweep, raced>>
upgradeVars == <<bin, inUse, copies, api, pc, at, rolling, outcome, before, damaged, answering>>
backupVars == <<now, file, cloud, backupRecord, backup, stale>>
accessVars == <<accessBackend, accessTime, user, resource, issued, revoked, answers, access,
                maker, lostAt, loggedOut>>
batchVars == <<batch, item, slots>>
limitVars == <<limitTime, bucket, allowed, attempts, admitted>>
trialVars == <<trialTime, trial, licence, extension, overwritten>>
pipelineVars == <<arrival, chain, context, result, audit>>
auditVars == <<auditRows, hmacKey, writers, lines>>
webVars == <<owner, valid, stored, tab, calls, crossed>>
dnsVars == <<provider, zone, versions, ended, listing, dnsTime, dnsCall>>
rowVars == <<there, columns, inserted, handling>>

Login == INSTANCE LoginGuard WITH Requests <- Actors

Session == INSTANCE Sessions WITH Tokens <- RefreshTokens, Requests <- Actors

Codes == INSTANCE TwoFactor WITH Handlers <- Actors, Codes <- BackupCodes

Webhook == INSTANCE Webhooks WITH Events <- Actors, MaxRetries <- WebhookRetries, Slots <- WebhookSlots

Licence == INSTANCE Licensing WITH Keys <- SigningKeys, Config <- ConfigKey, Rotations <- Actors

Migration == INSTANCE Migrations WITH Processes <- Actors, Updates <- MaxUpdates, disturbed <- dropped

Flag == INSTANCE FeatureFlags WITH
  Requests <- FlagRequests, request <- flagRequest, excused <- outdated

Check == INSTANCE Uptime WITH Checkers <- Actors, Timeout <- CheckTimeout

Updater == INSTANCE Upgrade WITH backup <- copies

Backup == INSTANCE DatabaseBackups WITH
  Backups <- Actors, MaxTime <- MaxBackupTime, record <- backupRecord

Access == INSTANCE AccessControl WITH
  Users <- AccessUsers, Tokens <- AccessTokens, Requests <- AccessRequests, Kind <- ResourceKind,
  MaxTime <- MaxAccessTime,
  backend <- accessBackend, now <- accessTime, token <- issued, request <- access

Batch == INSTANCE BatchDeploy WITH call <- batch, results <- slots

Limit == INSTANCE RateLimits WITH
  Stale <- StaleAfter, MaxAttempts <- CodeAttempts, Window <- CodeWindow, MaxTime <- MaxLimitTime,
  now <- limitTime

Trial == INSTANCE Trials WITH
  Handlers <- Actors, MaxTime <- MaxTrialTime,
  now <- trialTime, handler <- extension, overlapped <- overwritten

\* Every kind of route, token and key.
Pipeline == INSTANCE RequestPipeline WITH request <- arrival, outcome <- result

Audit == INSTANCE AuditLog WITH MaxRows <- MaxAuditRows, rows <- auditRows, key <- hmacKey

Web == INSTANCE WebSession WITH Tabs <- Actors, Accounts <- Users

Dns == INSTANCE DnsRecords WITH
  Requests <- Actors, Page <- PageSize, CacheLife <- ListingLife, MaxTime <- MaxDnsTime, made <- versions

Row == INSTANCE RowHandlers WITH Requests <- Actors, made <- inserted, call <- handling

ASSUME PlatformAssumption ==
  /\ Batch!BatchAssumption
  /\ Trial!TrialAssumption /\ Webhook!WebhookAssumption
  /\ Migration!MigrationAssumption /\ Codes!CodesAssumption /\ Access!AccessAssumption
  /\ Session!SessionAssumption /\ Web!WebAssumption /\ Flag!FlagAssumption
  /\ Dns!DnsAssumption /\ Login!LoginAssumption /\ Limit!LimitAssumption
  /\ Backup!BackupAssumption /\ Licence!LicenceAssumption /\ Row!ProgramAssumption
-----------------------------------------------------------------------------
\* Within a window an account is tried at most one time less than the limit,
\* and once more by every login handled at the same time (LoginGuard); a minute
\* has at most twice the requests, and a window at most twice the attempts, that
\* the limits name, wherever it begins (RateLimits).
LimitsHold ==
  /\ Login!GuessesBounded
  /\ Limit!RequestsBounded
  /\ Limit!AttemptsBounded

\* A logout of all devices whose commands the store accepted leaves no older refresh
\* token valid, but for those of requests that overlapped it; the next one finds
\* every valid token, with the same exception in Redis; a refresh token is exchanged
\* once unless two requests held it at once or its deletion was refused (Sessions).
\* A tab of the web client shows the user whose token it sends unless an older answer
\* or another tab's login crossed it, and pages with a role only to its holder
\* (WebSession).
SessionsHold ==
  /\ Session!LogoutReachesAll /\ Session!NextLogoutFinds /\ Session!ExchangedOnce
  /\ Web!UserIsTokens

\* Two-factor login is never enabled without a secret, and a backup code lets
\* somebody in once, unless requests overlap (TwoFactor).
SecondFactorHolds == Codes!EnabledHasSecret /\ Codes!CodeAdmitsOnce

\* A change of a webhook made while nothing is in flight stands, and the record
\* of a delivery that ended tells what was posted (Webhooks).
WebhooksHold == Webhook!ChangesStand /\ Webhook!RecordIsTrue

\* A server that has started has the tables its release needs (Migrations), and
\* an upgrade replaces every binary or none (Upgrade).
ReleasesHold ==
  /\ Migration!StartedHasTables
  /\ Updater!AllOrNothing

\* A change of a flag is seen by evaluations at the server that made it, unless a
\* read fails or an older listing fills the cache after it (FeatureFlags); whoever
\* has a role below admin and is told that a resource is open to him had access to
\* it a short time ago (AccessControl); no listing of DNS records shows one that is
\* long gone (DnsRecords).
CachesHold ==
  /\ Flag!ChangesAreSeen
  /\ Access!AnswersAreFresh
  /\ Dns!ListingsAreRecent

\* The counts of a monitor are those of its checks, and a heartbeat shown as down
\* is overdue (Uptime).
ChecksHold == Check!StatsAddUp /\ Check!DownIsOverdue

\* At most one signing key is active unless a deactivation failed, and a running
\* server trusts the key it signs with, and the keys of the table but those that it
\* could not read as it started and is about to be told (Licensing).
SigningKeysHold == Licence!OneKeyActive /\ Licence!KeysTrusted

\* A success tells that the change was made, unless the handler is in Unasked, and a
\* refusal that nothing was, unless it is in HalfDone; what was answered stands next to
\* handlers outside Overwriting; two requests that create one name make one row, but
\* those of Duplicating; a tool for viewers changes nothing (RowHandlers, whose sets have
\* the handlers by name).
HandlersHold ==
  /\ Row!AnswersAreTrue /\ Row!RefusedChangesNothing /\ Row!ViewersChangeNothing
  /\ Row!ChangesStand /\ Row!OncePerName

\* Retention leaves RetentionCount backups (DatabaseBackups).
RetentionKeeps == [][Backup!RetentionStep]_backupVars

\* No request begins with a token whose revocation was confirmed (AccessControl).
RevokedStaysOut == [][Access!RevokedStaysOut]_accessVars

\* A batch deploys no more applications at a time than it may, and its answer
\* tells what happened to each (BatchDeploy).
BatchHolds == Batch!ConcurrencyBounded /\ Batch!AnswerTells

\* An installation is shown as read-only only when its licence or its days are
\* over, and a trial has no more days than were granted, and no fewer unless
\* changes of it overlapped (Trials).
TrialsHold == Trial!ReadOnlyIsDue /\ Trial!DaysAddUp

\* A converted trial stays converted (Trials).
ConvertedStays == [][Trial!ConvertedStays]_trialVars

\* A protected handler acts for the user of a valid token who may do it, an API key
\* alone being refused, and what was handled is in the audit log with that user if its
\* method is not GET and the row could be written (RequestPipeline).
RequestsHold == Pipeline!ActsForItsUser /\ Pipeline!ChangesAreRecorded

\* Verification reports the rows that were changed or are of an earlier run, and
\* the file has no line twice and none without a row (AuditLog).
AuditHolds == Audit!VerificationIsTrue /\ Audit!FileFollowsTable

\* A success of a change of DNS records tells that they were made, and a change
\* reaches a record of the name it is for (DnsRecords).
RecordsHold == Dns!SuccessIsMade /\ Dns!ChangesItsName
=============================================================================
