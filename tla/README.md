# A TLA+ model of DeployPilot

DeployPilot is a Go server that deploys containers to Docker hosts for clients of
a REST interface and of an MCP interface, and that watches what it deployed.
Paths below are relative to `src/internal`.  This directory holds TLA+ modules translated from its code, configurations for TLC and proofs for
TLAPS.  `PROJECT.json` relates every definition to the lines it models and lists
the runs, the hazards and the theorems.

## The system

`src/cmd/api-server/main.go` builds one `service.Bridge`, which holds the database
(GORM), the remote executors, the event buses, the task table and the optional
services, and gives it to the REST router (`internal/api`, `internal/server`) and
to the WebSocket hub.  `src/cmd/mcp-server` gives the same Bridge to the MCP tools
(`internal/mcp`).  Every request runs in a goroutine of its own; the Bridge does
not serialise requests on one application, so that all that follows may interleave.

| Component | State | Operations | What makes it hard | What makes it correct |
|---|---|---|---|---|
| Deployment engine: `service/deploy_service.go`, `engine/deployer/deployer.go`, `engine/builder`, `service/preflight.go` | containers and images of the hosts; table `deployments`; `apps.current_version` | Deploy, DeployAsync, BuildAndDeploy, Rollback, Stop, Remove | several commands per request, each of which may fail or have worked although it reported an error; requests on one container name interleave; the process may die anywhere | success is never claimed falsely; the history tells what runs; an image is fetched before the old container goes |
| Backup and restore: `service/backup_service.go` | `Bridge.backupApps` (memory) | Backup, Restore, BatchBackup | redeploys from a column that deploys do not maintain | a restore brings back a version that was deployed |
| Task table: `service/task_service.go` | `Bridge.tasks` (memory, one lock) | createTask, updateTask, GetTaskStatus, ListTasks | a goroutine that panics or returns early | every task gets an outcome, and keeps to its life cycle |
| Deploy event bus and SSE: `service/eventbus.go`, `api/sse.go` | map from topic to channels; buffered channels; connections | Subscribe, Publish, unsubscribe, Close; DeploySSE, DeployAsyncHandler | Publish sends without the lock on channels that may be closed meanwhile; full channels; clients that stop reading; late subscribers | order, no foreign event, no waiting publisher, streams end and are forgotten |
| Redis event buses: `service/redis_eventbus.go`, `typed_eventbus_redis.go` | one Redis channel between instances, a local bus in each | Publish to both, Subscribe to both and merge | an instance's own events come back; lossy delivery | each event once to each subscriber, on whatever instance |
| Typed event bus: `service/typed_eventbus.go`, `api/sse_alert.go` | map by type and by "all" | Subscribe, SubscribeAll, Publish, Close | as the deploy bus | as the deploy bus; nothing publishes on it yet |
| Agent tunnel: `internal/agent/tunnel.go` | connections by server, pending commands | HandleTunnel, ExecuteCommand, handleResult, StartCleanup | replaced connections, late results, timeouts, a read lock held over a write | one caller gets one result, that of its command; no connection is removed for another's end |
| Batch and health-checked deployment: `service/batch_deploy.go`, `engine/deployer/health.go` | results per item, a semaphore | sequential, parallel, rolling; deploy, check, roll back | partial failure, cancellation, slots written by goroutines | no more at a time than allowed, the answer tells what happened to each item |
| Monitoring: `service/monitor_service.go`, `monitor_scheduler.go`, `internal/monitor` | monitor rows with counts, heartbeat rows | RunCheck, Beat, CheckHeartbeats, edits | rows read before a probe and saved after it; the sweep reads all and writes later | counts are those of the checks; a server that beats is not down |
| Alert engine, rules, event router, notifications: `service/alert_engine.go`, `alert_rule_service.go`, `event_router.go`, `notification_service.go` | rules, silences, groups, escalations | evaluation, grouping, routing | check, then act on rows | not started or not wired by the server |
| Outbound webhooks: `service/outbound_webhook_service.go` | webhook rows, deliveries | Dispatch, deliver, retry | the whole row is saved after the delivery | an edit or a deletion made meanwhile survives |
| Confirmation store: `internal/confirm/store.go` | confirmations with state and expiry | Create, Confirm, Reject, SetResult, Cleanup | expiry against an answer | a confirmation is used once, and not after it expired |
| Login protection: `internal/bruteforce/protector.go` | attempts and lockouts per account and address | Check, RecordFailure, RecordSuccess, Unlock | check and record are two critical sections | the number of attempts before a lock is bounded |
| Sessions and tokens: `internal/auth`, `api/auth.go`, `refresh.go`, `sessions.go` | refresh tokens and the set of each user's (memory or Redis); blacklist; roles in tokens | Login, RefreshToken, KickSession, LogoutAllDevices, RevokeToken, AuthMiddleware | retrieve and revoke are two operations; Redis commands one after the other; restarts | a refresh token yields one new pair; a logout everywhere reaches every session; revoked stays out |
| Access to resources: `service/authorization.go`, `auth/resource_middleware.go` | answers cached for five minutes | check, cache | rows and roles change under the cache | nobody is let in on what he lost long ago |
| Two-factor authentication: `api/twofa.go` | secret, backup codes, the flag, in one row | setup, confirm, verify, disable, reset | whole rows saved, one over the other | enabled has a secret; a backup code is used once |
| Middleware: `internal/server`, `api/router.go`, `internal/middleware` | chains of handlers; buckets and windows per address | every request | a chain is fixed when its group is made | a handler acts for the user of the token, with what it reads in place; what changes is recorded |
| Web client: `src/web/src` | token in the browser, user per tab; sockets | login, navigation, requests; log views | late answers, other tabs, tickets on their way | a tab shows the user whose token it sends; one socket per view |
| Audit log: `service/audit.go`, `audit_writer.go`, `internal/audit` | rows with an HMAC each, a file beside | Record, Archive, anonymise, List, Verify, Export | a key per start; rows rewritten; pages cut | verification reports exactly what was changed or is of an earlier run |
| Signing keys, secret sharing: `service/key_rotation_service.go` | key rows, key in memory | RotateLicenseKey, SplitSecret, CombineShares | concurrent rotations | one active key, the one in memory; any M shares give the secret |
| Licences, trials, degradation: `internal/license`, `service/license_*.go`, `trial_service.go`, `degradation_service.go` | licence and trial rows, the engine in memory | issue, activate, deactivate, revoke, load; start, extend, convert, expire | clock; two statements; restarts | what is over does not count as valid; the days are those granted |
| Self-upgrade: `service/upgrade.go` | progress, one upgrade flag | PerformUpgrade, Rollback | failure in the middle, restart | a failed upgrade leaves the old version |
| Database backups: `internal/backup` | files named by the second, records, a cloud bucket | CreateBackup, retention, upload, download, delete | listings of different times; names shared | retention keeps the newest |
| WebSocket hub: `api/ws.go` | clients per app, channels | Run, Register, Unregister, Close | register after Close, which nobody takes | a ticket admits one connection; the table lists who is there |
| Scheduler: `service/scheduler.go` | cron entries | Start, AddTask, RemoveTask, ToggleTask | a lock taken twice | only Start is reachable |
| Feature flags: `service/feature_flag_service.go` | flag and override rows, a cache per server | update, override, list, evaluate | a listing fills the cache after a change emptied it | a change is seen where it was made |
| Database migrations: `database/migrate.go` | tables, two systems' records of progress | start of either server, `--migrate-*` | killed anywhere, several processes, two systems in turns | a started server has its tables |
| Rows that users keep: credentials, servers, clusters, registries, providers, channels, templates, certificates, rules, monitors, webhooks, plugins, flags, API keys, devices, users, applications, scripts, snapshots, SSH keys, dashboards | one table each, hosts beside | list, create, read, update, delete, test; the MCP tools of the same | several statements without a transaction, rows read and saved later, names looked for and then inserted | a success was done, a refusal did nothing, what was answered stands |
| DNS records: `service/dns_service.go`, `provider/dns` | the provider's zone, a cached listing | create, update, delete, batch, list | a change is a search and then a call; the cache outlives changes | a success was made, of the name it was for; listings are not older than the cache's life |
| Plugins, caches, circuit breaker | maps under one lock | registration, lookup | little | little beyond a map |
| Other providers (TLS, CI/CD, registries, panels, Kubernetes), configuration, encryption, CLI | third-party interfaces; files | one request per operation | none of ordering or state | the handlers that call them are programs; the clients are out of scope |

`PROJECT.json` gives the status of each and the reason why a component is not
modelled.

## The modules

| Module | What it is |
|---|---|
| `Deployment` | the deployment engine with backup, restore and the task table |
| `DeployTask` | abstract specification: the life cycle the task table promises |
| `Deployment_proofs` | theorems about `Deployment` and their proofs |
| `DeployStream` | deploy event bus, its publishers and the SSE handlers |
| `DeployStream_proofs` | theorems about `DeployStream` and their proofs |
| `Tunnel` | reverse tunnel to the agents |
| `RedisBus` | event buses over Redis |
| `LogHub` | tickets, hub and log streams of the WebSocket interface |
| `LogView`, `WebSession` | the web client's sockets; its session over tabs |
| `LoginGuard`, `RateLimits` | brute-force protection; rate limits |
| `Sessions`, `AccessControl` | refresh tokens; access tokens, revocation, the access check and its cache |
| `TwoFactor` | two-factor authentication of a user |
| `RequestPipeline` | every kind of route and the middleware in front of it |
| `Webhooks` | an outbound webhook, its edits and deliveries |
| `Licensing`, `KeyShares`, `Trials` | signing keys and licences; secret sharing; trial and degradation |
| `MigrationSteps`, `Migrations` | what each migration creates; the processes that run them |
| `FeatureFlags` | a flag, its override and the servers' caches |
| `Uptime` | monitors, checks, heartbeats |
| `Upgrade` | the upgrade of an installation by itself |
| `DatabaseBackups` | backups of the server's database |
| `BatchDeploy` | several deployments in one call |
| `AuditLog` | the audit log and its verification |
| `ResourcePrograms`, `AccountPrograms`, `ServerPrograms`, `ToolPrograms` | the handlers of rows and the MCP tools, each as the sequence of its statements |
| `RowHandlers` | two of these handlers on one row, a statement at a time |
| `DnsRecords` | DNS records at the four providers, the cached listing |
| `Connections`, `Platform` | the components above with their parameters, and the properties that combine several of them |
| `Connections_proofs` | theorems about `Tunnel`, `RedisBus`, `LogHub`, `LogView` |
| `Operations_proofs` | theorems about `BatchDeploy`, `Trials`, `Webhooks`, `Uptime`, `AuditLog`, `DatabaseBackups` |
| `Releases_proofs` | theorems about `Upgrade`, `Migrations`, `Licensing` |
| `Access_proofs` | theorems about `TwoFactor`, `AccessControl`, `RequestPipeline`, `RowHandlers` |
| `Sessions_proofs` | theorems about `LoginGuard`, `RateLimits`, `Sessions`, `WebSession` |
| `Caches_proofs` | theorems about `FeatureFlags`, `DnsRecords` |
| `MCDeployment`, `MCDeployStream` | names, plans and symmetry for TLC |
| `MCConnections`, `MCPlatform` | `Connections` and `Platform` (and `KeyShares`) as behaviours for TLC, with the bounds of each component |

### Deployment

A *request* is one call of an API handler or MCP tool: its kind says which Bridge
operation it is.  `req[r]` is the goroutine: `pc` is the next command, statement or
critical section, the other fields are the local variables that decide something
(`cfg.Image`, `cfg.ContainerName`, the host behind the executor, the image a
rollback found, the verdict of the deployer).  Hosts, containers and image stores
are external, and react as the code expects of Docker: `docker pull` finds what the
registry has, `docker run` creates a container only if the name is free.

| Code | Actions |
|---|---|
| `DeployAsync` | `Begin` (createTask), `MarkRunning`, then those of Deploy, `Return` (outcome into the task), `PublishDone`, `Panic` (its recovery) |
| `Deploy` | `Preflight`, `Pull`, `Replace`, `RunSucceeds` / `RunFails`, `SaveRecord`, `Return` |
| `BuildAndDeploy` | `Build`, then those of Deploy |
| `RollbackWithType` | `Resolve`, `Inspect`, `PullTarget`, `StopOld`, `RemoveOld`, those of Deploy, `SaveRollback`, `UpdateVersion` |
| `Restore` | `Lookup`, `StopOld`, `RemoveOld`, `Pull`, `Replace`, `RunSucceeds` / `RunFails` (the deployer is called without Bridge.Deploy: no record) |
| `Backup`, `Stop`, `Remove` | `Backup`, `StopContainer`, `RemoveContainer` |
| environment | `ContainerExits`, `Crash` (requests, tasks and backups are lost; hosts and database stay) |

A command whose error the code only logs (`docker stop`, `docker rm`, both
inserts, the update of the app) is a step that may leave everything unchanged.
A command whose error the code returns can fail with or without its effect.
`clean` and `ran` are history variables: they record that nothing disturbed the
requests on a name, and that a request's `docker run` has reported success.

Abstracted: settings of a container (ports, environment, volumes, limits,
strategy parameters), messages, progress percentages, the SSH connection and its
pool (a request that finds no server ends as `unreachable`), the four checks of
preflight (one step that passes or refuses; none changes a host) and the
read-only operations.  A command whose context has ended may still be executed by its
host later; the model lets it take effect at once or not at all.  `Panic` stands for the one panic the code provokes, a send
on a closed channel, and may occur wherever Deploy or DeployAsync publish;
`DeployStream` models when it does.

### DeployStream

The goroutine of one deployment, the bus, and for each client the channel of
capacity `Cap`, the handler of `DeploySSE` and the goroutine that unsubscribes
when the request's context is done.  `Publish` is two steps, as in the code: copy
the channels of the topic under the read lock, then one send per channel without
it (`Send`: append, or drop when full; `SendPanics`: the channel has been closed
meanwhile).  The HTTP server ends every request, streams included, 30 seconds
after it was made (`TimesOut`).  `CloseBus` is the graceful shutdown, after which publishers and
handlers may still run.  The work between two events is left to `Deployment`; here
only the order of the events matters.  A topic is a container name in Deploy's
events and an app id in DeployAsync's "done", as in the code (`TopicOf`).

### The other components

One module per component, and one action per handler, or per critical section,
statement or command of it where another actor can come between two.  In short:

| Module | State (and the code that holds it) | Actions, next to the code's own names |
|---|---|---|
| `Tunnel` | `agents`, `commands` (the manager's two maps), `conn` (sockets with their handlers), `call` (callers of ExecuteCommand) | `ReadMessage`, `UpdateLastSeen`, `TakeChannel`, `SendResult` of a handler; `Lock` .. `EndWrite`: the read lock held over a write; `Stall`, `Resume`, `Cut`: the network |
| `RedisBus` | which of the two buses it is, what each publisher, a goroutine, has published, the two subscriptions of an instance, the goroutine that merges them | `PublishRemote`, `PublishLocal` (of any publishers next to each other), `MergeRemote`, `MergeLocal`; channels drop when full |
| `LogHub` | tickets, the hub's channels and table, handlers, streams | `Connect`, `Register`, the Run loop's cases, `Poll`, writes that may overlap |
| `LogView`, `WebSession` | a view's socket, fetch and timer; the stored token, and each tab's user | `Connect` .. `Disconnect`; `SendLogin`, `Navigate`, `Answer` (any order) |
| `LoginGuard`, `RateLimits` | failures and locks per account and address; token bucket and window | `Check` and `RecordFailure` apart, as in the code; `Tick` |
| `Sessions` | the token store and each user's set, as maps or as Redis keys | `Retrieve`, `StoreToken`, `IndexToken`, `DeleteTokens`: one Redis command each |
| `AccessControl` | tokens, the blacklist, users, resources, the cache of answers | `Authenticate`, `AnswerFromCache`, `AskDatabase`, `StoreAnswer`, `Restart` |
| `TwoFactor` | the user's row; handlers with the row they read | load and save of each of the five handlers |
| `RequestPipeline` | a request, the middleware left, what each layer put into its context | `Step` through the chain `ChainOf(route)`; every kind of route the routers make |
| `Webhooks` | the row, deliveries with the row each has read, the semaphore | `Post`, `Refuse`, `SaveRecord`, `SaveWebhook`, `UpdateWebhook`, `DeleteWebhook` |
| `Licensing`, `Trials` | key and licence rows, the engine in memory; the trial row and the clock | the four statements of a rotation; `Start` loads what the rows say |
| `KeyShares` | a secret, its shares | the polynomials over GF(256), evaluated and interpolated |
| `MigrationSteps`, `Migrations` | tables, both systems' records | one step per migration, killed between any two; two processes |
| `FeatureFlags` | rows, a cache per server | evaluation: read the override, then the cache or the row, each of which may fail; listing: read the rows, fill the cache |
| `Uptime` | monitor rows, checkers with the row they read, heartbeats | `CheckMonitor`, `SaveResult`; `CheckHeartbeats`, `MarkDown` |
| `Upgrade` | binaries, copies, the API process | one step per file operation of PerformUpgrade and of its rollback |
| `DatabaseBackups` | files, cloud objects, records; backups in progress, each with its listing | `Create`, retention as a listing followed by removals, oldest first, each of which may fail |
| `BatchDeploy` | the call and its slots | the three strategies, goroutines, panics, cancellation |
| `AuditLog` | rows with their HMAC, lines of the file | recording through the writer, edits of the table, verification |
| `ResourcePrograms` and the other three | none: constant sequences such as `<<"bind", "find", "check", "save", "record">>` | one record per handler file, one field per operation; a service's sequence is a definition of its own that handlers and tools share |
| `RowHandlers` | one row with a column per request, the rows made, the calls | one action per kind of statement: `Find`, `Vacant`, `Insert`, `Update`, `Save`, `Put`, `Delete`, `Act`, ...; `Fail` may come instead of any |
| `DnsRecords` | the zone, the cached listing, the clock, the calls | `ListFromCache` .. `StoreListing`; `Post` and `Refused` after the provider's own sequence of reads |

Each module's head says what it abstracts.

The handlers of rows are many (some 360 operations) and each is a short sequence of
statements, so the code is modelled in two layers: the programs say what each handler
does in which order and which errors it looks at, and `RowHandlers` says once what a
statement does.  `Tables` puts together the handlers that meet on one table, REST and
MCP; every pair of them is run, including a handler with itself.  Where the source drops
an error (`_ =`, a logged warning, a query whose error nobody reads) the program has the
statement's `try` form.  Sets of exceptions beside the properties (`Unasked`, `HalfDone`,
`Overwriting`, `Duplicating`) list the handlers that do not keep them, each by its group
and operation, so that a handler with the same program as a listed one is not excused
with it.  The sets are exact: the run passes with them, and the run without the property's
exception finds each handler that is listed.  A handler that joins or leaves one of them is a
change of behaviour.  The handlers that find no database in production (`RequestPipeline`, below)
have the program they would run with one, as the repository's tests give it to them.

## What the runs check

| Run | Instance | What it shows |
|---|---|---|
| `deployment_safety` | 2 requests of any kind, 2 hosts, 1 name, 3 images of which 1 is never published, 1 crash | types, `SuccessIsTrue`, `HistoryTellsWhatRuns`, `OnlyPulledImagesRun`, `PulledBeforeRemoval`, and that the tasks implement `DeployTask` |
| `deployment_liveness` | 2 requests (asynchronous deploy, rollback), 1 crash | `TaskEnds`: whoever polls a task learns an outcome or that the task is gone |
| `deployment_pull` | as the finding below needs | violation of `FailedPullKeepsContainer` |
| `deployment_restore` | as the finding below needs | violation of `RestoreDeploysKnownVersion` |
| `stream_safety` | 2 deployments, 1 client, 2 topics, channels of 2, shutdown | types, `StreamIsFaithful`, `RegisteredOpen`, `OutcomeIsRecorded` |
| `stream_liveness` | 1 deployment, 1 client that reads, 1 that may stop, channels of 1 | `DeployEnds`, `StreamEnds`, `EndedIsForgotten` |
| `stream_done` | 1 deployment, 1 client | violation of `ClosesWhenDeployFinishes` |
| `stream_cut` | 1 deployment, 1 client | violation of `KeptUntilDone` |
| `connections` | `Tunnel`, `RedisBus`, `LogHub`, `LogView`, one at a time | what each promises, the liveness of callers included |
| `platform` | every other component, one at a time; the handlers of rows in every pair of one table of which one writes, the DNS records of each provider | what each promises (below) |
| `license_restart` | `Licensing` alone: 1 server, 2 keys | violation of `RestartKeepsLicence` |
| `request_context` | every route, token and API key | violation of `HandlersFindDB` |

### The composites

`Connections` and `Platform` instantiate components that share no state, and state
what they promise; `MCConnections` and `MCPlatform` extend them for TLC.  Their
variable `part` chooses at the start which one moves; what it does then is all that
it would do next to the others, because none reads what another writes.  So one run
explores each in turn and not the product.  A component with several initial states
starts in any of them when it is the one that moves (`Resting`).  `LogHub` and
`Tunnel` have two instances each by what moves (`reconnect`, `commands`), `Sessions`
two (two tokens and overlapping requests; three tokens, one request at a time), and
so on, as the comments in the modules say.  The two actors of each component,
`p1` and `p2`, are interchangeable and used as symmetry in `platform`, which checks
safety only.

Several components' properties are conjuncts of one property of a composite:

| Property | Is |
|---|---|
| `TunnelHolds` | `OpenMeansRouted`, `AnswerHasRoom`, `NoChannelLeft` of `Tunnel` |
| `LogViewersHold` | `TicketAdmitsOne`, `TableIsTrue` of `LogHub` |
| `LimitsHold` | `GuessesBounded` of `LoginGuard`; `RequestsBounded`, `AttemptsBounded` of `RateLimits` |
| `SessionsHold` | `LogoutReachesAll`, `NextLogoutFinds`, `ExchangedOnce` of `Sessions`; `UserIsTokens` of `WebSession` |
| `SecondFactorHolds` | `EnabledHasSecret`, `CodeAdmitsOnce` of `TwoFactor` |
| `WebhooksHold` | `ChangesStand`, `RecordIsTrue` of `Webhooks` |
| `SigningKeysHold` | `OneKeyActive`, `KeysTrusted` of `Licensing` |
| `SharesRestore` | `FirstByteRestored` of `KeyShares` |
| `ChecksHold` | `StatsAddUp`, `DownIsOverdue` of `Uptime` |
| `BatchHolds` | `ConcurrencyBounded`, `AnswerTells` of `BatchDeploy` |
| `TrialsHold` | `ReadOnlyIsDue`, `DaysAddUp` of `Trials` |
| `RequestsHold` | `ActsForItsUser`, `ChangesAreRecorded` of `RequestPipeline` |
| `AuditHolds` | `VerificationIsTrue`, `FileFollowsTable` of `AuditLog` |
| `ReleasesHold` | `StartedHasTables` of `Migrations`; `AllOrNothing` of `Upgrade` |
| `CachesHold` | `ChangesAreSeen` of `FeatureFlags`; `AnswersAreFresh` of `AccessControl`; `ListingsAreRecent` of `DnsRecords` |
| `HandlersHold` | `AnswersAreTrue`, `RefusedChangesNothing`, `ViewersChangeNothing`, `ChangesStand`, `OncePerName` of `RowHandlers` |
| `RecordsHold` | `SuccessIsMade`, `ChangesItsName` of `DnsRecords` |

The others (`CommandsReturn`, `OnceAndInOrder`, `ViewHolds`,
`RetentionKeeps`, `RevokedStaysOut`, `ConvertedStays`) are one component's each.

### Bounds and mutants

The bounds.  Every hazard of the deployment engine that we know of is between two
requests on one name and one host, or between a request and a crash; the second
host is there because the record names one and a rollback ignores it, the third
image because what was built locally is not in the registry.  `Calls` leaves out
the synchronous deploy in `deployment_safety`, which takes the same steps as an
asynchronous one less its task.  `MaxCrashes` is 1: after a crash the state is
that of a fresh process over some hosts and rows, which the first request has
already varied.  Two deployments and one client are the smallest instance in
which events of two publishers meet in one channel and in which a recovery can
meet a second closed channel; a channel of 2 is overrun by a single deployment,
and events are still dropped one at a time.  `Slow`, the clients whose requests live
to their timeout, is bounded for the size of `stream_liveness` only.  Requests are interchangeable, which
the safety run uses as symmetry; runs with liveness properties use none.
Deadlock is not checked, since every run ends when all requests have been made.

In the other modules a bound is a constant or a definition whose name begins with
`Max` (or `Slots`, `PageLimit`, `Updates`), named where a guard uses it.  Two
overlapping actors, one more attempt, row or retry than the limit at hand, and a
clock that passes each period once are what the hazards need; counters in the code
that are larger (20 requests a minute, 5 attempts, 100 rows) are instances of the
same constant.  `RowHandlers` has two requests and one row that was there before: an
answer that does not tell needs one failing statement or one other request, and an edit
that is lost needs two.  `DnsRecords` runs twice: `zone` has changes of two
names at each provider and no clock, `listings` has listings, creations and deletions of
one record, a clock, and the two providers that list one page and all pages.
`FeatureFlags` has two requests at one server or one at each of two; `AccessControl` a
second token only where cache and blacklist are in memory, since with Redis, where one
token may still be revoked and its user change his role, two make three times as many states;
a licence key of `Trials` has no end, or ends at the first or at the last moment of the
clock.  The proofs have none of these restrictions.

Each passing property has a *mutant*, a changed definition that a slip in the
code would amount to and that TLC must find out: a row written before the error
is looked at, the server left out of the row, a cached image taken for a pulled
one, a pull whose error is only logged, a send that waits for room, a recovery
that tells nobody, and so on.  They stand beside the definition they change and
are marked as mutants.  `PROJECT.json` lists one for each property of a run; of a
property with several conjuncts the others have mutants in the modules too.

## Fairness

`Deployment` assumes weak fairness of the steps of each asynchronous deploy: its
goroutine runs as long as the process lives, and each command it waits for ends,
because its context has a deadline of 30 minutes and `RunCommand` returns when the
context is done.  The other requests may stop anywhere (their context is that of the
HTTP request or of the MCP call).  Crashes, panics, exits of containers and the
arrival of requests are not fair.

`DeployStream` assumes weak fairness of each deployment, of each unsubscribing
goroutine, and of the handlers of clients that keep reading.  The handler of a client
in `Stalled` may block in a write, for 30 seconds at most.  `Spec` does not assume
that the timeouts come, because a deployment may be faster: the liveness properties
hold without them.  `TimedSpec` adds that every connection reaches its timeout; it
is there for `stream_done`, so that the counterexample is one of the real server.
Connecting, leaving and the shutdown are not fair.

`MCConnections` assumes that the goroutine of a command runs as far as locks and its
socket let it, and that a peer which reads again and again takes what is written to it
(`TunnelRuns`, strong fairness of the ends of writes).  Nothing is assumed of a peer that does
not read, nor of the kernel: the code sets no deadline on a write, and a peer that keeps
acknowledging is never given up.  `CommandsReturn` therefore says what holds without it: every
command returns, or some write is stuck for ever.  The second is a defect one agent
can cause for all others, since the write keeps the manager's read lock (hazard H12).
`platform` has no fairness; its properties are safety properties.

## What is proved

The proofs are for any values of the constants: requests, hosts, names and images;
deployments, clients and capacities; servers, tokens, rows, pages and periods.  They
assume what the modules declare with ASSUME, and TLC evaluates it in every run:
`DeploymentAssumption` and `StreamAssumption` (the local host is not a remote one, the
published images are images, the fallback is one, and the like),
`ConnectionsAssumption`, and `PlatformAssumption`.  The last two only collect those of
the components: bounds and periods are natural numbers, a page and the default
concurrency are not 0, `None` is no token, ticket, socket or account, each connection
and each request has its server, an account is locked for at least the window of its attempts, and a bucket is
stale only after two minutes, as the code's values have it.
Two say more.  `MigrationAssumption` lists what the
versioned migrations need and make.  It follows from `MigrationSteps`, which TLC
computes; the prover cannot, because it has no rule for `SelectSeq`.  `ProgramAssumption`
says of each of the programs of `RowHandlers`, which are constants, in which order its
statements come; TLC computes it from the programs, some 360 sequences.  A program that were changed to refuse
after a change, or not to ask whether its row is there, would make it false.

No clock, counter or number of steps is bounded in a proof other than by the constant of
that name, which may be any number.

`Deployment_proofs`:

- `TypeCorrect`, `Invariance`: `TypeOK` and the inductive invariant `Inv` hold always.
- `SuccessCorrect`: a row or task that says success belongs to a request whose
  `docker run` put that image up on that host under that name.
- `OnlyPulledCorrect`: every container was created from an image that the registry
  has and that was pulled to its host; none, therefore, from an image that was only built.
- `RemovalCorrect`: a deploy or rollback takes a container away only after its
  image has reached the host (an action property, from the same invariant).
- `Refinement`: the task table implements `DeployTask`.
- `HistoryInvariance`, `HistoryCorrect`: the latest success in the history of an
  application tells what runs, as long as requests for it come one at a time.

None of the safety properties is inductive.  That a row says success depends
on the verdict its request carries, so `Inv` says which labels a request of each kind
can stand at (`Control`), that a verdict "success" comes with `ran` and that
`ran` is set only at labels after which name, image and host do not change
(`Truthful`).  That only pulled images run depends on what has been pulled between
`Pull` and `RunSucceeds` (`Fetched`).  The refinement needs to know what a task
says while its request stands at a label (`TaskFits`); the one step of the code
back from an outcome, a success withdrawn because the final event panicked, is an
action of `DeployTask` (`Retract`).  The proof of `Inv` goes action by action, with
lemmas that say which fields of `req` a kind of step leaves alone.  The history has an
invariant of its own, `HistoryInv`, about the names that are still clean, on which
nothing overlapped or failed half way: at most one request for such a
name is under way, and it is no restore; what is up is what the latest success says, or
belongs to the request that is about to save its row; and from its `docker run` to its end
a request finds in its place what it has put there.

`DeployStream_proofs`:

- `StreamInvariance`, `StreamTypeCorrect`: the inductive invariant `Inv` and `TypeOK`
  hold always; in particular no channel holds more than its capacity.
- `StreamIsFaithfulCorrect`: a client gets events of its topic only, and those of a
  deployment in order and none twice.
- `RegisteredOpenCorrect`: the bus holds no closed channel.
- `OutcomeIsRecordedCorrect`: an outcome that a client is told is the one of the task.

`RegisteredOpen` is nearly inductive: `Connect` needs to know that a client that was not
connected is nowhere registered (`Behind`).  `StreamIsFaithful` is far from it: a send
happens without the lock, long after `Publish` copied the channels.  So `Inv` says which
events can be the last ones of a goroutine that stands at a stage (`Progress`), that
nobody was told an event of a higher rank than the last one its deployment published
(`Behind`), and that an event under way is news to each client it still goes to
(`Pending`), which lasts because a channel gets events of one deployment from that
deployment alone.  `OutcomeIsRecorded` rests on the task telling the outcome from the
moment it is announced (`Recorded`), and on a goroutine that has recovered from a panic
doing nothing but that announcement.  TLC checked `Inv` as an invariant of the instance
of `stream_safety` before it was proved.  The proof has three general lemmas, for the
steps of a deployment that touch no channel (`PublisherStep`), for publishing an event
(`PublishKeeps`) and for steps that move no event (`SubscriberStep`), and a lemma per
action.

`Connections_proofs`, each with the inductive invariant of the component
(`TunnelInvariance`, `BusInvariance`, `HubInvariance`, `ViewInvariance`):

- `TunnelHoldsCorrect`: an open connection is the one commands go through, an answer
  has room in its channel, no caller leaves one behind.  `TunnelInv` adds that a registered
  channel is empty and its caller between the two ends of it, and that a handler which
  has taken the channel of a call has taken it out of the table, so nobody else sends to it.
- `OnceAndInOrderCorrect`: a subscriber reads the events of a publisher in order and each
  once, while other goroutines of the same instance publish; on the deploy bus it reads those
  of its own instance once by each way.  `BusInv` compares all there is on the way to it: what
  it has read, what is merged, and what is in the local and in the remote channel, of which the
  local one has the instance's own events and, on the typed bus, the other's own are skipped.
- `LogViewersHoldCorrect`: `HubInv` adds that a ticket that admitted somebody is used up
  and that a handler which has not begun or has ended has no socket.
- `ViewHoldsCorrect`: as long as the user called next to nothing else, the view knows
  the socket and the timer that are there.  `TypesCorrect` is the types of all four.

`Operations_proofs`:

- `BatchHoldsCorrect`: never more deployments at once than allowed, and the answer has
  each application's outcome in its place.  `BatchInv` says that the loop has begun or
  skipped what it has passed and nothing else, and counts slots against running items.
- `TrialsHoldCorrect`, `ConvertedStaysCorrect`: read-only only when due; never more days than
  were granted, and no fewer unless extensions overlapped; a conversion stays, unless an
  extension had read the row before it.  `TrialInv` says what an extension knows of the
  row it has read.
- `WebhooksHoldCorrect`: `WebhookInv` says what is known of a delivery at each of its
  steps: the row it has read, its intended edits, its record.
- `ChecksHoldCorrect`: `CheckInv` says that a checker's copy is the row while nobody saved
  over another, `BeatInv` that what a sweep has yet to mark is overdue, gone, or was pinged since.
- `AuditHoldsCorrect`: verification reports the rows that were changed or are of an earlier
  start, and no others.  `AuditInv` says that no row was hashed under the key of a later start.
- `RetentionKeepsCorrect`: a retention whose listing nobody has disturbed removes a file only
  while more than `RetentionCount` are there or the file has outlived its days (an action
  property).  `BackupInv` ties the listing to the disk: what a pass has not removed is
  there, made when the listing says, so that there are at least as many files as it counts.

`Releases_proofs`:

- `AllOrNothingCorrect` (`UpgradeInv`): a backup precedes whatever changes a file, and how far
  the renames and the copies back have come.
- `StartedHasTablesCorrect` (`MigrationInv`): what is known of a process at each step, and
  that whoever rolls back is alone.  `ReleasesHoldCorrect` is both.
- `SigningKeysHoldCorrect`: one signing key is active at most, unless the statement that
  deactivates failed, and a running server trusts the key it signs with and the keys of the
  table, except those of rotations that have not told the engine yet and, after a start that
  could not read the table (`main.go:352` drops the error), those that were in it; for any
  number of overlapping rotations and restarts.  What decides
  between two rotations is the unique index on the version.  `LicenceInv` says
  therefore that the versions have no gaps, that two rotations never have one key, and that
  a rotation which has deactivated the keys and whose version is still free finds none
  active: another one that activated a key since then has taken that version.

`Access_proofs`:

- `SecondFactorHoldsCorrect`: who enabled it has a secret, a code admits once, for any number
  of requests and generations.  `CodesInv` must speak of every copy of the row that may still
  be saved.
- `RevokedStaysOutCorrect`: a revoked token stays out for as long as it would have lived (an
  action property).  `AccessInv` says that the entry of a revocation that was confirmed
  lasts as long as the token.
- `AnswersAreFreshCorrect`: whoever reaches a resource with a role below admin had access a
  cache's life ago.
  `AccessInv` says of each cached yes, and of each answer a request still carries, that
  access is there or when it was lost.
- `RequestsHoldCorrect`: on every route a protected handler acts for the user of a valid
  token who may do it, never for an API key alone, and what was handled is in the audit log
  with that user, if its method is not GET and the row could be written.
  `PipeInv` has the order of gates as the code mounts them: none that sets the user of a
  request comes after one that asks for him (`RoutesAreGood`, from the chains of
  every kind of route).  So what the context says stays what the token or the key said.
- `HandlersHoldCorrect`: of any number of requests to the handlers of one table, a success
  means that every change was made, a refusal that none was, what was answered stands in the
  row, a name is made once, and a tool for viewers changes nothing; except for the
  15, 23, 10 and 2 handlers that the sets of exceptions list by name.  `HandlerInv` says of each request that the changes its program has passed
  were made, unless the code drops the error of one or updates without asking, and then a handler
  of the table deletes; that what it did is in the row; and that the row is there as long as no
  handler deletes.  That a refusal comes before the first change is a fact of the program, that
  two rows of one name are impossible one of the unique index.

`Sessions_proofs`:

- `LimitsHoldCorrect`: no account is tried more often within a window than the limit and
  the logins under way allow, no minute has more than twice the requests and no window more
  than twice the attempts of its limit, wherever it begins.  `LoginInv` says that
  the attempts are in order, so that those which fall out of the window are a prefix, and that an
  account with as many as the limit is locked for as long as they count.  `BucketInv`
  says for each running minute that what was allowed in it and what is left in the bucket are
  together at most one rate, or two when the bucket was refilled within it, and that a stale
  bucket is dropped only when nothing was allowed within the minute.  `AttemptInv` says the same
  of the counter and its expiry.
- `SessionsHoldCorrect`: a logout of all devices whose commands succeed leaves no older refresh
  token valid but those of requests that overlapped it, and the next one finds every valid token,
  with the same exception in Redis (in memory there is none); a refresh token is exchanged once
  unless two requests held it at once or its deletion was refused; a tab shows the user whose
  token it sends unless an older answer or another tab's login crossed it, and pages with a role
  to its holder alone.  The exceptions are what the code does (hazards H18, H19, H37); a refused
  logout, which answers as one that succeeded does, and access tokens, which live on, are not
  spoken of.  `SessionInv` says that a valid token is in the index of its user or about
  to be put there, and in the list of every logout that has one, unless whoever stores it
  overlapped that logout and knows it; `WebInv`, that a tab has the role of an administrator
  only while its user is one and no answer is due that could change him.

`Caches_proofs`:

- `ChangesAreSeenCorrect`: `FlagInv` says that a listing which is not late has the latest
  revision, and a server's cache at least what the server has answered for.  Excepted are
  evaluations with a read that failed, which answer as if there were no override or no flag,
  and caches with older rows, filled by a listing that had read them before the change or left
  by a change of another server, until they expire.
- `ListingsAreRecentCorrect`, `RecordsHoldCorrect`: `DnsInv` says that versions and
  identifiers are made once, that what a call holds was in the zone after the call began and
  what the cache holds no longer ago than its life, that a found record has the name asked for
  or is gone, and what a call has counted.  That there is a first record of a name is
  `FirstIsOne`, from the library's `WFMin` for the order of the natural numbers.
- `CachesHoldCorrect`: all caches together.

Model-checked only:

- all liveness properties (`TaskEnds`, `DeployEnds`, `StreamEnds`, `EndedIsForgotten`,
  `CommandsReturn`): the prover has no rules for fairness;
- `SharesRestore`: `KeyShares` computes in a field by `Bitwise`, which no module with a
  theorem may reach;
- the types of `MCPlatform`, which have the bounds of the instance in them.  Each inductive
  invariant above contains types of its component's variables that do not depend on bounds,
  as far as its proof needs them.

## Where code and text disagree

1. `RollbackWithType` (`deploy_service.go:371-372`) promises not to lose the
   running container when the pull fails.  It pulls first, but the Deploy it calls
   after stop and rm pulls again (`deployer.go:77-81`), and when this second pull
   fails the container is gone.  Run `deployment_pull`.
2. `Restore` (`backup_service.go:98`) redeploys the app "using its current
   version", which only a successful rollback ever writes.  An app that was
   deployed and never rolled back is replaced by `nginx:alpine`.  Run
   `deployment_restore`.
3. `DeploySSE` (`sse.go:44`) closes "when deploy finishes".  The address of the
   stream is given out after the deployment was started, and the bus keeps no
   events: a client that connects after "done" gets heartbeats and never an outcome,
   until its connection ends.  Run `stream_done`.
4. The HTTP server's timeouts of 30 seconds (`server/server.go:220-221`) apply to
   the streams, which `sse.go` keeps alive with heartbeats and for which `DEPLOY.md`
   configures the proxy to wait a day.  A deployment that takes longer, as a pull
   easily does, loses its streams before "done".  Run `stream_cut`.

5. A licence that was signed with a rotated key is not there after a restart:
   `cmd/api-server/main.go` loads the licence before the rotated keys are trusted again.
   Run `license_restart`.
6. Handlers that take the database from the request's context do not find it: the
   middleware that puts it there is installed on the engine after the group of the API
   was made.  Run `request_context`.

Met on the way, and in no run:

- BuildAndDeploy is said to build an image and deploy it (`deploy_service.go:236-237`, 267,
  `api/apps.go:578-579`).  The builder tags what it built on its host only (`builder.go:124`), and the
  deployer pulls every image from a registry (`deployer.go:77-81`): the pull of an image that
  nobody published fails, so that it never runs.  `OnlyPulledImagesRun` holds for that reason.
- The comment at `redis_eventbus.go:52` subscribes to Redis "for events from other instances"; the
  deploy bus receives those of its own instance too, each a second time (`OnceAndInOrder` allows it).
- Deployment: a rollback moves the container to the local host; Deploy and DeployAsync
  publish on different topics when the container is not named after the app's id
  (`StreamIsFaithful` holds topic by topic); the latest success, an automatic rollback's
  target, is usually what runs; `DeleteApp` removes the container on the local host only.
- Tunnel: a write without a deadline under the manager's read lock (`CommandsReturn` excepts it).
- Stated in the modules and violated by the code: `Upgrade!ExecutablesPass` (a release
  whose command line does not answer `--version` is always rolled back),
  `AccessControl!CreatorReaches` (an app's tenant is its creator's id),
  `AuditLog!ExportIsComplete` (verification and export see one page of at most 100 rows
  and call it all), `WebSession!LoginStands` (a 401 to an older token removes the newer one),
  `WebSession!RolePagesOpen` (a login answers a user without the name of its role, so the
  pages of roles stay closed), `LogView!NoneAfterDisconnect` (a view closed while its
  ticket is fetched opens a socket nobody closes), `KeyShares!SecretRestored` (only the
  first byte of the secret is shared).
- Accounts: logout-all answers "logged out from all devices" when the tokens could not be revoked
  (`refresh.go:173-179`), and access tokens outlive it; changes of
  a role reach no token that was issued; the blacklist in memory is lost with the process;
  address lists and device checks of a user run before authentication and so never act;
  role-based rate limits never apply; OAuth clients and signing-key handlers look for
  `user_id` where the middleware sets `userID`.
- Licences: Deactivate and RevokeLicense do not tell the engine; an add-on is saved and the
  reload ignores it; a second community activation without a signing key expires the
  active row and then fails on the unique empty key; re-activating a stored key expires
  every row while the engine holds it; an expired key is in the engine before the activation
  refuses it, and stays there until the next start (`license_activate.go:31-38`); an extended
  trial is never shown as over, although `CheckTrialOrLicense`, which nothing calls, refuses it
  (`trial_service.go:249-253`); of overlapping extensions one loses its days; a start that cannot read
  the rotated keys drops the error (`main.go:352`) and runs without them.
- Audit: the key of the hashes is random per start, as nothing sets it; rows that were
  anonymised fail verification; the archive that "default queries" should leave out is listed.
- Migrations: `--migrate-down` is documented to undo the last migration and undoes all;
  `--migrate-status` creates the table that decides which system runs next; a fresh
  install by the API server lacks tables of the versioned migrations.
- Requests: the groups of protected routes are for "JWT or API Key" (`router.go:128`), and the
  key's middleware sets a user so that "downstream middleware" works "seamlessly"
  (`auth/apikey.go:19-22`), but `AuthMiddleware` runs behind it and answers 401 without a token:
  an API key alone is never let in, and `ActsForItsUser` holds for that reason.  What a GET changes
  (the ping of a heartbeat, a login by OAuth, a terminal) is not in the audit log.
- Rows (the sets of exceptions of `RowHandlers`): updates that answer success for an id
  without a row (15 handlers, among them `providers.go:130` and `templates.go:111`); handlers that save a body or a row read earlier; rotations that leave no
  signing key active; demo data in three inserts without a transaction; DNS changes do not
  empty the cached listing, an error is cached as an empty listing, and three providers
  list their first page only.
- Hosts: revoking an SSH key deletes by its comment, which all generated keys share, or does
  nothing without one and answers success; opening the common ports answers success when
  none could be opened; a restored snapshot restores nothing; a backup's restore looks for
  an archive of its own second; a port forward lives only as long as its request.
- MCP: a tool without an entry in the permissions (`check_system_update`) is refused to
  every role; the metric and alert queries call a monitor that is never constructed.

## Not modelled

- What the server as put together never reaches: the event router, `AlertEngine`,
  `internal/monitor`, adding and toggling scheduled tasks, the healer, creation of
  confirmations, `AuditChain.AppendHash`, the read-only, feature and licence middlewares,
  `DeployWithHealthCheck`, `config.Manager`, the life cycle manager of plugins, the OAuth
  service (no client can be created), the circuit breaker, `useSSE.connect`.
- Clients of third-party interfaces other than DNS (panels, CI, registries, notifiers, S3,
  certificate authorities): one request per operation, no state of their own.  What remote
  commands print and how it is parsed.
- Pure start-up code and conversions: configuration, encryption, i18n, metrics, detectors,
  builders' templates; the command line tools, which send one request per command.
- Generated files (the swagger documents), views and locales of the web client, scripts.
- Terminal sessions, MCP history and the monitoring socket, whose hub has the shape of
  `LogHub`'s; the goroutine that carries a port forward.
- What an answer contains: paging, wording, columns that no other request edits.

## What is left to prove

Every safety property that a run checks is a theorem, but the sharing of a key's secret and the types
of `MCPlatform`.  What could be added: the length of time for which `AnswersAreFresh` and
`ListingsAreRecent` bound what is stale, as a bound on each cached entry; that Lagrange's
interpolation over any field gives the shared byte, from the axioms of a field rather than from the
tables of GF(256); and the liveness properties, with a prover that has rules for fairness.
