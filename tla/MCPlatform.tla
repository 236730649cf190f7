----------------------------- MODULE MCPlatform -----------------------------
(***************************************************************************)
(* An instance for TLC of the components of Platform, and of KeyShares.  A *)
(* behaviour moves one of them, chosen at its start.  p1 and p2 are the    *)
(* two interchangeable actors of each, far a request at the other server.  *)
(***************************************************************************)
EXTENDS Platform, Naturals, TLC

CONSTANTS t1, t2, t3, s1, s2, far   \* tokens, two servers, a request at the second

VARIABLES part,
          secret, shares, restored

shareVars == <<secret, shares, restored>>

allVars == <<part, loginVars, sessionVars, twoFactorVars, webhookVars, licenceVars, shareVars,
             migrationVars, flagVars, uptimeVars, upgradeVars, backupVars, accessVars, batchVars,
             limitVars, trialVars, pipelineVars, auditVars, webVars, rowVars, dnsVars>>

Share == INSTANCE KeyShares WITH
  Secrets <- {<<0>>, <<83, 202>>, <<255, 7>>}, Coefficients <- {0, 1, 142}, Total <- 4, Threshold <- 3

\* Values of constants: where a request of a flag goes, what a resource is, and a
\* release whose command line answers --version and one like this repository's.
HomeOfRequest == [r \in FlagRequests |-> IF r = far THEN s2 ELSE s1]
KindOfResource == [x \in Resources |-> "app"]
Release == {"api-server", "mcp-server", "deploypilot"}
TwoReleases == {Release, Release \ {"deploypilot"}}

\* Two tokens and overlapping requests, or three tokens and one request at a time.
SessionParts == {"sessions", "turns"}

\* Monitors and heartbeats share no state either.
CheckParts == {"uptime", "heartbeats"}

\* Nor do the bucket of all requests and the window of attempts.
LimitParts == {"requests", "attempts"}

\* Two requests of one tab, or one of two tabs.
WebParts == {"tab", "tabs"}

\* Two requests of a flag at one server, or one at each of two.
FlagParts == {"flag", "caches"}

\* Changes of two names without the cache, or listings and one record of one name.
DnsParts == {"zone", "listings"}

Parts ==
  WebParts \union DnsParts \union SessionParts \union FlagParts \union CheckParts \union LimitParts \union
  {"login", "codes", "webhooks", "licences", "shares", "migrations", "upgrade", "backups",
   "access", "batch", "trials", "pipeline", "audit", "rows"}

\* Access tokens are interchangeable, t1 is issued first; t2 only without Redis.
SecondToken == issued[t1] # Access!Unissued /\ accessBackend = "memory"

\* A key of a licence ends before MaxTrialTime or with it: 1 or 3, or never.
KeyEnds == {Trial!NoLicence, Trial!Perpetual, 1, MaxTrialTime}

\* What has several initial states starts in any of them when it is the part
\* that moves, and in one when it is not.
Resting ==
  /\ part \notin SessionParts => backend = "memory"
  /\ part # "shares" => secret = <<0>>
  /\ part # "migrations" => tables = {} /\ versioned = FALSE /\ recorded = FALSE
  /\ part # "upgrade" => answering = Release /\ bin = [b \in Release |-> "old"]
  /\ part # "access" =>
       accessBackend = "memory" /\ user = [u \in AccessUsers |-> "dev"] /\ resource = [x \in Resources |-> "default"]
  /\ part # "batch" =>
       batch = [pc |-> "looping", strategy |-> "parallel", next |-> 1, limit |-> 1, live |-> TRUE,
                panics |-> 0, success |-> 0, failed |-> 0]
  /\ part # "rows" =>
       handling = [r \in Actors |-> Row!Called([name |-> <<"TemplateHandlers", "list">>, steps |-> <<>>])]
  /\ IF part = "listings" THEN provider \in {"tencentcloud", "westdns"}
     ELSE part \notin DnsParts => provider = "alidns"
  /\ part # "pipeline" => arrival = CHOOSE r \in Pipeline!AllRequests : TRUE

Init ==
  /\ part \in Parts
  /\ Resting
  /\ Login!Init /\ Codes!Init /\ Webhook!Init /\ Licence!Init /\ Flag!Init /\ Check!Init
  /\ Backup!Init /\ Limit!Init /\ Trial!Init /\ Audit!Init
  /\ Session!Init /\ Share!Init /\ Migration!Init /\ Updater!Init
  /\ Web!Init /\ Access!Init /\ Batch!Init /\ Pipeline!Init
  /\ Row!Init /\ Dns!Init
  \* Two handlers that only read are left out.
  /\ part = "rows" => \E r \in Actors : Row!Changes(handling[r].steps) # {}

Moves(p) ==
  /\ part = p /\ part' = p
  /\ IF p = "login" THEN TRUE ELSE UNCHANGED loginVars
  /\ IF p \in SessionParts THEN TRUE ELSE UNCHANGED sessionVars
  /\ IF p = "codes" THEN TRUE ELSE UNCHANGED twoFactorVars
  /\ IF p = "webhooks" THEN TRUE ELSE UNCHANGED webhookVars
  /\ IF p = "licences" THEN TRUE ELSE UNCHANGED licenceVars
  /\ IF p = "shares" THEN TRUE ELSE UNCHANGED shareVars
  /\ IF p = "migrations" THEN TRUE ELSE UNCHANGED migrationVars
  /\ IF p \in FlagParts THEN TRUE ELSE UNCHANGED flagVars
  /\ IF p \in CheckParts THEN TRUE ELSE UNCHANGED uptimeVars
  /\ IF p = "upgrade" THEN TRUE ELSE UNCHANGED upgradeVars
  /\ IF p = "backups" THEN TRUE ELSE UNCHANGED backupVars
  /\ IF p = "access" THEN TRUE ELSE UNCHANGED accessVars
  /\ IF p = "batch" THEN TRUE ELSE UNCHANGED batchVars
  /\ IF p \in LimitParts THEN TRUE ELSE UNCHANGED limitVars
  /\ IF p = "trials" THEN TRUE ELSE UNCHANGED trialVars
  /\ IF p = "pipeline" THEN TRUE ELSE UNCHANGED pipelineVars
  /\ IF p = "audit" THEN TRUE ELSE UNCHANGED auditVars
  /\ IF p \in WebParts THEN TRUE ELSE UNCHANGED webVars
  /\ IF p = "rows" THEN TRUE ELSE UNCHANGED rowVars
  /\ IF p \in DnsParts THEN TRUE ELSE UNCHANGED dnsVars

Next ==
  \/ Moves("login") /\ Login!Next
  \/ Moves("sessions") /\ Session!Next /\ \A r \in Actors : request'[r].new # t3
  \/ Moves("turns") /\ Session!Next /\ \E r \in Actors : request'[r].pc = "idle"
  \/ Moves("codes") /\ Codes!Next
  \/ Moves("webhooks") /\ Webhook!Next
  \/ Moves("licences") /\ Licence!Next
  \/ Moves("shares") /\ Share!Next
  \/ Moves("migrations") /\ Migration!Next
  \/ Moves("flag") /\ Flag!Next /\ flagRequest'[far] = Flag!Idle
  \/ Moves("caches") /\ Flag!Next /\ \E r \in Actors : flagRequest'[r] = Flag!Idle
  \/ Moves("uptime") /\ Check!Next /\ UNCHANGED Check!Beats
  \/ Moves("heartbeats") /\ Check!Next /\ UNCHANGED Check!Checks
  \/ Moves("upgrade") /\ Updater!Next
  \/ Moves("backups") /\ Backup!Next
  \/ Moves("access") /\ Access!Next /\ (issued'[t2] # Access!Unissued => SecondToken)
  \/ Moves("batch") /\ Batch!Next
  \/ Moves("requests") /\ Limit!Next /\ UNCHANGED <<attempts, admitted>>
  \/ Moves("attempts") /\ Limit!Next /\ UNCHANGED <<bucket, allowed>>
  \/ Moves("trials") /\ Trial!Next /\ licence'.loaded \in KeyEnds
  \/ Moves("pipeline") /\ Pipeline!Next
  \/ Moves("audit") /\ Audit!Next
  \/ Moves("tab") /\ Web!Next /\ \E t \in Actors : tab'[t] = Web!NewTab /\ \A c \in calls' : c.tab # t
  \/ Moves("tabs") /\ Web!Next /\ \A c, d \in calls' : c = d
  \/ Moves("rows") /\ Row!Next
  \/ Moves("zone") /\ Dns!Next /\ UNCHANGED dnsTime /\ \A r \in Actors : dnsCall'[r].op # "list"
  \/ /\ Moves("listings") /\ Dns!Next /\ versions' <= 1
     /\ \A r \in Actors : dnsCall'[r].op \notin {"update", "batch"} /\ dnsCall'[r].name # "b"

Spec == Init /\ [][Next]_allVars

\* The two actors are interchangeable.
Symmetry == Permutations(Actors)
-----------------------------------------------------------------------------
(* Each property of a component, when it is the one that moves: the others stay *)
(* as they began.                                                               *)
\* Any Threshold shares of a key's secret give back its first byte (KeyShares).
SharesRestore == Share!FirstByteRestored

TypeOK ==
  /\ part \in Parts
  /\ part = "rows" => Row!TypeOK
  /\ part \in DnsParts => Dns!TypeOK
  /\ part = "login" => Login!TypeOK
  /\ part \in SessionParts => Session!TypeOK
  /\ part = "codes" => Codes!TypeOK
  /\ part = "webhooks" => Webhook!TypeOK
  /\ part = "licences" => Licence!TypeOK
  /\ part = "migrations" => Migration!TypeOK
  /\ part \in FlagParts => Flag!TypeOK
  /\ part \in CheckParts => Check!TypeOK
  /\ part = "upgrade" => Updater!TypeOK
  /\ part = "backups" => Backup!TypeOK
  /\ part = "access" => Access!TypeOK
  /\ part = "batch" => Batch!TypeOK
  /\ part \in LimitParts => Limit!TypeOK
  /\ part = "trials" => Trial!TypeOK
  /\ part = "pipeline" => Pipeline!TypeOK
  /\ part = "audit" => Audit!TypeOK
  /\ part \in WebParts => Web!TypeOK
=============================================================================
