-------------------------- MODULE RequestPipeline --------------------------
(***************************************************************************)
(* The way of one request through the middleware of the API server         *)
(* (internal/server/server.go, internal/api/router.go and routes_*.go,     *)
(* internal/middleware, internal/auth).  A chain of handlers is fixed when *)
(* its group is made: what the engine is told to use later is not in it.   *)
(* Next runs the rest of the chain, so the audit middleware records on the *)
(* way back, whatever refused the request, and not at all after a panic.   *)
(***************************************************************************)
EXTENDS Naturals, Sequences, SequencesExt

VARIABLES request,
          chain,     \* what the request has still to pass
          context,   \* keys of the gin context: a function from their names
          outcome,   \* "none", "refused", "panicked", "handled"
          audit      \* row of the audit log, NoRow, or Lost when it was not written

vars == <<request, chain, context, outcome, audit>>

NoRow == [user |-> "no row"]
Lost == [user |-> "lost"]

Levels == [owner |-> 4, admin |-> 3, dev |-> 2, viewer |-> 1]
Roles == DOMAIN Levels
-----------------------------------------------------------------------------
(* Chains, in the order of registration *)

\* New, before RegisterRoutes: tracing, headers, CORS, the locale and the device
\* check neither refuse an API request nor set a key that is read here.
EngineUses == <<"AddressGates", "RateLimiter", "AuditMiddleware", "UserIPWhitelist">>

ApiGroup == EngineUses

\* r.Use after the group api was made.
EngineWithDB == EngineUses \o <<"SetDB">>

\* A plausible bug: the key is looked at after the token.
TokenFirst == ApiGroup \o <<"AuthMiddleware", "APIKeyMiddleware">>

Protected == ApiGroup \o <<"APIKeyMiddleware", "AuthMiddleware">>

Route(base, guards, role, scope, reads, mutates) ==
  [chain |-> base \o guards, role |-> role, scope |-> scope, reads |-> reads, mutates |-> mutates,
   method |-> IF mutates THEN "POST" ELSE "GET"]

\* A handler that changes something although it is called by GET.
ByGet(route) == [route EXCEPT !.mutates = TRUE]

\* The kinds of routes; reads are the keys a handler cannot do without.
OpenRoutes ==
  { Route(ApiGroup, <<>>, "", "", {}, TRUE),              \* login, registration
    Route(ApiGroup, <<"CSRF">>, "", "", {}, TRUE),        \* logout, refresh
    Route(ApiGroup, <<>>, "", "", {}, FALSE),             \* version, health
    ByGet(Route(ApiGroup, <<>>, "", "", {}, FALSE)),      \* OAuthCallback
    Route(EngineWithDB, <<>>, "", "", {}, FALSE),         \* status page
    ByGet(Route(EngineWithDB, <<>>, "", "", {}, FALSE)) } \* PingHeartbeat, sockets

\* The streams of deployments and of alerts, and the socket of the monitors.
StreamRoutes ==
  { Route(base, <<"AuthMiddleware">>, "", "", {}, FALSE) : base \in {ApiGroup, EngineWithDB} }

MCPRoutes ==
  { Route(Protected, <<>>, "", "", {"role"}, TRUE),
    Route(Protected, <<>>, "", "", {"userID", "role", "username"}, FALSE) }   \* HandleSSE

ResourceRoutes ==
  { Route(Protected, <<"RequireResourceAccess">>, "", "", {"userID"}, m) : m \in BOOLEAN }

RoleRoutes ==
  { Route(Protected, <<"RoleRequired">>, r, "", {}, TRUE) : r \in {"owner", "admin"} }

ScopeRoutes ==
  { Route(Protected, <<"RequireScope">>, "", s, {}, TRUE) : s \in {"delete", "deploy"} } \union
  { Route(Protected, <<"RequireScope", "RoleRequired">>, r, "delete", {}, TRUE) : r \in {"owner", "admin"} }

PlainRoutes ==
  { Route(Protected, <<>>, "", "", {"userID"}, m) : m \in BOOLEAN } \union
  { Route(Protected, <<>>, "", "", {"db"}, TRUE),        \* webhooks, Grafana, users/me
    Route(Protected, <<>>, "", "", {"user_id"}, TRUE) }  \* OAuth clients

Routes == OpenRoutes \union StreamRoutes \union MCPRoutes \union ResourceRoutes
          \union RoleRoutes \union ScopeRoutes \union PlainRoutes

\* A token that is "good" is signed, has not expired, and is not known to be
\* revoked: a blacklist that does not answer knows of none.  A key sent as the
\* bearer is a "bad" token.
Tokens == {[kind |-> k, user |-> "", role |-> ""] : k \in {"none", "bad"}} \union
          [kind : {"good", "revoked"}, user : {"ann"}, role : Roles]

Keys == {[kind |-> k, scopes |-> {}] : k \in {"none", "unknown", "wrong address"}} \union
        [kind : {"valid"}, scopes : {{}, {"read"}, {"delete"}, {"admin"}}]

AllRequests == [route : Routes, token : Tokens, key : Keys, access : BOOLEAN]
-----------------------------------------------------------------------------
Init ==
  /\ request \in AllRequests
  /\ chain = request.route.chain
  /\ context = <<>> /\ outcome = "none" /\ audit = NoRow

At(m) == outcome = "none" /\ chain # <<>> /\ Head(chain) = m

\* c.Set of some keys.
Extend(keys) ==
  [k \in DOMAIN keys \union DOMAIN context |-> IF k \in DOMAIN keys THEN keys[k] ELSE context[k]]

Passes(ctx) ==
  /\ chain' = Tail(chain) /\ context' = ctx
  /\ UNCHANGED <<request, outcome, audit>>

Passed(m) == Contains(request.route.chain, m) /\ ~Contains(chain, m)

\* A plausible bug: the record is made on the way in.
RowsOnTheWayIn ==
  IF Passed("AuditMiddleware") /\ request.route.method # "GET" THEN {Lost, [user |-> ""]} ELSE {NoRow}

\* Record, with the keys that are set on the way back, unless the method is GET; a
\* failure is logged.
Rows ==
  IF Passed("AuditMiddleware") /\ request.route.method # "GET"
  THEN {Lost, [user |-> IF "userID" \in DOMAIN context THEN context["userID"] ELSE ""]}
  ELSE {NoRow}

Ends(how) ==
  /\ outcome' = how
  /\ audit' \in IF how = "panicked" THEN {NoRow} ELSE Rows
  /\ UNCHANGED <<request, chain, context>>

\* DomainBinding and IPWhitelist.
AddressGates == At("AddressGates") /\ (Passes(context) \/ Ends("refused"))

RateLimiter == At("RateLimiter") /\ (Passes(context) \/ Ends("refused"))

AuditMiddleware == At("AuditMiddleware") /\ Passes(context)

\* UserIPWhitelistMiddleware asks for the user, whom nothing has set yet.
UserIPWhitelist == At("UserIPWhitelist") /\ "userID" \notin DOMAIN context /\ Passes(context)

SetDB == At("SetDB") /\ Passes(Extend([db |-> TRUE]))

\* A key that is not valid is ignored.
APIKeyMiddleware ==
  /\ At("APIKeyMiddleware")
  /\ CASE request.key.kind = "wrong address" -> Ends("refused")
       [] request.key.kind = "valid" ->
            Passes(Extend([userID |-> "bob", role |-> "dev", scopes |-> request.key.scopes]))
       [] OTHER -> Passes(context)

AuthMiddleware ==
  /\ At("AuthMiddleware")
  /\ IF request.token.kind = "good"
     THEN Passes(Extend([userID |-> request.token.user, role |-> request.token.role]))
     ELSE Ends("refused")

\* The double-submitted cookie.
CSRF == At("CSRF") /\ (Passes(context) \/ Ends("refused"))

RequireResourceAccess ==
  At("RequireResourceAccess") /\ IF request.access THEN Passes(context) ELSE Ends("refused")

RoleRequired ==
  /\ At("RoleRequired")
  /\ IF Levels[context["role"]] >= Levels[request.route.role] THEN Passes(context) ELSE Ends("refused")

\* Without a key, or with one that names no scope, nothing is asked.
HasScope ==
  "scopes" \in DOMAIN context /\ context["scopes"] # {}
    => {"admin", request.route.scope} \intersect context["scopes"] # {}

RequireScope == At("RequireScope") /\ IF HasScope THEN Passes(context) ELSE Ends("refused")

\* MustGet and a failed assertion panic, and gin.Default recovers (HandleSSE then
\* leaves its mutex locked for ever); an empty user is answered 401.
Handler ==
  /\ outcome = "none" /\ chain = <<>>
  /\ LET missing == request.route.reads \ DOMAIN context
     IN  Ends(CASE missing = {} -> "handled"
                [] missing = {"user_id"} -> "refused"
                [] OTHER -> "panicked")

Next ==
  \/ AddressGates \/ RateLimiter \/ AuditMiddleware \/ UserIPWhitelist \/ SetDB \/ APIKeyMiddleware
  \/ AuthMiddleware \/ CSRF \/ RequireResourceAccess \/ RoleRequired \/ RequireScope \/ Handler

Spec == Init /\ [][Next]_vars
-----------------------------------------------------------------------------
TypeOK ==
  /\ request \in AllRequests
  /\ IsSuffix(chain, request.route.chain)
  /\ DOMAIN context \subseteq {"db", "userID", "role", "scopes"}
  /\ outcome \in {"none", "refused", "panicked", "handled"}
  /\ audit \in {NoRow, Lost} \union [user : {"", "ann", "bob"}]

IsProtected == Contains(request.route.chain, "AuthMiddleware")

\* What a protected handler does, it does for the user of a valid token, who may
\* do it; an API key next to the token takes rights away and gives none, and one
\* without a token is refused: AuthMiddleware answers 401 behind APIKeyMiddleware,
\* which is said to let "downstream middleware" work "seamlessly" (apikey.go:19-22)
\* on routes for "JWT or API Key" (router.go:128).
ActsForItsUser ==
  outcome = "handled" /\ IsProtected =>
    /\ request.token.kind = "good" /\ context["userID"] = request.token.user
    /\ request.route.role # "" => Levels[request.token.role] >= Levels[request.route.role]
    /\ request.route.scope # "" /\ request.key.kind = "valid" /\ request.key.scopes # {} =>
         {"admin", request.route.scope} \intersect request.key.scopes # {}

\* A request that was handled and may have changed something is in the audit log
\* with the user it was handled for, if the row could be written; but not if it
\* changed it by a GET, as a ping of a heartbeat, a login by OAuth and a terminal do.
ChangesAreRecorded ==
  outcome = "handled" /\ request.route.mutates =>
    IF request.route.method = "GET" THEN audit = NoRow
    ELSE audit \in {Lost, [user |-> IF IsProtected THEN request.token.user ELSE ""]}

\* A handler that reads db in the context of its request finds it there (the
\* comment of router.go above c.Set("db", db)).
HandlersFindDB ==
  chain = <<>> /\ "db" \in request.route.reads => "db" \in DOMAIN context
=============================================================================
