---------------------------- MODULE AccessControl ----------------------------
(***************************************************************************)
(* What lets a request in: access tokens (internal/auth/jwt.go), their     *)
(* revocation (blacklist.go, RevokeToken of internal/api/auth.go), the     *)
(* middleware (middleware.go, resource_middleware.go), and the access      *)
(* check of internal/service/authorization.go with its cache.  A token     *)
(* carries the role its user had at login.  Nothing removes an answer from *)
(* the cache before it expires, and the blacklist in memory ends with the  *)
(* process.  No code writes the column user_id of a resource, so what      *)
(* those below admin reach depends on its tenant alone.  The access check  *)
(* asks only whether a role is owner or admin: "admin" stands for both,    *)
(* "dev" for dev and viewer.                                               *)
(***************************************************************************)
EXTENDS Integers

CONSTANTS Users, Tokens, Resources, Requests, None,
          Kind,       \* of each resource: "app", "server" or "credential"
          TokenLife,  \* 24 hours
          CacheLife,  \* 5 minutes
          MaxTime     \* bound on the clock

AccessAssumption == TokenLife \in Nat /\ CacheLife \in Nat

VARIABLES backend,    \* of blacklist and cache: "memory" or "redis"
          now,
          user,       \* row of each user: its role, or "none" when deleted
          resource,   \* row of each resource: its tenant, "unmade" or "gone"
          token,      \* per token: user, role and expiry, or Unissued
          revoked,    \* blacklist: until when each token is refused, 0 if not listed
          answers,    \* cached answers of the access check
          request,
          maker,      \* history: who made each resource with the API
          lostAt,     \* history: when the access check became false
          loggedOut   \* history: tokens whose revocation was confirmed

vars == <<backend, now, user, resource, token, revoked, answers, request, maker, lostAt,
          loggedOut>>

rows == <<user, resource, maker, lostAt>>

Unissued == [user |-> None, role |-> "none", until |-> 0]
Idle == [pc |-> "idle", token |-> None, resource |-> None, answer |-> FALSE, blind |-> FALSE]

\* Seeded and imported rows belong to the default tenant, as every user does.
Init ==
  /\ backend \in {"memory", "redis"}
  /\ now = 1
  /\ user \in [Users -> {"dev", "admin"}]
  /\ resource \in [Resources -> {"default", "unmade"}]
  /\ maker = [x \in Resources |-> None]
  /\ token = [t \in Tokens |-> Unissued]
  /\ revoked = [t \in Tokens |-> 0]
  /\ answers = [p \in Users \X Resources |-> [answer |-> FALSE, until |-> 0]]
  /\ request = [r \in Requests |-> Idle]
  /\ lostAt = [p \in Users \X Resources |-> 0]
  /\ loggedOut = {}

\* CheckResourceAccess: the resource must be there and of the user's tenant.
Accessible(u, x) == user[u] # "none" /\ resource[x] = "default"
-----------------------------------------------------------------------------
(* Users, resources and tokens *)

GenerateToken(t, u, role) ==
  /\ token[t] = Unissued
  /\ token' = [token EXCEPT ![t] = [user |-> u, role |-> role, until |-> now + TokenLife]]
  /\ UNCHANGED <<backend, now, rows, revoked, answers, request, loggedOut>>

\* Login: the role of the moment.
IssueToken(t) == \E u \in Users : user[u] # "none" /\ GenerateToken(t, u, user[u])

\* A refresh repeats user and role of the login, whatever became of them; its
\* refresh token does not end with the access token (Sessions).
RefreshToken(t) ==
  \E old \in Tokens : token[old] # Unissued /\ GenerateToken(t, token[old].user, token[old].role)

UpdateUserRole(u) ==
  /\ user[u] # "none"
  /\ user' = [user EXCEPT ![u] = IF @ = "dev" THEN "admin" ELSE "dev"]
  /\ UNCHANGED <<backend, now, resource, maker, token, revoked, answers, request, lostAt, loggedOut>>

LosesAccess(us, xs) ==
  lostAt' = [p \in Users \X Resources |->
    IF (p[1] \in us \/ p[2] \in xs) /\ Accessible(p[1], p[2]) THEN now ELSE lostAt[p]]

DeleteUser(u) ==
  /\ user[u] # "none"
  /\ user' = [user EXCEPT ![u] = "none"]
  /\ LosesAccess({u}, {})
  /\ UNCHANGED <<backend, now, resource, maker, token, revoked, answers, request, loggedOut>>

\* The token is accepted until the second it expires.
Valid(t) == now < token[t].until

\* CreateApp takes the identifier of the user for that of his tenant, AddServer
\* names no tenant, CreateCredential the default one unless it is told another.
TenantOf(u, kind) ==
  CASE kind = "app" -> u
    [] kind = "server" -> None
    [] kind = "credential" -> "default"

CreateResource(x) ==
  /\ resource[x] = "unmade"
  /\ \E t \in Tokens :
       /\ Valid(t)
       /\ resource' = [resource EXCEPT ![x] = TenantOf(token[t].user, Kind[x])]
       /\ maker' = [maker EXCEPT ![x] = token[t].user]
  /\ UNCHANGED <<backend, now, user, token, revoked, answers, request, lostAt, loggedOut>>

DeleteResource(x) ==
  /\ resource[x] \notin {"unmade", "gone"}
  /\ resource' = [resource EXCEPT ![x] = "gone"]
  /\ LosesAccess({}, {x})
  /\ UNCHANGED <<backend, now, user, maker, token, revoked, answers, request, loggedOut>>

\* A plausible bug: the entry lives as long as the token of a pending second factor.
RevokeBriefly(t) ==
  /\ Valid(t)
  /\ revoked' = [revoked EXCEPT ![t] = now]
  /\ loggedOut' = loggedOut \union {t}
  /\ UNCHANGED <<backend, now, rows, token, answers, request>>

\* RevokeToken: an entry for the rest of the token's life; when Redis refuses
\* it, the handler answers an error and the token stays good.
RevokeToken(t) ==
  /\ Valid(t)
  /\ revoked' = [revoked EXCEPT ![t] = token[t].until]
  /\ loggedOut' = loggedOut \union {t}
  /\ UNCHANGED <<backend, now, rows, token, answers, request>>
-----------------------------------------------------------------------------
(* A request for a resource *)

Listed(t) == now <= revoked[t]

\* AuthMiddleware.  An error of the blacklist is a warning: the request is let in.
Authenticate(r) ==
  /\ request[r].pc = "idle"
  /\ \E t \in Tokens, x \in Resources, readable \in BOOLEAN :
       /\ Valid(t)
       /\ resource[x] # "unmade"
       /\ ~readable => backend = "redis"
       /\ ~(readable /\ Listed(t))
       /\ request' = [request EXCEPT ![r] =
            [pc |-> "authenticated", token |-> t, resource |-> x, answer |-> FALSE, blind |-> ~readable]]
  /\ UNCHANGED <<backend, now, rows, token, revoked, answers, loggedOut>>

Who(r) == token[request[r].token].user
What(r) == request[r].resource
Role(r) == token[request[r].token].role

Answer(r, pc, answer) ==
  request' = [request EXCEPT ![r] = [@ EXCEPT !.pc = pc, !.answer = answer]]

Privileged(r) ==
  /\ request[r].pc = "authenticated"
  /\ Role(r) \in {"owner", "admin"}
  /\ Answer(r, "answered", TRUE)
  /\ UNCHANGED <<backend, now, rows, token, revoked, answers, loggedOut>>

\* A plausible bug: the expiry of an entry is not looked at.
CachedEver(r) == answers[<<Who(r), What(r)>>].until > 0

Cached(r) == now <= answers[<<Who(r), What(r)>>].until

AnswerFromCache(r) ==
  /\ request[r].pc = "authenticated" /\ Role(r) \notin {"owner", "admin"}
  /\ Cached(r)
  /\ Answer(r, "answered", answers[<<Who(r), What(r)>>].answer)
  /\ UNCHANGED <<backend, now, rows, token, revoked, answers, loggedOut>>

\* A miss, or a cache that cannot be reached. An error of the database is a no.
AskDatabase(r) ==
  /\ request[r].pc = "authenticated" /\ Role(r) \notin {"owner", "admin"}
  /\ ~Cached(r) \/ backend = "redis"
  /\ \E answer \in {Accessible(Who(r), What(r)), FALSE} : Answer(r, "asked", answer)
  /\ UNCHANGED <<backend, now, rows, token, revoked, answers, loggedOut>>

\* Set may be refused by Redis.
StoreAnswer(r) ==
  /\ request[r].pc = "asked"
  /\ \/ answers' = [answers EXCEPT ![<<Who(r), What(r)>>] =
                      [answer |-> request[r].answer, until |-> now + CacheLife]]
     \/ backend = "redis" /\ UNCHANGED answers
  /\ Answer(r, "answered", request[r].answer)
  /\ UNCHANGED <<backend, now, rows, token, revoked, loggedOut>>

Finish(r) ==
  /\ request[r].pc = "answered"
  /\ request' = [request EXCEPT ![r] = Idle]
  /\ UNCHANGED <<backend, now, rows, token, revoked, answers, loggedOut>>
-----------------------------------------------------------------------------
(* Time and restarts *)

\* The server ends requests long before a unit of time has passed.
Tick ==
  /\ now < MaxTime
  /\ \A r \in Requests : request[r] = Idle
  /\ now' = now + 1
  /\ UNCHANGED <<backend, rows, token, revoked, answers, request, loggedOut>>

\* What is kept in memory ends with the process.
Restart ==
  /\ request' = [r \in Requests |-> Idle]
  /\ IF backend = "redis" THEN UNCHANGED <<revoked, answers, loggedOut>>
     ELSE /\ revoked' = [t \in Tokens |-> 0]
          /\ answers' = [p \in Users \X Resources |-> [answer |-> FALSE, until |-> 0]]
          /\ loggedOut' = {}
  /\ UNCHANGED <<backend, now, rows, token>>

Handle(r) ==
  \/ Authenticate(r) \/ Privileged(r) \/ AnswerFromCache(r) \/ AskDatabase(r)
  \/ StoreAnswer(r) \/ Finish(r)

Next ==
  \/ \E t \in Tokens : IssueToken(t) \/ RefreshToken(t) \/ RevokeToken(t)
  \/ \E u \in Users : UpdateUserRole(u) \/ DeleteUser(u)
  \/ \E x \in Resources : CreateResource(x) \/ DeleteResource(x)
  \/ \E r \in Requests : Handle(r)
  \/ Tick \/ Restart

Spec == Init /\ [][Next]_vars
-----------------------------------------------------------------------------
TypeOK ==
  /\ backend \in {"memory", "redis"} /\ now \in 1..MaxTime
  /\ user \in [Users -> {"dev", "admin", "none"}]
  /\ resource \in [Resources -> Users \union {None, "default", "unmade", "gone"}]
  /\ maker \in [Resources -> Users \union {None}]
  /\ revoked \in [Tokens -> 0..MaxTime + TokenLife]
  /\ \A r \in Requests : request[r].pc \in {"idle", "authenticated", "asked", "answered"}
  /\ loggedOut \subseteq Tokens

\* While the server can read the blacklist, no request begins with a token whose
\* revocation was confirmed, however old the revocation; in memory until the
\* process ends.  An action property.
RevokedStaysOut ==
  \A r \in Requests :
    request[r].pc = "idle" /\ request'[r].pc = "authenticated" /\ ~request'[r].blind
      => request'[r].token \notin loggedOut

\* Whoever's token names a role below admin and is told that a resource is open to
\* him had access to it at some moment of the last CacheLife, although rows go at
\* any time.  Of owner and admin nothing is asked: they are let through by their role.
AnswersAreFresh ==
  \A r \in Requests :
    request[r].pc = "answered" /\ request[r].answer /\ Role(r) = "dev"
      => \/ Accessible(Who(r), What(r))
         \/ lostAt[<<Who(r), What(r)>>] > 0 /\ now - lostAt[<<Who(r), What(r)>>] <= CacheLife

\* Who made a resource with the API reaches it while both are there, even after
\* his role or a cached answer changed.  CheckResourceAccess says viewer and dev
\* are "limited to resources they created", and that rows without an owner "stay
\* visible to the whole tenant rather than becoming unreachable"
\* (authorization.go:33-36).
CreatorReaches ==
  \A r \in Requests :
    /\ request[r].pc = "answered" /\ maker[What(r)] = Who(r)
    /\ user[Who(r)] # "none" /\ resource[What(r)] # "gone"
    => request[r].answer
=============================================================================
