------------------------------ MODULE Sessions ------------------------------
(***************************************************************************)
(* Refresh tokens of one user: the store (internal/auth/refresh_token.go)  *)
(* in memory or in Redis, and the handlers that use it: Login and Register *)
(* (internal/api/auth.go), RefreshToken and LogoutAllDevices               *)
(* (internal/api/refresh.go), KickSession (internal/api/sessions.go).      *)
(* The store keeps each token and, per user, the set of its tokens, which  *)
(* is all that "log out everywhere" goes by.  In memory every operation of *)
(* the store is atomic; in Redis it is one command after the other, and a  *)
(* batch may be refused as a whole.                                        *)
(***************************************************************************)
EXTENDS Naturals

CONSTANTS Tokens, Requests, None,
          MaxLogouts   \* bound on the number of logouts everywhere

SessionAssumption == None \notin Tokens

VARIABLES backend,  \* "memory" or "redis"
          token,    \* per token identifier: what the store has of it
          request,  \* per request: its handler
          epoch     \* number of logouts everywhere that succeeded

vars == <<backend, token, request, epoch>>

\* No store has seen the token.  The last three fields are history: the epoch
\* in which the request that issued it began, whether that request overlapped
\* a logout everywhere, and how often the token was exchanged.
Unused == [live |-> FALSE, listed |-> FALSE, used |-> FALSE,
           seen |-> 0, over |-> FALSE, exchanged |-> 0, excused |-> FALSE]

Idle == [pc |-> "idle", old |-> None, new |-> None, list |-> {}, seen |-> 0, over |-> FALSE]

Init ==
  /\ backend \in {"memory", "redis"}
  /\ token = [t \in Tokens |-> Unused]
  /\ request = [r \in Requests |-> Idle]
  /\ epoch = 0

LoggingOut == \E r \in Requests : request[r].pc \in {"listed", "deleted"}

Begin(r, pc, old, new) ==
  request' = [request EXCEPT ![r] =
    [Idle EXCEPT !.pc = pc, !.old = old, !.new = new, !.seen = epoch, !.over = LoggingOut]]

Goto(r, pc) == request' = [request EXCEPT ![r] = [@ EXCEPT !.pc = pc]]
Done(r) == request' = [request EXCEPT ![r] = Idle]

\* The identifiers GenerateRefreshTokenID may return: never one in use.
Fresh == {t \in Tokens : ~token[t].used /\ \A r \in Requests : request[r].new # t}
-----------------------------------------------------------------------------
(* Store *)

Login(r) ==
  \E t \in Fresh :
    /\ request[r].pc = "idle"
    /\ Begin(r, "storing", None, t)
    /\ UNCHANGED <<backend, token, epoch>>

Issued(r) == [Unused EXCEPT !.live = TRUE, !.used = TRUE, !.seen = request[r].seen]

\* In memory both maps change at once; in Redis the token is SET first.
StoreToken(r) ==
  LET now == [Issued(r) EXCEPT !.over = request[r].over]
  IN  /\ request[r].pc = "storing"
      /\ \/ /\ backend = "memory"
            /\ token' = [token EXCEPT ![request[r].new] = [now EXCEPT !.listed = TRUE]]
            /\ Done(r)
         \/ /\ backend = "redis"
            /\ token' = [token EXCEPT ![request[r].new] = now]
            /\ Goto(r, "indexing")
      /\ UNCHANGED <<backend, epoch>>

\* A plausible bug: the token is not added to the user's set.
SetOnly(r) ==
  /\ request[r].pc = "indexing"
  /\ Done(r)
  /\ UNCHANGED <<backend, token, epoch>>

IndexToken(r) ==
  /\ request[r].pc = "indexing"
  /\ token' = [token EXCEPT ![request[r].new] =
                 [@ EXCEPT !.listed = TRUE, !.over = request[r].over]]
  /\ Done(r)
  /\ UNCHANGED <<backend, epoch>>

StoreFails(r) ==
  /\ request[r].pc = "storing" /\ backend = "redis"
  /\ token' = [token EXCEPT ![request[r].new] = [@ EXCEPT !.used = TRUE]]
  /\ Done(r)
  /\ UNCHANGED <<backend, epoch>>
-----------------------------------------------------------------------------
(* Refresh and kick: Retrieve, then Revoke. *)

Retrieve(r) ==
  \E t \in Tokens, pc \in {"refreshing", "kicking"} :
    /\ request[r].pc = "idle"
    /\ token[t].live
    /\ pc = "refreshing" => Fresh # {}
    /\ Begin(r, pc, t, None)
    /\ UNCHANGED <<backend, token, epoch>>

Holders(t) == {r \in Requests : request[r].pc = "refreshing" /\ request[r].old = t}

\* The token is exchanged: counted, and excused when several requests hold it
\* or it stays valid because the deletion was refused.
Exchanged(t, excuse) ==
  [token[t] EXCEPT !.exchanged = IF @ < 2 THEN @ + 1 ELSE @,
                   !.excused = @ \/ excuse \/ \E r, q \in Holders(t) : r # q]

Unstored(t, excuse) == [Exchanged(t, excuse) EXCEPT !.live = FALSE, !.listed = FALSE]

\* A plausible bug: a refresh leaves the old token to its expiry.
KeepOld(r) ==
  /\ request[r].pc = "refreshing"
  /\ \E t \in Fresh : request' = [request EXCEPT ![r] = [@ EXCEPT !.pc = "storing", !.new = t]]
  /\ token' = [token EXCEPT ![request[r].old] = Exchanged(request[r].old, FALSE)]
  /\ UNCHANGED <<backend, epoch>>

\* An error of Revoke is a warning; a token that is gone is none at all.
RefreshRevokes(r) ==
  /\ request[r].pc = "refreshing"
  /\ \E t \in Fresh : request' = [request EXCEPT ![r] = [@ EXCEPT !.pc = "storing", !.new = t]]
  /\ \/ token' = [token EXCEPT ![request[r].old] = Unstored(request[r].old, FALSE)]
     \/ backend = "redis" /\ token' = [token EXCEPT ![request[r].old] = Exchanged(request[r].old, TRUE)]
  /\ UNCHANGED <<backend, epoch>>

Kick(r) ==
  /\ request[r].pc = "kicking"
  /\ \/ token' = [token EXCEPT ![request[r].old] = [@ EXCEPT !.live = FALSE, !.listed = FALSE]]
     \/ backend = "redis" /\ UNCHANGED token
  /\ Done(r)
  /\ UNCHANGED <<backend, epoch>>

\* The seven days of a token end; in Redis only the set keeps its identifier,
\* in memory the cleanup deletes both.
Expire(t) ==
  /\ token[t].live
  /\ token' = [token EXCEPT ![t] = [@ EXCEPT !.live = FALSE, !.listed = @ /\ backend = "redis"]]
  /\ UNCHANGED <<backend, request, epoch>>
-----------------------------------------------------------------------------
(* RevokeAllForUser *)

Overlapping(r) == [q \in Requests |-> IF q = r THEN request[q] ELSE [request[q] EXCEPT !.over = TRUE]]

\* SMEMBERS; in memory everything happens under the lock.
ListAll(r) ==
  /\ request[r].pc = "idle" /\ epoch < MaxLogouts
  /\ \/ /\ backend = "memory"
        /\ token' = [t \in Tokens |-> IF token[t].listed
                                      THEN [token[t] EXCEPT !.live = FALSE, !.listed = FALSE] ELSE token[t]]
        /\ epoch' = epoch + 1
        /\ request' = Overlapping(r)
     \/ /\ backend = "redis"
        /\ request' = [Overlapping(r) EXCEPT ![r] =
             [Idle EXCEPT !.pc = "listed", !.list = {t \in Tokens : token[t].listed}]]
        /\ UNCHANGED <<token, epoch>>
  /\ UNCHANGED backend

DeleteTokens(r) ==
  /\ request[r].pc = "listed"
  /\ token' = [t \in Tokens |-> IF t \in request[r].list THEN [token[t] EXCEPT !.live = FALSE] ELSE token[t]]
  /\ Goto(r, "deleted")
  /\ UNCHANGED <<backend, epoch>>

DeleteSet(r) ==
  /\ request[r].pc = "deleted"
  /\ token' = [t \in Tokens |-> [token[t] EXCEPT !.listed = FALSE]]
  /\ epoch' = epoch + 1
  /\ Done(r)
  /\ UNCHANGED backend

\* The batch is refused; the answer still says that all devices are out.
LogoutFails(r) ==
  /\ request[r].pc = "listed"
  /\ Done(r)
  /\ UNCHANGED <<backend, token, epoch>>
-----------------------------------------------------------------------------
Next ==
  \/ \E r \in Requests :
       \/ Login(r) \/ StoreToken(r) \/ IndexToken(r) \/ StoreFails(r)
       \/ Retrieve(r) \/ RefreshRevokes(r) \/ Kick(r)
       \/ ListAll(r) \/ DeleteTokens(r) \/ DeleteSet(r) \/ LogoutFails(r)
  \/ \E t \in Tokens : Expire(t)

Spec == Init /\ [][Next]_vars
-----------------------------------------------------------------------------
TypeOK ==
  /\ backend \in {"memory", "redis"}
  /\ token \in [Tokens -> [live : BOOLEAN, listed : BOOLEAN, used : BOOLEAN, seen : 0..MaxLogouts + 1,
                           over : BOOLEAN, exchanged : 0..2, excused : BOOLEAN]]
  /\ request \in [Requests -> [pc : {"idle", "storing", "indexing", "refreshing", "kicking", "listed", "deleted"},
                               old : Tokens \union {None}, new : Tokens \union {None},
                               list : SUBSET Tokens, seen : 0..MaxLogouts + 1, over : BOOLEAN]]
  /\ epoch \in 0..MaxLogouts + 1

\* After a logout everywhere whose commands succeeded no refresh token of an
\* earlier time is valid, except one whose request overlapped a logout: a refresh
\* that had retrieved its token, or a login between its SET and its SADD, escapes.
\* Of a logout whose commands are refused nothing is said, although its answer is
\* the same, and nothing of access tokens, which no logout everywhere touches.
LogoutReachesAll ==
  \A t \in Tokens :
    token[t].live /\ ~token[t].over
      => token[t].seen = epoch \/ \E r \in Requests : request[r].new = t /\ request[r].over

\* The next logout everywhere finds every valid token: in memory it is always in its
\* user's set; in Redis as soon as its request has ended, unless that overlapped a
\* logout, which may have deleted the set with the token's entry after it was listed.
NextLogoutFinds ==
  \A t \in Tokens : token[t].live =>
    \/ token[t].listed
    \/ backend = "redis" /\ (token[t].over \/ \E r \in Requests : request[r].new = t)

\* A token is exchanged once, unless several requests held it at once or the
\* deletion of it was refused.
ExchangedOnce == \A t \in Tokens : token[t].exchanged <= 1 \/ token[t].excused
=============================================================================
