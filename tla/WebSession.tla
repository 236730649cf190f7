----------------------------- MODULE WebSession -----------------------------
(***************************************************************************)
(* Who is logged in at the web client: the store (web/src/stores/auth.ts), *)
(* the guards of its routes (web/src/router/guards.ts) and the interceptor *)
(* of its requests (web/src/api/index.ts).  The token is kept in the       *)
(* localStorage that the tabs of a browser share, the user in each tab.    *)
(* Any answer 401 removes the token that is stored then, whatever token    *)
(* the request was sent with.                                              *)
(*                                                                         *)
(* The server's answer to a login has a user without the name of its role; *)
(* as the server is put together its answer to /users/me is an error       *)
(* (RequestPipeline, HandlersFindDB).  The module allows the user as well. *)
(***************************************************************************)
EXTENDS Integers, FiniteSets

CONSTANTS Tabs, Accounts,
          Admin,      \* the account that has the role the pages with roles ask for
          MaxTokens,  \* bound on the logins
          MaxCalls,   \* bound on the requests that wait
          None

WebAssumption == None \notin Accounts

VARIABLES owner,    \* of each token that was issued
          valid,    \* tokens the server accepts
          stored,   \* the token in localStorage, 0 if there is none
          tab,      \* per tab: user and role of the store, page, the guard's target
          calls,    \* requests that wait for an answer
          crossed   \* history: tabs whose user may be another's than the token's

vars == <<owner, valid, stored, tab, calls, crossed>>

NewTab == [user |-> None, role |-> "", page |-> "login", target |-> "none"]

Init ==
  /\ owner = [n \in {} |-> None] /\ valid = {} /\ stored = 0
  /\ tab = [t \in Tabs |-> NewTab]
  /\ calls = {} /\ crossed = {}

RoleOf(account) == IF account = Admin THEN "admin" ELSE "dev"

Send(t, kind, account) ==
  /\ Cardinality(calls) < MaxCalls
  /\ calls' = calls \union {[tab |-> t, kind |-> kind, account |-> account, token |-> stored]}

\* A request that the same tab has not already waiting.
New(t, kind) == ~\E c \in calls : c.tab = t /\ c.kind = kind

\* Login and Register.
SendLogin(t) ==
  /\ tab[t].page = "login" /\ New(t, "login")
  /\ \E a \in Accounts : Send(t, "login", a)
  /\ UNCHANGED <<owner, valid, stored, tab, crossed>>

\* What a page asks for.
SendRequest(t) ==
  /\ tab[t].page \notin {"login"} /\ New(t, "request")
  /\ Send(t, "request", None)
  /\ UNCHANGED <<owner, valid, stored, tab, crossed>>

Goes(t, page) == tab' = [tab EXCEPT ![t].page = page, ![t].target = "none"]

\* A page with a role for the role that the store knows.
Decided(role) == IF role = "admin" THEN "roles" ELSE "forbidden"

\* The guard of a navigation, which replaces one that has not ended.
Navigate(t, page) ==
  /\ page # tab[t].page
  /\ CASE page = "login" -> Goes(t, IF stored # 0 THEN "plain" ELSE "login") /\ UNCHANGED calls
       [] page # "login" /\ stored = 0 -> Goes(t, "login") /\ UNCHANGED calls
       [] page = "plain" /\ stored # 0 -> Goes(t, "plain") /\ UNCHANGED calls
       [] page = "roles" /\ stored # 0 /\ tab[t].user # None ->
            Goes(t, Decided(tab[t].role)) /\ UNCHANGED calls
       [] page = "roles" /\ stored # 0 /\ tab[t].user = None ->
            /\ tab[t].target = "none" /\ New(t, "me")
            /\ Send(t, "me", None)
            /\ tab' = [tab EXCEPT ![t].target = "roles"]
  /\ UNCHANGED <<owner, valid, stored, crossed>>

\* The page is loaded anew; the store keeps the token alone.
Reload(t) ==
  /\ tab' = [tab EXCEPT ![t] = [NewTab EXCEPT !.page = IF stored = 0 THEN "login" ELSE "plain"]]
  /\ calls' = {c \in calls : c.tab # t}
  /\ crossed' = crossed \ {t}
  /\ UNCHANGED <<owner, valid, stored>>

\* A plausible bug: the user is set when there is none yet.
KeepUser(t, c) == IF tab[t].user = None THEN c.account ELSE tab[t].user

LoginUser(t, c) == c.account

\* login, verify2FACode or register, and router.push('/').
LoggedIn(t, c) ==
  /\ Cardinality(DOMAIN owner) < MaxTokens
  /\ LET new == Cardinality(DOMAIN owner) + 1
     IN  /\ owner' = [n \in DOMAIN owner \union {new} |-> IF n = new THEN c.account ELSE owner[n]]
         /\ valid' = valid \union {new}
         /\ stored' = new
  /\ tab' = [tab EXCEPT ![t] = [user |-> LoginUser(t, c), role |-> "", page |-> "plain", target |-> "none"]]
  /\ crossed' = (crossed \ {t}) \union {u \in Tabs \ {t} : tab[u].user \notin {None, c.account}}

\* The interceptor; fetchMe logs out too.
Unauthorized(t, c) ==
  /\ stored' = 0
  /\ tab' = [tab EXCEPT ![t] = [user |-> IF c.kind = "me" THEN None ELSE @.user,
                                role |-> IF c.kind = "me" THEN "" ELSE @.role,
                                page |-> "login", target |-> "none"]]
  /\ UNCHANGED <<owner, valid, crossed>>

\* The user of the token that was sent; an error leaves what is there.
Fetched(t, c, known) ==
  LET user == IF known THEN owner[c.token] ELSE tab[t].user
      role == IF known THEN RoleOf(user) ELSE tab[t].role
  IN  /\ tab' = [tab EXCEPT ![t] =
           [user |-> user, role |-> role, target |-> "none",
            page |-> IF @.target = "roles" THEN Decided(role) ELSE @.page]]
      /\ crossed' = IF known /\ stored # 0 /\ owner[stored] # user THEN crossed \union {t} ELSE crossed
      /\ UNCHANGED <<owner, valid, stored>>

Answer(c) ==
  /\ calls' = calls \ {c}
  /\ \/ c.kind = "login" /\ LoggedIn(c.tab, c)
     \/ c.kind = "login" /\ Unauthorized(c.tab, c)
     \/ c.kind # "login" /\ c.token \notin valid /\ Unauthorized(c.tab, c)
     \/ c.kind = "me" /\ c.token \in valid /\ \E known \in BOOLEAN : Fetched(c.tab, c, known)
     \/ c.kind = "request" /\ UNCHANGED <<owner, valid, stored, tab, crossed>>

\* logout, which does not tell the server, and router.push('/login').
Logout(t) ==
  /\ tab[t].page # "login"
  /\ stored' = 0
  /\ tab' = [tab EXCEPT ![t] = NewTab]
  /\ crossed' = crossed \ {t}
  /\ UNCHANGED <<owner, valid, calls>>

Expire ==
  /\ \E n \in valid : valid' = valid \ {n}
  /\ UNCHANGED <<owner, stored, tab, calls, crossed>>

Next ==
  \/ \E t \in Tabs :
       \/ SendLogin(t) \/ SendRequest(t) \/ Reload(t) \/ Logout(t)
       \/ \E page \in {"login", "plain", "roles"} : Navigate(t, page)
  \/ \E c \in calls : Answer(c)
  \/ Expire

Spec == Init /\ [][Next]_vars
-----------------------------------------------------------------------------
TypeOK ==
  /\ stored \in 0..MaxTokens /\ valid \subseteq DOMAIN owner /\ crossed \subseteq Tabs
  /\ tab \in [Tabs -> [user : Accounts \union {None}, role : {"", "admin", "dev"},
                       page : {"login", "plain", "roles", "forbidden"}, target : {"none", "roles"}]]

\* The user a tab shows is the one whose token it sends, unless another tab logged
\* in as somebody else, or the user that arrived was asked for with an older token.
\* Even then a page with a role is shown only while the tab's user is one whom the
\* server has named as its holder.
UserIsTokens ==
  \A t \in Tabs :
    /\ t \notin crossed /\ stored # 0 /\ tab[t].user # None => tab[t].user = owner[stored]
    /\ tab[t].page = "roles" => tab[t].user = Admin

\* A login stands until somebody logs out or the server refuses its token.  An
\* action property.  Not so: a late answer 401 of an older token ends it.
LoginStands ==
  stored # 0 /\ stored' = 0 /\ stored \in valid => \E t \in Tabs : tab'[t] = NewTab

\* An administrator who opens a page with a role gets there.  An action property.
\* Not so: after a login the role of the user is empty.
RolePagesOpen ==
  \A t \in Tabs : tab[t].page # "forbidden" /\ tab'[t].page = "forbidden" => tab'[t].user # Admin
=============================================================================
