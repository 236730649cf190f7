------------------------------- MODULE LogView -------------------------------
(***************************************************************************)
(* A view of the web client with a WebSocket of its own                    *)
(* (web/src/composables/useWebSocket.ts), as the logs and the terminal use *)
(* it (views/AppLogs.vue, components/common/TerminalEmulator.vue).  Each   *)
(* connection needs a ticket, which is fetched first; connect does not     *)
(* know of a fetch that is under way, nor does disconnect, and a timer is  *)
(* forgotten when the next one is set.  The page runs one callback at a    *)
(* time.                                                                   *)
(***************************************************************************)
EXTENDS Naturals, FiniteSets

CONSTANTS Sockets,     \* bound: sockets of the browser at a time
          MaxRetries,  \* maxRetries
          MaxFetches,  \* bounds on calls of connect that wait for a ticket,
          MaxTimers,   \* and on pending timers
          None

ViewAssumption == None \notin Sockets /\ MaxRetries \in Nat /\ MaxFetches \in Nat /\ MaxTimers \in Nat

VARIABLES view,     \* the variables of useWebSocket
          fetches,  \* calls of connect that wait for their ticket
          timers,   \* pending timers; view.retryTimer: the latest is one of them
          sock,     \* state of each socket
          wanted,   \* history: the user's latest call was connect
          tries,    \* history: connections tried since the user's call, or one that opened
          crossed   \* history: connect or disconnect was called next to a fetch or a timer

vars == <<view, fetches, timers, sock, wanted, tries, crossed>>

\* A view that does not connect by itself; the terminal calls connect at once.
Init ==
  /\ view = [ws |-> None, connected |-> FALSE, reconnecting |-> FALSE, retryCount |-> 0,
             retryTimer |-> FALSE, manuallyClosed |-> FALSE]
  /\ fetches = 0 /\ timers = 0
  /\ sock = [s \in Sockets |-> "unused"]
  /\ wanted = FALSE /\ tries = 0 /\ crossed = FALSE

\* A closed socket is one that can be used again.
Busy == view.ws # None /\ sock[view.ws] \in {"connecting", "open"}

Connecting(before) ==
  IF Busy THEN UNCHANGED <<fetches, tries>> ELSE fetches' = fetches + 1 /\ tries' = before + 1

\* A call of the user: the switch of the logs, the button of the terminal.  It
\* does not reset the count of retries.
Connect ==
  /\ fetches < MaxFetches
  /\ Connecting(0)
  /\ view' = IF Busy THEN view ELSE [view EXCEPT !.manuallyClosed = FALSE]
  /\ wanted' = TRUE
  /\ crossed' = (crossed \/ fetches > 0 \/ timers > 0)
  /\ UNCHANGED <<timers, sock>>

\* The latest timer, or one that was forgotten.
TimerFires ==
  /\ timers > 0 /\ fetches < MaxFetches
  /\ timers' = timers - 1
  /\ Connecting(tries)
  /\ \E latest \in IF timers = 1 THEN {view.retryTimer} ELSE {view.retryTimer, FALSE} :
       view' = [view EXCEPT !.retryTimer = @ /\ ~latest, !.manuallyClosed = @ /\ Busy]
  /\ UNCHANGED <<sock, wanted, crossed>>

\* A plausible bug: the count is not looked at before it is raised.
ScheduleAlways(v) == timers' = timers + 1 /\ view' = [v EXCEPT !.reconnecting = TRUE, !.retryTimer = TRUE]

ScheduleReconnect(v) ==
  IF v.retryCount >= MaxRetries
  THEN UNCHANGED timers /\ view' = [v EXCEPT !.reconnecting = FALSE]
  ELSE /\ timers' = timers + 1
       /\ view' = [v EXCEPT !.reconnecting = TRUE, !.retryCount = @ + 1, !.retryTimer = TRUE]

TicketFails ==
  /\ fetches > 0 /\ timers < MaxTimers
  /\ fetches' = fetches - 1
  /\ ScheduleReconnect(view)
  /\ UNCHANGED <<sock, wanted, tries, crossed>>

\* The socket that was there is forgotten, not closed.
TicketArrives ==
  /\ fetches > 0
  /\ \E s \in Sockets :
       /\ sock[s] = "unused"
       /\ sock' = [sock EXCEPT ![s] = "connecting"]
       /\ view' = [view EXCEPT !.ws = s]
  /\ fetches' = fetches - 1
  /\ UNCHANGED <<timers, wanted, tries, crossed>>

Opens(s) ==
  /\ sock[s] = "connecting"
  /\ sock' = [sock EXCEPT ![s] = "open"]
  /\ view' = [view EXCEPT !.connected = TRUE, !.reconnecting = FALSE, !.retryCount = 0]
  /\ tries' = 0
  /\ UNCHANGED <<fetches, timers, wanted, crossed>>

\* onclose.  A connection that failed to open is closed too.
Closes(s) ==
  /\ sock[s] # "unused" /\ timers < MaxTimers
  /\ sock' = [sock EXCEPT ![s] = "unused"]
  /\ LET v == [view EXCEPT !.connected = FALSE, !.ws = IF @ = s THEN None ELSE @]
     IN  IF view.manuallyClosed THEN view' = v /\ UNCHANGED timers ELSE ScheduleReconnect(v)
  /\ UNCHANGED <<fetches, wanted, tries, crossed>>

\* A plausible bug: the timer is left to fire.
LeaveTimer == timers' = timers

ClearTimer == timers' = IF view.retryTimer THEN timers - 1 ELSE timers

\* Of the switch, of the route, or of the view's end.  The handlers of ws are
\* taken off before it is closed.
Disconnect ==
  /\ view' = [ws |-> None, connected |-> FALSE, reconnecting |-> FALSE, retryCount |-> 0,
              retryTimer |-> FALSE, manuallyClosed |-> TRUE]
  /\ ClearTimer
  /\ sock' = [s \in Sockets |-> IF s = view.ws THEN "unused" ELSE sock[s]]
  /\ wanted' = FALSE /\ tries' = 0
  /\ crossed' = (crossed \/ fetches > 0)
  /\ UNCHANGED fetches

Next ==
  \/ Connect \/ TimerFires \/ TicketFails \/ TicketArrives \/ Disconnect
  \/ \E s \in Sockets : Opens(s) \/ Closes(s)

Spec == Init /\ [][Next]_vars
-----------------------------------------------------------------------------
TypeOK ==
  /\ view.ws \in Sockets \union {None} /\ view.retryCount \in 0..MaxRetries
  /\ fetches \in 0..MaxFetches /\ timers \in 0..MaxTimers
  /\ sock \in [Sockets -> {"unused", "connecting", "open"}]

Live == {s \in Sockets : sock[s] # "unused"}

\* Unless the user called next to a fetch or a timer, the view has at most one
\* socket, fetch or timer, and none after disconnect; while it is wanted it has
\* one, until all its retries are used up; and it shows itself connected exactly
\* while its socket is open.
ViewHolds ==
  ~crossed =>
    /\ Cardinality(Live) + fetches + timers <= IF wanted THEN 1 ELSE 0
    /\ wanted => Live # {} \/ fetches > 0 \/ timers > 0 \/ view.retryCount = MaxRetries
    /\ view.connected <=> view.ws # None /\ sock[view.ws] = "open"
    /\ tries <= MaxRetries + 1

\* After disconnect the view opens no socket.  Not so: a ticket that arrives
\* later is used.
NoneAfterDisconnect == ~wanted => Live = {}
=============================================================================
