------------------------------- MODULE LogHub -------------------------------
(***************************************************************************)
(* Live container logs over WebSocket (internal/api/ws.go): one-time       *)
(* tickets admit a connection, the hub's Run loop keeps the table of       *)
(* connections, and every connection's stream broadcasts what it polls to  *)
(* all connections of its application.  Nothing serialises the writers of  *)
(* a connection: the library panics when it notices two, outside any       *)
(* handler that could recover, and the process dies.                       *)
(***************************************************************************)
EXTENDS FiniteSets

CONSTANTS Conns, Tickets, AppOf, None,
          Relay   \* the goroutine that relays what other instances broadcast

HubAssumption == None \notin Conns \union Tickets

VARIABLES ticket,   \* per ticket: none, live, expired or used up
          hub,      \* running, closing, stopped (Run returned), closed
          clients,  \* the hub's table
          viewer,   \* per connection: its handler, its socket, its ticket
          stream,   \* per broadcasting goroutine: whom it still writes to, and now
          alive     \* the process

Writers == Conns \union {Relay}

vars == <<ticket, hub, clients, viewer, stream, alive>>

Init ==
  /\ ticket = [t \in Tickets |-> "none"]
  /\ hub = "running"
  /\ clients = {}
  /\ viewer = [c \in Conns |-> [pc |-> "off", open |-> FALSE, with |-> None]]
  /\ stream = [w \in Writers |-> [left |-> {}, on |-> None]]
  /\ alive = TRUE

Move(c, pc) == viewer' = [viewer EXCEPT ![c] = [@ EXCEPT !.pc = pc]]
-----------------------------------------------------------------------------
(* Tickets *)

GenerateTicket(t) ==
  /\ ticket[t] = "none"
  /\ ticket' = [ticket EXCEPT ![t] = "live"]
  /\ UNCHANGED <<hub, clients, viewer, stream, alive>>

Expire(t) ==
  /\ ticket[t] = "live"
  /\ ticket' = [ticket EXCEPT ![t] = "expired"]
  /\ UNCHANGED <<hub, clients, viewer, stream, alive>>

\* A plausible bug: only the cleanup deletes a ticket.
KeepTicket(t) == UNCHANGED ticket

\* ValidateTicket deletes the ticket whether or not it still is valid.
UseUp(t) == ticket' = [ticket EXCEPT ![t] = "gone"]

\* authenticateWS, then the upgrade of the connection.
Connect(c) ==
  \E t \in Tickets :
    /\ viewer[c].pc = "off"
    /\ ticket[t] \in {"live", "expired"}
    /\ UseUp(t)
    /\ viewer' = [viewer EXCEPT ![c] =
         IF ticket[t] = "live" THEN [pc |-> "registering", open |-> TRUE, with |-> t]
         ELSE [pc |-> "gone", open |-> FALSE, with |-> None]]
    /\ UNCHANGED <<hub, clients, stream, alive>>
-----------------------------------------------------------------------------
(* The handler and the Run loop meet on unbuffered channels. *)

\* While done is closed the loop's select may still pick a client.
Selecting == hub \in {"running", "closing"}

Register(c) ==
  /\ viewer[c].pc = "registering" /\ Selecting
  /\ clients' = clients \union {c}
  /\ Move(c, "viewing")
  /\ UNCHANGED <<ticket, hub, stream, alive>>

\* The client leaves, the read deadline passes, or the hub closed the socket;
\* a handler whose app is not found leaves at once.
ReadFails(c) ==
  /\ viewer[c].pc = "viewing"
  /\ Move(c, "leaving")
  /\ UNCHANGED <<ticket, hub, clients, stream, alive>>

\* A plausible bug: the handler returns without telling the hub.
LeaveTable(c) ==
  /\ viewer[c].pc = "leaving"
  /\ viewer' = [viewer EXCEPT ![c] = [@ EXCEPT !.pc = "gone", !.open = FALSE]]
  /\ UNCHANGED <<ticket, hub, clients, stream, alive>>

Unregister(c) ==
  /\ viewer[c].pc = "leaving" /\ Selecting
  /\ clients' = clients \ {c}
  /\ viewer' = [viewer EXCEPT ![c] = [@ EXCEPT !.pc = "gone", !.open = FALSE]]
  /\ UNCHANGED <<ticket, hub, stream, alive>>
-----------------------------------------------------------------------------
(* Close *)

SignalDone ==
  /\ hub = "running"
  /\ hub' = "closing"
  /\ UNCHANGED <<ticket, clients, viewer, stream, alive>>

RunReturns ==
  /\ hub = "closing"
  /\ hub' = "stopped"
  /\ UNCHANGED <<ticket, clients, viewer, stream, alive>>

\* The sockets of the table are closed, with the table's lock held.
CloseClients ==
  /\ viewer' = [c \in Conns |-> [viewer[c] EXCEPT !.open = @ /\ c \notin clients]]
  /\ clients' = {}
  /\ UNCHANGED <<ticket, stream, alive>>

\* A plausible bug: Close does not wait for Run, which may yet pick a client.
SweepAtOnce == hub = "closing" /\ CloseClients /\ UNCHANGED hub

Sweep == hub = "stopped" /\ CloseClients /\ hub' = "closed"
-----------------------------------------------------------------------------
(* streamContainerLogs and Broadcast *)

Audience(app) == {d \in clients : AppOf[d] = app}

\* A poll: the connections of the app are copied under the lock.
Poll(c) ==
  /\ viewer[c].pc = "viewing"
  /\ stream[c] = [left |-> {}, on |-> None]
  /\ stream' = [stream EXCEPT ![c] = [@ EXCEPT !.left = Audience(AppOf[c])]]
  /\ UNCHANGED <<ticket, hub, clients, viewer, alive>>

\* runRedisSubscriber: a message of another instance, on any app.
RelayMessage ==
  /\ hub # "closed"
  /\ stream[Relay] = [left |-> {}, on |-> None]
  /\ \E c \in clients : stream' = [stream EXCEPT ![Relay] = [@ EXCEPT !.left = Audience(AppOf[c])]]
  /\ UNCHANGED <<ticket, hub, clients, viewer, alive>>

Busy(d) == \E w \in Writers : stream[w].on = d

\* A second writer is noticed, or not.
StartWrite(w) ==
  \E d \in stream[w].left :
    /\ stream[w].on = None
    /\ stream' = [stream EXCEPT ![w] = [left |-> @.left \ {d}, on |-> d]]
    /\ alive' \in IF Busy(d) THEN BOOLEAN ELSE {TRUE}
    /\ UNCHANGED <<ticket, hub, clients, viewer>>

\* The error of a write is only logged.
EndWrite(w) ==
  /\ stream[w].on # None
  /\ stream' = [stream EXCEPT ![w] = [@ EXCEPT !.on = None]]
  /\ UNCHANGED <<ticket, hub, clients, viewer, alive>>
-----------------------------------------------------------------------------
Next ==
  /\ alive
  /\ \/ \E t \in Tickets : GenerateTicket(t) \/ Expire(t)
     \/ \E c \in Conns :
          \/ Connect(c) \/ Register(c) \/ ReadFails(c) \/ Unregister(c)
          \/ Poll(c)
     \/ \E w \in Writers : StartWrite(w) \/ EndWrite(w)
     \/ RelayMessage
     \/ SignalDone \/ RunReturns \/ Sweep

Spec == Init /\ [][Next]_vars
-----------------------------------------------------------------------------
TypeOK ==
  /\ ticket \in [Tickets -> {"none", "live", "expired", "gone"}]
  /\ hub \in {"running", "closing", "stopped", "closed"}
  /\ clients \subseteq Conns
  /\ viewer \in [Conns -> [pc : {"off", "registering", "viewing", "leaving", "gone"},
                           open : BOOLEAN, with : Tickets \union {None}]]
  /\ stream \in [Writers -> [left : SUBSET Conns, on : Conns \union {None}]]
  /\ alive \in BOOLEAN

\* A ticket admits one connection, however many present it.
TicketAdmitsOne ==
  \A c, d \in Conns : viewer[c].with = viewer[d].with /\ viewer[c].with # None => c = d

\* The table lists exactly the connections whose handler is between its
\* registration and its end, until a shutdown empties it; and a shutdown that
\* has returned leaves none of the registered sockets open.
TableIsTrue ==
  /\ hub # "closed" => clients = {c \in Conns : viewer[c].pc \in {"viewing", "leaving"}}
  /\ hub = "closed" => clients = {} /\ \A c \in Conns : viewer[c].open => viewer[c].pc = "registering"
=============================================================================
