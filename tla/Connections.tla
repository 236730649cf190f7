----------------------------- MODULE Connections -----------------------------
(***************************************************************************)
(* The connections that outlive a request: of the agents (Tunnel), of      *)
(* subscribers in several instances of the server (RedisBus), of the log   *)
(* viewers at the server (LogHub) and of the web client (LogView).  They   *)
(* share no state.                                                         *)
(***************************************************************************)
CONSTANTS Servers, Conns, Calls, ServerOf,                    \* Tunnel
          Instances, Publishers, At, Subscribers, Capacity, MaxEvents,   \* RedisBus
          Viewers, Tickets, AppOf, Relay,                     \* LogHub
          ViewSockets, MaxRetries, MaxFetches, MaxTimers,     \* LogView
          None

VARIABLES agents, commands, conn, call,
          skipOwn, published, publishing, remote, local, merged, merger, seen,
          ticket, hub, clients, viewer, stream, alive,
          view, fetches, timers, sock, wanted, tries, crossed

tunnelVars == <<agents, commands, conn, call>>
busVars == <<skipOwn, published, publishing, remote, local, merged, merger, seen>>
hubVars == <<ticket, hub, clients, viewer, stream, alive>>
viewVars == <<view, fetches, timers, sock, wanted, tries, crossed>>

Tunnel == INSTANCE Tunnel

\* The bus of the WebSocket events or, without skipOwn, that of the deployments.
Bus == INSTANCE RedisBus

Hub == INSTANCE LogHub WITH Conns <- Viewers

View == INSTANCE LogView WITH Sockets <- ViewSockets

ASSUME ConnectionsAssumption ==
  Tunnel!TunnelAssumption /\ Bus!BusAssumption /\ Hub!HubAssumption /\ View!ViewAssumption
-----------------------------------------------------------------------------
\* A connection that has registered and that nobody closed is the one commands to
\* its server go through; a handler that holds the channel of a call finds room in
\* it, and a caller that returned leaves no channel behind (Tunnel).
TunnelHolds == Tunnel!OpenMeansRouted /\ Tunnel!AnswerHasRoom /\ Tunnel!NoChannelLeft

\* Every command returns, unless an agent stops reading for ever and a write to it
\* has no end (Tunnel).
CommandsReturn == Tunnel!CommandsReturn

\* What a subscriber reads of one publisher has no duplicates and is in the order
\* of publication; on the deploy bus its own instance's events come twice, each way
\* in order (RedisBus).
OnceAndInOrder == Bus!OnceAndInOrder

\* A ticket admits one connection, however many present it, and the hub's table
\* lists exactly the connections whose handlers are between registration and end
\* (LogHub).
LogViewersHold == Hub!TicketAdmitsOne /\ Hub!TableIsTrue

\* A view of the web client has one socket, fetch or timer while it is wanted and
\* none when it is not, unless the user called next to one of them (LogView).
ViewHolds == View!ViewHolds

TypeOK == Tunnel!TypeOK /\ Bus!TypeOK /\ Hub!TypeOK /\ View!TypeOK
=============================================================================
