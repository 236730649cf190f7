------------------------------- MODULE Tunnel -------------------------------
(***************************************************************************)
(* The reverse tunnel to the agents (internal/agent/tunnel.go): agents dial *)
(* in, the server sends them commands and routes their answers back to the *)
(* callers.  Every connection has a handler (HandleTunnel), every command a *)
(* caller (ExecuteCommand); they share the tables agents and commands under *)
(* one read-write lock, and the write lock of each connection.             *)
(***************************************************************************)
EXTENDS FiniteSets

CONSTANTS Servers, Conns, Calls,
          ServerOf,   \* the server an agent's connection speaks for
          None

TunnelAssumption == ServerOf \in [Conns -> Servers] /\ None \notin Conns \union Calls

VARIABLES agents,     \* server -> routed connection, or None
          commands,   \* the calls that have a result channel registered
          conn,       \* per connection: its handler, its socket, its age
          call        \* per caller: its place, its connection, its channel

vars == <<agents, commands, conn, call>>

\* A socket: not dialled, working, not read by its peer, cut by the network,
\* closed by the server.
Sockets == {"none", "up", "stalled", "broken", "closed"}

Usable(c) == conn[c].sock \in {"up", "stalled"}

\* The read lock is held from RLock to the end of the write (tunnel.go:196-200).
Readers == {k \in Calls : call[k].pc \in {"locked", "writing"}}

\* mu.Lock() succeeds.
Exclusive == Readers = {}

\* The write lock of a connection is held by its handler that acknowledges it, or
\* by a caller that writes to it.
WriteFree(c) ==
  /\ conn[c].pc # "acking"
  /\ \A k \in Calls : ~(call[k].pc = "writing" /\ call[k].via = c)

Init ==
  /\ agents = [s \in Servers |-> None]
  /\ commands = {}
  /\ conn = [c \in Conns |-> [pc |-> "off", sock |-> "none", fresh |-> TRUE, msg |-> None]]
  /\ call = [k \in Calls |-> [pc |-> "idle", via |-> None, chan |-> FALSE, sent |-> FALSE]]

SetConn(c, r) == conn' = [conn EXCEPT ![c] = r]
SetCall(k, r) == call' = [call EXCEPT ![k] = r]
-----------------------------------------------------------------------------
(* The network and the agents. *)

\* The peer stops reading: what is written to it stays in the buffers.
Stall(c) ==
  /\ conn[c].sock = "up"
  /\ SetConn(c, [conn[c] EXCEPT !.sock = "stalled"])
  /\ UNCHANGED <<agents, commands, call>>

\* It reads again.
Resume(c) ==
  /\ conn[c].sock = "stalled"
  /\ SetConn(c, [conn[c] EXCEPT !.sock = "up"])
  /\ UNCHANGED <<agents, commands, call>>

\* The peer is gone, or unreachable for so long that the kernel gives up.
Cut(c) ==
  /\ Usable(c)
  /\ SetConn(c, [conn[c] EXCEPT !.sock = "broken"])
  /\ UNCHANGED <<agents, commands, call>>

\* Five minutes without a message; only the age of a routed connection is looked at.
Age(c) ==
  /\ conn[c].fresh /\ agents[ServerOf[c]] = c
  /\ SetConn(c, [conn[c] EXCEPT !.fresh = FALSE])
  /\ UNCHANGED <<agents, commands, call>>
-----------------------------------------------------------------------------
(* HandleTunnel *)

CloseSock(f, c) == [f EXCEPT ![c] = [@ EXCEPT !.sock = "closed"]]

\* An agent dials in: the connection is routed and the one it replaces is closed,
\* in one critical section.
Register(c) ==
  LET s   == ServerOf[c]
      old == agents[s]
      mid == IF old = None THEN conn ELSE CloseSock(conn, old)
  IN /\ conn[c].pc = "off"
     /\ Exclusive
     /\ conn' = [mid EXCEPT ![c] = [pc |-> "routed", sock |-> "up", fresh |-> TRUE, msg |-> None]]
     /\ agents' = [agents EXCEPT ![s] = c]
     /\ UNCHANGED <<commands, call>>

\* The acknowledgement, under the write lock; its error is ignored.
StartAcknowledge(c) ==
  /\ conn[c].pc = "routed"
  /\ WriteFree(c)
  /\ SetConn(c, [conn[c] EXCEPT !.pc = "acking"])
  /\ UNCHANGED <<agents, commands, call>>

EndAcknowledge(c) ==
  /\ conn[c].pc = "acking"
  /\ conn[c].sock # "stalled"
  /\ SetConn(c, [conn[c] EXCEPT !.pc = "reading"])
  /\ UNCHANGED <<agents, commands, call>>

\* The agent answers a command it was sent, on whatever connection it has by
\* then, and possibly again after it reconnected.
Answers(c) == {k \in Calls : call[k].sent /\ ServerOf[call[k].via] = ServerOf[c]}

\* ReadMessage: a heartbeat, or an answer.
ReadMessage(c) ==
  \E m \in Answers(c) \union {None} :
    /\ conn[c].pc = "reading"
    /\ Usable(c)
    /\ SetConn(c, [conn[c] EXCEPT !.pc = "seen", !.msg = m])
    /\ UNCHANGED <<agents, commands, call>>

\* A message refreshes the connection that is routed now, which need not be the
\* one the message came on.
Refreshed(c) ==
  LET now == agents[ServerOf[c]]
  IN IF now = None THEN conn ELSE [conn EXCEPT ![now] = [@ EXCEPT !.fresh = TRUE]]

UpdateLastSeen(c) ==
  /\ conn[c].pc = "seen"
  /\ Exclusive
  /\ conn' = [Refreshed(c) EXCEPT ![c] = [@ EXCEPT !.pc = IF conn[c].msg = None THEN "reading" ELSE "routing"]]
  /\ UNCHANGED <<agents, commands, call>>

\* A plausible bug: the channel stays registered until its caller removes it.
FindChannel(c) ==
  /\ conn[c].pc = "routing"
  /\ Exclusive
  /\ IF conn[c].msg \in commands
     THEN SetConn(c, [conn[c] EXCEPT !.pc = "sending"])
     ELSE SetConn(c, [conn[c] EXCEPT !.pc = "reading", !.msg = None])
  /\ UNCHANGED <<agents, commands, call>>

\* handleResult: the channel is looked up and removed under the lock ...
TakeChannel(c) ==
  LET k == conn[c].msg
  IN /\ conn[c].pc = "routing"
     /\ Exclusive
     /\ commands' = commands \ {k}
     /\ IF k \in commands
        THEN SetConn(c, [conn[c] EXCEPT !.pc = "sending"])
        ELSE SetConn(c, [conn[c] EXCEPT !.pc = "reading", !.msg = None])
     /\ UNCHANGED <<agents, call>>

\* ... and written to after it; a full channel drops the result.
SendResult(c) ==
  /\ conn[c].pc = "sending"
  /\ call' = [call EXCEPT ![conn[c].msg] = [@ EXCEPT !.chan = TRUE]]
  /\ SetConn(c, [conn[c] EXCEPT !.pc = "reading", !.msg = None])
  /\ UNCHANGED <<agents, commands>>

\* A plausible bug: the entry is deleted without looking whose it is.
DisconnectAny(c) ==
  /\ conn[c].pc = "reading"
  /\ conn[c].sock \in {"broken", "closed"}
  /\ Exclusive
  /\ agents' = [agents EXCEPT ![ServerOf[c]] = None]
  /\ SetConn(c, [conn[c] EXCEPT !.pc = "ended", !.sock = "closed"])
  /\ UNCHANGED <<commands, call>>

\* ReadMessage fails; the handler removes its own entry only.
Disconnect(c) ==
  LET s == ServerOf[c]
  IN /\ conn[c].pc = "reading"
     /\ conn[c].sock \in {"broken", "closed"}
     /\ Exclusive
     /\ agents' = IF agents[s] = c THEN [agents EXCEPT ![s] = None] ELSE agents
     /\ SetConn(c, [conn[c] EXCEPT !.pc = "ended", !.sock = "closed"])
     /\ UNCHANGED <<commands, call>>

\* The cleanup goroutine closes and forgets the routed connections that are stale.
Stale == {s \in Servers : agents[s] # None /\ ~conn[agents[s]].fresh}

CleanUp ==
  /\ Exclusive
  /\ Stale # {}
  /\ conn' = [c \in Conns |-> IF agents[ServerOf[c]] = c /\ ServerOf[c] \in Stale
                              THEN [conn[c] EXCEPT !.sock = "closed"] ELSE conn[c]]
  /\ agents' = [s \in Servers |-> IF s \in Stale THEN None ELSE agents[s]]
  /\ UNCHANGED <<commands, call>>
-----------------------------------------------------------------------------
(* ExecuteCommand *)

Find(k) ==
  /\ call[k].pc = "idle"
  /\ \E s \in Servers :
       IF agents[s] = None
       THEN SetCall(k, [call[k] EXCEPT !.pc = "done"])
       ELSE SetCall(k, [call[k] EXCEPT !.pc = "found", !.via = agents[s]])
  /\ UNCHANGED <<agents, commands, conn>>

AddChannel(k) ==
  /\ call[k].pc = "found"
  /\ Exclusive
  /\ commands' = commands \union {k}
  /\ SetCall(k, [call[k] EXCEPT !.pc = "ready"])
  /\ UNCHANGED <<agents, conn>>

\* The read lock, then the connection's write lock.
Lock(k) ==
  /\ call[k].pc = "ready"
  /\ SetCall(k, [call[k] EXCEPT !.pc = "locked"])
  /\ UNCHANGED <<agents, commands, conn>>

StartWrite(k) ==
  /\ call[k].pc = "locked"
  /\ WriteFree(call[k].via)
  /\ SetCall(k, [call[k] EXCEPT !.pc = "writing"])
  /\ UNCHANGED <<agents, commands, conn>>

\* A plausible bug: the caller of a failed write returns at once.
EndWriteOrReturn(k) ==
  /\ call[k].pc = "writing"
  /\ \/ /\ conn[call[k].via].sock = "up"
        /\ SetCall(k, [call[k] EXCEPT !.pc = "waiting", !.sent = TRUE])
     \/ /\ conn[call[k].via].sock \in {"broken", "closed"}
        /\ SetCall(k, [call[k] EXCEPT !.pc = "done"])
  /\ UNCHANGED <<agents, commands, conn>>

\* A write to a cut connection may succeed, into the kernel's buffer; a write to
\* a stalled one waits.
EndWrite(k) ==
  LET sock == conn[call[k].via].sock
  IN /\ call[k].pc = "writing"
     /\ \/ /\ sock = "up"
           /\ SetCall(k, [call[k] EXCEPT !.pc = "waiting", !.sent = TRUE])
        \/ /\ sock = "broken"
           /\ SetCall(k, [call[k] EXCEPT !.pc = "waiting"])
        \/ /\ sock \in {"broken", "closed"}
           /\ SetCall(k, [call[k] EXCEPT !.pc = "leaving"])
     /\ UNCHANGED <<agents, commands, conn>>

\* A plausible bug: no timer.
AwaitAnswer(k) ==
  /\ call[k].pc = "waiting"
  /\ call[k].chan
  /\ SetCall(k, [call[k] EXCEPT !.pc = "leaving", !.chan = FALSE])
  /\ UNCHANGED <<agents, commands, conn>>

\* The answer, the timeout or the end of the context, whichever comes first.
Await(k) ==
  /\ call[k].pc = "waiting"
  /\ SetCall(k, [call[k] EXCEPT !.pc = "leaving", !.chan = FALSE])
  /\ UNCHANGED <<agents, commands, conn>>

\* The deferred removal of the channel.
RemoveChannel(k) ==
  /\ call[k].pc = "leaving"
  /\ Exclusive
  /\ commands' = commands \ {k}
  /\ SetCall(k, [call[k] EXCEPT !.pc = "done"])
  /\ UNCHANGED <<agents, conn>>
-----------------------------------------------------------------------------
Handler(c) ==
  \/ Register(c) \/ StartAcknowledge(c) \/ EndAcknowledge(c) \/ ReadMessage(c)
  \/ UpdateLastSeen(c) \/ TakeChannel(c) \/ SendResult(c) \/ Disconnect(c)

Caller(k) ==
  \/ Find(k) \/ AddChannel(k) \/ Lock(k) \/ StartWrite(k) \/ EndWrite(k)
  \/ Await(k) \/ RemoveChannel(k)

Network(c) == Stall(c) \/ Resume(c) \/ Cut(c) \/ Age(c)

Next ==
  \/ CleanUp
  \/ \E c \in Conns : Handler(c) \/ Network(c)
  \/ \E k \in Calls : Caller(k)

Spec == Init /\ [][Next]_vars
-----------------------------------------------------------------------------
(* What the tunnel promises. *)

TypeOK ==
  /\ agents \in [Servers -> Conns \union {None}]
  /\ commands \subseteq Calls
  /\ conn \in [Conns -> [pc : {"off", "routed", "acking", "reading", "seen", "routing", "sending", "ended"},
                        sock : Sockets, fresh : BOOLEAN, msg : Calls \union {None}]]
  /\ call \in [Calls -> [pc : {"idle", "found", "ready", "locked", "writing", "waiting", "leaving", "done"},
                        via : Conns \union {None}, chan : BOOLEAN,
                        sent : BOOLEAN]]

\* A connection that has registered and that nobody closed is the one commands
\* to its server go through: the handler of a replaced connection, which ends
\* later, does not take the route of its successor away.
OpenMeansRouted ==
  \A c \in Conns :
    (conn[c].pc \notin {"off", "ended"} /\ Usable(c))
      => agents[ServerOf[c]] = c

\* A handler that holds the channel of a call finds room in it, so an answer
\* somebody may wait for is never dropped, however often the agent repeats it.
AnswerHasRoom ==
  \A c, d \in Conns :
    conn[c].pc = "sending" =>
      /\ ~call[conn[c].msg].chan
      /\ (conn[d].pc = "sending" /\ conn[d].msg = conn[c].msg) => c = d

\* A caller that returned leaves no channel behind, whatever made it return.
NoChannelLeft == \A k \in commands : call[k].pc \notin {"idle", "found", "done"}

\* A write that waits for a peer that does not read.
StuckWrite ==
  \/ \E c \in Conns : conn[c].pc = "acking" /\ conn[c].sock = "stalled"
  \/ \E k \in Calls : call[k].pc = "writing" /\ conn[call[k].via].sock = "stalled"

\* Every command returns, whatever its agent does, unless some write is stuck for
\* ever: no write has a deadline (tunnel.go:198), and one that never ends holds up
\* the commands to every agent, for it keeps the read lock.
CommandsReturn ==
  \/ <>[]StuckWrite
  \/ \A k \in Calls : call[k].pc = "found" ~> call[k].pc = "done"
=============================================================================
