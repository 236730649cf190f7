------------------------- MODULE Connections_proofs -------------------------
(***************************************************************************)
(* Proofs about the connections that outlive a request: Tunnel, RedisBus,  *)
(* LogHub and LogView, for every set of agents, commands, instances,       *)
(* viewers and sockets, and every capacity and bound.  Each has an         *)
(* inductive invariant, named for it.                                      *)
(***************************************************************************)
EXTENDS Connections, Naturals, Sequences, FiniteSets, FiniteSetTheorems, TLAPS
-----------------------------------------------------------------------------
(***************************************************************************)
(* The tunnel.                                                             *)
(***************************************************************************)

Connection ==
  [pc : {"off", "routed", "acking", "reading", "seen", "routing", "sending", "ended"},
   sock : Tunnel!Sockets, fresh : BOOLEAN, msg : Calls \union {None}]

Command ==
  [pc : {"idle", "found", "ready", "locked", "writing", "waiting", "leaving", "done"},
   via : Conns \union {None}, chan : BOOLEAN, sent : BOOLEAN]

LEMMA TunnelTypes ==
  Tunnel!TypeOK <=> /\ agents \in [Servers -> Conns \union {None}]
                    /\ commands \subseteq Calls
                    /\ conn \in [Conns -> Connection]
                    /\ call \in [Calls -> Command]
  BY DEF Tunnel!TypeOK, Connection, Command

\* A handler that serves its connection.
Open(c) == conn[c].pc \notin {"off", "ended"} /\ Tunnel!Usable(c)

\* A registered channel is empty and its caller is between the two ends of it.
ChannelsHold ==
  \A k \in commands :
    call[k].pc \in {"ready", "locked", "writing", "waiting", "leaving"} /\ ~call[k].chan

Begun(k) == call[k].pc \notin {"idle", "found"}

\* A caller that has not registered its channel has nothing in it.
UnbegunHold == \A k \in Calls : ~Begun(k) => ~call[k].chan

\* A handler with a result knows whose it is; once it has taken the channel of
\* the call nobody else can.
HandlersHold ==
  \A c \in Conns :
    /\ conn[c].pc \in {"routing", "sending"} => conn[c].msg \in Calls
    /\ conn[c].pc = "sending" => conn[c].msg \notin commands /\ Begun(conn[c].msg)

TunnelInv ==
  /\ agents \in [Servers -> Conns \union {None}]
  /\ commands \subseteq Calls
  /\ conn \in [Conns -> Connection]
  /\ call \in [Calls -> Command]
  /\ ChannelsHold /\ UnbegunHold /\ HandlersHold
  /\ \A c \in Conns : Open(c) => agents[ServerOf[c]] = c
  /\ Tunnel!AnswerHasRoom

LEMMA TunnelInitInv ==
  ASSUME Tunnel!TunnelAssumption, Tunnel!Init
  PROVE  TunnelInv
  BY DEF TunnelInv, Tunnel!TunnelAssumption, ChannelsHold, UnbegunHold, HandlersHold, Tunnel!Init,
         Connection, Command, Open, Begun, Tunnel!Sockets, Tunnel!AnswerHasRoom

\* A caller moves; it registers its channel when it has found its connection.
LEMMA CommandMoves ==
  ASSUME TunnelInv, NEW k \in Calls, NEW q \in Command,
         call' = [call EXCEPT ![k] = q],
         UNCHANGED <<agents, conn>>,
         q.chan => call[k].chan,
         Begun(k) => q.pc \notin {"idle", "found"},
         commands' \subseteq commands \union {k},
         k \in commands' =>
           /\ k \in commands \/ call[k].pc = "found"
           /\ q.pc \in {"ready", "locked", "writing", "waiting", "leaving"}
  PROVE  TunnelInv'
  <1>1. /\ call' \in [Calls -> Command] /\ call'[k] = q
        /\ \A j \in Calls : j # k => call'[j] = call[j]
    BY DEF TunnelInv
  <1>2. commands' \subseteq Calls /\ conn' = conn /\ agents' = agents
    BY DEF TunnelInv
  <1>3. ChannelsHold'
    BY <1>1, <1>2 DEF TunnelInv, ChannelsHold, UnbegunHold, Begun
  <1>4. UnbegunHold'
    BY <1>1 DEF TunnelInv, UnbegunHold, Begun
  <1>5. HandlersHold'
    BY <1>1, <1>2 DEF TunnelInv, HandlersHold, Begun
  <1>6. Tunnel!AnswerHasRoom'
    BY <1>1, <1>2 DEF TunnelInv, HandlersHold, Tunnel!AnswerHasRoom
  <1> QED
    BY <1>1, <1>2, <1>3, <1>4, <1>5, <1>6 DEF TunnelInv, Open, Tunnel!Usable

LEMMA CallerKeeps ==
  ASSUME TunnelInv, NEW k \in Calls, Tunnel!Caller(k)
  PROVE  TunnelInv'
  <1> DEFINE c == call[k]
             q(pc, via, chan, sent) == [pc |-> pc, via |-> via, chan |-> chan, sent |-> sent]
  <1>0. c \in Command /\ (k \in commands => c.pc \in {"ready", "locked", "writing", "waiting", "leaving"})
    BY DEF TunnelInv, ChannelsHold
  <1>1. CASE Tunnel!Find(k)
    <2>1. PICK s \in Servers : Tunnel!SetCall(k, IF agents[s] = None THEN [c EXCEPT !.pc = "done"]
                                                 ELSE [c EXCEPT !.pc = "found", !.via = agents[s]])
      BY <1>1 DEF Tunnel!Find
    <2> QED
      BY <1>0, <1>1, <2>1, CommandMoves DEF Tunnel!Find, Tunnel!SetCall, Command, Begun, TunnelInv
  <1>2. CASE Tunnel!AddChannel(k)
    BY <1>0, <1>2, CommandMoves DEF Tunnel!AddChannel, Tunnel!SetCall, Command, Begun
  <1>3. CASE Tunnel!Lock(k)
    BY <1>0, <1>3, CommandMoves DEF Tunnel!Lock, Tunnel!SetCall, Command, Begun
  <1>4. CASE Tunnel!StartWrite(k)
    BY <1>0, <1>4, CommandMoves DEF Tunnel!StartWrite, Tunnel!SetCall, Command, Begun
  <1>5. CASE Tunnel!EndWrite(k)
    <2>1. PICK r \in {[c EXCEPT !.pc = "waiting", !.sent = TRUE], [c EXCEPT !.pc = "waiting"],
                      [c EXCEPT !.pc = "leaving"]} : call' = [call EXCEPT ![k] = r]
      BY <1>5 DEF Tunnel!EndWrite, Tunnel!SetCall
    <2>2. r \in Command /\ r.chan = c.chan /\ r.pc \in {"waiting", "leaving"}
      BY <1>0, <2>1 DEF Command
    <2> QED
      BY <1>5, <2>1, <2>2, CommandMoves DEF Tunnel!EndWrite
  <1>6. CASE Tunnel!Await(k)
    <2> DEFINE r == [c EXCEPT !.pc = "leaving", !.chan = FALSE]
    <2>1. r \in Command /\ ~r.chan /\ r.pc = "leaving"
      BY <1>0 DEF Command
    <2> QED
      BY <1>6, <2>1, CommandMoves DEF Tunnel!Await, Tunnel!SetCall
  <1>7. CASE Tunnel!RemoveChannel(k)
    BY <1>0, <1>7, CommandMoves DEF Tunnel!RemoveChannel, Tunnel!SetCall, Command, Begun
  <1> QED
    BY <1>1, <1>2, <1>3, <1>4, <1>5, <1>6, <1>7 DEF Tunnel!Caller

\* A connection moves, and what is routed stays: at most it comes to hold a
\* channel that was registered, and no longer is.
LEMMA ConnectionMoves ==
  ASSUME TunnelInv, NEW c \in Conns,
         conn' \in [Conns -> Connection],
         \A d \in Conns : d # c => /\ conn'[d].pc = conn[d].pc /\ conn'[d].msg = conn[d].msg
                                   /\ conn'[d].sock = conn[d].sock,
         UNCHANGED <<agents, call>>,
         commands' \subseteq commands,
         Open(c)' => Open(c),
         conn'[c].pc \in {"routing", "sending"} => conn'[c].msg \in Calls,
         conn'[c].pc = "sending" =>
           \/ conn[c].pc = "sending" /\ conn'[c].msg = conn[c].msg
           \/ conn'[c].msg \in commands \ commands'
  PROVE  TunnelInv'
  <1>1. call' = call /\ agents' = agents /\ commands' \subseteq Calls
    BY DEF TunnelInv
  <1>2. ChannelsHold' /\ UnbegunHold'
    BY <1>1 DEF TunnelInv, ChannelsHold, UnbegunHold, Begun
  <1>3. HandlersHold'
    BY <1>1 DEF TunnelInv, HandlersHold, ChannelsHold, Begun
  <1>4. Tunnel!AnswerHasRoom'
    BY <1>1 DEF TunnelInv, HandlersHold, ChannelsHold, Tunnel!AnswerHasRoom
  <1>5. \A d \in Conns : Open(d)' => agents'[ServerOf[d]] = d
    BY <1>1 DEF TunnelInv, Open, Tunnel!Usable
  <1> QED
    BY <1>1, <1>2, <1>3, <1>4, <1>5 DEF TunnelInv

LEMMA NetworkKeeps ==
  ASSUME TunnelInv, NEW c \in Conns, Tunnel!Network(c)
  PROVE  TunnelInv'
  <1>0. conn[c] \in Connection /\ conn \in [Conns -> Connection]
        /\ (conn[c].pc \in {"routing", "sending"} => conn[c].msg \in Calls)
    BY DEF TunnelInv, HandlersHold
  <1> USE DEF Tunnel!SetConn, Connection, Open, Tunnel!Usable, Tunnel!Sockets
  <1>1. CASE Tunnel!Stall(c)
    BY <1>0, <1>1, ConnectionMoves DEF Tunnel!Stall
  <1>2. CASE Tunnel!Cut(c)
    BY <1>0, <1>2, ConnectionMoves DEF Tunnel!Cut
  <1>3. CASE Tunnel!Resume(c)
    BY <1>0, <1>3, ConnectionMoves DEF Tunnel!Resume
  <1>4. CASE Tunnel!Age(c)
    <2>1. conn' = [conn EXCEPT ![c] = [conn[c] EXCEPT !.fresh = FALSE]]
      BY <1>4 DEF Tunnel!Age
    <2>2. conn' \in [Conns -> Connection] /\ Open(c)' = Open(c)
      BY <1>0, <2>1
    <2>3. \A d \in Conns : /\ conn'[d].pc = conn[d].pc /\ conn'[d].msg = conn[d].msg
                            /\ conn'[d].sock = conn[d].sock
      BY <1>0, <2>1
    <2>4. UNCHANGED <<agents, call>> /\ commands' = commands
      BY <1>4 DEF Tunnel!Age
    <2> QED
      BY ONLY TunnelInv, <1>0, <2>2, <2>3, <2>4, ConnectionMoves
  <1> QED
    BY <1>1, <1>2, <1>3, <1>4 DEF Tunnel!Network

\* Routes change, and no handler comes to a result.
LEMMA RoutesMove ==
  ASSUME TunnelInv,
         UNCHANGED <<commands, call>>,
         agents' \in [Servers -> Conns \union {None}],
         conn' \in [Conns -> Connection],
         \A d \in Conns : conn'[d].pc \in {"routing", "sending"} =>
                            conn'[d].pc = conn[d].pc /\ conn'[d].msg = conn[d].msg,
         \A d \in Conns : Open(d)' => agents'[ServerOf[d]] = d
  PROVE  TunnelInv'
  <1>1. commands' = commands /\ call' = call
    OBVIOUS
  <1>2. ChannelsHold' /\ UnbegunHold'
    BY <1>1 DEF TunnelInv, ChannelsHold, UnbegunHold, Begun
  <1>3. HandlersHold'
    BY <1>1 DEF TunnelInv, HandlersHold, Begun
  <1>4. Tunnel!AnswerHasRoom'
    BY <1>1 DEF TunnelInv, Tunnel!AnswerHasRoom
  <1> QED
    BY <1>1, <1>2, <1>3, <1>4 DEF TunnelInv

\* What a message refreshes is an age.
LEMMA RefreshedTypes ==
  ASSUME TunnelInv, NEW c \in Conns, Tunnel!TunnelAssumption
  PROVE  /\ Tunnel!Refreshed(c) \in [Conns -> Connection]
         /\ \A d \in Conns : /\ Tunnel!Refreshed(c)[d].pc = conn[d].pc
                             /\ Tunnel!Refreshed(c)[d].msg = conn[d].msg
                             /\ Tunnel!Refreshed(c)[d].sock = conn[d].sock
  BY DEF TunnelInv, Tunnel!TunnelAssumption, Tunnel!Refreshed, Connection

LEMMA HandlerKeeps ==
  ASSUME Tunnel!TunnelAssumption, TunnelInv, NEW c \in Conns, Tunnel!Handler(c)
  PROVE  TunnelInv'
  <1>0. conn[c] \in Connection /\ conn \in [Conns -> Connection] /\ ServerOf[c] \in Servers
        /\ (conn[c].pc \in {"routing", "sending"} => conn[c].msg \in Calls)
    BY DEF TunnelInv, HandlersHold, Tunnel!TunnelAssumption
  <1>1. CASE Tunnel!Register(c)
    <2> DEFINE s == ServerOf[c]
               old == agents[s]
               new == [pc |-> "routed", sock |-> "up", fresh |-> TRUE, msg |-> None]
               mid == IF old = None THEN conn ELSE Tunnel!CloseSock(conn, old)
    <2>1. /\ conn' = [mid EXCEPT ![c] = new] /\ agents' = [agents EXCEPT ![s] = c]
          /\ UNCHANGED <<commands, call>>
      BY <1>1 DEF Tunnel!Register
    <2>2. new \in Connection
      BY DEF Connection, Tunnel!Sockets
    <2>3. /\ mid \in [Conns -> Connection]
          /\ \A d \in Conns : mid[d].pc = conn[d].pc /\ mid[d].msg = conn[d].msg
          /\ \A d \in Conns : mid[d].sock = IF d = old THEN "closed" ELSE conn[d].sock
      BY <1>0 DEF Tunnel!CloseSock, TunnelInv, Connection, Tunnel!Sockets, Tunnel!TunnelAssumption
    <2> HIDE DEF new, mid
    <2>4. conn' \in [Conns -> Connection] /\ agents' \in [Servers -> Conns \union {None}]
      BY <1>0, <2>1, <2>2, <2>3 DEF TunnelInv
    <2>5. \A d \in Conns : d # c => conn'[d] = mid[d]
      BY <2>1, <2>3
    <2>6. conn'[c].pc = "routed"
      BY <2>1, <2>3 DEF new
    <2>7. ASSUME NEW d \in Conns, Open(d)' PROVE agents'[ServerOf[d]] = d
      <3>1. CASE d = c
        BY <1>0, <2>1, <3>1 DEF TunnelInv
      <3>2. CASE d # c
        BY <1>0, <2>1, <2>3, <2>5, <2>7, <3>2 DEF TunnelInv, Open, Tunnel!Usable
      <3> QED
        BY <3>1, <3>2
    <2> QED
      BY <2>1, <2>3, <2>4, <2>5, <2>6, <2>7, RoutesMove
  <1>2. CASE Tunnel!StartAcknowledge(c)
    BY <1>0, <1>2, ConnectionMoves DEF Tunnel!StartAcknowledge, Tunnel!SetConn, Connection, Open, Tunnel!Usable
  <1>8. CASE Tunnel!EndAcknowledge(c)
    BY <1>0, <1>8, ConnectionMoves DEF Tunnel!EndAcknowledge, Tunnel!SetConn, Connection, Open, Tunnel!Usable
  <1>3. CASE Tunnel!ReadMessage(c)
    <2>1. PICK m \in Tunnel!Answers(c) \union {None} :
            conn' = [conn EXCEPT ![c] = [conn[c] EXCEPT !.pc = "seen", !.msg = m]]
      BY <1>3 DEF Tunnel!ReadMessage, Tunnel!SetConn
    <2> DEFINE q == [conn[c] EXCEPT !.pc = "seen", !.msg = m]
    <2>2. m \in Calls \union {None}
      BY DEF Tunnel!Answers
    <2>3. q \in Connection /\ q.pc = "seen" /\ q.sock = conn[c].sock
      BY <1>0, <2>2 DEF Connection
    <2>4. conn' = [conn EXCEPT ![c] = q]
      BY <2>1
    <2> HIDE DEF q
    <2> QED
      BY <1>0, <1>3, <2>3, <2>4, ConnectionMoves DEF Tunnel!ReadMessage, Open, Tunnel!Usable
  <1>4. CASE Tunnel!UpdateLastSeen(c)
    <2> DEFINE f == Tunnel!Refreshed(c)
               to == IF conn[c].msg = None THEN "reading" ELSE "routing"
               q == [f[c] EXCEPT !.pc = to]
    <2>1. conn' = [f EXCEPT ![c] = q]
      BY <1>4 DEF Tunnel!UpdateLastSeen
    <2>2. f \in [Conns -> Connection] /\ f[c] \in Connection /\ f[c].sock = conn[c].sock /\ f[c].msg = conn[c].msg
      BY RefreshedTypes
    <2> HIDE DEF f
    <2>3. /\ q \in Connection /\ q.pc = to /\ q.msg = conn[c].msg /\ q.sock = conn[c].sock
          /\ to # "sending" /\ (to = "routing" => conn[c].msg \in Calls)
      BY <1>0, <2>2 DEF Connection
    <2> HIDE DEF q, to
    <2>4. conn' \in [Conns -> Connection] /\ conn'[c] = q /\ \A d \in Conns : d # c => conn'[d] = f[d]
      BY <2>1, <2>2, <2>3
    <2>5. /\ conn[c].pc = "seen" /\ UNCHANGED <<agents, call>> /\ commands' = commands
          /\ \A d \in Conns : f[d].pc = conn[d].pc /\ f[d].msg = conn[d].msg /\ f[d].sock = conn[d].sock
      BY <1>4, RefreshedTypes DEF Tunnel!UpdateLastSeen, f
    <2>6. Open(c)' => Open(c)
      BY <2>3, <2>4, <2>5 DEF Open, Tunnel!Usable
    <2>7. conn'[c].pc \in {"reading", "routing"} /\ (conn'[c].pc = "routing" => conn'[c].msg \in Calls)
      BY <2>3, <2>4 DEF to
    <2> QED
      BY <2>4, <2>5, <2>6, <2>7, ConnectionMoves
  <1>5. CASE Tunnel!TakeChannel(c)
    <2> DEFINE r == [conn[c] EXCEPT !.pc = "reading", !.msg = None]
               s == [conn[c] EXCEPT !.pc = "sending"]
    <2>1. /\ r \in Connection /\ r.pc = "reading" /\ r.sock = conn[c].sock
          /\ s \in Connection /\ s.pc = "sending" /\ s.msg = conn[c].msg /\ s.sock = conn[c].sock
      BY <1>0 DEF Connection
    <2>2. conn' = [conn EXCEPT ![c] = IF conn[c].msg \in commands THEN s ELSE r]
      BY <1>5 DEF Tunnel!TakeChannel, Tunnel!SetConn
    <2> HIDE DEF r, s
    <2> QED
      BY <1>0, <1>5, <2>1, <2>2, ConnectionMoves DEF Tunnel!TakeChannel, Open, Tunnel!Usable
  <1>6. CASE Tunnel!SendResult(c)
    <2> DEFINE k == conn[c].msg
               r == [conn[c] EXCEPT !.pc = "reading", !.msg = None]
    <2>1. r \in Connection /\ r.pc = "reading" /\ r.sock = conn[c].sock
      BY <1>0 DEF Connection
    <2>2. /\ conn[c].pc = "sending" /\ conn' = [conn EXCEPT ![c] = r]
          /\ call' = [call EXCEPT ![k] = [@ EXCEPT !.chan = TRUE]]
          /\ UNCHANGED <<agents, commands>>
      BY <1>6 DEF Tunnel!SendResult, Tunnel!SetConn
    <2>3. k \in Calls /\ k \notin commands /\ Begun(k)
      BY <2>2 DEF TunnelInv, HandlersHold
    <2> HIDE DEF r
    <2>4. /\ conn' \in [Conns -> Connection] /\ conn'[c] = r
          /\ \A d \in Conns : d # c => conn'[d] = conn[d]
      BY <1>0, <2>1, <2>2
    <2>5. /\ call' \in [Calls -> Command]
          /\ \A j \in Calls : j # k => call'[j] = call[j]
          /\ \A j \in Calls : call'[j].pc = call[j].pc
      BY <2>2, <2>3 DEF TunnelInv, Command
    <2>6. ChannelsHold' /\ UnbegunHold'
      BY <2>2, <2>3, <2>5 DEF TunnelInv, ChannelsHold, UnbegunHold, Begun
    <2>7. HandlersHold'
      BY <2>1, <2>2, <2>4, <2>5 DEF TunnelInv, HandlersHold, Begun
    <2>8. Tunnel!AnswerHasRoom'
      BY <2>1, <2>2, <2>4, <2>5 DEF TunnelInv, HandlersHold, Tunnel!AnswerHasRoom
    <2>9. \A d \in Conns : Open(d)' => agents'[ServerOf[d]] = d
      BY <2>1, <2>2, <2>4 DEF TunnelInv, Open, Tunnel!Usable
    <2> QED
      BY <2>2, <2>4, <2>5, <2>6, <2>7, <2>8, <2>9 DEF TunnelInv
  <1>7. CASE Tunnel!Disconnect(c)
    <2> DEFINE r == [conn[c] EXCEPT !.pc = "ended", !.sock = "closed"]
    <2>1. r \in Connection /\ r.pc = "ended"
      BY <1>0 DEF Connection, Tunnel!Sockets
    <2>2. /\ conn' = [conn EXCEPT ![c] = r] /\ UNCHANGED <<commands, call>>
          /\ agents' = IF agents[ServerOf[c]] = c THEN [agents EXCEPT ![ServerOf[c]] = None] ELSE agents
      BY <1>7 DEF Tunnel!Disconnect, Tunnel!SetConn
    <2> HIDE DEF r
    <2>3. /\ conn' \in [Conns -> Connection] /\ agents' \in [Servers -> Conns \union {None}]
          /\ conn'[c].pc = "ended"
          /\ \A d \in Conns : d # c => conn'[d] = conn[d]
      BY <1>0, <2>1, <2>2 DEF TunnelInv
    <2>4. ASSUME NEW d \in Conns, Open(d)' PROVE agents'[ServerOf[d]] = d
      <3>1. d # c /\ Open(d)
        BY <2>3, <2>4 DEF Open, Tunnel!Usable
      <3>2. agents[ServerOf[d]] = d /\ ServerOf[d] \in Servers
        BY <3>1 DEF TunnelInv, Tunnel!TunnelAssumption
      <3> QED
        BY <1>0, <2>2, <3>1, <3>2 DEF TunnelInv
    <2> QED
      BY <2>2, <2>3, <2>4, RoutesMove
  <1> QED
    BY <1>1, <1>2, <1>3, <1>4, <1>5, <1>6, <1>7, <1>8 DEF Tunnel!Handler

LEMMA CleanUpKeeps ==
  ASSUME Tunnel!TunnelAssumption, TunnelInv, Tunnel!CleanUp
  PROVE  TunnelInv'
  <1>1. /\ conn' = [c \in Conns |-> IF agents[ServerOf[c]] = c /\ ServerOf[c] \in Tunnel!Stale
                                    THEN [conn[c] EXCEPT !.sock = "closed"] ELSE conn[c]]
        /\ agents' = [s \in Servers |-> IF s \in Tunnel!Stale THEN None ELSE agents[s]]
        /\ UNCHANGED <<commands, call>>
    BY DEF Tunnel!CleanUp
  <1>2. /\ conn' \in [Conns -> Connection] /\ agents' \in [Servers -> Conns \union {None}]
        /\ \A c \in Conns : conn'[c].pc = conn[c].pc /\ conn'[c].msg = conn[c].msg
    BY <1>1 DEF TunnelInv, Connection, Tunnel!Sockets
  <1>3. ASSUME NEW d \in Conns, Open(d)' PROVE agents'[ServerOf[d]] = d
    <2>1. ServerOf[d] \in Servers /\ conn[d] \in Connection
      BY DEF Tunnel!TunnelAssumption, TunnelInv
    <2>2. ~(agents[ServerOf[d]] = d /\ ServerOf[d] \in Tunnel!Stale) /\ conn'[d] = conn[d]
      BY <1>1, <1>3, <2>1 DEF Open, Tunnel!Usable, Connection
    <2>3. agents[ServerOf[d]] = d
      BY <1>3, <2>2 DEF TunnelInv, Open, Tunnel!Usable
    <2> QED
      BY <1>1, <2>1, <2>2, <2>3
  <1> QED
    BY <1>1, <1>2, <1>3, RoutesMove

LEMMA TunnelNextInv ==
  ASSUME Tunnel!TunnelAssumption, TunnelInv, [Tunnel!Next]_(Tunnel!vars)
  PROVE  TunnelInv'
  <1>1. CASE UNCHANGED Tunnel!vars
    BY <1>1 DEF Tunnel!vars, TunnelInv, ChannelsHold, UnbegunHold, HandlersHold, Begun, Open,
                Tunnel!Usable, Tunnel!AnswerHasRoom
  <1> QED
    BY <1>1, CleanUpKeeps, HandlerKeeps, NetworkKeeps, CallerKeeps DEF Tunnel!Next

\* The inductive invariant of the tunnel (HandleTunnel, handleResult, ExecuteCommand).
THEOREM TunnelInvariance == Tunnel!Spec => []TunnelInv
  <1>1. Tunnel!Init => TunnelInv
    BY TunnelInitInv, ConnectionsAssumption
  <1>2. TunnelInv /\ [Tunnel!Next]_(Tunnel!vars) => TunnelInv'
    BY TunnelNextInv, ConnectionsAssumption
  <1> QED
    BY <1>1, <1>2, PTL DEF Tunnel!Spec

\* For any number of agents and commands: whoever has registered and was not closed
\* is the one commands go through, an answer finds room, and a caller that returned
\* leaves no channel behind.
THEOREM TunnelHoldsCorrect == Tunnel!Spec => []TunnelHolds
  <1>1. TunnelInv => TunnelHolds
    BY DEF TunnelInv, TunnelHolds, ChannelsHold, Open, Tunnel!OpenMeansRouted, Tunnel!NoChannelLeft
  <1> QED
    BY <1>1, TunnelInvariance, PTL

-----------------------------------------------------------------------------
(***************************************************************************)
(* The Redis event bus.                                                    *)
(***************************************************************************)

Elements(s) == {s[a] : a \in 1..Len(s)}

\* Two events of one publisher that came the same way.
Alike(x, y) == x.from = y.from /\ x.via = y.via

\* Such events are in the order of their publication ...
Sorted(s) == \A a, b \in 1..Len(s) : (a < b /\ Alike(s[a], s[b])) => s[a].n < s[b].n

\* ... and those of one set are older than those of the other.
Precede(S, T) == \A x \in S, y \in T : Alike(x, y) => x.n < y.n

LEMMA AppendElements ==
  ASSUME NEW S, NEW s \in Seq(S), NEW e \in S
  PROVE  /\ Append(s, e) \in Seq(S) /\ Len(Append(s, e)) = Len(s) + 1
         /\ Elements(Append(s, e)) = Elements(s) \union {e}
  <1>1. /\ Append(s, e) \in Seq(S) /\ Len(Append(s, e)) = Len(s) + 1 /\ Len(s) \in Nat
        /\ \A a \in 1..Len(s) : Append(s, e)[a] = s[a]
        /\ Append(s, e)[Len(s) + 1] = e
    OBVIOUS
  <1>2. 1..Len(s) + 1 = (1..Len(s)) \union {Len(s) + 1}
    BY <1>1
  <1> QED
    BY <1>1, <1>2 DEF Elements

LEMMA TailElements ==
  ASSUME NEW S, NEW s \in Seq(S), s # <<>>
  PROVE  /\ Tail(s) \in Seq(S) /\ Len(Tail(s)) = Len(s) - 1
         /\ Head(s) \in Elements(s) /\ Head(s) \in S
         /\ Elements(Tail(s)) \subseteq Elements(s)
  <1>1. Tail(s) \in Seq(S) /\ Len(Tail(s)) = Len(s) - 1 /\ Len(s) \in Nat \ {0} /\ Head(s) = s[1] /\ s[1] \in S
    OBVIOUS
  <1>2. \A a \in 1..Len(Tail(s)) : Tail(s)[a] = s[a + 1]
    OBVIOUS
  <1>3. Elements(Tail(s)) \subseteq Elements(s)
    BY <1>1, <1>2 DEF Elements
  <1> QED
    BY <1>1, <1>3 DEF Elements

LEMMA SortedAppend ==
  ASSUME NEW S, NEW s \in Seq(S), NEW e \in S, Sorted(s), Precede(Elements(s), {e})
  PROVE  Sorted(Append(s, e))
  <1>1. /\ Len(Append(s, e)) = Len(s) + 1 /\ Len(s) \in Nat
        /\ \A a \in 1..Len(s) : Append(s, e)[a] = s[a]
        /\ Append(s, e)[Len(s) + 1] = e
    OBVIOUS
  <1>2. \A a \in 1..Len(s) : s[a] \in Elements(s)
    BY DEF Elements
  <1> QED
    BY <1>1, <1>2 DEF Sorted, Precede

LEMMA SortedTail ==
  ASSUME NEW S, NEW s \in Seq(S), s # <<>>, Sorted(s)
  PROVE  Sorted(Tail(s)) /\ Precede({Head(s)}, Elements(Tail(s)))
  <1>1. Len(Tail(s)) = Len(s) - 1 /\ Len(s) \in Nat \ {0} /\ Head(s) = s[1]
    OBVIOUS
  <1>2. \A a \in 1..Len(Tail(s)) : Tail(s)[a] = s[a + 1]
    OBVIOUS
  <1> QED
    BY <1>1, <1>2 DEF Sorted, Precede, Elements

LEMMA EmptyElements == Elements(<<>>) = {} /\ Sorted(<<>>)
  BY DEF Elements, Sorted

BusTypes ==
  /\ skipOwn \in BOOLEAN
  /\ published \in [Publishers -> 0..MaxEvents]
  /\ publishing \subseteq Publishers /\ \A p \in publishing : published[p] > 0
  /\ remote \in [Subscribers -> Seq(Bus!Event)]
  /\ local \in [Subscribers -> Seq(Bus!Event)]
  /\ merged \in [Subscribers -> Seq(Bus!Event)]
  /\ merger \in [Subscribers -> {"off", "remote", "on", "closed"}]
  /\ seen \in [Subscribers -> Seq(Bus!Event)]
  /\ \A i \in Subscribers : Len(local[i]) <= Capacity /\ Len(merged[i]) <= Capacity

\* What the reader has comes before what it will get, from either channel.
Ordered(got, next, own, far) ==
  /\ Sorted(got) /\ Sorted(next) /\ Sorted(own) /\ Sorted(far)
  /\ Precede(Elements(got), Elements(next))
  /\ Precede(Elements(got), Elements(own)) /\ Precede(Elements(next), Elements(own))
  /\ Precede(Elements(got), Elements(far)) /\ Precede(Elements(next), Elements(far))

\* The local channel has the instance's own events; of the other, the typed bus
\* skips them.
Sorts(i, got, next, own, far) ==
  /\ \A x \in Elements(own) : x.via = "local"
  /\ \A x \in Elements(far) : x.via = "redis"
  /\ \A x \in Elements(got) \union Elements(next) \union Elements(own) : x.via = "local" => At[x.from] = i
  /\ skipOwn => \A x \in Elements(got) \union Elements(next) : x.via = "redis" => At[x.from] # i

\* Nothing arrives before it is published, on the local bus only with its second half.
Arrived(got, next, own, far) ==
  /\ \A x \in Elements(got) \union Elements(next) \union Elements(own) \union Elements(far) :
       x.n <= published[x.from]
  /\ \A x \in Elements(got) \union Elements(next) \union Elements(own) :
       x.via = "local" /\ x.from \in publishing => x.n < published[x.from]

\* What a subscription holds.
Holding(i, got, next, own, far) ==
  Ordered(got, next, own, far) /\ Sorts(i, got, next, own, far) /\ Arrived(got, next, own, far)

BusInv ==
  /\ BusTypes
  /\ \A i \in Subscribers : Holding(i, seen[i], merged[i], local[i], remote[i])

LEMMA BusInitInv ==
  ASSUME Bus!BusAssumption, Bus!Init
  PROVE  BusInv
  <1>1. BusTypes
    BY DEF BusTypes, Bus!BusAssumption, Bus!Init, Bus!Event
  <1>2. ASSUME NEW i \in Subscribers
        PROVE  Holding(i, <<>>, <<>>, <<>>, <<>>)
    BY EmptyElements DEF Holding, Ordered, Sorts, Arrived, Precede
  <1> QED
    BY <1>1, <1>2 DEF BusInv, Bus!Init

\* A subscription's channels change, and what was published does not.
LEMMA SubscriptionMoves ==
  ASSUME BusInv, NEW i \in Subscribers,
         NEW got \in Seq(Bus!Event), NEW next \in Seq(Bus!Event),
         NEW own \in Seq(Bus!Event), NEW far \in Seq(Bus!Event),
         seen' = [seen EXCEPT ![i] = got], merged' = [merged EXCEPT ![i] = next],
         local' = [local EXCEPT ![i] = own], remote' = [remote EXCEPT ![i] = far],
         merger' \in [Subscribers -> {"off", "remote", "on", "closed"}],
         UNCHANGED <<skipOwn, published, publishing>>,
         Len(next) <= Capacity, Len(own) <= Capacity,
         Holding(i, got, next, own, far)
  PROVE  BusInv'
  <1>1. BusTypes'
    BY DEF BusInv, BusTypes
  <1>2. \A j \in Subscribers : Holding(j, seen'[j], merged'[j], local'[j], remote'[j])
    BY DEF BusInv, BusTypes
  <1>3. published' = published /\ publishing' = publishing /\ skipOwn' = skipOwn
    OBVIOUS
  <1>4. \A j \in Subscribers : Holding(j, seen[j], merged[j], local[j], remote[j])'
    BY <1>2, <1>3 DEF Holding, Ordered, Sorts, Arrived
  <1> QED
    BY <1>1, <1>4 DEF BusInv

\* What a channel with or without one more event holds.
LEMMA OfferTypes ==
  ASSUME Bus!BusAssumption, NEW s \in Seq(Bus!Event), NEW e \in Bus!Event, Sorted(s), Len(s) <= Capacity,
         Precede(Elements(s), {e})
  PROVE  /\ Bus!Offer(s, e) \in Seq(Bus!Event) /\ Len(Bus!Offer(s, e)) <= Capacity
         /\ Elements(Bus!Offer(s, e)) \subseteq Elements(s) \union {e} /\ Sorted(Bus!Offer(s, e))
  <1>1. CASE Len(s) < Capacity
    <2>1. Bus!Offer(s, e) = Append(s, e)
      BY <1>1 DEF Bus!Offer
    <2>2. Len(s) \in Nat
      OBVIOUS
    <2> HIDE DEF Bus!Event
    <2> QED
      BY <1>1, <2>1, <2>2, AppendElements, SortedAppend DEF Bus!BusAssumption
  <1>2. CASE ~(Len(s) < Capacity)
    BY <1>2 DEF Bus!Offer
  <1> QED
    BY <1>1, <1>2

\* The types of what a subscription holds.
LEMMA BusElements ==
  ASSUME BusInv, NEW i \in Subscribers
  PROVE  /\ seen[i] \in Seq(Bus!Event) /\ merged[i] \in Seq(Bus!Event)
         /\ local[i] \in Seq(Bus!Event) /\ remote[i] \in Seq(Bus!Event)
         /\ Len(merged[i]) <= Capacity /\ Len(local[i]) <= Capacity
         /\ Elements(seen[i]) \subseteq Bus!Event /\ Elements(merged[i]) \subseteq Bus!Event
         /\ Elements(local[i]) \subseteq Bus!Event /\ Elements(remote[i]) \subseteq Bus!Event
  <1>1. ASSUME NEW S, NEW s \in Seq(S) PROVE Elements(s) \subseteq S
    BY <1>1 DEF Elements
  <1> QED
    BY <1>1 DEF BusInv, BusTypes

LEMMA ReadKeeps ==
  ASSUME Bus!BusAssumption, BusInv, NEW i \in Subscribers, Bus!Read(i)
  PROVE  BusInv'
  <1> DEFINE e == Head(merged[i])
             got == Append(seen[i], e)
             next == Tail(merged[i])
  <1>1. /\ merged[i] # <<>>
        /\ seen' = [seen EXCEPT ![i] = got] /\ merged' = [merged EXCEPT ![i] = next]
        /\ UNCHANGED <<skipOwn, published, publishing, remote, local, merger>>
    BY DEF Bus!Read
  <1>2. /\ seen[i] \in Seq(Bus!Event) /\ merged[i] \in Seq(Bus!Event)
        /\ Holding(i, seen[i], merged[i], local[i], remote[i])
    BY BusElements DEF BusInv
  <1>3. /\ e \in Bus!Event /\ e \in Elements(merged[i])
        /\ next \in Seq(Bus!Event) /\ Len(next) <= Len(merged[i])
        /\ Elements(next) \subseteq Elements(merged[i])
        /\ Sorted(next) /\ Precede({e}, Elements(next))
    <2>1. Len(next) = Len(merged[i]) - 1 /\ Len(merged[i]) \in Nat
      BY <1>1, <1>2, TailElements
    <2>2. Len(next) <= Len(merged[i])
      BY <2>1
    <2>3. Sorted(next) /\ Precede({e}, Elements(next))
      BY <1>1, <1>2, SortedTail DEF Holding, Ordered
    <2> QED
      BY <1>1, <1>2, <2>2, <2>3, TailElements
  <1>4. /\ got \in Seq(Bus!Event) /\ Elements(got) = Elements(seen[i]) \union {e}
        /\ Sorted(got)
    <2>1. Precede(Elements(seen[i]), {e})
      BY <1>2, <1>3 DEF Holding, Ordered, Precede
    <2> QED
      BY <1>2, <1>3, <2>1, AppendElements, SortedAppend DEF Holding, Ordered
  <1> HIDE DEF e, got, next
  <1>5. Ordered(got, next, local[i], remote[i])
    BY <1>2, <1>3, <1>4 DEF Holding, Ordered, Precede
  <1>6. Arrived(got, next, local[i], remote[i]) /\ Sorts(i, got, next, local[i], remote[i])
    BY <1>2, <1>3, <1>4 DEF Holding, Arrived, Sorts
  <1>7. Len(next) <= Capacity /\ Len(local[i]) <= Capacity
    <2>1. Len(next) \in Nat /\ Len(merged[i]) \in Nat
      BY <1>2, <1>3
    <2> QED
      BY <1>3, <2>1, BusElements DEF Bus!BusAssumption
  <1>8. /\ local' = [local EXCEPT ![i] = local[i]] /\ remote' = [remote EXCEPT ![i] = remote[i]]
        /\ merger' \in [Subscribers -> {"off", "remote", "on", "closed"}]
    BY <1>1 DEF BusInv, BusTypes
  <1> QED
    BY <1>1, <1>3, <1>4, <1>5, <1>6, <1>7, <1>8, BusElements, SubscriptionMoves DEF Holding

LEMMA MergeLocalKeeps ==
  ASSUME Bus!BusAssumption, BusInv, NEW i \in Subscribers, Bus!MergeLocal(i)
  PROVE  BusInv'
  <1> DEFINE e == Head(local[i])
             next == Bus!Offer(merged[i], e)
             own == Tail(local[i])
  <1>1. /\ local[i] # <<>>
        /\ local' = [local EXCEPT ![i] = own] /\ merged' = [merged EXCEPT ![i] = next]
        /\ UNCHANGED <<skipOwn, published, publishing, remote, seen, merger>>
    BY DEF Bus!MergeLocal
  <1>2. Holding(i, seen[i], merged[i], local[i], remote[i])
    BY DEF BusInv
  <1>3. /\ e \in Bus!Event /\ e \in Elements(local[i])
        /\ own \in Seq(Bus!Event) /\ Len(own) <= Len(local[i])
        /\ Elements(own) \subseteq Elements(local[i])
        /\ Sorted(own) /\ Precede({e}, Elements(own))
    <2>1. local[i] \in Seq(Bus!Event)
      BY BusElements
    <2>2. Len(own) = Len(local[i]) - 1 /\ Len(local[i]) \in Nat
      BY <1>1, <2>1, TailElements
    <2>3. Len(own) <= Len(local[i])
      BY <2>2
    <2>4. Sorted(own) /\ Precede({e}, Elements(own))
      BY <1>1, <1>2, <2>1, SortedTail DEF Holding, Ordered
    <2> QED
      BY <1>1, <2>1, <2>3, <2>4, TailElements
  <1>4. /\ next \in Seq(Bus!Event) /\ Elements(next) \subseteq Elements(merged[i]) \union {e}
        /\ Sorted(next) /\ Len(next) <= Capacity
    <2>1. Precede(Elements(merged[i]), {e})
      BY <1>2, <1>3 DEF Holding, Ordered, Precede
    <2> HIDE DEF e
    <2> QED
      BY <1>2, <1>3, <2>1, OfferTypes, BusElements DEF Holding, Ordered
  <1> HIDE DEF e, next, own
  <1>5. Ordered(seen[i], next, own, remote[i])
    <2>1. \A x \in Elements(remote[i]) : ~Alike(e, x)
      BY <1>2, <1>3 DEF Holding, Sorts, Alike
    <2> QED
      BY <1>2, <1>3, <1>4, <2>1 DEF Holding, Ordered, Precede
  <1>6. Arrived(seen[i], next, own, remote[i]) /\ Sorts(i, seen[i], next, own, remote[i])
    BY <1>2, <1>3, <1>4 DEF Holding, Arrived, Sorts
  <1>7. Len(own) <= Capacity
    <2>1. Len(own) \in Nat /\ Len(local[i]) \in Nat
      BY <1>3, BusElements
    <2> QED
      BY <1>3, <2>1, BusElements DEF Bus!BusAssumption
  <1>8. /\ seen' = [seen EXCEPT ![i] = seen[i]] /\ remote' = [remote EXCEPT ![i] = remote[i]]
        /\ merger' \in [Subscribers -> {"off", "remote", "on", "closed"}]
    BY <1>1 DEF BusInv, BusTypes
  <1> QED
    BY <1>1, <1>3, <1>4, <1>5, <1>6, <1>7, <1>8, BusElements, SubscriptionMoves DEF Holding

LEMMA MergeRemoteKeeps ==
  ASSUME Bus!BusAssumption, BusInv, NEW i \in Subscribers, Bus!MergeRemote(i)
  PROVE  BusInv'
  <1> DEFINE e == Head(remote[i])
             next == IF Bus!Skipped(i, e) THEN merged[i] ELSE Bus!Offer(merged[i], e)
             far == Tail(remote[i])
  <1>1. /\ remote[i] # <<>>
        /\ remote' = [remote EXCEPT ![i] = far] /\ merged' = [merged EXCEPT ![i] = next]
        /\ UNCHANGED <<skipOwn, published, publishing, local, seen, merger>>
    BY DEF Bus!MergeRemote, BusInv, BusTypes
  <1>2. Holding(i, seen[i], merged[i], local[i], remote[i])
    BY DEF BusInv
  <1>3. /\ e \in Bus!Event /\ e \in Elements(remote[i])
        /\ far \in Seq(Bus!Event)
        /\ Elements(far) \subseteq Elements(remote[i])
        /\ Sorted(far) /\ Precede({e}, Elements(far))
    <2>1. remote[i] \in Seq(Bus!Event)
      BY BusElements
    <2> QED
      BY <1>1, <1>2, <2>1, TailElements, SortedTail DEF Holding, Ordered
  <1>4. /\ next \in Seq(Bus!Event) /\ Sorted(next) /\ Len(next) <= Capacity
        /\ Elements(next) \subseteq Elements(merged[i]) \union (IF Bus!Skipped(i, e) THEN {} ELSE {e})
    <2>1. CASE Bus!Skipped(i, e)
      BY <1>2, <2>1, BusElements DEF Holding, Ordered
    <2>2. CASE ~Bus!Skipped(i, e)
      <3>1. Precede(Elements(merged[i]), {e})
        BY <1>2, <1>3, <2>2 DEF Holding, Ordered, Precede
      <3> HIDE DEF e
      <3> QED
        BY <1>2, <1>3, <2>2, <3>1, OfferTypes, BusElements DEF Holding, Ordered
    <2> QED
      BY <2>1, <2>2
  <1> HIDE DEF e, next, far
  <1>5. Ordered(seen[i], next, local[i], far)
    <2>1. \A x \in Elements(local[i]) : ~Alike(e, x)
      BY <1>2, <1>3 DEF Holding, Sorts, Alike
    <2> QED
      BY <1>2, <1>3, <1>4, <2>1 DEF Holding, Ordered, Precede
  <1>6. Arrived(seen[i], next, local[i], far) /\ Sorts(i, seen[i], next, local[i], far)
    <2>1. e.via = "redis" /\ (skipOwn /\ ~Bus!Skipped(i, e) => At[e.from] # i)
      BY <1>2, <1>3 DEF Holding, Sorts, Bus!Skipped
    <2> QED
      BY <1>2, <1>3, <1>4, <2>1 DEF Holding, Arrived, Sorts
  <1>8. /\ seen' = [seen EXCEPT ![i] = seen[i]] /\ local' = [local EXCEPT ![i] = local[i]]
        /\ merger' \in [Subscribers -> {"off", "remote", "on", "closed"}]
    BY <1>1 DEF BusInv, BusTypes
  <1> QED
    BY <1>1, <1>3, <1>4, <1>5, <1>6, <1>8, BusElements, SubscriptionMoves DEF Holding

LEMMA StopKeeps ==
  ASSUME Bus!BusAssumption, BusInv, NEW i \in Subscribers, Bus!Stop(i)
  PROVE  BusInv'
  <1>1. Holding(i, seen[i], merged[i], <<>>, <<>>)
    BY EmptyElements DEF BusInv, Holding, Ordered, Sorts, Arrived, Precede
  <1>2. /\ seen' = [seen EXCEPT ![i] = seen[i]] /\ merged' = [merged EXCEPT ![i] = merged[i]]
        /\ merger' \in [Subscribers -> {"off", "remote", "on", "closed"}]
        /\ remote' = [remote EXCEPT ![i] = <<>>] /\ local' = [local EXCEPT ![i] = <<>>]
        /\ UNCHANGED <<skipOwn, published, publishing>>
    BY DEF BusInv, BusTypes, Bus!Stop
  <1>3. <<>> \in Seq(Bus!Event) /\ Len(<<>>) <= Capacity
    BY DEF Bus!BusAssumption
  <1> QED
    BY <1>1, <1>2, <1>3, BusElements, SubscriptionMoves

LEMMA SubscribeKeeps ==
  ASSUME BusInv, NEW i \in Subscribers, Bus!Subscribe(i)
  PROVE  BusInv'
  BY DEF BusInv, BusTypes, Bus!Subscribe, Holding, Ordered, Sorts, Arrived

\* The first half of Publish: the event is newer than any other of its publisher.
LEMMA PublishRemoteKeeps ==
  ASSUME Bus!BusAssumption, BusInv, NEW p \in Publishers, Bus!PublishRemote(p)
  PROVE  BusInv'
  <1> DEFINE e == [from |-> p, n |-> published[p] + 1, via |-> "redis"]
  <1>1. PICK reached \in SUBSET Bus!Subscribed :
          remote' = [j \in Subscribers |-> IF j \in reached THEN Append(remote[j], e) ELSE remote[j]]
    BY DEF Bus!PublishRemote
  <1>2. /\ p \notin publishing /\ published[p] < MaxEvents
        /\ published' = [published EXCEPT ![p] = @ + 1] /\ publishing' = publishing \union {p}
        /\ UNCHANGED <<skipOwn, local, merged, merger, seen>>
    BY DEF Bus!PublishRemote
  <1>3. /\ e \in Bus!Event /\ published[p] \in Nat
        /\ published' \in [Publishers -> 0..MaxEvents] /\ publishing' \subseteq Publishers
        /\ \A q \in Publishers : published'[q] = IF q = p THEN published[p] + 1 ELSE published[q]
        /\ \A q \in publishing' : published'[q] > 0
    BY <1>2 DEF BusInv, BusTypes, Bus!BusAssumption, Bus!Event
  <1>4. ASSUME NEW j \in Subscribers
        PROVE  /\ remote'[j] \in Seq(Bus!Event)
               /\ Elements(remote'[j]) \subseteq Elements(remote[j]) \union {e}
               /\ Sorted(remote'[j])
    <2>1. \A x \in Elements(remote[j]) : x \in Bus!Event /\ x.n <= published[x.from]
      BY BusElements DEF BusInv, Holding, Arrived
    <2>2. Precede(Elements(remote[j]), {e})
      BY <1>3, <2>1 DEF Precede, Alike, Bus!Event
    <2> HIDE DEF e
    <2>3. CASE j \in reached
      <3>1. remote'[j] = Append(remote[j], e)
        BY <1>1, <2>3
      <3>2. remote[j] \in Seq(Bus!Event) /\ Sorted(remote[j])
        BY BusElements DEF BusInv, Holding, Ordered
      <3>3. Sorted(remote'[j])
        BY <1>3, <2>2, <3>1, <3>2, SortedAppend
      <3> QED
        BY <1>3, <3>1, <3>2, <3>3, AppendElements
    <2>4. CASE j \notin reached
      BY <1>1, <2>4, BusElements DEF BusInv, Holding, Ordered
    <2> QED
      BY <2>3, <2>4
  <1>5. remote' \in [Subscribers -> Seq(Bus!Event)]
    BY <1>1, <1>4
  <1>6. BusTypes'
    BY <1>2, <1>3, <1>5 DEF BusInv, BusTypes
  <1>7. ASSUME NEW j \in Subscribers
        PROVE  Holding(j, seen[j], merged[j], local[j], remote[j])'
    <2> DEFINE A == Elements(seen[j])
               B == Elements(merged[j])
               C == Elements(local[j])
               D == Elements(remote[j])
    <2>1. /\ A \subseteq Bus!Event /\ B \subseteq Bus!Event
          /\ C \subseteq Bus!Event /\ D \subseteq Bus!Event
      BY BusElements
    <2>2. Holding(j, seen[j], merged[j], local[j], remote[j])
      BY DEF BusInv
    <2>3. \A x \in Bus!Event : x.from \in Publishers /\ x.n \in Nat
      BY DEF Bus!Event
    <2>4. /\ seen'[j] = seen[j] /\ merged'[j] = merged[j] /\ local'[j] = local[j] /\ skipOwn' = skipOwn
          /\ Elements(remote'[j]) \subseteq D \union {e} /\ Sorted(remote'[j])
      BY <1>2, <1>4
    <2>5. /\ \A x \in A \union B \union C \union D : x.n <= published[x.from]
          /\ \A x \in A \union B \union C : x.via = "local" /\ x.from \in publishing => x.n < published[x.from]
      BY <2>2 DEF Holding, Arrived
    <2> HIDE DEF A, B, C, D
    <2>6. /\ \A x \in A \union B \union C \union D \union {e} : x.n <= published'[x.from]
          /\ \A x \in A \union B \union C : x.from = p => x.n < published'[p]
      <3>1. \A x \in Bus!Event : published[x.from] \in Nat
        BY <2>3 DEF BusInv, BusTypes
      <3> QED
        BY <1>3, <2>1, <2>3, <2>5, <3>1
    <2>7. Precede(A, {e}) /\ Precede(B, {e})
      BY <1>3, <2>1, <2>3, <2>5 DEF Precede, Alike
    <2>8. \A x \in A \union B \union C : x.via = "local" /\ x.from \in publishing' => x.n < published'[x.from]
      BY <1>2, <1>3, <2>1, <2>3, <2>5, <2>6
    <2>9. Arrived(seen[j], merged[j], local[j], remote[j])'
      BY <2>4, <2>6, <2>8 DEF Arrived, A, B, C, D
    <2>10. Ordered(seen[j], merged[j], local[j], remote[j])'
      BY <2>2, <2>4, <2>7 DEF Holding, Ordered, Precede, A, B, C, D
    <2>11. Sorts(j, seen[j], merged[j], local[j], remote[j])'
      BY <2>2, <2>4 DEF Holding, Sorts, A, B, C, D
    <2> QED
      BY <2>9, <2>10, <2>11 DEF Holding
  <1> QED
    BY <1>6, <1>7 DEF BusInv

\* The second half: the local bus gets the latest event of its publisher.
LEMMA PublishLocalKeeps ==
  ASSUME Bus!BusAssumption, BusInv, NEW p \in Publishers, Bus!PublishLocal(p)
  PROVE  BusInv'
  <1> DEFINE i == At[p]
             e == [from |-> p, n |-> published[p], via |-> "local"]
             own == IF i \in Subscribers /\ merger[i] = "on" THEN Bus!Offer(local[i], e) ELSE local[i]
  <1>1. /\ p \in publishing /\ publishing' = publishing \ {p}
        /\ UNCHANGED <<skipOwn, published, remote, merged, merger, seen>>
        /\ local' = IF i \in Subscribers THEN [local EXCEPT ![i] = own] ELSE local
    BY DEF Bus!PublishLocal, BusInv, BusTypes
  <1>2. ASSUME NEW j \in Subscribers, j # i \/ i \notin Subscribers
        PROVE  Holding(j, seen[j], merged[j], local[j], remote[j])'
    <2>1. local'[j] = local[j] /\ seen' = seen /\ merged' = merged /\ remote' = remote
          /\ published' = published /\ publishing' \subseteq publishing /\ skipOwn' = skipOwn
      BY <1>1, <1>2 DEF BusInv, BusTypes
    <2> QED
      BY <2>1 DEF BusInv, Holding, Ordered, Sorts, Arrived
  <1>3. CASE i \notin Subscribers
    BY <1>1, <1>2, <1>3 DEF BusInv, BusTypes
  <1>4. CASE i \in Subscribers
    <2>1. Holding(i, seen[i], merged[i], local[i], remote[i])
      BY <1>4 DEF BusInv
    <2>2. published[p] \in 0..MaxEvents /\ published[p] > 0
      BY <1>1 DEF BusInv, BusTypes
    <2>3. /\ e.from = p /\ e.n = published[p] /\ e.via = "local"
          /\ \A x \in Elements(seen[i]) \union Elements(merged[i]) \union Elements(local[i]) :
               x.via = "local" /\ x.from = p => x.n < e.n
      BY <1>1, <2>1 DEF Holding, Arrived
    <2>4. /\ own \in Seq(Bus!Event) /\ Len(own) <= Capacity /\ Sorted(own)
          /\ Elements(own) \subseteq Elements(local[i]) \union {e}
      <3>1. CASE merger[i] = "on"
        <4>1. Precede(Elements(local[i]), {e})
          BY <2>3 DEF Precede, Alike
        <4>2. e \in Bus!Event
          BY <2>2 DEF Bus!Event, Bus!BusAssumption
        <4> HIDE DEF e, i
        <4> QED
          BY <1>4, <2>1, <3>1, <4>1, <4>2, OfferTypes, BusElements DEF Holding, Ordered
      <3>2. CASE merger[i] # "on"
        BY <1>4, <2>1, <3>2, BusElements DEF Holding, Ordered
      <3> QED
        BY <3>1, <3>2
    <2>12. At[p] = i
      OBVIOUS
    <2> HIDE DEF e, own, i
    <2>5. local' = [local EXCEPT ![i] = own] /\ local'[i] = own
      BY <1>1, <1>4 DEF BusInv, BusTypes
    <2>6. BusTypes'
      BY <1>1, <2>4, <2>5 DEF BusInv, BusTypes
    <2>7. Ordered(seen[i], merged[i], own, remote[i])
      BY <2>1, <2>3, <2>4 DEF Holding, Ordered, Precede, Alike
    <2>8. Sorts(i, seen[i], merged[i], own, remote[i])
      BY <2>1, <2>3, <2>4, <2>12 DEF Holding, Sorts
    <2>9. Arrived(seen[i], merged[i], local[i], remote[i])'
      <3>1. seen'[i] = seen[i] /\ merged'[i] = merged[i] /\ remote'[i] = remote[i] /\ published' = published
        BY <1>1
      <3> QED
        BY <1>1, <2>1, <2>2, <2>3, <2>4, <2>5, <3>1 DEF Holding, Arrived
    <2>10. Holding(i, seen[i], merged[i], local[i], remote[i])'
      <3>1. /\ seen'[i] = seen[i] /\ merged'[i] = merged[i] /\ remote'[i] = remote[i] /\ i' = i
            /\ skipOwn' = skipOwn /\ local'[i] = own
        BY <1>1, <2>5, <2>12
      <3> QED
        BY <2>7, <2>8, <2>9, <3>1 DEF Holding, Ordered, Sorts
    <2> QED
      BY <1>2, <2>6, <2>10 DEF BusInv
  <1> QED
    BY <1>3, <1>4

LEMMA BusNextInv ==
  ASSUME Bus!BusAssumption, BusInv, [Bus!Next]_(Bus!vars)
  PROVE  BusInv'
  <1>1. CASE UNCHANGED Bus!vars
    BY <1>1 DEF Bus!vars, BusInv, BusTypes, Holding, Ordered, Sorts, Arrived
  <1> QED
    BY <1>1, ReadKeeps, MergeLocalKeeps, MergeRemoteKeeps, StopKeeps, SubscribeKeeps,
       PublishRemoteKeeps, PublishLocalKeeps DEF Bus!Next

\* The inductive invariant of the bus.
THEOREM BusInvariance == Bus!Spec => []BusInv
  <1>1. Bus!Init => BusInv
    BY BusInitInv, ConnectionsAssumption
  <1>2. BusInv /\ [Bus!Next]_(Bus!vars) => BusInv'
    BY BusNextInv, ConnectionsAssumption
  <1> QED
    BY <1>1, <1>2, PTL DEF Bus!Spec

\* For any number of instances, of publishers next to each other and of events, any
\* capacity of the channels and either bus: what a subscriber reads of one publisher
\* has no duplicates and is in the order of publication; the events of its own
\* instance come twice on the deploy bus, each way in order.
THEOREM OnceAndInOrderCorrect == Bus!Spec => []OnceAndInOrder
  <1>1. BusInv => OnceAndInOrder
    <2> SUFFICES ASSUME BusInv, NEW i \in Subscribers, NEW a \in 1..Len(seen[i]), NEW b \in 1..Len(seen[i]),
                        a < b, seen[i][a].from = seen[i][b].from,
                        skipOwn \/ At[seen[i][a].from] # i \/ seen[i][a].via = seen[i][b].via
                 PROVE  seen[i][a].n < seen[i][b].n
      BY DEF OnceAndInOrder, Bus!OnceAndInOrder
    <2>1. Holding(i, seen[i], merged[i], local[i], remote[i])
      BY DEF BusInv
    <2>2. /\ seen[i][a] \in Elements(seen[i]) /\ seen[i][b] \in Elements(seen[i])
          /\ seen[i][a] \in Bus!Event /\ seen[i][b] \in Bus!Event
      BY BusElements DEF Elements
    <2>3. seen[i][a].via = seen[i][b].via
      BY <2>1, <2>2 DEF Holding, Sorts, Bus!Event
    <2> QED
      BY <2>1, <2>3 DEF Holding, Ordered, Sorted, Alike
  <1> QED
    BY <1>1, BusInvariance, PTL

-----------------------------------------------------------------------------
(***************************************************************************)
(* The hub of the log viewers.                                             *)
(***************************************************************************)

Viewer ==
  [pc : {"off", "registering", "viewing", "leaving", "gone"}, open : BOOLEAN, with : Tickets \union {None}]

Broadcast == [left : SUBSET Viewers, on : Viewers \union {None}]

\* A ticket that admitted somebody is used up, and a handler that has not begun
\* or has ended has no socket.
HubInv ==
  /\ ticket \in [Tickets -> {"none", "live", "expired", "gone"}]
  /\ hub \in {"running", "closing", "stopped", "closed"}
  /\ clients \subseteq Viewers
  /\ viewer \in [Viewers -> Viewer]
  /\ stream \in [Hub!Writers -> Broadcast]
  /\ alive \in BOOLEAN
  /\ \A c \in Viewers : viewer[c].with # None => ticket[viewer[c].with] = "gone"
  /\ \A c \in Viewers : viewer[c].pc \in {"off", "gone"} => ~viewer[c].open
  /\ Hub!TicketAdmitsOne
  /\ Hub!TableIsTrue

LEMMA HubInitInv ==
  ASSUME Hub!Init
  PROVE  HubInv
  BY DEF HubInv, Viewer, Broadcast, Hub!Init, Hub!Writers, Hub!TicketAdmitsOne, Hub!TableIsTrue

\* A step that only moves writers.
LEMMA StreamsMove ==
  ASSUME HubInv, stream' \in [Hub!Writers -> Broadcast], alive' \in BOOLEAN,
         UNCHANGED <<ticket, hub, clients, viewer>>
  PROVE  HubInv'
  BY DEF HubInv, Hub!TicketAdmitsOne, Hub!TableIsTrue

LEMMA TicketsKeep ==
  ASSUME HubInv, NEW t \in Tickets, Hub!GenerateTicket(t) \/ Hub!Expire(t)
  PROVE  HubInv'
  <1>1. PICK state \in {"live", "expired"} :
          /\ ticket[t] # "gone" /\ ticket' = [ticket EXCEPT ![t] = state]
          /\ UNCHANGED <<hub, clients, viewer, stream, alive>>
    BY DEF Hub!GenerateTicket, Hub!Expire
  <1>2. /\ ticket' \in [Tickets -> {"none", "live", "expired", "gone"}]
        /\ \A s \in Tickets : ticket[s] = "gone" => ticket'[s] = "gone"
    BY <1>1 DEF HubInv
  <1>3. \A c \in Viewers : viewer'[c].with # None => ticket'[viewer'[c].with] = "gone"
    <2>1. \A c \in Viewers : viewer[c].with # None => viewer[c].with \in Tickets
      BY DEF HubInv, Viewer
    <2> QED
      BY <1>1, <1>2, <2>1 DEF HubInv
  <1>4. Hub!TicketAdmitsOne' /\ Hub!TableIsTrue'
    BY <1>1 DEF HubInv, Hub!TicketAdmitsOne, Hub!TableIsTrue
  <1> QED
    BY <1>1, <1>2, <1>3, <1>4 DEF HubInv

LEMMA ConnectKeeps ==
  ASSUME Hub!HubAssumption, HubInv, NEW c \in Viewers, Hub!Connect(c)
  PROVE  HubInv'
  <1>1. PICK t \in Tickets :
          /\ viewer[c].pc = "off" /\ ticket[t] \in {"live", "expired"}
          /\ ticket' = [ticket EXCEPT ![t] = "gone"]
          /\ viewer' = [viewer EXCEPT ![c] =
               IF ticket[t] = "live" THEN [pc |-> "registering", open |-> TRUE, with |-> t]
               ELSE [pc |-> "gone", open |-> FALSE, with |-> None]]
          /\ UNCHANGED <<hub, clients, stream, alive>>
    BY DEF Hub!Connect, Hub!UseUp
  <1>2. /\ viewer' \in [Viewers -> Viewer] /\ ticket' \in [Tickets -> {"none", "live", "expired", "gone"}]
        /\ viewer'[c] = IF ticket[t] = "live" THEN [pc |-> "registering", open |-> TRUE, with |-> t]
                        ELSE [pc |-> "gone", open |-> FALSE, with |-> None]
        /\ \A d \in Viewers : d # c => viewer'[d] = viewer[d]
        /\ ticket'[t] = "gone" /\ \A s \in Tickets : s # t => ticket'[s] = ticket[s]
    BY <1>1 DEF HubInv, Viewer
  <1>3. \A d \in Viewers : viewer'[d].with # None => ticket'[viewer'[d].with] = "gone"
    BY <1>2 DEF HubInv, Viewer
  <1>4. Hub!TicketAdmitsOne'
    BY <1>1, <1>2 DEF HubInv, Hub!TicketAdmitsOne
  <1>5. Hub!TableIsTrue'
    BY <1>1, <1>2 DEF HubInv, Hub!TableIsTrue
  <1>6. \A d \in Viewers : viewer'[d].pc \in {"off", "gone"} => ~viewer'[d].open
    BY <1>2 DEF HubInv
  <1> QED
    BY <1>1, <1>2, <1>3, <1>4, <1>5, <1>6 DEF HubInv

\* The handlers and the Run loop.
LEMMA ViewerKeeps ==
  ASSUME HubInv, NEW c \in Viewers, Hub!Register(c) \/ Hub!ReadFails(c) \/ Hub!Unregister(c)
  PROVE  HubInv'
  <1> DEFINE v == viewer[c]
             Becomes(q) == /\ viewer' = [viewer EXCEPT ![c] = q] /\ q \in Viewer /\ q.with = v.with
                           /\ q.open => v.open
                           /\ q.pc = "gone" => ~q.open
  <1>1. /\ UNCHANGED <<ticket, hub, stream, alive>>
        /\ \E q \in Viewer :
             /\ Becomes(q)
             /\ \/ q.pc = "viewing" /\ v.pc = "registering" /\ clients' = clients \union {c} /\ Hub!Selecting
                \/ q.pc = "leaving" /\ v.pc = "viewing" /\ clients' = clients
                \/ q.pc = "gone" /\ v.pc = "leaving" /\ clients' = clients \ {c}
    <2>1. v \in Viewer
      BY DEF HubInv
    <2>2. CASE Hub!Register(c)
      <3> DEFINE r == [v EXCEPT !.pc = "viewing"]
      <3>1. r \in Viewer /\ r.pc = "viewing" /\ r.open = v.open /\ r.with = v.with
        BY <2>1 DEF Viewer
      <3>2. /\ viewer' = [viewer EXCEPT ![c] = r]
            /\ v.pc = "registering" /\ clients' = clients \union {c} /\ Hub!Selecting /\ UNCHANGED <<ticket, hub, stream, alive>>
        BY <2>2 DEF Hub!Register, Hub!Move
      <3> HIDE DEF r
      <3> QED
        BY <3>1, <3>2
    <2>3. CASE Hub!ReadFails(c)
      <3> DEFINE r == [v EXCEPT !.pc = "leaving"]
      <3>1. r \in Viewer /\ r.pc = "leaving" /\ r.open = v.open /\ r.with = v.with
        BY <2>1 DEF Viewer
      <3>2. /\ viewer' = [viewer EXCEPT ![c] = r]
            /\ v.pc = "viewing" /\ clients' = clients /\ UNCHANGED <<ticket, hub, stream, alive>>
        BY <2>3 DEF Hub!ReadFails, Hub!Move
      <3> HIDE DEF r
      <3> QED
        BY <3>1, <3>2
    <2>4. CASE Hub!Unregister(c)
      <3> DEFINE r == [v EXCEPT !.pc = "gone", !.open = FALSE]
      <3>1. r \in Viewer /\ r.pc = "gone" /\ r.open = FALSE /\ r.with = v.with
        BY <2>1 DEF Viewer
      <3>2. /\ viewer' = [viewer EXCEPT ![c] = r]
            /\ v.pc = "leaving" /\ clients' = clients \ {c} /\ UNCHANGED <<ticket, hub, stream, alive>>
        BY <2>4 DEF Hub!Unregister
      <3> HIDE DEF r
      <3> QED
        BY <3>1, <3>2
    <2> QED
      BY <2>2, <2>3, <2>4
  <1>2. /\ viewer' \in [Viewers -> Viewer] /\ viewer'[c].open \in BOOLEAN
        /\ viewer'[c].open => v.open
        /\ viewer'[c].pc = "gone" => ~viewer'[c].open
        /\ viewer'[c].with = v.with /\ clients' \subseteq Viewers
        /\ \A d \in Viewers : d # c => viewer'[d] = viewer[d]
        /\ \/ viewer'[c].pc = "viewing" /\ v.pc = "registering" /\ clients' = clients \union {c} /\ Hub!Selecting
           \/ viewer'[c].pc = "leaving" /\ v.pc = "viewing" /\ clients' = clients
           \/ viewer'[c].pc = "gone" /\ v.pc = "leaving" /\ clients' = clients \ {c}
    BY <1>1 DEF HubInv, Viewer
  <1>3. Hub!TicketAdmitsOne' /\ \A d \in Viewers : viewer'[d].with # None => ticket'[viewer'[d].with] = "gone"
    BY <1>1, <1>2 DEF HubInv, Hub!TicketAdmitsOne
  <1>4. \A d \in Viewers : viewer'[d].pc \in {"off", "gone"} => ~viewer'[d].open
    BY <1>1, <1>2 DEF HubInv
  <1>5. Hub!TableIsTrue'
    BY <1>1, <1>2 DEF HubInv, Hub!TableIsTrue, Hub!Selecting
  <1> QED
    BY <1>1, <1>2, <1>3, <1>4, <1>5 DEF HubInv

LEMMA CloseKeeps ==
  ASSUME HubInv, Hub!SignalDone \/ Hub!RunReturns \/ Hub!Sweep
  PROVE  HubInv'
  <1>1. CASE Hub!SignalDone \/ Hub!RunReturns
    BY <1>1 DEF HubInv, Hub!SignalDone, Hub!RunReturns, Hub!TicketAdmitsOne, Hub!TableIsTrue
  <1>2. CASE Hub!Sweep
    <2>1. /\ hub = "stopped" /\ hub' = "closed" /\ clients' = {}
          /\ viewer' = [c \in Viewers |-> [viewer[c] EXCEPT !.open = @ /\ c \notin clients]]
          /\ UNCHANGED <<ticket, stream, alive>>
      BY <1>2 DEF Hub!Sweep, Hub!CloseClients
    <2>2. /\ viewer' \in [Viewers -> Viewer]
          /\ \A c \in Viewers : /\ viewer'[c].pc = viewer[c].pc /\ viewer'[c].with = viewer[c].with
                                /\ viewer'[c].open => viewer[c].open /\ c \notin clients
      BY <2>1 DEF HubInv, Viewer
    <2>3. \A c \in Viewers : viewer'[c].open => viewer'[c].pc = "registering"
      BY <2>1, <2>2 DEF HubInv, Hub!TableIsTrue, Viewer
    <2>4. Hub!TableIsTrue'
      BY <2>1, <2>3 DEF Hub!TableIsTrue
    <2>5. Hub!TicketAdmitsOne'
      BY <2>2 DEF HubInv, Hub!TicketAdmitsOne
    <2> QED
      BY <2>1, <2>2, <2>4, <2>5 DEF HubInv
  <1> QED
    BY <1>1, <1>2

LEMMA WritersKeep ==
  ASSUME HubInv,
         \/ \E c \in Viewers : Hub!Poll(c)
         \/ \E w \in Hub!Writers : Hub!StartWrite(w) \/ Hub!EndWrite(w)
         \/ Hub!RelayMessage
  PROVE  HubInv'
  <1>0. /\ stream \in [Hub!Writers -> Broadcast] /\ clients \in SUBSET Viewers /\ alive \in BOOLEAN
        /\ \A app : Hub!Audience(app) \in SUBSET Viewers
    BY DEF HubInv, Hub!Audience
  <1>1. CASE \E c \in Viewers : Hub!Poll(c)
    BY <1>0, <1>1, StreamsMove DEF Hub!Poll, Broadcast, Hub!Writers
  <1>2. CASE \E w \in Hub!Writers : Hub!StartWrite(w)
    <2>1. PICK w \in Hub!Writers : Hub!StartWrite(w)
      BY <1>2
    <2>2. PICK d \in stream[w].left : /\ stream' = [stream EXCEPT ![w] = [left |-> @.left \ {d}, on |-> d]]
                                      /\ alive' \in IF Hub!Busy(d) THEN BOOLEAN ELSE {TRUE}
                                      /\ UNCHANGED <<ticket, hub, clients, viewer>>
      BY <2>1 DEF Hub!StartWrite
    <2>3. stream' \in [Hub!Writers -> Broadcast] /\ alive' \in BOOLEAN
      BY <1>0, <2>2 DEF Broadcast
    <2> QED
      BY <2>2, <2>3, StreamsMove
  <1>3. CASE \E w \in Hub!Writers : Hub!EndWrite(w)
    BY <1>0, <1>3, StreamsMove DEF Hub!EndWrite, Broadcast
  <1>4. CASE Hub!RelayMessage
    BY <1>0, <1>4, StreamsMove DEF Hub!RelayMessage, Broadcast, Hub!Writers
  <1> QED
    BY <1>1, <1>2, <1>3, <1>4

LEMMA HubNextInv ==
  ASSUME Hub!HubAssumption, HubInv, [Hub!Next]_(Hub!vars)
  PROVE  HubInv'
  <1>1. CASE UNCHANGED Hub!vars
    BY <1>1, StreamsMove DEF Hub!vars, HubInv
  <1> QED
    BY <1>1, TicketsKeep, ConnectKeeps, ViewerKeeps, CloseKeeps, WritersKeep DEF Hub!Next

\* The inductive invariant of the hub (ticket.go, log_handler.go, log_hub.go).
THEOREM HubInvariance == Hub!Spec => []HubInv
  <1>1. Hub!Init => HubInv
    BY HubInitInv, ConnectionsAssumption
  <1>2. HubInv /\ [Hub!Next]_(Hub!vars) => HubInv'
    BY HubNextInv, ConnectionsAssumption
  <1> QED
    BY <1>1, <1>2, PTL DEF Hub!Spec

\* For any number of viewers and tickets: a ticket admits one connection, and the
\* table of the hub lists exactly the connections between registration and end.
THEOREM LogViewersHoldCorrect == Hub!Spec => []LogViewersHold
  <1>1. HubInv => LogViewersHold
    BY DEF HubInv, LogViewersHold
  <1> QED
    BY <1>1, HubInvariance, PTL

-----------------------------------------------------------------------------
(***************************************************************************)
(* A view of the web client.                                               *)
(***************************************************************************)

ViewState ==
  [ws : ViewSockets \union {None}, connected : BOOLEAN, reconnecting : BOOLEAN, retryCount : 0..MaxRetries,
   retryTimer : BOOLEAN, manuallyClosed : BOOLEAN]

ViewTypes ==
  /\ view \in ViewState
  /\ fetches \in 0..MaxFetches /\ timers \in 0..MaxTimers
  /\ sock \in [ViewSockets -> {"unused", "connecting", "open"}]
  /\ tries \in Nat

\* As long as the user called next to nothing, the socket of the view is the one
\* that is used, the timer it knows is the one that is set, and a retry was counted
\* before it is tried.
Calm ==
  /\ \A s \in ViewSockets : sock[s] # "unused" <=> view.ws = s
  /\ (IF view.ws = None THEN 0 ELSE 1) + fetches + timers <= IF wanted THEN 1 ELSE 0
  /\ wanted => \/ view.ws # None \/ fetches > 0 \/ timers > 0
               \/ view.retryCount = MaxRetries
  /\ wanted => ~view.manuallyClosed
  /\ timers > 0 => view.retryTimer
  /\ view.connected <=> view.ws # None /\ sock[view.ws] = "open"
  /\ tries + timers <= view.retryCount + 1

ViewInv ==
  /\ ViewTypes
  /\ view.retryTimer => timers > 0
  /\ ~crossed => Calm

LEMMA ViewNumbers ==
  ASSUME View!ViewAssumption, ViewInv
  PROVE  /\ timers \in Nat /\ fetches \in Nat /\ tries \in Nat /\ view.retryCount \in Nat
         /\ view.retryTimer \in BOOLEAN /\ view.connected \in BOOLEAN /\ view.manuallyClosed \in BOOLEAN
         /\ (view.retryTimer => timers > 0) /\ (~crossed => Calm)
  BY DEF ViewInv, ViewTypes, ViewState, View!ViewAssumption

LEMMA ViewInitInv ==
  ASSUME View!ViewAssumption, View!Init
  PROVE  ViewInv
  BY DEF ViewInv, ViewTypes, ViewState, Calm, View!ViewAssumption, View!Init

\* What ScheduleReconnect makes of the variables of a view.
LEMMA ScheduleFields ==
  ASSUME View!ViewAssumption, NEW v \in ViewState, timers \in 0..MaxTimers, timers < MaxTimers,
         View!ScheduleReconnect(v)
  PROVE  /\ view' \in ViewState /\ timers' \in 0..MaxTimers
         /\ view'.ws = v.ws /\ (view'.connected <=> v.connected)
         /\ (view'.manuallyClosed <=> v.manuallyClosed)
         /\ \/ /\ timers' = timers /\ v.retryCount = MaxRetries
               /\ view'.retryCount = v.retryCount /\ (view'.retryTimer <=> v.retryTimer)
            \/ /\ timers' = timers + 1
               /\ view'.retryCount = v.retryCount + 1 /\ view'.retryTimer
  <1>1. CASE v.retryCount >= MaxRetries
    <2> DEFINE r == [v EXCEPT !.reconnecting = FALSE]
    <2>1. view' = r /\ timers' = timers
      BY <1>1 DEF View!ScheduleReconnect
    <2>2. /\ r \in ViewState /\ r.ws = v.ws /\ (r.connected <=> v.connected)
          /\ (r.manuallyClosed <=> v.manuallyClosed) /\ r.retryCount = v.retryCount
          /\ (r.retryTimer <=> v.retryTimer)
      BY DEF ViewState
    <2>3. v.retryCount = MaxRetries
      BY <1>1 DEF ViewState, View!ViewAssumption
    <2> QED
      BY <2>1, <2>2, <2>3
  <1>2. CASE ~(v.retryCount >= MaxRetries)
    <2> DEFINE r == [v EXCEPT !.reconnecting = TRUE, !.retryCount = @ + 1, !.retryTimer = TRUE]
    <2>1. view' = r /\ timers' = timers + 1
      BY <1>2 DEF View!ScheduleReconnect
    <2>2. v.retryCount \in 0..MaxRetries /\ v.retryCount + 1 \in 0..MaxRetries
      BY <1>2 DEF ViewState, View!ViewAssumption
    <2>3. /\ r \in ViewState /\ r.ws = v.ws /\ (r.connected <=> v.connected)
          /\ (r.manuallyClosed <=> v.manuallyClosed) /\ r.retryCount = v.retryCount + 1
          /\ r.retryTimer
      BY <2>2 DEF ViewState
    <2>4. timers + 1 \in 0..MaxTimers
      BY DEF View!ViewAssumption
    <2> QED
      BY <2>1, <2>3, <2>4
  <1> QED
    BY <1>1, <1>2

LEMMA ViewConnectKeeps ==
  ASSUME View!ViewAssumption, ViewInv, View!Connect
  PROVE  ViewInv'
  <1> DEFINE r == [view EXCEPT !.manuallyClosed = FALSE]
  <1>1. /\ r \in ViewState /\ r.ws = view.ws /\ (r.connected <=> view.connected)
        /\ ~r.manuallyClosed /\ r.retryCount = view.retryCount
        /\ (r.retryTimer <=> view.retryTimer)
    BY DEF ViewInv, ViewTypes, ViewState
  <1>2. /\ fetches < MaxFetches /\ wanted' = TRUE /\ UNCHANGED <<timers, sock>>
        /\ IF View!Busy THEN view' = view /\ fetches' = fetches /\ tries' = tries
           ELSE view' = r /\ fetches' = fetches + 1 /\ tries' = 1
    BY DEF View!Connect, View!Connecting
  <1>5. crossed' <=> crossed \/ fetches > 0 \/ timers > 0
    BY DEF View!Connect
  <1> HIDE DEF r
  <1>3. ViewTypes'
    BY <1>1, <1>2 DEF ViewInv, ViewTypes, View!ViewAssumption
  <1>0. view'.retryTimer => timers' > 0
    BY <1>1, <1>2, ViewNumbers
  <1>4. ASSUME ~crossed' PROVE Calm'
    <2>1. Calm /\ fetches = 0 /\ timers = 0
      BY <1>4, <1>5, ViewNumbers
    <2>2. view.ws # None => View!Busy
      BY <2>1 DEF View!Busy, Calm, ViewInv, ViewTypes, ViewState
    <2>3. View!Busy => view.ws # None
      BY DEF View!Busy
    <2>4. view.retryCount \in 0..MaxRetries /\ view.ws \in ViewSockets \union {None}
      BY DEF ViewInv, ViewTypes, ViewState
    <2>5. CASE View!Busy
      BY <1>2, <2>1, <2>3, <2>4, <2>5 DEF Calm, ViewInv, ViewTypes
    <2>6. CASE ~View!Busy
      BY <1>1, <1>2, <2>1, <2>2, <2>4, <2>6 DEF Calm, ViewInv, ViewTypes
    <2> QED
      BY <2>5, <2>6
  <1> QED
    BY <1>3, <1>4, <1>0 DEF ViewInv

LEMMA TimerFiresKeeps ==
  ASSUME View!ViewAssumption, ViewInv, View!TimerFires
  PROVE  ViewInv'
  <1>1. PICK latest \in IF timers = 1 THEN {view.retryTimer} ELSE {view.retryTimer, FALSE} :
          view' = [view EXCEPT !.retryTimer = @ /\ ~latest, !.manuallyClosed = @ /\ View!Busy]
    BY DEF View!TimerFires
  <1> DEFINE r == [view EXCEPT !.retryTimer = @ /\ ~latest, !.manuallyClosed = @ /\ View!Busy]
  <1>2. latest \in BOOLEAN /\ view \in ViewState /\ View!Busy \in BOOLEAN
    BY DEF ViewInv, ViewTypes, ViewState, View!Busy
  <1>3. /\ r \in ViewState /\ r.ws = view.ws /\ (r.connected <=> view.connected)
        /\ r.manuallyClosed => view.manuallyClosed
        /\ r.retryCount = view.retryCount
        /\ r.retryTimer <=> view.retryTimer /\ ~latest
    BY <1>2 DEF ViewState
  <1>4. /\ timers > 0 /\ fetches < MaxFetches /\ timers' = timers - 1
        /\ UNCHANGED <<sock, wanted, crossed>>
        /\ IF View!Busy THEN fetches' = fetches /\ tries' = tries
           ELSE fetches' = fetches + 1 /\ tries' = tries + 1
    BY DEF View!TimerFires, View!Connecting
  <1>5. view' = r
    BY <1>1
  <1> HIDE DEF r
  <1>6. ViewTypes'
    BY <1>3, <1>4, <1>5 DEF ViewInv, ViewTypes, View!ViewAssumption
  <1>7. view'.retryTimer => timers' > 0
    <2>1. CASE timers = 1
      BY <1>1, <1>3, <1>5, <2>1
    <2>2. CASE timers # 1
      BY <1>4, <2>2, ViewNumbers
    <2> QED
      BY <2>1, <2>2
  <1>8. ASSUME ~crossed' PROVE Calm'
    <2>1. Calm
      BY <1>4, <1>8 DEF ViewInv
    <2>2. timers \in Nat /\ fetches \in Nat /\ tries \in Nat /\ view.retryCount \in Nat
      BY DEF ViewInv, ViewTypes, ViewState
    <2>3. timers = 1 /\ fetches = 0 /\ view.ws = None /\ wanted
      BY <1>4, <2>1, <2>2 DEF Calm
    <2>4. ~View!Busy
      BY <2>3 DEF View!Busy
    <2> QED
      BY <1>3, <1>4, <1>5, <2>1, <2>2, <2>3, <2>4 DEF Calm
  <1> QED
    BY <1>6, <1>7, <1>8 DEF ViewInv

LEMMA TicketFailsKeeps ==
  ASSUME View!ViewAssumption, ViewInv, View!TicketFails
  PROVE  ViewInv'
  <1>1. /\ fetches > 0 /\ timers < MaxTimers /\ fetches' = fetches - 1
        /\ UNCHANGED <<sock, wanted, tries, crossed>>
    BY DEF View!TicketFails
  <1>2. /\ view' \in ViewState /\ timers' \in 0..MaxTimers
        /\ view'.ws = view.ws /\ (view'.connected <=> view.connected)
        /\ (view'.manuallyClosed <=> view.manuallyClosed)
        /\ \/ /\ timers' = timers /\ view.retryCount = MaxRetries
              /\ view'.retryCount = view.retryCount /\ (view'.retryTimer <=> view.retryTimer)
           \/ /\ timers' = timers + 1
              /\ view'.retryCount = view.retryCount + 1 /\ view'.retryTimer
    BY <1>1, ScheduleFields DEF View!TicketFails, ViewInv, ViewTypes
  <1>3. ViewTypes'
    BY <1>1, <1>2 DEF ViewInv, ViewTypes, View!ViewAssumption
  <1>0. view'.retryTimer => timers' > 0
    BY <1>1, <1>2, ViewNumbers
  <1>4. ASSUME ~crossed' PROVE Calm'
    <2>1. Calm
      BY <1>1, <1>4 DEF ViewInv
    <2>2. timers \in Nat /\ fetches \in Nat /\ tries \in Nat /\ view.retryCount \in Nat
      BY DEF ViewInv, ViewTypes, ViewState
    <2>3. timers = 0 /\ fetches = 1 /\ view.ws = None /\ wanted
      BY <1>1, <2>1, <2>2 DEF Calm
    <2>4. wanted' /\ fetches' = 0
      BY <1>1, <2>3
    <2>11. \A t \in ViewSockets : sock'[t] # "unused" <=> view'.ws = t
      BY <1>1, <1>2, <2>1, <2>2, <2>3 DEF Calm
    <2>5. view'.ws = None /\ (timers' = 0 \/ timers' = 1)
      BY <1>2, <2>2, <2>3
    <2>12. (IF view'.ws = None THEN 0 ELSE 1) + fetches' + timers' <= IF wanted' THEN 1 ELSE 0
      BY <2>4, <2>5
    <2>13. wanted' => \/ view'.ws # None \/ fetches' > 0 \/ timers' > 0 \/ view'.retryCount = MaxRetries
      BY <1>1, <1>2, <2>1, <2>2, <2>3 DEF Calm
    <2>14. wanted' => ~view'.manuallyClosed
      BY <1>1, <1>2, <2>1, <2>2, <2>3 DEF Calm
    <2>15. timers' > 0 => view'.retryTimer
      BY <1>1, <1>2, <2>1, <2>2, <2>3 DEF Calm
    <2>16. view'.connected <=> view'.ws # None /\ sock'[view'.ws] = "open"
      BY <1>1, <1>2, <2>1, <2>2, <2>3 DEF Calm
    <2>17. tries' + timers' <= view'.retryCount + 1
      BY <1>1, <1>2, <2>1, <2>2, <2>3 DEF Calm
    <2> QED
      BY <2>11, <2>12, <2>13, <2>14, <2>15, <2>16, <2>17 DEF Calm
  <1> QED
    BY <1>3, <1>4, <1>0 DEF ViewInv

LEMMA TicketArrivesKeeps ==
  ASSUME View!ViewAssumption, ViewInv, View!TicketArrives
  PROVE  ViewInv'
  <1>1. PICK s \in ViewSockets :
          /\ sock[s] = "unused" /\ sock' = [sock EXCEPT ![s] = "connecting"]
          /\ view' = [view EXCEPT !.ws = s]
    BY DEF View!TicketArrives
  <1>2. /\ fetches > 0 /\ fetches' = fetches - 1 /\ UNCHANGED <<timers, wanted, tries, crossed>>
    BY DEF View!TicketArrives
  <1>3. /\ view' \in ViewState /\ view'.ws = s /\ (view'.connected <=> view.connected)
        /\ (view'.manuallyClosed <=> view.manuallyClosed) /\ view'.retryCount = view.retryCount
        /\ (view'.retryTimer <=> view.retryTimer)
    BY <1>1 DEF ViewInv, ViewTypes, ViewState
  <1>4. /\ sock' \in [ViewSockets -> {"unused", "connecting", "open"}] /\ sock'[s] = "connecting"
        /\ \A t \in ViewSockets : t # s => sock'[t] = sock[t]
    BY <1>1 DEF ViewInv, ViewTypes
  <1>5. ViewTypes'
    BY <1>2, <1>3, <1>4 DEF ViewInv, ViewTypes, View!ViewAssumption
  <1>0. view'.retryTimer => timers' > 0
    BY <1>2, <1>3, <1>4, ViewNumbers
  <1>6. ASSUME ~crossed' PROVE Calm'
    <2>1. Calm
      BY <1>2, <1>6 DEF ViewInv
    <2>2. timers \in Nat /\ fetches \in Nat /\ tries \in Nat /\ view.retryCount \in Nat
      BY DEF ViewInv, ViewTypes, ViewState
    <2>3. timers = 0 /\ fetches = 1 /\ view.ws = None /\ wanted
      BY <1>2, <2>1, <2>2 DEF Calm
    <2>4. s # None
      BY DEF View!ViewAssumption
    <2>11. \A t \in ViewSockets : sock'[t] # "unused" <=> view'.ws = t
      BY <1>3, <1>4, <2>1, <2>3 DEF Calm, View!ViewAssumption
    <2>12. (IF view'.ws = None THEN 0 ELSE 1) + fetches' + timers' <= IF wanted' THEN 1 ELSE 0
      BY <1>2, <1>3, <1>4, <2>1, <2>2, <2>3, <2>4 DEF Calm
    <2>13. wanted' => \/ view'.ws # None \/ fetches' > 0 \/ timers' > 0 \/ view'.retryCount = MaxRetries
      BY <1>2, <1>3, <1>4, <2>1, <2>2, <2>3, <2>4 DEF Calm
    <2>14. wanted' => ~view'.manuallyClosed
      BY <1>2, <1>3, <1>4, <2>1, <2>2, <2>3, <2>4 DEF Calm
    <2>15. timers' > 0 => view'.retryTimer
      BY <1>2, <1>3, <1>4, <2>1, <2>2, <2>3, <2>4 DEF Calm
    <2>16. view'.connected <=> view'.ws # None /\ sock'[view'.ws] = "open"
      BY <1>2, <1>3, <1>4, <2>1, <2>2, <2>3, <2>4 DEF Calm
    <2>17. tries' + timers' <= view'.retryCount + 1
      BY <1>2, <1>3, <1>4, <2>1, <2>2, <2>3, <2>4 DEF Calm
    <2> QED
      BY <2>11, <2>12, <2>13, <2>14, <2>15, <2>16, <2>17 DEF Calm
  <1> QED
    BY <1>5, <1>6, <1>0 DEF ViewInv

LEMMA OpensKeeps ==
  ASSUME View!ViewAssumption, ViewInv, NEW s \in ViewSockets, View!Opens(s)
  PROVE  ViewInv'
  <1> DEFINE r == [view EXCEPT !.connected = TRUE, !.reconnecting = FALSE, !.retryCount = 0]
  <1>1. /\ sock[s] = "connecting" /\ sock' = [sock EXCEPT ![s] = "open"] /\ view' = r /\ tries' = 0
        /\ UNCHANGED <<fetches, timers, wanted, crossed>>
    BY DEF View!Opens
  <1>2. /\ r \in ViewState /\ r.ws = view.ws /\ r.connected
        /\ (r.manuallyClosed <=> view.manuallyClosed) /\ r.retryCount = 0
        /\ (r.retryTimer <=> view.retryTimer)
    <2>1. view \in ViewState /\ 0 \in 0..MaxRetries
      BY DEF ViewInv, ViewTypes, View!ViewAssumption
    <2> QED
      BY <2>1 DEF ViewState
  <1> HIDE DEF r
  <1>3. /\ sock' \in [ViewSockets -> {"unused", "connecting", "open"}] /\ sock'[s] = "open"
        /\ \A t \in ViewSockets : t # s => sock'[t] = sock[t]
    BY <1>1 DEF ViewInv, ViewTypes
  <1>4. ViewTypes'
    BY <1>1, <1>2, <1>3 DEF ViewInv, ViewTypes, View!ViewAssumption
  <1>0. view'.retryTimer => timers' > 0
    BY <1>1, <1>2, <1>3, ViewNumbers
  <1>5. ASSUME ~crossed' PROVE Calm'
    <2>1. Calm /\ view.ws = s /\ s # None
      BY <1>1, <1>5 DEF ViewInv, Calm, View!ViewAssumption
    <2>2. timers \in Nat /\ fetches \in Nat
      BY DEF ViewInv, ViewTypes
    <2>3. timers = 0 /\ fetches = 0 /\ wanted
      BY <2>1, <2>2 DEF Calm
    <2> QED
      BY <1>1, <1>2, <1>3, <2>1, <2>3 DEF Calm
  <1> QED
    BY <1>4, <1>5, <1>0 DEF ViewInv

LEMMA ClosesKeeps ==
  ASSUME View!ViewAssumption, ViewInv, NEW s \in ViewSockets, View!Closes(s)
  PROVE  ViewInv'
  <1> DEFINE v == [view EXCEPT !.connected = FALSE, !.ws = IF @ = s THEN None ELSE @]
  <1>1. /\ sock[s] # "unused" /\ timers < MaxTimers /\ sock' = [sock EXCEPT ![s] = "unused"]
        /\ UNCHANGED <<fetches, wanted, tries, crossed>>
        /\ IF view.manuallyClosed THEN view' = v /\ timers' = timers ELSE View!ScheduleReconnect(v)
    BY DEF View!Closes
  <1>2. /\ v \in ViewState /\ v.ws = (IF view.ws = s THEN None ELSE view.ws) /\ ~v.connected
        /\ (v.manuallyClosed <=> view.manuallyClosed) /\ v.retryCount = view.retryCount
        /\ (v.retryTimer <=> view.retryTimer)
    BY DEF ViewInv, ViewTypes, ViewState
  <1> HIDE DEF v
  <1>3. /\ sock' \in [ViewSockets -> {"unused", "connecting", "open"}] /\ sock'[s] = "unused"
        /\ \A t \in ViewSockets : t # s => sock'[t] = sock[t]
    BY <1>1 DEF ViewInv, ViewTypes
  <1>4. timers \in 0..MaxTimers
    BY DEF ViewInv, ViewTypes
  <1>5. /\ view' \in ViewState /\ timers' \in 0..MaxTimers
        /\ view'.ws = v.ws /\ (view'.connected <=> v.connected)
        /\ (view'.manuallyClosed <=> v.manuallyClosed)
        /\ \/ /\ timers' = timers /\ (view.manuallyClosed \/ v.retryCount = MaxRetries)
              /\ view'.retryCount = v.retryCount /\ (view'.retryTimer <=> v.retryTimer)
           \/ /\ timers' = timers + 1
              /\ view'.retryCount = v.retryCount + 1 /\ view'.retryTimer
    <2>1. CASE view.manuallyClosed
      BY <1>1, <1>2, <1>4, <2>1
    <2>2. CASE ~view.manuallyClosed
      BY <1>1, <1>2, <1>4, <2>2, ScheduleFields
    <2> QED
      BY <2>1, <2>2
  <1>6. ViewTypes'
    BY <1>1, <1>2, <1>3, <1>4, <1>5 DEF ViewInv, ViewTypes, View!ViewAssumption
  <1>0. view'.retryTimer => timers' > 0
    BY <1>1, <1>2, <1>3, <1>4, <1>5, ViewNumbers
  <1>7. ASSUME ~crossed' PROVE Calm'
    <2>1. Calm /\ view.ws = s /\ s # None
      BY <1>1, <1>7 DEF ViewInv, Calm, View!ViewAssumption
    <2>2. timers \in Nat /\ fetches \in Nat /\ tries \in Nat /\ view.retryCount \in Nat
      BY DEF ViewInv, ViewTypes, ViewState
    <2>3. timers = 0 /\ fetches = 0 /\ wanted /\ ~view.manuallyClosed
      BY <2>1, <2>2 DEF Calm
    <2>4. wanted' /\ fetches' = 0
      BY <1>1, <2>3
    <2>11. \A t \in ViewSockets : sock'[t] # "unused" <=> view'.ws = t
      BY <1>2, <1>3, <1>5, <2>1 DEF Calm, View!ViewAssumption
    <2>5. view'.ws = None /\ (timers' = 0 \/ timers' = 1)
      BY <1>2, <1>5, <2>1, <2>2, <2>3
    <2>12. (IF view'.ws = None THEN 0 ELSE 1) + fetches' + timers' <= IF wanted' THEN 1 ELSE 0
      BY <2>4, <2>5
    <2>13. wanted' => \/ view'.ws # None \/ fetches' > 0 \/ timers' > 0 \/ view'.retryCount = MaxRetries
      BY <1>1, <1>2, <1>3, <1>5, <2>1, <2>2, <2>3 DEF Calm
    <2>14. wanted' => ~view'.manuallyClosed
      BY <1>1, <1>2, <1>3, <1>5, <2>1, <2>2, <2>3 DEF Calm
    <2>15. timers' > 0 => view'.retryTimer
      BY <1>1, <1>2, <1>3, <1>5, <2>1, <2>2, <2>3 DEF Calm
    <2>16. view'.connected <=> view'.ws # None /\ sock'[view'.ws] = "open"
      BY <1>1, <1>2, <1>3, <1>5, <2>1, <2>2, <2>3 DEF Calm
    <2>17. tries' + timers' <= view'.retryCount + 1
      BY <1>1, <1>2, <1>3, <1>5, <2>1, <2>2, <2>3 DEF Calm
    <2> QED
      BY <2>11, <2>12, <2>13, <2>14, <2>15, <2>16, <2>17 DEF Calm
  <1> QED
    BY <1>6, <1>7, <1>0 DEF ViewInv

LEMMA DisconnectKeeps ==
  ASSUME View!ViewAssumption, ViewInv, View!Disconnect
  PROVE  ViewInv'
  <1>1. /\ view' = [ws |-> None, connected |-> FALSE, reconnecting |-> FALSE, retryCount |-> 0,
                    retryTimer |-> FALSE, manuallyClosed |-> TRUE]
        /\ timers' = (IF view.retryTimer THEN timers - 1 ELSE timers)
        /\ sock' = [s \in ViewSockets |-> IF s = view.ws THEN "unused" ELSE sock[s]]
        /\ wanted' = FALSE /\ tries' = 0 /\ (crossed' <=> crossed \/ fetches > 0) /\ fetches' = fetches
    BY DEF View!Disconnect, View!ClearTimer
  <1>2. ViewTypes'
    BY <1>1 DEF ViewInv, ViewTypes, View!ViewAssumption, ViewState
  <1>0. view'.retryTimer => timers' > 0
    BY <1>1, ViewNumbers
  <1>3. ASSUME ~crossed' PROVE Calm'
    <2>1. Calm /\ fetches = 0
      BY <1>1, <1>3, ViewNumbers
    <2>2. view.ws \in ViewSockets \/ view.ws = None
      BY DEF ViewInv, ViewTypes, ViewState
    <2>3. timers' = 0
      BY <1>1, <2>1, ViewNumbers DEF Calm
    <2>4. \A s \in ViewSockets : sock'[s] = "unused" /\ s # None
      BY <1>1, <2>1 DEF Calm, View!ViewAssumption
    <2> QED
      BY <1>1, <2>1, <2>3, <2>4 DEF Calm
  <1> QED
    BY <1>2, <1>3, <1>0 DEF ViewInv

LEMMA ViewNextInv ==
  ASSUME View!ViewAssumption, ViewInv, [View!Next]_(View!vars)
  PROVE  ViewInv'
  <1>1. CASE UNCHANGED View!vars
    BY <1>1 DEF View!vars, ViewInv, ViewTypes, Calm
  <1> QED
    BY <1>1, ViewConnectKeeps, TimerFiresKeeps, TicketFailsKeeps, TicketArrivesKeeps, OpensKeeps,
       ClosesKeeps, DisconnectKeeps DEF View!Next

\* The inductive invariant of a view (useWebSocket.ts).
THEOREM ViewInvariance == View!Spec => []ViewInv
  <1>1. View!Init => ViewInv
    BY ViewInitInv, ConnectionsAssumption
  <1>2. ViewInv /\ [View!Next]_(View!vars) => ViewInv'
    BY ViewNextInv, ConnectionsAssumption
  <1> QED
    BY <1>1, <1>2, PTL DEF View!Spec

\* The two names that FiniteSets has here are of one operator.
LEMMA ViewCardinality ==
  ASSUME NEW S
  PROVE  View!Cardinality(S) = Cardinality(S)
  BY DEF View!Cardinality, Cardinality

\* For any number of retries: a view has at most one socket, fetch or timer while
\* it is wanted and none when it is not, and tries no more often than it may,
\* unless the user called next to one of them.
THEOREM ViewHoldsCorrect == View!Spec => []ViewHolds
  <1>1. ViewInv => ViewHolds
    <2> SUFFICES ASSUME ViewInv, ~crossed PROVE ViewHolds
      BY DEF ViewHolds, View!ViewHolds
    <2>1. Calm /\ ViewTypes
      BY DEF ViewInv
    <2>2. view.ws \in ViewSockets \union {None} /\ view.retryCount \in 0..MaxRetries /\ tries \in Nat
          /\ timers \in Nat
      BY <2>1 DEF ViewTypes, ViewState
    <2>3. View!Live = IF view.ws = None THEN {} ELSE {view.ws}
      BY <2>1, <2>2, ConnectionsAssumption DEF View!Live, Calm, View!ViewAssumption
    <2>4. Cardinality(View!Live) = IF view.ws = None THEN 0 ELSE 1
      BY <2>3, FS_EmptySet, FS_Singleton
    <2>5. tries <= MaxRetries + 1
      BY <2>1, <2>2, ConnectionsAssumption DEF Calm, View!ViewAssumption
    <2>6. View!Cardinality(View!Live) + fetches + timers <= IF wanted THEN 1 ELSE 0
      BY <2>1, <2>4, ViewCardinality DEF Calm
    <2>7. wanted => View!Live # {} \/ fetches > 0 \/ timers > 0 \/ view.retryCount = MaxRetries
      BY <2>1, <2>3 DEF Calm
    <2>8. view.connected <=> view.ws # None /\ sock[view.ws] = "open"
      BY <2>1 DEF Calm
    <2> QED
      BY <2>5, <2>6, <2>7, <2>8 DEF ViewHolds, View!ViewHolds
  <1> QED
    BY <1>1, ViewInvariance, PTL

-----------------------------------------------------------------------------
(***************************************************************************)
(* Types.                                                                  *)
(***************************************************************************)

\* The variables of the four keep their types, and the channels of the bus their
\* capacity.
THEOREM TypesCorrect == Tunnel!Spec /\ Bus!Spec /\ Hub!Spec /\ View!Spec => []TypeOK
  <1>1. TunnelInv => Tunnel!TypeOK
    BY TunnelTypes DEF TunnelInv
  <1>2. BusInv => Bus!TypeOK
    BY DEF BusInv, BusTypes, Bus!TypeOK
  <1>3. HubInv => Hub!TypeOK
    BY DEF HubInv, Viewer, Broadcast, Hub!TypeOK
  <1>4. ViewInv => View!TypeOK
    BY DEF ViewInv, ViewTypes, ViewState, View!TypeOK
  <1>5. TunnelInv /\ BusInv /\ HubInv /\ ViewInv => TypeOK
    BY <1>1, <1>2, <1>3, <1>4 DEF TypeOK
  <1> QED
    BY <1>5, TunnelInvariance, BusInvariance, HubInvariance, ViewInvariance, PTL
=============================================================================
