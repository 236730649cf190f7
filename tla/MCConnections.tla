--------------------------- MODULE MCConnections ---------------------------
(***************************************************************************)
(* An instance of Connections for TLC.  Its parts share no state, so a     *)
(* behaviour moves one of them, chosen at its start: what each does is all *)
(* that it would do next to the others.                                    *)
(***************************************************************************)
EXTENDS Connections, Naturals

CONSTANTS a2, k2,  \* an agent's second connection, a second command
          p1, p3, i1, i2,  \* a publisher of each instance, the instances
          v3   \* a third viewer

VARIABLE part

allVars == <<part, tunnelVars, busVars, hubVars, viewVars>>

\* One agent; two publishers in one instance and one in the other; two viewers of
\* one application and one of another.
OneServer == [c \in Conns |-> CHOOSE s \in Servers : TRUE]
TwoInstances == [p \in Publishers |-> IF p = p3 THEN i2 ELSE i1]
TwoApps == [c \in Viewers |-> IF c = v3 THEN "b" ELSE "a"]

\* The tunnel with one command and an agent that reconnects, and with two commands
\* on one connection.
TunnelParts == {"reconnect", "commands"}
Parts == TunnelParts \union {"bus", "hub", "view"}

Init ==
  /\ part \in Parts
  /\ Tunnel!Init /\ Bus!Init /\ Hub!Init /\ View!Init

TunnelMoves ==
  /\ part \in TunnelParts /\ UNCHANGED <<part, busVars, hubVars, viewVars>>
  /\ part = "reconnect" => call'[k2] = call[k2]
  /\ part = "commands" => conn'[a2] = conn[a2]
\* Bound: one publisher publishes twice.
BusMoves ==
  /\ part = "bus" /\ UNCHANGED <<part, tunnelVars, hubVars, viewVars>>
  /\ \A p \in Publishers \ {p1} : published'[p] <= 1
HubMoves == part = "hub" /\ UNCHANGED <<part, tunnelVars, busVars, viewVars>>
ViewMoves == part = "view" /\ UNCHANGED <<part, tunnelVars, busVars, hubVars>>

Next ==
  \/ Tunnel!Next /\ TunnelMoves
  \/ Bus!Next /\ BusMoves
  \/ Hub!Next /\ HubMoves
  \/ View!Next /\ ViewMoves

\* The goroutine of a command runs, as far as locks and the socket let it; a peer
\* that reads again and again takes what is written to it.  Nothing makes a peer
\* read, or the kernel give up on one that does not.
TunnelRuns ==
  /\ \A k \in Calls :
       /\ WF_allVars(Tunnel!AddChannel(k) /\ TunnelMoves)
       /\ WF_allVars(Tunnel!Lock(k) /\ TunnelMoves)
       /\ WF_allVars(Tunnel!StartWrite(k) /\ TunnelMoves)
       /\ SF_allVars(Tunnel!EndWrite(k) /\ TunnelMoves)
       /\ WF_allVars(Tunnel!Await(k) /\ TunnelMoves)
       /\ WF_allVars(Tunnel!RemoveChannel(k) /\ TunnelMoves)
  /\ \A c \in Conns : SF_allVars(Tunnel!EndAcknowledge(c) /\ TunnelMoves)

Spec == Init /\ [][Next]_allVars /\ TunnelRuns
=============================================================================
