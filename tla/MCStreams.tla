----------------------------- MODULE MCStreams -----------------------------
(***************************************************************************)
(* The stream servers, one design at a time, on one model of connections.  *)
(***************************************************************************)
EXTENDS EchoServers, ChatServer

CONSTANTS
  EchoConns,   \* bound: the connections the echo servers are run with
  Speakers,    \* bound: those that say something in the chat
  MaxSaid      \* bound: how often each of them does

ASSUME BoundsAssumption ==
  EchoConns \subseteq Conns /\ Speakers \subseteq Conns /\ MaxSaid \in Nat

vars == <<socketVars, chosen, echoVars, chatVars>>

Init ==
  /\ SocketsInit /\ EchoInit /\ ChatInit
  /\ \/ design \in Designs /\ lang \in {"c", "py"}
     \/ design = "chat" /\ lang = "py"

ClientStep ==
  /\ \E c \in IF design = "chat" THEN Conns ELSE EchoConns :
       \/ life = "up" /\ Connect(c)
       \/ (design = "chat" => c \in Speakers /\ sent[c] < MaxSaid) /\ Write(c)
       \/ Leave(c)
  /\ UNCHANGED <<chosen, echoVars, chatVars>>

ServerStep ==
  \/ EchoStep /\ UNCHANGED <<chosen, chatVars>>
  \/ design = "chat" /\ ChatStep /\ UNCHANGED <<chosen, echoVars>>

Next == ClientStep \/ ServerStep

(* Connections are made once and say boundedly much, so that to be fair to *)
(* all processes and threads together is to be fair to each.               *)
FairSpec == Init /\ [][Next]_vars /\ WF_vars(ServerStep)
=============================================================================
