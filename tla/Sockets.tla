------------------------------ MODULE Sockets ------------------------------
(***************************************************************************)
(* Stream connections as the echo and chat servers see them: an external   *)
(* part, the kernel's TCP and clients that may write, leave or be killed   *)
(* at any time.  Data is counted in units; a client's n-th unit is <<c,n>>.*)
(*                                                                         *)
(* What a server can observe of a client that is gone:                     *)
(*   "left"    it closed: the data, then the end of the stream; the first  *)
(*             thing sent to it is lost and makes the connection "broken"; *)
(*   "reset"   it closed with data unread: the data, then one error;       *)
(*   "broken"  the data, then the end; to send is EPIPE, or lost while the *)
(*             peer's reset is still on its way.                           *)
(***************************************************************************)
EXTENDS Integers, Sequences, FiniteSets

CONSTANTS
  Conns,       \* connections, each made once
  MaxSent,     \* bound: units that a client writes
  BufferSize   \* units that one read can take

ASSUME SocketsAssumption == MaxSent \in Nat /\ BufferSize \in Nat \ {0}

VARIABLES
  client,   \* "off", "open", "left", "reset" or "broken"
  sent,     \* units the client has written
  inbox,    \* those that the server has not read
  got,      \* units the client has been sent
  backlog,  \* connections to be accepted
  held,     \* connections whose descriptor a server process has open
  news      \* connections with an event that epoll has not reported yet

socketVars == <<client, sent, inbox, got, backlog, held, news>>

SocketsInit ==
  /\ client = [c \in Conns |-> "off"]
  /\ sent = [c \in Conns |-> 0]
  /\ inbox = [c \in Conns |-> << >>]
  /\ got = [c \in Conns |-> << >>]
  /\ backlog = << >>
  /\ held = {}
  /\ news = {}

Connect(c) ==
  /\ client[c] = "off"
  /\ client' = [client EXCEPT ![c] = "open"]
  /\ backlog' = Append(backlog, c)
  /\ UNCHANGED <<sent, inbox, got, held, news>>

Queued(c) == \E i \in DOMAIN backlog : backlog[i] = c

Write(c) ==
  /\ client[c] = "open" /\ (Queued(c) \/ c \in held)
  /\ sent[c] < MaxSent
  /\ sent' = [sent EXCEPT ![c] = @ + 1]
  /\ inbox' = [inbox EXCEPT ![c] = Append(@, <<c, sent'[c]>>)]
  /\ news' = news \cup {c}
  /\ UNCHANGED <<client, got, backlog, held>>

(* Only what the client has been sent can be left unread.                  *)
Leave(c) ==
  /\ client[c] = "open"
  /\ \E how \in {"left"} \cup (IF got[c] = << >> THEN {} ELSE {"reset"}) :
       client' = [client EXCEPT ![c] = how]
  /\ news' = news \cup {c}
  /\ UNCHANGED <<sent, inbox, got, backlog, held>>

-----------------------------------------------------------------------------
(* What a server that holds c can do.                                      *)

HasData(c) == inbox[c] # << >>
AtEnd(c)   == inbox[c] = << >> /\ client[c] \in {"left", "broken"}
HasError(c) == inbox[c] = << >> /\ client[c] = "reset"
Readable(c) == HasData(c) \/ AtEnd(c) \/ HasError(c)

Taken(c) == IF Len(inbox[c]) < BufferSize THEN Len(inbox[c]) ELSE BufferSize
Chunk(c) == SubSeq(inbox[c], 1, Taken(c))

Read(c) == inbox' = [inbox EXCEPT ![c] = SubSeq(@, Taken(c) + 1, Len(@))]

Send(c, data) ==
  /\ client' = [client EXCEPT ![c] = IF @ = "open" THEN @ ELSE "broken"]
  /\ got' = [got EXCEPT ![c] = IF client[c] = "open" THEN @ \o data ELSE @]
  /\ news' = IF client[c] \in {"left", "broken"} THEN news \cup {c} ELSE news

AcceptNext == backlog' = Tail(backlog) /\ UNCHANGED <<sent, inbox, got, client>>
=============================================================================
