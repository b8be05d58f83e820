----------------------------- MODULE ChatServer -----------------------------
(***************************************************************************)
(* web-socket-py/chat-server.py: a thread per client, and one list of the  *)
(* clients that every thread iterates over, appends to and removes from.   *)
(*                                                                         *)
(* Abstractions.  What happens between two steps of an iteration, or two   *)
(* operations on the list, is one step.  Threads can be started.           *)
(***************************************************************************)
EXTENDS Sockets

VARIABLES
  clients,   \* clients
  thread,    \* "none", "append", "recv", "cast", "remove", "close" or "gone"
  cursor,    \* the index the iteration of broadcast has come to
  due,       \* history: those in the list since the broadcast began
  told,      \* history: those the broadcast has sent to
  losses     \* history: removals since it began

castVars == <<cursor, due, told, losses>>
chatVars == <<clients, thread, castVars>>

ChatInit ==
  /\ clients = << >>
  /\ thread = [c \in Conns |-> "none"]
  /\ cursor = [c \in Conns |-> 0]
  /\ due = [c \in Conns |-> {}]
  /\ told = [c \in Conns |-> << >>]
  /\ losses = [c \in Conns |-> 0]

InList == {clients[i] : i \in DOMAIN clients}

ChatAccept ==
  /\ backlog # << >>
  /\ held' = held \cup {Head(backlog)}
  /\ thread' = [thread EXCEPT ![Head(backlog)] = "append"]
  /\ AcceptNext
  /\ UNCHANGED <<news, clients, castVars>>

(* Mutant of Joined: new clients are put in front.                         *)
JoinedInFront(c) == <<c>> \o clients

Joined(c) == Append(clients, c)

Join(c) ==
  /\ thread[c] = "append"
  /\ clients' = Joined(c)
  /\ thread' = [thread EXCEPT ![c] = "recv"]
  /\ UNCHANGED <<socketVars, castVars>>

(* A message is received and its broadcast begins.                         *)
Recv(c) ==
  /\ thread[c] = "recv"
  /\ HasData(c)
  /\ Read(c)
  /\ thread' = [thread EXCEPT ![c] = "cast"]
  /\ cursor' = [cursor EXCEPT ![c] = 1]
  /\ due' = [due EXCEPT ![c] = InList \ {c}]
  /\ UNCHANGED <<client, sent, got, backlog, held, news, clients, told, losses>>

(* Mutant of RecvEnds: recv is not expected to raise.                      *)
RecvEndsAtEnd(c) ==
  /\ thread[c] = "recv"
  /\ AtEnd(c)
  /\ thread' = [thread EXCEPT ![c] = "remove"]
  /\ UNCHANGED <<socketVars, clients, castVars>>

(* The end of the stream, an error, or bytes that are not UTF-8, as when   *)
(* recv cuts a character in two.                                           *)
RecvEnds(c) ==
  /\ thread[c] = "recv"
  /\ Readable(c)
  /\ IF HasData(c) THEN Read(c) ELSE UNCHANGED inbox
  /\ thread' = [thread EXCEPT ![c] = "remove"]
  /\ UNCHANGED <<client, sent, got, backlog, held, news, clients, castVars>>

(* The next client of the list; a send that fails is caught, on a closed   *)
(* descriptor as well.                                                     *)
Cast(c) ==
  /\ thread[c] = "cast"
  /\ cursor[c] <= Len(clients)
  /\ LET d == clients[cursor[c]]
     IN  IF d = c
         THEN UNCHANGED <<client, got, news, told>>
         ELSE /\ told' = [told EXCEPT ![c] = Append(@, d)]
              /\ Send(d, <<<<c, sent[c] - Len(inbox[c])>>>>)
  /\ cursor' = [cursor EXCEPT ![c] = @ + 1]
  /\ UNCHANGED <<sent, inbox, backlog, held, clients, thread, due, losses>>

CastEnds(c) ==
  /\ thread[c] = "cast"
  /\ cursor[c] > Len(clients)
  /\ thread' = [thread EXCEPT ![c] = "recv"]
  /\ cursor' = [cursor EXCEPT ![c] = 0]
  /\ due' = [due EXCEPT ![c] = {}]
  /\ told' = [told EXCEPT ![c] = << >>]
  /\ losses' = [losses EXCEPT ![c] = 0]
  /\ UNCHANGED <<socketVars, clients>>

Removed(c) ==
  LET i == CHOOSE k \in DOMAIN clients : clients[k] = c
  IN  SubSeq(clients, 1, i - 1) \o SubSeq(clients, i + 1, Len(clients))

Remove(c) ==
  /\ thread[c] = "remove"
  /\ clients' = Removed(c)
  /\ thread' = [thread EXCEPT ![c] = "close"]
  /\ due' = [d \in Conns |-> due[d] \ {c}]
  /\ losses' = [d \in Conns |-> IF thread[d] = "cast" THEN losses[d] + 1 ELSE losses[d]]
  /\ UNCHANGED <<socketVars, cursor, told>>

CloseAfter(c) ==
  /\ thread[c] = "close"
  /\ held' = held \ {c}
  /\ thread' = [thread EXCEPT ![c] = "gone"]
  /\ UNCHANGED <<client, sent, inbox, got, backlog, news, clients, castVars>>

ChatStep ==
  \/ ChatAccept
  \/ \E c \in Conns : \/ Join(c) \/ Recv(c) \/ RecvEnds(c) \/ Cast(c)
                      \/ CastEnds(c) \/ Remove(c) \/ CloseAfter(c)

-----------------------------------------------------------------------------
(* Properties.                                                             *)

(* A broadcast sends to nobody twice, and when it has come to the end of   *)
(* the list it has left out at most as many of those who were there all    *)
(* the time as have been removed while it ran: none, if nobody left.       *)
BroadcastReaches ==
  \A c \in Conns : thread[c] = "cast" =>
     /\ \A i, j \in DOMAIN told[c] : told[c][i] = told[c][j] => i = j
     /\ cursor[c] > Len(clients) =>
          Cardinality({d \in due[c] : \A i \in DOMAIN told[c] : told[c][i] # d}) <= losses[c]

(* In the end nobody who has gone is in the list or keeps its descriptor,  *)
(* although others iterate over the list or are removed at the same time;  *)
(* and nobody who stays waits for a broadcast to end.                      *)
LeaversLeaveTheList ==
  <>[](/\ \A c \in held \cup InList : client[c] = "open" \/ thread[c] = "none"
       /\ \A c \in Conns : thread[c] \in {"none", "recv", "gone"})
=============================================================================
