----------------------------- MODULE SelectCalc -----------------------------
(***************************************************************************)
(* The calculator of socket-hw/HW7: one process that waits with select for *)
(* its listening socket and for all its clients, with its two ends of the  *)
(* connections: cal-server.c and any number of cal-client.c.               *)
(*                                                                         *)
(* One record, server_cal_data, serves every request of every client.  Its *)
(* result is turned into network order in place, and a request that fails  *)
(* leaves it as it is: the swapped number is then taken for the result.    *)
(*                                                                         *)
(* Abstractions.  A connection keeps its name until both ends are closed;  *)
(* it may then be made again.  A request is read and its answer written by *)
(* one step: its client does nothing in between but wait or end.  Requests *)
(* and answers arrive whole.  Operands, operator and description stay      *)
(* together and are echoed as one thing, the request.  The time, the       *)
(* address and the error code, which the client does not look at, are left *)
(* out, and accept does not fail.                                          *)
(***************************************************************************)
EXTENDS Integers, Sequences, FiniteSets

CONSTANTS
  Conns,      \* connections
  Results,    \* what +, -, x and / yield
  Ops         \* the kinds of requests that clients make

Int32 == {n \in Int : -2147483647 - 1 <= n /\ n <= 2147483647}

ASSUME ConstantsAssumption ==
  /\ IsFiniteSet(Conns)
  /\ Results \subseteq Int32
  /\ Ops \subseteq {"calc", "error", "trap", "quit"}

(* "error" is an unknown operator or a division by zero, "trap" is         *)
(* INT_MIN / -1, "quit" is 0 0 $ quit.                                     *)
Requests == [op : Ops \cap {"calc"}, value : Results]
              \cup [op : Ops \ {"calc"}, value : {0}]

Nothing == [op |-> "none", value |-> 0]

(* htonl and ntohl on a 32-bit int of a little-endian machine.             *)
Net(n) ==
  LET Byte(place) == (n \div place) % 256
      top == IF Byte(1) < 128 THEN Byte(1) ELSE Byte(1) - 256
  IN  top * 16777216 + Byte(256) * 65536 + Byte(65536) * 256 + Byte(16777216)

(* The numbers that can be in result.                                      *)
Outcomes == Results \cup {Net(r) : r \in Results}

Listen == 3
Fds == Listen + 1 .. Listen + Cardinality(Conns)
NoFd == -1

VARIABLES
  life,        \* "up", or "sigfpe"
  client,      \* where a client is
  asked,       \* the request it made last
  inbox,       \* what the server can read from a connection
  answer,      \* what the client can read, as sent
  backlog,     \* connections to be accepted
  fd,          \* the server's descriptor of a connection
  readfds, maxfd,
  allfds,      \* what select reported and the loop has still to look at
  fdNum,       \* fd_num
  pc,          \* "select", or "loop"
  result,      \* server_cal_data.result
  globalMin, globalMax

clientVars == <<client, asked>>
fdVars     == <<fd, readfds, maxfd>>
loopVars   == <<allfds, fdNum, pc>>
calcVars   == <<result, globalMin, globalMax>>
vars == <<life, clientVars, inbox, answer, backlog, fdVars, loopVars, calcVars>>

Answers == [to : Requests, result : Int, min : Int, max : Int]
NoAnswer == [to |-> Nothing, result |-> 0, min |-> 0, max |-> 0]

(* Local variables start with whatever was on the stack.                   *)
Init ==
  /\ life = "up"
  /\ client = [c \in Conns |-> "off"]
  /\ asked = [c \in Conns |-> Nothing]
  /\ inbox = [c \in Conns |-> Nothing]
  /\ answer = [c \in Conns |-> NoAnswer]
  /\ backlog = << >>
  /\ fd = [c \in Conns |-> NoFd]
  /\ readfds = {Listen}
  /\ maxfd = Listen
  /\ allfds = {}
  /\ fdNum = 0
  /\ pc = "select"
  /\ result \in Outcomes
  /\ globalMin = 0
  /\ globalMax = 0

-----------------------------------------------------------------------------
(* The clients.                                                            *)

Queued(c) == \E i \in DOMAIN backlog : backlog[i] = c

Connect(c) ==
  /\ client[c] = "off"
  /\ client' = [client EXCEPT ![c] = "ready"]
  /\ backlog' = Append(backlog, c)
  /\ UNCHANGED <<asked, inbox, answer, fdVars, loopVars, calcVars>>

(* A client that has asked to quit closes without waiting for an answer.   *)
Ask(c, r) ==
  /\ client[c] = "ready"
  /\ client' = [client EXCEPT ![c] = IF r.op = "quit" THEN "ended" ELSE "waiting"]
  /\ asked' = [asked EXCEPT ![c] = r]
  /\ inbox' = [inbox EXCEPT ![c] = r]
  /\ UNCHANGED <<answer, backlog, fdVars, loopVars, calcVars>>

Receive(c) ==
  /\ client[c] = "waiting"
  /\ answer[c] # NoAnswer
  /\ client' = [client EXCEPT ![c] = "ready"]
  /\ asked' = [asked EXCEPT ![c] = Nothing]
  /\ answer' = [answer EXCEPT ![c] = NoAnswer]
  /\ UNCHANGED <<inbox, backlog, fdVars, loopVars, calcVars>>

(* The client program ends: its input is not a request, or it is killed.   *)
End(c) ==
  /\ client[c] \in {"ready", "waiting"}
  /\ client' = [client EXCEPT ![c] = "ended"]
  /\ answer' = [answer EXCEPT ![c] = NoAnswer]
  /\ UNCHANGED <<asked, inbox, backlog, fdVars, loopVars, calcVars>>

-----------------------------------------------------------------------------
(* select.                                                                 *)

Readable(c) == inbox[c] # Nothing \/ client[c] = "ended"

Ready == {fd[c] : c \in {d \in Conns : fd[d] \in readfds /\ Readable(d)}}
           \cup (IF backlog = << >> THEN {} ELSE {Listen})

(* Something is ready, but not the listening socket.                       *)
Select ==
  /\ pc = "select"
  /\ Ready # {} /\ Listen \notin Ready
  /\ allfds' = {f \in Ready : f <= maxfd}
  /\ fdNum' = Cardinality(allfds')
  /\ pc' = "loop"
  /\ UNCHANGED <<clientVars, inbox, answer, backlog, fdVars, calcVars>>

FreeFd == CHOOSE f \in Fds : /\ \A c \in Conns : fd[c] # f
                             /\ \A g \in Fds : g < f => \E c \in Conns : fd[c] = g

(* Mutant of Accept: maxfd is set, not raised.                             *)
AcceptSetsMax ==
  /\ pc = "select"
  /\ Listen \in Ready
  /\ LET c == Head(backlog)
     IN  /\ fd' = [fd EXCEPT ![c] = FreeFd]
         /\ readfds' = readfds \cup {FreeFd}
         /\ maxfd' = FreeFd
  /\ backlog' = Tail(backlog)
  /\ UNCHANGED <<clientVars, inbox, answer, loopVars, calcVars>>

(* The listening socket is ready: one connection is accepted, and whatever *)
(* else select has reported is dropped (continue).                         *)
Accept ==
  /\ pc = "select"
  /\ Listen \in Ready
  /\ LET c == Head(backlog)
     IN  /\ fd' = [fd EXCEPT ![c] = FreeFd]
         /\ readfds' = readfds \cup {FreeFd}
         /\ maxfd' = IF FreeFd > maxfd THEN FreeFd ELSE maxfd
  /\ backlog' = Tail(backlog)
  /\ UNCHANGED <<clientVars, inbox, answer, loopVars, calcVars>>

-----------------------------------------------------------------------------
(* The loop over the descriptors.                                          *)

(* The loop has come to the descriptor of c.                               *)
Turn(c) ==
  /\ pc = "loop"
  /\ fd[c] \in allfds
  /\ \A f \in allfds : fd[c] <= f

(* Mutant of Advance: the loop is left after the first descriptor.         *)
AdvanceOnce(c) == allfds' = {} /\ fdNum' = 0 /\ pc' = "select"

(* On to the next descriptor, while any is left of those select counted.   *)
Advance(c) ==
  /\ allfds' = IF fdNum > 1 THEN allfds \ {fd[c]} ELSE {}
  /\ fdNum' = fdNum - 1
  /\ pc' = IF allfds' = {} THEN "select" ELSE "loop"

(* close and FD_CLR.  The name of the connection is free again.            *)
Close(c) ==
  /\ fd' = [fd EXCEPT ![c] = NoFd]
  /\ readfds' = readfds \ {fd[c]}
  /\ UNCHANGED maxfd
  /\ client' = [client EXCEPT ![c] = "off"]
  /\ asked' = [asked EXCEPT ![c] = Nothing]
  /\ inbox' = [inbox EXCEPT ![c] = Nothing]

(* Nothing but the end of the stream.                                      *)
ServeEnd(c) ==
  /\ Turn(c)
  /\ inbox[c] = Nothing
  /\ Close(c)
  /\ Advance(c)
  /\ UNCHANGED <<answer, backlog, calcVars>>

(* quit leaves the loop (break): the descriptors after this one wait for   *)
(* the next select.                                                        *)
ServeQuit(c) ==
  /\ Turn(c)
  /\ inbox[c].op = "quit"
  /\ Close(c)
  /\ allfds' = {}
  /\ pc' = "select"
  /\ UNCHANGED <<answer, backlog, fdNum, calcVars>>

Unset == globalMax = 0 /\ globalMin = 0

(* An unknown operator or a zero divisor leaves the result as it was sent. *)
Computed(r) == IF r.op = "calc" THEN r.value ELSE result

NewMin(n) == IF Unset \/ n < globalMin THEN n ELSE globalMin
NewMax(n) == IF Unset \/ n > globalMax THEN n ELSE globalMax

(* n is recorded in the extrema and wire kept and sent as the result.  If  *)
(* the client has ended, nobody will read the answer.                      *)
Serve(c, n, wire) ==
  /\ Turn(c)
  /\ inbox[c].op \in {"calc", "error"}
  /\ result' = wire
  /\ globalMin' = NewMin(n)
  /\ globalMax' = NewMax(n)
  /\ answer' = IF client[c] = "ended" THEN answer
               ELSE [answer EXCEPT ![c] = [to |-> inbox[c], result |-> wire,
                                           min |-> Net(NewMin(n)), max |-> Net(NewMax(n))]]
  /\ inbox' = [inbox EXCEPT ![c] = Nothing]
  /\ Advance(c)
  /\ UNCHANGED <<clientVars, backlog, fdVars>>

(* Mutant of ServeRequest: the extrema are updated after the conversion.   *)
ServeRequestLate(c) == Serve(c, Net(Computed(inbox[c])), Net(Computed(inbox[c])))

(* A request is carried out and recorded; then everything is turned into   *)
(* network order and the answer written.                                   *)
ServeRequest(c) == Serve(c, Computed(inbox[c]), Net(Computed(inbox[c])))

(* The division traps and SIGFPE ends the process.                         *)
Traps(c) == Turn(c) /\ inbox[c].op = "trap"

-----------------------------------------------------------------------------
ServerStep ==
  /\ life = "up"
  /\ \/ (Select \/ Accept) /\ life' = life
     \/ \E c \in Conns :
          \/ (ServeEnd(c) \/ ServeQuit(c) \/ ServeRequest(c)) /\ life' = life
          \/ /\ Traps(c)
             /\ life' = "sigfpe"
             /\ UNCHANGED <<clientVars, inbox, answer, backlog, fdVars, loopVars,
                            calcVars>>

ClientStep ==
  /\ life = "up"
  /\ life' = life
  /\ \E c \in Conns :
       \/ Connect(c) \/ Receive(c) \/ End(c)
       \/ \E r \in Requests : Ask(c, r)

Next == ServerStep \/ ClientStep

Spec == Init /\ [][Next]_vars

(* The server never waits but in select.                                   *)
FairSpec == Spec /\ WF_vars(ServerStep)

-----------------------------------------------------------------------------
(* Properties.                                                             *)

TypeOK ==
  /\ life \in {"up", "sigfpe"}
  /\ client \in [Conns -> {"off", "ready", "waiting", "ended"}]
  /\ asked \in [Conns -> Requests \cup {Nothing}]
  /\ inbox \in [Conns -> Requests \cup {Nothing}]
  /\ answer \in [Conns -> Answers \cup {NoAnswer}]
  /\ backlog \in Seq(Conns)
  /\ fd \in [Conns -> Fds \cup {NoFd}]
  /\ readfds \subseteq Fds \cup {Listen}
  /\ maxfd \in Fds \cup {Listen}
  /\ allfds \subseteq Fds
  /\ fdNum \in 0 .. Cardinality(Conns)
  /\ pc \in {"select", "loop"}
  /\ result \in Outcomes
  /\ globalMin \in Outcomes \cup {0}
  /\ globalMax \in Outcomes \cup {0}

(* readfds and maxfd know every open connection and nothing else, and what *)
(* the loop has still to look at is open: no descriptor is read that has   *)
(* been closed, and none is forgotten, in whatever order connections come, *)
(* go and take over the descriptors of others.                             *)
DescriptorsKept ==
  /\ readfds = {Listen} \cup {fd[c] : c \in {d \in Conns : fd[d] # NoFd}}
  /\ \A f \in readfds : f <= maxfd
  /\ \A c, d \in Conns : fd[c] = fd[d] /\ fd[c] # NoFd => c = d
  /\ allfds \subseteq readfds
  /\ (pc = "loop") <=> (allfds # {})
  /\ pc = "loop" => fdNum = Cardinality(allfds)

(* A client reads the answer to its own request although one record serves *)
(* all clients; a calculation has its result, and the result lies in the   *)
(* range printed next to it, even after a request that failed.             *)
AnswersFit ==
  \A c \in Conns :
     answer[c] # NoAnswer =>
        /\ client[c] = "waiting"
        /\ answer[c].to = asked[c]
        /\ asked[c].op = "calc" => Net(answer[c].result) = asked[c].value
        /\ Net(answer[c].min) <= Net(answer[c].result)
        /\ Net(answer[c].result) <= Net(answer[c].max)

Unanswered(c) == client[c] = "waiting" /\ answer[c] = NoAnswer

(* Every connection is accepted.  Once no more come, every client that     *)
(* waits is answered, whichever descriptors the others keep busy: until    *)
(* then it may wait for good, because accept comes first.                  *)
EveryoneIsServed ==
  /\ \A c \in Conns : Queued(c) ~> (fd[c] # NoFd \/ life # "up")
  /\ <>[](backlog = << >>) =>
        \A c \in Conns : Unanswered(c) ~> (~Unanswered(c) \/ life # "up")
=============================================================================
