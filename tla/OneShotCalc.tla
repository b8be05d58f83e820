---------------------------- MODULE OneShotCalc ----------------------------
(***************************************************************************)
(* The servers of socket-hw whose clients make one request per connection: *)
(*   "echo"    HW1: waits for MAX_CLIENTS connections, then reads them in  *)
(*             turn; each gets the texts of all so far;                    *)
(*   "rounds"  HW2: the same, and a calculation with the running extrema;  *)
(*   "forked"  HW3: a child per connection; a pipe brings the extrema that *)
(*             the child has computed back to the parent.                  *)
(*                                                                         *)
(* Abstractions.  A text is named by its client, and texts joined to one   *)
(* are the sequence of them, with "" where nothing was to be joined.       *)
(* Requests and answers arrive whole, operator and operands are what they  *)
(* yield, and no text is longer than its buffer.  What is written with     *)
(* htonl is read with ntohl by the client and by the parent; the pair is   *)
(* left out.  A client runs once.                                          *)
(***************************************************************************)
EXTENDS RunningExtrema, Sequences, FiniteSets

CONSTANTS
  Clients,
  MaxClients   \* MAX_CLIENTS

ASSUME MaxClientsAssumption == MaxClients \in Nat \ {0}

(* "error" is an unknown operator or a division by zero, "trap" is         *)
(* INT_MIN / -1.                                                           *)
Requests == [op : {"calc"}, value : Results] \cup [op : {"error", "trap"}, value : {0}]

Nothing == [op |-> "none", value |-> 0]
NoAnswer == [result |-> 0, min |-> 0, max |-> 0, text |-> << >>]
NoRecord == [min |-> 0, max |-> 0, result |-> 0, sent |-> FALSE]

(* What is in buf[i] when nothing has been copied there.                   *)
Junk == "junk"

VARIABLES
  design,
  life,      \* "up", "ended" or "sigfpe": the process that accepts
  client,    \* "off", "idle", "asked", "answered" or "ended"
  inbox,     \* the request the server can read
  answer,    \* what the client can read, or has read
  backlog,   \* connections to be accepted
  open,      \* connections that some server process has open
  pc,        \* "accept", "serve" (HW1, HW2), or "pipe" (HW3)
  slots,     \* client_sockfd, connected_clients
  turn,      \* i + 1
  buf,       \* buf
  kid,       \* HW3: where a child is, and its copy of the extrema
  pipe       \* HW3: the record in the pipe that the parent reads

clientVars == <<client, inbox>>
roundVars  == <<slots, turn, buf>>
forkVars   == <<kid, pipe>>
vars == <<design, life, clientVars, answer, backlog, open, pc, roundVars, forkVars, evars>>

NoKid == [at |-> "none", lo |-> 0, hi |-> 0, result |-> 0]

Init ==
  /\ EInit
  /\ design \in {"echo", "rounds", "forked"}
  /\ life = "up"
  /\ client = [c \in Clients |-> "off"]
  /\ inbox = [c \in Clients |-> Nothing]
  /\ answer = [c \in Clients |-> NoAnswer]
  /\ backlog = << >>
  /\ open = {}
  /\ pc = "accept"
  /\ slots = << >>
  /\ turn = 1
  /\ buf = [i \in 1..MaxClients |-> Junk]
  /\ kid = [c \in Clients |-> NoKid]
  /\ pipe = NoRecord

-----------------------------------------------------------------------------
(* The clients.                                                            *)

Connect(c) ==
  /\ client[c] = "off" /\ life = "up"
  /\ client' = [client EXCEPT ![c] = "idle"]
  /\ backlog' = Append(backlog, c)
  /\ open' = open \cup {c}
  /\ UNCHANGED <<inbox, answer, life, pc, roundVars, forkVars, evars>>

(* Writing to a connection that nobody has open any more fails later.      *)
Ask(c, r) ==
  /\ client[c] = "idle"
  /\ client' = [client EXCEPT ![c] = "asked"]
  /\ inbox' = [inbox EXCEPT ![c] = r]
  /\ UNCHANGED <<answer, backlog, open, life, pc, roundVars, forkVars, evars>>

(* The client reads the answer, or the end of the stream.                  *)
Receive(c) ==
  /\ client[c] = "asked"
  /\ \/ answer[c] # NoAnswer /\ client' = [client EXCEPT ![c] = "answered"]
     \/ /\ answer[c] = NoAnswer
        /\ c \notin open
        /\ client' = [client EXCEPT ![c] = "ended"]
  /\ UNCHANGED <<inbox, answer, backlog, open, life, pc, roundVars, forkVars, evars>>

(* The input is not a request, or the client is killed.                    *)
End(c) ==
  /\ client[c] \in {"idle", "asked"}
  /\ client' = [client EXCEPT ![c] = "ended"]
  /\ UNCHANGED <<inbox, answer, backlog, open, life, pc, roundVars, forkVars, evars>>

AtEnd(c) == inbox[c] = Nothing /\ client[c] = "ended"

(* The server's end of a connection is closed; an answer sent before, or   *)
(* Answers(c, a) below, can still be read.                                 *)
Close(c) ==
  /\ open' = open \ {c}
  /\ UNCHANGED client

-----------------------------------------------------------------------------
(* HW1 and HW2.                                                            *)

Rounds == design \in {"echo", "rounds"} /\ life = "up"

(* accept is tried again when it fails.                                    *)
AcceptSlot ==
  /\ Rounds /\ pc = "accept"
  /\ backlog # << >>
  /\ slots' = Append(slots, Head(backlog))
  /\ backlog' = Tail(backlog)
  /\ pc' = IF Len(slots') = MaxClients THEN "serve" ELSE "accept"
  /\ UNCHANGED <<life, clientVars, answer, open, turn, buf, forkVars, evars>>

(* The server is at the connection of c, for the first time: from then on  *)
(* the descriptor is closed and every later round passes it by, which is a *)
(* loop that changes nothing and never ends.                               *)
Turn(c) == Rounds /\ pc = "serve" /\ turn <= MaxClients /\ slots[turn] = c

Advance == turn' = turn + 1

(* Only HW1 clears buf[i] before it reads.                                 *)
SkipSlot(c) ==
  /\ Turn(c)
  /\ AtEnd(c)
  /\ Close(c)
  /\ buf' = IF design = "echo" THEN [buf EXCEPT ![turn] = ""] ELSE buf
  /\ Advance
  /\ UNCHANGED <<life, inbox, answer, backlog, pc, slots, forkVars, evars>>

(* Mutant of RecordInTurn: every result starts the extrema anew.           *)
RecordAnew(r) == lo' = r /\ hi' = r /\ seen' = seen \cup {r}

(* The first connection starts the extrema.  If it made no request they    *)
(* are compared with what the variables were initialised to: 0 counts as a *)
(* result.                                                                 *)
RecordInTurn(r) ==
  IF turn = 1
  THEN lo' = r /\ hi' = r /\ seen' = {r}
  ELSE /\ lo' = IF r < lo THEN r ELSE lo
       /\ hi' = IF r > hi THEN r ELSE hi
       /\ seen' = seen \cup {r} \cup (IF seen = {} THEN {0} ELSE {})

(* Mutant of Combined: the texts of all connections, served or not.        *)
CombinedAll == [i \in 1..MaxClients |-> buf'[i]]

(* The texts up to that of the connection which is being served.           *)
Combined == [i \in 1..turn |-> buf'[i]]

ServeSlot(c) ==
  /\ Turn(c)
  /\ inbox[c] # Nothing
  /\ design = "rounds" => inbox[c].op # "trap"
  /\ buf' = [buf EXCEPT ![turn] = c]
  /\ IF design = "echo"
     THEN /\ answer' = [answer EXCEPT ![c] = [result |-> 0, min |-> 0, max |-> 0,
                                              text |-> Combined]]
          /\ UNCHANGED evars
     ELSE /\ RecordInTurn(inbox[c].value)
          /\ answer' = [answer EXCEPT ![c] = [result |-> inbox[c].value, min |-> lo',
                                              max |-> hi', text |-> Combined]]
  /\ inbox' = [inbox EXCEPT ![c] = Nothing]
  /\ Close(c)
  /\ Advance
  /\ UNCHANGED <<life, backlog, pc, slots, forkVars>>

(* The division traps and takes every connection with it.                  *)
TrapSlot(c) ==
  /\ Turn(c)
  /\ design = "rounds" /\ inbox[c].op = "trap"
  /\ life' = "sigfpe"
  /\ open' = {}
  /\ UNCHANGED <<clientVars, answer, backlog, pc, roundVars, forkVars, evars>>

RoundStep ==
  AcceptSlot \/ \E c \in Clients : SkipSlot(c) \/ ServeSlot(c) \/ TrapSlot(c)

-----------------------------------------------------------------------------
(* HW3.                                                                    *)

Forked == design = "forked"
Alive(c) == kid[c].at \in {"read", "answer"}

Accepting == Forked /\ life = "up" /\ pc = "accept"

(* Mutant of Inherited: the child starts with extrema of its own.          *)
NothingInherited == [at |-> "read", lo |-> 0, hi |-> 0, result |-> 0]

(* The child's memory is a copy of the parent's.                           *)
Inherited == [at |-> "read", lo |-> lo, hi |-> hi, result |-> 0]

Fork ==
  /\ Accepting
  /\ backlog # << >>
  /\ kid' = [kid EXCEPT ![Head(backlog)] = Inherited]
  /\ slots' = <<Head(backlog)>>
  /\ backlog' = Tail(backlog)
  /\ pc' = "pipe"
  /\ UNCHANGED <<life, clientVars, answer, open, turn, buf, pipe, evars>>

(* fork fails: this connection is closed, the server goes on.              *)
ForkFails ==
  /\ Accepting
  /\ backlog # << >>
  /\ Close(Head(backlog))
  /\ backlog' = Tail(backlog)
  /\ UNCHANGED <<life, inbox, answer, pc, roundVars, forkVars, evars>>

(* accept or pipe fails: the server ends, and with it all connections but  *)
(* those that a child still has open.                                      *)
AcceptFails ==
  /\ Accepting
  /\ life' = "ended"
  /\ open' = {c \in open : Alive(c)}
  /\ UNCHANGED <<clientVars, answer, backlog, pc, roundVars, forkVars, evars>>

KidEnds(c) ==
  /\ kid' = [kid EXCEPT ![c] = [at |-> "gone", lo |-> kid[c].lo, hi |-> kid[c].hi,
                                result |-> kid[c].result]]
  /\ Close(c)

(* The connection is at its end, or the division traps.                    *)
KidHangsUp(c) ==
  /\ Forked
  /\ kid[c].at = "read"
  /\ AtEnd(c) \/ inbox[c].op = "trap"
  /\ KidEnds(c)
  /\ UNCHANGED <<life, inbox, answer, backlog, pc, roundVars, pipe, evars>>

(* The extrema as the child of c has them.                                 *)
Kid(c) == INSTANCE RunningExtrema WITH lo <- kid[c].lo, hi <- kid[c].hi

(* The child records its result and writes the record to the pipe.         *)
KidRecords(c) ==
  /\ Forked
  /\ kid[c].at = "read"
  /\ inbox[c].op \in {"calc", "error"}
  /\ LET r == inbox[c].value
     IN  /\ kid' = [kid EXCEPT ![c] = [at |-> "answer", lo |-> Kid(c)!NewLo(r),
                                       hi |-> Kid(c)!NewHi(r), result |-> r]]
         /\ pipe' = [min |-> Kid(c)!NewLo(r), max |-> Kid(c)!NewHi(r), result |-> r,
                     sent |-> TRUE]
  /\ inbox' = [inbox EXCEPT ![c] = Nothing]
  /\ UNCHANGED <<life, client, answer, backlog, open, pc, roundVars, evars>>

KidAnswers(c) ==
  /\ Forked
  /\ kid[c].at = "answer"
  /\ answer' = [answer EXCEPT ![c] = [result |-> kid[c].result, min |-> kid[c].lo,
                                      max |-> kid[c].hi, text |-> <<c>>]]
  /\ KidEnds(c)
  /\ UNCHANGED <<life, inbox, backlog, pc, roundVars, pipe, evars>>

KidStep(c) == KidHangsUp(c) \/ KidRecords(c) \/ KidAnswers(c)

(* Mutant of PipeAtEnd: the parent has kept the writing end open as well,  *)
(* and the pipe never ends.                                                *)
PipeNeverAtEnd == FALSE

(* The parent takes over the extrema of the child.                         *)
PipeRead ==
  /\ Forked /\ pc = "pipe"
  /\ pipe.sent
  /\ lo' = pipe.min /\ hi' = pipe.max
  /\ seen' = IF seen = {} /\ pipe.result = 0 THEN {} ELSE seen \cup {pipe.result}
  /\ pipe' = NoRecord
  /\ pc' = "accept"
  /\ UNCHANGED <<life, clientVars, answer, backlog, open, roundVars, kid>>

(* The child, the only process that could still write, has ended.          *)
PipeAtEnd == ~pipe.sent /\ kid[slots[1]].at = "gone"

PipeEnds ==
  /\ Forked /\ pc = "pipe"
  /\ PipeAtEnd
  /\ pc' = "accept"
  /\ UNCHANGED <<life, clientVars, answer, backlog, open, roundVars, forkVars, evars>>

ParentStep == Fork \/ ForkFails \/ AcceptFails \/ PipeRead \/ PipeEnds

-----------------------------------------------------------------------------
(* What the programs do of themselves, and what is up to the users.         *)
ProgramStep ==
  /\ design' = design
  /\ RoundStep \/ ParentStep \/ \E c \in Clients : KidStep(c) \/ Receive(c)

UserStep ==
  /\ design' = design
  /\ \E c \in Clients : Connect(c) \/ End(c) \/ \E r \in Requests : Ask(c, r)

Next == ProgramStep \/ UserStep

Spec == Init /\ [][Next]_vars

(* Every process runs on unless it waits.  Each client runs once and every *)
(* program takes boundedly many steps for it, so that to be fair to all    *)
(* together is to be fair to each.                                         *)
FairSpec == Spec /\ WF_vars(ProgramStep)

-----------------------------------------------------------------------------
(* Properties.  Extremal of RunningExtrema is the first: whatever children *)
(* hang up, trap or are still answering, the parent's extrema (HW2: the    *)
(* server's) are those of exactly the results that were recorded.          *)

TypeOK ==
  /\ ETypeOK
  /\ design \in {"echo", "rounds", "forked"}
  /\ life \in {"up", "ended", "sigfpe"}
  /\ client \in [Clients -> {"off", "idle", "asked", "answered", "ended"}]
  /\ inbox \in [Clients -> Requests \cup {Nothing}]
  /\ DOMAIN answer = Clients
  /\ \A c \in Clients : answer[c].result \in Int /\ answer[c].min \in Int /\ answer[c].max \in Int
  /\ backlog \in Seq(Clients)
  /\ open \subseteq Clients
  /\ pc \in {"accept", "serve", "pipe"}
  /\ slots \in Seq(Clients)
  /\ turn \in Nat \ {0}
  /\ buf \in [1..MaxClients -> Clients \cup {Junk, ""}]
  /\ kid \in [Clients -> [at : {"none", "read", "answer", "gone"}, lo : Int, hi : Int,
                         result : Int]]
  /\ pipe \in [min : Int, max : Int, result : Int, sent : BOOLEAN]

Lowest  == IF pipe.sent THEN pipe.min ELSE lo
Highest == IF pipe.sent THEN pipe.max ELSE hi

(* A result r lies in the range from l to h, and that, unless it is the    *)
(* sentinel, in the range that the server has now, or that its parent is   *)
(* about to read from the pipe.                                            *)
Nested(l, r, h) ==
  /\ l <= r /\ r <= h
  /\ l # 0 \/ h # 0 => Lowest <= l /\ h <= Highest

(* A client is told a range that its result lies in, and the range does    *)
(* not shrink from one client to the next.                                 *)
RangesNest ==
  \A c \in Clients : answer[c].text # << >> =>
     Nested(answer[c].min, answer[c].result, answer[c].max)

(* What the client of slot i has contributed: nothing, if it has ended     *)
(* without asking, and HW2 reads memory there that nothing was written to. *)
Piece(i) ==
  IF answer[slots[i]].text # << >> THEN slots[i]
  ELSE IF design = "echo" THEN "" ELSE Junk

(* A client reads its own text last, after the texts of those whose turn   *)
(* came before it and who asked, in that order, and of nobody else.        *)
ConversationInOrder ==
  \A c \in Clients : answer[c].text # << >> =>
     \/ design = "forked" /\ answer[c].text = <<c>>
     \/ /\ design # "forked"
        /\ \E k \in DOMAIN slots :
              slots[k] = c /\ answer[c].text = [i \in 1..k |-> Piece(i)]

(* HW1 and HW2 serve MAX_CLIENTS connections and no more.                  *)
TooLate(c) ==
  /\ design # "forked" /\ Len(slots) = MaxClients
  /\ \A i \in DOMAIN slots : slots[i] # c

(* HW1 and HW2 also wait until there are enough connections.               *)
Enough ==
  design # "forked" => Cardinality({c \in Clients : client[c] # "off"}) >= MaxClients

(* One connection whose user says nothing keeps all others waiting.  If    *)
(* there is none, whoever has asked is answered or sees its connection     *)
(* closed, although others hang up or trap and accept, pipe or fork fails. *)
EveryoneIsAnswered ==
  []<>(Enough /\ \A c \in Clients : client[c] # "idle") =>
     \A c \in Clients : client[c] = "asked" ~> (client[c] # "asked" \/ TooLate(c))
=============================================================================
