---------------------------- MODULE ForkShmCalc ----------------------------
(***************************************************************************)
(* The calculator of socket-hw/HW5: one process accepts; each connection   *)
(* gets a child that sets up a memory segment and a semaphore, forks twice *)
(* and goes on as the consumer, which sends the record to the client.  Of  *)
(* the other two, the timer writes the time into the record and the reader *)
(* receives the requests, calculates and keeps the extrema of all clients, *)
(* which are behind the global semaphore.                                  *)
(*                                                                         *)
(* The child asks for its segment and its semaphore by keys that ftok      *)
(* makes of its process number: ftok keeps eight bits of it, so that two   *)
(* connections may have the same key.  It then attaches the segment by the *)
(* identifier of the semaphore.                                            *)
(*                                                                         *)
(* Abstractions.  Key is ftok's result; the segment and the semaphore of a *)
(* connection have keys that agree or differ together.  A new object gets  *)
(* any identifier that its table has not given out before.  The tables are *)
(* those of a machine where nothing else uses System V memory, and the     *)
(* identifiers of the global objects are not given out again.  The time,   *)
(* the address and the error code are left out.                            *)
(***************************************************************************)
EXTENDS Integers

CONSTANTS
  Clients,   \* the connections
  Keys,      \* what ftok can return
  Ids,       \* identifiers of segments and semaphores
  None,      \* no identifier, no key
  Requests   \* what clients send

Texts == {"quit", "other", "none"}

ASSUME ConstantsAssumption ==
  /\ None \notin Ids /\ None \notin Keys
  /\ Requests \subseteq [op : {"calc", "error", "trap", "dollar", "idle"},
                         value : Int, text : Texts]

(* A request: "dollar" is the operator $ between two zeros, "idle" the     *)
(* operator #, "error" any other operator that is not known or a division  *)
(* by zero, "trap" is INT_MIN / -1; value is the result of a "calc".       *)
Blank == [op |-> "none", value |-> 0, text |-> "none"]
Hash  == [op |-> "idle", value |-> 0, text |-> "none"]

Rec(f, b, x, lo, hi) == [front |-> f, back |-> b, result |-> x, min |-> lo, max |-> hi]

NewRecord == Rec(Blank, Blank, 0, 0, 0)

VARIABLES
  server,             \* the process that accepts
  conn,               \* the client's end of the connection
  main, timer, reader,\* where the processes of a connection are
  key,                \* the key of the connection
  id,                 \* the identifier its child works with
  segOf, semOf,       \* the kernel's tables, by key
  given,              \* identifiers of semaphores ever given out
  val, adj,           \* semaphores, and the processes' adjustments of them
  gsem,               \* the global semaphore, -1 when it has been removed
  mem,                \* segments
  in, out,            \* client_data of the reader, sendBuffer of the consumer
  trace,              \* cal_trace_data
  seen                \* history: see RunningExtrema

tables == <<server, conn, key, id, segOf, semOf, given>>
sem    == <<val, adj>>
extrema == <<trace, seen>>
vars == <<tables, main, timer, reader, sem, gsem, mem, in, out, extrema>>

Processes == {"main", "timer", "reader"}

Init ==
  /\ server = "accepting"
  /\ conn = [c \in Clients |-> "none"]
  /\ main = [c \in Clients |-> "new"]
  /\ timer = [c \in Clients |-> "new"]
  /\ reader = [c \in Clients |-> "new"]
  /\ key = [c \in Clients |-> None]
  /\ id = [c \in Clients |-> None]
  /\ segOf = [k \in Keys |-> None]
  /\ semOf = [k \in Keys |-> None]
  /\ given = {}
  /\ val = [i \in Ids |-> 0]
  /\ adj = [p \in Clients \X Processes |-> 0]
  /\ gsem = 1
  /\ mem = [i \in Ids |-> NewRecord]
  /\ in = [c \in Clients |-> Blank]
  /\ out = [c \in Clients |-> NewRecord]
  /\ trace = [min |-> 0, max |-> 0]
  /\ seen = {}

-----------------------------------------------------------------------------
(* semop with SEM_UNDO on the semaphore of a connection.                   *)

Exists(c) == \E k \in Keys : semOf[k] = id[c]

Wait(c, p) ==
  /\ Exists(c) /\ val[id[c]] > 0
  /\ val' = [val EXCEPT ![id[c]] = @ - 1]
  /\ adj' = [adj EXCEPT ![<<c, p>>] = @ + 1]

Signal(c, p) ==
  /\ Exists(c)
  /\ val' = [val EXCEPT ![id[c]] = @ + 1]
  /\ adj' = [adj EXCEPT ![<<c, p>>] = @ - 1]

(* Mutant of Undo: semop without SEM_UNDO.                                 *)
UndoNothing(c, p) == val' = val /\ adj' = [adj EXCEPT ![<<c, p>>] = 0]

(* The end of a process.                                                   *)
Undo(c, p) ==
  /\ val' = IF Exists(c)
            THEN [val EXCEPT ![id[c]] = IF @ + adj[<<c, p>>] < 0 THEN 0
                                        ELSE @ + adj[<<c, p>>]]
            ELSE val
  /\ adj' = [adj EXCEPT ![<<c, p>>] = 0]

(* Mutant of IsQuit: the description alone is looked at.                   *)
SaysQuit(r) == r.back.text = "quit"

(* The request in a segment asks to quit.                                  *)
IsQuit(r) == r.front.op = "dollar" /\ r.back.text = "quit"

-----------------------------------------------------------------------------
(* A process goes on from a to b, and what it never touches.               *)

MainGoes(c, a, b) == main[c] = a /\ main' = [main EXCEPT ![c] = b]

ConsumerGoes(c, a, b) ==
  MainGoes(c, a, b) /\ UNCHANGED <<timer, reader, gsem, mem, in, extrema>>

TimerGoes(c, a, b) ==
  /\ timer[c] = a /\ timer' = [timer EXCEPT ![c] = b]
  /\ UNCHANGED <<tables, main, reader, gsem, mem, in, out, extrema>>

ReaderGoes(c, a, b) ==
  /\ reader[c] = a /\ reader' = [reader EXCEPT ![c] = b]
  /\ UNCHANGED <<tables, main, timer, out>>

(* Stores into the segment that c has attached.                            *)
PutRequest(c, f, b) == mem' = [mem EXCEPT ![id[c]] = Rec(f, b, @.result, @.min, @.max)]

PutNumbers(c, x, lo, hi) == mem' = [mem EXCEPT ![id[c]] = Rec(@.front, @.back, x, lo, hi)]

-----------------------------------------------------------------------------
(* Connections and what their children set up.                             *)

Accept(c) ==
  /\ server = "accepting" /\ conn[c] = "none"
  /\ conn' = [conn EXCEPT ![c] = "open"]
  /\ main' = [main EXCEPT ![c] = "shmget"]
  /\ \E k \in Keys : key' = [key EXCEPT ![c] = k]
  /\ UNCHANGED <<server, id, segOf, semOf, given, timer, reader, sem, gsem, mem, in, out, extrema>>

(* accept fails, which ends the server and removes the global semaphore.   *)
AcceptFails ==
  /\ server = "accepting" /\ server' = "ended"
  /\ gsem' = -1
  /\ UNCHANGED <<conn, key, id, segOf, semOf, given, main, timer, reader, sem, mem, in, out, extrema>>

ClientLeaves(c) ==
  /\ conn[c] = "open"
  /\ conn' = [conn EXCEPT ![c] = "gone"]
  /\ UNCHANGED <<server, key, id, segOf, semOf, given, main, timer, reader, sem, gsem, mem, in, out, extrema>>

GetMemory(c) ==
  /\ MainGoes(c, "shmget", "semget")
  /\ IF segOf[key[c]] # None
     THEN UNCHANGED <<segOf, mem>>
     ELSE \E i \in {j \in Ids : \A k \in Keys : segOf[k] # j} :
            /\ segOf' = [segOf EXCEPT ![key[c]] = i]
            /\ mem' = [mem EXCEPT ![i] = NewRecord]
  /\ UNCHANGED <<server, conn, key, id, semOf, given, timer, reader, sem, gsem, in, out, extrema>>

(* Mutant of SemKey: ftok without the number of the process.               *)
OneKey(c) == CHOOSE k \in Keys : TRUE

SemKey(c) == key[c]

GetSemaphore(c) ==
  /\ MainGoes(c, "semget", "shmat")
  /\ IF semOf[SemKey(c)] # None
     THEN id' = [id EXCEPT ![c] = semOf[SemKey(c)]] /\ UNCHANGED <<semOf, given, val>>
     ELSE \E i \in Ids \ given :
            /\ id' = [id EXCEPT ![c] = i]
            /\ semOf' = [semOf EXCEPT ![SemKey(c)] = i]
            /\ given' = given \cup {i}
            /\ val' = [val EXCEPT ![i] = 0]
  /\ UNCHANGED <<server, conn, key, segOf, timer, reader, adj, gsem, mem, in, out, extrema>>

(* shmget or semget fails: the child closes the connection, goes round the *)
(* accept loop with the listening socket closed and removes the global     *)
(* semaphore on its way out.                                               *)
SetUpFails(c) ==
  /\ main[c] \in {"shmget", "semget"}
  /\ main' = [main EXCEPT ![c] = "ended"]
  /\ gsem' = -1
  /\ UNCHANGED <<tables, timer, reader, sem, mem, in, out, extrema>>

(* shmat with the semaphore's identifier; if no segment has it, the child  *)
(* returns.                                                                *)
Attach(c) ==
  /\ MainGoes(c, "shmat", IF \E k \in Keys : segOf[k] = id[c] THEN "setval" ELSE "ended")
  /\ UNCHANGED <<tables, timer, reader, sem, gsem, mem, in, out, extrema>>

(* SETVAL clears the adjustments of everyone who uses the semaphore.       *)
SetValue(c) ==
  /\ MainGoes(c, "setval", IF Exists(c) THEN "start" ELSE "ended")
  /\ IF Exists(c)
     THEN /\ val' = [val EXCEPT ![id[c]] = 1]
          /\ adj' = [p \in Clients \X Processes |-> IF id[p[1]] = id[c] THEN 0 ELSE adj[p]]
     ELSE UNCHANGED sem
  /\ UNCHANGED <<tables, timer, reader, gsem, mem, in, out, extrema>>

(* The operator # goes into the record, without the semaphore, and the two *)
(* forks follow.                                                           *)
Start(c) ==
  /\ MainGoes(c, "start", "wait")
  /\ timer' = [timer EXCEPT ![c] = "wait"]
  /\ reader' = [reader EXCEPT ![c] = "read"]
  /\ PutRequest(c, Hash, mem[id[c]].back)
  /\ UNCHANGED <<tables, sem, gsem, in, out, extrema>>

-----------------------------------------------------------------------------
(* The reader.                                                             *)

ReaderEnds(c) ==
  /\ reader' = [reader EXCEPT ![c] = "ended"]
  /\ in' = [in EXCEPT ![c] = Blank]
  /\ Undo(c, "reader")
  /\ UNCHANGED <<tables, main, timer, mem, out, extrema>>

Receive(c, r) ==
  /\ ReaderGoes(c, "read", "client") /\ conn[c] = "open"
  /\ in' = [in EXCEPT ![c] = r]
  /\ UNCHANGED <<sem, gsem, mem, extrema>>

ReceiveFails(c) ==
  /\ reader[c] = "read" /\ conn[c] = "gone"
  /\ ReaderEnds(c)
  /\ UNCHANGED gsem

(* Mutant of EnterClient: the client's semaphore is not taken.             *)
EnterClientFreely(c) ==
  /\ ReaderGoes(c, "client", "global")
  /\ UNCHANGED <<sem, gsem, mem, in, extrema>>

EnterClient(c) ==
  /\ ReaderGoes(c, "client", "global")
  /\ Wait(c, "reader")
  /\ UNCHANGED <<gsem, mem, in, extrema>>

(* Mutant of EnterGlobal: what semop returns is not looked at, so that the *)
(* reader goes on when the semaphore has been removed.                     *)
EnterGlobalUnchecked(c) ==
  /\ ReaderGoes(c, "global", "front") /\ gsem # 0
  /\ gsem' = IF gsem = 1 THEN 0 ELSE gsem
  /\ UNCHANGED <<sem, mem, in, extrema>>

EnterGlobal(c) ==
  /\ ReaderGoes(c, "global", "front") /\ gsem = 1
  /\ gsem' = 0
  /\ UNCHANGED <<sem, mem, in, extrema>>

(* semop fails because the semaphore has been removed.                     *)
ReaderSemopFails(c) ==
  /\ \/ reader[c] \in {"client", "leaveC"} /\ ~Exists(c)
     \/ reader[c] \in {"global", "leaveG"} /\ gsem = -1
  /\ ReaderEnds(c)
  /\ UNCHANGED gsem

WriteFront(c) ==
  /\ ReaderGoes(c, "front", "back")
  /\ PutRequest(c, in[c], mem[id[c]].back)
  /\ UNCHANGED <<sem, gsem, in, extrema>>

(* The description is stored, and numbers and operator are taken back from *)
(* the record.  The operator # is not calculated.                          *)
WriteBack(c) ==
  /\ ReaderGoes(c, "back", IF mem[id[c]].front.op = "idle" THEN "leaveG" ELSE "compute")
  /\ PutRequest(c, mem[id[c]].front, in[c])
  /\ in' = [in EXCEPT ![c] = mem[id[c]].front]
  /\ UNCHANGED <<sem, gsem, extrema>>

(* An error leaves the result of the request before.                       *)
Compute(c) ==
  /\ ReaderGoes(c, "compute", "first") /\ in[c].op # "trap"
  /\ PutNumbers(c, IF in[c].op = "calc" THEN in[c].value ELSE mem[id[c]].result,
                mem[id[c]].min, mem[id[c]].max)
  /\ UNCHANGED <<sem, gsem, in, extrema>>

(* SIGFPE: SEM_UNDO gives both semaphores back.                            *)
ComputeTraps(c) ==
  /\ reader[c] = "compute" /\ in[c].op = "trap"
  /\ ReaderEnds(c)
  /\ gsem' = IF gsem = -1 THEN -1 ELSE gsem + 1

(* The extrema, one store after the other: max and min if none have been   *)
(* recorded yet, min and max otherwise.                                    *)
Unset == trace.max = 0 /\ trace.min = 0

Result(c) == mem[id[c]].result

UpdateFirst(c) ==
  /\ ReaderGoes(c, "first", IF Unset THEN "min" ELSE "max")
  /\ trace' = IF Unset THEN [min |-> trace.min, max |-> Result(c)]
              ELSE [min |-> IF Result(c) < trace.min THEN Result(c) ELSE trace.min,
                    max |-> trace.max]
  /\ seen' = IF seen = {} /\ Result(c) = 0 THEN {} ELSE seen \cup {Result(c)}
  /\ UNCHANGED <<sem, gsem, mem, in>>

UpdateMin(c) ==
  /\ ReaderGoes(c, "min", "share")
  /\ trace' = [min |-> Result(c), max |-> trace.max]
  /\ UNCHANGED <<sem, gsem, mem, in, seen>>

(* Mutant of UpdateMax: the maximum is replaced without a comparison.      *)
UpdateMaxAlways(c) ==
  /\ ReaderGoes(c, "max", "share")
  /\ trace' = [min |-> trace.min, max |-> Result(c)]
  /\ UNCHANGED <<sem, gsem, mem, in, seen>>

UpdateMax(c) ==
  /\ ReaderGoes(c, "max", "share")
  /\ trace' = [min |-> trace.min,
               max |-> IF Result(c) > trace.max THEN Result(c) ELSE trace.max]
  /\ UNCHANGED <<sem, gsem, mem, in, seen>>

Share(c) ==
  /\ ReaderGoes(c, "share", "leaveG")
  /\ PutNumbers(c, Result(c), trace.min, trace.max)
  /\ UNCHANGED <<sem, gsem, in, extrema>>

LeaveGlobal(c) ==
  /\ ReaderGoes(c, "leaveG", "leaveC") /\ gsem # -1
  /\ gsem' = gsem + 1
  /\ UNCHANGED <<sem, mem, in, extrema>>

LeaveClient(c) ==
  /\ ReaderGoes(c, "leaveC", IF in[c].op = "idle" THEN "read" ELSE "check")
  /\ Signal(c, "reader")
  /\ in' = [in EXCEPT ![c] = Blank]
  /\ UNCHANGED <<gsem, mem, extrema>>

(* The record is looked at without the semaphore.                          *)
ReaderChecks(c) ==
  /\ ReaderGoes(c, "check", IF IsQuit(mem[id[c]]) THEN "ended" ELSE "read")
  /\ UNCHANGED <<sem, gsem, mem, in, extrema>>

-----------------------------------------------------------------------------
(* The timer.                                                              *)

TimerEnters(c) ==
  /\ TimerGoes(c, "wait", "leave")
  /\ Wait(c, "timer")

TimerLeaves(c) ==
  /\ TimerGoes(c, "leave", "check")
  /\ Signal(c, "timer")

TimerSemopFails(c) ==
  /\ \E a \in {"wait", "leave"} : TimerGoes(c, a, "ended")
  /\ ~Exists(c)
  /\ Undo(c, "timer")

TimerChecks(c) ==
  /\ TimerGoes(c, "check", IF IsQuit(mem[id[c]]) THEN "ended" ELSE "wait")
  /\ UNCHANGED sem

-----------------------------------------------------------------------------
(* The consumer, which is the child itself.                                *)

ConsumerEnters(c) ==
  /\ ConsumerGoes(c, "wait", "copy")
  /\ Wait(c, "main")
  /\ UNCHANGED <<tables, out>>

CopyNumbers(c) ==
  /\ ConsumerGoes(c, "copy", "send")
  /\ LET r == mem[id[c]]
     IN  out' = [out EXCEPT ![c] = Rec(r.front, Blank, r.result, r.min, r.max)]
  /\ UNCHANGED <<tables, sem>>

(* The description is copied and the record written to the client.         *)
CopyTextAndSend(c) ==
  /\ ConsumerGoes(c, "send", "leave")
  /\ out' = [out EXCEPT ![c] = Rec(@.front, mem[id[c]].back, @.result, @.min, @.max)]
  /\ UNCHANGED <<tables, sem>>

(* SIGPIPE: the client has gone.                                           *)
SendKills(c) ==
  /\ ConsumerGoes(c, "send", "ended") /\ conn[c] = "gone"
  /\ out' = [out EXCEPT ![c] = NewRecord]
  /\ Undo(c, "main")
  /\ UNCHANGED tables

ConsumerLeaves(c) ==
  /\ ConsumerGoes(c, "leave", "check")
  /\ out' = [out EXCEPT ![c] = NewRecord]
  /\ Signal(c, "main")
  /\ UNCHANGED tables

ConsumerSemopFails(c) ==
  /\ \E a \in {"wait", "leave"} : ConsumerGoes(c, a, "ended")
  /\ ~Exists(c)
  /\ out' = [out EXCEPT ![c] = NewRecord]
  /\ Undo(c, "main")
  /\ UNCHANGED tables

ConsumerGoesOn(c) ==
  /\ ConsumerGoes(c, "check", "wait") /\ ~IsQuit(mem[id[c]])
  /\ UNCHANGED <<tables, sem, out>>

(* Looked at without the semaphore, too.  The semaphore is removed, which  *)
(* makes every semop on it fail; the segment stays.                        *)
HangUp(c) ==
  /\ ConsumerGoes(c, "check", "ended") /\ IsQuit(mem[id[c]])
  /\ semOf' = [k \in Keys |-> IF semOf[k] = id[c] THEN None ELSE semOf[k]]
  /\ UNCHANGED <<server, conn, key, id, segOf, given, sem, out>>

-----------------------------------------------------------------------------
SetUpStep(c) == GetMemory(c) \/ GetSemaphore(c) \/ Attach(c) \/ SetValue(c) \/ Start(c)

ReaderStep(c) ==
  \/ ReceiveFails(c) \/ EnterClient(c) \/ EnterGlobal(c) \/ ReaderSemopFails(c)
  \/ WriteFront(c) \/ WriteBack(c) \/ Compute(c) \/ ComputeTraps(c)
  \/ UpdateFirst(c) \/ UpdateMin(c) \/ UpdateMax(c) \/ Share(c)
  \/ LeaveGlobal(c) \/ LeaveClient(c) \/ ReaderChecks(c)

TimerStep(c) == TimerEnters(c) \/ TimerLeaves(c) \/ TimerSemopFails(c) \/ TimerChecks(c)

ConsumerStep(c) ==
  \/ ConsumerEnters(c) \/ CopyNumbers(c) \/ CopyTextAndSend(c) \/ SendKills(c)
  \/ ConsumerLeaves(c) \/ ConsumerSemopFails(c) \/ ConsumerGoesOn(c) \/ HangUp(c)

Next ==
  \/ AcceptFails
  \/ \E c \in Clients :
       \/ Accept(c) \/ SetUpFails(c) \/ ClientLeaves(c)
       \/ \E r \in Requests : Receive(c, r)
       \/ SetUpStep(c) \/ ReaderStep(c) \/ TimerStep(c) \/ ConsumerStep(c)

Spec == Init /\ [][Next]_vars

(* The processes run, and the kernel serves the waiters of a semaphore in  *)
(* the order in which they came.                                           *)
Fairness ==
  \A c \in Clients :
    /\ WF_vars(SetUpStep(c)) /\ WF_vars(ReaderStep(c))
    /\ WF_vars(TimerStep(c)) /\ WF_vars(ConsumerStep(c))
    /\ SF_vars(EnterClient(c)) /\ SF_vars(EnterGlobal(c))
    /\ SF_vars(TimerEnters(c)) /\ SF_vars(ConsumerEnters(c))

FairSpec == Spec /\ Fairness

-----------------------------------------------------------------------------
(* Properties.                                                             *)

Attached(c) ==
  \/ main[c] \in {"setval", "start", "wait", "copy", "send", "leave", "check"}
  \/ timer[c] \in {"wait", "leave", "check"}
  \/ reader[c] \notin {"new", "ended"}

(* No other connection has come to work with the identifier of c.          *)
Alone(c) == \A d \in Clients \ {c} : id[d] # id[c]

ReaderInside(c) ==
  reader[c] \in {"global", "front", "back", "compute", "first", "min", "max",
                 "share", "leaveG", "leaveC"}
GlobalInside(c) ==
  reader[c] \in {"front", "back", "compute", "first", "min", "max", "share", "leaveG"}
MainInside(c) == main[c] \in {"copy", "send", "leave"}

Contents == Requests \cup {Blank, Hash}
Outcomes == {0} \cup {r.value : r \in Requests}
Records  == [front : Contents, back : Contents, result : Outcomes,
             min : Outcomes, max : Outcomes]

TypeOK ==
  /\ server \in {"accepting", "ended"}
  /\ conn \in [Clients -> {"none", "open", "gone"}]
  /\ main \in [Clients -> {"new", "shmget", "semget", "shmat", "setval", "start",
                           "wait", "copy", "send", "leave", "check", "ended"}]
  /\ timer \in [Clients -> {"new", "wait", "leave", "check", "ended"}]
  /\ reader \in [Clients -> {"new", "read", "client", "global", "front", "back",
                             "compute", "first", "min", "max", "share", "leaveG",
                             "leaveC", "check", "ended"}]
  /\ key \in [Clients -> Keys \cup {None}]
  /\ id \in [Clients -> Ids \cup {None}]
  /\ segOf \in [Keys -> Ids \cup {None}]
  /\ semOf \in [Keys -> Ids \cup {None}]
  /\ given \in SUBSET Ids
  /\ val \in [Ids -> Nat]
  /\ adj \in [Clients \X Processes -> {-1, 0, 1}]
  /\ gsem \in {-1, 0, 1}
  /\ mem \in [Ids -> Records]
  /\ in \in [Clients -> Contents]
  /\ out \in [Clients -> Records]
  /\ trace \in [min : Outcomes, max : Outcomes]
  /\ seen \in SUBSET Outcomes

(* Of the three processes of a connection at most one is inside, also      *)
(* while and after the consumer removes the semaphore, unless another      *)
(* connection has come to share it.                                        *)
OneInside ==
  \A c \in Clients : Alone(c) =>
    /\ ~(ReaderInside(c) /\ MainInside(c))
    /\ ~(timer[c] = "leave" /\ (ReaderInside(c) \/ MainInside(c)))

(* Two readers are never at the extrema together, not even when a failing  *)
(* connection or the end of the server has removed the global semaphore,   *)
(* and whichever memory they share.                                        *)
OneAtTheExtrema ==
  \A c, d \in Clients : GlobalInside(c) /\ GlobalInside(d) => c = d

(* What is sent belongs together: the description and the result to the    *)
(* numbers, and the result lies between the extrema.                       *)
SendsCoherent ==
  \A c \in Clients : main[c] = "leave" /\ Alone(c) =>
    /\ out[c].front = out[c].back \/ out[c].front = Hash
    /\ out[c].front.op = "calc" =>
         /\ out[c].result = out[c].front.value
         /\ out[c].min <= out[c].result /\ out[c].result <= out[c].max

Extrema == INSTANCE RunningExtrema WITH
  Results <- Outcomes, lo <- trace.min, hi <- trace.max, seen <- seen

(* The shared pair is exact for all connections together, except between   *)
(* the two stores of a reader.                                             *)
ExtremaExact ==
  (\E c \in Clients : reader[c] \in {"min", "max"}) \/ Extrema!Extremal

(* A consumer that looks at the record without the semaphore hangs up on a *)
(* whole quit request, or on the numbers of a new request beside the       *)
(* description of the one before, which its reader is just replacing.      *)
HangsUpOnQuit ==
  [][\A c \in Clients : Alone(c) /\ main[c] = "check" /\ main'[c] = "ended" =>
       \/ reader[c] = "back"
       \/ LET r == mem[id[c]]
          IN  r.front = r.back /\ r.front.op = "dollar" /\ r.front.text = "quit"]_vars

(* Connections whose keys differ work on different memory, although each   *)
(* attaches whichever segment has its semaphore's identifier.              *)
KeysSeparateMemory ==
  \A c, d \in Clients :
    Attached(c) /\ Attached(d) /\ key[c] # key[d] => id[c] # id[d]

(* Every connection has memory of its own: "Client unique shared memory",  *)
(* server.c:118.  ftok does not give that.                                 *)
ClientUniqueMemory ==
  \A c, d \in Clients : Attached(c) /\ Attached(d) /\ id[c] = id[d] => c = d

(* A reader that has calculated a quit request is followed by the other    *)
(* two processes, unless a new connection comes to share their memory.     *)
QuitEndsConnection ==
  \A c \in Clients :
    (reader[c] = "check" /\ IsQuit(mem[id[c]]) /\ Alone(c))
      ~> (~Alone(c) \/ (reader[c] = "ended" /\ timer[c] = "ended" /\ main[c] = "ended"))
=============================================================================
