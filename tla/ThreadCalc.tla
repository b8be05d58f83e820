----------------------------- MODULE ThreadCalc -----------------------------
(***************************************************************************)
(* The threaded calculator server, socket-hw/HW6/server.c.                 *)
(*                                                                         *)
(* Every connection gets three threads that share one malloc'ed record:    *)
(* handle_client ("main") reads requests and computes, producer ("prod")   *)
(* stamps the time, consumer ("cons") sends the record to the client every *)
(* ten seconds.  One mutex protects all records and the global extrema.    *)
(* All three look for the quit request in the record AFTER they have       *)
(* released the mutex.                                                     *)
(*                                                                         *)
(* Abstractions.  A connection and the handler created for it share one    *)
(* name, but a handler may end up serving another connection (see Start).  *)
(* Of the record only what reaches a decision is kept: the result, the     *)
(* extrema copied next to it and whether the request in it is the quit     *)
(* request; the operands, the text and the time stamp are left out.        *)
(* Sleeps are steps that may take any time.                                *)
(***************************************************************************)
EXTENDS Integers

CONSTANTS
  Conns,      \* connections, and the handlers created for them
  NoConn,     \* no connection
  Results,    \* what +, -, x and / can yield
  Ops         \* the kinds of requests that clients make

ASSUME ConstantsAssumption ==
  /\ NoConn \notin Conns
  /\ Results \subseteq Int
  /\ Ops \subseteq {"calc", "error", "trap", "hash", "quit"}

(* "error" is an unknown operator or a division by zero, "trap" is         *)
(* INT_MIN / -1, "hash" is the operator '#'.                               *)
Requests == [op : Ops \cap {"calc"}, value : Results]
              \cup [op : Ops \ {"calc"}]

NoRequest == [op |-> "none"]

Outcomes == Results \cup {0}

Records == [result : Outcomes, min : Outcomes, max : Outcomes, quit : BOOLEAN]

ZeroRecord == [result |-> 0, min |-> 0, max |-> 0, quit |-> FALSE]

Free == <<"nobody", "">>

VARIABLES
  life,        \* "up", or what ended the process
  latest,      \* main's variable client_fd, whose address the threads get
  peer,        \* the client's end of a connection
  closed,      \* the connections whose descriptor the server has closed
  fd,          \* the connection a handler serves
  main, prod, cons,   \* where the three threads of a handler are
  req,         \* the request handle_client has read
  data,        \* the record the three threads share
  heap,        \* the contents of the records that have been freed
  mutex,       \* the thread that holds t_lock, or Free
  globalMin, globalMax,
  recorded,    \* history: see seen in RunningExtrema
  recycled,    \* history: the handlers that malloc gave a freed record
  echoed,      \* history: the connections that got a quit record back
  rude         \* history: those left by a client that got no answer to quit

netVars   == <<latest, peer, closed, fd, echoed, rude>>
memVars   == <<heap, recycled>>
statVars  == <<globalMin, globalMax, recorded>>
vars == <<life, netVars, main, prod, cons, req, data, memVars, mutex, statVars>>

MainLocations == {"off", "start", "loop", "read", "lock", "compute", "stats",
                  "publish", "check", "join", "done", "gone"}
HelperLocations == {"off", "lock", "inside", "check", "done"}

Init ==
  /\ life = "up"
  /\ latest = NoConn
  /\ peer = [c \in Conns |-> "absent"]
  /\ closed = {}
  /\ fd = [h \in Conns |-> NoConn]
  /\ main = [h \in Conns |-> "off"]
  /\ prod = [h \in Conns |-> "off"]
  /\ cons = [h \in Conns |-> "off"]
  /\ req = [h \in Conns |-> NoRequest]
  /\ data = [h \in Conns |-> ZeroRecord]
  /\ heap = {}
  /\ recycled = {}
  /\ mutex = Free
  /\ globalMin = 0
  /\ globalMax = 0
  /\ recorded = {}
  /\ echoed = {}
  /\ rude = {}

MainTo(h, from, to) == main[h] = from /\ main' = [main EXCEPT ![h] = to]
ProdTo(h, from, to) == prod[h] = from /\ prod' = [prod EXCEPT ![h] = to]
ConsTo(h, from, to) == cons[h] = from /\ cons' = [cons EXCEPT ![h] = to]

(* Mutant of Acquire: nobody waits.                                        *)
AcquireUnchecked(h, role) == mutex' = <<h, role>>

Acquire(h, role) == mutex = Free /\ mutex' = <<h, role>>

-----------------------------------------------------------------------------
(* main and the clients.                                                   *)

Accept(c) ==
  /\ peer[c] = "absent"
  /\ peer' = [peer EXCEPT ![c] = "open"]
  /\ latest' = c
  /\ MainTo(c, "off", "start")
  /\ UNCHANGED <<life, closed, fd, echoed, rude, prod, cons, req, data, memVars,
                 mutex, statVars>>

(* accept fails: main leaves its loop and returns, which ends the process. *)
AcceptFails ==
  /\ life' = "accept"
  /\ UNCHANGED <<netVars, main, prod, cons, req, data, memVars, mutex, statVars>>

(* The client program ends.  It is rude unless it has been told that its   *)
(* quit was seen, by a quit record or by the end of the stream.            *)
EndOfStream(c) ==
  c \in closed /\ \A h \in Conns : fd[h] = c => main[h] # "read"

ClientLeaves(c) ==
  /\ peer[c] = "open"
  /\ peer' = [peer EXCEPT ![c] = "left"]
  /\ rude' = IF c \in echoed \/ EndOfStream(c) THEN rude ELSE rude \cup {c}
  /\ UNCHANGED <<life, latest, closed, fd, echoed, main, prod, cons, req, data,
                 memVars, mutex, statVars>>

-----------------------------------------------------------------------------
(* handle_client.                                                          *)

(* The thread reads the descriptor through the pointer into main's stack:  *)
(* if main has accepted again by then, it gets the later connection.  The  *)
(* record is not cleared: malloc returns fresh memory, all zeros, or the   *)
(* memory of a record freed before, as it was left.                        *)
Start(h) ==
  /\ MainTo(h, "start", "loop")
  /\ fd' = [fd EXCEPT ![h] = latest]
  /\ \/ data' = [data EXCEPT ![h] = ZeroRecord] /\ UNCHANGED memVars
     \/ \E r \in heap : /\ data' = [data EXCEPT ![h] = r]
                        /\ heap' = heap \ {r}
                        /\ recycled' = recycled \cup {h}
  /\ ProdTo(h, "off", "lock")
  /\ ConsTo(h, "off", "lock")
  /\ UNCHANGED <<life, latest, peer, closed, echoed, rude, req, mutex, statVars>>

(* Entering read: on a closed descriptor it fails, and the thread returns  *)
(* without freeing the record or stopping the other two.                   *)
EnterRead(h) ==
  /\ MainTo(h, "loop", IF fd[h] \in closed THEN "gone" ELSE "read")
  /\ UNCHANGED <<life, netVars, prod, cons, req, data, memVars, mutex, statVars>>

ReadRequest(h, r) ==
  /\ MainTo(h, "read", "lock")
  /\ peer[fd[h]] = "open"
  /\ req' = [req EXCEPT ![h] = r]
  /\ UNCHANGED <<life, netVars, prod, cons, data, memVars, mutex, statVars>>

ReadEnd(h) ==
  /\ MainTo(h, "read", "gone")
  /\ peer[fd[h]] # "open"
  /\ UNCHANGED <<life, netVars, prod, cons, req, data, memVars, mutex, statVars>>

Lock(h) ==
  /\ MainTo(h, "lock", "compute")
  /\ Acquire(h, "main")
  /\ UNCHANGED <<life, netVars, prod, cons, req, data, memVars, statVars>>

(* A record once request r has been copied into it and carried out, and    *)
(* once the extrema have been copied into it.                              *)
Requested(old, r) ==
  [result |-> IF r.op = "calc" THEN r.value ELSE old.result,
   min    |-> old.min,
   max    |-> old.max,
   quit   |-> r.op = "quit"]

Published(old) ==
  [result |-> old.result, min |-> globalMin, max |-> globalMax, quit |-> old.quit]

(* The request is copied into the record and the operation carried out.    *)
Compute(h) ==
  /\ req[h].op \in {"calc", "error", "quit"}
  /\ MainTo(h, "compute", "stats")
  /\ data' = [data EXCEPT ![h] = Requested(@, req[h])]
  /\ UNCHANGED <<life, netVars, prod, cons, req, memVars, mutex, statVars>>

(* '#': continue, with the mutex held.                                     *)
ComputeHash(h) ==
  /\ req[h].op = "hash"
  /\ MainTo(h, "compute", "loop")
  /\ data' = [data EXCEPT ![h] = Requested(@, req[h])]
  /\ UNCHANGED <<life, netVars, prod, cons, req, memVars, mutex, statVars>>

(* The division traps and SIGFPE ends the process.                         *)
ComputeTraps(h) ==
  /\ main[h] = "compute"
  /\ req[h].op = "trap"
  /\ life' = "sigfpe"
  /\ UNCHANGED <<netVars, main, prod, cons, req, data, memVars, mutex, statVars>>

(* Mutant of UpdateStats: no test for the sentinel.                        *)
UpdateStatsAlways(h) ==
  LET r == data[h].result
  IN  /\ MainTo(h, "stats", "publish")
      /\ globalMin' = IF r < globalMin THEN r ELSE globalMin
      /\ globalMax' = IF r > globalMax THEN r ELSE globalMax
      /\ recorded' = IF recorded = {} /\ r = 0 THEN {} ELSE recorded \cup {r}
      /\ UNCHANGED <<life, netVars, prod, cons, req, data, memVars, mutex>>

(* Mutant of UpdateStats: no comparison with the old extrema.              *)
UpdateStatsOverwrites(h) ==
  /\ MainTo(h, "stats", "publish")
  /\ globalMin' = data[h].result
  /\ globalMax' = data[h].result
  /\ recorded' = recorded \cup {data[h].result}
  /\ UNCHANGED <<life, netVars, prod, cons, req, data, memVars, mutex>>

UpdateStats(h) ==
  LET r == data[h].result
      unset == globalMax = 0 /\ globalMin = 0
  IN  /\ MainTo(h, "stats", "publish")
      /\ globalMin' = IF unset \/ r < globalMin THEN r ELSE globalMin
      /\ globalMax' = IF unset \/ r > globalMax THEN r ELSE globalMax
      /\ recorded' = IF recorded = {} /\ r = 0 THEN {} ELSE recorded \cup {r}
      /\ UNCHANGED <<life, netVars, prod, cons, req, data, memVars, mutex>>

(* The extrema are copied into the record and the mutex is released.       *)
Publish(h) ==
  /\ MainTo(h, "publish", "check")
  /\ data' = [data EXCEPT ![h] = Published(@)]
  /\ mutex' = Free
  /\ UNCHANGED <<life, netVars, prod, cons, req, memVars, statVars>>

(* Mutant of Check: the quit request is not looked for.                    *)
CheckIgnoresQuit(h) ==
  /\ MainTo(h, "check", "loop")
  /\ req' = [req EXCEPT ![h] = NoRequest]
  /\ UNCHANGED <<life, netVars, prod, cons, data, memVars, mutex, statVars>>

Check(h) ==
  /\ MainTo(h, "check", IF data[h].quit THEN "join" ELSE "loop")
  /\ req' = [req EXCEPT ![h] = NoRequest]
  /\ UNCHANGED <<life, netVars, prod, cons, data, memVars, mutex, statVars>>

(* Both pthread_join calls have returned; the record is freed.             *)
JoinAndFree(h) ==
  /\ MainTo(h, "join", "done")
  /\ prod[h] = "done"
  /\ cons[h] = "done"
  /\ heap' = heap \cup {data[h]}
  /\ UNCHANGED <<life, netVars, prod, cons, req, data, recycled, mutex, statVars>>

-----------------------------------------------------------------------------
(* producer.                                                               *)

ProducerLock(h) ==
  /\ ProdTo(h, "lock", "inside")
  /\ Acquire(h, "prod")
  /\ UNCHANGED <<life, netVars, main, cons, req, data, memVars, statVars>>

ProducerUnlock(h) ==
  /\ ProdTo(h, "inside", "check")
  /\ mutex' = Free
  /\ UNCHANGED <<life, netVars, main, cons, req, data, memVars, statVars>>

(* Mutant of ProducerCheck: the quit request is not looked for.            *)
ProducerIgnoresQuit(h) ==
  /\ ProdTo(h, "check", "lock")
  /\ UNCHANGED <<life, netVars, main, cons, req, data, memVars, mutex, statVars>>

ProducerCheck(h) ==
  /\ ProdTo(h, "check", IF data[h].quit THEN "done" ELSE "lock")
  /\ UNCHANGED <<life, netVars, main, cons, req, data, memVars, mutex, statVars>>

-----------------------------------------------------------------------------
(* consumer.                                                               *)

ConsumerLock(h) ==
  /\ ConsTo(h, "lock", "inside")
  /\ Acquire(h, "cons")
  /\ UNCHANGED <<life, netVars, main, prod, req, data, memVars, statVars>>

(* The record is written to the connection.  A client that has left makes  *)
(* the first write fail or be answered by a reset; the next one is fatal.  *)
Send(h) ==
  /\ ConsTo(h, "inside", "check")
  /\ mutex' = Free
  /\ fd[h] \in closed \/ peer[fd[h]] # "reset"
  /\ peer' = IF fd[h] \notin closed /\ peer[fd[h]] = "left"
             THEN [peer EXCEPT ![fd[h]] = "reset"] ELSE peer
  /\ echoed' = IF fd[h] \notin closed /\ peer[fd[h]] = "open" /\ data[h].quit
               THEN echoed \cup {fd[h]} ELSE echoed
  /\ UNCHANGED <<life, latest, closed, fd, rude, main, prod, req, data, memVars, statVars>>

SendIsFatal(h) ==
  /\ cons[h] = "inside"
  /\ fd[h] \notin closed
  /\ peer[fd[h]] = "reset"
  /\ life' = "sigpipe"
  /\ UNCHANGED <<netVars, main, prod, cons, req, data, memVars, mutex, statVars>>

(* Mutant of ConsumerCheck: the quit request is not looked for.            *)
ConsumerIgnoresQuit(h) ==
  /\ ConsTo(h, "check", "lock")
  /\ UNCHANGED <<netVars, life, main, prod, req, data, memVars, mutex, statVars>>

ConsumerCheck(h) ==
  /\ ConsTo(h, "check", IF data[h].quit THEN "done" ELSE "lock")
  /\ closed' = IF data[h].quit THEN closed \cup {fd[h]} ELSE closed
  /\ UNCHANGED <<life, latest, peer, fd, echoed, rude, main, prod, req, data,
                 memVars, mutex, statVars>>

-----------------------------------------------------------------------------
HandlerStep(h) ==
  \/ Start(h) \/ EnterRead(h) \/ ReadEnd(h) \/ Lock(h)
  \/ Compute(h) \/ ComputeHash(h) \/ ComputeTraps(h)
  \/ UpdateStats(h) \/ Publish(h) \/ Check(h) \/ JoinAndFree(h)

ProducerStep(h) == ProducerLock(h) \/ ProducerUnlock(h) \/ ProducerCheck(h)

ConsumerStep(h) == ConsumerLock(h) \/ Send(h) \/ SendIsFatal(h) \/ ConsumerCheck(h)

Environment ==
  \/ AcceptFails
  \/ \E c \in Conns :
       \/ Accept(c)
       \/ ClientLeaves(c)
       \/ \E r \in Requests : ReadRequest(c, r)

Next ==
  /\ life = "up"
  /\ \/ Environment
     \/ \E h \in Conns : HandlerStep(h) \/ ProducerStep(h) \/ ConsumerStep(h)

Spec == Init /\ [][Next]_vars

(* Every thread runs.  Whoever asks for t_lock again and again gets it:    *)
(* its holders keep it for a bounded time and then sleep for seconds or    *)
(* wait for a client before they ask again.                                *)
Fairness ==
  \A h \in Conns :
     /\ WF_vars(life = "up" /\ HandlerStep(h))
     /\ WF_vars(life = "up" /\ ProducerStep(h))
     /\ WF_vars(life = "up" /\ ConsumerStep(h))
     /\ SF_vars(life = "up" /\ Lock(h))
     /\ SF_vars(life = "up" /\ ProducerLock(h))
     /\ SF_vars(life = "up" /\ ConsumerLock(h))

FairSpec == Spec /\ Fairness

-----------------------------------------------------------------------------
(* Properties.                                                             *)

TypeOK ==
  /\ life \in {"up", "accept", "sigfpe", "sigpipe"}
  /\ latest \in Conns \cup {NoConn}
  /\ peer \in [Conns -> {"absent", "open", "left", "reset"}]
  /\ closed \in SUBSET Conns
  /\ fd \in [Conns -> Conns \cup {NoConn}]
  /\ main \in [Conns -> MainLocations]
  /\ prod \in [Conns -> HelperLocations]
  /\ cons \in [Conns -> HelperLocations]
  /\ req \in [Conns -> Requests \cup {NoRequest}]
  /\ data \in [Conns -> Records]
  /\ heap \in SUBSET Records
  /\ recycled \in SUBSET Conns
  /\ mutex \in {Free} \cup (Conns \X {"main", "prod", "cons"})
  /\ globalMin \in Outcomes
  /\ globalMax \in Outcomes
  /\ recorded \in SUBSET Outcomes
  /\ echoed \in SUBSET Conns
  /\ rude \in SUBSET Conns

(* The record a consumer sends is never caught between a new result and    *)
(* the extrema that take it into account.                                  *)
PacketCoherent ==
  \A h \in Conns :
     cons[h] = "inside" => /\ data[h].min <= data[h].result
                           /\ data[h].result <= data[h].max

(* No client is told a range wider than that of all connections' results.  *)
PacketWithinGlobals ==
  \A h \in Conns :
     cons[h] = "inside" =>
        \/ data[h].min = 0 /\ data[h].max = 0
        \/ globalMin <= data[h].min /\ data[h].max <= globalMax

SharedConnection == \E g, h \in Conns : g # h /\ fd[g] = fd[h] /\ fd[g] # NoConn

(* A client that stays until its quit is answered cannot end the server:   *)
(* SIGPIPE takes a client that left before, two handlers on one connection *)
(* or a handler that found an old quit request in its record.              *)
PoliteClientsAreHarmless ==
  life = "sigpipe" => rude # {} \/ SharedConnection \/ recycled # {}

(* The server hangs up only on a client that has asked for it, or whose    *)
(* handler found the quit request of an earlier client in its record.      *)
HangsUpOnQuitOnly ==
  \A c \in closed :
     \E h \in Conns :
        /\ fd[h] = c
        /\ \/ h \in recycled
           \/ /\ data[h].quit
              /\ main[h] \in {"stats", "publish", "check", "join", "done"}

(* The mutex is lost: a handler went round its loop with it.               *)
Wedged ==
  \E h \in Conns :
     mutex = <<h, "main">> /\ main[h] \in {"loop", "read", "lock", "gone"}

(* One '#' from one client stops every calculation and every packet of     *)
(* every connection for good.                                              *)
HashStopsEveryone ==
  [][Wedged => Wedged' /\ UNCHANGED <<statVars, echoed>>]_vars

(* A quit is completed, its threads joined and its record freed, unless    *)
(* the mutex is lost or the process ends.                                  *)
QuitCompletes ==
  \A h \in Conns :
     (main[h] = "publish" /\ data[h].quit)
        ~> (main[h] = "done" \/ Wedged \/ life # "up")

Extrema == INSTANCE RunningExtrema WITH
  Results <- Outcomes, lo <- globalMin, hi <- globalMax, seen <- recorded

(* The global extrema are those of the results of all connections.         *)
StatsImplementExtrema == Extrema!ESpec

-----------------------------------------------------------------------------
(* The inductive invariant behind PacketCoherent.                          *)

(* A handler that runs has a connection, even if it is not its own.        *)
ServedInv ==
  \A h \in Conns :
     /\ main[h] # "off" => latest \in Conns
     /\ cons[h] # "off" => fd[h] \in Conns

(* Whoever is in a critical section holds the mutex.                       *)
MutexInv ==
  \A h \in Conns :
     /\ main[h] \in {"compute", "stats", "publish"} => mutex = <<h, "main">>
     /\ prod[h] = "inside" => mutex = <<h, "prod">>
     /\ cons[h] = "inside" => mutex = <<h, "cons">>

Coherent(r) == r.min <= r.result /\ r.result <= r.max

(* Only a handler that is updating its record has an incoherent one.       *)
RecordInv ==
  /\ \A h \in Conns : main[h] \notin {"stats", "publish"} => Coherent(data[h])
  /\ \A h \in Conns : main[h] = "publish" => /\ globalMin <= data[h].result
                                            /\ data[h].result <= globalMax
  /\ \A r \in heap : Coherent(r)

(* Behind PacketWithinGlobals: published ranges only grow stale.           *)
Within(r) ==
  /\ r.min <= r.max
  /\ \/ r.min = 0 /\ r.max = 0
     \/ globalMin <= r.min /\ r.max <= globalMax

RangeInv ==
  /\ globalMin <= globalMax
  /\ \A h \in Conns : Within(data[h])
  /\ \A r \in heap : Within(r)

PacketInv == TypeOK /\ ServedInv /\ MutexInv /\ RecordInv
=============================================================================
