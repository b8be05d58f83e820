---------------------------- MODULE EchoServers ----------------------------
(***************************************************************************)
(* The echo servers of tcp-echo and tcp-echo-py in their five designs:     *)
(*   "single"  serves one connection and ends;                             *)
(*   "mt"      a thread per connection;                                    *)
(*   "mp"      a process per connection;                                   *)
(*   "select"  one process, select, a table of MAX_CLIENTS slots (C);      *)
(*   "epoll"   one process, epoll, edge-triggered (C) or level-triggered.  *)
(* To send on a broken connection is SIGPIPE in C and an exception in      *)
(* Python; an exception ends the thread, process or loop it is raised in.  *)
(*                                                                         *)
(* Abstractions.  A read and the echo of what was read are one step: its   *)
(* process does nothing in between and nobody else uses the buffer.  A     *)
(* buffer that is full gets its terminating zero; what that overwrites is  *)
(* left out.  decode in Python, which only printing needs, accepts what it *)
(* is given.  epoll reports all its events at once.                        *)
(***************************************************************************)
EXTENDS Sockets

CONSTANT MaxSlots   \* MAX_CLIENTS of the select server in C

ASSUME MaxSlotsAssumption == MaxSlots \in Nat

VARIABLES
  design, lang,   \* "c" or "py"
  life,           \* of main: "up", "ended", "sigpipe" or "raised"
  worker,         \* what serves a connection: "none", "serving", "gone" or "spinning"
  slots,          \* client_sockets, clients: those the select loop watches
  todo,           \* the descriptors reported that the loop has still to look at
  refused         \* history: connections closed although their clients are there

echoVars == <<life, worker, slots, todo, refused>>
chosen == <<design, lang>>

Listener == "server_fd"

ASSUME ListenerAssumption == Listener \notin Conns

Designs == {"single", "mt", "mp", "select", "epoll"}

EchoInit ==
  /\ life = "up"
  /\ worker = [c \in Conns |-> "none"]
  /\ slots = {}
  /\ todo = {}
  /\ refused = {}

Up(ds) == design \in ds /\ life = "up"

EdgeTriggered == design = "epoll" /\ lang = "c"

-----------------------------------------------------------------------------
(* Ends.                                                                   *)

(* Nothing of the server is left.                                          *)
Dies(how) ==
  /\ life' = how
  /\ held' = {}
  /\ worker' = [c \in Conns |-> IF worker[c] = "serving" THEN "gone" ELSE worker[c]]
  /\ slots' = {}
  /\ todo' = {}
  /\ UNCHANGED refused

(* The child of the C server for processes goes on into the loop of its    *)
(* parent, where accept fails for ever because server_fd is closed.        *)
AfterClient == IF design = "mp" /\ lang = "c" THEN "spinning" ELSE "gone"

(* The worker of c is over, in the way given; single is over with it.      *)
WorkerOver(c, way, how) ==
  IF design = "single" THEN Dies(how)
  ELSE /\ held' = held \ {c}
       /\ worker' = [worker EXCEPT ![c] = way]
       /\ UNCHANGED <<life, slots, todo, refused>>

-----------------------------------------------------------------------------
(* read and send of what was read; what becomes of the caller of send.     *)

Echo(c) ==
  /\ HasData(c)
  /\ Read(c)
  /\ Send(c, Chunk(c))
  /\ UNCHANGED <<sent, backlog>>

(* Mutant of Fails: what was read is sent in two parts, and the second one *)
(* meets the reset that the first one has called forth.                    *)
FailsInTwo(c) == client[c] \in {"left", "broken"} \/ (client[c] = "reset" /\ lang = "py")

Fails(c) == client[c] = "broken" \/ (client[c] = "reset" /\ lang = "py")

(* On a broken connection send may still succeed; the C servers do not     *)
(* look at what it returns.                                                *)
GoesOn(c) == client[c] = "reset" => lang = "c"

Failure == IF lang = "c" THEN "sigpipe" ELSE "raised"

-----------------------------------------------------------------------------
(* One connection, one worker: single, mt and mp.                          *)

StartWorker ==
  /\ Up({"single", "mt", "mp"})
  /\ backlog # << >>
  /\ design = "single" => held = {}
  /\ worker' = [worker EXCEPT ![Head(backlog)] = "serving"]
  /\ held' = held \cup {Head(backlog)}
  /\ AcceptNext
  /\ UNCHANGED <<news, life, slots, todo, refused>>

(* Mutant of StartFails: a fork that fails leaves the descriptor open.     *)
StartFailsForgets ==
  /\ Up({"mt", "mp"})
  /\ backlog # << >>
  /\ held' = held \cup {Head(backlog)}
  /\ AcceptNext
  /\ UNCHANGED <<news, life, worker, slots, todo, refused>>

(* pthread_create or fork fails.  The C servers go on; the one for threads *)
(* frees the memory but leaves the descriptor open.  The Python ones raise *)
(* and accept no more, while the workers they have go on.                  *)
StartFails ==
  /\ Up({"mt", "mp"})
  /\ backlog # << >>
  /\ IF design = "mt" /\ lang = "c"
     THEN held' = held \cup {Head(backlog)} /\ UNCHANGED refused
     ELSE refused' = refused \cup {Head(backlog)} /\ UNCHANGED held
  /\ life' = IF lang = "c" THEN "up" ELSE "ended"
  /\ AcceptNext
  /\ UNCHANGED <<news, worker, slots, todo>>

WorkerEchoes(c) ==
  /\ worker[c] = "serving"
  /\ Echo(c) /\ GoesOn(c)
  /\ UNCHANGED <<held, echoVars>>

(* SIGPIPE ends the process: all of it, or the child.                      *)
WorkerFails(c) ==
  /\ worker[c] = "serving"
  /\ Echo(c) /\ Fails(c)
  /\ IF design = "mt" /\ lang = "c" THEN Dies(Failure) ELSE WorkerOver(c, "gone", Failure)

(* read gives 0 or -1, or recv raises: the connection is closed.           *)
WorkerEnds(c) ==
  /\ worker[c] = "serving"
  /\ AtEnd(c) \/ HasError(c)
  /\ WorkerOver(c, AfterClient, IF HasError(c) /\ lang = "py" THEN Failure ELSE "ended")
  /\ UNCHANGED <<client, sent, inbox, got, backlog, news>>

WorkerStep ==
  \/ StartWorker \/ StartFails
  \/ \E c \in Conns : WorkerEchoes(c) \/ WorkerFails(c) \/ WorkerEnds(c)

-----------------------------------------------------------------------------
(* One process for all: select and epoll.                                  *)

Loop == Up({"select", "epoll"})

Ready ==
  {c \in slots : Readable(c) /\ (EdgeTriggered => c \in news)}
    \cup (IF backlog = << >> THEN {} ELSE {Listener})

Wait ==
  /\ Loop
  /\ todo = {} /\ Ready # {}
  /\ todo' = Ready
  /\ news' = news \ Ready
  /\ UNCHANGED <<client, sent, inbox, got, backlog, held, life, worker, slots, refused>>

(* select looks at the listening socket first, epoll in any order.         *)
Turn(f) == Loop /\ f \in todo /\ (design = "select" => Listener \notin todo \/ f = Listener)

Full == design = "select" /\ lang = "c" /\ Cardinality(slots) = MaxSlots

AcceptInLoop ==
  /\ Turn(Listener)
  /\ ~Full
  /\ slots' = slots \cup {Head(backlog)}
  /\ held' = held \cup {Head(backlog)}
  /\ AcceptNext
  /\ todo' = todo \ {Listener}
  /\ UNCHANGED <<news, life, worker, refused>>

(* All slots are taken, or epoll_ctl fails.                                *)
Refuse ==
  /\ Turn(Listener)
  /\ Full \/ EdgeTriggered
  /\ refused' = refused \cup {Head(backlog)}
  /\ AcceptNext
  /\ todo' = todo \ {Listener}
  /\ UNCHANGED <<news, held, life, worker, slots>>

(* Mutant of LoopEchoes: the loop is left after one client.                *)
LoopBreaks(c) ==
  /\ Turn(c)
  /\ Echo(c) /\ GoesOn(c)
  /\ todo' = {}
  /\ UNCHANGED <<held, life, worker, slots, refused>>

LoopEchoes(c) ==
  /\ Turn(c)
  /\ Echo(c) /\ GoesOn(c)
  /\ todo' = todo \ {c}
  /\ UNCHANGED <<held, life, worker, slots, refused>>

LoopFails(c) ==
  /\ Turn(c)
  /\ Echo(c) /\ Fails(c)
  /\ Dies(Failure)

(* Mutant of Release: the slot is not cleared.                             *)
ReleaseKeepsSlot(c) ==
  /\ held' = held \ {c}
  /\ todo' = todo \ {c}
  /\ UNCHANGED <<life, worker, slots, refused>>

Release(c) ==
  /\ held' = held \ {c}
  /\ slots' = slots \ {c}
  /\ todo' = todo \ {c}
  /\ UNCHANGED <<life, worker, refused>>

(* The end of the stream; for epoll in C an error as well.                 *)
LoopCloses(c) ==
  /\ Turn(c)
  /\ AtEnd(c) \/ (HasError(c) /\ EdgeTriggered)
  /\ Release(c)
  /\ UNCHANGED <<client, sent, inbox, got, backlog, news>>

(* read gives -1 and the select server in C takes this for a length: it    *)
(* sends on what is now a broken connection.  Python raises.               *)
LoopReadFails(c) ==
  /\ Turn(c)
  /\ HasError(c) /\ ~EdgeTriggered
  /\ client' = [client EXCEPT ![c] = "broken"]
  /\ \/ Dies(Failure)
     \/ /\ lang = "c"
        /\ todo' = todo \ {c}
        /\ UNCHANGED <<held, life, worker, slots, refused>>
  /\ UNCHANGED <<sent, inbox, got, backlog, news>>

LoopStep ==
  \/ Wait \/ AcceptInLoop \/ Refuse
  \/ \E c \in Conns : LoopEchoes(c) \/ LoopFails(c) \/ LoopCloses(c) \/ LoopReadFails(c)

-----------------------------------------------------------------------------
(* accept fails.  The C servers for threads, for processes and for epoll   *)
(* try again, and nothing has changed; workers in Python go on.            *)
AcceptFails ==
  /\ backlog # << >>
  /\ \/ Turn(Listener) /\ ~EdgeTriggered /\ Dies("ended")
     \/ Up({"single"}) /\ held = {} /\ Dies("ended")
     \/ /\ Up({"mt", "mp"}) /\ lang = "py"
        /\ life' = "ended"
        /\ UNCHANGED <<held, worker, slots, todo, refused>>
  /\ UNCHANGED <<client, sent, inbox, got, backlog, news>>

EchoStep == design \in Designs /\ (WorkerStep \/ LoopStep \/ AcceptFails)

-----------------------------------------------------------------------------
(* Properties.                                                             *)

(* The C server for threads keeps a descriptor that no thread knows.       *)
Orphan(c) == design = "mt" /\ lang = "c" /\ c \in held /\ worker[c] = "none"

(* Every descriptor that is open is looked after by one thread, process or *)
(* slot, and no closed one is: except for the one orphan that a failed     *)
(* pthread_create leaves.  A client that is still there loses its          *)
(* connection only if it was refused, or if the server ends.               *)
DescriptorsLookedAfter == design \in Designs =>
  /\ \A c \in held : Orphan(c) \/ (worker[c] = "serving" <=> c \notin slots)
  /\ slots \subseteq held
  /\ \A c \in Conns : worker[c] = "serving" => c \in held
  /\ todo \subseteq slots \cup {Listener}
  /\ \A c \in Conns : client[c] = "open" =>
        c \in held \/ Queued(c) \/ c \in refused \/ life # "up"

Owed(c) == sent[c] - Len(got[c])

(* SIGPIPE or an exception ends a server only because of a client that     *)
(* left while two of its buffers were not echoed yet, or one that left     *)
(* with echoes unread.  No client can end the servers for processes, nor   *)
(* the one for threads in Python, for the others.                          *)
LeaversAreHarmless ==
  /\ life \in {"sigpipe", "raised"} =>
       \E c \in Conns : /\ client[c] \in {"reset", "broken"}
                        /\ \/ Owed(c) >= 2
                           \/ got[c] # << >> /\ (design = "select" \/ lang = "py")
  /\ design = "mp" \/ (design = "mt" /\ lang = "py") => life \in {"up", "ended"}

(* An edge-triggered descriptor that can be read, after one read at least, *)
(* but has nothing new to report.                                          *)
Stranded(c) ==
  /\ EdgeTriggered /\ got[c] # << >>
  /\ c \in held /\ Readable(c) /\ c \notin news \cup todo

(* When all is said, a client that has stayed has been echoed everything   *)
(* it has written, in order, as long as the server is there and accepted   *)
(* it.  The edge-triggered server may leave what does not fit into one     *)
(* buffer where it is.                                                     *)
EchoedInFull ==
  <>[](design \in Designs /\ life = "up" =>
         \A c \in Conns : client[c] = "open" =>
            \/ got[c] = [n \in 1 .. sent[c] |-> <<c, n>>]
            \/ c \in refused \/ Orphan(c) \/ Stranded(c)
            \/ design = "single" /\ Queued(c))

(* The descriptor of every client that is gone is given back, whatever was *)
(* still unread or on its way.                                             *)
EveryoneIsReleased ==
  <>[](design \in Designs =>
         \A c \in held : client[c] = "open" \/ Orphan(c) \/ Stranded(c))
=============================================================================
