---------------------------- MODULE StreamsProofs ----------------------------
(***************************************************************************)
(* Proofs about the ten echo servers and the chat server of MCStreams, for *)
(* every number of connections, slots, units that are written and units    *)
(* that one read takes.                                                    *)
(***************************************************************************)
EXTENDS MCStreams, SequenceTheorems, FiniteSetTheorems, TLAPS

OneWorkerEach == {"single", "mt", "mp"}
OneForAll     == {"select", "epoll"}

Units == Conns \X Int

-----------------------------------------------------------------------------
(* The backlog.                                                            *)

BacklogInv ==
  /\ backlog \in Seq(Conns)
  /\ \A i, j \in DOMAIN backlog : backlog[i] = backlog[j] => i = j

(* Accepting takes the first connection off the backlog, and only that.    *)
LEMMA AcceptTakesHead ==
  ASSUME BacklogInv, backlog # << >>, AcceptNext
  PROVE  /\ BacklogInv'
         /\ Head(backlog) \in Conns /\ Queued(Head(backlog))
         /\ \A c \in Conns : Queued(c)' <=> (Queued(c) /\ c # Head(backlog))
<1>1. backlog' = Tail(backlog) /\ backlog \in Seq(Conns)
    BY DEF AcceptNext, BacklogInv
<1>2. /\ Head(backlog) \in Conns /\ Head(backlog) = backlog[1]
      /\ Len(backlog) \in Nat \ {0} /\ DOMAIN backlog = 1 .. Len(backlog)
    BY <1>1, HeadTailProperties, EmptySeq, LenProperties
<1>3. /\ backlog' \in Seq(Conns) /\ DOMAIN backlog' = 1 .. Len(backlog) - 1
      /\ \A i \in 1 .. Len(backlog) - 1 : backlog'[i] = backlog[i + 1]
    BY <1>1, <1>2, HeadTailProperties, LenProperties
<1>4. ASSUME NEW i \in DOMAIN backlog', NEW j \in DOMAIN backlog', backlog'[i] = backlog'[j]
      PROVE  i = j
  <2>1. backlog[i + 1] = backlog[j + 1] /\ i + 1 \in DOMAIN backlog /\ j + 1 \in DOMAIN backlog
      BY <1>2, <1>3, <1>4
  <2>2. i + 1 = j + 1
      BY <2>1 DEF BacklogInv
  <2> QED BY <1>2, <1>3, <1>4, <2>2
<1>5. Queued(Head(backlog))
    BY <1>2 DEF Queued
<1>6. ASSUME NEW c \in Conns, Queued(c)' PROVE Queued(c) /\ c # Head(backlog)
  <2>1. PICK i \in DOMAIN backlog' : backlog'[i] = c
      BY <1>6 DEF Queued
  <2>2. i + 1 \in DOMAIN backlog /\ backlog[i + 1] = c /\ i + 1 # 1 /\ 1 \in DOMAIN backlog
      BY <1>2, <1>3, <2>1
  <2>3. c # backlog[1]
      BY <2>2 DEF BacklogInv
  <2> QED BY <1>2, <2>2, <2>3 DEF Queued
<1>7. ASSUME NEW c \in Conns, Queued(c), c # Head(backlog) PROVE Queued(c)'
  <2>1. PICK i \in DOMAIN backlog : backlog[i] = c
      BY <1>7 DEF Queued
  <2>2. i - 1 \in DOMAIN backlog' /\ backlog'[i - 1] = c
      BY <1>2, <1>3, <1>7, <2>1
  <2> QED BY <2>2 DEF Queued
<1> QED BY <1>2, <1>3, <1>4, <1>5, <1>6, <1>7 DEF BacklogInv

(* A connection joins the backlog at its end.                              *)
LEMMA ConnectQueues ==
  ASSUME BacklogInv, NEW c \in Conns, ~Queued(c), backlog' = Append(backlog, c)
  PROVE  BacklogInv' /\ \A d \in Conns : Queued(d)' <=> (Queued(d) \/ d = c)
<1>1. /\ Len(backlog) \in Nat /\ DOMAIN backlog = 1 .. Len(backlog)
      /\ backlog' \in Seq(Conns) /\ DOMAIN backlog' = 1 .. Len(backlog) + 1
      /\ \A i \in 1 .. Len(backlog) : backlog'[i] = backlog[i]
      /\ backlog'[Len(backlog) + 1] = c
    BY LenProperties DEF BacklogInv
<1>2. \A i \in DOMAIN backlog : backlog[i] # c
    BY DEF Queued
<1>3. \A i, j \in DOMAIN backlog' : backlog'[i] = backlog'[j] => i = j
    BY <1>1, <1>2 DEF BacklogInv
<1>4. \A d \in Conns : Queued(d)' <=> (Queued(d) \/ d = c)
    BY <1>1 DEF Queued
<1> QED BY <1>1, <1>3, <1>4 DEF BacklogInv

-----------------------------------------------------------------------------
(* Descriptors.  The steps of the ten programs are of five kinds, told by  *)
(* what they do to descriptors.                                            *)

ServedType ==
  /\ client \in [Conns -> {"off", "open", "left", "reset", "broken"}]
  /\ worker \in [Conns -> {"none", "serving", "gone", "spinning"}]
  /\ held \subseteq Conns
  /\ lang \in {"c", "py"}
  /\ design \in Designs

(* The designs with one worker for each connection have no slots, those    *)
(* with one process for all have no workers.                               *)
WatchInv ==
  /\ slots \subseteq held
  /\ todo \subseteq slots \cup {Listener}
  /\ Listener \in todo => backlog # << >>
  /\ \A c \in Conns : worker[c] = "serving" => c \in held
  /\ design \in OneWorkerEach =>
        slots = {} /\ todo = {} /\ \A c \in held : worker[c] = "serving" \/ Orphan(c)
  /\ design \in OneForAll => held \subseteq slots /\ \A c \in Conns : worker[c] = "none"

(* Nobody knows a connection that has not been accepted.                   *)
FreshInv ==
  \A c \in Conns : Queued(c) \/ client[c] = "off" => c \notin held /\ worker[c] = "none"

UnmadeInv == \A c \in Conns : client[c] = "off" => ~Queued(c)

OpenInv ==
  \A c \in Conns : client[c] = "open" => c \in held \/ Queued(c) \/ c \in refused \/ life # "up"

ServedInv == ServedType /\ BacklogInv /\ WatchInv /\ FreshInv /\ UnmadeInv /\ OpenInv

(* What a server does to a client, or a client by leaving.                 *)
ClientsGo ==
  /\ client' \in [Conns -> {"off", "open", "left", "reset", "broken"}]
  /\ \A c \in Conns : \/ client'[c] = client[c]
                      \/ client[c] # "off" /\ client'[c] \notin {"off", "open"}

(* Nothing is opened or closed.                                            *)
Rests ==
  /\ UNCHANGED <<backlog, held, worker, slots, refused, chosen>>
  /\ \/ todo' \subseteq todo
     \/ design \in OneForAll /\ todo' \subseteq slots \cup {Listener}
  /\ Listener \in todo' => backlog # << >>
  /\ life' = life \/ life' # "up"

(* The whole server ends.                                                  *)
Ends ==
  /\ UNCHANGED <<backlog, refused, chosen>>
  /\ held' = {} /\ slots' = {} /\ todo' = {}
  /\ worker' = [c \in Conns |-> IF worker[c] = "serving" THEN "gone" ELSE worker[c]]
  /\ life' # "up"

(* The descriptor of c is closed by the one who looks after it.            *)
Frees(c) ==
  /\ UNCHANGED <<backlog, refused, chosen, life>>
  /\ c \in held /\ client[c] \notin {"off", "open"}
  /\ held' = held \ {c} /\ slots' = slots \ {c} /\ todo' \subseteq todo \ {c}
  /\ \/ design \in OneForAll /\ UNCHANGED worker
     \/ /\ worker[c] = "serving" /\ design \in OneWorkerEach
        /\ \E way \in {"gone", "spinning"} : worker' = [worker EXCEPT ![c] = way]

(* The first connection of the backlog is accepted: it gets a worker or a  *)
(* slot, becomes the orphan, or is closed at once.                         *)
Accepts(h) ==
  /\ UNCHANGED <<chosen, client>>
  /\ backlog # << >> /\ h = Head(backlog) /\ AcceptNext
  /\ life' = life \/ life' # "up"
  /\ todo' = todo \ {Listener}
  /\ \/ /\ design \in OneWorkerEach /\ life = "up"
        /\ worker' = [worker EXCEPT ![h] = "serving"] /\ held' = held \cup {h}
        /\ UNCHANGED <<slots, refused>>
     \/ /\ design = "mt" /\ lang = "c"
        /\ held' = held \cup {h} /\ UNCHANGED <<worker, slots, refused>>
     \/ refused' = refused \cup {h} /\ UNCHANGED <<held, worker, slots>>
     \/ /\ design \in OneForAll /\ life = "up"
        /\ slots' = slots \cup {h} /\ held' = held \cup {h}
        /\ UNCHANGED <<worker, refused>>

LEMMA RestsServed ==
  ASSUME ServedInv, ClientsGo, Rests
  PROVE  ServedInv'
<1> USE DEF ServedInv, ClientsGo, Rests, chosen
<1>1. ServedType' /\ BacklogInv'
    BY DEF ServedType, BacklogInv
<1>2. \A c \in Conns : Queued(c)' <=> Queued(c)
    BY DEF Queued
<1>3. WatchInv'
    BY DEF WatchInv, Orphan, ServedType, OneForAll, OneWorkerEach
<1>4. FreshInv' /\ UnmadeInv' /\ OpenInv'
    BY <1>2 DEF FreshInv, UnmadeInv, OpenInv, ServedType
<1> QED BY <1>1, <1>3, <1>4

LEMMA EndsServed ==
  ASSUME ServedInv, ClientsGo, Ends
  PROVE  ServedInv'
<1> USE DEF ServedInv, ClientsGo, Ends, chosen
<1>1. ServedType' /\ BacklogInv'
    BY DEF ServedType, BacklogInv
<1>2. \A c \in Conns : Queued(c)' <=> Queued(c)
    BY DEF Queued
<1>3. WatchInv'
    BY DEF WatchInv, ServedType
<1>4. FreshInv' /\ UnmadeInv' /\ OpenInv'
    BY <1>2 DEF FreshInv, UnmadeInv, OpenInv, ServedType
<1> QED BY <1>1, <1>3, <1>4

LEMMA FreesServed ==
  ASSUME ServedInv, ClientsGo, NEW c \in Conns, Frees(c)
  PROVE  ServedInv'
<1> USE DEF ServedInv, ClientsGo, Frees, chosen
<1>1. ServedType' /\ BacklogInv'
    BY DEF ServedType, BacklogInv
<1>2. \A d \in Conns : Queued(d)' <=> Queued(d)
    BY DEF Queued
<1>3. \A d \in Conns : d # c => worker'[d] = worker[d]
    BY DEF ServedType
<1>4. WatchInv'
  <2>1. \A d \in held' : Orphan(d) => Orphan(d)'
      BY <1>3 DEF Orphan, ServedType
  <2>2. worker'[c] # "serving"
      BY DEF WatchInv, ServedType, OneForAll, OneWorkerEach
  <2> QED BY <1>3, <2>1, <2>2 DEF WatchInv, ServedType, OneForAll, OneWorkerEach
<1>5. ~Queued(c)
    BY DEF FreshInv
<1>6. FreshInv' /\ UnmadeInv' /\ OpenInv'
    BY <1>2, <1>3, <1>5 DEF FreshInv, UnmadeInv, OpenInv, ServedType
<1> QED BY <1>1, <1>4, <1>6

LEMMA AcceptsServed ==
  ASSUME ServedInv, NEW h, Accepts(h)
  PROVE  ServedInv'
<1> USE DEF ServedInv, Accepts, chosen
<1>1. /\ h \in Conns /\ Queued(h) /\ BacklogInv'
      /\ \A c \in Conns : Queued(c)' <=> (Queued(c) /\ c # h)
    BY AcceptTakesHead
<1>2. h \notin held /\ worker[h] = "none" /\ client[h] # "off"
    BY <1>1 DEF FreshInv, UnmadeInv
<1>3. ServedType'
    BY <1>1 DEF ServedType
<1>4. WatchInv'
  <2>1. slots' \subseteq held' /\ todo' \subseteq slots' \cup {Listener} /\ Listener \notin todo'
      BY DEF WatchInv
  <2>2. \A c \in Conns : worker'[c] = "serving" => c \in held'
      BY <1>1 DEF WatchInv, ServedType
  <2>3. ASSUME design \in OneWorkerEach
        PROVE  slots' = {} /\ todo' = {} /\ \A c \in held' : worker'[c] = "serving" \/ Orphan(c)'
    <3>1. slots' = {} /\ todo' = {}
        BY <2>3 DEF WatchInv, OneWorkerEach, OneForAll
    <3>2. \A c \in held : c # h /\ worker'[c] = worker[c]
        BY <1>1, <1>2 DEF ServedType
    <3>3. h \in held' => worker'[h] = "serving" \/ Orphan(h)'
        BY <1>1, <1>2, <2>3 DEF ServedType, Orphan, OneWorkerEach, OneForAll
    <3>4. \A c \in held : worker'[c] = "serving" \/ Orphan(c)'
        BY <2>3, <3>2 DEF WatchInv, Orphan
    <3> QED BY <3>1, <3>3, <3>4
  <2>4. ASSUME design \in OneForAll
        PROVE  held' \subseteq slots' /\ \A c \in Conns : worker'[c] = "none"
      BY <2>4 DEF WatchInv, OneWorkerEach, OneForAll
  <2> QED BY <2>1, <2>2, <2>3, <2>4 DEF WatchInv
<1>5. FreshInv' /\ UnmadeInv'
    BY <1>1, <1>2 DEF FreshInv, UnmadeInv, ServedType
<1>6. OpenInv'
    BY <1>1, <1>2 DEF OpenInv
<1> QED BY <1>1, <1>3, <1>4, <1>5, <1>6

LEMMA ConnectServed ==
  ASSUME ServedInv, NEW c \in Conns, Connect(c), UNCHANGED <<chosen, echoVars>>
  PROVE  ServedInv'
<1> USE DEF ServedInv, Connect, chosen, echoVars
<1>1. BacklogInv' /\ \A d \in Conns : Queued(d)' <=> (Queued(d) \/ d = c)
    BY ConnectQueues DEF UnmadeInv
<1>2. \A d \in Conns : d # c => client'[d] = client[d]
    BY DEF ServedType
<1>3. ServedType'
    BY DEF ServedType
<1>4. backlog' # << >>
    BY ConnectQueues, EmptySeq DEF BacklogInv, UnmadeInv
<1>5. WatchInv'
    BY <1>4 DEF WatchInv, Orphan
<1>6. FreshInv' /\ UnmadeInv' /\ OpenInv'
    BY <1>1, <1>2 DEF FreshInv, UnmadeInv, OpenInv, ServedType
<1> QED BY <1>1, <1>3, <1>5, <1>6

(* Every step of the echo servers is of one of these kinds.                *)
LEMMA SendGoes ==
  ASSUME ServedType, NEW c \in Conns, client[c] # "off", NEW data, Send(c, data)
  PROVE  ClientsGo
BY DEF ServedType, ClientsGo, Send

LEMMA ServersWait ==
  ASSUME ServedInv, Wait, UNCHANGED chosen
  PROVE  ServedInv'
<1>1. todo' \subseteq slots \cup {Listener} /\ design \in OneForAll /\ (Listener \in todo' => backlog # << >>)
    BY ListenerAssumption DEF Wait, Ready, Loop, Up, OneForAll, ServedInv, ServedType, WatchInv
<1>2. Rests /\ ClientsGo
    BY <1>1 DEF Wait, Rests, ClientsGo, ServedInv, ServedType
<1> QED BY <1>2, RestsServed

LEMMA WorkersServed ==
  ASSUME ServedInv, UNCHANGED chosen, NEW c \in Conns,
         WorkerEchoes(c) \/ WorkerFails(c) \/ WorkerEnds(c)
  PROVE  ServedInv'
<1>1. worker[c] = "serving" /\ c \in held /\ client[c] # "off"
    BY DEF WorkerEchoes, WorkerFails, WorkerEnds, ServedInv, WatchInv, FreshInv
<1>2. design \in OneWorkerEach /\ slots = {} /\ todo \subseteq {Listener}
    BY <1>1 DEF ServedInv, WatchInv, ServedType, Designs, OneWorkerEach, OneForAll
<1>3. CASE WorkerEchoes(c)
  <2>1. Rests /\ ClientsGo
      BY <1>1, <1>3, SendGoes
      DEF WorkerEchoes, Echo, Rests, echoVars, ServedInv, WatchInv
  <2> QED BY <2>1, RestsServed
<1>4. CASE WorkerFails(c)
  <2>1. ClientsGo /\ client[c] \notin {"off", "open"} /\ UNCHANGED backlog
      BY <1>1, <1>4, SendGoes DEF WorkerFails, Echo, Fails, ServedInv
  <2>2. CASE Dies(Failure)
    <3>1. Ends
        BY <2>1, <2>2 DEF Dies, Ends, Failure
    <3> QED BY <2>1, <3>1, EndsServed
  <2>3. CASE WorkerOver(c, "gone", Failure) /\ design # "single"
    <3>1. Frees(c)
        BY <1>1, <1>2, <2>1, <2>3, ListenerAssumption DEF WorkerOver, Frees
    <3> QED BY <2>1, <3>1, FreesServed
  <2> QED BY <1>4, <2>2, <2>3 DEF WorkerFails, WorkerOver
<1>5. CASE WorkerEnds(c)
  <2>1. ClientsGo /\ client[c] \notin {"off", "open"} /\ UNCHANGED backlog
      BY <1>1, <1>5 DEF WorkerEnds, AtEnd, HasError, ClientsGo, ServedInv, ServedType
  <2>2. CASE design = "single"
    <3>1. Ends
        BY <1>5, <2>1, <2>2 DEF WorkerEnds, WorkerOver, Dies, Ends, Failure
    <3> QED BY <2>1, <3>1, EndsServed
  <2>3. CASE design # "single"
    <3>1. Frees(c)
        BY <1>1, <1>2, <1>5, <2>1, <2>3, ListenerAssumption
        DEF WorkerEnds, WorkerOver, Frees, AfterClient
    <3> QED BY <2>1, <3>1, FreesServed
  <2> QED BY <2>2, <2>3
<1> QED BY <1>3, <1>4, <1>5

LEMMA AcceptingServed ==
  ASSUME ServedInv, UNCHANGED chosen,
         StartWorker \/ StartFails \/ AcceptInLoop \/ Refuse
  PROVE  ServedInv'
<1> DEFINE h == Head(backlog)
<1>1. CASE StartWorker
  <2>1. Accepts(h)
      BY <1>1, ListenerAssumption
      DEF StartWorker, Accepts, AcceptNext, Up, OneWorkerEach, ServedInv, WatchInv
  <2> QED BY <2>1, AcceptsServed
<1>2. CASE StartFails
  <2>1. Accepts(h)
      BY <1>2 DEF StartFails, Accepts, AcceptNext, Up, OneWorkerEach, ServedInv, WatchInv
  <2> QED BY <2>1, AcceptsServed
<1>3. CASE AcceptInLoop
  <2>1. Accepts(h)
      BY <1>3 DEF AcceptInLoop, Accepts, AcceptNext, Turn, Loop, Up, OneForAll, ServedInv, WatchInv
  <2> QED BY <2>1, AcceptsServed
<1>4. CASE Refuse
  <2>1. Accepts(h)
      BY <1>4 DEF Refuse, Accepts, AcceptNext, Turn, ServedInv, WatchInv
  <2> QED BY <2>1, AcceptsServed
<1> QED BY <1>1, <1>2, <1>3, <1>4

LEMMA LoopsServed ==
  ASSUME ServedInv, UNCHANGED chosen, NEW c \in Conns,
         LoopEchoes(c) \/ LoopFails(c) \/ LoopCloses(c) \/ LoopReadFails(c)
  PROVE  ServedInv'
<1>1. /\ design \in OneForAll /\ c \in slots /\ c \in held /\ client[c] # "off"
      BY ListenerAssumption
      DEF LoopEchoes, LoopFails, LoopCloses, LoopReadFails, Turn, Loop, Up, OneForAll,
          ServedInv, WatchInv, FreshInv
<1>2. CASE LoopEchoes(c)
  <2>1. Rests /\ ClientsGo
      BY <1>1, <1>2, SendGoes
      DEF LoopEchoes, Echo, Rests, ServedInv, WatchInv
  <2> QED BY <2>1, RestsServed
<1>3. CASE LoopFails(c)
  <2>1. ClientsGo
      BY <1>1, <1>3, SendGoes DEF LoopFails, Echo, ServedInv
  <2>2. Ends
      BY <1>3 DEF LoopFails, Echo, Dies, Ends, Failure
  <2> QED BY <2>1, <2>2, EndsServed
<1>4. CASE LoopCloses(c)
  <2>1. ClientsGo /\ Frees(c)
      BY <1>1, <1>4
      DEF LoopCloses, Release, AtEnd, HasError, Frees, ClientsGo, ServedInv, ServedType
  <2> QED BY <2>1, FreesServed
<1>5. CASE LoopReadFails(c)
  <2>1. ClientsGo
      BY <1>1, <1>5 DEF LoopReadFails, ClientsGo, ServedInv, ServedType
  <2>2. Ends \/ Rests
      BY <1>5 DEF LoopReadFails, Dies, Ends, Rests, Failure, ServedInv, WatchInv
  <2> QED BY <2>1, <2>2, EndsServed, RestsServed
<1> QED BY <1>2, <1>3, <1>4, <1>5

LEMMA AcceptFailureServed ==
  ASSUME ServedInv, UNCHANGED chosen, AcceptFails
  PROVE  ServedInv'
<1>1. ClientsGo
    BY DEF AcceptFails, ClientsGo, ServedInv, ServedType
<1>2. Ends \/ Rests
    BY DEF AcceptFails, Dies, Ends, Rests, ServedInv, WatchInv
<1> QED BY <1>1, <1>2, EndsServed, RestsServed

LEMMA ClientsServed ==
  ASSUME ServedInv, ClientStep
  PROVE  ServedInv'
<1>1. UNCHANGED <<chosen, echoVars>>
    BY DEF ClientStep
<1>2. PICK c \in Conns : Connect(c) \/ Write(c) \/ Leave(c)
    BY BoundsAssumption DEF ClientStep, ServedInv, ServedType, Designs
<1>3. CASE Connect(c)
    BY <1>1, <1>3, ConnectServed
<1>4. CASE Write(c) \/ Leave(c)
  <2>1. ClientsGo
      BY <1>4 DEF Write, Leave, ClientsGo, ServedInv, ServedType
  <2>2. Rests
      BY <1>1, <1>4 DEF Write, Leave, Rests, echoVars, ServedInv, WatchInv
  <2> QED BY <2>1, <2>2, RestsServed
<1> QED BY <1>2, <1>3, <1>4

LEMMA StepServed ==
  ASSUME ServedInv, [Next]_vars
  PROVE  ServedInv'
<1>1. CASE ClientStep
    BY <1>1, ClientsServed
<1>2. CASE EchoStep /\ UNCHANGED chosen
    BY <1>2, ServersWait, WorkersServed, AcceptingServed, LoopsServed, AcceptFailureServed
    DEF EchoStep, WorkerStep, LoopStep
<1>3. CASE UNCHANGED vars
  <2>1. Rests /\ ClientsGo
      BY <1>3
      DEF vars, socketVars, echoVars, Rests, ClientsGo, ServedInv, ServedType, WatchInv
  <2> QED BY <2>1, RestsServed
<1> QED
    BY <1>1, <1>2, <1>3 DEF Next, ServerStep, ServedInv, ServedType, Designs

-----------------------------------------------------------------------------
(* What becomes of the data, and whose fault the end of a server is.       *)

DataType ==
  /\ sent \in [Conns -> Nat]
  /\ inbox \in [Conns -> Seq(Units)]
  /\ got \in [Conns -> Seq(Units)]

LastRead(c) == got[c] # << >> /\ (design = "select" \/ lang = "py")

(* No unit is made up.  A connection that is reset has been sent echoes,   *)
(* and one that is broken has lost one, or was reset when it was read.     *)
AccountInv ==
  \A c \in Conns :
    /\ Owed(c) >= Len(inbox[c])
    /\ client[c] = "reset" => got[c] # << >>
    /\ client[c] = "broken" => Owed(c) > Len(inbox[c]) \/ LastRead(c)

Guilty(c) == client[c] \in {"reset", "broken"} /\ (Owed(c) >= 2 \/ LastRead(c))

(* Where a client has ended the server there is nobody left.               *)
EndInv ==
  life \in {"sigpipe", "raised"} =>
     /\ \A c \in Conns : worker[c] # "serving"
     /\ \E c \in Conns : Guilty(c)

ApartInv == design = "mp" \/ (design = "mt" /\ lang = "py") => life \in {"up", "ended"}

HarmInv == DataType /\ AccountInv /\ EndInv /\ ApartInv

(* A sequence cut in two.                                                  *)
LEMMA CutInTwo ==
  ASSUME NEW S, NEW s \in Seq(S), NEW n \in 1 .. Len(s)
  PROVE  /\ SubSeq(s, 1, n) \in Seq(S) /\ Len(SubSeq(s, 1, n)) = n
         /\ SubSeq(s, n + 1, Len(s)) \in Seq(S)
         /\ Len(SubSeq(s, n + 1, Len(s))) = Len(s) - n
<1>1. Len(s) \in Nat /\ \A i \in 1 .. Len(s) : s[i] \in S
    BY LenProperties, ElementOfSeq
<1>2. \A i \in 1 .. n : s[i] \in S
    BY <1>1
<1>3. \A i \in n + 1 .. Len(s) : s[i] \in S
    BY <1>1
<1>4. SubSeq(s, 1, n) \in Seq(S) /\ Len(SubSeq(s, 1, n)) = IF 1 <= n THEN n - 1 + 1 ELSE 0
    BY <1>2, SubSeqProperties
<1>5. n + 1 \in Int /\ Len(s) \in Int
    BY <1>1
<1>6. /\ SubSeq(s, n + 1, Len(s)) \in Seq(S)
      /\ Len(SubSeq(s, n + 1, Len(s))) = IF n + 1 <= Len(s) THEN Len(s) - (n + 1) + 1 ELSE 0
    BY <1>3, <1>5, SubSeqProperties
<1> QED BY <1>1, <1>4, <1>6

(* One read and the echo of what was read.                                 *)
LEMMA EchoMoves ==
  ASSUME ServedType, DataType, NEW c \in Conns, Echo(c)
  PROVE  /\ DataType'
         /\ Len(inbox[c]) > 0 /\ Len(inbox'[c]) < Len(inbox[c])
         /\ sent' = sent
         /\ IF client[c] = "open"
            THEN /\ client'[c] = "open" /\ got'[c] # << >>
                 /\ Len(got'[c]) - Len(got[c]) = Len(inbox[c]) - Len(inbox'[c])
            ELSE client'[c] = "broken" /\ got'[c] = got[c]
         /\ \A d \in Conns : d # c => /\ client'[d] = client[d] /\ got'[d] = got[d]
                                      /\ inbox'[d] = inbox[d]
<1> DEFINE n == Taken(c)
           s == inbox[c]
<1>1. /\ s \in Seq(Units) /\ Len(s) \in Nat \ {0} /\ DOMAIN s = 1 .. Len(s)
      /\ \A i \in 1 .. Len(s) : s[i] \in Units
    BY EmptySeq, LenProperties, ElementOfSeq DEF Echo, HasData, DataType
<1>2. n \in 1 .. Len(s)
    BY <1>1, SocketsAssumption DEF Taken
<1>3. /\ SubSeq(s, n + 1, Len(s)) \in Seq(Units)
      /\ Len(SubSeq(s, n + 1, Len(s))) = Len(s) - n
    BY <1>1, <1>2, CutInTwo
<1>4. Chunk(c) \in Seq(Units) /\ Len(Chunk(c)) = n
    BY <1>1, <1>2, CutInTwo DEF Chunk
<1>5. inbox' = [inbox EXCEPT ![c] = SubSeq(s, n + 1, Len(s))]
    BY DEF Echo, Read
<1>6. /\ inbox' \in [Conns -> Seq(Units)] /\ Len(inbox'[c]) = Len(s) - n
      /\ \A d \in Conns : d # c => inbox'[d] = inbox[d]
    BY <1>3, <1>5 DEF DataType
<1>7. /\ got[c] \in Seq(Units) /\ got[c] \o Chunk(c) \in Seq(Units)
      /\ Len(got[c]) \in Nat /\ Len(got[c] \o Chunk(c)) = Len(got[c]) + n
  <2>1. got[c] \in Seq(Units)
      BY DEF DataType
  <2> HIDE DEF n
  <2> QED BY <1>4, <2>1, ConcatProperties, LenProperties
<1>8. got[c] \o Chunk(c) # << >>
    BY <1>2, <1>7, EmptySeq
<1>9. /\ got' = [got EXCEPT ![c] = IF client[c] = "open" THEN got[c] \o Chunk(c) ELSE got[c]]
      /\ client' = [client EXCEPT ![c] = IF client[c] = "open" THEN client[c] ELSE "broken"]
      /\ sent' = sent
    BY DEF Echo, Send
<1>10. got' \in [Conns -> Seq(Units)]
    BY <1>7, <1>9 DEF DataType
<1>11. Len(inbox'[c]) < Len(s) /\ Len(s) > 0
    BY <1>1, <1>2, <1>6
<1>12. IF client[c] = "open"
       THEN client'[c] = "open" /\ got'[c] = got[c] \o Chunk(c)
       ELSE client'[c] = "broken" /\ got'[c] = got[c]
    BY <1>9 DEF DataType, ServedType
<1>13. \A d \in Conns : d # c => client'[d] = client[d] /\ got'[d] = got[d]
    BY <1>9 DEF DataType, ServedType
<1>14. Len(got[c] \o Chunk(c)) - Len(got[c]) = Len(s) - Len(inbox'[c])
    BY <1>1, <1>2, <1>6, <1>7
<1>15. DataType'
    BY <1>6, <1>9, <1>10 DEF DataType
<1> QED BY <1>6, <1>8, <1>9, <1>11, <1>12, <1>13, <1>14, <1>15

LEMMA EchoAccounts ==
  ASSUME ServedType, DataType, AccountInv, UNCHANGED chosen, NEW c \in Conns, Echo(c)
  PROVE  AccountInv'
<1>1. \A d \in Conns : Len(inbox[d]) \in Nat /\ Len(got[d]) \in Nat /\ sent[d] \in Nat
    BY LenProperties DEF DataType
<1>2. DataType' /\ \A d \in Conns : Len(inbox[d])' \in Nat /\ Len(got[d])' \in Nat
    BY EchoMoves, LenProperties DEF DataType
<1> SUFFICES ASSUME NEW d \in Conns
             PROVE  /\ Owed(d)' >= Len(inbox'[d])
                    /\ client'[d] = "reset" => got'[d] # << >>
                    /\ client'[d] = "broken" => Owed(d)' > Len(inbox'[d]) \/ LastRead(d)'
    BY DEF AccountInv
<1>3. CASE d # c
    BY <1>3, EchoMoves DEF AccountInv, Owed, LastRead, chosen
<1>4. CASE d = c
  <2>1. /\ sent[c] \in Nat /\ Len(got[c]) \in Nat /\ Len(got'[c]) \in Nat
        /\ Len(inbox[c]) \in Nat /\ Len(inbox'[c]) \in Nat
      BY <1>1, <1>2
  <2>2. sent'[c] = sent[c] /\ Len(inbox'[c]) < Len(inbox[c])
      BY EchoMoves
  <2>3. Owed(c) = sent[c] - Len(got[c]) /\ Owed(c)' = sent'[c] - Len(got'[c])
      BY DEF Owed
  <2>4. Owed(c) >= Len(inbox[c])
      BY DEF AccountInv
  <2>5. CASE client[c] = "open"
    <3>1. Len(got'[c]) - Len(got[c]) = Len(inbox[c]) - Len(inbox'[c]) /\ client'[c] = "open"
        BY <2>5, EchoMoves
    <3> DEFINE s == sent[c]
               g == Len(got[c])
               h == Len(got'[c])
               i == Len(inbox[c])
               j == Len(inbox'[c])
    <3>2. s \in Int /\ g \in Int /\ h \in Int /\ i \in Int /\ j \in Int
        BY <2>1
    <3>3. h - g = i - j /\ s - g >= i
        BY <2>3, <2>4, <3>1
    <3>4. s - h >= j
      <4> HIDE DEF s, g, h, i, j
      <4> QED BY <3>2, <3>3
    <3>5. Owed(c)' >= Len(inbox'[c])
        BY <2>2, <2>3, <3>4
    <3> QED BY <1>4, <3>1, <3>5
  <2>6. CASE client[c] # "open"
    <3>1. got'[c] = got[c] /\ client'[c] = "broken"
        BY <2>6, EchoMoves
    <3>2. Owed(c)' > Len(inbox'[c]) /\ Owed(c)' >= Len(inbox'[c])
        BY <2>1, <2>2, <2>3, <2>4, <3>1
    <3> QED BY <1>4, <3>1, <3>2
  <2> QED BY <2>5, <2>6
<1> QED BY <1>3, <1>4

(* Sending on a connection that cannot be sent on is the client's doing.   *)
LEMMA FailureIsEarned ==
  ASSUME ServedType, DataType, AccountInv, UNCHANGED chosen, NEW c \in Conns, Echo(c), Fails(c)
  PROVE  Guilty(c)'
<1>1. client[c] \in {"broken", "reset"} /\ client'[c] = "broken" /\ got'[c] = got[c]
    BY EchoMoves DEF Fails
<1>2. Owed(c)' = Owed(c)
    BY <1>1, EchoMoves DEF Owed
<1>3. /\ sent[c] \in Nat /\ got[c] \in Seq(Units) /\ inbox[c] \in Seq(Units)
      /\ Len(inbox[c]) > 0
    BY EchoMoves DEF DataType
<1>4. Owed(c) \in Int /\ Len(inbox[c]) \in Nat \ {0}
    BY <1>3, LenProperties DEF Owed
<1>5. Owed(c) > Len(inbox[c]) \/ LastRead(c)
    BY <1>1 DEF Fails, AccountInv, LastRead
<1>6. LastRead(c)' = LastRead(c)
    BY <1>1 DEF LastRead, chosen
<1> QED BY <1>1, <1>2, <1>4, <1>5, <1>6 DEF Guilty

(* A step of a client: it changes no program and no descriptor.            *)
LEMMA ClientHarmless ==
  ASSUME ServedInv, HarmInv, ClientStep
  PROVE  HarmInv'
<1>1. UNCHANGED <<chosen, echoVars>>
    BY DEF ClientStep
<1>2. PICK c \in Conns : Connect(c) \/ Write(c) \/ Leave(c)
    BY BoundsAssumption DEF ClientStep, ServedInv, ServedType, Designs
<1>3. client \in [Conns -> {"off", "open", "left", "reset", "broken"}]
    BY DEF ServedInv, ServedType
<1>4. \A d \in Conns : /\ sent[d] \in Nat /\ Len(got[d]) \in Nat /\ Len(inbox[d]) \in Nat
                       /\ inbox[d] \in Seq(Units)
    BY LenProperties DEF HarmInv, DataType
<1>5. /\ got' = got
      /\ \A d \in Conns : \/ client'[d] = client[d]
                          \/ client'[d] \in {"open", "left"}
                          \/ client'[d] = "reset" /\ got[d] # << >>
    BY <1>2, <1>3 DEF Connect, Write, Leave
<1>6. \A d \in Conns : client[d] \in {"reset", "broken"} =>
         client'[d] = client[d] /\ inbox'[d] = inbox[d] /\ sent'[d] = sent[d]
    BY <1>2, <1>3 DEF Connect, Write, Leave, HarmInv, DataType
<1>7. DataType' /\ \A d \in Conns : Owed(d)' - Len(inbox'[d]) = Owed(d) - Len(inbox[d])
  <2>1. CASE Write(c)
    <3>1. <<c, sent[c] + 1>> \in Units
        BY <1>4 DEF Units
    <3>2. /\ sent' = [sent EXCEPT ![c] = sent[c] + 1]
          /\ inbox' = [inbox EXCEPT ![c] = Append(inbox[c], <<c, sent[c] + 1>>)]
        BY <2>1 DEF Write, HarmInv, DataType
    <3>3. /\ Append(inbox[c], <<c, sent[c] + 1>>) \in Seq(Units)
          /\ Len(Append(inbox[c], <<c, sent[c] + 1>>)) = Len(inbox[c]) + 1
        BY <1>4, <3>1
    <3>4. DataType'
        BY <1>4, <1>5, <3>2, <3>3 DEF HarmInv, DataType
    <3>5. sent'[c] = sent[c] + 1 /\ Len(inbox'[c]) = Len(inbox[c]) + 1
        BY <3>2, <3>3 DEF HarmInv, DataType
    <3> DEFINE n == sent[c]
               g == Len(got[c])
               i == Len(inbox[c])
    <3>6. Owed(c)' - Len(inbox'[c]) = Owed(c) - Len(inbox[c])
      <4>1. n \in Int /\ g \in Int /\ i \in Int
          BY <1>4
      <4>2. /\ Owed(c) = n - g /\ Len(inbox[c]) = i
            /\ Owed(c)' = (n + 1) - g /\ Len(inbox'[c]) = i + 1
          BY <1>5, <3>5 DEF Owed
      <4> HIDE DEF n, g, i
      <4> QED BY <4>1, <4>2
    <3>7. \A d \in Conns : d # c => sent'[d] = sent[d] /\ inbox'[d] = inbox[d]
        BY <3>2 DEF HarmInv, DataType
    <3> QED BY <1>5, <3>4, <3>6, <3>7 DEF Owed
  <2>2. CASE Connect(c) \/ Leave(c)
      BY <2>2 DEF Connect, Leave, Owed, HarmInv, DataType
  <2> QED BY <1>2, <2>1, <2>2
<1>8. \A d \in Conns : Owed(d) \in Int /\ Owed(d)' \in Int /\ Len(inbox'[d]) \in Nat
    BY <1>4, <1>7, LenProperties, SMTT(60) DEF Owed, DataType
<1>9. AccountInv'
  <2> SUFFICES ASSUME NEW d \in Conns
               PROVE  /\ Owed(d)' >= Len(inbox'[d])
                      /\ client'[d] = "reset" => got'[d] # << >>
                      /\ client'[d] = "broken" => Owed(d)' > Len(inbox'[d]) \/ LastRead(d)'
      BY DEF AccountInv
  <2>1. Owed(d)' >= Len(inbox'[d])
      BY <1>4, <1>7, <1>8 DEF HarmInv, AccountInv
  <2>2. client'[d] = "reset" => got'[d] # << >>
      BY <1>5 DEF HarmInv, AccountInv
  <2>3. ASSUME client'[d] = "broken" PROVE Owed(d)' > Len(inbox'[d]) \/ LastRead(d)'
    <3>1. client[d] = "broken"
        BY <1>5, <2>3
    <3>2. Owed(d) > Len(inbox[d]) \/ LastRead(d)
        BY <3>1 DEF HarmInv, AccountInv
    <3> QED BY <1>1, <1>4, <1>5, <1>7, <1>8, <3>2 DEF LastRead, chosen
  <2> QED BY <2>1, <2>2, <2>3
<1>10. \A d \in Conns : Guilty(d) => Guilty(d)'
    BY <1>1, <1>5, <1>6 DEF Guilty, Owed, LastRead, chosen
<1>11. EndInv' /\ ApartInv'
    BY <1>1, <1>10 DEF HarmInv, EndInv, ApartInv, chosen, echoVars
<1> QED BY <1>7, <1>9, <1>11 DEF HarmInv

(* Steps that leave the connections and their data alone.                  *)
LEMMA DataRests ==
  ASSUME HarmInv, UNCHANGED <<client, sent, inbox, got, chosen>>
  PROVE  DataType' /\ AccountInv' /\ \A d \in Conns : Guilty(d)' = Guilty(d)
BY DEF HarmInv, DataType, AccountInv, Guilty, Owed, LastRead, chosen

LEMMA AcceptingHarmless ==
  ASSUME ServedInv, HarmInv, UNCHANGED chosen,
         StartWorker \/ StartFails \/ Wait \/ AcceptInLoop \/ Refuse \/ AcceptFails
  PROVE  HarmInv'
<1>1. UNCHANGED <<client, sent, inbox, got, chosen>>
    BY DEF StartWorker, StartFails, Wait, AcceptInLoop, Refuse, AcceptFails, AcceptNext
<1>2. life = "up" /\ life' \in {"up", "ended"}
    BY DEF StartWorker, StartFails, Wait, AcceptInLoop, Refuse, AcceptFails, Dies, Turn, Loop, Up
<1> QED BY <1>1, <1>2, DataRests DEF HarmInv, EndInv, ApartInv

(* Echoing, whether the caller goes on, ends alone or takes the server     *)
(* with it.                                                                *)
LEMMA EchoHarmless ==
  ASSUME ServedInv, HarmInv, UNCHANGED chosen, NEW c \in Conns,
         WorkerEchoes(c) \/ WorkerFails(c) \/ LoopEchoes(c) \/ LoopFails(c)
  PROVE  HarmInv'
<1>1. Echo(c) /\ ServedType
    BY DEF WorkerEchoes, WorkerFails, LoopEchoes, LoopFails, ServedInv
<1>2. DataType' /\ AccountInv'
    BY <1>1, EchoMoves, EchoAccounts DEF HarmInv
<1>3. life \notin {"sigpipe", "raised"}
    BY DEF WorkerEchoes, WorkerFails, LoopEchoes, LoopFails, Turn, Loop, Up, HarmInv, EndInv
<1>4. CASE life' = life
    BY <1>2, <1>3, <1>4 DEF HarmInv, EndInv, ApartInv, chosen
<1>5. CASE life' # life
  <2>1. Fails(c) /\ Dies(Failure)
      BY <1>5
      DEF WorkerEchoes, WorkerFails, LoopEchoes, LoopFails, WorkerOver, echoVars
  <2>2. Guilty(c)'
      BY <1>1, <2>1, FailureIsEarned DEF HarmInv
  <2>3. \A d \in Conns : worker'[d] # "serving"
      BY <2>1 DEF Dies
  <2>4. ~(design = "mp" \/ (design = "mt" /\ lang = "py"))
      BY <1>5 DEF WorkerEchoes, WorkerFails, LoopEchoes, LoopFails, WorkerOver, echoVars,
                  Turn, Loop, Up
  <2> QED BY <1>2, <2>2, <2>3, <2>4 DEF HarmInv, EndInv, ApartInv, chosen
<1> QED BY <1>4, <1>5

LEMMA EndsHarmless ==
  ASSUME ServedInv, HarmInv, UNCHANGED chosen, NEW c \in Conns,
         WorkerEnds(c) \/ LoopCloses(c)
  PROVE  HarmInv'
<1>1. UNCHANGED <<client, sent, inbox, got, chosen>>
    BY DEF WorkerEnds, LoopCloses
<1>2. CASE life' = life
  <2>1. life \notin {"sigpipe", "raised"}
      BY DEF WorkerEnds, LoopCloses, Turn, Loop, Up, HarmInv, EndInv
  <2> QED BY <1>1, <1>2, <2>1, DataRests DEF HarmInv, EndInv, ApartInv, chosen
<1>3. CASE life' # life
  <2>1. /\ WorkerEnds(c) /\ design = "single"
        /\ Dies(IF HasError(c) /\ lang = "py" THEN Failure ELSE "ended")
      BY <1>3 DEF WorkerEnds, WorkerOver, LoopCloses, Release
  <2>2. \A d \in Conns : worker'[d] # "serving"
      BY <2>1 DEF Dies
  <2>3. HasError(c) /\ lang = "py" => Guilty(c)
      BY DEF HasError, Guilty, LastRead, HarmInv, AccountInv
  <2>4. (HasError(c) /\ lang = "py") \/ life' = "ended"
      BY <2>1 DEF Dies
  <2> QED BY <1>1, <2>1, <2>2, <2>3, <2>4, DataRests DEF HarmInv, EndInv, ApartInv, chosen
<1> QED BY <1>2, <1>3

LEMMA ReadFailureHarmless ==
  ASSUME ServedInv, HarmInv, UNCHANGED chosen, NEW c \in Conns, LoopReadFails(c)
  PROVE  HarmInv'
<1>1. /\ client[c] = "reset" /\ client' = [client EXCEPT ![c] = "broken"]
      /\ UNCHANGED <<sent, inbox, got>> /\ life = "up"
    BY DEF LoopReadFails, HasError, Turn, Loop, Up
<1>2. design \in OneForAll /\ (design = "select" \/ lang = "py")
    BY DEF LoopReadFails, Turn, Loop, Up, EdgeTriggered, OneForAll, ServedInv, ServedType
<1>3. LastRead(c) /\ LastRead(c)'
    BY <1>1, <1>2 DEF LastRead, HarmInv, AccountInv, chosen
<1>4. client'[c] = "broken" /\ \A d \in Conns : d # c => client'[d] = client[d]
    BY <1>1 DEF ServedInv, ServedType
<1>5. DataType' /\ AccountInv' /\ Guilty(c)'
    BY <1>1, <1>3, <1>4 DEF HarmInv, DataType, AccountInv, Guilty, Owed, LastRead, chosen
<1>6. life' = life \/ Dies(Failure)
    BY DEF LoopReadFails
<1>7. EndInv'
    BY <1>1, <1>5, <1>6 DEF EndInv, Dies
<1>8. ApartInv'
    BY <1>2 DEF ApartInv, OneForAll, chosen
<1> QED BY <1>5, <1>7, <1>8 DEF HarmInv

LEMMA StepHarmless ==
  ASSUME ServedInv, HarmInv, [Next]_vars
  PROVE  HarmInv'
<1>1. CASE ClientStep
    BY <1>1, ClientHarmless
<1>2. CASE EchoStep /\ UNCHANGED chosen
    BY <1>2, AcceptingHarmless, EchoHarmless, EndsHarmless, ReadFailureHarmless
    DEF EchoStep, WorkerStep, LoopStep
<1>3. CASE UNCHANGED vars
    BY <1>3, DataRests DEF vars, socketVars, echoVars, chosen, HarmInv, EndInv, ApartInv
<1> QED
    BY <1>1, <1>2, <1>3 DEF Next, ServerStep, ServedInv, ServedType, Designs

-----------------------------------------------------------------------------
(* The order of what is echoed.  A client has been sent the first units it *)
(* has written; as long as it is there, the others are those not read yet. *)
OrderInv ==
  \A c \in Conns :
    /\ \A n \in 1 .. Len(got[c]) : got[c][n] = <<c, n>>
    /\ client[c] \in {"off", "open"} =>
         /\ Len(got[c]) + Len(inbox[c]) = sent[c]
         /\ \A n \in 1 .. Len(inbox[c]) : inbox[c][n] = <<c, Len(got[c]) + n>>

(* What goes from the inbox of a client that is there to what it is sent.  *)
LEMMA EchoShifts ==
  ASSUME ServedType, DataType, NEW c \in Conns, Echo(c), client[c] = "open"
  PROVE  \E t \in 1 .. Len(inbox[c]) :
            /\ Len(got'[c]) = Len(got[c]) + t
            /\ \A n \in 1 .. Len(got[c]) : got'[c][n] = got[c][n]
            /\ \A n \in 1 .. t : got'[c][Len(got[c]) + n] = inbox[c][n]
            /\ Len(inbox'[c]) = Len(inbox[c]) - t
            /\ \A n \in 1 .. Len(inbox[c]) - t : inbox'[c][n] = inbox[c][t + n]
<1> DEFINE t == Taken(c)
           s == inbox[c]
           g == got[c]
<1>1. /\ s \in Seq(Units) /\ Len(s) \in Nat \ {0}
      /\ \A i \in 1 .. Len(s) : s[i] \in Units
      /\ g \in Seq(Units) /\ Len(g) \in Nat
    BY EmptySeq, LenProperties, ElementOfSeq DEF Echo, HasData, DataType
<1>2. t \in 1 .. Len(s)
    BY <1>1, SocketsAssumption DEF Taken
<1>3. /\ SubSeq(s, 1, t) \in Seq(Units) /\ Len(SubSeq(s, 1, t)) = t
      /\ Len(SubSeq(s, t + 1, Len(s))) = Len(s) - t
    BY <1>1, <1>2, CutInTwo
<1>4. \A n \in 1 .. t : SubSeq(s, 1, t)[n] = s[n]
  <2>1. \A i \in 1 .. t : s[i] \in Units
      BY <1>1, <1>2
  <2> HIDE DEF t, s
  <2> QED BY <1>1, <1>2, <2>1, SubSeqProperties
<1>5. \A n \in 1 .. Len(s) - t : SubSeq(s, t + 1, Len(s))[n] = s[t + n]
  <2>1. \A i \in t + 1 .. Len(s) : s[i] \in Units
      BY <1>1, <1>2
  <2> HIDE DEF t, s
  <2>2. t + 1 \in Int /\ Len(s) \in Int /\ t \in Int
      BY <1>1, <1>2
  <2>3. \A n \in 1 .. Len(SubSeq(s, t + 1, Len(s))) :
           SubSeq(s, t + 1, Len(s))[n] = s[(t + 1) + n - 1]
      BY <2>1, <2>2, SubSeqProperties
  <2>4. \A n \in 1 .. Len(s) - t : (t + 1) + n - 1 = t + n
      BY <2>2
  <2> QED BY ONLY <1>3, <2>3, <2>4
<1>6. inbox'[c] = SubSeq(s, t + 1, Len(s)) /\ got'[c] = g \o SubSeq(s, 1, t)
    BY DEF Echo, Read, Send, Chunk, DataType
<1>7. /\ Len(g \o SubSeq(s, 1, t)) = Len(g) + t
      /\ \A n \in 1 .. Len(g) : (g \o SubSeq(s, 1, t))[n] = g[n]
      /\ \A n \in 1 .. t : (g \o SubSeq(s, 1, t))[Len(g) + n] = s[n]
  <2> DEFINE u == SubSeq(s, 1, t)
  <2>1. u \in Seq(Units) /\ Len(u) = t /\ \A n \in 1 .. t : u[n] = s[n]
      BY <1>3, <1>4
  <2> HIDE DEF t, u
  <2>2. /\ Len(g \o u) = Len(g) + t
        /\ \A n \in 1 .. Len(g) + t : (g \o u)[n] = IF n <= Len(g) THEN g[n] ELSE u[n - Len(g)]
      BY <1>1, <2>1, ConcatProperties, ZenonT(60)
  <2> DEFINE l == Len(g)
  <2>3. l \in Nat /\ t \in Nat
      BY <1>1, <1>2
  <2> HIDE DEF l
  <2>4. /\ \A n \in 1 .. l : n \in 1 .. l + t /\ n <= l
        /\ \A n \in 1 .. t : l + n \in 1 .. l + t /\ ~(l + n <= l) /\ (l + n) - l = n
      BY <2>3
  <2> QED BY <2>1, <2>2, <2>4 DEF l, u
<1> HIDE DEF t, s, g
<1> QED
    BY <1>2, <1>3, <1>5, <1>6, <1>7 DEF s, g

(* Arithmetic of the positions in an inbox, which starts behind what was   *)
(* sent.                                                                   *)
LEMMA EchoKeepsOrder ==
  ASSUME ServedType, DataType, OrderInv, NEW c \in Conns, Echo(c)
  PROVE  OrderInv'
<1> SUFFICES ASSUME NEW d \in Conns
             PROVE  /\ \A n \in 1 .. Len(got'[d]) : got'[d][n] = <<d, n>>
                    /\ client'[d] \in {"off", "open"} =>
                         /\ Len(got'[d]) + Len(inbox'[d]) = sent'[d]
                         /\ \A n \in 1 .. Len(inbox'[d]) : inbox'[d][n] = <<d, Len(got'[d]) + n>>
    BY DEF OrderInv
<1>1. CASE d # c
  <2>1. client'[d] = client[d] /\ got'[d] = got[d] /\ inbox'[d] = inbox[d] /\ sent' = sent
      BY <1>1, EchoMoves
  <2> QED BY ONLY <2>1, OrderInv, d \in Conns DEF OrderInv
<1>2. CASE d = c /\ client[c] # "open"
  <2>1. client'[d] = "broken" /\ got'[d] = got[d]
      BY <1>2, EchoMoves
  <2> QED BY ONLY <2>1, OrderInv, d \in Conns DEF OrderInv
<1>3. CASE d = c /\ client[c] = "open"
  <2>1. PICK t \in 1 .. Len(inbox[c]) :
            /\ Len(got'[c]) = Len(got[c]) + t
            /\ \A n \in 1 .. Len(got[c]) : got'[c][n] = got[c][n]
            /\ \A n \in 1 .. t : got'[c][Len(got[c]) + n] = inbox[c][n]
            /\ Len(inbox'[c]) = Len(inbox[c]) - t
            /\ \A n \in 1 .. Len(inbox[c]) - t : inbox'[c][n] = inbox[c][t + n]
      BY <1>3, EchoShifts
  <2> DEFINE g == Len(got[c])
             m == Len(inbox[c])
  <2>2. g \in Nat /\ m \in Nat /\ sent' = sent /\ sent[c] \in Nat
      BY EchoMoves, LenProperties DEF DataType
  <2>3. /\ g + m = sent[c]
        /\ \A n \in 1 .. g : got[c][n] = <<c, n>>
        /\ \A n \in 1 .. m : inbox[c][n] = <<c, g + n>>
      BY <1>3 DEF OrderInv
  <2>4. /\ Len(got'[c]) = g + t /\ Len(inbox'[c]) = m - t
        /\ \A n \in 1 .. g : got'[c][n] = <<c, n>>
        /\ \A n \in 1 .. t : got'[c][g + n] = inbox[c][n]
        /\ \A n \in 1 .. m - t : inbox'[c][n] = inbox[c][t + n]
      BY <2>1, <2>3
  <2>5. t \in 1 .. m
      BY <2>1
  <2> HIDE DEF g, m
  <2>6. /\ \A n \in 1 .. t : n \in 1 .. m
        /\ \A n \in 1 .. m - t : t + n \in 1 .. m /\ g + (t + n) = (g + t) + n
        /\ \A n \in 1 .. g + t : n \in 1 .. g \/ (n - g \in 1 .. t /\ g + (n - g) = n)
        /\ (g + t) + (m - t) = g + m
      BY <2>2, <2>5
  <2>7. \A n \in 1 .. g + t : got'[c][n] = <<c, n>>
    <3>1. \A n \in 1 .. t : got'[c][g + n] = <<c, g + n>>
        BY <2>3, <2>4, <2>6
    <3> QED BY <2>4, <2>6, <3>1
  <2>8. \A n \in 1 .. m - t : inbox'[c][n] = <<c, (g + t) + n>>
      BY <2>3, <2>4, <2>6, SMTT(60)
  <2> QED BY <1>3, <2>2, <2>3, <2>4, <2>6, <2>7, <2>8
<1> QED BY <1>1, <1>2, <1>3

LEMMA WriteKeepsOrder ==
  ASSUME ServedType, DataType, OrderInv, NEW c \in Conns, Write(c)
  PROVE  OrderInv'
<1>1. /\ client[c] = "open" /\ client' = client /\ got' = got
      /\ sent' = [sent EXCEPT ![c] = sent[c] + 1]
      /\ inbox' = [inbox EXCEPT ![c] = Append(inbox[c], <<c, sent[c] + 1>>)]
    BY DEF Write, DataType
<1> DEFINE g == Len(got[c])
           m == Len(inbox[c])
           s == sent[c]
<1>2. g \in Nat /\ m \in Nat /\ s \in Nat /\ inbox[c] \in Seq(Units) /\ <<c, s + 1>> \in Units
    BY LenProperties DEF DataType, Units
<1>3. /\ Len(inbox'[c]) = m + 1 /\ inbox'[c][m + 1] = <<c, s + 1>>
      /\ \A n \in 1 .. m : inbox'[c][n] = inbox[c][n]
    BY <1>1, <1>2, AppendProperties DEF DataType
<1>4. g + m = s /\ \A n \in 1 .. m : inbox[c][n] = <<c, g + n>>
    BY <1>1 DEF OrderInv
<1>5. sent'[c] = s + 1
    BY <1>1 DEF DataType
<1>6. /\ g + (m + 1) = s + 1
      /\ \A n \in 1 .. m + 1 : n \in 1 .. m \/ n = m + 1
  <2> HIDE DEF g, m, s
  <2> QED BY <1>2, <1>4
<1>7. \A n \in 1 .. Len(inbox'[c]) : inbox'[c][n] = <<c, g + n>>
    BY <1>3, <1>4, <1>6
<1>8. \A d \in Conns : d # c => inbox'[d] = inbox[d] /\ sent'[d] = sent[d]
    BY <1>1 DEF DataType
<1>9. ASSUME NEW d \in Conns, d # c
      PROVE  /\ \A n \in 1 .. Len(got'[d]) : got'[d][n] = <<d, n>>
             /\ client'[d] \in {"off", "open"} =>
                  /\ Len(got'[d]) + Len(inbox'[d]) = sent'[d]
                  /\ \A n \in 1 .. Len(inbox'[d]) : inbox'[d][n] = <<d, Len(got'[d]) + n>>
  <2>1. client'[d] = client[d] /\ got'[d] = got[d] /\ inbox'[d] = inbox[d] /\ sent'[d] = sent[d]
      BY <1>1, <1>8, <1>9
  <2> QED BY ONLY <2>1, OrderInv, d \in Conns DEF OrderInv
<1>10. /\ \A n \in 1 .. Len(got'[c]) : got'[c][n] = <<c, n>>
       /\ Len(got'[c]) + Len(inbox'[c]) = sent'[c]
       /\ \A n \in 1 .. Len(inbox'[c]) : inbox'[c][n] = <<c, Len(got'[c]) + n>>
  <2>1. got'[c] = got[c]
      BY <1>1
  <2>2. \A n \in 1 .. Len(got[c]) : got[c][n] = <<c, n>>
      BY DEF OrderInv
  <2> QED BY ONLY <2>1, <2>2, <1>3, <1>5, <1>6, <1>7
<1> QED
    BY <1>9, <1>10 DEF OrderInv

(* The other steps move no unit, and nobody comes back.                    *)
LEMMA OrderRests ==
  ASSUME OrderInv, UNCHANGED <<sent, inbox, got>>,
         \A c \in Conns : client'[c] \in {"off", "open"} => client[c] \in {"off", "open"}
  PROVE  OrderInv'
BY DEF OrderInv

LEMMA StepOrder ==
  ASSUME ServedInv, HarmInv, OrderInv, [Next]_vars
  PROVE  OrderInv'
<1>1. ServedType /\ DataType
    BY DEF ServedInv, HarmInv
<1>2. CASE ClientStep
  <2>1. PICK c \in Conns : Connect(c) \/ Write(c) \/ Leave(c)
      BY <1>2, BoundsAssumption DEF ClientStep, ServedInv, ServedType, Designs
  <2>2. CASE Connect(c) \/ Leave(c)
      BY <1>1, <2>2, OrderRests DEF Connect, Leave, ServedType
  <2> QED BY <1>1, <2>1, <2>2, WriteKeepsOrder
<1>3. CASE EchoStep
  <2>1. CASE \E c \in Conns : Echo(c)
      BY <1>1, <2>1, EchoKeepsOrder
  <2>2. CASE \E c \in Conns : LoopReadFails(c)
      BY <1>1, <2>2, OrderRests DEF LoopReadFails, ServedType
  <2>3. CASE UNCHANGED <<client, sent, inbox, got>>
      BY <2>3, OrderRests
  <2> QED BY <1>3, <2>1, <2>2, <2>3
      DEF EchoStep, WorkerStep, LoopStep, StartWorker, StartFails, WorkerEchoes, WorkerFails, WorkerEnds,
          Wait, AcceptInLoop, Refuse, LoopEchoes, LoopFails, LoopCloses, AcceptFails, AcceptNext
<1>4. CASE UNCHANGED vars
    BY <1>4, OrderRests DEF vars, socketVars
<1> QED
    BY <1>2, <1>3, <1>4 DEF Next, ServerStep, ServedInv, ServedType, Designs

-----------------------------------------------------------------------------
(* The inductive invariant of the echo servers.  In the chat server their  *)
(* variables rest.                                                         *)
EchoInv == IF design \in Designs THEN ServedInv /\ HarmInv /\ OrderInv ELSE life = "up"

LEMMA EchoInductive == Init /\ [][Next]_vars => []EchoInv
<1>1. Init => EchoInv
  <2> SUFFICES ASSUME Init, design \in Designs PROVE ServedInv /\ HarmInv /\ OrderInv
      BY DEF Init, EchoInit, EchoInv
  <2> USE DEF Init, SocketsInit, EchoInit
  <2>1. backlog = << >> /\ DOMAIN backlog = {} /\ \A c \in Conns : ~Queued(c)
      BY DEF Queued
  <2>2. ServedType /\ BacklogInv
      BY <2>1, EmptySeq DEF ServedType, BacklogInv, Designs
  <2>3. WatchInv /\ FreshInv /\ UnmadeInv /\ OpenInv
      BY <2>1 DEF WatchInv, FreshInv, UnmadeInv, OpenInv
  <2>4. DataType
      BY EmptySeq DEF DataType
  <2>5. AccountInv
      BY EmptySeq DEF AccountInv, Owed
  <2>6. EndInv /\ ApartInv
      BY DEF EndInv, ApartInv
  <2>7. OrderInv
      BY EmptySeq DEF OrderInv
  <2> QED BY <2>2, <2>3, <2>4, <2>5, <2>6, <2>7 DEF ServedInv, HarmInv
<1>2. EchoInv /\ [Next]_vars => EchoInv'
  <2> SUFFICES ASSUME EchoInv, [Next]_vars PROVE EchoInv'
      OBVIOUS
  <2>1. UNCHANGED chosen
      BY DEF Next, ClientStep, ServerStep, vars
  <2>2. CASE design \in Designs
      BY <2>1, <2>2, StepServed, StepHarmless, StepOrder DEF EchoInv, chosen
  <2>3. CASE design \notin Designs
      BY <2>1, <2>3 DEF EchoInv, chosen, Next, ClientStep, ServerStep, EchoStep, vars, echoVars
  <2> QED BY <2>2, <2>3
<1> QED BY <1>1, <1>2, PTL

(* For any number of connections and slots, each of the ten echo servers   *)
(* looks after every descriptor it has open, in one place, and loses no    *)
(* client that is there, whatever fails.                                   *)
THEOREM DescriptorsAreLookedAfter == FairSpec => []DescriptorsLookedAfter
<1>1. EchoInv => DescriptorsLookedAfter
    BY DEF EchoInv, ServedInv, ServedType, WatchInv, OpenInv, DescriptorsLookedAfter,
           Designs, OneWorkerEach, OneForAll, Orphan
<1> QED BY <1>1, EchoInductive, PTL DEF FairSpec

(* For any number of connections, however much they write and whatever one *)
(* read takes, no client ends an echo server but by leaving with two units *)
(* not echoed or with echoes unread, and none ends those that give each    *)
(* client a process, or a thread of Python.                                *)
THEOREM LeaversDoNoHarm == FairSpec => []LeaversAreHarmless
<1>1. EchoInv => LeaversAreHarmless
    BY DEF EchoInv, HarmInv, EndInv, ApartInv, Guilty, LastRead, LeaversAreHarmless, Designs
<1> QED BY <1>1, EchoInductive, PTL DEF FairSpec

(* At any time a client of an echo server has been sent a beginning of     *)
(* what it has written, nothing twice and nothing out of order, and as     *)
(* long as it is there, nothing is lost: the rest waits to be read.        *)
EchoedInOrder ==
  design \in Designs =>
    \A c \in Conns :
      /\ got[c] = [n \in 1 .. Len(got[c]) |-> <<c, n>>]
      /\ client[c] = "open" => Len(got[c]) + Len(inbox[c]) = sent[c]

(* The safety half of EchoedInFull, for each of the ten servers: whatever  *)
(* one read takes, it is sent once and in its place.                       *)
THEOREM EchoesComeInOrder == FairSpec => []EchoedInOrder
<1>1. EchoInv => EchoedInOrder
  <2> SUFFICES ASSUME HarmInv, OrderInv, NEW c \in Conns
               PROVE  /\ got[c] = [n \in 1 .. Len(got[c]) |-> <<c, n>>]
                      /\ client[c] = "open" => Len(got[c]) + Len(inbox[c]) = sent[c]
      BY DEF EchoInv, EchoedInOrder
  <2>1. got[c] = [n \in 1 .. Len(got[c]) |-> got[c][n]]
      BY DEF HarmInv, DataType
  <2> QED BY <2>1 DEF OrderInv
<1> QED BY <1>1, EchoInductive, PTL DEF FairSpec

-----------------------------------------------------------------------------
(* The chat server.                                                        *)

ChatType ==
  /\ client \in [Conns -> {"off", "open", "left", "reset", "broken"}]
  /\ clients \in Seq(Conns)
  /\ thread \in [Conns -> {"none", "append", "recv", "cast", "remove", "close", "gone"}]
  /\ cursor \in [Conns -> Nat]
  /\ due \in [Conns -> SUBSET Conns]
  /\ told \in [Conns -> Seq(Conns)]
  /\ losses \in [Conns -> Nat]

(* The list has the clients whose threads have appended and not yet        *)
(* removed them, once each.                                                *)
ListInv ==
  /\ \A i, j \in DOMAIN clients : clients[i] = clients[j] => i = j
  /\ \A c \in Conns : c \in InList <=> thread[c] \in {"recv", "cast", "remove"}

NewcomerInv ==
  \A c \in Conns : Queued(c) \/ client[c] = "off" => thread[c] = "none"

Told(c)  == {told[c][i] : i \in DOMAIN told[c]}
Ahead(c) == {clients[i] : i \in {k \in DOMAIN clients : cursor[c] <= k}}

(* Those a broadcast has passed over: they have been there from its start, *)
(* but it has not sent to them and will not come to them.                  *)
Passed(c) == due[c] \ (Told(c) \cup Ahead(c))

CastOK(c) ==
  IF thread[c] = "cast"
  THEN /\ cursor[c] >= 1
       /\ c \notin due[c] /\ IsFiniteSet(due[c])
       /\ \A d \in Conns : d \in Told(c) => thread[d] \notin {"none", "append"}
       /\ Told(c) \cap Ahead(c) = {}
       /\ \A i, j \in DOMAIN told[c] : told[c][i] = told[c][j] => i = j
       /\ Cardinality(Passed(c)) <= losses[c]
  ELSE told[c] = << >>

CastInv == \A c \in Conns : CastOK(c)

MeetingInv == ChatType /\ BacklogInv /\ UnmadeInv /\ ListInv /\ NewcomerInv /\ CastInv

LEMMA SubsetCounts ==
  ASSUME NEW S, IsFiniteSet(S), NEW T \in SUBSET S
  PROVE  /\ IsFiniteSet(T) /\ Cardinality(T) \in Nat /\ Cardinality(S) \in Nat
         /\ Cardinality(T) <= Cardinality(S)
BY FS_Subset, FS_CardinalityType

(* No thread goes back to before it joined.                                *)
NobodyReturns ==
  \A d \in Conns : thread'[d] \in {"none", "append"} => thread[d] \in {"none", "append"}

LEMMA SameCast ==
  ASSUME NEW c \in Conns, CastOK(c), NobodyReturns,
         UNCHANGED <<clients, thread[c], cursor[c], due[c], told[c], losses[c]>>
  PROVE  CastOK(c)'
<1>1. Told(c)' = Told(c) /\ Ahead(c)' = Ahead(c) /\ Passed(c)' = Passed(c)
    BY DEF Told, Ahead, Passed
<1> QED BY <1>1 DEF CastOK, NobodyReturns

(* A thread that is not in a broadcast before or after.                    *)
LEMMA NoCast ==
  ASSUME NEW c \in Conns, CastOK(c), thread[c] # "cast", thread'[c] # "cast", told'[c] = told[c]
  PROVE  CastOK(c)'
BY DEF CastOK

LEMMA SameList ==
  ASSUME ListInv, UNCHANGED clients,
         \A c \in Conns : thread'[c] \in {"recv", "cast", "remove"}
                            <=> thread[c] \in {"recv", "cast", "remove"}
  PROVE  ListInv'
BY DEF ListInv, InList

LEMMA SameBacklog ==
  ASSUME BacklogInv, UnmadeInv, NewcomerInv, NobodyReturns, UNCHANGED backlog,
         \A c \in Conns : /\ client'[c] = "off" => client[c] = "off"
                          /\ thread[c] = "none" => thread'[c] = "none"
  PROVE  BacklogInv' /\ UnmadeInv' /\ NewcomerInv'
BY DEF BacklogInv, UnmadeInv, NewcomerInv, NobodyReturns, Queued

LEMMA AcceptKept ==
  ASSUME MeetingInv, ChatAccept
  PROVE  MeetingInv'
<1> DEFINE h == Head(backlog)
<1> USE DEF MeetingInv, ChatAccept
<1>1. /\ h \in Conns /\ Queued(h) /\ BacklogInv'
      /\ \A c \in Conns : Queued(c)' <=> (Queued(c) /\ c # h)
    BY AcceptTakesHead
<1>2. thread[h] = "none" /\ client[h] # "off" /\ thread' = [thread EXCEPT ![h] = "append"]
    BY <1>1 DEF NewcomerInv, UnmadeInv
<1>3. UNCHANGED <<client, clients, cursor, due, told, losses>>
    BY DEF AcceptNext, castVars
<1>4. ChatType'
    BY <1>1, <1>2, <1>3 DEF ChatType
<1>5. \A c \in Conns : c # h => thread'[c] = thread[c]
    BY <1>2 DEF ChatType
<1>6. ListInv'
  <2>1. thread'[h] = "append"
      BY <1>1, <1>2 DEF ChatType
  <2>2. \A c \in Conns : thread'[c] \in {"recv", "cast", "remove"}
                           <=> thread[c] \in {"recv", "cast", "remove"}
      BY <1>2, <1>5, <2>1
  <2> QED BY <1>3, <2>2, SameList
<1>7. UnmadeInv' /\ NewcomerInv'
    BY <1>1, <1>2, <1>3, <1>5 DEF UnmadeInv, NewcomerInv
<1>8. CastInv'
  <2>1. NobodyReturns
      BY <1>2, <1>5 DEF NobodyReturns
  <2>2. ASSUME NEW c \in Conns PROVE CastOK(c)'
    <3>1. CASE c = h
        BY <1>1, <1>2, <1>3, <3>1, NoCast DEF CastInv, ChatType
    <3>2. CASE c # h
        BY <1>3, <1>5, <2>1, <3>2, SameCast DEF CastInv
    <3> QED BY <3>1, <3>2
  <2> QED BY <2>2 DEF CastInv
<1> QED BY <1>1, <1>4, <1>6, <1>7, <1>8

(* A new member behind all others: no broadcast has sent to it or passed   *)
(* it.                                                                     *)
LEMMA JoinKept ==
  ASSUME MeetingInv, NEW c \in Conns, Join(c)
  PROVE  MeetingInv'
<1> USE DEF MeetingInv
<1> DEFINE n == Len(clients)
<1>1. /\ n \in Nat /\ DOMAIN clients = 1 .. n /\ clients' = Append(clients, c)
      /\ clients' \in Seq(Conns) /\ DOMAIN clients' = 1 .. n + 1 /\ clients'[n + 1] = c
      /\ \A i \in 1 .. n : clients'[i] = clients[i]
    BY LenProperties DEF ChatType, Join, Joined
<1>2. /\ thread[c] = "append" /\ thread' = [thread EXCEPT ![c] = "recv"]
      /\ UNCHANGED <<client, backlog, cursor, due, told, losses>>
    BY DEF Join, socketVars, castVars
<1>3. ChatType'
    BY <1>1, <1>2 DEF ChatType
<1>4. thread'[c] = "recv" /\ \A d \in Conns : d # c => thread'[d] = thread[d]
    BY <1>2 DEF ChatType
<1>5. c \notin InList
    BY <1>2 DEF ListInv
<1>6. \A i \in 1 .. n : clients[i] # c
    BY <1>1, <1>5 DEF InList
<1>7. InList' = InList \cup {c}
    BY <1>1 DEF InList
<1>8. ListInv'
  <2>1. \A i, j \in DOMAIN clients' : clients'[i] = clients'[j] => i = j
      BY <1>1, <1>6 DEF ListInv
  <2>2. \A d \in Conns : d \in InList' <=> thread'[d] \in {"recv", "cast", "remove"}
      BY <1>4, <1>7 DEF ListInv
  <2> QED BY <2>1, <2>2 DEF ListInv
<1>9. BacklogInv' /\ UnmadeInv' /\ NewcomerInv'
    BY <1>2, <1>4, SameBacklog DEF NobodyReturns
<1>10. ASSUME NEW d \in Conns PROVE CastOK(d)'
  <2>1. CASE thread'[d] = "cast"
    <3>1. d # c /\ thread[d] = "cast" /\ CastOK(d)
        BY <1>4, <2>1 DEF CastInv
    <3>2. Told(d)' = Told(d) /\ c \notin Told(d)
        BY <1>2, <3>1 DEF Told, CastOK
    <3>3. Ahead(d) \subseteq Ahead(d)' /\ Ahead(d)' \subseteq Ahead(d) \cup {c}
        BY <1>1, <1>2 DEF Ahead
    <3>4. Passed(d)' \subseteq Passed(d) /\ Passed(d) \subseteq due[d]
        BY <1>2, <3>2, <3>3 DEF Passed
    <3>5. Cardinality(Passed(d)') <= losses[d]
      <4>1. IsFiniteSet(Passed(d)) /\ Cardinality(Passed(d)) <= losses[d] /\ losses[d] \in Nat
          BY <3>1, <3>4, SubsetCounts DEF CastOK, ChatType
      <4> QED BY <3>4, <4>1, SubsetCounts
    <3> QED BY <1>2, <1>4, <2>1, <3>1, <3>2, <3>3, <3>5 DEF CastOK
  <2>2. CASE thread'[d] # "cast"
      BY <1>2, <1>4, <2>2, NoCast DEF CastInv
  <2> QED BY <2>1, <2>2
<1> QED BY <1>3, <1>8, <1>9, <1>10 DEF CastInv

(* A broadcast begins with everybody ahead of it.                          *)
LEMMA RecvKept ==
  ASSUME MeetingInv, NEW c \in Conns, Recv(c)
  PROVE  MeetingInv'
<1> USE DEF MeetingInv
<1>1. /\ thread[c] = "recv" /\ thread' = [thread EXCEPT ![c] = "cast"]
      /\ cursor' = [cursor EXCEPT ![c] = 1] /\ due' = [due EXCEPT ![c] = InList \ {c}]
      /\ UNCHANGED <<client, backlog, clients, told, losses>>
    BY DEF Recv
<1>2. Len(clients) \in Nat /\ DOMAIN clients = 1 .. Len(clients) /\ InList \subseteq Conns
    BY LenProperties, ElementOfSeq DEF ChatType, InList
<1>3. ChatType'
    BY <1>1, <1>2 DEF ChatType
<1>4. /\ thread'[c] = "cast" /\ cursor'[c] = 1 /\ due'[c] = InList \ {c}
      /\ \A d \in Conns : d # c => /\ thread'[d] = thread[d] /\ cursor'[d] = cursor[d]
                                   /\ due'[d] = due[d]
    BY <1>1 DEF ChatType
<1>5. NobodyReturns
    BY <1>4 DEF NobodyReturns
<1>6. ListInv'
    BY <1>1, <1>4, SameList
<1>7. BacklogInv' /\ UnmadeInv' /\ NewcomerInv'
    BY <1>1, <1>4, <1>5, SameBacklog
<1>8. CastOK(c)'
  <2>1. told'[c] = << >> /\ Told(c)' = {}
      BY <1>1 DEF CastInv, CastOK, Told
  <2>2. IsFiniteSet(InList)
    <3>1. clients \in [1 .. Len(clients) -> InList]
        BY <1>2, LenProperties DEF ChatType, InList
    <3>2. clients \in Surjection(1 .. Len(clients), InList)
        BY <1>2, <3>1 DEF InList, Surjection
    <3>3. IsFiniteSet(1 .. Len(clients))
        BY <1>2, FS_Interval
    <3> QED BY <3>2, <3>3, FS_Surjection
  <2>3. IsFiniteSet(due'[c])
      BY <1>4, <2>2, FS_Subset
  <2>4. Ahead(c)' = InList
      BY <1>1, <1>2, <1>4 DEF Ahead, InList
  <2>5. Passed(c)' = {}
      BY <1>4, <2>4 DEF Passed
  <2>6. Cardinality(Passed(c)') <= losses'[c]
      BY <1>1, <2>5, FS_EmptySet DEF ChatType
  <2> QED BY <1>4, <2>1, <2>3, <2>6 DEF CastOK
<1>9. ASSUME NEW d \in Conns, d # c PROVE CastOK(d)'
    BY <1>1, <1>4, <1>5, <1>9, SameCast DEF CastInv
<1> QED BY <1>3, <1>6, <1>7, <1>8, <1>9 DEF CastInv

(* The thread of c goes on without touching list or broadcasts.            *)
LEMMA RestKept ==
  ASSUME MeetingInv, NEW c \in Conns, RecvEnds(c) \/ CastEnds(c) \/ CloseAfter(c)
  PROVE  MeetingInv'
<1> USE DEF MeetingInv
<1>1. /\ thread[c] \notin {"none", "append"}
      /\ \E t \in {"recv", "remove", "gone"} :
            /\ thread' = [thread EXCEPT ![c] = t]
            /\ t = "gone" <=> thread[c] = "close"
      /\ UNCHANGED <<client, backlog, clients>>
    BY DEF RecvEnds, CastEnds, CloseAfter, socketVars
<1>2. PICK t \in {"recv", "remove", "gone"} : /\ thread' = [thread EXCEPT ![c] = t]
                                              /\ t = "gone" <=> thread[c] = "close"
    BY <1>1
<1>3. thread'[c] = t /\ \A d \in Conns : d # c => thread'[d] = thread[d]
    BY <1>2 DEF ChatType
<1>4. thread[c] \in {"recv", "cast", "close"}
    BY DEF RecvEnds, CastEnds, CloseAfter
<1>5. ChatType' /\ \A d \in Conns : d # c =>
          UNCHANGED <<cursor[d], due[d], told[d], losses[d]>>
  <2>1. CASE CastEnds(c)
    <3>1. << >> \in Seq(Conns)
        BY EmptySeq
    <3>2. /\ cursor' = [cursor EXCEPT ![c] = 0] /\ due' = [due EXCEPT ![c] = {}]
          /\ told' = [told EXCEPT ![c] = << >>] /\ losses' = [losses EXCEPT ![c] = 0]
        BY <2>1 DEF CastEnds
    <3>3. /\ thread' \in [Conns -> {"none", "append", "recv", "cast", "remove", "close", "gone"}]
          /\ cursor' \in [Conns -> Nat] /\ due' \in [Conns -> SUBSET Conns]
          /\ told' \in [Conns -> Seq(Conns)] /\ losses' \in [Conns -> Nat]
        BY <1>2, <3>1, <3>2 DEF ChatType
    <3> QED BY <1>1, <3>2, <3>3 DEF ChatType
  <2>2. CASE RecvEnds(c) \/ CloseAfter(c)
      BY <1>1, <1>2, <2>2 DEF RecvEnds, CloseAfter, castVars, ChatType
  <2> QED BY <2>1, <2>2
<1>6. told'[c] = << >>
    BY <1>4 DEF RecvEnds, CastEnds, CloseAfter, castVars, CastInv, CastOK, ChatType
<1>7. NobodyReturns
    BY <1>2, <1>3 DEF NobodyReturns
<1>8. ListInv'
    BY <1>1, <1>2, <1>3, <1>4, SameList
<1>9. BacklogInv' /\ UnmadeInv' /\ NewcomerInv'
    BY <1>1, <1>3, <1>7, SameBacklog
<1>10. CastOK(c)'
    BY <1>2, <1>3, <1>6 DEF CastOK
<1>11. ASSUME NEW d \in Conns, d # c PROVE CastOK(d)'
    BY <1>1, <1>3, <1>5, <1>7, <1>11, SameCast DEF CastInv
<1> QED BY <1>5, <1>8, <1>9, <1>10, <1>11 DEF CastInv

(* A broadcast comes to the next of the list.                              *)
LEMMA CastKept ==
  ASSUME MeetingInv, NEW c \in Conns, Cast(c)
  PROVE  MeetingInv'
<1> USE DEF MeetingInv
<1> DEFINE k == cursor[c]
           d == clients[k]
<1>1. /\ thread[c] = "cast" /\ k <= Len(clients) /\ cursor' = [cursor EXCEPT ![c] = k + 1]
      /\ UNCHANGED <<backlog, clients, thread, due, losses>>
    BY DEF Cast
<1>2. CastOK(c) /\ k \in Nat /\ k >= 1
    BY <1>1 DEF CastInv, CastOK, ChatType
<1>3. DOMAIN clients = 1 .. Len(clients) /\ Len(clients) \in Nat /\ k \in DOMAIN clients
    BY <1>1, <1>2, LenProperties DEF ChatType
<1>4. d \in Conns /\ d \in InList /\ thread[d] \in {"recv", "cast", "remove"}
    BY <1>3, ElementOfSeq DEF ChatType, InList, ListInv
<1>5. client' \in [Conns -> {"off", "open", "left", "reset", "broken"}]
      /\ \A e \in Conns : client'[e] = "off" => client[e] = "off"
    BY <1>4 DEF Cast, Send, ChatType
<1>6. d # c => told' = [told EXCEPT ![c] = Append(told[c], d)]
    BY DEF Cast
<1>7. d = c => told' = told
    BY DEF Cast
<1>8. told' \in [Conns -> Seq(Conns)] /\ \A e \in Conns : e # c => told'[e] = told[e]
  <2>1. Append(told[c], d) \in Seq(Conns)
      BY <1>4 DEF ChatType
  <2> QED BY <1>6, <1>7, <2>1 DEF ChatType
<1>9. ChatType'
  <2>1. cursor' \in [Conns -> Nat]
    <3>1. k + 1 \in Nat /\ cursor \in [Conns -> Nat]
        BY <1>2 DEF ChatType
    <3> HIDE DEF k
    <3> QED BY <1>1, <3>1
  <2> QED BY <1>1, <1>5, <1>8, <2>1 DEF ChatType
<1>10. NobodyReturns
    BY <1>1 DEF NobodyReturns
<1>11. ListInv'
    BY <1>1, SameList
<1>12. BacklogInv' /\ UnmadeInv' /\ NewcomerInv'
    BY <1>1, <1>5, <1>10, SameBacklog
<1>13. ASSUME NEW e \in Conns, e # c PROVE CastOK(e)'
    BY <1>1, <1>8, <1>10, <1>13, SameCast DEF CastInv, ChatType
<1>14. CastOK(c)'
  <2>1. cursor'[c] = k + 1
      BY <1>1 DEF ChatType
  <2>2. Ahead(c)' \subseteq Ahead(c) /\ Ahead(c) \subseteq Ahead(c)' \cup {d}
      BY <1>1, <1>2, <1>3, <2>1 DEF Ahead
  <2>3. d \notin Ahead(c)' /\ d \in Ahead(c)
      BY <1>1, <1>2, <1>3, <2>1 DEF Ahead, ListInv
  <2>4. Told(c) \cap Ahead(c) = {} /\ c \notin due[c] /\ IsFiniteSet(due[c])
        /\ Cardinality(Passed(c)) <= losses[c] /\ losses[c] \in Nat
      BY <1>1, <1>2 DEF CastOK, ChatType
  <2>5. /\ Told(c) \subseteq Told(c)' /\ Told(c)' \subseteq Told(c) \cup {d}
        /\ d # c => d \in Told(c)'
        /\ \A i, j \in DOMAIN told'[c] : told'[c][i] = told'[c][j] => i = j
    <3>1. CASE d = c
        BY <1>1, <1>2, <1>7, <3>1 DEF Told, CastOK
    <3>2. CASE d # c
      <4> DEFINE s == told[c]
                 t == told'[c]
                 n == Len(s)
      <4>1. /\ n \in Nat /\ DOMAIN s = 1 .. n /\ DOMAIN t = 1 .. n + 1
            /\ \A i \in 1 .. n : t[i] = s[i]
            /\ t[n + 1] = d
        <5>1. s \in Seq(Conns) /\ t = Append(s, d)
            BY <1>6, <3>2 DEF ChatType
        <5>2. n \in Nat /\ DOMAIN s = 1 .. n
            BY <5>1, LenProperties
        <5> HIDE DEF s, t, d
        <5> QED BY <1>4, <5>1, <5>2
      <4>2. Told(c) = {s[i] : i \in 1 .. n} /\ Told(c)' = {t[i] : i \in 1 .. n + 1}
          BY <4>1 DEF Told
      <4>3. Told(c)' = Told(c) \cup {d}
        <5> HIDE DEF s, t, n, d
        <5> QED BY <4>1, <4>2
      <4>4. d \notin Told(c)
          BY <2>3, <2>4
      <4>5. \A i \in 1 .. n : s[i] # d
          BY <4>2, <4>4
      <4>6. \A i, j \in 1 .. n : s[i] = s[j] => i = j
          BY <1>1, <1>2, <4>1 DEF CastOK
      <4>7. \A i, j \in DOMAIN t : t[i] = t[j] => i = j
        <5> HIDE DEF s, t, n, d
        <5> QED BY <4>1, <4>5, <4>6
      <4> QED BY <4>3, <4>7
    <3> QED BY <3>1, <3>2
  <2>6. Told(c)' \cap Ahead(c)' = {}
      BY <2>2, <2>3, <2>4, <2>5
  <2>7. due'[c] = due[c] /\ Passed(c)' = due[c] \ (Told(c)' \cup Ahead(c)')
      BY <1>1 DEF Passed
  <2>8. Passed(c)' \subseteq Passed(c) /\ Passed(c) \subseteq due[c]
      BY <2>2, <2>4, <2>5, <2>7 DEF Passed
  <2>9. Cardinality(Passed(c)') <= losses[c]
    <3>1. IsFiniteSet(Passed(c))
        BY <2>4, <2>8, SubsetCounts
    <3> QED BY <2>4, <2>8, <3>1, SubsetCounts
  <2>10. \A e \in Conns : e \in Told(c)' => thread'[e] \notin {"none", "append"}
      BY <1>1, <1>2, <1>4, <2>5, SMTT(60) DEF CastOK
  <2> QED BY <1>1, <1>2, <2>1, <2>4, <2>5, <2>6, <2>7, <2>9, <2>10 DEF CastOK
<1> QED BY <1>9, <1>11, <1>12, <1>13, <1>14 DEF CastInv

(* list.remove takes out the one place of c and moves up what is behind.   *)
LEMMA RemovedMovesUp ==
  ASSUME ChatType, ListInv, NEW c \in Conns, c \in InList
  PROVE  \E i \in 1 .. Len(clients) :
            /\ clients[i] = c
            /\ Removed(c) \in Seq(Conns) /\ Len(Removed(c)) = Len(clients) - 1
            /\ \A j \in 1 .. Len(clients) - 1 :
                  Removed(c)[j] = IF j < i THEN clients[j] ELSE clients[j + 1]
<1> DEFINE n == Len(clients)
           i == CHOOSE m \in DOMAIN clients : clients[m] = c
           front == SubSeq(clients, 1, i - 1)
           back == SubSeq(clients, i + 1, n)
<1>1. n \in Nat /\ DOMAIN clients = 1 .. n /\ \A j \in 1 .. n : clients[j] \in Conns
    BY LenProperties, ElementOfSeq DEF ChatType
<1>2. i \in 1 .. n /\ clients[i] = c
    BY <1>1 DEF InList
<1>3. Removed(c) = front \o back
    BY DEF Removed
<1> HIDE DEF i
<1>4. front \in Seq(Conns) /\ Len(front) = i - 1 /\ \A j \in 1 .. i - 1 : front[j] = clients[j]
  <2>1. 1 \in Int /\ i - 1 \in Int /\ \A j \in 1 .. i - 1 : clients[j] \in Conns
      BY <1>1, <1>2
  <2>2. /\ front \in Seq(Conns)
        /\ Len(front) = IF 1 <= i - 1 THEN (i - 1) - 1 + 1 ELSE 0
        /\ \A j \in 1 .. (i - 1) - 1 + 1 : front[j] = clients[1 + j - 1]
      BY <2>1, SubSeqProperties
  <2> HIDE DEF front
  <2> QED BY <1>1, <1>2, <2>2
<1>5. back \in Seq(Conns) /\ Len(back) = n - i /\ \A j \in 1 .. n - i : back[j] = clients[i + j]
  <2>1. i + 1 \in Int /\ n \in Int /\ \A j \in i + 1 .. n : clients[j] \in Conns
      BY <1>1, <1>2
  <2>2. /\ back \in Seq(Conns)
        /\ Len(back) = IF i + 1 <= n THEN n - (i + 1) + 1 ELSE 0
        /\ \A j \in 1 .. n - (i + 1) + 1 : back[j] = clients[(i + 1) + j - 1]
      BY <2>1, SubSeqProperties
  <2> HIDE DEF back, n
  <2> QED BY <1>1, <1>2, <2>2
<1>6. /\ front \o back \in Seq(Conns) /\ Len(front \o back) = (i - 1) + (n - i)
      /\ \A j \in 1 .. (i - 1) + (n - i) :
            (front \o back)[j] = IF j <= i - 1 THEN front[j] ELSE back[j - (i - 1)]
  <2> HIDE DEF front, back, n
  <2>1. /\ front \o back \in Seq(Conns) /\ Len(front \o back) = Len(front) + Len(back)
        /\ \A j \in 1 .. Len(front) + Len(back) :
              (front \o back)[j] = IF j <= Len(front) THEN front[j] ELSE back[j - Len(front)]
      BY <1>4, <1>5, ConcatProperties
  <2> QED BY <1>4, <1>5, <2>1
<1>7. ASSUME NEW j \in 1 .. n - 1
      PROVE  (front \o back)[j] = IF j < i THEN clients[j] ELSE clients[j + 1]
  <2> HIDE DEF front, back, n
  <2>1. j \in 1 .. (i - 1) + (n - i) /\ j \in Int /\ i \in Int /\ n \in Int
      BY <1>1, <1>2, <1>7
  <2>2. CASE j < i
    <3>1. j <= i - 1 /\ j \in 1 .. i - 1
        BY <1>7, <2>1, <2>2
    <3> QED BY <1>4, <1>6, <2>1, <2>2, <3>1
  <2>3. CASE ~(j < i)
    <3>1. ~(j <= i - 1) /\ j - (i - 1) \in 1 .. n - i /\ i + (j - (i - 1)) = j + 1
        BY <1>2, <1>7, <2>1, <2>3
    <3>2. (front \o back)[j] = back[j - (i - 1)]
        BY <1>6, <2>1, <3>1
    <3>3. back[j - (i - 1)] = clients[i + (j - (i - 1))]
        BY <1>5, <3>1
    <3> QED BY <2>3, <3>1, <3>2, <3>3
  <2> QED BY <2>2, <2>3
<1>8. (i - 1) + (n - i) = n - 1
    BY <1>1, <1>2
<1> QED BY <1>2, <1>3, <1>6, <1>7, <1>8, ZenonT(60)

(* Whoever is removed takes nobody out of sight of a broadcast but the one *)
(* it has come to, and that only from before it.                           *)
LEMMA RemoveKept ==
  ASSUME MeetingInv, NEW c \in Conns, Remove(c)
  PROVE  MeetingInv'
<1> USE DEF MeetingInv
<1> DEFINE n == Len(clients)
<1>1. /\ thread[c] = "remove" /\ thread' = [thread EXCEPT ![c] = "close"]
      /\ clients' = Removed(c)
      /\ due' = [e \in Conns |-> due[e] \ {c}]
      /\ losses' = [e \in Conns |-> IF thread[e] = "cast" THEN losses[e] + 1 ELSE losses[e]]
      /\ UNCHANGED <<client, backlog, cursor, told>>
    BY DEF Remove, socketVars
<1>2. n \in Nat /\ DOMAIN clients = 1 .. n /\ c \in InList
    BY <1>1, LenProperties, SMTT(60) DEF ChatType, ListInv
<1>3. PICK i \in 1 .. n :
         /\ clients[i] = c /\ clients' \in Seq(Conns) /\ Len(clients') = n - 1
         /\ \A j \in 1 .. n - 1 : clients'[j] = IF j < i THEN clients[j] ELSE clients[j + 1]
    BY <1>1, <1>2, RemovedMovesUp, ZenonT(60)
<1>4. DOMAIN clients' = 1 .. n - 1
    BY <1>3, LenProperties
<1>5. thread'[c] = "close" /\ \A e \in Conns : e # c => thread'[e] = thread[e]
    BY <1>1 DEF ChatType
<1>6. ChatType'
  <2>1. due' \in [Conns -> SUBSET Conns]
      BY <1>1 DEF ChatType
  <2>2. losses' \in [Conns -> Nat]
      BY <1>1 DEF ChatType
  <2>3. thread' \in [Conns -> {"none", "append", "recv", "cast", "remove", "close", "gone"}]
      BY <1>1 DEF ChatType
  <2> QED BY <1>1, <1>3, <2>1, <2>2, <2>3 DEF ChatType
<1>7. NobodyReturns
    BY <1>5 DEF NobodyReturns
<1>8. BacklogInv' /\ UnmadeInv' /\ NewcomerInv'
    BY <1>1, <1>5, <1>7, SameBacklog
<1>9. \A j \in 1 .. n : j # i => clients[j] # c
    BY <1>2, <1>3 DEF ListInv
<1>10. ListInv'
  <2>1. \A j, m \in DOMAIN clients' : clients'[j] = clients'[m] => j = m
    <3> SUFFICES ASSUME NEW j \in 1 .. n - 1, NEW m \in 1 .. n - 1, clients'[j] = clients'[m]
                 PROVE  j = m
        BY <1>4
    <3> DEFINE a == IF j < i THEN j ELSE j + 1
               b == IF m < i THEN m ELSE m + 1
    <3>1. a \in DOMAIN clients /\ b \in DOMAIN clients
        BY <1>2
    <3>2. clients[a] = clients[b]
        BY <1>3
    <3>3. a = b
        BY <3>1, <3>2 DEF ListInv
    <3> QED BY <1>2, <3>3
  <2>2. InList' = InList \ {c}
    <3>1. ASSUME NEW j \in 1 .. n - 1 PROVE clients'[j] \in InList \ {c}
      <4> DEFINE a == IF j < i THEN j ELSE j + 1
      <4>1. a \in 1 .. n /\ a # i /\ clients'[j] = clients[a]
          BY <1>2, <1>3
      <4> QED BY <1>2, <1>9, <4>1 DEF InList
    <3>2. ASSUME NEW m \in 1 .. n, clients[m] # c PROVE clients[m] \in InList'
      <4> DEFINE a == IF m < i THEN m ELSE m - 1
      <4>1. a \in 1 .. n - 1 /\ clients'[a] = clients[m]
          BY <1>2, <1>3, <3>2
      <4> QED BY <1>4, <4>1 DEF InList
    <3> QED BY <1>2, <1>4, <3>1, <3>2 DEF InList
  <2> QED BY <1>5, <2>1, <2>2 DEF ListInv
<1>11. ASSUME NEW d \in Conns PROVE CastOK(d)'
  <2>1. CASE thread'[d] # "cast"
      BY <1>1, <1>5, <2>1, NoCast DEF CastInv
  <2>2. CASE thread'[d] = "cast"
    <3> DEFINE k == cursor[d]
    <3>1. d # c /\ thread[d] = "cast" /\ CastOK(d) /\ k \in Nat /\ k >= 1
        BY <1>5, <2>2 DEF CastInv, CastOK, ChatType
    <3>2. Told(d)' = Told(d) /\ cursor'[d] = k
        BY <1>1 DEF Told
    <3>3. Ahead(d)' \subseteq Ahead(d)
      <4> SUFFICES ASSUME NEW j \in 1 .. n - 1, k <= j PROVE clients'[j] \in Ahead(d)
          BY <1>4, <3>2 DEF Ahead
      <4> DEFINE a == IF j < i THEN j ELSE j + 1
      <4>1. a \in 1 .. n /\ k <= a /\ clients'[j] = clients[a]
          BY <1>2, <1>3, <3>1
      <4> QED BY <1>2, <4>1 DEF Ahead
    <3>4. ASSUME NEW m \in 1 .. n, k <= m, m # k, clients[m] # c
          PROVE  clients[m] \in Ahead(d)'
      <4> DEFINE a == IF m < i THEN m ELSE m - 1
      <4>1. a \in 1 .. n - 1 /\ k <= a /\ clients'[a] = clients[m]
          BY <1>2, <1>3, <3>1, <3>4
      <4> QED BY <1>4, <3>2, <4>1 DEF Ahead
    <3>5. Ahead(d) \subseteq Ahead(d)' \cup {clients[k], c}
        BY <1>2, <3>4 DEF Ahead
    <3>6. due'[d] = due[d] \ {c} /\ losses'[d] = losses[d] + 1
        BY <1>1, <3>1
    <3>7. Passed(d)' \subseteq Passed(d) \cup {clients[k]} /\ Passed(d) \subseteq due[d]
        BY <3>2, <3>5, <3>6 DEF Passed
    <3>8. IsFiniteSet(due[d]) /\ IsFiniteSet(Passed(d)) /\ IsFiniteSet(due'[d])
        BY <3>1, <3>6, <3>7, SubsetCounts DEF CastOK
    <3>9. Cardinality(Passed(d)') <= losses'[d]
      <4>1. Cardinality(Passed(d)) \in Nat /\ Cardinality(Passed(d)) <= losses[d]
          BY <3>1, <3>8, SubsetCounts DEF CastOK
      <4>2. /\ IsFiniteSet(Passed(d) \cup {clients[k]})
            /\ Cardinality(Passed(d) \cup {clients[k]})
                 = IF clients[k] \in Passed(d) THEN Cardinality(Passed(d))
                                               ELSE Cardinality(Passed(d)) + 1
          BY <3>8, FS_AddElement
      <4>3. /\ Cardinality(Passed(d)') \in Nat
            /\ Cardinality(Passed(d)') <= Cardinality(Passed(d) \cup {clients[k]})
          BY <3>7, <4>2, SubsetCounts
      <4>4. losses[d] \in Nat
          BY DEF ChatType
      <4> QED BY <3>6, <4>1, <4>2, <4>3, <4>4
    <3> QED
        BY <1>1, <1>5, <1>7, <2>2, <3>1, <3>2, <3>3, <3>6, <3>8, <3>9
        DEF CastOK, NobodyReturns
  <2> QED BY <2>1, <2>2
<1> QED BY <1>6, <1>8, <1>10, <1>11 DEF CastInv

(* The clients' own steps.                                                 *)
LEMMA ClientKept ==
  ASSUME MeetingInv, ClientStep, design = "chat"
  PROVE  MeetingInv'
<1> USE DEF MeetingInv
<1>1. UNCHANGED chatVars /\ NobodyReturns
    BY DEF ClientStep, chatVars, NobodyReturns
<1>2. PICK c \in Conns : Connect(c) \/ Write(c) \/ Leave(c)
    BY DEF ClientStep
<1>3. ChatType' /\ ListInv'
  <2>1. client' \in [Conns -> {"off", "open", "left", "reset", "broken"}]
      BY <1>2 DEF Connect, Write, Leave, ChatType
  <2>2. ChatType'
      BY <1>1, <2>1 DEF chatVars, castVars, ChatType
  <2>3. ListInv'
      BY <1>1, SameList DEF chatVars
  <2> QED BY <2>2, <2>3
<1>4. CastInv'
    BY <1>1, SameCast DEF chatVars, castVars, CastInv
<1>5. BacklogInv' /\ UnmadeInv' /\ NewcomerInv'
  <2>1. CASE Connect(c)
    <3>1. ~Queued(c) /\ client[c] = "off" /\ backlog' = Append(backlog, c)
        BY <2>1 DEF Connect, UnmadeInv
    <3>2. BacklogInv' /\ \A d \in Conns : Queued(d)' <=> (Queued(d) \/ d = c)
        BY <3>1, ConnectQueues
    <3>3. client'[c] = "open" /\ \A d \in Conns : d # c => client'[d] = client[d]
        BY <2>1 DEF Connect, ChatType
    <3> QED BY <1>1, <3>1, <3>2, <3>3 DEF chatVars, UnmadeInv, NewcomerInv
  <2>2. CASE Write(c) \/ Leave(c)
    <3>1. UNCHANGED backlog /\ \A d \in Conns : client'[d] = "off" => client[d] = "off"
        BY <2>2 DEF Write, Leave, ChatType
    <3> QED BY <1>1, <3>1, SameBacklog DEF chatVars
  <2> QED BY <1>2, <2>1, <2>2
<1> QED BY <1>3, <1>4, <1>5

LEMMA StepKept ==
  ASSUME MeetingInv, design = "chat", [Next]_vars
  PROVE  MeetingInv'
<1>1. CASE ClientStep
    BY <1>1, ClientKept
<1>2. CASE ChatStep
    BY <1>2, AcceptKept, JoinKept, RecvKept, RestKept, CastKept, RemoveKept DEF ChatStep
<1>3. CASE UNCHANGED vars
  <2>1. UNCHANGED <<client, backlog, clients, thread, cursor, due, told, losses>>
      BY <1>3 DEF vars, socketVars, chatVars, castVars
  <2>2. NobodyReturns
      BY <2>1 DEF NobodyReturns
  <2>3. ChatType' /\ ListInv' /\ BacklogInv' /\ UnmadeInv' /\ NewcomerInv'
      BY <2>1, <2>2, SameList, SameBacklog DEF MeetingInv, ChatType
  <2>4. CastInv'
      BY <2>1, <2>2, SameCast DEF MeetingInv, CastInv
  <2> QED BY <2>3, <2>4 DEF MeetingInv
<1> QED
    BY <1>1, <1>2, <1>3 DEF Next, ServerStep, EchoStep, Designs

ChatInv == IF design = "chat" THEN MeetingInv ELSE \A c \in Conns : thread[c] = "none"

LEMMA ChatInductive == Init /\ [][Next]_vars => []ChatInv
<1>1. Init => ChatInv
  <2> SUFFICES ASSUME Init, design = "chat" PROVE MeetingInv
      BY DEF Init, ChatInit, ChatInv
  <2> USE DEF Init, SocketsInit, ChatInit
  <2>1. backlog = << >> /\ DOMAIN backlog = {} /\ \A c \in Conns : ~Queued(c)
      BY DEF Queued
  <2>2. clients = << >> /\ DOMAIN clients = {} /\ InList = {}
      BY DEF InList
  <2>3. ChatType /\ BacklogInv
      BY <2>1, EmptySeq DEF ChatType, BacklogInv
  <2>4. UnmadeInv /\ NewcomerInv /\ ListInv /\ CastInv
      BY <2>1, <2>2 DEF UnmadeInv, NewcomerInv, ListInv, CastInv, CastOK
  <2> QED BY <2>3, <2>4 DEF MeetingInv
<1>2. ChatInv /\ [Next]_vars => ChatInv'
  <2> SUFFICES ASSUME ChatInv, [Next]_vars PROVE ChatInv'
      OBVIOUS
  <2>1. UNCHANGED design
      BY DEF Next, ClientStep, ServerStep, vars, chosen
  <2>2. CASE design = "chat"
      BY <2>1, <2>2, StepKept DEF ChatInv
  <2>3. CASE design # "chat"
    <3>1. UNCHANGED thread
        BY <2>3 DEF Next, ClientStep, ServerStep, vars, chatVars
    <3> QED BY <2>1, <2>3, <3>1 DEF ChatInv
  <2> QED BY <2>2, <2>3
<1> QED BY <1>1, <1>2, PTL

(* For any number of clients that join, speak and leave at any time, a     *)
(* broadcast that has come to the end of the list has sent to nobody twice *)
(* and passed over no more members than were removed while it ran.         *)
THEOREM BroadcastsReach == FairSpec => []BroadcastReaches
<1>1. ChatInv => BroadcastReaches
  <2> SUFFICES ASSUME MeetingInv, NEW c \in Conns, thread[c] = "cast"
               PROVE  /\ \A i, j \in DOMAIN told[c] : told[c][i] = told[c][j] => i = j
                      /\ cursor[c] > Len(clients) =>
                           Cardinality({d \in due[c] : \A i \in DOMAIN told[c] : told[c][i] # d})
                             <= losses[c]
      BY DEF ChatInv, BroadcastReaches
  <2>1. CastOK(c) /\ cursor[c] \in Nat /\ Len(clients) \in Nat /\ DOMAIN clients = 1 .. Len(clients)
      BY LenProperties DEF MeetingInv, CastInv, ChatType
  <2>2. ASSUME cursor[c] > Len(clients)
        PROVE  Passed(c) = {d \in due[c] : \A i \in DOMAIN told[c] : told[c][i] # d}
    <3>1. Ahead(c) = {}
        BY <2>1, <2>2 DEF Ahead
    <3> QED BY <3>1 DEF Passed, Told
  <2> QED BY <2>1, <2>2 DEF CastOK
<1> QED BY <1>1, ChatInductive, PTL DEF FairSpec
=============================================================================
