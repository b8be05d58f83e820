----------------------------- MODULE ShmPipeline -----------------------------
(***************************************************************************)
(* The calculator of socket-hw/HW4: three programs that share two System V *)
(* memory segments, each behind one System V semaphore.                    *)
(*                                                                         *)
(*   trigger  --(request, semaphore 1)-->  producer                        *)
(*            --(record, semaphore 2)-->   consumer                        *)
(*                                                                         *)
(* Every semop carries SEM_UNDO: the kernel keeps an adjustment per        *)
(* process and semaphore and adds it to the semaphore when the process     *)
(* ends, however it ends.  The producer sets both semaphores to 1 when it  *)
(* starts, which clears everybody's adjustment; memory and semaphores      *)
(* outlive the programs.                                                   *)
(*                                                                         *)
(* Abstractions.  A request has two halves, the numbers and the operator   *)
(* (front) and the description (back), each of them the request it was     *)
(* written for; of numbers and operator only the outcome is kept.  The     *)
(* time, the address and the error code, which nobody reads, are left out. *)
(***************************************************************************)
EXTENDS Integers

CONSTANTS
  Results,   \* what +, -, x and / can yield
  Ops,       \* the kinds of requests that are typed in
  Faults     \* what may go wrong: "kill" a program, "fail" a waiting semop

ASSUME ConstantsAssumption ==
  /\ Results \subseteq Int
  /\ Ops \subseteq {"calc", "error", "trap", "quit"}
  /\ Faults \subseteq {"kill", "fail"}

(* "error" is an unknown operator or a division by zero, which leave the   *)
(* result as it was, "trap" is INT_MIN / -1.                               *)
Requests == [op : Ops \cap {"calc"}, value : Results]
              \cup [op : Ops \ {"calc"}]

Blank == [op |-> "none"]

Halves == Requests \cup {Blank}

NoJob == [front |-> Blank, back |-> Blank]

Outcomes == Results \cup {0}

VARIABLES
  trigger, producer, consumer,   \* where the three programs are
  ipc,              \* what the producer has set up: memory, semaphore 1, 2
  val1, val2,       \* the semaphores
  adjT, adjP1,      \* adjustments of semaphore 1: trigger, producer
  adjP2, adjC,      \* adjustments of semaphore 2: producer, consumer
  typed,            \* the request the trigger is about to write
  request,          \* the first segment
  job,              \* the producer's local copy of it
  record,           \* the second segment
  seen,             \* history: see RunningExtrema
  spoiled,          \* history: the programs that have been inside without
                    \* an adjustment since they started
  faults            \* history: what kills and failures have left behind

sem1 == <<val1, adjT, adjP1>>
sem2 == <<val2, adjP2, adjC>>
memory == <<request, record, seen>>
vars == <<trigger, producer, consumer, ipc, sem1, sem2, typed, memory, job,
          spoiled, faults>>

Init ==
  /\ trigger = "new" /\ producer = "new" /\ consumer = "new"
  /\ ipc = "absent"
  /\ val1 = 0 /\ adjT = 0 /\ adjP1 = 0
  /\ val2 = 0 /\ adjP2 = 0 /\ adjC = 0
  /\ typed = Blank
  /\ request = NoJob
  /\ job = NoJob
  /\ record = [front |-> Blank, back |-> Blank, result |-> 0, min |-> 0, max |-> 0]
  /\ seen = {}
  /\ spoiled = {}
  /\ faults = {}

IsQuit(r) == r.front.op = "quit" /\ r.back.op = "quit"

TriggerInside   == trigger \in {"front", "back", "leave"}
ProducerInside1 == producer \in {"front", "back", "leave1"}
ProducerInside2 == producer \in {"copy", "compute", "first", "min", "max", "leave2"}
ConsumerInside  == consumer \in {"look", "leave"}

-----------------------------------------------------------------------------
(* semop and semctl on a semaphore v with the adjustment a of the caller.  *)

Wait(v, a) == v > 0 /\ v' = v - 1 /\ a' = a + 1

Signal(v, a) == v' = v + 1 /\ a' = a - 1

(* Mutant of Undo: semop without SEM_UNDO.                                 *)
UndoNothing(v, a) == v' = v /\ a' = 0

(* The end of a process; the kernel keeps the value from going below zero. *)
Undo(v, a) == v' = (IF v + a < 0 THEN 0 ELSE v + a) /\ a' = 0

(* SETVAL 1 clears the adjustments of both users of the semaphore.         *)
SetVal(v, a, b) == v' = 1 /\ a' = 0 /\ b' = 0

-----------------------------------------------------------------------------
(* trigger.                                                                *)

StartTrigger ==
  /\ trigger \in {"off", "new"} /\ trigger' = "read"
  /\ ipc # "absent"
  /\ UNCHANGED <<producer, consumer, ipc, sem1, sem2, typed, memory, job, spoiled, faults>>

ReadLine(r) ==
  /\ trigger = "read" /\ trigger' = "wait"
  /\ typed' = r
  /\ UNCHANGED <<producer, consumer, ipc, sem1, sem2, memory, job, spoiled, faults>>

TriggerWait ==
  /\ trigger = "wait" /\ trigger' = "front"
  /\ Wait(val1, adjT)
  /\ UNCHANGED <<producer, consumer, ipc, adjP1, sem2, typed, memory, job, spoiled, faults>>

(* Stopped and continued while it waits, semop returns -1 without having   *)
(* taken the semaphore, which the trigger does not look at.                *)
TriggerWaitFails ==
  /\ trigger = "wait" /\ trigger' = "front"
  /\ val1 = 0
  /\ spoiled' = spoiled \cup {"trigger"}
  /\ faults' = faults \cup {"overlap"}
  /\ UNCHANGED <<producer, consumer, ipc, sem1, sem2, typed, memory, job>>

WriteFront ==
  /\ trigger = "front" /\ trigger' = "back"
  /\ request' = [front |-> typed, back |-> request.back]
  /\ UNCHANGED <<producer, consumer, ipc, sem1, sem2, typed, record, seen, job, spoiled, faults>>

WriteBack ==
  /\ trigger = "back" /\ trigger' = "leave"
  /\ request' = [front |-> request.front, back |-> typed]
  /\ UNCHANGED <<producer, consumer, ipc, sem1, sem2, typed, record, seen, job, spoiled, faults>>

TriggerSignal ==
  /\ trigger = "leave" /\ trigger' = "read"
  /\ typed.op # "quit"
  /\ Signal(val1, adjT)
  /\ typed' = Blank
  /\ UNCHANGED <<producer, consumer, ipc, adjP1, sem2, memory, job, spoiled, faults>>

TriggerEnds ==
  /\ trigger' = "off"
  /\ Undo(val1, adjT)
  /\ typed' = Blank
  /\ spoiled' = spoiled \ {"trigger"}
  /\ UNCHANGED <<producer, consumer, ipc, adjP1, sem2, memory, job>>

(* break: the semaphore is left to SEM_UNDO.                               *)
TriggerQuits ==
  /\ trigger = "leave"
  /\ typed.op = "quit"
  /\ TriggerEnds
  /\ UNCHANGED faults

KillTrigger ==
  /\ trigger \notin {"off", "new"}
  /\ TriggerEnds
  /\ faults' = IF trigger = "back" THEN faults \cup {"request"} ELSE faults

-----------------------------------------------------------------------------
(* producer.                                                               *)

StartProducer ==
  /\ producer \in {"off", "new"} /\ producer' = "set1"
  /\ ipc' = IF ipc = "absent" THEN "memory" ELSE ipc
  /\ UNCHANGED <<trigger, consumer, sem1, sem2, typed, memory, job, spoiled, faults>>

SetSemaphore1 ==
  /\ producer = "set1" /\ producer' = "set2"
  /\ SetVal(val1, adjT, adjP1)
  /\ ipc' = IF ipc = "memory" THEN "semaphore1" ELSE ipc
  /\ spoiled' = IF TriggerInside THEN spoiled \cup {"trigger"} ELSE spoiled \ {"trigger"}
  /\ faults' = IF TriggerInside THEN faults \cup {"overlap"} ELSE faults
  /\ UNCHANGED <<trigger, consumer, sem2, typed, memory, job>>

SetSemaphore2 ==
  /\ producer = "set2" /\ producer' = "wait1"
  /\ SetVal(val2, adjP2, adjC)
  /\ ipc' = "ready"
  /\ spoiled' = IF ConsumerInside THEN spoiled \cup {"consumer"} ELSE spoiled \ {"consumer"}
  /\ faults' = IF ConsumerInside THEN faults \cup {"overlap"} ELSE faults
  /\ UNCHANGED <<trigger, consumer, sem1, typed, memory, job>>

(* Mutant of ProducerWait1: semop is not called.                           *)
ProducerWalksIn ==
  /\ producer = "wait1" /\ producer' = "front"
  /\ UNCHANGED <<trigger, consumer, ipc, sem1, sem2, typed, memory, job, spoiled, faults>>

ProducerWait1 ==
  /\ producer = "wait1" /\ producer' = "front"
  /\ Wait(val1, adjP1)
  /\ UNCHANGED <<trigger, consumer, ipc, adjT, sem2, typed, memory, job, spoiled, faults>>

ReadFront ==
  /\ producer = "front" /\ producer' = "back"
  /\ job' = [front |-> request.front, back |-> job.back]
  /\ UNCHANGED <<trigger, consumer, ipc, sem1, sem2, typed, memory, spoiled, faults>>

ReadBack ==
  /\ producer = "back" /\ producer' = "leave1"
  /\ job' = [front |-> job.front, back |-> request.back]
  /\ UNCHANGED <<trigger, consumer, ipc, sem1, sem2, typed, memory, spoiled, faults>>

ProducerSignal1 ==
  /\ producer = "leave1" /\ producer' = "wait2"
  /\ Signal(val1, adjP1)
  /\ UNCHANGED <<trigger, consumer, ipc, adjT, sem2, typed, memory, job, spoiled, faults>>

ProducerWait2 ==
  /\ producer = "wait2" /\ producer' = "copy"
  /\ Wait(val2, adjP2)
  /\ UNCHANGED <<trigger, consumer, ipc, sem1, adjC, typed, memory, job, spoiled, faults>>

CopyJob ==
  /\ producer = "copy" /\ producer' = "compute"
  /\ record' = [front |-> job.front, back |-> job.back,
                result |-> record.result, min |-> record.min, max |-> record.max]
  /\ UNCHANGED <<trigger, consumer, ipc, sem1, sem2, typed, request, seen, job, spoiled, faults>>

(* Mutant of Compute: min and max are not brought up to date.              *)
ComputeOnly ==
  /\ producer = "compute" /\ producer' = "leave2"
  /\ ~IsQuit(job) /\ job.front.op # "trap"
  /\ record' = [front |-> record.front, back |-> record.back,
                result |-> IF job.front.op = "calc" THEN job.front.value
                                                    ELSE record.result,
                min |-> record.min, max |-> record.max]
  /\ UNCHANGED <<trigger, consumer, ipc, sem1, sem2, typed, request, seen, job, spoiled, faults>>

Compute ==
  /\ producer = "compute" /\ producer' = "first"
  /\ ~IsQuit(job) /\ job.front.op # "trap"
  /\ record' = [front |-> record.front, back |-> record.back,
                result |-> IF job.front.op = "calc" THEN job.front.value
                                                    ELSE record.result,
                min |-> record.min, max |-> record.max]
  /\ UNCHANGED <<trigger, consumer, ipc, sem1, sem2, typed, request, seen, job, spoiled, faults>>

(* The extrema, one store after the other: max and min if none have been   *)
(* recorded yet, min and max otherwise.                                    *)
Unset == record.max = 0 /\ record.min = 0

NewMin == IF record.result < record.min THEN record.result ELSE record.min
NewMax == IF record.result > record.max THEN record.result ELSE record.max

Store(lo, hi) ==
  record' = [front |-> record.front, back |-> record.back,
             result |-> record.result, min |-> lo, max |-> hi]

UpdateFirst ==
  /\ producer = "first"
  /\ IF Unset
     THEN producer' = "min" /\ Store(record.min, record.result)
     ELSE producer' = "max" /\ Store(NewMin, record.max)
  /\ seen' = IF seen = {} /\ record.result = 0 THEN {} ELSE seen \cup {record.result}
  /\ UNCHANGED <<trigger, consumer, ipc, sem1, sem2, typed, request, job, spoiled, faults>>

(* Mutant of UpdateSecond: the second store of the first branch is missing. *)
UpdateSecondMaxOnly ==
  /\ producer \in {"min", "max"} /\ producer' = "leave2"
  /\ IF producer = "min"
     THEN Store(record.min, record.max)
     ELSE Store(record.min, NewMax)
  /\ UNCHANGED <<trigger, consumer, ipc, sem1, sem2, typed, request, seen, job, spoiled, faults>>

UpdateSecond ==
  /\ producer \in {"min", "max"} /\ producer' = "leave2"
  /\ IF producer = "min"
     THEN Store(record.result, record.max)
     ELSE Store(record.min, NewMax)
  /\ UNCHANGED <<trigger, consumer, ipc, sem1, sem2, typed, request, seen, job, spoiled, faults>>

ProducerSignal2 ==
  /\ producer = "leave2" /\ producer' = "wait1"
  /\ Signal(val2, adjP2)
  /\ faults' = faults \ {"record"}
  /\ job' = NoJob
  /\ UNCHANGED <<trigger, consumer, ipc, sem1, adjC, typed, memory, spoiled>>

ProducerEnds ==
  /\ producer' = "off"
  /\ Undo(val1, adjP1)
  /\ Undo(val2, adjP2)
  /\ job' = NoJob
  /\ UNCHANGED <<trigger, consumer, ipc, adjT, adjC, typed, memory, spoiled>>

(* Mutant of ProducerQuits: the quit request is computed like any other.   *)
ProducerIgnoresQuit ==
  /\ producer = "compute" /\ producer' = "first"
  /\ IsQuit(job)
  /\ UNCHANGED <<trigger, consumer, ipc, sem1, sem2, typed, memory, job, spoiled, faults>>

(* break, with semaphore 2 left to SEM_UNDO.                               *)
ProducerQuits ==
  /\ producer = "compute"
  /\ IsQuit(job)
  /\ ProducerEnds
  /\ UNCHANGED faults

(* The producer looks at what semop returns and ends when it fails.        *)
ProducerWaitFails ==
  /\ \/ (producer = "wait1" /\ val1 = 0)
     \/ (producer = "wait2" /\ val2 = 0)
  /\ ProducerEnds
  /\ UNCHANGED faults

(* SIGFPE on INT_MIN / -1.                                                 *)
ComputeTraps ==
  /\ producer = "compute"
  /\ job.front.op = "trap"
  /\ ProducerEnds
  /\ faults' = faults \cup {"record"}

(* What a killed producer leaves undone in the record.                     *)
LeftUndone ==
  (IF producer \in {"compute", "first", "min", "max"} THEN {"record"} ELSE {})
    \cup (IF \/ (producer = "min" /\ record.result # record.min)
              \/ (producer = "max" /\ record.result > record.max)
          THEN {"extrema"} ELSE {})

KillProducer ==
  /\ producer \notin {"off", "new"}
  /\ ProducerEnds
  /\ faults' = faults \cup LeftUndone

-----------------------------------------------------------------------------
(* consumer.                                                               *)

StartConsumer ==
  /\ consumer \in {"off", "new"} /\ consumer' = "wait"
  /\ ipc # "absent"
  /\ UNCHANGED <<trigger, producer, ipc, sem1, sem2, typed, memory, job, spoiled, faults>>

ConsumerWait ==
  /\ consumer = "wait" /\ consumer' = "look"
  /\ Wait(val2, adjC)
  /\ UNCHANGED <<trigger, producer, ipc, sem1, adjP2, typed, memory, job, spoiled, faults>>

(* Like TriggerWaitFails.                                                  *)
ConsumerWaitFails ==
  /\ consumer = "wait" /\ consumer' = "look"
  /\ val2 = 0
  /\ spoiled' = spoiled \cup {"consumer"}
  /\ faults' = faults \cup {"overlap"}
  /\ UNCHANGED <<trigger, producer, ipc, sem1, sem2, typed, memory, job>>

PrintRecord ==
  /\ consumer = "look" /\ consumer' = "leave"
  /\ ~IsQuit(record)
  /\ UNCHANGED <<trigger, producer, ipc, sem1, sem2, typed, memory, job, spoiled, faults>>

ConsumerSignal ==
  /\ consumer = "leave" /\ consumer' = "wait"
  /\ Signal(val2, adjC)
  /\ UNCHANGED <<trigger, producer, ipc, sem1, adjP2, typed, memory, job, spoiled, faults>>

ConsumerEnds ==
  /\ consumer' = "off"
  /\ Undo(val2, adjC)
  /\ spoiled' = spoiled \ {"consumer"}
  /\ UNCHANGED <<trigger, producer, ipc, sem1, adjP2, typed, memory, job, faults>>

ConsumerQuits == consumer = "look" /\ IsQuit(record) /\ ConsumerEnds

KillConsumer == consumer \notin {"off", "new"} /\ ConsumerEnds

-----------------------------------------------------------------------------
TriggerStep ==
  \/ TriggerWait \/ WriteFront \/ WriteBack \/ TriggerSignal \/ TriggerQuits

ProducerStep ==
  \/ SetSemaphore1 \/ SetSemaphore2
  \/ ProducerWait1 \/ ReadFront \/ ReadBack \/ ProducerSignal1
  \/ ProducerWait2 \/ CopyJob \/ Compute \/ ComputeTraps \/ ProducerQuits
  \/ UpdateFirst \/ UpdateSecond \/ ProducerSignal2

ConsumerStep == ConsumerWait \/ PrintRecord \/ ConsumerSignal \/ ConsumerQuits

(* What users and the system do to the programs.                           *)
Environment ==
  \/ StartTrigger \/ StartProducer \/ StartConsumer
  \/ \E r \in Requests : ReadLine(r)
  \/ /\ "fail" \in Faults
     /\ TriggerWaitFails \/ ProducerWaitFails \/ ConsumerWaitFails
  \/ /\ "kill" \in Faults
     /\ KillTrigger \/ KillProducer \/ KillConsumer

Next == TriggerStep \/ ProducerStep \/ ConsumerStep \/ Environment

Spec == Init /\ [][Next]_vars

(* The three programs run, and the kernel serves the waiters of a          *)
(* semaphore in the order in which they came.                              *)
Fairness ==
  /\ WF_vars(TriggerStep) /\ WF_vars(ProducerStep) /\ WF_vars(ConsumerStep)
  /\ SF_vars(TriggerWait) /\ SF_vars(ConsumerWait)
  /\ SF_vars(ProducerWait1) /\ SF_vars(ProducerWait2)

FairSpec == Spec /\ Fairness

-----------------------------------------------------------------------------
(* Properties.                                                             *)

TypeOK ==
  /\ trigger \in {"new", "off", "read", "wait", "front", "back", "leave"}
  /\ producer \in {"new", "off", "set1", "set2", "wait1", "front", "back", "leave1",
                   "wait2", "copy", "compute", "first", "min", "max", "leave2"}
  /\ consumer \in {"new", "off", "wait", "look", "leave"}
  /\ ipc \in {"absent", "memory", "semaphore1", "ready"}
  /\ val1 \in 0..2 /\ adjT \in {-1, 0, 1} /\ adjP1 \in {0, 1}
  /\ val2 \in 0..2 /\ adjC \in {-1, 0, 1} /\ adjP2 \in {0, 1}
  /\ typed \in Halves
  /\ request \in [front : Halves, back : Halves]
  /\ job \in [front : Halves, back : Halves]
  /\ record \in [front : Halves, back : Halves, result : Outcomes,
                 min : Outcomes, max : Outcomes]
  /\ seen \in SUBSET Outcomes
  /\ spoiled \in SUBSET {"trigger", "consumer"}
  /\ faults \in SUBSET {"request", "record", "extrema", "overlap"}

(* Two programs are inside one segment's section together only if the      *)
(* trigger or the consumer is spoiled: it went on after a failed semop, or *)
(* was inside when a new producer set the semaphore.                       *)
Exclusion ==
  /\ TriggerInside /\ ProducerInside1 => "trigger" \in spoiled
  /\ ProducerInside2 /\ ConsumerInside => "consumer" \in spoiled

(* SEM_UNDO heals a semaphore: once the programs that use it have ended,   *)
(* killed anywhere, spoiled or not, it is free and free once only.         *)
SemaphoresHeal ==
  /\ ipc \in {"semaphore1", "ready"} /\ trigger = "off" /\ producer = "off" => val1 = 1
  /\ ipc = "ready" /\ producer = "off" /\ consumer = "off" => val2 = 1

(* The producer never works on the numbers of one request with the         *)
(* description of another, unless a trigger was killed between writing the *)
(* two or the programs have overlapped.                                    *)
JobsWhole ==
  producer \in {"leave1", "wait2", "copy", "compute", "first", "min", "max", "leave2"}
    => job.front = job.back \/ "request" \in faults \/ "overlap" \in faults

(* What an unspoiled consumer prints belongs together: the result to the   *)
(* numbers, and the result lies between the extrema.  A killed producer    *)
(* can break the first until the next one has gone round once, and the     *)
(* second for good.                                                        *)
PrintsCoherent ==
  consumer = "look" /\ "consumer" \notin spoiled /\ "record" \notin faults =>
     /\ record.front.op = "calc" => record.result = record.front.value
     /\ "extrema" \notin faults =>
           record.min <= record.result /\ record.result <= record.max

Extrema == INSTANCE RunningExtrema WITH
  Results <- Outcomes, lo <- record.min, hi <- record.max, seen <- seen

(* The extrema are those of the results recorded, across any number of     *)
(* producers, unless one of them was killed between its two stores.        *)
ExtremaExact ==
  producer \in {"min", "max"} \/ "extrema" \in faults \/ Extrema!Extremal

(* Whoever waits for a semaphore gets it or gives up, even if its holder   *)
(* is killed or quits without giving it back.                              *)
SemaphoresAreGivenBack ==
  /\ (trigger = "wait" /\ ipc = "ready") ~> trigger # "wait"
  /\ producer = "wait1" ~> producer # "wait1"
  /\ producer = "wait2" ~> producer # "wait2"
  /\ (consumer = "wait" /\ ipc = "ready") ~> consumer # "wait"

(* A quit request ends the producer and, through the record, the consumer, *)
(* unless a trigger or a producer replaces it by another request first.    *)
QuitSpreads ==
  /\ IsQuit(request) ~> (producer \in {"off", "new"} \/ ~IsQuit(request))
  /\ IsQuit(record) ~> (consumer \in {"off", "new"} \/ ~IsQuit(record))

-----------------------------------------------------------------------------
(* The inductive invariant behind Exclusion and SemaphoresHeal.            *)

Count(b) == IF b THEN 1 ELSE 0

(* An adjustment is what the program holds, less what it took unasked.     *)
AdjustInv ==
  /\ adjT = Count(TriggerInside) - Count("trigger" \in spoiled)
  /\ adjP1 = Count(ProducerInside1)
  /\ adjP2 = Count(ProducerInside2)
  /\ adjC = Count(ConsumerInside) - Count("consumer" \in spoiled)
  /\ trigger \in {"off", "new"} => "trigger" \notin spoiled
  /\ consumer \in {"off", "new"} => "consumer" \notin spoiled

(* Taken with the adjustments, nothing is ever lost or gained.             *)
ConserveInv ==
  /\ val1 + adjT + adjP1 = Count(ipc \in {"semaphore1", "ready"})
  /\ val2 + adjP2 + adjC = Count(ipc = "ready")

(* A producer is past a SETVAL only if it has been done.                   *)
SetupInv ==
  /\ producer \notin {"new", "off", "set1"} => ipc \in {"semaphore1", "ready"}
  /\ producer \notin {"new", "off", "set1", "set2"} => ipc = "ready"
  /\ producer # "new" => ipc # "absent"
  /\ producer = "new" => ipc = "absent"
  /\ trigger # "new" \/ consumer # "new" => ipc # "absent"

SemInv == TypeOK /\ AdjustInv /\ ConserveInv /\ SetupInv

(* And the one behind JobsWhole: the halves of the request agree except    *)
(* while the trigger is between them.                                      *)
WholeInv ==
  /\ spoiled # {} => "overlap" \in faults
  /\ trigger # "back" => \/ request.front = request.back
                         \/ "request" \in faults \/ "overlap" \in faults
  /\ trigger = "back" => request.front = typed
  /\ producer = "back" => job.front = request.front \/ "overlap" \in faults
==============================================================================
