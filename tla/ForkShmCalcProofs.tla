-------------------------- MODULE ForkShmCalcProofs --------------------------
(***************************************************************************)
(* Proofs about ForkShmCalc, for any number of connections, keys and       *)
(* requests.                                                               *)
(***************************************************************************)
EXTENDS ForkShmCalc, TLAPS

(* SETVAL clears adjustments under way: a process inside has added one or  *)
(* nothing, a process outside owes one or nothing.                         *)
Signed(inside, a) == IF inside THEN a >= 0 ELSE a <= 0

AdjustInv ==
  \A c \in Clients :
    /\ Signed(ReaderInside(c), adj[<<c, "reader">>])
    /\ Signed(timer[c] = "leave", adj[<<c, "timer">>])
    /\ Signed(MainInside(c), adj[<<c, "main">>])

SettingUp == {"new", "shmget", "semget", "shmat", "setval", "start"}

(* A child has its key, and from the semaphore on its identifier; the      *)
(* other two processes come last.                                          *)
PlaceInv ==
  \A c \in Clients :
    /\ conn[c] = "none" => main[c] = "new"
    /\ main[c] \in SettingUp => timer[c] = "new" /\ reader[c] = "new"
    /\ main[c] \in {"new", "shmget", "semget"} => id[c] = None
    /\ main[c] # "new" => key[c] \in Keys
    /\ main[c] = "shmat" \/ Attached(c) => id[c] \in Ids

(* The global semaphore is taken while a reader is at the extrema.         *)
GlobalInv ==
  /\ OneAtTheExtrema
  /\ \A c \in Clients : GlobalInside(c) => gsem # 1

TypeInv == TypeOK /\ AdjustInv /\ PlaceInv /\ GlobalInv

LEMMA ContentTypes ==
  /\ Blank \in Contents /\ Hash \in Contents /\ NewRecord \in Records
  /\ \A r \in Requests : r \in Contents
  /\ \A r \in Contents : r.op = "calc" => r.value \in Outcomes
  /\ Outcomes \subseteq Int /\ 0 \in Outcomes
BY ConstantsAssumption DEF Rec, Blank, Hash, NewRecord, Contents, Records, Outcomes

LEMMA RecordTypes ==
  ASSUME TypeOK, NEW i \in Ids
  PROVE  /\ mem[i].front \in Contents /\ mem[i].back \in Contents
         /\ mem[i].result \in Outcomes
         /\ mem[i].min \in Outcomes /\ mem[i].max \in Outcomes
         /\ \A f, b \in Contents, x, y, z \in Outcomes :
              Rec(f, b, x, y, z) \in Records
         /\ \A c \in Clients : /\ out[c].front \in Contents /\ out[c].result \in Outcomes
                               /\ out[c].min \in Outcomes /\ out[c].max \in Outcomes
BY DEF TypeOK, Records, Rec

(* What the writes of a reader leave in the segments.                      *)
LEMMA PutTypes ==
  ASSUME TypeOK, NEW c \in Clients, id[c] \in Ids
  PROVE  /\ \A f, b \in Contents : PutRequest(c, f, b) => mem' \in [Ids -> Records]
         /\ \A x, y, z \in Outcomes : PutNumbers(c, x, y, z) => mem' \in [Ids -> Records]
         /\ mem[id[c]].front \in Contents /\ mem[id[c]].back \in Contents
         /\ mem[id[c]].result \in Outcomes
         /\ mem[id[c]].min \in Outcomes /\ mem[id[c]].max \in Outcomes
<1>1. \A f, b \in Contents : PutRequest(c, f, b) => mem' \in [Ids -> Records]
    BY RecordTypes DEF TypeOK, PutRequest
<1>2. \A x, y, z \in Outcomes : PutNumbers(c, x, y, z) => mem' \in [Ids -> Records]
    BY RecordTypes DEF TypeOK, PutNumbers
<1> QED
    BY <1>1, <1>2, RecordTypes

(* What semop and the end of a process do to values and adjustments.       *)
LEMMA SemopTypes ==
  ASSUME TypeOK, NEW c \in Clients, NEW p \in Processes, id[c] \in Ids
  PROVE  /\ Wait(c, p) /\ adj[<<c, p>>] <= 0 =>
              /\ val' \in [Ids -> Nat] /\ adj' \in [Clients \X Processes -> {-1, 0, 1}]
              /\ adj'[<<c, p>>] >= 0
         /\ Signal(c, p) /\ adj[<<c, p>>] >= 0 =>
              /\ val' \in [Ids -> Nat] /\ adj' \in [Clients \X Processes -> {-1, 0, 1}]
              /\ adj'[<<c, p>>] <= 0
         /\ Undo(c, p) =>
              /\ val' \in [Ids -> Nat] /\ adj' \in [Clients \X Processes -> {-1, 0, 1}]
              /\ adj'[<<c, p>>] = 0
         /\ Wait(c, p) \/ Signal(c, p) \/ Undo(c, p) =>
              \A q \in Clients \X Processes : q # <<c, p>> => adj'[q] = adj[q]
<1>1. <<c, p>> \in Clients \X Processes
    OBVIOUS
<1>2. adj[<<c, p>>] \in {-1, 0, 1} /\ val[id[c]] \in Nat
    BY <1>1 DEF TypeOK
<1>3. ASSUME Wait(c, p)
      PROVE  /\ val' \in [Ids -> Nat]
             /\ adj[<<c, p>>] <= 0 => adj' \in [Clients \X Processes -> {-1, 0, 1}]
             /\ adj'[<<c, p>>] = adj[<<c, p>>] + 1
    BY <1>1, <1>2, <1>3 DEF Wait, TypeOK
<1>4. ASSUME Signal(c, p)
      PROVE  /\ val' \in [Ids -> Nat]
             /\ adj[<<c, p>>] >= 0 => adj' \in [Clients \X Processes -> {-1, 0, 1}]
             /\ adj'[<<c, p>>] = adj[<<c, p>>] - 1
    BY <1>1, <1>2, <1>4 DEF Signal, TypeOK
<1>5. ASSUME Undo(c, p)
      PROVE  /\ val' \in [Ids -> Nat]
             /\ adj' \in [Clients \X Processes -> {-1, 0, 1}]
             /\ adj'[<<c, p>>] = 0
  <2>1. adj' \in [Clients \X Processes -> {-1, 0, 1}] /\ adj'[<<c, p>>] = 0
      BY <1>1, <1>5 DEF Undo, TypeOK
  <2>2. val' \in [Ids -> Nat]
      BY <1>2, <1>5 DEF Undo, TypeOK
  <2> QED BY <2>1, <2>2
<1>6. Wait(c, p) \/ Signal(c, p) \/ Undo(c, p) =>
        \A q \in Clients \X Processes : q # <<c, p>> => adj'[q] = adj[q]
    BY DEF Wait, Signal, Undo, TypeOK
<1> QED
    BY <1>2, <1>3, <1>4, <1>5, <1>6

(* A semop or the end of one process leaves the signs of the others alone. *)
LEMMA ReaderSigned ==
  ASSUME TypeInv, NEW c \in Clients, UNCHANGED <<main, timer>>,
         \A d \in Clients : d # c => reader'[d] = reader[d],
         \A q \in Clients \X Processes : q # <<c, "reader">> => adj'[q] = adj[q],
         Signed((ReaderInside(c))', adj'[<<c, "reader">>])
  PROVE  AdjustInv'
<1>1. \A d \in Clients, p \in Processes :
         d # c \/ p # "reader" => adj'[<<d, p>>] = adj[<<d, p>>]
    OBVIOUS
<1> QED
    BY <1>1 DEF TypeInv, AdjustInv, Processes, ReaderInside, MainInside, Signed

LEMMA TimerSigned ==
  ASSUME TypeInv, NEW c \in Clients, UNCHANGED <<main, reader>>,
         \A d \in Clients : d # c => timer'[d] = timer[d],
         \A q \in Clients \X Processes : q # <<c, "timer">> => adj'[q] = adj[q],
         Signed((timer[c] = "leave")', adj'[<<c, "timer">>])
  PROVE  AdjustInv'
<1>1. \A d \in Clients, p \in Processes :
         d # c \/ p # "timer" => adj'[<<d, p>>] = adj[<<d, p>>]
    OBVIOUS
<1> QED
    BY <1>1, ZenonT(60) DEF TypeInv, AdjustInv, Processes, ReaderInside, MainInside, Signed

LEMMA MainSigned ==
  ASSUME TypeInv, NEW c \in Clients, UNCHANGED <<timer, reader>>,
         \A d \in Clients : d # c => main'[d] = main[d],
         \A q \in Clients \X Processes : q # <<c, "main">> => adj'[q] = adj[q],
         Signed((MainInside(c))', adj'[<<c, "main">>])
  PROVE  AdjustInv'
<1>1. \A d \in Clients, p \in Processes :
         d # c \/ p # "main" => adj'[<<d, p>>] = adj[<<d, p>>]
    OBVIOUS
<1> QED
    BY <1>1 DEF TypeInv, AdjustInv, Processes, ReaderInside, MainInside, Signed

LEMMA SignsKept ==
  ASSUME TypeInv, UNCHANGED timer,
         \A d \in Clients, p \in Processes :
           adj'[<<d, p>>] = 0 \/ adj'[<<d, p>>] = adj[<<d, p>>],
         \A d \in Clients : ReaderInside(d)' <=> ReaderInside(d),
         \A d \in Clients : MainInside(d)' <=> MainInside(d)
  PROVE  AdjustInv'
<1> SUFFICES ASSUME NEW d \in Clients
             PROVE  /\ Signed(ReaderInside(d), adj[<<d, "reader">>])'
                    /\ Signed(timer[d] = "leave", adj[<<d, "timer">>])'
                    /\ Signed(MainInside(d), adj[<<d, "main">>])'
    BY DEF AdjustInv
<1>0. \A p \in Processes : /\ adj[<<d, p>>] \in Int
                           /\ adj'[<<d, p>>] = 0 \/ adj'[<<d, p>>] = adj[<<d, p>>]
    BY DEF TypeInv, TypeOK
<1> USE <1>0 DEF TypeInv, AdjustInv, Signed, Processes
<1>1. Signed(ReaderInside(d), adj[<<d, "reader">>])'
    BY DEF ReaderInside
<1>2. Signed(timer[d] = "leave", adj[<<d, "timer">>])'
    OBVIOUS
<1>3. Signed(MainInside(d), adj[<<d, "main">>])'
    BY DEF MainInside
<1> QED
    BY <1>1, <1>2, <1>3

LEMMA StepTypeOK == TypeInv /\ [Next]_vars => TypeOK'
<1> SUFFICES ASSUME TypeInv, [Next]_vars PROVE TypeOK'
    OBVIOUS
<1> USE ContentTypes DEF TypeInv, TypeOK, AdjustInv, PlaceInv, GlobalInv, GlobalInside, Attached, ReaderInside, MainInside, Signed, tables, extrema, sem, Processes, Rec
<1>1. CASE AcceptFails
    BY <1>1 DEF AcceptFails
<1>2. ASSUME NEW c \in Clients, Accept(c) PROVE TypeOK'
    BY <1>2 DEF Accept
<1>3. ASSUME NEW c \in Clients, SetUpFails(c) PROVE TypeOK'
    BY <1>3 DEF SetUpFails
<1>4. ASSUME NEW c \in Clients, ClientLeaves(c) PROVE TypeOK'
    BY <1>4 DEF ClientLeaves
<1>5. ASSUME NEW c \in Clients, GetMemory(c) PROVE TypeOK'
  <2>1. CASE segOf[key[c]] # None
      BY <1>5, <2>1 DEF GetMemory, MainGoes
  <2>2. CASE segOf[key[c]] = None
    <3>1. PICK i \in Ids : /\ segOf' = [segOf EXCEPT ![key[c]] = i]
                          /\ mem' = [mem EXCEPT ![i] = NewRecord]
        BY <1>5, <2>2 DEF GetMemory, MainGoes
    <3>2. mem' \in [Ids -> Records] /\ segOf' \in [Keys -> Ids \cup {None}]
        BY <3>1
    <3> QED BY <1>5, <3>2 DEF GetMemory, MainGoes
  <2> QED BY <2>1, <2>2
<1>6. ASSUME NEW c \in Clients, GetSemaphore(c) PROVE TypeOK'
  <2>1. key[c] \in Keys
      BY <1>6 DEF GetSemaphore, MainGoes
  <2>2. \A k \in Keys : semOf[k] \in Ids \cup {None}
      OBVIOUS
  <2>3. CASE semOf[SemKey(c)] # None
      BY <1>6, <2>1, <2>2, <2>3 DEF GetSemaphore, MainGoes, SemKey
  <2>4. CASE semOf[SemKey(c)] = None
    <3>1. PICK i \in Ids \ given : /\ id' = [id EXCEPT ![c] = i]
                                  /\ semOf' = [semOf EXCEPT ![SemKey(c)] = i]
                                  /\ given' = given \cup {i}
                                  /\ val' = [val EXCEPT ![i] = 0]
        BY <1>6, <2>4 DEF GetSemaphore, MainGoes
    <3> QED BY <1>6, <3>1 DEF GetSemaphore, MainGoes
  <2> QED BY <2>3, <2>4
<1>7. ASSUME NEW c \in Clients, Attach(c) PROVE TypeOK'
    BY <1>7 DEF Attach, MainGoes
<1>8. ASSUME NEW c \in Clients, SetValue(c) PROVE TypeOK'
  <2>1. \A p \in Clients \X Processes : id[p[1]] = id[c] \/ adj[p] \in {-1, 0, 1}
      OBVIOUS
  <2>2. adj' \in [Clients \X Processes -> {-1, 0, 1}]
      BY <1>8, <2>1 DEF SetValue, MainGoes
  <2>3. val' \in [Ids -> Nat]
      BY <1>8 DEF SetValue, MainGoes
  <2> QED BY <1>8, <2>2, <2>3 DEF SetValue, MainGoes
<1>9. ASSUME NEW c \in Clients, Start(c) PROVE TypeOK'
    BY <1>9, PutTypes DEF Start, MainGoes
<1>10. ASSUME NEW c \in Clients, ReceiveFails(c) PROVE TypeOK'
    BY <1>10, SemopTypes DEF ReceiveFails, ReaderEnds
<1>11. ASSUME NEW c \in Clients, EnterClient(c) PROVE TypeOK'
    BY <1>11, SemopTypes DEF EnterClient, ReaderGoes
<1>12. ASSUME NEW c \in Clients, EnterGlobal(c) PROVE TypeOK'
    BY <1>12 DEF EnterGlobal, ReaderGoes
<1>13. ASSUME NEW c \in Clients, ReaderSemopFails(c) PROVE TypeOK'
    BY <1>13, SemopTypes DEF ReaderSemopFails, ReaderEnds
<1>14. ASSUME NEW c \in Clients, WriteFront(c) PROVE TypeOK'
    BY <1>14, PutTypes DEF WriteFront, ReaderGoes
<1>15. ASSUME NEW c \in Clients, WriteBack(c) PROVE TypeOK'
    BY <1>15, PutTypes DEF WriteBack, ReaderGoes
<1>16. ASSUME NEW c \in Clients, Compute(c) PROVE TypeOK'
    BY <1>16, PutTypes DEF Compute, ReaderGoes, Result
<1>17. ASSUME NEW c \in Clients, ComputeTraps(c) PROVE TypeOK'
  <2>1. id[c] \in Ids /\ Undo(c, "reader")
      BY <1>17 DEF ComputeTraps, ReaderEnds
  <2>2. val' \in [Ids -> Nat] /\ adj' \in [Clients \X Processes -> {-1, 0, 1}]
      BY <2>1, SemopTypes
  <2>3. gsem' \in {-1, 0, 1}
      BY <1>17 DEF ComputeTraps
  <2> QED BY <1>17, <2>2, <2>3 DEF ComputeTraps, ReaderEnds
<1>18. ASSUME NEW c \in Clients, UpdateFirst(c) PROVE TypeOK'
  <2>1. Result(c) \in Outcomes /\ trace.min \in Outcomes /\ trace.max \in Outcomes
      BY <1>18, RecordTypes DEF UpdateFirst, ReaderGoes, Result
  <2>2. /\ trace' \in [min : Outcomes, max : Outcomes]
        /\ reader' = [reader EXCEPT ![c] = "min"] \/ reader' = [reader EXCEPT ![c] = "max"]
      BY <1>18, <2>1 DEF UpdateFirst, ReaderGoes
  <2>3. seen' \in SUBSET Outcomes
      BY <1>18, <2>1 DEF UpdateFirst, ReaderGoes
  <2> QED BY <1>18, <2>2, <2>3 DEF UpdateFirst, ReaderGoes
<1>19. ASSUME NEW c \in Clients, UpdateMin(c) PROVE TypeOK'
    BY <1>19, RecordTypes DEF UpdateMin, Result, ReaderGoes
<1>20. ASSUME NEW c \in Clients, UpdateMax(c) PROVE TypeOK'
    BY <1>20, RecordTypes DEF UpdateMax, Result, ReaderGoes
<1>21. ASSUME NEW c \in Clients, Share(c) PROVE TypeOK'
    BY <1>21, PutTypes DEF Share, ReaderGoes, Result
<1>22. ASSUME NEW c \in Clients, LeaveGlobal(c) PROVE TypeOK'
    BY <1>22 DEF LeaveGlobal, ReaderGoes
<1>23. ASSUME NEW c \in Clients, LeaveClient(c) PROVE TypeOK'
    BY <1>23, SemopTypes DEF LeaveClient, ReaderGoes
<1>24. ASSUME NEW c \in Clients, ReaderChecks(c) PROVE TypeOK'
    BY <1>24 DEF ReaderChecks, ReaderGoes
<1>25. ASSUME NEW c \in Clients, TimerEnters(c) PROVE TypeOK'
    BY <1>25, SemopTypes DEF TimerEnters, TimerGoes
<1>26. ASSUME NEW c \in Clients, TimerLeaves(c) PROVE TypeOK'
    BY <1>26, SemopTypes DEF TimerLeaves, TimerGoes
<1>27. ASSUME NEW c \in Clients, TimerSemopFails(c) PROVE TypeOK'
  <2>1. /\ id[c] \in Ids /\ Undo(c, "timer")
        /\ timer' = [timer EXCEPT ![c] = "ended"] /\ UNCHANGED out
        /\ UNCHANGED <<tables, main, reader, gsem, mem, in, extrema>>
      BY <1>27 DEF TimerSemopFails, TimerGoes
  <2>2. val' \in [Ids -> Nat] /\ adj' \in [Clients \X Processes -> {-1, 0, 1}]
      BY <2>1, SemopTypes
  <2> QED BY <2>1, <2>2
<1>28. ASSUME NEW c \in Clients, TimerChecks(c) PROVE TypeOK'
    BY <1>28 DEF TimerChecks, TimerGoes
<1>29. ASSUME NEW c \in Clients, ConsumerEnters(c) PROVE TypeOK'
    BY <1>29, SemopTypes DEF ConsumerEnters, ConsumerGoes, MainGoes
<1>30. ASSUME NEW c \in Clients, CopyNumbers(c) PROVE TypeOK'
    BY <1>30, RecordTypes DEF CopyNumbers, ConsumerGoes, MainGoes
<1>31. ASSUME NEW c \in Clients, CopyTextAndSend(c) PROVE TypeOK'
    BY <1>31, RecordTypes DEF CopyTextAndSend, ConsumerGoes, MainGoes
<1>32. ASSUME NEW c \in Clients, SendKills(c) PROVE TypeOK'
    BY <1>32, SemopTypes DEF SendKills, ConsumerGoes, MainGoes
<1>33. ASSUME NEW c \in Clients, ConsumerLeaves(c) PROVE TypeOK'
    BY <1>33, SemopTypes DEF ConsumerLeaves, ConsumerGoes, MainGoes
<1>34. ASSUME NEW c \in Clients, ConsumerSemopFails(c) PROVE TypeOK'
  <2>1. /\ id[c] \in Ids /\ Undo(c, "main")
        /\ main' = [main EXCEPT ![c] = "ended"] /\ out' = [out EXCEPT ![c] = NewRecord]
        /\ UNCHANGED <<tables, timer, reader, gsem, mem, in, extrema>>
      BY <1>34 DEF ConsumerSemopFails, ConsumerGoes, MainGoes
  <2>2. val' \in [Ids -> Nat] /\ adj' \in [Clients \X Processes -> {-1, 0, 1}]
      BY <2>1, SemopTypes
  <2> QED BY <2>1, <2>2
<1>35. ASSUME NEW c \in Clients, ConsumerGoesOn(c) PROVE TypeOK'
    BY <1>35 DEF ConsumerGoesOn, ConsumerGoes, MainGoes
<1>36. ASSUME NEW c \in Clients, HangUp(c) PROVE TypeOK'
    BY <1>36 DEF HangUp, ConsumerGoes, MainGoes
<1>37. ASSUME NEW c \in Clients, NEW r \in Requests, Receive(c, r) PROVE TypeOK'
    BY <1>37 DEF Receive, ReaderGoes
<1>38. CASE UNCHANGED vars
    BY <1>38 DEF vars
<1> QED
    BY <1>1, <1>2, <1>3, <1>4, <1>5, <1>6, <1>7, <1>8, <1>9, <1>10, <1>11,
       <1>12, <1>13, <1>14, <1>15, <1>16, <1>17, <1>18, <1>19, <1>20, <1>21,
       <1>22, <1>23, <1>24, <1>25, <1>26, <1>27, <1>28, <1>29, <1>30, <1>31,
       <1>32, <1>33, <1>34, <1>35, <1>36, <1>37, <1>38
       DEF Next, SetUpStep, ReaderStep, TimerStep, ConsumerStep

LEMMA StepAdjust == TypeInv /\ [Next]_vars => AdjustInv'
<1> SUFFICES ASSUME TypeInv, [Next]_vars PROVE AdjustInv'
    OBVIOUS
<1> USE DEF TypeInv, TypeOK, AdjustInv, PlaceInv, Attached, ReaderInside, MainInside, Signed, SettingUp, tables, extrema, sem, Processes, Rec
<1>1. CASE AcceptFails
    BY <1>1 DEF AcceptFails
<1>2. ASSUME NEW c \in Clients, Accept(c) PROVE AdjustInv'
    BY <1>2 DEF Accept
<1>3. ASSUME NEW c \in Clients, SetUpFails(c) PROVE AdjustInv'
    BY <1>3 DEF SetUpFails
<1>4. ASSUME NEW c \in Clients, ClientLeaves(c) PROVE AdjustInv'
    BY <1>4 DEF ClientLeaves
<1>5. ASSUME NEW c \in Clients, GetMemory(c) PROVE AdjustInv'
    BY <1>5 DEF GetMemory, MainGoes
<1>6. ASSUME NEW c \in Clients, GetSemaphore(c) PROVE AdjustInv'
    BY <1>6 DEF GetSemaphore, MainGoes, SemKey
<1>7. ASSUME NEW c \in Clients, Attach(c) PROVE AdjustInv'
    BY <1>7 DEF Attach, MainGoes
<1>8. ASSUME NEW c \in Clients, SetValue(c) PROVE AdjustInv'
  <2>1. \A p \in Clients \X Processes : adj'[p] = 0 \/ adj'[p] = adj[p]
      BY <1>8 DEF SetValue, MainGoes
  <2>2. \A d \in Clients, p \in Processes : adj'[<<d, p>>] = 0 \/ adj'[<<d, p>>] = adj[<<d, p>>]
      BY <2>1
  <2>3. /\ UNCHANGED <<timer, reader>>
        /\ \A d \in Clients : MainInside(d)' <=> MainInside(d)
      BY <1>8 DEF SetValue, MainGoes
  <2> QED BY <2>2, <2>3, SignsKept
<1>9. ASSUME NEW c \in Clients, Start(c) PROVE AdjustInv'
    BY <1>9, ZenonT(60) DEF Start, MainGoes, PutRequest
<1>10. ASSUME NEW c \in Clients, ReceiveFails(c) PROVE AdjustInv'
  <2>1. id[c] \in Ids /\ Undo(c, "reader")
      BY <1>10 DEF ReceiveFails, ReaderEnds
  <2>2. /\ adj'[<<c, "reader">>] = 0
        /\ \A q \in Clients \X Processes : q # <<c, "reader">> => adj'[q] = adj[q]
      BY <2>1, SemopTypes
  <2>3. /\ UNCHANGED <<main, timer>>
        /\ \A d \in Clients : d # c => reader'[d] = reader[d]
      BY <1>10 DEF ReceiveFails, ReaderEnds
  <2>4. Signed((ReaderInside(c))', adj'[<<c, "reader">>])
      BY <1>10, <2>2 DEF ReceiveFails, ReaderEnds
  <2> QED BY <2>2, <2>3, <2>4, ReaderSigned
<1>11. ASSUME NEW c \in Clients, EnterClient(c) PROVE AdjustInv'
  <2>1. id[c] \in Ids /\ adj[<<c, "reader">>] <= 0 /\ Wait(c, "reader")
      BY <1>11 DEF EnterClient, ReaderGoes
  <2>2. /\ adj'[<<c, "reader">>] >= 0
        /\ \A q \in Clients \X Processes : q # <<c, "reader">> => adj'[q] = adj[q]
      BY <2>1, SemopTypes
  <2>3. /\ UNCHANGED <<main, timer>>
        /\ \A d \in Clients : d # c => reader'[d] = reader[d]
      BY <1>11 DEF EnterClient, ReaderGoes
  <2>4. Signed((ReaderInside(c))', adj'[<<c, "reader">>])
      BY <1>11, <2>2 DEF EnterClient, ReaderGoes
  <2> QED BY <2>2, <2>3, <2>4, ReaderSigned
<1>12. ASSUME NEW c \in Clients, EnterGlobal(c) PROVE AdjustInv'
    BY <1>12 DEF EnterGlobal, ReaderGoes
<1>13. ASSUME NEW c \in Clients, ReaderSemopFails(c) PROVE AdjustInv'
  <2>1. id[c] \in Ids /\ Undo(c, "reader")
      BY <1>13 DEF ReaderSemopFails, ReaderEnds
  <2>2. /\ adj'[<<c, "reader">>] = 0
        /\ \A q \in Clients \X Processes : q # <<c, "reader">> => adj'[q] = adj[q]
      BY <2>1, SemopTypes
  <2>3. /\ UNCHANGED <<main, timer>>
        /\ \A d \in Clients : d # c => reader'[d] = reader[d]
      BY <1>13 DEF ReaderSemopFails, ReaderEnds
  <2>4. Signed((ReaderInside(c))', adj'[<<c, "reader">>])
      BY <1>13, <2>2 DEF ReaderSemopFails, ReaderEnds
  <2> QED BY <2>2, <2>3, <2>4, ReaderSigned
<1>14. ASSUME NEW c \in Clients, WriteFront(c) PROVE AdjustInv'
    BY <1>14 DEF WriteFront, PutRequest, ReaderGoes
<1>15. ASSUME NEW c \in Clients, WriteBack(c) PROVE AdjustInv'
    BY <1>15 DEF WriteBack, PutRequest, ReaderGoes
<1>16. ASSUME NEW c \in Clients, Compute(c) PROVE AdjustInv'
    BY <1>16 DEF Compute, PutNumbers, ReaderGoes
<1>17. ASSUME NEW c \in Clients, ComputeTraps(c) PROVE AdjustInv'
  <2>1. id[c] \in Ids /\ Undo(c, "reader")
      BY <1>17 DEF ComputeTraps, ReaderEnds
  <2>2. /\ adj'[<<c, "reader">>] = 0
        /\ \A q \in Clients \X Processes : q # <<c, "reader">> => adj'[q] = adj[q]
      BY <2>1, SemopTypes
  <2>3. /\ UNCHANGED <<main, timer>>
        /\ \A d \in Clients : d # c => reader'[d] = reader[d]
      BY <1>17 DEF ComputeTraps, ReaderEnds
  <2>4. Signed((ReaderInside(c))', adj'[<<c, "reader">>])
      BY <1>17, <2>2 DEF ComputeTraps, ReaderEnds
  <2> QED BY <2>2, <2>3, <2>4, ReaderSigned
<1>18. ASSUME NEW c \in Clients, UpdateFirst(c) PROVE AdjustInv'
  <2>1. reader' = [reader EXCEPT ![c] = "min"] \/ reader' = [reader EXCEPT ![c] = "max"]
      BY <1>18 DEF UpdateFirst, ReaderGoes
  <2>2. /\ UNCHANGED <<main, timer, adj>>
        /\ \A d \in Clients : ReaderInside(d)' <=> ReaderInside(d)
      BY <1>18, <2>1 DEF UpdateFirst, ReaderGoes
  <2> QED BY <2>2, SignsKept
<1>19. ASSUME NEW c \in Clients, UpdateMin(c) PROVE AdjustInv'
    BY <1>19 DEF UpdateMin, Result, ReaderGoes
<1>20. ASSUME NEW c \in Clients, UpdateMax(c) PROVE AdjustInv'
    BY <1>20 DEF UpdateMax, Result, ReaderGoes
<1>21. ASSUME NEW c \in Clients, Share(c) PROVE AdjustInv'
    BY <1>21 DEF Share, PutNumbers, Result, ReaderGoes
<1>22. ASSUME NEW c \in Clients, LeaveGlobal(c) PROVE AdjustInv'
    BY <1>22 DEF LeaveGlobal, ReaderGoes
<1>23. ASSUME NEW c \in Clients, LeaveClient(c) PROVE AdjustInv'
  <2>1. id[c] \in Ids /\ adj[<<c, "reader">>] >= 0 /\ Signal(c, "reader")
      BY <1>23 DEF LeaveClient, ReaderGoes
  <2>2. /\ adj'[<<c, "reader">>] <= 0
        /\ \A q \in Clients \X Processes : q # <<c, "reader">> => adj'[q] = adj[q]
      BY <2>1, SemopTypes
  <2>3. /\ UNCHANGED <<main, timer>>
        /\ \A d \in Clients : d # c => reader'[d] = reader[d]
      BY <1>23 DEF LeaveClient, ReaderGoes
  <2>4. Signed((ReaderInside(c))', adj'[<<c, "reader">>])
      BY <1>23, <2>2 DEF LeaveClient, ReaderGoes
  <2> QED BY <2>2, <2>3, <2>4, ReaderSigned
<1>24. ASSUME NEW c \in Clients, ReaderChecks(c) PROVE AdjustInv'
    BY <1>24 DEF ReaderChecks, ReaderGoes
<1>25. ASSUME NEW c \in Clients, TimerEnters(c) PROVE AdjustInv'
  <2>1. id[c] \in Ids /\ adj[<<c, "timer">>] <= 0 /\ Wait(c, "timer")
      BY <1>25 DEF TimerEnters, TimerGoes
  <2>2. /\ adj'[<<c, "timer">>] >= 0
        /\ \A q \in Clients \X Processes : q # <<c, "timer">> => adj'[q] = adj[q]
      BY <2>1, SemopTypes
  <2>3. /\ UNCHANGED <<main, reader>>
        /\ \A d \in Clients : d # c => timer'[d] = timer[d]
      BY <1>25 DEF TimerEnters, TimerGoes
  <2>4. Signed((timer[c] = "leave")', adj'[<<c, "timer">>])
      BY <1>25, <2>2 DEF TimerEnters, TimerGoes
  <2> QED BY <2>2, <2>3, <2>4, TimerSigned, ZenonT(60)
<1>26. ASSUME NEW c \in Clients, TimerLeaves(c) PROVE AdjustInv'
  <2>1. id[c] \in Ids /\ adj[<<c, "timer">>] >= 0 /\ Signal(c, "timer")
      BY <1>26 DEF TimerLeaves, TimerGoes
  <2>2. /\ adj'[<<c, "timer">>] <= 0
        /\ \A q \in Clients \X Processes : q # <<c, "timer">> => adj'[q] = adj[q]
      BY <2>1, SemopTypes
  <2>3. /\ UNCHANGED <<main, reader>>
        /\ \A d \in Clients : d # c => timer'[d] = timer[d]
      BY <1>26 DEF TimerLeaves, TimerGoes
  <2>4. Signed((timer[c] = "leave")', adj'[<<c, "timer">>])
      BY <1>26, <2>2 DEF TimerLeaves, TimerGoes
  <2> QED BY <2>2, <2>3, <2>4, TimerSigned, ZenonT(60)
<1>27. ASSUME NEW c \in Clients, TimerSemopFails(c) PROVE AdjustInv'
  <2>1. id[c] \in Ids /\ Undo(c, "timer")
      BY <1>27 DEF TimerSemopFails, TimerGoes
  <2>2. /\ adj'[<<c, "timer">>] = 0
        /\ \A q \in Clients \X Processes : q # <<c, "timer">> => adj'[q] = adj[q]
      BY <2>1, SemopTypes
  <2>3. /\ UNCHANGED <<main, reader>>
        /\ \A d \in Clients : d # c => timer'[d] = timer[d]
      BY <1>27 DEF TimerSemopFails, TimerGoes
  <2>4. Signed((timer[c] = "leave")', adj'[<<c, "timer">>])
      BY <1>27, <2>2 DEF TimerSemopFails, TimerGoes
  <2> QED BY <2>2, <2>3, <2>4, TimerSigned, ZenonT(60)
<1>28. ASSUME NEW c \in Clients, TimerChecks(c) PROVE AdjustInv'
    BY <1>28 DEF TimerChecks, TimerGoes
<1>29. ASSUME NEW c \in Clients, ConsumerEnters(c) PROVE AdjustInv'
  <2>1. id[c] \in Ids /\ adj[<<c, "main">>] <= 0 /\ Wait(c, "main")
      BY <1>29 DEF ConsumerEnters, ConsumerGoes, MainGoes
  <2>2. /\ adj'[<<c, "main">>] >= 0
        /\ \A q \in Clients \X Processes : q # <<c, "main">> => adj'[q] = adj[q]
      BY <2>1, SemopTypes
  <2>3. /\ UNCHANGED <<timer, reader>>
        /\ \A d \in Clients : d # c => main'[d] = main[d]
      BY <1>29 DEF ConsumerEnters, ConsumerGoes, MainGoes
  <2>4. Signed((MainInside(c))', adj'[<<c, "main">>])
      BY <1>29, <2>2 DEF ConsumerEnters, ConsumerGoes, MainGoes
  <2> QED BY <2>2, <2>3, <2>4, MainSigned, ZenonT(60)
<1>30. ASSUME NEW c \in Clients, CopyNumbers(c) PROVE AdjustInv'
    BY <1>30 DEF CopyNumbers, ConsumerGoes, MainGoes
<1>31. ASSUME NEW c \in Clients, CopyTextAndSend(c) PROVE AdjustInv'
    BY <1>31 DEF CopyTextAndSend, ConsumerGoes, MainGoes
<1>32. ASSUME NEW c \in Clients, SendKills(c) PROVE AdjustInv'
  <2>1. id[c] \in Ids /\ Undo(c, "main")
      BY <1>32 DEF SendKills, ConsumerGoes, MainGoes
  <2>2. /\ adj'[<<c, "main">>] = 0
        /\ \A q \in Clients \X Processes : q # <<c, "main">> => adj'[q] = adj[q]
      BY <2>1, SemopTypes
  <2>3. /\ UNCHANGED <<timer, reader>>
        /\ \A d \in Clients : d # c => main'[d] = main[d]
      BY <1>32 DEF SendKills, ConsumerGoes, MainGoes
  <2>4. Signed((MainInside(c))', adj'[<<c, "main">>])
      BY <1>32, <2>2 DEF SendKills, ConsumerGoes, MainGoes
  <2> QED BY <2>2, <2>3, <2>4, MainSigned
<1>33. ASSUME NEW c \in Clients, ConsumerLeaves(c) PROVE AdjustInv'
  <2>1. id[c] \in Ids /\ adj[<<c, "main">>] >= 0 /\ Signal(c, "main")
      BY <1>33 DEF ConsumerLeaves, ConsumerGoes, MainGoes
  <2>2. /\ adj'[<<c, "main">>] <= 0
        /\ \A q \in Clients \X Processes : q # <<c, "main">> => adj'[q] = adj[q]
      BY <2>1, SemopTypes
  <2>3. /\ UNCHANGED <<timer, reader>>
        /\ \A d \in Clients : d # c => main'[d] = main[d]
      BY <1>33 DEF ConsumerLeaves, ConsumerGoes, MainGoes
  <2>4. Signed((MainInside(c))', adj'[<<c, "main">>])
      BY <1>33, <2>2 DEF ConsumerLeaves, ConsumerGoes, MainGoes
  <2> QED BY <2>2, <2>3, <2>4, MainSigned, ZenonT(60)
<1>34. ASSUME NEW c \in Clients, ConsumerSemopFails(c) PROVE AdjustInv'
  <2>1. id[c] \in Ids /\ Undo(c, "main")
      BY <1>34 DEF ConsumerSemopFails, ConsumerGoes, MainGoes
  <2>2. /\ adj'[<<c, "main">>] = 0
        /\ \A q \in Clients \X Processes : q # <<c, "main">> => adj'[q] = adj[q]
      BY <2>1, SemopTypes
  <2>3. /\ UNCHANGED <<timer, reader>>
        /\ \A d \in Clients : d # c => main'[d] = main[d]
      BY <1>34 DEF ConsumerSemopFails, ConsumerGoes, MainGoes
  <2>4. Signed((MainInside(c))', adj'[<<c, "main">>])
      BY <1>34, <2>2 DEF ConsumerSemopFails, ConsumerGoes, MainGoes
  <2> QED BY <2>2, <2>3, <2>4, MainSigned
<1>35. ASSUME NEW c \in Clients, ConsumerGoesOn(c) PROVE AdjustInv'
    BY <1>35 DEF ConsumerGoesOn, ConsumerGoes, MainGoes
<1>36. ASSUME NEW c \in Clients, HangUp(c) PROVE AdjustInv'
    BY <1>36 DEF HangUp, ConsumerGoes, MainGoes
<1>37. ASSUME NEW c \in Clients, NEW r \in Requests, Receive(c, r) PROVE AdjustInv'
    BY <1>37, ZenonT(60) DEF Receive, ReaderGoes
<1>38. CASE UNCHANGED vars
    BY <1>38 DEF vars
<1> QED
    BY <1>1, <1>2, <1>3, <1>4, <1>5, <1>6, <1>7, <1>8, <1>9, <1>10, <1>11,
       <1>12, <1>13, <1>14, <1>15, <1>16, <1>17, <1>18, <1>19, <1>20, <1>21,
       <1>22, <1>23, <1>24, <1>25, <1>26, <1>27, <1>28, <1>29, <1>30, <1>31,
       <1>32, <1>33, <1>34, <1>35, <1>36, <1>37, <1>38
       DEF Next, SetUpStep, ReaderStep, TimerStep, ConsumerStep

LEMMA StepPlace == TypeInv /\ [Next]_vars => PlaceInv'
<1> SUFFICES ASSUME TypeInv, [Next]_vars PROVE PlaceInv'
    OBVIOUS
<1> USE ConstantsAssumption DEF TypeInv, TypeOK, PlaceInv, Attached, SettingUp, tables, extrema, sem
<1>1. CASE AcceptFails
    BY <1>1 DEF AcceptFails
<1>2. ASSUME NEW c \in Clients, Accept(c) PROVE PlaceInv'
    BY <1>2 DEF Accept
<1>3. ASSUME NEW c \in Clients, SetUpFails(c) PROVE PlaceInv'
    BY <1>3 DEF SetUpFails
<1>4. ASSUME NEW c \in Clients, ClientLeaves(c) PROVE PlaceInv'
    BY <1>4 DEF ClientLeaves
<1>5. ASSUME NEW c \in Clients, GetMemory(c) PROVE PlaceInv'
    BY <1>5 DEF GetMemory, MainGoes
<1>6. ASSUME NEW c \in Clients, GetSemaphore(c) PROVE PlaceInv'
    BY <1>6 DEF GetSemaphore, MainGoes, SemKey
<1>7. ASSUME NEW c \in Clients, Attach(c) PROVE PlaceInv'
    BY <1>7 DEF Attach, MainGoes
<1>8. ASSUME NEW c \in Clients, SetValue(c) PROVE PlaceInv'
    BY <1>8 DEF SetValue, MainGoes
<1>9. ASSUME NEW c \in Clients, Start(c) PROVE PlaceInv'
    BY <1>9 DEF Start, MainGoes
<1>10. ASSUME NEW c \in Clients, ReceiveFails(c) PROVE PlaceInv'
    BY <1>10 DEF ReceiveFails, ReaderEnds
<1>11. ASSUME NEW c \in Clients, EnterClient(c) PROVE PlaceInv'
    BY <1>11 DEF EnterClient, ReaderGoes
<1>12. ASSUME NEW c \in Clients, EnterGlobal(c) PROVE PlaceInv'
    BY <1>12 DEF EnterGlobal, ReaderGoes
<1>13. ASSUME NEW c \in Clients, ReaderSemopFails(c) PROVE PlaceInv'
    BY <1>13 DEF ReaderSemopFails, ReaderEnds
<1>14. ASSUME NEW c \in Clients, WriteFront(c) PROVE PlaceInv'
    BY <1>14 DEF WriteFront, ReaderGoes
<1>15. ASSUME NEW c \in Clients, WriteBack(c) PROVE PlaceInv'
    BY <1>15 DEF WriteBack, ReaderGoes
<1>16. ASSUME NEW c \in Clients, Compute(c) PROVE PlaceInv'
    BY <1>16 DEF Compute, ReaderGoes
<1>17. ASSUME NEW c \in Clients, ComputeTraps(c) PROVE PlaceInv'
    BY <1>17 DEF ComputeTraps, ReaderEnds
<1>18. ASSUME NEW c \in Clients, UpdateFirst(c) PROVE PlaceInv'
    BY <1>18 DEF UpdateFirst, ReaderGoes
<1>19. ASSUME NEW c \in Clients, UpdateMin(c) PROVE PlaceInv'
    BY <1>19 DEF UpdateMin, ReaderGoes
<1>20. ASSUME NEW c \in Clients, UpdateMax(c) PROVE PlaceInv'
    BY <1>20 DEF UpdateMax, ReaderGoes
<1>21. ASSUME NEW c \in Clients, Share(c) PROVE PlaceInv'
    BY <1>21 DEF Share, ReaderGoes
<1>22. ASSUME NEW c \in Clients, LeaveGlobal(c) PROVE PlaceInv'
    BY <1>22 DEF LeaveGlobal, ReaderGoes
<1>23. ASSUME NEW c \in Clients, LeaveClient(c) PROVE PlaceInv'
    BY <1>23 DEF LeaveClient, ReaderGoes
<1>24. ASSUME NEW c \in Clients, ReaderChecks(c) PROVE PlaceInv'
    BY <1>24 DEF ReaderChecks, ReaderGoes
<1>25. ASSUME NEW c \in Clients, TimerEnters(c) PROVE PlaceInv'
    BY <1>25 DEF TimerEnters, TimerGoes
<1>26. ASSUME NEW c \in Clients, TimerLeaves(c) PROVE PlaceInv'
    BY <1>26 DEF TimerLeaves, TimerGoes
<1>27. ASSUME NEW c \in Clients, TimerSemopFails(c) PROVE PlaceInv'
    BY <1>27 DEF TimerSemopFails, TimerGoes
<1>28. ASSUME NEW c \in Clients, TimerChecks(c) PROVE PlaceInv'
    BY <1>28 DEF TimerChecks, TimerGoes
<1>29. ASSUME NEW c \in Clients, ConsumerEnters(c) PROVE PlaceInv'
    BY <1>29 DEF ConsumerEnters, ConsumerGoes, MainGoes
<1>30. ASSUME NEW c \in Clients, CopyNumbers(c) PROVE PlaceInv'
    BY <1>30 DEF CopyNumbers, ConsumerGoes, MainGoes
<1>31. ASSUME NEW c \in Clients, CopyTextAndSend(c) PROVE PlaceInv'
    BY <1>31 DEF CopyTextAndSend, ConsumerGoes, MainGoes
<1>32. ASSUME NEW c \in Clients, SendKills(c) PROVE PlaceInv'
    BY <1>32 DEF SendKills, ConsumerGoes, MainGoes
<1>33. ASSUME NEW c \in Clients, ConsumerLeaves(c) PROVE PlaceInv'
    BY <1>33 DEF ConsumerLeaves, ConsumerGoes, MainGoes
<1>34. ASSUME NEW c \in Clients, ConsumerSemopFails(c) PROVE PlaceInv'
    BY <1>34 DEF ConsumerSemopFails, ConsumerGoes, MainGoes
<1>35. ASSUME NEW c \in Clients, ConsumerGoesOn(c) PROVE PlaceInv'
    BY <1>35 DEF ConsumerGoesOn, ConsumerGoes, MainGoes
<1>36. ASSUME NEW c \in Clients, HangUp(c) PROVE PlaceInv'
    BY <1>36 DEF HangUp, ConsumerGoes, MainGoes
<1>37. ASSUME NEW c \in Clients, NEW r \in Requests, Receive(c, r) PROVE PlaceInv'
    BY <1>37 DEF Receive, ReaderGoes
<1>38. CASE UNCHANGED vars
    BY <1>38 DEF vars
<1> QED
    BY <1>1, <1>2, <1>3, <1>4, <1>5, <1>6, <1>7, <1>8, <1>9, <1>10, <1>11,
       <1>12, <1>13, <1>14, <1>15, <1>16, <1>17, <1>18, <1>19, <1>20, <1>21,
       <1>22, <1>23, <1>24, <1>25, <1>26, <1>27, <1>28, <1>29, <1>30, <1>31,
       <1>32, <1>33, <1>34, <1>35, <1>36, <1>37, <1>38
       DEF Next, SetUpStep, ReaderStep, TimerStep, ConsumerStep

LEMMA StepGlobal == TypeInv /\ [Next]_vars => GlobalInv'
<1> SUFFICES ASSUME TypeInv, [Next]_vars PROVE GlobalInv'
    OBVIOUS
<1> USE DEF TypeInv, TypeOK, PlaceInv, SettingUp, GlobalInv, OneAtTheExtrema, GlobalInside, tables, extrema, sem
<1>1. CASE AcceptFails
    BY <1>1 DEF AcceptFails
<1>2. ASSUME NEW c \in Clients, Accept(c) PROVE GlobalInv'
    BY <1>2 DEF Accept
<1>3. ASSUME NEW c \in Clients, SetUpFails(c) PROVE GlobalInv'
    BY <1>3 DEF SetUpFails
<1>4. ASSUME NEW c \in Clients, ClientLeaves(c) PROVE GlobalInv'
    BY <1>4 DEF ClientLeaves
<1>5. ASSUME NEW c \in Clients, GetMemory(c) PROVE GlobalInv'
    BY <1>5 DEF GetMemory, MainGoes
<1>6. ASSUME NEW c \in Clients, GetSemaphore(c) PROVE GlobalInv'
    BY <1>6 DEF GetSemaphore, MainGoes, SemKey
<1>7. ASSUME NEW c \in Clients, Attach(c) PROVE GlobalInv'
    BY <1>7 DEF Attach, MainGoes
<1>8. ASSUME NEW c \in Clients, SetValue(c) PROVE GlobalInv'
    BY <1>8 DEF SetValue, MainGoes
<1>9. ASSUME NEW c \in Clients, Start(c) PROVE GlobalInv'
    BY <1>9 DEF Start, MainGoes
<1>10. ASSUME NEW c \in Clients, ReceiveFails(c) PROVE GlobalInv'
    BY <1>10 DEF ReceiveFails, ReaderEnds
<1>11. ASSUME NEW c \in Clients, EnterClient(c) PROVE GlobalInv'
    BY <1>11 DEF EnterClient, ReaderGoes
<1>12. ASSUME NEW c \in Clients, EnterGlobal(c) PROVE GlobalInv'
    BY <1>12 DEF EnterGlobal, ReaderGoes
<1>13. ASSUME NEW c \in Clients, ReaderSemopFails(c) PROVE GlobalInv'
    BY <1>13 DEF ReaderSemopFails, ReaderEnds
<1>14. ASSUME NEW c \in Clients, WriteFront(c) PROVE GlobalInv'
    BY <1>14 DEF WriteFront, ReaderGoes
<1>15. ASSUME NEW c \in Clients, WriteBack(c) PROVE GlobalInv'
    BY <1>15 DEF WriteBack, ReaderGoes
<1>16. ASSUME NEW c \in Clients, Compute(c) PROVE GlobalInv'
    BY <1>16 DEF Compute, ReaderGoes
<1>17. ASSUME NEW c \in Clients, ComputeTraps(c) PROVE GlobalInv'
    BY <1>17 DEF ComputeTraps, ReaderEnds
<1>18. ASSUME NEW c \in Clients, UpdateFirst(c) PROVE GlobalInv'
    BY <1>18 DEF UpdateFirst, ReaderGoes
<1>19. ASSUME NEW c \in Clients, UpdateMin(c) PROVE GlobalInv'
    BY <1>19 DEF UpdateMin, ReaderGoes
<1>20. ASSUME NEW c \in Clients, UpdateMax(c) PROVE GlobalInv'
    BY <1>20 DEF UpdateMax, ReaderGoes
<1>21. ASSUME NEW c \in Clients, Share(c) PROVE GlobalInv'
    BY <1>21 DEF Share, ReaderGoes
<1>22. ASSUME NEW c \in Clients, LeaveGlobal(c) PROVE GlobalInv'
    BY <1>22 DEF LeaveGlobal, ReaderGoes
<1>23. ASSUME NEW c \in Clients, LeaveClient(c) PROVE GlobalInv'
    BY <1>23 DEF LeaveClient, ReaderGoes
<1>24. ASSUME NEW c \in Clients, ReaderChecks(c) PROVE GlobalInv'
    BY <1>24 DEF ReaderChecks, ReaderGoes
<1>25. ASSUME NEW c \in Clients, TimerEnters(c) PROVE GlobalInv'
    BY <1>25 DEF TimerEnters, TimerGoes
<1>26. ASSUME NEW c \in Clients, TimerLeaves(c) PROVE GlobalInv'
    BY <1>26 DEF TimerLeaves, TimerGoes
<1>27. ASSUME NEW c \in Clients, TimerSemopFails(c) PROVE GlobalInv'
    BY <1>27 DEF TimerSemopFails, TimerGoes
<1>28. ASSUME NEW c \in Clients, TimerChecks(c) PROVE GlobalInv'
    BY <1>28 DEF TimerChecks, TimerGoes
<1>29. ASSUME NEW c \in Clients, ConsumerEnters(c) PROVE GlobalInv'
    BY <1>29 DEF ConsumerEnters, ConsumerGoes, MainGoes
<1>30. ASSUME NEW c \in Clients, CopyNumbers(c) PROVE GlobalInv'
    BY <1>30 DEF CopyNumbers, ConsumerGoes, MainGoes
<1>31. ASSUME NEW c \in Clients, CopyTextAndSend(c) PROVE GlobalInv'
    BY <1>31 DEF CopyTextAndSend, ConsumerGoes, MainGoes
<1>32. ASSUME NEW c \in Clients, SendKills(c) PROVE GlobalInv'
    BY <1>32 DEF SendKills, ConsumerGoes, MainGoes
<1>33. ASSUME NEW c \in Clients, ConsumerLeaves(c) PROVE GlobalInv'
    BY <1>33 DEF ConsumerLeaves, ConsumerGoes, MainGoes
<1>34. ASSUME NEW c \in Clients, ConsumerSemopFails(c) PROVE GlobalInv'
    BY <1>34 DEF ConsumerSemopFails, ConsumerGoes, MainGoes
<1>35. ASSUME NEW c \in Clients, ConsumerGoesOn(c) PROVE GlobalInv'
    BY <1>35 DEF ConsumerGoesOn, ConsumerGoes, MainGoes
<1>36. ASSUME NEW c \in Clients, HangUp(c) PROVE GlobalInv'
    BY <1>36 DEF HangUp, ConsumerGoes, MainGoes
<1>37. ASSUME NEW c \in Clients, NEW r \in Requests, Receive(c, r) PROVE GlobalInv'
    BY <1>37 DEF Receive, ReaderGoes
<1>38. CASE UNCHANGED vars
    BY <1>38 DEF vars
<1> QED
    BY <1>1, <1>2, <1>3, <1>4, <1>5, <1>6, <1>7, <1>8, <1>9, <1>10, <1>11,
       <1>12, <1>13, <1>14, <1>15, <1>16, <1>17, <1>18, <1>19, <1>20, <1>21,
       <1>22, <1>23, <1>24, <1>25, <1>26, <1>27, <1>28, <1>29, <1>30, <1>31,
       <1>32, <1>33, <1>34, <1>35, <1>36, <1>37, <1>38
       DEF Next, SetUpStep, ReaderStep, TimerStep, ConsumerStep

LEMMA Initially == Init => TypeInv
BY ContentTypes, ConstantsAssumption
   DEF Init, TypeInv, TypeOK, AdjustInv, PlaceInv, GlobalInv, OneAtTheExtrema, GlobalInside,
       Signed, SettingUp, Attached, ReaderInside, MainInside, Processes

LEMMA TypeInvariant == Spec => []TypeInv
<1>1. TypeInv /\ [Next]_vars => TypeInv'
    BY StepTypeOK, StepAdjust, StepPlace, StepGlobal DEF TypeInv
<1> QED
    BY Initially, <1>1, PTL DEF Spec

(* Type correctness: values of semaphores are never negative, adjustments  *)
(* stay between -1 and 1 and the global semaphore at most 1, also when     *)
(* connections share keys and set each other's semaphores.                 *)
THEOREM TypeCorrect == Spec => []TypeOK
BY TypeInvariant, PTL DEF TypeInv

(* Two readers are never at the extrema together, whatever is removed or   *)
(* shared: those whose semop fails end.                                    *)
THEOREM OneReaderAtTheExtrema == Spec => []OneAtTheExtrema
BY TypeInvariant, PTL DEF TypeInv, GlobalInv

-----------------------------------------------------------------------------
(* An identifier belongs to one key for ever: it has been given out when   *)
(* the semaphore of that key was made, and is not given out again.         *)
SeparateInv ==
  /\ \A k \in Keys : semOf[k] # None => semOf[k] \in given
  /\ \A k, l \in Keys : semOf[k] = semOf[l] /\ semOf[k] # None => k = l
  /\ \A c \in Clients : id[c] # None => id[c] \in given
  /\ \A c \in Clients, k \in Keys : id[c] # None /\ semOf[k] = id[c] => key[c] = k
  /\ \A c, d \in Clients : id[c] = id[d] /\ id[c] # None => key[c] = key[d]

LEMMA StepSeparate == TypeInv /\ SeparateInv /\ [Next]_vars => SeparateInv'
<1> SUFFICES ASSUME TypeInv /\ SeparateInv, [Next]_vars PROVE SeparateInv'
    OBVIOUS
<1> USE ConstantsAssumption DEF TypeInv, TypeOK, PlaceInv, SettingUp, SeparateInv, tables, extrema, sem
<1>1. CASE AcceptFails
    BY <1>1 DEF AcceptFails
<1>2. ASSUME NEW c \in Clients, Accept(c) PROVE SeparateInv'
    BY <1>2 DEF Accept
<1>3. ASSUME NEW c \in Clients, SetUpFails(c) PROVE SeparateInv'
    BY <1>3 DEF SetUpFails
<1>4. ASSUME NEW c \in Clients, ClientLeaves(c) PROVE SeparateInv'
    BY <1>4 DEF ClientLeaves
<1>5. ASSUME NEW c \in Clients, GetMemory(c) PROVE SeparateInv'
    BY <1>5 DEF GetMemory, MainGoes
<1>6. ASSUME NEW c \in Clients, GetSemaphore(c) PROVE SeparateInv'
  <2>1. key[c] \in Keys /\ SemKey(c) = key[c] /\ id[c] = None
      BY <1>6 DEF GetSemaphore, MainGoes, SemKey
  <2>2. CASE semOf[SemKey(c)] # None
    <3>1. /\ id' = [id EXCEPT ![c] = semOf[key[c]]]
          /\ UNCHANGED <<semOf, given, key>>
        BY <1>6, <2>1, <2>2 DEF GetSemaphore, MainGoes
    <3> QED BY <2>1, <2>2, <3>1
  <2>3. CASE semOf[SemKey(c)] = None
    <3>1. PICK i \in Ids \ given : /\ id' = [id EXCEPT ![c] = i]
                                  /\ semOf' = [semOf EXCEPT ![SemKey(c)] = i]
                                  /\ given' = given \cup {i}
        BY <1>6, <2>3 DEF GetSemaphore, MainGoes
    <3>2. key' = key
        BY <1>6 DEF GetSemaphore, MainGoes
    <3> QED BY <2>1, <3>1, <3>2
  <2> QED BY <2>2, <2>3
<1>7. ASSUME NEW c \in Clients, Attach(c) PROVE SeparateInv'
    BY <1>7 DEF Attach, MainGoes
<1>8. ASSUME NEW c \in Clients, SetValue(c) PROVE SeparateInv'
    BY <1>8 DEF SetValue, MainGoes
<1>9. ASSUME NEW c \in Clients, Start(c) PROVE SeparateInv'
    BY <1>9 DEF Start, MainGoes
<1>10. ASSUME NEW c \in Clients, ReceiveFails(c) PROVE SeparateInv'
    BY <1>10 DEF ReceiveFails, ReaderEnds
<1>11. ASSUME NEW c \in Clients, EnterClient(c) PROVE SeparateInv'
    BY <1>11 DEF EnterClient, ReaderGoes
<1>12. ASSUME NEW c \in Clients, EnterGlobal(c) PROVE SeparateInv'
    BY <1>12 DEF EnterGlobal, ReaderGoes
<1>13. ASSUME NEW c \in Clients, ReaderSemopFails(c) PROVE SeparateInv'
    BY <1>13 DEF ReaderSemopFails, ReaderEnds
<1>14. ASSUME NEW c \in Clients, WriteFront(c) PROVE SeparateInv'
    BY <1>14 DEF WriteFront, ReaderGoes
<1>15. ASSUME NEW c \in Clients, WriteBack(c) PROVE SeparateInv'
    BY <1>15 DEF WriteBack, ReaderGoes
<1>16. ASSUME NEW c \in Clients, Compute(c) PROVE SeparateInv'
    BY <1>16 DEF Compute, ReaderGoes
<1>17. ASSUME NEW c \in Clients, ComputeTraps(c) PROVE SeparateInv'
    BY <1>17 DEF ComputeTraps, ReaderEnds
<1>18. ASSUME NEW c \in Clients, UpdateFirst(c) PROVE SeparateInv'
    BY <1>18 DEF UpdateFirst, ReaderGoes
<1>19. ASSUME NEW c \in Clients, UpdateMin(c) PROVE SeparateInv'
    BY <1>19 DEF UpdateMin, ReaderGoes
<1>20. ASSUME NEW c \in Clients, UpdateMax(c) PROVE SeparateInv'
    BY <1>20 DEF UpdateMax, ReaderGoes
<1>21. ASSUME NEW c \in Clients, Share(c) PROVE SeparateInv'
    BY <1>21 DEF Share, ReaderGoes
<1>22. ASSUME NEW c \in Clients, LeaveGlobal(c) PROVE SeparateInv'
    BY <1>22 DEF LeaveGlobal, ReaderGoes
<1>23. ASSUME NEW c \in Clients, LeaveClient(c) PROVE SeparateInv'
    BY <1>23 DEF LeaveClient, ReaderGoes
<1>24. ASSUME NEW c \in Clients, ReaderChecks(c) PROVE SeparateInv'
    BY <1>24 DEF ReaderChecks, ReaderGoes
<1>25. ASSUME NEW c \in Clients, TimerEnters(c) PROVE SeparateInv'
    BY <1>25 DEF TimerEnters, TimerGoes
<1>26. ASSUME NEW c \in Clients, TimerLeaves(c) PROVE SeparateInv'
    BY <1>26 DEF TimerLeaves, TimerGoes
<1>27. ASSUME NEW c \in Clients, TimerSemopFails(c) PROVE SeparateInv'
    BY <1>27 DEF TimerSemopFails, TimerGoes
<1>28. ASSUME NEW c \in Clients, TimerChecks(c) PROVE SeparateInv'
    BY <1>28 DEF TimerChecks, TimerGoes
<1>29. ASSUME NEW c \in Clients, ConsumerEnters(c) PROVE SeparateInv'
    BY <1>29 DEF ConsumerEnters, ConsumerGoes, MainGoes
<1>30. ASSUME NEW c \in Clients, CopyNumbers(c) PROVE SeparateInv'
    BY <1>30 DEF CopyNumbers, ConsumerGoes, MainGoes
<1>31. ASSUME NEW c \in Clients, CopyTextAndSend(c) PROVE SeparateInv'
    BY <1>31 DEF CopyTextAndSend, ConsumerGoes, MainGoes
<1>32. ASSUME NEW c \in Clients, SendKills(c) PROVE SeparateInv'
    BY <1>32 DEF SendKills, ConsumerGoes, MainGoes
<1>33. ASSUME NEW c \in Clients, ConsumerLeaves(c) PROVE SeparateInv'
    BY <1>33 DEF ConsumerLeaves, ConsumerGoes, MainGoes
<1>34. ASSUME NEW c \in Clients, ConsumerSemopFails(c) PROVE SeparateInv'
    BY <1>34 DEF ConsumerSemopFails, ConsumerGoes, MainGoes
<1>35. ASSUME NEW c \in Clients, ConsumerGoesOn(c) PROVE SeparateInv'
    BY <1>35 DEF ConsumerGoesOn, ConsumerGoes, MainGoes
<1>36. ASSUME NEW c \in Clients, HangUp(c) PROVE SeparateInv'
    BY <1>36 DEF HangUp, ConsumerGoes, MainGoes
<1>37. ASSUME NEW c \in Clients, NEW r \in Requests, Receive(c, r) PROVE SeparateInv'
    BY <1>37 DEF Receive, ReaderGoes
<1>38. CASE UNCHANGED vars
    BY <1>38 DEF vars
<1> QED
    BY <1>1, <1>2, <1>3, <1>4, <1>5, <1>6, <1>7, <1>8, <1>9, <1>10, <1>11,
       <1>12, <1>13, <1>14, <1>15, <1>16, <1>17, <1>18, <1>19, <1>20, <1>21,
       <1>22, <1>23, <1>24, <1>25, <1>26, <1>27, <1>28, <1>29, <1>30, <1>31,
       <1>32, <1>33, <1>34, <1>35, <1>36, <1>37, <1>38
       DEF Next, SetUpStep, ReaderStep, TimerStep, ConsumerStep

(* Connections whose keys differ never work on the same memory, whichever  *)
(* identifiers the kernel gives out and whoever hangs up in between.       *)
THEOREM DifferentKeysDifferentMemory == Spec => []KeysSeparateMemory
<1>1. Init => SeparateInv
    BY DEF Init, SeparateInv
<1>2. TypeInv /\ SeparateInv => KeysSeparateMemory
    BY ConstantsAssumption DEF TypeInv, PlaceInv, SeparateInv, KeysSeparateMemory
<1> QED
    BY TypeInvariant, StepSeparate, <1>1, <1>2, PTL DEF Spec

-----------------------------------------------------------------------------
(* The memory that a connection has attached is there.                     *)
BackedInv == \A c \in Clients : Attached(c) => \E k \in Keys : segOf[k] = id[c]

LEMMA StepBacked == TypeInv /\ BackedInv /\ [Next]_vars => BackedInv'
<1> SUFFICES ASSUME TypeInv /\ BackedInv, [Next]_vars PROVE BackedInv'
    OBVIOUS
<1> USE DEF TypeInv, TypeOK, PlaceInv, SettingUp, BackedInv, Attached, tables, extrema, sem
<1>1. CASE AcceptFails
    BY <1>1 DEF AcceptFails
<1>2. ASSUME NEW c \in Clients, Accept(c) PROVE BackedInv'
    BY <1>2 DEF Accept
<1>3. ASSUME NEW c \in Clients, SetUpFails(c) PROVE BackedInv'
    BY <1>3 DEF SetUpFails
<1>4. ASSUME NEW c \in Clients, ClientLeaves(c) PROVE BackedInv'
    BY <1>4 DEF ClientLeaves
<1>5. ASSUME NEW c \in Clients, GetMemory(c) PROVE BackedInv'
  <2>1. \A k \in Keys : segOf[k] # None => segOf'[k] = segOf[k]
      BY <1>5 DEF GetMemory, MainGoes
  <2>2. /\ UNCHANGED <<id, timer, reader>>
        /\ \A d \in Clients : d # c => main'[d] = main[d]
        /\ main[c] = "shmget" /\ main'[c] = "semget"
      BY <1>5 DEF GetMemory, MainGoes
  <2>3. \A d \in Clients : Attached(d)' => Attached(d) /\ id[d] \in Ids
      BY <2>2
  <2> QED BY <2>1, <2>2, <2>3, ConstantsAssumption
<1>6. ASSUME NEW c \in Clients, GetSemaphore(c) PROVE BackedInv'
    BY <1>6 DEF GetSemaphore, MainGoes, SemKey
<1>7. ASSUME NEW c \in Clients, Attach(c) PROVE BackedInv'
    BY <1>7 DEF Attach, MainGoes
<1>8. ASSUME NEW c \in Clients, SetValue(c) PROVE BackedInv'
    BY <1>8 DEF SetValue, MainGoes
<1>9. ASSUME NEW c \in Clients, Start(c) PROVE BackedInv'
    BY <1>9 DEF Start, MainGoes
<1>10. ASSUME NEW c \in Clients, ReceiveFails(c) PROVE BackedInv'
    BY <1>10 DEF ReceiveFails, ReaderEnds
<1>11. ASSUME NEW c \in Clients, EnterClient(c) PROVE BackedInv'
    BY <1>11 DEF EnterClient, ReaderGoes
<1>12. ASSUME NEW c \in Clients, EnterGlobal(c) PROVE BackedInv'
    BY <1>12 DEF EnterGlobal, ReaderGoes
<1>13. ASSUME NEW c \in Clients, ReaderSemopFails(c) PROVE BackedInv'
    BY <1>13 DEF ReaderSemopFails, ReaderEnds
<1>14. ASSUME NEW c \in Clients, WriteFront(c) PROVE BackedInv'
    BY <1>14 DEF WriteFront, ReaderGoes
<1>15. ASSUME NEW c \in Clients, WriteBack(c) PROVE BackedInv'
    BY <1>15 DEF WriteBack, ReaderGoes
<1>16. ASSUME NEW c \in Clients, Compute(c) PROVE BackedInv'
    BY <1>16 DEF Compute, ReaderGoes
<1>17. ASSUME NEW c \in Clients, ComputeTraps(c) PROVE BackedInv'
    BY <1>17 DEF ComputeTraps, ReaderEnds
<1>18. ASSUME NEW c \in Clients, UpdateFirst(c) PROVE BackedInv'
    BY <1>18 DEF UpdateFirst, ReaderGoes
<1>19. ASSUME NEW c \in Clients, UpdateMin(c) PROVE BackedInv'
    BY <1>19 DEF UpdateMin, ReaderGoes
<1>20. ASSUME NEW c \in Clients, UpdateMax(c) PROVE BackedInv'
    BY <1>20 DEF UpdateMax, ReaderGoes
<1>21. ASSUME NEW c \in Clients, Share(c) PROVE BackedInv'
    BY <1>21 DEF Share, ReaderGoes
<1>22. ASSUME NEW c \in Clients, LeaveGlobal(c) PROVE BackedInv'
    BY <1>22 DEF LeaveGlobal, ReaderGoes
<1>23. ASSUME NEW c \in Clients, LeaveClient(c) PROVE BackedInv'
    BY <1>23 DEF LeaveClient, ReaderGoes
<1>24. ASSUME NEW c \in Clients, ReaderChecks(c) PROVE BackedInv'
    BY <1>24 DEF ReaderChecks, ReaderGoes
<1>25. ASSUME NEW c \in Clients, TimerEnters(c) PROVE BackedInv'
    BY <1>25 DEF TimerEnters, TimerGoes
<1>26. ASSUME NEW c \in Clients, TimerLeaves(c) PROVE BackedInv'
    BY <1>26 DEF TimerLeaves, TimerGoes
<1>27. ASSUME NEW c \in Clients, TimerSemopFails(c) PROVE BackedInv'
    BY <1>27 DEF TimerSemopFails, TimerGoes
<1>28. ASSUME NEW c \in Clients, TimerChecks(c) PROVE BackedInv'
    BY <1>28 DEF TimerChecks, TimerGoes
<1>29. ASSUME NEW c \in Clients, ConsumerEnters(c) PROVE BackedInv'
    BY <1>29 DEF ConsumerEnters, ConsumerGoes, MainGoes
<1>30. ASSUME NEW c \in Clients, CopyNumbers(c) PROVE BackedInv'
    BY <1>30 DEF CopyNumbers, ConsumerGoes, MainGoes
<1>31. ASSUME NEW c \in Clients, CopyTextAndSend(c) PROVE BackedInv'
    BY <1>31 DEF CopyTextAndSend, ConsumerGoes, MainGoes
<1>32. ASSUME NEW c \in Clients, SendKills(c) PROVE BackedInv'
    BY <1>32 DEF SendKills, ConsumerGoes, MainGoes
<1>33. ASSUME NEW c \in Clients, ConsumerLeaves(c) PROVE BackedInv'
    BY <1>33 DEF ConsumerLeaves, ConsumerGoes, MainGoes
<1>34. ASSUME NEW c \in Clients, ConsumerSemopFails(c) PROVE BackedInv'
    BY <1>34 DEF ConsumerSemopFails, ConsumerGoes, MainGoes
<1>35. ASSUME NEW c \in Clients, ConsumerGoesOn(c) PROVE BackedInv'
    BY <1>35 DEF ConsumerGoesOn, ConsumerGoes, MainGoes
<1>36. ASSUME NEW c \in Clients, HangUp(c) PROVE BackedInv'
    BY <1>36 DEF HangUp, ConsumerGoes, MainGoes
<1>37. ASSUME NEW c \in Clients, NEW r \in Requests, Receive(c, r) PROVE BackedInv'
    BY <1>37 DEF Receive, ReaderGoes
<1>38. CASE UNCHANGED vars
    BY <1>38 DEF vars
<1> QED
    BY <1>1, <1>2, <1>3, <1>4, <1>5, <1>6, <1>7, <1>8, <1>9, <1>10, <1>11,
       <1>12, <1>13, <1>14, <1>15, <1>16, <1>17, <1>18, <1>19, <1>20, <1>21,
       <1>22, <1>23, <1>24, <1>25, <1>26, <1>27, <1>28, <1>29, <1>30, <1>31,
       <1>32, <1>33, <1>34, <1>35, <1>36, <1>37, <1>38
       DEF Next, SetUpStep, ReaderStep, TimerStep, ConsumerStep

(* Between its two stores a reader and its result are left alone.          *)
Storing(c) == reader[c] \in {"min", "max"}

Kept ==
  /\ UNCHANGED extrema
  /\ \A c \in Clients : Storing(c) \/ Storing(c)' =>
       reader'[c] = reader[c] /\ Result(c)' = Result(c)

LEMMA StepKeeps == TypeInv /\ BackedInv /\ [Next]_vars => Kept \/ (\E c \in Clients : UpdateFirst(c) \/ UpdateMin(c) \/ UpdateMax(c))
<1> SUFFICES ASSUME TypeInv /\ BackedInv, [Next]_vars PROVE Kept \/ (\E c \in Clients : UpdateFirst(c) \/ UpdateMin(c) \/ UpdateMax(c))
    OBVIOUS
<1> USE DEF TypeInv, TypeOK, PlaceInv, SettingUp, GlobalInv, OneAtTheExtrema, GlobalInside, BackedInv, Attached, Kept, Storing, Result, Rec, tables, extrema, sem
<1>1. CASE AcceptFails
    BY <1>1 DEF AcceptFails
<1>2. ASSUME NEW c \in Clients, Accept(c) PROVE Kept
    BY <1>2 DEF Accept
<1>3. ASSUME NEW c \in Clients, SetUpFails(c) PROVE Kept
    BY <1>3 DEF SetUpFails
<1>4. ASSUME NEW c \in Clients, ClientLeaves(c) PROVE Kept
    BY <1>4 DEF ClientLeaves
<1>5. ASSUME NEW c \in Clients, GetMemory(c) PROVE Kept
    BY <1>5 DEF GetMemory, MainGoes
<1>6. ASSUME NEW c \in Clients, GetSemaphore(c) PROVE Kept
    BY <1>6, SMTT(60) DEF GetSemaphore, MainGoes, SemKey
<1>7. ASSUME NEW c \in Clients, Attach(c) PROVE Kept
    BY <1>7 DEF Attach, MainGoes
<1>8. ASSUME NEW c \in Clients, SetValue(c) PROVE Kept
    BY <1>8 DEF SetValue, MainGoes
<1>9. ASSUME NEW c \in Clients, Start(c) PROVE Kept
    BY <1>9 DEF Start, MainGoes, PutRequest
<1>10. ASSUME NEW c \in Clients, ReceiveFails(c) PROVE Kept
    BY <1>10 DEF ReceiveFails, ReaderEnds
<1>11. ASSUME NEW c \in Clients, EnterClient(c) PROVE Kept
    BY <1>11 DEF EnterClient, ReaderGoes
<1>12. ASSUME NEW c \in Clients, EnterGlobal(c) PROVE Kept
    BY <1>12 DEF EnterGlobal, ReaderGoes
<1>13. ASSUME NEW c \in Clients, ReaderSemopFails(c) PROVE Kept
    BY <1>13 DEF ReaderSemopFails, ReaderEnds
<1>14. ASSUME NEW c \in Clients, WriteFront(c) PROVE Kept
    BY <1>14 DEF WriteFront, PutRequest, ReaderGoes
<1>15. ASSUME NEW c \in Clients, WriteBack(c) PROVE Kept
    BY <1>15 DEF WriteBack, PutRequest, ReaderGoes
<1>16. ASSUME NEW c \in Clients, Compute(c) PROVE Kept
    BY <1>16 DEF Compute, PutNumbers, ReaderGoes
<1>17. ASSUME NEW c \in Clients, ComputeTraps(c) PROVE Kept
    BY <1>17 DEF ComputeTraps, ReaderEnds
<1>18. ASSUME NEW c \in Clients, Share(c) PROVE Kept
    BY <1>18 DEF Share, PutNumbers, ReaderGoes
<1>19. ASSUME NEW c \in Clients, LeaveGlobal(c) PROVE Kept
    BY <1>19 DEF LeaveGlobal, ReaderGoes
<1>20. ASSUME NEW c \in Clients, LeaveClient(c) PROVE Kept
    BY <1>20 DEF LeaveClient, ReaderGoes
<1>21. ASSUME NEW c \in Clients, ReaderChecks(c) PROVE Kept
    BY <1>21 DEF ReaderChecks, ReaderGoes
<1>22. ASSUME NEW c \in Clients, TimerEnters(c) PROVE Kept
    BY <1>22 DEF TimerEnters, TimerGoes
<1>23. ASSUME NEW c \in Clients, TimerLeaves(c) PROVE Kept
    BY <1>23 DEF TimerLeaves, TimerGoes
<1>24. ASSUME NEW c \in Clients, TimerSemopFails(c) PROVE Kept
    BY <1>24 DEF TimerSemopFails, TimerGoes
<1>25. ASSUME NEW c \in Clients, TimerChecks(c) PROVE Kept
    BY <1>25 DEF TimerChecks, TimerGoes
<1>26. ASSUME NEW c \in Clients, ConsumerEnters(c) PROVE Kept
    BY <1>26 DEF ConsumerEnters, ConsumerGoes, MainGoes
<1>27. ASSUME NEW c \in Clients, CopyNumbers(c) PROVE Kept
    BY <1>27 DEF CopyNumbers, ConsumerGoes, MainGoes
<1>28. ASSUME NEW c \in Clients, CopyTextAndSend(c) PROVE Kept
    BY <1>28 DEF CopyTextAndSend, ConsumerGoes, MainGoes
<1>29. ASSUME NEW c \in Clients, SendKills(c) PROVE Kept
    BY <1>29 DEF SendKills, ConsumerGoes, MainGoes
<1>30. ASSUME NEW c \in Clients, ConsumerLeaves(c) PROVE Kept
    BY <1>30 DEF ConsumerLeaves, ConsumerGoes, MainGoes
<1>31. ASSUME NEW c \in Clients, ConsumerSemopFails(c) PROVE Kept
    BY <1>31 DEF ConsumerSemopFails, ConsumerGoes, MainGoes
<1>32. ASSUME NEW c \in Clients, ConsumerGoesOn(c) PROVE Kept
    BY <1>32 DEF ConsumerGoesOn, ConsumerGoes, MainGoes
<1>33. ASSUME NEW c \in Clients, HangUp(c) PROVE Kept
    BY <1>33 DEF HangUp, ConsumerGoes, MainGoes
<1>34. ASSUME NEW c \in Clients, NEW r \in Requests, Receive(c, r) PROVE Kept
    BY <1>34 DEF Receive, ReaderGoes
<1>35. CASE UNCHANGED vars
    BY <1>35 DEF vars
<1> QED
    BY <1>1, <1>2, <1>3, <1>4, <1>5, <1>6, <1>7, <1>8, <1>9, <1>10, <1>11,
       <1>12, <1>13, <1>14, <1>15, <1>16, <1>17, <1>18, <1>19, <1>20, <1>21,
       <1>22, <1>23, <1>24, <1>25, <1>26, <1>27, <1>28, <1>29, <1>30, <1>31,
       <1>32, <1>33, <1>34, <1>35
       DEF Next, SetUpStep, ReaderStep, TimerStep, ConsumerStep

(* What the trace is while a reader stands between its two stores.         *)
FirstStored(c) ==
  /\ trace.min = 0 /\ trace.max = Result(c)
  /\ seen = IF Result(c) = 0 THEN {} ELSE {Result(c)}

LowStored(c) ==
  /\ trace.min \in seen /\ trace.max \in seen /\ Result(c) \in seen
  /\ \A r \in seen : trace.min <= r /\ (r <= trace.max \/ r = Result(c))

TraceInv ==
  /\ seen # {} => \E r \in seen : r # 0
  /\ \A c \in Clients : reader[c] = "min" => FirstStored(c)
  /\ \A c \in Clients : reader[c] = "max" => LowStored(c)
  /\ ExtremaExact

LEMMA KeptTrace == TraceInv /\ Kept => TraceInv'
<1> SUFFICES ASSUME TraceInv, Kept PROVE TraceInv'
    OBVIOUS
<1>1. UNCHANGED <<trace, seen>>
    BY DEF Kept, extrema
<1>2. \A c \in Clients : (reader'[c] = "min" <=> reader[c] = "min") /\ (reader'[c] = "max" <=> reader[c] = "max")
    BY DEF Kept, Storing
<1>3. \A c \in Clients : reader[c] \in {"min", "max"} => Result(c)' = Result(c)
    BY DEF Kept, Storing
<1>4. \A c \in Clients : reader'[c] = "min" => FirstStored(c)'
    BY <1>1, <1>2, <1>3 DEF TraceInv, FirstStored
<1>5. \A c \in Clients : reader'[c] = "max" => LowStored(c)'
    BY <1>1, <1>2, <1>3 DEF TraceInv, LowStored
<1>6. ExtremaExact'
    BY <1>1, <1>2 DEF TraceInv, ExtremaExact, Extrema!Extremal
<1> QED
    BY <1>1, <1>4, <1>5, <1>6 DEF TraceInv

LEMMA FirstTrace ==
  ASSUME TypeInv, TraceInv, NEW c \in Clients, UpdateFirst(c)
  PROVE  TraceInv'
<1> DEFINE x == Result(c)
<1> USE DEF ReaderGoes
<1>1. /\ reader[c] = "first" /\ x \in Int
      /\ trace.min \in Int /\ trace.max \in Int /\ seen \subseteq Int
      /\ Result(c)' = x
  <2>1. id[c] \in Ids
      BY DEF TypeInv, PlaceInv, Attached, UpdateFirst
  <2> QED BY <2>1, RecordTypes, ContentTypes DEF TypeInv, TypeOK, UpdateFirst, Result, tables
<1>2. \A d \in Clients : d # c => reader'[d] = reader[d] /\ reader[d] \notin {"min", "max"}
    BY <1>1 DEF UpdateFirst, TypeInv, TypeOK, GlobalInv, OneAtTheExtrema, GlobalInside
<1>3. Extrema!Extremal
    BY <1>1, <1>2 DEF TraceInv, ExtremaExact
<1>4. seen' = IF seen = {} /\ x = 0 THEN {} ELSE seen \cup {x}
    BY DEF UpdateFirst
<1>5. Unset <=> seen = {}
    BY <1>1, <1>3 DEF Extrema!Extremal, TraceInv, Unset
<1>6. (seen # {} => \E r \in seen : r # 0)'
    BY <1>4 DEF TraceInv
<1>7. CASE Unset
  <2>1. reader'[c] = "min" /\ trace' = [min |-> trace.min, max |-> x]
      BY <1>1, <1>7 DEF UpdateFirst, TypeInv, TypeOK
  <2>2. FirstStored(c)'
      BY <1>1, <1>4, <1>5, <1>7, <2>1 DEF FirstStored, Unset
  <2> QED BY <1>2, <1>6, <2>1, <2>2 DEF TraceInv, ExtremaExact
<1>8. CASE ~Unset
  <2>1. reader'[c] = "max" /\ trace' = [min |-> IF x < trace.min THEN x ELSE trace.min,
                                        max |-> trace.max]
      BY <1>1, <1>8 DEF UpdateFirst, TypeInv, TypeOK
  <2>2. /\ trace.min \in seen /\ trace.max \in seen
        /\ \A r \in seen : trace.min <= r /\ r <= trace.max
      BY <1>3, <1>5, <1>8 DEF Extrema!Extremal
  <2>3. seen' = seen \cup {x} /\ trace'.max = trace.max
      BY <1>4, <1>5, <1>8, <2>1
  <2>4. trace'.min = IF x < trace.min THEN x ELSE trace.min
      BY <2>1
  <2>5. trace'.min \in seen' /\ \A r \in seen' : trace'.min <= r
      BY <1>1, <2>2, <2>3, <2>4
  <2>6. LowStored(c)'
      BY <1>1, <2>2, <2>3, <2>5 DEF LowStored
  <2> QED BY <1>2, <1>6, <2>1, <2>6 DEF TraceInv, ExtremaExact
<1> QED
    BY <1>7, <1>8

LEMMA SecondTrace ==
  ASSUME TypeInv, TraceInv, NEW c \in Clients, UpdateMin(c) \/ UpdateMax(c)
  PROVE  TraceInv'
<1> DEFINE x == Result(c)
<1> USE DEF ReaderGoes
<1>1. /\ reader[c] \in {"min", "max"} /\ x \in Int
      /\ trace.min \in Int /\ trace.max \in Int /\ seen \subseteq Int /\ seen' = seen
  <2>1. id[c] \in Ids
      BY DEF TypeInv, PlaceInv, Attached, UpdateMin, UpdateMax
  <2> QED BY <2>1, RecordTypes, ContentTypes DEF TypeInv, TypeOK, UpdateMin, UpdateMax, Result
<1>2. \A d \in Clients : reader'[d] \notin {"min", "max"}
    BY <1>1 DEF UpdateMin, UpdateMax, TypeInv, TypeOK, GlobalInv, OneAtTheExtrema, GlobalInside
<1>3. CASE UpdateMin(c)
  <2>1. trace' = [min |-> x, max |-> trace.max]
      BY <1>3 DEF UpdateMin
  <2>2. FirstStored(c)
      BY <1>3 DEF UpdateMin, TraceInv
  <2>3. Extrema!Extremal'
      BY <1>1, <2>1, <2>2 DEF FirstStored, Extrema!Extremal
  <2> QED BY <1>1, <1>2, <2>3 DEF TraceInv, ExtremaExact
<1>4. CASE UpdateMax(c)
  <2>1. trace' = [min |-> trace.min, max |-> IF x > trace.max THEN x ELSE trace.max]
      BY <1>4 DEF UpdateMax
  <2>2. LowStored(c)
      BY <1>4 DEF UpdateMax, TraceInv
  <2>3. Extrema!Extremal'
      BY <1>1, <2>1, <2>2 DEF LowStored, Extrema!Extremal
  <2> QED BY <1>1, <1>2, <2>3 DEF TraceInv, ExtremaExact
<1> QED
    BY <1>3, <1>4

(* The pair that all connections share is exact whenever no reader stands  *)
(* between its two stores, for any number of connections and requests.     *)
THEOREM SharedExtremaExact == Spec => []ExtremaExact
<1>1. Init => BackedInv /\ TraceInv
  <2>1. Init => BackedInv
      BY DEF Init, BackedInv, Attached
  <2>2. Init => TraceInv
      BY DEF Init, TraceInv, ExtremaExact, Extrema!Extremal
  <2> QED BY <2>1, <2>2
<1>2. TypeInv /\ BackedInv /\ TraceInv /\ [Next]_vars => TraceInv'
    BY StepKeeps, KeptTrace, FirstTrace, SecondTrace
<1>3. TraceInv => ExtremaExact
    BY DEF TraceInv
<1> QED
    BY TypeInvariant, StepBacked, <1>1, <1>2, <1>3, PTL DEF Spec

-----------------------------------------------------------------------------
(* A connection that has its identifier for itself.                        *)
Solo(c) == id[c] \in Ids /\ Alone(c)

Busy(c) == ReaderInside(c) \/ timer[c] = "leave" \/ MainInside(c)

Has(b) == IF b THEN 1 ELSE 0

(* Every process has taken what it holds, one at most is inside, and the   *)
(* semaphore, as long as it is there, has the rest.                        *)
HoldsAt(c) ==
  /\ adj[<<c, "reader">>] = Has(ReaderInside(c))
  /\ adj[<<c, "timer">>] = Has(timer[c] = "leave")
  /\ adj[<<c, "main">>] = Has(MainInside(c))
  /\ ~(ReaderInside(c) /\ MainInside(c))
  /\ ~(timer[c] = "leave" /\ (ReaderInside(c) \/ MainInside(c)))
  /\ Exists(c) => val[id[c]] = Has(~Busy(c))

(* From SETVAL on that is so for a connection by itself.                   *)
InsideAt(c) ==
  /\ timer[c] = "new" <=> reader[c] = "new"
  /\ timer[c] = "new" => main[c] \in SettingUp \cup {"ended"}
  /\ (main[c] = "start" \/ timer[c] # "new") /\ Solo(c) => HoldsAt(c)

InsideInv == \A c \in Clients : InsideAt(c)

LEMMA SoloKept ==
  ASSUME UNCHANGED <<id, semOf>>
  PROVE  \A c \in Clients : (Solo(c)' <=> Solo(c)) /\ (Exists(c)' <=> Exists(c))
BY DEF Solo, Alone, Exists

(* A step of one connection leaves those alone that do not share its       *)
(* semaphore.                                                              *)
LEMMA OthersKept ==
  ASSUME TypeInv, InsideInv, NEW c \in Clients, NEW d \in Clients, d # c,
         main'[d] = main[d], timer'[d] = timer[d], reader'[d] = reader[d],
         id'[d] = id[d], Solo(d)' => Solo(d) /\ (Exists(d)' => Exists(d)),
         id[d] # id[c] => \A p \in Processes : adj'[<<d, p>>] = adj[<<d, p>>],
         id[d] \in Ids /\ id[d] # id[c] => val'[id[d]] = val[id[d]]
  PROVE  InsideAt(d)'
<1>1. Solo(d) => id[d] \in Ids /\ id[d] # id[c]
    BY DEF Solo, Alone
<1>2. /\ (ReaderInside(d))' <=> ReaderInside(d)
      /\ (MainInside(d))' <=> MainInside(d)
      /\ Busy(d)' <=> Busy(d)
    BY DEF ReaderInside, MainInside, Busy
<1>3. (main'[d] = "start" \/ timer'[d] # "new") /\ Solo(d)' => HoldsAt(d)'
    BY <1>1, <1>2 DEF InsideInv, InsideAt, HoldsAt, Has, Processes
<1> QED
    BY <1>3 DEF InsideInv, InsideAt

LEMMA InsideFrame ==
  ASSUME TypeInv, InsideInv, NEW c \in Clients, UNCHANGED <<id, semOf>>,
         \A d \in Clients : d # c => /\ main'[d] = main[d] /\ timer'[d] = timer[d]
                                     /\ reader'[d] = reader[d],
         \A q \in Clients \X Processes : q[1] # c => adj'[q] = adj[q],
         \A i \in Ids : i # id[c] => val'[i] = val[i],
         InsideAt(c)'
  PROVE  InsideInv'
<1> SUFFICES ASSUME NEW d \in Clients, d # c PROVE InsideAt(d)'
    BY DEF InsideInv
<1>1. \A p \in Processes : <<d, p>> \in Clients \X Processes /\ <<d, p>>[1] = d
    OBVIOUS
<1> QED
    BY <1>1, SoloKept, OthersKept

LEMMA StillInside ==
  ASSUME InsideInv, UNCHANGED <<id, semOf, main, timer, reader, sem>>
  PROVE  InsideInv'
<1> SUFFICES ASSUME NEW c \in Clients PROVE InsideAt(c)'
    BY DEF InsideInv
<1>1. InsideAt(c)
    BY DEF InsideInv
<1> QED
    BY <1>1, SoloKept DEF InsideAt, HoldsAt, Busy, ReaderInside, MainInside, sem

LEMMA StepInside == TypeInv /\ SeparateInv /\ InsideInv /\ [Next]_vars => InsideInv'
<1> SUFFICES ASSUME TypeInv /\ SeparateInv /\ InsideInv, [Next]_vars PROVE InsideInv'
    OBVIOUS
<1> USE ConstantsAssumption DEF TypeInv, TypeOK, PlaceInv, SettingUp, Attached, InsideInv, ReaderInside, MainInside, Processes, tables, extrema, sem
<1>1. CASE AcceptFails
    BY <1>1, StillInside DEF AcceptFails
<1>2. ASSUME NEW c \in Clients, Accept(c) PROVE InsideInv'
  <2>1. /\ UNCHANGED <<id, semOf>>
        /\ \A d \in Clients : d # c => /\ main'[d] = main[d] /\ timer'[d] = timer[d]
                                       /\ reader'[d] = reader[d]
      BY <1>2 DEF Accept
  <2>2. /\ \A q \in Clients \X Processes : q[1] # c => adj'[q] = adj[q]
        /\ \A i \in Ids : i # id[c] => val'[i] = val[i]
      BY <1>2 DEF Accept
  <2>3. InsideAt(c)'
      BY <1>2, <2>1, SoloKept DEF Accept, InsideAt, HoldsAt, Has, Busy
  <2> QED BY <2>1, <2>2, <2>3, InsideFrame
<1>3. ASSUME NEW c \in Clients, SetUpFails(c) PROVE InsideInv'
  <2>1. /\ UNCHANGED <<id, semOf>>
        /\ \A d \in Clients : d # c => /\ main'[d] = main[d] /\ timer'[d] = timer[d]
                                       /\ reader'[d] = reader[d]
      BY <1>3 DEF SetUpFails
  <2>2. /\ \A q \in Clients \X Processes : q[1] # c => adj'[q] = adj[q]
        /\ \A i \in Ids : i # id[c] => val'[i] = val[i]
      BY <1>3 DEF SetUpFails
  <2>3. InsideAt(c)'
      BY <1>3, <2>1, SoloKept DEF SetUpFails, InsideAt, HoldsAt, Has, Busy
  <2> QED BY <2>1, <2>2, <2>3, InsideFrame
<1>4. ASSUME NEW c \in Clients, ClientLeaves(c) PROVE InsideInv'
  <2>1. /\ UNCHANGED <<id, semOf>>
        /\ \A d \in Clients : d # c => /\ main'[d] = main[d] /\ timer'[d] = timer[d]
                                       /\ reader'[d] = reader[d]
      BY <1>4 DEF ClientLeaves
  <2>2. /\ \A q \in Clients \X Processes : q[1] # c => adj'[q] = adj[q]
        /\ \A i \in Ids : i # id[c] => val'[i] = val[i]
      BY <1>4 DEF ClientLeaves
  <2>3. InsideAt(c)'
      BY <1>4, <2>1, SoloKept DEF ClientLeaves, InsideAt, HoldsAt, Has, Busy
  <2> QED BY <2>1, <2>2, <2>3, InsideFrame
<1>5. ASSUME NEW c \in Clients, GetMemory(c) PROVE InsideInv'
  <2>1. /\ UNCHANGED <<id, semOf>>
        /\ \A d \in Clients : d # c => /\ main'[d] = main[d] /\ timer'[d] = timer[d]
                                       /\ reader'[d] = reader[d]
      BY <1>5 DEF GetMemory, MainGoes
  <2>2. /\ \A q \in Clients \X Processes : q[1] # c => adj'[q] = adj[q]
        /\ \A i \in Ids : i # id[c] => val'[i] = val[i]
      BY <1>5 DEF GetMemory, MainGoes
  <2>3. InsideAt(c)'
      BY <1>5, <2>1, SoloKept DEF GetMemory, MainGoes, InsideAt, HoldsAt, Has, Busy
  <2> QED BY <2>1, <2>2, <2>3, InsideFrame
<1>6. ASSUME NEW c \in Clients, GetSemaphore(c) PROVE InsideInv'
  <2>1. /\ main[c] = "semget" /\ main' = [main EXCEPT ![c] = "shmat"]
        /\ key[c] \in Keys /\ id[c] = None /\ timer[c] = "new" /\ reader[c] = "new"
        /\ UNCHANGED <<timer, reader, adj>>
      BY <1>6 DEF GetSemaphore, MainGoes
  <2>2. PICK i : id' = [id EXCEPT ![c] = i]
      BY <1>6 DEF GetSemaphore, MainGoes
  <2>3. \A k \in Keys : semOf'[k] # semOf[k] => semOf'[k] \in Ids \ given
      BY <1>6, <2>1 DEF GetSemaphore, MainGoes, SemKey
  <2>4. \A j \in given : val'[j] = val[j]
      BY <1>6 DEF GetSemaphore, MainGoes
  <2>5. \A d \in Clients : d # c => InsideAt(d)'
    <3> SUFFICES ASSUME NEW d \in Clients, d # c PROVE InsideAt(d)'
        OBVIOUS
    <3>1. id'[d] = id[d]
        BY <2>2
    <3>2. id[d] \in Ids => id[d] \in given
        BY DEF SeparateInv
    <3>3. Solo(d)' => Solo(d)
        BY <2>1, <2>2 DEF Solo, Alone
    <3>4. Solo(d) /\ Exists(d)' => Exists(d)
        BY <2>3, <3>1, <3>2 DEF Solo, Exists
    <3> QED BY <2>1, <2>4, <3>1, <3>2, <3>3, <3>4, OthersKept
  <2>6. InsideAt(c)'
      BY <2>1 DEF InsideAt
  <2> QED BY <2>5, <2>6
<1>7. ASSUME NEW c \in Clients, Attach(c) PROVE InsideInv'
  <2>1. /\ UNCHANGED <<id, semOf>>
        /\ \A d \in Clients : d # c => /\ main'[d] = main[d] /\ timer'[d] = timer[d]
                                       /\ reader'[d] = reader[d]
      BY <1>7 DEF Attach, MainGoes
  <2>2. /\ \A q \in Clients \X Processes : q[1] # c => adj'[q] = adj[q]
        /\ \A i \in Ids : i # id[c] => val'[i] = val[i]
      BY <1>7 DEF Attach, MainGoes
  <2>3. InsideAt(c)'
      BY <1>7, <2>1, SoloKept DEF Attach, MainGoes, InsideAt, HoldsAt, Has, Busy
  <2> QED BY <2>1, <2>2, <2>3, InsideFrame
<1>8. ASSUME NEW c \in Clients, SetValue(c) PROVE InsideInv'
  <2>1. /\ UNCHANGED <<id, semOf, timer, reader>>
        /\ \A d \in Clients : d # c => main'[d] = main[d]
        /\ main[c] = "setval" /\ main'[c] = IF Exists(c) THEN "start" ELSE "ended"
        /\ id[c] \in Ids /\ timer[c] = "new" /\ reader[c] = "new"
      BY <1>8 DEF SetValue, MainGoes
  <2>2. \A d \in Clients, p \in Processes :
           adj'[<<d, p>>] = IF Exists(c) /\ id[d] = id[c] THEN 0 ELSE adj[<<d, p>>]
    <3>1. \A d \in Clients, p \in Processes :
             <<d, p>> \in Clients \X Processes /\ <<d, p>>[1] = d
        OBVIOUS
    <3> QED BY <1>8, <3>1 DEF SetValue
  <2>3. \A j \in Ids : val'[j] = IF Exists(c) /\ j = id[c] THEN 1 ELSE val[j]
      BY <1>8, <2>1 DEF SetValue
  <2>4. \A d \in Clients : d # c => InsideAt(d)'
    <3> SUFFICES ASSUME NEW d \in Clients, d # c PROVE InsideAt(d)'
        OBVIOUS
    <3>1. id[d] # id[c] => \A p \in Processes : adj'[<<d, p>>] = adj[<<d, p>>]
        BY <2>2, ZenonT(60)
    <3>2. id[d] \in Ids /\ id[d] # id[c] => val'[id[d]] = val[id[d]]
        BY <2>3
    <3> QED BY <2>1, <3>1, <3>2, SoloKept, OthersKept
  <2>5. InsideAt(c)'
      BY <2>1, <2>2, <2>3, SoloKept DEF InsideAt, HoldsAt, Has, Busy
  <2> QED BY <2>4, <2>5
<1>9. ASSUME NEW c \in Clients, Start(c) PROVE InsideInv'
  <2>1. /\ UNCHANGED <<id, semOf>>
        /\ \A d \in Clients : d # c => /\ main'[d] = main[d] /\ timer'[d] = timer[d]
                                       /\ reader'[d] = reader[d]
      BY <1>9 DEF Start, MainGoes
  <2>2. /\ \A q \in Clients \X Processes : q[1] # c => adj'[q] = adj[q]
        /\ \A i \in Ids : i # id[c] => val'[i] = val[i]
      BY <1>9 DEF Start, MainGoes
  <2>3. InsideAt(c)'
      BY <1>9, <2>1, SoloKept DEF Start, MainGoes, InsideAt, HoldsAt, Has, Busy
  <2> QED BY <2>1, <2>2, <2>3, InsideFrame
<1>10. ASSUME NEW c \in Clients, ReceiveFails(c) PROVE InsideInv'
  <2>1. /\ UNCHANGED <<id, semOf>>
        /\ \A d \in Clients : d # c => /\ main'[d] = main[d] /\ timer'[d] = timer[d]
                                       /\ reader'[d] = reader[d]
      BY <1>10 DEF ReceiveFails, ReaderEnds
  <2>2. /\ \A q \in Clients \X Processes : q[1] # c => adj'[q] = adj[q]
        /\ \A i \in Ids : i # id[c] => val'[i] = val[i]
      BY <1>10 DEF ReceiveFails, ReaderEnds, Undo
  <2>3. InsideAt(c)'
      BY <1>10, <2>1, SoloKept DEF ReceiveFails, ReaderEnds, Undo, InsideAt, HoldsAt, Has, Busy
  <2> QED BY <2>1, <2>2, <2>3, InsideFrame
<1>11. ASSUME NEW c \in Clients, EnterClient(c) PROVE InsideInv'
  <2>1. /\ UNCHANGED <<id, semOf>>
        /\ \A d \in Clients : d # c => /\ main'[d] = main[d] /\ timer'[d] = timer[d]
                                       /\ reader'[d] = reader[d]
      BY <1>11 DEF EnterClient, ReaderGoes
  <2>2. /\ \A q \in Clients \X Processes : q[1] # c => adj'[q] = adj[q]
        /\ \A i \in Ids : i # id[c] => val'[i] = val[i]
      BY <1>11 DEF EnterClient, ReaderGoes, Wait
  <2>3. InsideAt(c)'
      BY <1>11, <2>1, SoloKept DEF EnterClient, ReaderGoes, Wait, InsideAt, HoldsAt, Has, Busy
  <2> QED BY <2>1, <2>2, <2>3, InsideFrame
<1>12. ASSUME NEW c \in Clients, EnterGlobal(c) PROVE InsideInv'
  <2>1. /\ UNCHANGED <<id, semOf>>
        /\ \A d \in Clients : d # c => /\ main'[d] = main[d] /\ timer'[d] = timer[d]
                                       /\ reader'[d] = reader[d]
      BY <1>12 DEF EnterGlobal, ReaderGoes
  <2>2. /\ \A q \in Clients \X Processes : q[1] # c => adj'[q] = adj[q]
        /\ \A i \in Ids : i # id[c] => val'[i] = val[i]
      BY <1>12 DEF EnterGlobal, ReaderGoes
  <2>3. InsideAt(c)'
      BY <1>12, <2>1, SoloKept DEF EnterGlobal, ReaderGoes, InsideAt, HoldsAt, Has, Busy
  <2> QED BY <2>1, <2>2, <2>3, InsideFrame
<1>13. ASSUME NEW c \in Clients, ReaderSemopFails(c) PROVE InsideInv'
  <2>1. /\ UNCHANGED <<id, semOf>>
        /\ \A d \in Clients : d # c => /\ main'[d] = main[d] /\ timer'[d] = timer[d]
                                       /\ reader'[d] = reader[d]
      BY <1>13 DEF ReaderSemopFails, ReaderEnds
  <2>2. /\ \A q \in Clients \X Processes : q[1] # c => adj'[q] = adj[q]
        /\ \A i \in Ids : i # id[c] => val'[i] = val[i]
      BY <1>13 DEF ReaderSemopFails, ReaderEnds, Undo
  <2>3. InsideAt(c)'
      BY <1>13, <2>1, SoloKept DEF ReaderSemopFails, ReaderEnds, Undo, InsideAt, HoldsAt, Has, Busy
  <2> QED BY <2>1, <2>2, <2>3, InsideFrame
<1>14. ASSUME NEW c \in Clients, WriteFront(c) PROVE InsideInv'
  <2>1. /\ UNCHANGED <<id, semOf>>
        /\ \A d \in Clients : d # c => /\ main'[d] = main[d] /\ timer'[d] = timer[d]
                                       /\ reader'[d] = reader[d]
      BY <1>14 DEF WriteFront, ReaderGoes
  <2>2. /\ \A q \in Clients \X Processes : q[1] # c => adj'[q] = adj[q]
        /\ \A i \in Ids : i # id[c] => val'[i] = val[i]
      BY <1>14 DEF WriteFront, ReaderGoes
  <2>3. InsideAt(c)'
      BY <1>14, <2>1, SoloKept DEF WriteFront, ReaderGoes, InsideAt, HoldsAt, Has, Busy
  <2> QED BY <2>1, <2>2, <2>3, InsideFrame
<1>15. ASSUME NEW c \in Clients, WriteBack(c) PROVE InsideInv'
  <2>1. /\ UNCHANGED <<id, semOf>>
        /\ \A d \in Clients : d # c => /\ main'[d] = main[d] /\ timer'[d] = timer[d]
                                       /\ reader'[d] = reader[d]
      BY <1>15 DEF WriteBack, ReaderGoes
  <2>2. /\ \A q \in Clients \X Processes : q[1] # c => adj'[q] = adj[q]
        /\ \A i \in Ids : i # id[c] => val'[i] = val[i]
      BY <1>15 DEF WriteBack, ReaderGoes
  <2>3. InsideAt(c)'
      BY <1>15, <2>1, SoloKept DEF WriteBack, ReaderGoes, InsideAt, HoldsAt, Has, Busy
  <2> QED BY <2>1, <2>2, <2>3, InsideFrame
<1>16. ASSUME NEW c \in Clients, Compute(c) PROVE InsideInv'
  <2>1. /\ UNCHANGED <<id, semOf>>
        /\ \A d \in Clients : d # c => /\ main'[d] = main[d] /\ timer'[d] = timer[d]
                                       /\ reader'[d] = reader[d]
      BY <1>16 DEF Compute, ReaderGoes
  <2>2. /\ \A q \in Clients \X Processes : q[1] # c => adj'[q] = adj[q]
        /\ \A i \in Ids : i # id[c] => val'[i] = val[i]
      BY <1>16 DEF Compute, ReaderGoes
  <2>3. InsideAt(c)'
      BY <1>16, <2>1, SoloKept DEF Compute, ReaderGoes, InsideAt, HoldsAt, Has, Busy
  <2> QED BY <2>1, <2>2, <2>3, InsideFrame
<1>17. ASSUME NEW c \in Clients, ComputeTraps(c) PROVE InsideInv'
  <2>1. /\ UNCHANGED <<id, semOf>>
        /\ \A d \in Clients : d # c => /\ main'[d] = main[d] /\ timer'[d] = timer[d]
                                       /\ reader'[d] = reader[d]
      BY <1>17 DEF ComputeTraps, ReaderEnds
  <2>2. /\ \A q \in Clients \X Processes : q[1] # c => adj'[q] = adj[q]
        /\ \A i \in Ids : i # id[c] => val'[i] = val[i]
      BY <1>17 DEF ComputeTraps, ReaderEnds, Undo
  <2>3. InsideAt(c)'
      BY <1>17, <2>1, SoloKept DEF ComputeTraps, ReaderEnds, Undo, InsideAt, HoldsAt, Has, Busy
  <2> QED BY <2>1, <2>2, <2>3, InsideFrame
<1>18. ASSUME NEW c \in Clients, UpdateFirst(c) PROVE InsideInv'
  <2>1. /\ UNCHANGED <<id, semOf>>
        /\ \A d \in Clients : d # c => /\ main'[d] = main[d] /\ timer'[d] = timer[d]
                                       /\ reader'[d] = reader[d]
      BY <1>18 DEF UpdateFirst, ReaderGoes
  <2>2. /\ \A q \in Clients \X Processes : q[1] # c => adj'[q] = adj[q]
        /\ \A i \in Ids : i # id[c] => val'[i] = val[i]
      BY <1>18 DEF UpdateFirst, ReaderGoes
  <2>3. InsideAt(c)'
      BY <1>18, <2>1, SoloKept DEF UpdateFirst, ReaderGoes, InsideAt, HoldsAt, Has, Busy
  <2> QED BY <2>1, <2>2, <2>3, InsideFrame
<1>19. ASSUME NEW c \in Clients, UpdateMin(c) PROVE InsideInv'
  <2>1. /\ UNCHANGED <<id, semOf>>
        /\ \A d \in Clients : d # c => /\ main'[d] = main[d] /\ timer'[d] = timer[d]
                                       /\ reader'[d] = reader[d]
      BY <1>19 DEF UpdateMin, ReaderGoes
  <2>2. /\ \A q \in Clients \X Processes : q[1] # c => adj'[q] = adj[q]
        /\ \A i \in Ids : i # id[c] => val'[i] = val[i]
      BY <1>19 DEF UpdateMin, ReaderGoes
  <2>3. InsideAt(c)'
      BY <1>19, <2>1, SoloKept DEF UpdateMin, ReaderGoes, InsideAt, HoldsAt, Has, Busy
  <2> QED BY <2>1, <2>2, <2>3, InsideFrame
<1>20. ASSUME NEW c \in Clients, UpdateMax(c) PROVE InsideInv'
  <2>1. /\ UNCHANGED <<id, semOf>>
        /\ \A d \in Clients : d # c => /\ main'[d] = main[d] /\ timer'[d] = timer[d]
                                       /\ reader'[d] = reader[d]
      BY <1>20 DEF UpdateMax, ReaderGoes
  <2>2. /\ \A q \in Clients \X Processes : q[1] # c => adj'[q] = adj[q]
        /\ \A i \in Ids : i # id[c] => val'[i] = val[i]
      BY <1>20 DEF UpdateMax, ReaderGoes
  <2>3. InsideAt(c)'
      BY <1>20, <2>1, SoloKept DEF UpdateMax, ReaderGoes, InsideAt, HoldsAt, Has, Busy
  <2> QED BY <2>1, <2>2, <2>3, InsideFrame
<1>21. ASSUME NEW c \in Clients, Share(c) PROVE InsideInv'
  <2>1. /\ UNCHANGED <<id, semOf>>
        /\ \A d \in Clients : d # c => /\ main'[d] = main[d] /\ timer'[d] = timer[d]
                                       /\ reader'[d] = reader[d]
      BY <1>21 DEF Share, ReaderGoes
  <2>2. /\ \A q \in Clients \X Processes : q[1] # c => adj'[q] = adj[q]
        /\ \A i \in Ids : i # id[c] => val'[i] = val[i]
      BY <1>21 DEF Share, ReaderGoes
  <2>3. InsideAt(c)'
      BY <1>21, <2>1, SoloKept DEF Share, ReaderGoes, InsideAt, HoldsAt, Has, Busy
  <2> QED BY <2>1, <2>2, <2>3, InsideFrame
<1>22. ASSUME NEW c \in Clients, LeaveGlobal(c) PROVE InsideInv'
  <2>1. /\ UNCHANGED <<id, semOf>>
        /\ \A d \in Clients : d # c => /\ main'[d] = main[d] /\ timer'[d] = timer[d]
                                       /\ reader'[d] = reader[d]
      BY <1>22 DEF LeaveGlobal, ReaderGoes
  <2>2. /\ \A q \in Clients \X Processes : q[1] # c => adj'[q] = adj[q]
        /\ \A i \in Ids : i # id[c] => val'[i] = val[i]
      BY <1>22 DEF LeaveGlobal, ReaderGoes
  <2>3. InsideAt(c)'
      BY <1>22, <2>1, SoloKept DEF LeaveGlobal, ReaderGoes, InsideAt, HoldsAt, Has, Busy
  <2> QED BY <2>1, <2>2, <2>3, InsideFrame
<1>23. ASSUME NEW c \in Clients, LeaveClient(c) PROVE InsideInv'
  <2>1. /\ UNCHANGED <<id, semOf>>
        /\ \A d \in Clients : d # c => /\ main'[d] = main[d] /\ timer'[d] = timer[d]
                                       /\ reader'[d] = reader[d]
      BY <1>23 DEF LeaveClient, ReaderGoes
  <2>2. /\ \A q \in Clients \X Processes : q[1] # c => adj'[q] = adj[q]
        /\ \A i \in Ids : i # id[c] => val'[i] = val[i]
      BY <1>23 DEF LeaveClient, ReaderGoes, Signal
  <2>3. InsideAt(c)'
      BY <1>23, <2>1, SoloKept DEF LeaveClient, ReaderGoes, Signal, InsideAt, HoldsAt, Has, Busy
  <2> QED BY <2>1, <2>2, <2>3, InsideFrame
<1>24. ASSUME NEW c \in Clients, ReaderChecks(c) PROVE InsideInv'
  <2>1. /\ UNCHANGED <<id, semOf>>
        /\ \A d \in Clients : d # c => /\ main'[d] = main[d] /\ timer'[d] = timer[d]
                                       /\ reader'[d] = reader[d]
      BY <1>24 DEF ReaderChecks, ReaderGoes
  <2>2. /\ \A q \in Clients \X Processes : q[1] # c => adj'[q] = adj[q]
        /\ \A i \in Ids : i # id[c] => val'[i] = val[i]
      BY <1>24 DEF ReaderChecks, ReaderGoes
  <2>3. InsideAt(c)'
      BY <1>24, <2>1, SoloKept DEF ReaderChecks, ReaderGoes, InsideAt, HoldsAt, Has, Busy
  <2> QED BY <2>1, <2>2, <2>3, InsideFrame
<1>25. ASSUME NEW c \in Clients, TimerEnters(c) PROVE InsideInv'
  <2>1. /\ UNCHANGED <<id, semOf>>
        /\ \A d \in Clients : d # c => /\ main'[d] = main[d] /\ timer'[d] = timer[d]
                                       /\ reader'[d] = reader[d]
      BY <1>25 DEF TimerEnters, TimerGoes
  <2>2. /\ \A q \in Clients \X Processes : q[1] # c => adj'[q] = adj[q]
        /\ \A i \in Ids : i # id[c] => val'[i] = val[i]
      BY <1>25 DEF TimerEnters, TimerGoes, Wait
  <2>3. InsideAt(c)'
      BY <1>25, <2>1, SoloKept DEF TimerEnters, TimerGoes, Wait, InsideAt, HoldsAt, Has, Busy
  <2> QED BY <2>1, <2>2, <2>3, InsideFrame
<1>26. ASSUME NEW c \in Clients, TimerLeaves(c) PROVE InsideInv'
  <2>1. /\ UNCHANGED <<id, semOf>>
        /\ \A d \in Clients : d # c => /\ main'[d] = main[d] /\ timer'[d] = timer[d]
                                       /\ reader'[d] = reader[d]
      BY <1>26 DEF TimerLeaves, TimerGoes
  <2>2. /\ \A q \in Clients \X Processes : q[1] # c => adj'[q] = adj[q]
        /\ \A i \in Ids : i # id[c] => val'[i] = val[i]
      BY <1>26 DEF TimerLeaves, TimerGoes, Signal
  <2>3. InsideAt(c)'
      BY <1>26, <2>1, SoloKept DEF TimerLeaves, TimerGoes, Signal, InsideAt, HoldsAt, Has, Busy
  <2> QED BY <2>1, <2>2, <2>3, InsideFrame
<1>27. ASSUME NEW c \in Clients, TimerSemopFails(c) PROVE InsideInv'
  <2>1. /\ UNCHANGED <<id, semOf>>
        /\ \A d \in Clients : d # c => /\ main'[d] = main[d] /\ timer'[d] = timer[d]
                                       /\ reader'[d] = reader[d]
      BY <1>27 DEF TimerSemopFails, TimerGoes
  <2>2. /\ \A q \in Clients \X Processes : q[1] # c => adj'[q] = adj[q]
        /\ \A i \in Ids : i # id[c] => val'[i] = val[i]
      BY <1>27 DEF TimerSemopFails, TimerGoes, Undo
  <2>3. InsideAt(c)'
      BY <1>27, <2>1, SoloKept DEF TimerSemopFails, TimerGoes, Undo, InsideAt, HoldsAt, Has, Busy
  <2> QED BY <2>1, <2>2, <2>3, InsideFrame
<1>28. ASSUME NEW c \in Clients, TimerChecks(c) PROVE InsideInv'
  <2>1. /\ UNCHANGED <<id, semOf>>
        /\ \A d \in Clients : d # c => /\ main'[d] = main[d] /\ timer'[d] = timer[d]
                                       /\ reader'[d] = reader[d]
      BY <1>28 DEF TimerChecks, TimerGoes
  <2>2. /\ \A q \in Clients \X Processes : q[1] # c => adj'[q] = adj[q]
        /\ \A i \in Ids : i # id[c] => val'[i] = val[i]
      BY <1>28 DEF TimerChecks, TimerGoes
  <2>3. InsideAt(c)'
      BY <1>28, <2>1, SoloKept DEF TimerChecks, TimerGoes, InsideAt, HoldsAt, Has, Busy
  <2> QED BY <2>1, <2>2, <2>3, InsideFrame
<1>29. ASSUME NEW c \in Clients, ConsumerEnters(c) PROVE InsideInv'
  <2>1. /\ UNCHANGED <<id, semOf>>
        /\ \A d \in Clients : d # c => /\ main'[d] = main[d] /\ timer'[d] = timer[d]
                                       /\ reader'[d] = reader[d]
      BY <1>29 DEF ConsumerEnters, ConsumerGoes, MainGoes
  <2>2. /\ \A q \in Clients \X Processes : q[1] # c => adj'[q] = adj[q]
        /\ \A i \in Ids : i # id[c] => val'[i] = val[i]
      BY <1>29 DEF ConsumerEnters, ConsumerGoes, MainGoes, Wait
  <2>3. InsideAt(c)'
      BY <1>29, <2>1, SoloKept DEF ConsumerEnters, ConsumerGoes, MainGoes, Wait, InsideAt, HoldsAt, Has, Busy
  <2> QED BY <2>1, <2>2, <2>3, InsideFrame
<1>30. ASSUME NEW c \in Clients, CopyNumbers(c) PROVE InsideInv'
  <2>1. /\ UNCHANGED <<id, semOf>>
        /\ \A d \in Clients : d # c => /\ main'[d] = main[d] /\ timer'[d] = timer[d]
                                       /\ reader'[d] = reader[d]
      BY <1>30 DEF CopyNumbers, ConsumerGoes, MainGoes
  <2>2. /\ \A q \in Clients \X Processes : q[1] # c => adj'[q] = adj[q]
        /\ \A i \in Ids : i # id[c] => val'[i] = val[i]
      BY <1>30 DEF CopyNumbers, ConsumerGoes, MainGoes
  <2>3. InsideAt(c)'
      BY <1>30, <2>1, SoloKept DEF CopyNumbers, ConsumerGoes, MainGoes, InsideAt, HoldsAt, Has, Busy
  <2> QED BY <2>1, <2>2, <2>3, InsideFrame
<1>31. ASSUME NEW c \in Clients, CopyTextAndSend(c) PROVE InsideInv'
  <2>1. /\ UNCHANGED <<id, semOf>>
        /\ \A d \in Clients : d # c => /\ main'[d] = main[d] /\ timer'[d] = timer[d]
                                       /\ reader'[d] = reader[d]
      BY <1>31 DEF CopyTextAndSend, ConsumerGoes, MainGoes
  <2>2. /\ \A q \in Clients \X Processes : q[1] # c => adj'[q] = adj[q]
        /\ \A i \in Ids : i # id[c] => val'[i] = val[i]
      BY <1>31 DEF CopyTextAndSend, ConsumerGoes, MainGoes
  <2>3. InsideAt(c)'
      BY <1>31, <2>1, SoloKept DEF CopyTextAndSend, ConsumerGoes, MainGoes, InsideAt, HoldsAt, Has, Busy
  <2> QED BY <2>1, <2>2, <2>3, InsideFrame
<1>32. ASSUME NEW c \in Clients, SendKills(c) PROVE InsideInv'
  <2>1. /\ UNCHANGED <<id, semOf>>
        /\ \A d \in Clients : d # c => /\ main'[d] = main[d] /\ timer'[d] = timer[d]
                                       /\ reader'[d] = reader[d]
      BY <1>32 DEF SendKills, ConsumerGoes, MainGoes
  <2>2. /\ \A q \in Clients \X Processes : q[1] # c => adj'[q] = adj[q]
        /\ \A i \in Ids : i # id[c] => val'[i] = val[i]
      BY <1>32 DEF SendKills, ConsumerGoes, MainGoes, Undo
  <2>3. InsideAt(c)'
      BY <1>32, <2>1, SoloKept DEF SendKills, ConsumerGoes, MainGoes, Undo, InsideAt, HoldsAt, Has, Busy
  <2> QED BY <2>1, <2>2, <2>3, InsideFrame
<1>33. ASSUME NEW c \in Clients, ConsumerLeaves(c) PROVE InsideInv'
  <2>1. /\ UNCHANGED <<id, semOf>>
        /\ \A d \in Clients : d # c => /\ main'[d] = main[d] /\ timer'[d] = timer[d]
                                       /\ reader'[d] = reader[d]
      BY <1>33 DEF ConsumerLeaves, ConsumerGoes, MainGoes
  <2>2. /\ \A q \in Clients \X Processes : q[1] # c => adj'[q] = adj[q]
        /\ \A i \in Ids : i # id[c] => val'[i] = val[i]
      BY <1>33 DEF ConsumerLeaves, ConsumerGoes, MainGoes, Signal
  <2>3. InsideAt(c)'
      BY <1>33, <2>1, SoloKept, SMTT(60) DEF ConsumerLeaves, ConsumerGoes, MainGoes, Signal, InsideAt, HoldsAt, Has, Busy
  <2> QED BY <2>1, <2>2, <2>3, InsideFrame
<1>34. ASSUME NEW c \in Clients, ConsumerSemopFails(c) PROVE InsideInv'
  <2>1. /\ UNCHANGED <<id, semOf>>
        /\ \A d \in Clients : d # c => /\ main'[d] = main[d] /\ timer'[d] = timer[d]
                                       /\ reader'[d] = reader[d]
      BY <1>34 DEF ConsumerSemopFails, ConsumerGoes, MainGoes
  <2>2. /\ \A q \in Clients \X Processes : q[1] # c => adj'[q] = adj[q]
        /\ \A i \in Ids : i # id[c] => val'[i] = val[i]
      BY <1>34 DEF ConsumerSemopFails, ConsumerGoes, MainGoes, Undo
  <2>3. InsideAt(c)'
      BY <1>34, <2>1, SoloKept DEF ConsumerSemopFails, ConsumerGoes, MainGoes, Undo, InsideAt, HoldsAt, Has, Busy
  <2> QED BY <2>1, <2>2, <2>3, InsideFrame
<1>35. ASSUME NEW c \in Clients, ConsumerGoesOn(c) PROVE InsideInv'
  <2>1. /\ UNCHANGED <<id, semOf>>
        /\ \A d \in Clients : d # c => /\ main'[d] = main[d] /\ timer'[d] = timer[d]
                                       /\ reader'[d] = reader[d]
      BY <1>35 DEF ConsumerGoesOn, ConsumerGoes, MainGoes
  <2>2. /\ \A q \in Clients \X Processes : q[1] # c => adj'[q] = adj[q]
        /\ \A i \in Ids : i # id[c] => val'[i] = val[i]
      BY <1>35 DEF ConsumerGoesOn, ConsumerGoes, MainGoes
  <2>3. InsideAt(c)'
      BY <1>35, <2>1, SoloKept DEF ConsumerGoesOn, ConsumerGoes, MainGoes, InsideAt, HoldsAt, Has, Busy
  <2> QED BY <2>1, <2>2, <2>3, InsideFrame
<1>36. ASSUME NEW c \in Clients, HangUp(c) PROVE InsideInv'
  <2>1. /\ UNCHANGED <<id, timer, reader, val, adj>>
        /\ \A d \in Clients : d # c => main'[d] = main[d]
        /\ main[c] = "check" /\ main'[c] = "ended" /\ id[c] \in Ids
      BY <1>36 DEF HangUp, ConsumerGoes, MainGoes
  <2>2. \A k \in Keys : semOf'[k] = IF semOf[k] = id[c] THEN None ELSE semOf[k]
      BY <1>36 DEF HangUp
  <2>3. \A d \in Clients : (Solo(d)' <=> Solo(d)) /\ (Solo(d) /\ Exists(d)' => Exists(d))
      BY <2>1, <2>2 DEF Solo, Alone, Exists
  <2>4. ~Exists(c)'
      BY <2>1, <2>2 DEF Exists
  <2>5. \A d \in Clients : d # c => InsideAt(d)'
      BY <2>1, <2>3, OthersKept
  <2>6. InsideAt(c)'
      BY <2>1, <2>3, <2>4 DEF InsideAt, HoldsAt
  <2> QED BY <2>5, <2>6
<1>37. ASSUME NEW c \in Clients, NEW r \in Requests, Receive(c, r) PROVE InsideInv'
  <2>1. /\ UNCHANGED <<id, semOf>>
        /\ \A d \in Clients : d # c => /\ main'[d] = main[d] /\ timer'[d] = timer[d]
                                       /\ reader'[d] = reader[d]
      BY <1>37 DEF Receive, ReaderGoes
  <2>2. /\ \A q \in Clients \X Processes : q[1] # c => adj'[q] = adj[q]
        /\ \A i \in Ids : i # id[c] => val'[i] = val[i]
      BY <1>37 DEF Receive, ReaderGoes
  <2>3. InsideAt(c)'
      BY <1>37, <2>1, SoloKept DEF Receive, ReaderGoes, InsideAt, HoldsAt, Has, Busy
  <2> QED BY <2>1, <2>2, <2>3, InsideFrame
<1>38. CASE UNCHANGED vars
    BY <1>38, StillInside DEF vars
<1> QED
    BY <1>1, <1>2, <1>3, <1>4, <1>5, <1>6, <1>7, <1>8, <1>9, <1>10, <1>11,
       <1>12, <1>13, <1>14, <1>15, <1>16, <1>17, <1>18, <1>19, <1>20, <1>21,
       <1>22, <1>23, <1>24, <1>25, <1>26, <1>27, <1>28, <1>29, <1>30, <1>31,
       <1>32, <1>33, <1>34, <1>35, <1>36, <1>37, <1>38
       DEF Next, SetUpStep, ReaderStep, TimerStep, ConsumerStep

(* Of the reader, the timer and the consumer of a connection at most one   *)
(* is inside, for any number of connections, also when the semaphore is    *)
(* removed under them, unless another connection has come to share it.     *)
THEOREM OneProcessInside == Spec => []OneInside
<1>1. Init => SeparateInv /\ InsideInv
    BY DEF Init, SeparateInv, InsideInv, InsideAt, SettingUp
<1>2. TypeInv /\ InsideInv => OneInside
    BY DEF TypeInv, TypeOK, PlaceInv, InsideInv, InsideAt, HoldsAt, OneInside, Solo, Attached,
           SettingUp, ReaderInside, MainInside
<1> QED
    BY TypeInvariant, StepSeparate, StepInside, <1>1, <1>2, PTL DEF Spec

-----------------------------------------------------------------------------
(* Nobody has written into the segment of an identifier before it is given *)
(* out, and whoever finds a semaphore shares it.                           *)
FreshInv ==
  /\ \A i \in Ids \ given : mem[i] = NewRecord
  /\ \A k \in Keys : semOf[k] # None => \E d \in Clients : id[d] = semOf[k]

Agree(r)    == r.front = r.back \/ r.front = Hash
Computed(r) == r.front.op = "calc" => r.result = r.front.value
Bounded(r)  == r.front.op = "calc" => r.min <= r.result /\ r.result <= r.max

(* How far the reader has come with the record.                            *)
RecordAt(c) ==
  LET r == mem[id[c]]
  IN  /\ reader[c] = "back" => r.front = in[c]
      /\ reader[c] = "compute" => r.front = r.back /\ in[c] = r.front
      /\ reader[c] \in {"first", "min", "max", "share"} => r.front = r.back /\ Computed(r)
      /\ reader[c] = "share" => trace.min <= r.result /\ r.result <= trace.max
      /\ reader[c] \notin {"back", "compute", "first", "min", "max", "share"}
           => Agree(r) /\ Computed(r) /\ Bounded(r)

(* The consumer has copied the record as it is.                            *)
CopyAt(c) ==
  LET r == mem[id[c]]
  IN  /\ main[c] \in {"send", "leave"} =>
           /\ out[c].front = r.front /\ out[c].result = r.result
           /\ out[c].min = r.min /\ out[c].max = r.max
      /\ main[c] = "leave" => out[c].back = r.back

MemAt(c) ==
  /\ Solo(c) /\ main[c] \in SettingUp => mem[id[c]] = NewRecord
  /\ Solo(c) /\ reader[c] # "new" /\ Attached(c) => RecordAt(c) /\ CopyAt(c)

MemInv == \A c \in Clients : MemAt(c)

LEMMA SoloSame ==
  ASSUME id' = id PROVE \A c \in Clients : Solo(c)' <=> Solo(c)
BY DEF Solo, Alone

LEMMA OthersRecord ==
  ASSUME NEW d \in Clients, MemAt(d),
         main'[d] = main[d], timer'[d] = timer[d], reader'[d] = reader[d],
         in'[d] = in[d], out'[d] = out[d], id'[d] = id[d], Solo(d)' => Solo(d),
         \/ ~Solo(d)
         \/ mem'[id[d]] = mem[id[d]]
         \/ ~Attached(d) /\ mem'[id[d]] = NewRecord,
         trace' = trace \/ reader[d] # "share"
  PROVE  MemAt(d)'
<1>1. Attached(d)' <=> Attached(d)
    BY DEF Attached
<1>2. CASE mem'[id[d]] = mem[id[d]]
  <2>1. RecordAt(d) => RecordAt(d)'
      BY <1>2 DEF RecordAt, Agree, Computed, Bounded
  <2>2. CopyAt(d) => CopyAt(d)'
      BY <1>2 DEF CopyAt
  <2> QED BY <1>1, <1>2, <2>1, <2>2 DEF MemAt
<1>3. CASE ~Attached(d) /\ mem'[id[d]] = NewRecord
    BY <1>1, <1>3 DEF MemAt
<1> QED
    BY <1>2, <1>3 DEF MemAt

LEMMA MemFrame ==
  ASSUME MemInv, NEW c \in Clients, UNCHANGED id,
         \A d \in Clients : d # c => /\ main'[d] = main[d] /\ timer'[d] = timer[d]
                                     /\ reader'[d] = reader[d] /\ in'[d] = in[d]
                                     /\ out'[d] = out[d],
         \A i \in Ids : i # id[c] => mem'[i] = mem[i],
         trace' = trace \/ \A d \in Clients : d # c => reader[d] # "share",
         MemAt(c)'
  PROVE  MemInv'
<1> SUFFICES ASSUME NEW d \in Clients, d # c PROVE MemAt(d)'
    BY DEF MemInv
<1>1. Solo(d) => id[d] \in Ids /\ id[d] # id[c]
    BY DEF Solo, Alone
<1>2. MemAt(d)
    BY DEF MemInv
<1> QED
    BY <1>1, <1>2, SoloSame, OthersRecord

LEMMA StillMem ==
  ASSUME MemInv, UNCHANGED <<id, main, timer, reader, mem, in, out, trace>>
  PROVE  MemInv'
BY SoloSame, OthersRecord DEF MemInv

(* A reader that is inside has the record for itself, and so has the       *)
(* consumer.                                                               *)
LEMMA ReaderAlone ==
  ASSUME TypeInv, InsideInv, MemInv, NEW c \in Clients, Solo(c), ReaderInside(c)
  PROVE  main[c] \notin SettingUp /\ ~MainInside(c) /\ RecordAt(c)
<1>1. timer[c] # "new" /\ main[c] \notin SettingUp /\ Attached(c) /\ reader[c] # "new"
    BY DEF TypeInv, PlaceInv, InsideInv, InsideAt, ReaderInside, Attached
<1> QED
    BY <1>1 DEF InsideInv, InsideAt, HoldsAt, MemInv, MemAt

LEMMA ConsumerAlone ==
  ASSUME TypeInv, InsideInv, MemInv, NEW c \in Clients, Solo(c), MainInside(c)
  PROVE  reader[c] # "new" /\ ~ReaderInside(c) /\ RecordAt(c) /\ CopyAt(c)
<1>1. timer[c] # "new" /\ Attached(c) /\ reader[c] # "new"
    BY DEF InsideInv, InsideAt, MainInside, SettingUp, Attached
<1> QED
    BY <1>1 DEF InsideInv, InsideAt, HoldsAt, MemInv, MemAt

LEMMA StepFresh == TypeInv /\ SeparateInv /\ FreshInv /\ [Next]_vars => FreshInv'
<1> SUFFICES ASSUME TypeInv /\ SeparateInv /\ FreshInv, [Next]_vars PROVE FreshInv'
    OBVIOUS
<1> USE ConstantsAssumption DEF TypeInv, TypeOK, PlaceInv, SettingUp, SeparateInv, Attached, FreshInv, tables, extrema, sem
<1>1. CASE AcceptFails
    BY <1>1 DEF AcceptFails
<1>2. ASSUME NEW c \in Clients, Accept(c) PROVE FreshInv'
    BY <1>2 DEF Accept
<1>3. ASSUME NEW c \in Clients, SetUpFails(c) PROVE FreshInv'
    BY <1>3 DEF SetUpFails
<1>4. ASSUME NEW c \in Clients, ClientLeaves(c) PROVE FreshInv'
    BY <1>4 DEF ClientLeaves
<1>5. ASSUME NEW c \in Clients, GetMemory(c) PROVE FreshInv'
    BY <1>5 DEF GetMemory, MainGoes
<1>6. ASSUME NEW c \in Clients, GetSemaphore(c) PROVE FreshInv'
  <2>1. \A i \in Ids \ given' : mem'[i] = NewRecord
      BY <1>6 DEF GetSemaphore, MainGoes
  <2>2. \A d \in Clients : id[d] # None => id'[d] = id[d]
      BY <1>6 DEF GetSemaphore, MainGoes
  <2>3. \A k \in Keys : semOf'[k] = semOf[k] \/ semOf'[k] = id'[c]
      BY <1>6 DEF GetSemaphore, MainGoes, SemKey
  <2>4. ASSUME NEW k \in Keys, semOf'[k] # None PROVE \E d \in Clients : id'[d] = semOf'[k]
    <3>1. CASE semOf'[k] = id'[c]
        BY <3>1
    <3>2. CASE semOf'[k] = semOf[k]
      <4>1. PICK d \in Clients : id[d] = semOf[k]
          BY <2>4, <3>2
      <4> QED BY <2>2, <2>4, <3>2, <4>1
    <3> QED BY <2>3, <3>1, <3>2
  <2> QED BY <2>1, <2>4
<1>7. ASSUME NEW c \in Clients, Attach(c) PROVE FreshInv'
    BY <1>7 DEF Attach, MainGoes
<1>8. ASSUME NEW c \in Clients, SetValue(c) PROVE FreshInv'
    BY <1>8 DEF SetValue, MainGoes
<1>9. ASSUME NEW c \in Clients, Start(c) PROVE FreshInv'
    BY <1>9 DEF Start, MainGoes, PutRequest
<1>10. ASSUME NEW c \in Clients, ReceiveFails(c) PROVE FreshInv'
    BY <1>10 DEF ReceiveFails, ReaderEnds
<1>11. ASSUME NEW c \in Clients, EnterClient(c) PROVE FreshInv'
    BY <1>11 DEF EnterClient, ReaderGoes
<1>12. ASSUME NEW c \in Clients, EnterGlobal(c) PROVE FreshInv'
    BY <1>12 DEF EnterGlobal, ReaderGoes
<1>13. ASSUME NEW c \in Clients, ReaderSemopFails(c) PROVE FreshInv'
    BY <1>13 DEF ReaderSemopFails, ReaderEnds
<1>14. ASSUME NEW c \in Clients, WriteFront(c) PROVE FreshInv'
    BY <1>14 DEF WriteFront, PutRequest, ReaderGoes
<1>15. ASSUME NEW c \in Clients, WriteBack(c) PROVE FreshInv'
    BY <1>15 DEF WriteBack, PutRequest, ReaderGoes
<1>16. ASSUME NEW c \in Clients, Compute(c) PROVE FreshInv'
    BY <1>16 DEF Compute, PutNumbers, ReaderGoes
<1>17. ASSUME NEW c \in Clients, ComputeTraps(c) PROVE FreshInv'
    BY <1>17 DEF ComputeTraps, ReaderEnds
<1>18. ASSUME NEW c \in Clients, UpdateFirst(c) PROVE FreshInv'
    BY <1>18 DEF UpdateFirst, ReaderGoes
<1>19. ASSUME NEW c \in Clients, UpdateMin(c) PROVE FreshInv'
    BY <1>19 DEF UpdateMin, ReaderGoes
<1>20. ASSUME NEW c \in Clients, UpdateMax(c) PROVE FreshInv'
    BY <1>20 DEF UpdateMax, ReaderGoes
<1>21. ASSUME NEW c \in Clients, Share(c) PROVE FreshInv'
    BY <1>21 DEF Share, PutNumbers, ReaderGoes
<1>22. ASSUME NEW c \in Clients, LeaveGlobal(c) PROVE FreshInv'
    BY <1>22 DEF LeaveGlobal, ReaderGoes
<1>23. ASSUME NEW c \in Clients, LeaveClient(c) PROVE FreshInv'
    BY <1>23 DEF LeaveClient, ReaderGoes
<1>24. ASSUME NEW c \in Clients, ReaderChecks(c) PROVE FreshInv'
    BY <1>24 DEF ReaderChecks, ReaderGoes
<1>25. ASSUME NEW c \in Clients, TimerEnters(c) PROVE FreshInv'
    BY <1>25 DEF TimerEnters, TimerGoes
<1>26. ASSUME NEW c \in Clients, TimerLeaves(c) PROVE FreshInv'
    BY <1>26 DEF TimerLeaves, TimerGoes
<1>27. ASSUME NEW c \in Clients, TimerSemopFails(c) PROVE FreshInv'
    BY <1>27 DEF TimerSemopFails, TimerGoes
<1>28. ASSUME NEW c \in Clients, TimerChecks(c) PROVE FreshInv'
    BY <1>28 DEF TimerChecks, TimerGoes
<1>29. ASSUME NEW c \in Clients, ConsumerEnters(c) PROVE FreshInv'
    BY <1>29 DEF ConsumerEnters, ConsumerGoes, MainGoes
<1>30. ASSUME NEW c \in Clients, CopyNumbers(c) PROVE FreshInv'
    BY <1>30 DEF CopyNumbers, ConsumerGoes, MainGoes
<1>31. ASSUME NEW c \in Clients, CopyTextAndSend(c) PROVE FreshInv'
    BY <1>31 DEF CopyTextAndSend, ConsumerGoes, MainGoes
<1>32. ASSUME NEW c \in Clients, SendKills(c) PROVE FreshInv'
    BY <1>32 DEF SendKills, ConsumerGoes, MainGoes
<1>33. ASSUME NEW c \in Clients, ConsumerLeaves(c) PROVE FreshInv'
    BY <1>33 DEF ConsumerLeaves, ConsumerGoes, MainGoes
<1>34. ASSUME NEW c \in Clients, ConsumerSemopFails(c) PROVE FreshInv'
    BY <1>34 DEF ConsumerSemopFails, ConsumerGoes, MainGoes
<1>35. ASSUME NEW c \in Clients, ConsumerGoesOn(c) PROVE FreshInv'
    BY <1>35 DEF ConsumerGoesOn, ConsumerGoes, MainGoes
<1>36. ASSUME NEW c \in Clients, HangUp(c) PROVE FreshInv'
    BY <1>36 DEF HangUp, ConsumerGoes, MainGoes
<1>37. ASSUME NEW c \in Clients, NEW r \in Requests, Receive(c, r) PROVE FreshInv'
    BY <1>37 DEF Receive, ReaderGoes
<1>38. CASE UNCHANGED vars
    BY <1>38 DEF vars
<1> QED
    BY <1>1, <1>2, <1>3, <1>4, <1>5, <1>6, <1>7, <1>8, <1>9, <1>10, <1>11,
       <1>12, <1>13, <1>14, <1>15, <1>16, <1>17, <1>18, <1>19, <1>20, <1>21,
       <1>22, <1>23, <1>24, <1>25, <1>26, <1>27, <1>28, <1>29, <1>30, <1>31,
       <1>32, <1>33, <1>34, <1>35, <1>36, <1>37, <1>38
       DEF Next, SetUpStep, ReaderStep, TimerStep, ConsumerStep

LEMMA StepMem == TypeInv /\ BackedInv /\ TraceInv /\ InsideInv /\ FreshInv /\ MemInv /\ [Next]_vars => MemInv'
<1> SUFFICES ASSUME TypeInv /\ BackedInv /\ TraceInv /\ InsideInv /\ FreshInv /\ MemInv, [Next]_vars PROVE MemInv'
    OBVIOUS
<1> USE ConstantsAssumption DEF TypeInv, TypeOK, PlaceInv, SettingUp, Attached, MemInv, tables, extrema, sem
<1>1. CASE AcceptFails
    BY <1>1, StillMem DEF AcceptFails
<1>2. ASSUME NEW c \in Clients, Accept(c) PROVE MemInv'
  <2>1. /\ UNCHANGED <<id, mem>>
        /\ \A d \in Clients : d # c => /\ main'[d] = main[d] /\ timer'[d] = timer[d]
                                       /\ reader'[d] = reader[d] /\ in'[d] = in[d]
                                       /\ out'[d] = out[d]
      BY <1>2 DEF Accept
  <2>2. trace' = trace
      BY <1>2 DEF Accept
  <2>3. MemAt(c)'
      BY <1>2, <2>1, SoloSame DEF Accept, MemAt, RecordAt, CopyAt, Agree, Computed, Bounded
  <2> QED BY <2>1, <2>2, <2>3, MemFrame
<1>3. ASSUME NEW c \in Clients, SetUpFails(c) PROVE MemInv'
  <2>1. /\ UNCHANGED <<id, mem>>
        /\ \A d \in Clients : d # c => /\ main'[d] = main[d] /\ timer'[d] = timer[d]
                                       /\ reader'[d] = reader[d] /\ in'[d] = in[d]
                                       /\ out'[d] = out[d]
      BY <1>3 DEF SetUpFails
  <2>2. trace' = trace
      BY <1>3 DEF SetUpFails
  <2>3. MemAt(c)'
      BY <1>3, <2>1, SoloSame DEF SetUpFails, MemAt, RecordAt, CopyAt, Agree, Computed, Bounded
  <2> QED BY <2>1, <2>2, <2>3, MemFrame
<1>4. ASSUME NEW c \in Clients, ClientLeaves(c) PROVE MemInv'
  <2>1. /\ UNCHANGED <<id, mem>>
        /\ \A d \in Clients : d # c => /\ main'[d] = main[d] /\ timer'[d] = timer[d]
                                       /\ reader'[d] = reader[d] /\ in'[d] = in[d]
                                       /\ out'[d] = out[d]
      BY <1>4 DEF ClientLeaves
  <2>2. trace' = trace
      BY <1>4 DEF ClientLeaves
  <2>3. MemAt(c)'
      BY <1>4, <2>1, SoloSame DEF ClientLeaves, MemAt, RecordAt, CopyAt, Agree, Computed, Bounded
  <2> QED BY <2>1, <2>2, <2>3, MemFrame
<1>5. ASSUME NEW c \in Clients, GetMemory(c) PROVE MemInv'
  <2>1. /\ UNCHANGED <<id, timer, reader, in, out, trace>>
        /\ \A d \in Clients : d # c => main'[d] = main[d]
        /\ id[c] = None
      BY <1>5 DEF GetMemory, MainGoes
  <2>2. \A i \in Ids : \/ mem'[i] = mem[i]
                       \/ (\A k \in Keys : segOf[k] # i) /\ mem'[i] = NewRecord
    <3>1. CASE segOf[key[c]] # None
      <4>1. mem' = mem
          BY <1>5, <3>1 DEF GetMemory
      <4> QED BY <4>1
    <3>2. CASE segOf[key[c]] = None
      <4>1. PICK j \in Ids : /\ \A k \in Keys : segOf[k] # j
                             /\ mem' = [mem EXCEPT ![j] = NewRecord]
          BY <1>5, <3>2 DEF GetMemory
      <4> QED BY <4>1
    <3> QED BY <3>1, <3>2
  <2>3. \A d \in Clients : d # c => MemAt(d)'
    <3> SUFFICES ASSUME NEW d \in Clients, d # c PROVE MemAt(d)'
        OBVIOUS
    <3>1. Solo(d) => \/ mem'[id[d]] = mem[id[d]]
                     \/ ~Attached(d) /\ mem'[id[d]] = NewRecord
        BY <2>2 DEF Solo, BackedInv
    <3> QED BY <2>1, <3>1, SoloSame, OthersRecord
  <2>4. ~Solo(c)'
      BY <2>1 DEF Solo
  <2> QED BY <2>3, <2>4 DEF MemAt
<1>6. ASSUME NEW c \in Clients, GetSemaphore(c) PROVE MemInv'
  <2>1. /\ UNCHANGED <<timer, reader, mem, in, out, trace>>
        /\ \A d \in Clients : d # c => main'[d] = main[d]
        /\ main[c] = "semget" /\ id[c] = None /\ key[c] \in Keys
        /\ reader[c] = "new"
      BY <1>6 DEF GetSemaphore, MainGoes
  <2>2. PICK j : id' = [id EXCEPT ![c] = j]
      BY <1>6 DEF GetSemaphore, MainGoes
  <2>3. \A d \in Clients : d # c => id'[d] = id[d] /\ (Solo(d)' => Solo(d))
      BY <2>1, <2>2 DEF Solo, Alone
  <2>4. \A d \in Clients : d # c => MemAt(d)'
      BY <2>1, <2>3, OthersRecord
  <2>5. Solo(c)' => mem'[id'[c]] = NewRecord
    <3>1. CASE semOf[SemKey(c)] # None
      <4>1. id'[c] = semOf[key[c]]
          BY <1>6, <3>1 DEF GetSemaphore, MainGoes, SemKey
      <4>2. PICK d \in Clients : id[d] = semOf[key[c]]
          BY <2>1, <3>1 DEF SemKey, FreshInv
      <4>3. d # c /\ id'[d] = id'[c]
          BY <2>1, <2>2, <3>1, <4>1, <4>2 DEF SemKey
      <4> QED BY <4>3 DEF Solo, Alone
    <3>2. CASE semOf[SemKey(c)] = None
      <4>1. id'[c] \in Ids \ given
          BY <1>6, <3>2 DEF GetSemaphore, MainGoes
      <4> QED BY <2>1, <4>1 DEF FreshInv
    <3> QED BY <3>1, <3>2
  <2>6. MemAt(c)'
      BY <2>1, <2>5 DEF MemAt
  <2> QED BY <2>4, <2>6
<1>7. ASSUME NEW c \in Clients, Attach(c) PROVE MemInv'
  <2>1. /\ UNCHANGED <<id, mem>>
        /\ \A d \in Clients : d # c => /\ main'[d] = main[d] /\ timer'[d] = timer[d]
                                       /\ reader'[d] = reader[d] /\ in'[d] = in[d]
                                       /\ out'[d] = out[d]
      BY <1>7 DEF Attach, MainGoes
  <2>2. trace' = trace
      BY <1>7 DEF Attach, MainGoes
  <2>3. MemAt(c)'
      BY <1>7, <2>1, SoloSame DEF Attach, MainGoes, MemAt, RecordAt, CopyAt, Agree, Computed, Bounded
  <2> QED BY <2>1, <2>2, <2>3, MemFrame
<1>8. ASSUME NEW c \in Clients, SetValue(c) PROVE MemInv'
  <2>1. /\ UNCHANGED <<id, mem>>
        /\ \A d \in Clients : d # c => /\ main'[d] = main[d] /\ timer'[d] = timer[d]
                                       /\ reader'[d] = reader[d] /\ in'[d] = in[d]
                                       /\ out'[d] = out[d]
      BY <1>8 DEF SetValue, MainGoes
  <2>2. trace' = trace
      BY <1>8 DEF SetValue, MainGoes
  <2>3. MemAt(c)'
      BY <1>8, <2>1, SoloSame DEF SetValue, MainGoes, MemAt, RecordAt, CopyAt, Agree, Computed, Bounded
  <2> QED BY <2>1, <2>2, <2>3, MemFrame
<1>9. ASSUME NEW c \in Clients, Start(c) PROVE MemInv'
  <2>1. /\ UNCHANGED id /\ (\A i \in Ids : i # id[c] => mem'[i] = mem[i])
        /\ \A d \in Clients : d # c => /\ main'[d] = main[d] /\ timer'[d] = timer[d]
                                       /\ reader'[d] = reader[d] /\ in'[d] = in[d]
                                       /\ out'[d] = out[d]
      BY <1>9 DEF Start, MainGoes, PutRequest
  <2>2. trace' = trace
      BY <1>9 DEF Start, MainGoes, PutRequest
  <2>3. /\ main[c] = "start" /\ main'[c] = "wait" /\ reader'[c] = "read" /\ id[c] \in Ids
        /\ mem'[id[c]] = Rec(Hash, mem[id[c]].back, mem[id[c]].result, mem[id[c]].min,
                             mem[id[c]].max)
      BY <1>9 DEF Start, MainGoes, PutRequest
  <2>4. RecordAt(c)' /\ CopyAt(c)'
      BY <2>1, <2>3 DEF RecordAt, CopyAt, Agree, Computed, Bounded, Rec, Hash
  <2>5. MemAt(c)'
      BY <2>3, <2>4 DEF MemAt
  <2> QED BY <2>1, <2>2, <2>5, MemFrame
<1>10. ASSUME NEW c \in Clients, ReceiveFails(c) PROVE MemInv'
  <2>1. /\ UNCHANGED <<id, mem>>
        /\ \A d \in Clients : d # c => /\ main'[d] = main[d] /\ timer'[d] = timer[d]
                                       /\ reader'[d] = reader[d] /\ in'[d] = in[d]
                                       /\ out'[d] = out[d]
      BY <1>10 DEF ReceiveFails, ReaderEnds
  <2>2. trace' = trace
      BY <1>10 DEF ReceiveFails, ReaderEnds
  <2>3. MemAt(c)'
      BY <1>10, <2>1, SoloSame DEF ReceiveFails, ReaderEnds, MemAt, RecordAt, CopyAt, Agree, Computed, Bounded
  <2> QED BY <2>1, <2>2, <2>3, MemFrame
<1>11. ASSUME NEW c \in Clients, EnterClient(c) PROVE MemInv'
  <2>1. /\ UNCHANGED <<id, mem>>
        /\ \A d \in Clients : d # c => /\ main'[d] = main[d] /\ timer'[d] = timer[d]
                                       /\ reader'[d] = reader[d] /\ in'[d] = in[d]
                                       /\ out'[d] = out[d]
      BY <1>11 DEF EnterClient, ReaderGoes
  <2>2. trace' = trace
      BY <1>11 DEF EnterClient, ReaderGoes
  <2>3. MemAt(c)'
      BY <1>11, <2>1, SoloSame DEF EnterClient, ReaderGoes, MemAt, RecordAt, CopyAt, Agree, Computed, Bounded
  <2> QED BY <2>1, <2>2, <2>3, MemFrame
<1>12. ASSUME NEW c \in Clients, EnterGlobal(c) PROVE MemInv'
  <2>1. /\ UNCHANGED <<id, mem>>
        /\ \A d \in Clients : d # c => /\ main'[d] = main[d] /\ timer'[d] = timer[d]
                                       /\ reader'[d] = reader[d] /\ in'[d] = in[d]
                                       /\ out'[d] = out[d]
      BY <1>12 DEF EnterGlobal, ReaderGoes
  <2>2. trace' = trace
      BY <1>12 DEF EnterGlobal, ReaderGoes
  <2>3. MemAt(c)'
      BY <1>12, <2>1, SoloSame DEF EnterGlobal, ReaderGoes, MemAt, RecordAt, CopyAt, Agree, Computed, Bounded
  <2> QED BY <2>1, <2>2, <2>3, MemFrame
<1>13. ASSUME NEW c \in Clients, ReaderSemopFails(c) PROVE MemInv'
  <2>1. /\ UNCHANGED <<id, mem>>
        /\ \A d \in Clients : d # c => /\ main'[d] = main[d] /\ timer'[d] = timer[d]
                                       /\ reader'[d] = reader[d] /\ in'[d] = in[d]
                                       /\ out'[d] = out[d]
      BY <1>13 DEF ReaderSemopFails, ReaderEnds
  <2>2. trace' = trace
      BY <1>13 DEF ReaderSemopFails, ReaderEnds
  <2>3. MemAt(c)'
      BY <1>13, <2>1, SoloSame DEF ReaderSemopFails, ReaderEnds, MemAt, RecordAt, CopyAt, Agree, Computed, Bounded
  <2> QED BY <2>1, <2>2, <2>3, MemFrame
<1>14. ASSUME NEW c \in Clients, WriteFront(c) PROVE MemInv'
  <2>1. /\ UNCHANGED id /\ (\A i \in Ids : i # id[c] => mem'[i] = mem[i])
        /\ \A d \in Clients : d # c => /\ main'[d] = main[d] /\ timer'[d] = timer[d]
                                       /\ reader'[d] = reader[d] /\ in'[d] = in[d]
                                       /\ out'[d] = out[d]
      BY <1>14 DEF WriteFront, ReaderGoes, PutRequest
  <2>2. trace' = trace
      BY <1>14 DEF WriteFront, ReaderGoes
  <2>3. ReaderInside(c) /\ id[c] \in Ids /\ main' = main
      BY <1>14 DEF WriteFront, ReaderGoes, ReaderInside
  <2>4. ASSUME Solo(c) PROVE RecordAt(c)' /\ CopyAt(c)' /\ main[c] \notin SettingUp
    <3>1. main[c] \notin SettingUp /\ ~MainInside(c) /\ RecordAt(c)
        BY <2>3, <2>4, ReaderAlone
    <3>2. mem'[id[c]].front = in[c]
        BY <1>14, <2>3 DEF WriteFront, ReaderGoes, PutRequest, Rec
    <3>3. reader'[c] = "back" /\ in' = in
        BY <1>14 DEF WriteFront, ReaderGoes
    <3>4. RecordAt(c)'
        BY <2>1, <2>2, <3>1, <3>2, <3>3 DEF RecordAt, Agree, Computed, Bounded, Rec
    <3> QED BY <2>3, <3>1, <3>4 DEF CopyAt, MainInside
  <2>5. MemAt(c)'
      BY <2>1, <2>3, <2>4, SoloSame DEF MemAt
  <2> QED BY <2>1, <2>2, <2>5, MemFrame
<1>15. ASSUME NEW c \in Clients, WriteBack(c) PROVE MemInv'
  <2>1. /\ UNCHANGED id /\ (\A i \in Ids : i # id[c] => mem'[i] = mem[i])
        /\ \A d \in Clients : d # c => /\ main'[d] = main[d] /\ timer'[d] = timer[d]
                                       /\ reader'[d] = reader[d] /\ in'[d] = in[d]
                                       /\ out'[d] = out[d]
      BY <1>15 DEF WriteBack, ReaderGoes, PutRequest
  <2>2. trace' = trace
      BY <1>15 DEF WriteBack, ReaderGoes
  <2>3. ReaderInside(c) /\ id[c] \in Ids /\ main' = main
      BY <1>15 DEF WriteBack, ReaderGoes, ReaderInside
  <2>4. ASSUME Solo(c) PROVE RecordAt(c)' /\ CopyAt(c)' /\ main[c] \notin SettingUp
    <3>1. main[c] \notin SettingUp /\ ~MainInside(c) /\ RecordAt(c)
        BY <2>3, <2>4, ReaderAlone
    <3>2. /\ mem'[id[c]].front = mem[id[c]].front /\ mem'[id[c]].back = in[c]
          /\ mem'[id[c]].result = mem[id[c]].result
        BY <1>15, <2>3 DEF WriteBack, ReaderGoes, PutRequest, Rec
    <3>3. /\ reader[c] = "back" /\ in'[c] = mem[id[c]].front
          /\ reader'[c] = IF mem[id[c]].front.op = "idle" THEN "leaveG" ELSE "compute"
        BY <1>15 DEF WriteBack, ReaderGoes
    <3>4. RecordAt(c)'
        BY <2>1, <2>2, <3>1, <3>2, <3>3 DEF RecordAt, Agree, Computed, Bounded, Rec
    <3> QED BY <2>3, <3>1, <3>4 DEF CopyAt, MainInside
  <2>5. MemAt(c)'
      BY <2>1, <2>3, <2>4, SoloSame DEF MemAt
  <2> QED BY <2>1, <2>2, <2>5, MemFrame
<1>16. ASSUME NEW c \in Clients, Compute(c) PROVE MemInv'
  <2>1. /\ UNCHANGED id /\ (\A i \in Ids : i # id[c] => mem'[i] = mem[i])
        /\ \A d \in Clients : d # c => /\ main'[d] = main[d] /\ timer'[d] = timer[d]
                                       /\ reader'[d] = reader[d] /\ in'[d] = in[d]
                                       /\ out'[d] = out[d]
      BY <1>16 DEF Compute, ReaderGoes, PutNumbers
  <2>2. trace' = trace
      BY <1>16 DEF Compute, ReaderGoes
  <2>3. ReaderInside(c) /\ id[c] \in Ids /\ main' = main
      BY <1>16 DEF Compute, ReaderGoes, ReaderInside
  <2>4. ASSUME Solo(c) PROVE RecordAt(c)' /\ CopyAt(c)' /\ main[c] \notin SettingUp
    <3>1. main[c] \notin SettingUp /\ ~MainInside(c) /\ RecordAt(c)
        BY <2>3, <2>4, ReaderAlone
    <3>2. /\ mem'[id[c]].front = mem[id[c]].front /\ mem'[id[c]].back = mem[id[c]].back
          /\ mem'[id[c]].result = IF in[c].op = "calc" THEN in[c].value ELSE mem[id[c]].result
        BY <1>16, <2>3 DEF Compute, ReaderGoes, PutNumbers, Rec
    <3>3. reader[c] = "compute" /\ reader'[c] = "first" /\ in' = in
        BY <1>16 DEF Compute, ReaderGoes
    <3>4. RecordAt(c)'
        BY <2>1, <2>2, <3>1, <3>2, <3>3 DEF RecordAt, Agree, Computed, Bounded, Rec
    <3> QED BY <2>3, <3>1, <3>4 DEF CopyAt, MainInside
  <2>5. MemAt(c)'
      BY <2>1, <2>3, <2>4, SoloSame DEF MemAt
  <2> QED BY <2>1, <2>2, <2>5, MemFrame
<1>17. ASSUME NEW c \in Clients, ComputeTraps(c) PROVE MemInv'
  <2>1. /\ UNCHANGED <<id, mem>>
        /\ \A d \in Clients : d # c => /\ main'[d] = main[d] /\ timer'[d] = timer[d]
                                       /\ reader'[d] = reader[d] /\ in'[d] = in[d]
                                       /\ out'[d] = out[d]
      BY <1>17 DEF ComputeTraps, ReaderEnds
  <2>2. trace' = trace
      BY <1>17 DEF ComputeTraps, ReaderEnds
  <2>3. MemAt(c)'
      BY <1>17, <2>1, SoloSame DEF ComputeTraps, ReaderEnds, MemAt, RecordAt, CopyAt, Agree, Computed, Bounded
  <2> QED BY <2>1, <2>2, <2>3, MemFrame
<1>18. ASSUME NEW c \in Clients, UpdateFirst(c) PROVE MemInv'
  <2>1. /\ UNCHANGED <<id, mem>>
        /\ \A d \in Clients : d # c => /\ main'[d] = main[d] /\ timer'[d] = timer[d]
                                       /\ reader'[d] = reader[d] /\ in'[d] = in[d]
                                       /\ out'[d] = out[d]
      BY <1>18 DEF UpdateFirst, Result, ReaderGoes
  <2>2. \A d \in Clients : d # c => reader[d] # "share"
      BY <1>18 DEF UpdateFirst, Result, ReaderGoes, OneAtTheExtrema, GlobalInside, GlobalInv
  <2>3. MemAt(c)'
      BY <1>18, <2>1, SoloSame DEF UpdateFirst, Result, ReaderGoes, MemAt, RecordAt, CopyAt, Agree, Computed, Bounded
  <2> QED BY <2>1, <2>2, <2>3, MemFrame
<1>19. ASSUME NEW c \in Clients, UpdateMin(c) PROVE MemInv'
  <2>1. /\ UNCHANGED <<id, mem>>
        /\ \A d \in Clients : d # c => /\ main'[d] = main[d] /\ timer'[d] = timer[d]
                                       /\ reader'[d] = reader[d] /\ in'[d] = in[d]
                                       /\ out'[d] = out[d]
      BY <1>19 DEF UpdateMin, ReaderGoes
  <2>2. \A d \in Clients : d # c => reader[d] # "share"
      BY <1>19 DEF UpdateMin, ReaderGoes, OneAtTheExtrema, GlobalInside, GlobalInv
  <2>3. ReaderInside(c) /\ id[c] \in Ids /\ UNCHANGED <<main, in>> /\ reader'[c] = "share"
      BY <1>19 DEF UpdateMin, ReaderGoes, ReaderInside
  <2>4. trace'.min = Result(c) /\ trace'.max = trace.max
      BY <1>19 DEF UpdateMin
  <2>5. FirstStored(c) /\ Result(c) \in Int /\ trace.min \in Int /\ trace.max \in Int
      BY <1>19, <2>3, RecordTypes, ContentTypes DEF UpdateMin, ReaderGoes, TraceInv, Result
  <2>6. trace'.min <= mem[id[c]].result /\ mem[id[c]].result <= trace'.max
      BY <2>4, <2>5, ContentTypes DEF FirstStored, Result
  <2>7. ASSUME Solo(c) PROVE RecordAt(c)' /\ CopyAt(c)' /\ main[c] \notin SettingUp
    <3>1. main[c] \notin SettingUp /\ ~MainInside(c) /\ RecordAt(c)
        BY <2>3, <2>7, ReaderAlone
    <3>2. reader[c] = "min"
        BY <1>19 DEF UpdateMin, ReaderGoes
    <3>3. RecordAt(c)'
        BY <2>1, <2>3, <2>6, <3>1, <3>2 DEF RecordAt, Computed
    <3> QED BY <2>3, <3>1, <3>3 DEF CopyAt, MainInside
  <2>8. MemAt(c)'
      BY <2>1, <2>3, <2>7, SoloSame DEF MemAt
  <2> QED BY <2>1, <2>2, <2>8, MemFrame
<1>20. ASSUME NEW c \in Clients, UpdateMax(c) PROVE MemInv'
  <2>1. /\ UNCHANGED <<id, mem>>
        /\ \A d \in Clients : d # c => /\ main'[d] = main[d] /\ timer'[d] = timer[d]
                                       /\ reader'[d] = reader[d] /\ in'[d] = in[d]
                                       /\ out'[d] = out[d]
      BY <1>20 DEF UpdateMax, ReaderGoes
  <2>2. \A d \in Clients : d # c => reader[d] # "share"
      BY <1>20 DEF UpdateMax, ReaderGoes, OneAtTheExtrema, GlobalInside, GlobalInv
  <2>3. ReaderInside(c) /\ id[c] \in Ids /\ UNCHANGED <<main, in>> /\ reader'[c] = "share"
      BY <1>20 DEF UpdateMax, ReaderGoes, ReaderInside
  <2>4. /\ trace'.min = trace.min
        /\ trace'.max = IF Result(c) > trace.max THEN Result(c) ELSE trace.max
      BY <1>20 DEF UpdateMax
  <2>5. LowStored(c) /\ Result(c) \in Int /\ trace.min \in Int /\ trace.max \in Int
      BY <1>20, <2>3, RecordTypes, ContentTypes DEF UpdateMax, ReaderGoes, TraceInv, Result
  <2>6. trace'.min <= mem[id[c]].result /\ mem[id[c]].result <= trace'.max
      BY <2>4, <2>5, ContentTypes DEF LowStored, Result
  <2>7. ASSUME Solo(c) PROVE RecordAt(c)' /\ CopyAt(c)' /\ main[c] \notin SettingUp
    <3>1. main[c] \notin SettingUp /\ ~MainInside(c) /\ RecordAt(c)
        BY <2>3, <2>7, ReaderAlone
    <3>2. reader[c] = "max"
        BY <1>20 DEF UpdateMax, ReaderGoes
    <3>3. RecordAt(c)'
        BY <2>1, <2>3, <2>6, <3>1, <3>2 DEF RecordAt, Computed
    <3> QED BY <2>3, <3>1, <3>3 DEF CopyAt, MainInside
  <2>8. MemAt(c)'
      BY <2>1, <2>3, <2>7, SoloSame DEF MemAt
  <2> QED BY <2>1, <2>2, <2>8, MemFrame
<1>21. ASSUME NEW c \in Clients, Share(c) PROVE MemInv'
  <2>1. /\ UNCHANGED id /\ (\A i \in Ids : i # id[c] => mem'[i] = mem[i])
        /\ \A d \in Clients : d # c => /\ main'[d] = main[d] /\ timer'[d] = timer[d]
                                       /\ reader'[d] = reader[d] /\ in'[d] = in[d]
                                       /\ out'[d] = out[d]
      BY <1>21 DEF Share, ReaderGoes, PutNumbers
  <2>2. trace' = trace
      BY <1>21 DEF Share, ReaderGoes
  <2>3. ReaderInside(c) /\ id[c] \in Ids /\ main' = main
      BY <1>21 DEF Share, ReaderGoes, ReaderInside
  <2>4. ASSUME Solo(c) PROVE RecordAt(c)' /\ CopyAt(c)' /\ main[c] \notin SettingUp
    <3>1. main[c] \notin SettingUp /\ ~MainInside(c) /\ RecordAt(c)
        BY <2>3, <2>4, ReaderAlone
    <3>2. /\ mem'[id[c]].front = mem[id[c]].front /\ mem'[id[c]].back = mem[id[c]].back
          /\ mem'[id[c]].result = mem[id[c]].result
          /\ mem'[id[c]].min = trace.min /\ mem'[id[c]].max = trace.max
        BY <1>21, <2>3 DEF Share, ReaderGoes, PutNumbers, Result, Rec
    <3>3. reader[c] = "share" /\ reader'[c] = "leaveG" /\ in' = in
        BY <1>21 DEF Share, ReaderGoes
    <3>4. RecordAt(c)'
        BY <2>1, <2>2, <3>1, <3>2, <3>3 DEF RecordAt, Agree, Computed, Bounded, Rec
    <3> QED BY <2>3, <3>1, <3>4 DEF CopyAt, MainInside
  <2>5. MemAt(c)'
      BY <2>1, <2>3, <2>4, SoloSame DEF MemAt
  <2> QED BY <2>1, <2>2, <2>5, MemFrame
<1>22. ASSUME NEW c \in Clients, LeaveGlobal(c) PROVE MemInv'
  <2>1. /\ UNCHANGED <<id, mem>>
        /\ \A d \in Clients : d # c => /\ main'[d] = main[d] /\ timer'[d] = timer[d]
                                       /\ reader'[d] = reader[d] /\ in'[d] = in[d]
                                       /\ out'[d] = out[d]
      BY <1>22 DEF LeaveGlobal, ReaderGoes
  <2>2. trace' = trace
      BY <1>22 DEF LeaveGlobal, ReaderGoes
  <2>3. MemAt(c)'
      BY <1>22, <2>1, SoloSame DEF LeaveGlobal, ReaderGoes, MemAt, RecordAt, CopyAt, Agree, Computed, Bounded
  <2> QED BY <2>1, <2>2, <2>3, MemFrame
<1>23. ASSUME NEW c \in Clients, LeaveClient(c) PROVE MemInv'
  <2>1. /\ UNCHANGED <<id, mem>>
        /\ \A d \in Clients : d # c => /\ main'[d] = main[d] /\ timer'[d] = timer[d]
                                       /\ reader'[d] = reader[d] /\ in'[d] = in[d]
                                       /\ out'[d] = out[d]
      BY <1>23 DEF LeaveClient, ReaderGoes
  <2>2. trace' = trace
      BY <1>23 DEF LeaveClient, ReaderGoes
  <2>3. MemAt(c)'
      BY <1>23, <2>1, SoloSame DEF LeaveClient, ReaderGoes, MemAt, RecordAt, CopyAt, Agree, Computed, Bounded
  <2> QED BY <2>1, <2>2, <2>3, MemFrame
<1>24. ASSUME NEW c \in Clients, ReaderChecks(c) PROVE MemInv'
  <2>1. /\ UNCHANGED <<id, mem>>
        /\ \A d \in Clients : d # c => /\ main'[d] = main[d] /\ timer'[d] = timer[d]
                                       /\ reader'[d] = reader[d] /\ in'[d] = in[d]
                                       /\ out'[d] = out[d]
      BY <1>24 DEF ReaderChecks, ReaderGoes
  <2>2. trace' = trace
      BY <1>24 DEF ReaderChecks, ReaderGoes
  <2>3. MemAt(c)'
      BY <1>24, <2>1, SoloSame DEF ReaderChecks, ReaderGoes, MemAt, RecordAt, CopyAt, Agree, Computed, Bounded
  <2> QED BY <2>1, <2>2, <2>3, MemFrame
<1>25. ASSUME NEW c \in Clients, TimerEnters(c) PROVE MemInv'
  <2>1. /\ UNCHANGED <<id, mem>>
        /\ \A d \in Clients : d # c => /\ main'[d] = main[d] /\ timer'[d] = timer[d]
                                       /\ reader'[d] = reader[d] /\ in'[d] = in[d]
                                       /\ out'[d] = out[d]
      BY <1>25 DEF TimerEnters, TimerGoes
  <2>2. trace' = trace
      BY <1>25 DEF TimerEnters, TimerGoes
  <2>3. MemAt(c)'
      BY <1>25, <2>1, SoloSame DEF TimerEnters, TimerGoes, MemAt, RecordAt, CopyAt, Agree, Computed, Bounded
  <2> QED BY <2>1, <2>2, <2>3, MemFrame
<1>26. ASSUME NEW c \in Clients, TimerLeaves(c) PROVE MemInv'
  <2>1. /\ UNCHANGED <<id, mem>>
        /\ \A d \in Clients : d # c => /\ main'[d] = main[d] /\ timer'[d] = timer[d]
                                       /\ reader'[d] = reader[d] /\ in'[d] = in[d]
                                       /\ out'[d] = out[d]
      BY <1>26 DEF TimerLeaves, TimerGoes
  <2>2. trace' = trace
      BY <1>26 DEF TimerLeaves, TimerGoes
  <2>3. MemAt(c)'
      BY <1>26, <2>1, SoloSame DEF TimerLeaves, TimerGoes, MemAt, RecordAt, CopyAt, Agree, Computed, Bounded
  <2> QED BY <2>1, <2>2, <2>3, MemFrame
<1>27. ASSUME NEW c \in Clients, TimerSemopFails(c) PROVE MemInv'
  <2>1. /\ UNCHANGED <<id, mem>>
        /\ \A d \in Clients : d # c => /\ main'[d] = main[d] /\ timer'[d] = timer[d]
                                       /\ reader'[d] = reader[d] /\ in'[d] = in[d]
                                       /\ out'[d] = out[d]
      BY <1>27 DEF TimerSemopFails, TimerGoes
  <2>2. trace' = trace
      BY <1>27 DEF TimerSemopFails, TimerGoes
  <2>3. MemAt(c)'
      BY <1>27, <2>1, SoloSame DEF TimerSemopFails, TimerGoes, MemAt, RecordAt, CopyAt, Agree, Computed, Bounded
  <2> QED BY <2>1, <2>2, <2>3, MemFrame
<1>28. ASSUME NEW c \in Clients, TimerChecks(c) PROVE MemInv'
  <2>1. /\ UNCHANGED <<id, mem>>
        /\ \A d \in Clients : d # c => /\ main'[d] = main[d] /\ timer'[d] = timer[d]
                                       /\ reader'[d] = reader[d] /\ in'[d] = in[d]
                                       /\ out'[d] = out[d]
      BY <1>28 DEF TimerChecks, TimerGoes
  <2>2. trace' = trace
      BY <1>28 DEF TimerChecks, TimerGoes
  <2>3. MemAt(c)'
      BY <1>28, <2>1, SoloSame DEF TimerChecks, TimerGoes, MemAt, RecordAt, CopyAt, Agree, Computed, Bounded
  <2> QED BY <2>1, <2>2, <2>3, MemFrame
<1>29. ASSUME NEW c \in Clients, ConsumerEnters(c) PROVE MemInv'
  <2>1. /\ UNCHANGED <<id, mem>>
        /\ \A d \in Clients : d # c => /\ main'[d] = main[d] /\ timer'[d] = timer[d]
                                       /\ reader'[d] = reader[d] /\ in'[d] = in[d]
                                       /\ out'[d] = out[d]
      BY <1>29 DEF ConsumerEnters, ConsumerGoes, MainGoes
  <2>2. trace' = trace
      BY <1>29 DEF ConsumerEnters, ConsumerGoes, MainGoes
  <2>3. MemAt(c)'
      BY <1>29, <2>1, SoloSame DEF ConsumerEnters, ConsumerGoes, MainGoes, MemAt, RecordAt, CopyAt, Agree, Computed, Bounded
  <2> QED BY <2>1, <2>2, <2>3, MemFrame
<1>30. ASSUME NEW c \in Clients, CopyNumbers(c) PROVE MemInv'
  <2>1. /\ UNCHANGED <<id, mem, reader, in>>
        /\ \A d \in Clients : d # c => /\ main'[d] = main[d] /\ timer'[d] = timer[d]
                                       /\ reader'[d] = reader[d] /\ in'[d] = in[d]
                                       /\ out'[d] = out[d]
      BY <1>30 DEF CopyNumbers, ConsumerGoes, MainGoes
  <2>2. trace' = trace
      BY <1>30 DEF CopyNumbers, ConsumerGoes, MainGoes
  <2>3. /\ out'[c].front = mem[id[c]].front /\ out'[c].result = mem[id[c]].result
        /\ out'[c].min = mem[id[c]].min /\ out'[c].max = mem[id[c]].max
        /\ main[c] = "copy" /\ main'[c] = "send"
      BY <1>30 DEF CopyNumbers, ConsumerGoes, MainGoes, Rec
  <2>4. ASSUME Solo(c) PROVE RecordAt(c)' /\ CopyAt(c)'
    <3>1. RecordAt(c) /\ CopyAt(c)
        BY <2>3, <2>4, ConsumerAlone DEF MainInside
    <3>2. RecordAt(c)'
        BY <2>1, <2>2, <3>1 DEF RecordAt, Agree, Computed, Bounded
    <3> QED BY <2>1, <2>3, <3>1, <3>2 DEF CopyAt
  <2>5. MemAt(c)'
      BY <2>1, <2>3, <2>4, SoloSame DEF MemAt
  <2> QED BY <2>1, <2>2, <2>5, MemFrame
<1>31. ASSUME NEW c \in Clients, CopyTextAndSend(c) PROVE MemInv'
  <2>1. /\ UNCHANGED <<id, mem, reader, in>>
        /\ \A d \in Clients : d # c => /\ main'[d] = main[d] /\ timer'[d] = timer[d]
                                       /\ reader'[d] = reader[d] /\ in'[d] = in[d]
                                       /\ out'[d] = out[d]
      BY <1>31 DEF CopyTextAndSend, ConsumerGoes, MainGoes
  <2>2. trace' = trace
      BY <1>31 DEF CopyTextAndSend, ConsumerGoes, MainGoes
  <2>3. /\ out'[c].front = out[c].front /\ out'[c].result = out[c].result
        /\ out'[c].min = out[c].min /\ out'[c].max = out[c].max
        /\ out'[c].back = mem[id[c]].back
        /\ main[c] = "send" /\ main'[c] = "leave"
      BY <1>31 DEF CopyTextAndSend, ConsumerGoes, MainGoes, Rec
  <2>4. ASSUME Solo(c) PROVE RecordAt(c)' /\ CopyAt(c)'
    <3>1. RecordAt(c) /\ CopyAt(c)
        BY <2>3, <2>4, ConsumerAlone DEF MainInside
    <3>2. RecordAt(c)'
        BY <2>1, <2>2, <3>1 DEF RecordAt, Agree, Computed, Bounded
    <3> QED BY <2>1, <2>3, <3>1, <3>2 DEF CopyAt
  <2>5. MemAt(c)'
      BY <2>1, <2>3, <2>4, SoloSame DEF MemAt
  <2> QED BY <2>1, <2>2, <2>5, MemFrame
<1>32. ASSUME NEW c \in Clients, SendKills(c) PROVE MemInv'
  <2>1. /\ UNCHANGED <<id, mem>>
        /\ \A d \in Clients : d # c => /\ main'[d] = main[d] /\ timer'[d] = timer[d]
                                       /\ reader'[d] = reader[d] /\ in'[d] = in[d]
                                       /\ out'[d] = out[d]
      BY <1>32 DEF SendKills, ConsumerGoes, MainGoes
  <2>2. trace' = trace
      BY <1>32 DEF SendKills, ConsumerGoes, MainGoes
  <2>3. MemAt(c)'
      BY <1>32, <2>1, SoloSame DEF SendKills, ConsumerGoes, MainGoes, MemAt, RecordAt, CopyAt, Agree, Computed, Bounded
  <2> QED BY <2>1, <2>2, <2>3, MemFrame
<1>33. ASSUME NEW c \in Clients, ConsumerLeaves(c) PROVE MemInv'
  <2>1. /\ UNCHANGED <<id, mem>>
        /\ \A d \in Clients : d # c => /\ main'[d] = main[d] /\ timer'[d] = timer[d]
                                       /\ reader'[d] = reader[d] /\ in'[d] = in[d]
                                       /\ out'[d] = out[d]
      BY <1>33 DEF ConsumerLeaves, ConsumerGoes, MainGoes
  <2>2. trace' = trace
      BY <1>33 DEF ConsumerLeaves, ConsumerGoes, MainGoes
  <2>3. MemAt(c)'
      BY <1>33, <2>1, SoloSame DEF ConsumerLeaves, ConsumerGoes, MainGoes, MemAt, RecordAt, CopyAt, Agree, Computed, Bounded
  <2> QED BY <2>1, <2>2, <2>3, MemFrame
<1>34. ASSUME NEW c \in Clients, ConsumerSemopFails(c) PROVE MemInv'
  <2>1. /\ UNCHANGED <<id, mem>>
        /\ \A d \in Clients : d # c => /\ main'[d] = main[d] /\ timer'[d] = timer[d]
                                       /\ reader'[d] = reader[d] /\ in'[d] = in[d]
                                       /\ out'[d] = out[d]
      BY <1>34 DEF ConsumerSemopFails, ConsumerGoes, MainGoes
  <2>2. trace' = trace
      BY <1>34 DEF ConsumerSemopFails, ConsumerGoes, MainGoes
  <2>3. MemAt(c)'
      BY <1>34, <2>1, SoloSame DEF ConsumerSemopFails, ConsumerGoes, MainGoes, MemAt, RecordAt, CopyAt, Agree, Computed, Bounded
  <2> QED BY <2>1, <2>2, <2>3, MemFrame
<1>35. ASSUME NEW c \in Clients, ConsumerGoesOn(c) PROVE MemInv'
  <2>1. /\ UNCHANGED <<id, mem>>
        /\ \A d \in Clients : d # c => /\ main'[d] = main[d] /\ timer'[d] = timer[d]
                                       /\ reader'[d] = reader[d] /\ in'[d] = in[d]
                                       /\ out'[d] = out[d]
      BY <1>35 DEF ConsumerGoesOn, ConsumerGoes, MainGoes
  <2>2. trace' = trace
      BY <1>35 DEF ConsumerGoesOn, ConsumerGoes, MainGoes
  <2>3. MemAt(c)'
      BY <1>35, <2>1, SoloSame DEF ConsumerGoesOn, ConsumerGoes, MainGoes, MemAt, RecordAt, CopyAt, Agree, Computed, Bounded
  <2> QED BY <2>1, <2>2, <2>3, MemFrame
<1>36. ASSUME NEW c \in Clients, HangUp(c) PROVE MemInv'
  <2>1. /\ UNCHANGED <<id, mem>>
        /\ \A d \in Clients : d # c => /\ main'[d] = main[d] /\ timer'[d] = timer[d]
                                       /\ reader'[d] = reader[d] /\ in'[d] = in[d]
                                       /\ out'[d] = out[d]
      BY <1>36 DEF HangUp, ConsumerGoes, MainGoes
  <2>2. trace' = trace
      BY <1>36 DEF HangUp, ConsumerGoes, MainGoes
  <2>3. MemAt(c)'
      BY <1>36, <2>1, SoloSame DEF HangUp, ConsumerGoes, MainGoes, MemAt, RecordAt, CopyAt, Agree, Computed, Bounded
  <2> QED BY <2>1, <2>2, <2>3, MemFrame
<1>37. ASSUME NEW c \in Clients, NEW r \in Requests, Receive(c, r) PROVE MemInv'
  <2>1. /\ UNCHANGED <<id, mem>>
        /\ \A d \in Clients : d # c => /\ main'[d] = main[d] /\ timer'[d] = timer[d]
                                       /\ reader'[d] = reader[d] /\ in'[d] = in[d]
                                       /\ out'[d] = out[d]
      BY <1>37 DEF Receive, ReaderGoes
  <2>2. trace' = trace
      BY <1>37 DEF Receive, ReaderGoes
  <2>3. MemAt(c)'
      BY <1>37, <2>1, SoloSame DEF Receive, ReaderGoes, MemAt, RecordAt, CopyAt, Agree, Computed, Bounded
  <2> QED BY <2>1, <2>2, <2>3, MemFrame
<1>38. CASE UNCHANGED vars
    BY <1>38, StillMem DEF vars
<1> QED
    BY <1>1, <1>2, <1>3, <1>4, <1>5, <1>6, <1>7, <1>8, <1>9, <1>10, <1>11,
       <1>12, <1>13, <1>14, <1>15, <1>16, <1>17, <1>18, <1>19, <1>20, <1>21,
       <1>22, <1>23, <1>24, <1>25, <1>26, <1>27, <1>28, <1>29, <1>30, <1>31,
       <1>32, <1>33, <1>34, <1>35, <1>36, <1>37, <1>38
       DEF Next, SetUpStep, ReaderStep, TimerStep, ConsumerStep

(* The invariant that is inductive.                                        *)
Together ==
  TypeInv /\ SeparateInv /\ BackedInv /\ TraceInv /\ InsideInv /\ FreshInv /\ MemInv

LEMMA RecordInvariant == Spec => []Together
<1>1. Init => Together
  <2>1. Init => SeparateInv /\ BackedInv /\ TraceInv /\ InsideInv /\ FreshInv
      BY DEF Init, SeparateInv, BackedInv, Attached, TraceInv, ExtremaExact, Extrema!Extremal,
             InsideInv, InsideAt, SettingUp, FreshInv
  <2>2. Init => MemInv
      BY ConstantsAssumption DEF Init, MemInv, MemAt, Solo
  <2> QED BY Initially, <2>1, <2>2 DEF Together
<1>2. Together /\ [Next]_vars => Together'
  <2>1. TypeInv /\ [Next]_vars => TypeInv'
      BY StepTypeOK, StepAdjust, StepPlace, StepGlobal DEF TypeInv
  <2>2. TypeInv /\ BackedInv /\ TraceInv /\ [Next]_vars => TraceInv'
      BY StepKeeps, KeptTrace, FirstTrace, SecondTrace
  <2> QED
      BY <2>1, <2>2, StepSeparate, StepBacked, StepInside, StepFresh, StepMem DEF Together
<1> QED
    BY <1>1, <1>2, PTL DEF Spec

(* Of a process that is looking at the record only HangUp makes an end.    *)
LEMMA LeavesCheck ==
  ASSUME TypeInv, [Next]_vars, NEW d \in Clients, main[d] = "check", main'[d] = "ended"
  PROVE  IsQuit(mem[id[d]])
<1> USE DEF TypeInv, TypeOK, tables
<1>1. CASE AcceptFails
    BY <1>1 DEF AcceptFails
<1>2. ASSUME NEW c \in Clients, Accept(c) PROVE IsQuit(mem[id[d]])
    BY <1>2 DEF Accept
<1>3. ASSUME NEW c \in Clients, SetUpFails(c) PROVE IsQuit(mem[id[d]])
    BY <1>3 DEF SetUpFails
<1>4. ASSUME NEW c \in Clients, ClientLeaves(c) PROVE IsQuit(mem[id[d]])
    BY <1>4 DEF ClientLeaves
<1>5. ASSUME NEW c \in Clients, GetMemory(c) PROVE IsQuit(mem[id[d]])
    BY <1>5 DEF GetMemory, MainGoes
<1>6. ASSUME NEW c \in Clients, GetSemaphore(c) PROVE IsQuit(mem[id[d]])
    BY <1>6 DEF GetSemaphore, MainGoes
<1>7. ASSUME NEW c \in Clients, Attach(c) PROVE IsQuit(mem[id[d]])
    BY <1>7 DEF Attach, MainGoes
<1>8. ASSUME NEW c \in Clients, SetValue(c) PROVE IsQuit(mem[id[d]])
    BY <1>8 DEF SetValue, MainGoes
<1>9. ASSUME NEW c \in Clients, Start(c) PROVE IsQuit(mem[id[d]])
    BY <1>9 DEF Start, MainGoes
<1>10. ASSUME NEW c \in Clients, ReceiveFails(c) PROVE IsQuit(mem[id[d]])
    BY <1>10 DEF ReceiveFails, ReaderEnds
<1>11. ASSUME NEW c \in Clients, EnterClient(c) PROVE IsQuit(mem[id[d]])
    BY <1>11 DEF EnterClient, ReaderGoes
<1>12. ASSUME NEW c \in Clients, EnterGlobal(c) PROVE IsQuit(mem[id[d]])
    BY <1>12 DEF EnterGlobal, ReaderGoes
<1>13. ASSUME NEW c \in Clients, ReaderSemopFails(c) PROVE IsQuit(mem[id[d]])
    BY <1>13 DEF ReaderSemopFails, ReaderEnds
<1>14. ASSUME NEW c \in Clients, WriteFront(c) PROVE IsQuit(mem[id[d]])
    BY <1>14 DEF WriteFront, ReaderGoes
<1>15. ASSUME NEW c \in Clients, WriteBack(c) PROVE IsQuit(mem[id[d]])
    BY <1>15 DEF WriteBack, ReaderGoes
<1>16. ASSUME NEW c \in Clients, Compute(c) PROVE IsQuit(mem[id[d]])
    BY <1>16 DEF Compute, ReaderGoes
<1>17. ASSUME NEW c \in Clients, ComputeTraps(c) PROVE IsQuit(mem[id[d]])
    BY <1>17 DEF ComputeTraps, ReaderEnds
<1>18. ASSUME NEW c \in Clients, UpdateFirst(c) PROVE IsQuit(mem[id[d]])
    BY <1>18 DEF UpdateFirst, ReaderGoes
<1>19. ASSUME NEW c \in Clients, UpdateMin(c) PROVE IsQuit(mem[id[d]])
    BY <1>19 DEF UpdateMin, ReaderGoes
<1>20. ASSUME NEW c \in Clients, UpdateMax(c) PROVE IsQuit(mem[id[d]])
    BY <1>20 DEF UpdateMax, ReaderGoes
<1>21. ASSUME NEW c \in Clients, Share(c) PROVE IsQuit(mem[id[d]])
    BY <1>21 DEF Share, ReaderGoes
<1>22. ASSUME NEW c \in Clients, LeaveGlobal(c) PROVE IsQuit(mem[id[d]])
    BY <1>22 DEF LeaveGlobal, ReaderGoes
<1>23. ASSUME NEW c \in Clients, LeaveClient(c) PROVE IsQuit(mem[id[d]])
    BY <1>23 DEF LeaveClient, ReaderGoes
<1>24. ASSUME NEW c \in Clients, ReaderChecks(c) PROVE IsQuit(mem[id[d]])
    BY <1>24 DEF ReaderChecks, ReaderGoes
<1>25. ASSUME NEW c \in Clients, TimerEnters(c) PROVE IsQuit(mem[id[d]])
    BY <1>25 DEF TimerEnters, TimerGoes
<1>26. ASSUME NEW c \in Clients, TimerLeaves(c) PROVE IsQuit(mem[id[d]])
    BY <1>26 DEF TimerLeaves, TimerGoes
<1>27. ASSUME NEW c \in Clients, TimerSemopFails(c) PROVE IsQuit(mem[id[d]])
    BY <1>27 DEF TimerSemopFails, TimerGoes
<1>28. ASSUME NEW c \in Clients, TimerChecks(c) PROVE IsQuit(mem[id[d]])
    BY <1>28 DEF TimerChecks, TimerGoes
<1>29. ASSUME NEW c \in Clients, ConsumerEnters(c) PROVE IsQuit(mem[id[d]])
    BY <1>29 DEF ConsumerEnters, ConsumerGoes, MainGoes
<1>30. ASSUME NEW c \in Clients, CopyNumbers(c) PROVE IsQuit(mem[id[d]])
    BY <1>30 DEF CopyNumbers, ConsumerGoes, MainGoes
<1>31. ASSUME NEW c \in Clients, CopyTextAndSend(c) PROVE IsQuit(mem[id[d]])
    BY <1>31 DEF CopyTextAndSend, ConsumerGoes, MainGoes
<1>32. ASSUME NEW c \in Clients, SendKills(c) PROVE IsQuit(mem[id[d]])
    BY <1>32 DEF SendKills, ConsumerGoes, MainGoes
<1>33. ASSUME NEW c \in Clients, ConsumerLeaves(c) PROVE IsQuit(mem[id[d]])
    BY <1>33 DEF ConsumerLeaves, ConsumerGoes, MainGoes
<1>34. ASSUME NEW c \in Clients, ConsumerSemopFails(c) PROVE IsQuit(mem[id[d]])
    BY <1>34 DEF ConsumerSemopFails, ConsumerGoes, MainGoes
<1>35. ASSUME NEW c \in Clients, ConsumerGoesOn(c) PROVE IsQuit(mem[id[d]])
    BY <1>35 DEF ConsumerGoesOn, ConsumerGoes, MainGoes
<1>36. ASSUME NEW c \in Clients, HangUp(c) PROVE IsQuit(mem[id[d]])
    BY <1>36 DEF HangUp, ConsumerGoes, MainGoes
<1>37. ASSUME NEW c \in Clients, NEW r \in Requests, Receive(c, r) PROVE IsQuit(mem[id[d]])
    BY <1>37 DEF Receive, ReaderGoes
<1>38. CASE UNCHANGED vars
    BY <1>38 DEF vars
<1> QED
    BY <1>1, <1>2, <1>3, <1>4, <1>5, <1>6, <1>7, <1>8, <1>9, <1>10, <1>11,
       <1>12, <1>13, <1>14, <1>15, <1>16, <1>17, <1>18, <1>19, <1>20, <1>21,
       <1>22, <1>23, <1>24, <1>25, <1>26, <1>27, <1>28, <1>29, <1>30, <1>31,
       <1>32, <1>33, <1>34, <1>35, <1>36, <1>37, <1>38
       DEF Next, SetUpStep, ReaderStep, TimerStep, ConsumerStep

(* What a consumer sends belongs together, for any number of connections,  *)
(* unless another one has come to share its record.                        *)
THEOREM SendsBelongTogether == Spec => []SendsCoherent
<1>1. TypeInv /\ InsideInv /\ MemInv => SendsCoherent
  <2> SUFFICES ASSUME TypeInv, InsideInv, MemInv, NEW c \in Clients, main[c] = "leave", Alone(c)
               PROVE  /\ Agree(out[c])
                      /\ out[c].front.op = "calc" =>
                           /\ out[c].result = out[c].front.value
                           /\ out[c].min <= out[c].result /\ out[c].result <= out[c].max
      BY DEF SendsCoherent, Agree
  <2>1. Solo(c)
      BY DEF Solo, TypeInv, PlaceInv, Attached
  <2>2. ~ReaderInside(c) /\ RecordAt(c) /\ CopyAt(c)
      BY <2>1, ConsumerAlone DEF MainInside
  <2> QED BY <2>2 DEF ReaderInside, RecordAt, CopyAt, Agree, Computed, Bounded
<1> QED
    BY RecordInvariant, <1>1, PTL DEF Together

(* A consumer hangs up on a whole quit request, unless its reader is just  *)
(* replacing one, or it shares its record.                                 *)
THEOREM HangsUpOnlyOnQuit == Spec => HangsUpOnQuit
<1> DEFINE Hangs == \A c \in Clients : Alone(c) /\ main[c] = "check" /\ main'[c] = "ended" =>
                      \/ reader[c] = "back"
                      \/ LET r == mem[id[c]]
                         IN  r.front = r.back /\ r.front.op = "dollar" /\ r.front.text = "quit"
<1>1. Together /\ [Next]_vars => Hangs
  <2> SUFFICES ASSUME Together, [Next]_vars, NEW c \in Clients, Alone(c),
                      main[c] = "check", main'[c] = "ended", reader[c] # "back"
               PROVE  LET r == mem[id[c]]
                      IN  r.front = r.back /\ r.front.op = "dollar" /\ r.front.text = "quit"
      OBVIOUS
  <2>1. IsQuit(mem[id[c]])
      BY LeavesCheck DEF Together
  <2>2. Solo(c) /\ Attached(c) /\ reader[c] # "new"
      BY DEF Together, Solo, TypeInv, PlaceInv, Attached, InsideInv, InsideAt, SettingUp
  <2>3. RecordAt(c)
      BY <2>2 DEF Together, MemInv, MemAt
  <2> QED BY <2>1, <2>3 DEF RecordAt, Agree, IsQuit, Hash
<1>2. Spec => [][Hangs]_vars
  <2>1. Together /\ [Next]_vars => [Hangs]_vars
      BY <1>1
  <2> QED BY RecordInvariant, <2>1, PTL DEF Spec
<1> QED
    BY <1>2 DEF HangsUpOnQuit
==============================================================================
