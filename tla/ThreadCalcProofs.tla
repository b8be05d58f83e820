-------------------------- MODULE ThreadCalcProofs --------------------------
(***************************************************************************)
(* Proofs about ThreadCalc, for every set of connections and of results.   *)
(***************************************************************************)
EXTENDS ThreadCalc, TLAPS

LEMMA RequestValue ==
  ASSUME NEW r \in Requests \cup {NoRequest}, r.op = "calc"
  PROVE  r.value \in Results
BY DEF Requests, NoRequest

LEMMA RequestedType ==
  ASSUME NEW old \in Records, NEW r \in Requests \cup {NoRequest}
  PROVE  Requested(old, r) \in Records
<1>1. r.op = "calc" => r.value \in Outcomes
    BY RequestValue DEF Outcomes
<1>2. (r.op = "quit") \in BOOLEAN
    OBVIOUS
<1> QED
    BY <1>1, <1>2 DEF Requested, Records

LEMMA PublishedType ==
  ASSUME TypeOK, NEW old \in Records
  PROVE  Published(old) \in Records
BY DEF Published, Records, TypeOK

LEMMA StepTypeOK == TypeOK /\ ServedInv /\ [Next]_vars => TypeOK'
<1> SUFFICES ASSUME TypeOK, ServedInv, [Next]_vars PROVE TypeOK'
    OBVIOUS
<1> USE DEF TypeOK, MainTo, ProdTo, ConsTo, MainLocations, HelperLocations,
            netVars, statVars, memVars
<1>1. ASSUME NEW h \in Conns, Start(h) PROVE TypeOK'
  <2>1. ZeroRecord \in Records
      BY DEF ZeroRecord, Records, Outcomes
  <2>2. data' \in [Conns -> Records] /\ heap' \in SUBSET Records
      BY <1>1, <2>1 DEF Start
  <2>3. recycled' \in SUBSET Conns
      BY <1>1 DEF Start
  <2> QED BY <1>1, <2>2, <2>3 DEF Start
<1>2. ASSUME NEW h \in Conns, EnterRead(h) PROVE TypeOK'
    BY <1>2 DEF EnterRead
<1>3. ASSUME NEW h \in Conns, ReadEnd(h) PROVE TypeOK'
    BY <1>3 DEF ReadEnd
<1>4. ASSUME NEW h \in Conns, Lock(h) PROVE TypeOK'
    BY <1>4 DEF Lock, Acquire
<1>5. ASSUME NEW h \in Conns, Compute(h) PROVE TypeOK'
    BY <1>5, RequestedType DEF Compute
<1>6. ASSUME NEW h \in Conns, ComputeHash(h) PROVE TypeOK'
    BY <1>6, RequestedType DEF ComputeHash
<1>7. ASSUME NEW h \in Conns, ComputeTraps(h) PROVE TypeOK'
    BY <1>7 DEF ComputeTraps
<1>8. ASSUME NEW h \in Conns, UpdateStats(h) PROVE TypeOK'
  <2>1. data[h].result \in Outcomes
      BY DEF Records
  <2> QED BY <1>8, <2>1 DEF UpdateStats
<1>9. ASSUME NEW h \in Conns, Publish(h) PROVE TypeOK'
    BY <1>9, PublishedType DEF Publish
<1>10. ASSUME NEW h \in Conns, Check(h) PROVE TypeOK'
    BY <1>10 DEF Check
<1>11. ASSUME NEW h \in Conns, JoinAndFree(h) PROVE TypeOK'
  <2>1. data[h] \in Records
      OBVIOUS
  <2>2. heap' \in SUBSET Records
      BY <1>11, <2>1 DEF JoinAndFree
  <2> QED BY <1>11, <2>2 DEF JoinAndFree
<1>12. ASSUME NEW h \in Conns, ProducerLock(h) PROVE TypeOK'
    BY <1>12 DEF ProducerLock, Acquire
<1>13. ASSUME NEW h \in Conns, ProducerUnlock(h) PROVE TypeOK'
    BY <1>13 DEF ProducerUnlock
<1>14. ASSUME NEW h \in Conns, ProducerCheck(h) PROVE TypeOK'
    BY <1>14 DEF ProducerCheck
<1>15. ASSUME NEW h \in Conns, ConsumerLock(h) PROVE TypeOK'
    BY <1>15 DEF ConsumerLock, Acquire
<1>16. ASSUME NEW h \in Conns, Send(h) PROVE TypeOK'
  <2>1. fd[h] \in Conns
      BY <1>16 DEF Send, ServedInv
  <2>2. peer' \in [Conns -> {"absent", "open", "left", "reset"}]
      BY <1>16, <2>1 DEF Send
  <2>3. echoed' \in SUBSET Conns
      BY <1>16, <2>1 DEF Send
  <2> QED BY <1>16, <2>2, <2>3 DEF Send
<1>17. ASSUME NEW h \in Conns, SendIsFatal(h) PROVE TypeOK'
    BY <1>17 DEF SendIsFatal
<1>18. ASSUME NEW h \in Conns, ConsumerCheck(h) PROVE TypeOK'
  <2>1. fd[h] \in Conns
      BY <1>18 DEF ConsumerCheck, ServedInv
  <2> QED BY <1>18, <2>1 DEF ConsumerCheck
<1>19. ASSUME NEW h \in Conns, Accept(h) PROVE TypeOK'
    BY <1>19 DEF Accept
<1>20. ASSUME NEW h \in Conns, ClientLeaves(h) PROVE TypeOK'
    BY <1>20 DEF ClientLeaves
<1>21. ASSUME NEW h \in Conns, NEW r \in Requests, ReadRequest(h, r) PROVE TypeOK'
    BY <1>21 DEF ReadRequest
<1>22. CASE AcceptFails
    BY <1>22 DEF AcceptFails
<1>23. CASE UNCHANGED vars
    BY <1>23 DEF vars
<1> QED
    BY <1>1, <1>2, <1>3, <1>4, <1>5, <1>6, <1>7, <1>8, <1>9, <1>10, <1>11, <1>12,
       <1>13, <1>14, <1>15, <1>16, <1>17, <1>18, <1>19, <1>20, <1>21, <1>22, <1>23
       DEF Next, Environment, HandlerStep, ProducerStep, ConsumerStep

LEMMA StepServedInv == TypeOK /\ ServedInv /\ [Next]_vars => ServedInv'
<1> SUFFICES ASSUME TypeOK, ServedInv, [Next]_vars PROVE ServedInv'
    OBVIOUS
<1> USE DEF TypeOK, ServedInv, MainTo, ProdTo, ConsTo, netVars, statVars, memVars
<1>1. ASSUME NEW h \in Conns, Start(h) PROVE ServedInv'
    BY <1>1 DEF Start
<1>2. ASSUME NEW h \in Conns, EnterRead(h) PROVE ServedInv'
    BY <1>2 DEF EnterRead
<1>3. ASSUME NEW h \in Conns, ReadEnd(h) PROVE ServedInv'
    BY <1>3 DEF ReadEnd
<1>4. ASSUME NEW h \in Conns, Lock(h) PROVE ServedInv'
    BY <1>4 DEF Lock, Acquire
<1>5. ASSUME NEW h \in Conns, Compute(h) PROVE ServedInv'
    BY <1>5 DEF Compute
<1>6. ASSUME NEW h \in Conns, ComputeHash(h) PROVE ServedInv'
    BY <1>6 DEF ComputeHash
<1>7. ASSUME NEW h \in Conns, ComputeTraps(h) PROVE ServedInv'
    BY <1>7 DEF ComputeTraps
<1>8. ASSUME NEW h \in Conns, UpdateStats(h) PROVE ServedInv'
    BY <1>8 DEF UpdateStats
<1>9. ASSUME NEW h \in Conns, Publish(h) PROVE ServedInv'
    BY <1>9 DEF Publish
<1>10. ASSUME NEW h \in Conns, Check(h) PROVE ServedInv'
    BY <1>10 DEF Check
<1>11. ASSUME NEW h \in Conns, JoinAndFree(h) PROVE ServedInv'
    BY <1>11 DEF JoinAndFree
<1>12. ASSUME NEW h \in Conns, ProducerLock(h) PROVE ServedInv'
    BY <1>12 DEF ProducerLock, Acquire
<1>13. ASSUME NEW h \in Conns, ProducerUnlock(h) PROVE ServedInv'
    BY <1>13 DEF ProducerUnlock
<1>14. ASSUME NEW h \in Conns, ProducerCheck(h) PROVE ServedInv'
    BY <1>14 DEF ProducerCheck
<1>15. ASSUME NEW h \in Conns, ConsumerLock(h) PROVE ServedInv'
    BY <1>15 DEF ConsumerLock, Acquire
<1>16. ASSUME NEW h \in Conns, Send(h) PROVE ServedInv'
    BY <1>16 DEF Send
<1>17. ASSUME NEW h \in Conns, SendIsFatal(h) PROVE ServedInv'
    BY <1>17 DEF SendIsFatal
<1>18. ASSUME NEW h \in Conns, ConsumerCheck(h) PROVE ServedInv'
    BY <1>18 DEF ConsumerCheck
<1>19. ASSUME NEW h \in Conns, Accept(h) PROVE ServedInv'
    BY <1>19 DEF Accept
<1>20. ASSUME NEW h \in Conns, ClientLeaves(h) PROVE ServedInv'
    BY <1>20 DEF ClientLeaves
<1>21. ASSUME NEW h \in Conns, NEW r \in Requests, ReadRequest(h, r) PROVE ServedInv'
    BY <1>21 DEF ReadRequest
<1>22. CASE AcceptFails
    BY <1>22 DEF AcceptFails
<1>23. CASE UNCHANGED vars
    BY <1>23 DEF vars
<1> QED
    BY <1>1, <1>2, <1>3, <1>4, <1>5, <1>6, <1>7, <1>8, <1>9, <1>10, <1>11, <1>12,
       <1>13, <1>14, <1>15, <1>16, <1>17, <1>18, <1>19, <1>20, <1>21, <1>22, <1>23
       DEF Next, Environment, HandlerStep, ProducerStep, ConsumerStep

(* Who holds the mutex is the only one in a critical section.              *)
LEMMA OneInside ==
  ASSUME MutexInv, NEW h \in Conns, NEW role, mutex = <<h, role>>, NEW g \in Conns
  PROVE  /\ main[g] \in {"compute", "stats", "publish"} => g = h /\ role = "main"
         /\ prod[g] = "inside" => g = h /\ role = "prod"
         /\ cons[g] = "inside" => g = h /\ role = "cons"
BY DEF MutexInv

LEMMA StepMutexInv == TypeOK /\ MutexInv /\ [Next]_vars => MutexInv'
<1> SUFFICES ASSUME TypeOK, MutexInv, [Next]_vars PROVE MutexInv'
    OBVIOUS
<1> USE DEF TypeOK, MutexInv, Free, MainTo, ProdTo, ConsTo, netVars, statVars, memVars
<1>1. ASSUME NEW h \in Conns, Start(h) PROVE MutexInv'
    BY <1>1 DEF Start
<1>2. ASSUME NEW h \in Conns, EnterRead(h) PROVE MutexInv'
    BY <1>2 DEF EnterRead
<1>3. ASSUME NEW h \in Conns, ReadEnd(h) PROVE MutexInv'
    BY <1>3 DEF ReadEnd
<1>4. ASSUME NEW h \in Conns, Lock(h) PROVE MutexInv'
    BY <1>4 DEF Lock, Acquire
<1>5. ASSUME NEW h \in Conns, Compute(h) PROVE MutexInv'
    BY <1>5 DEF Compute
<1>6. ASSUME NEW h \in Conns, ComputeHash(h) PROVE MutexInv'
    BY <1>6 DEF ComputeHash
<1>7. ASSUME NEW h \in Conns, ComputeTraps(h) PROVE MutexInv'
    BY <1>7 DEF ComputeTraps
<1>8. ASSUME NEW h \in Conns, UpdateStats(h) PROVE MutexInv'
    BY <1>8 DEF UpdateStats
<1>9. ASSUME NEW h \in Conns, Publish(h) PROVE MutexInv'
  <2>1. mutex = <<h, "main">>
      BY <1>9 DEF Publish
  <2>2. \A g \in Conns :
           /\ main'[g] \notin {"compute", "stats", "publish"}
           /\ prod'[g] # "inside"
           /\ cons'[g] # "inside"
    <3> TAKE g \in Conns
    <3>1. main[g] \in {"compute", "stats", "publish"} => g = h
        BY <2>1, OneInside
    <3>2. prod[g] # "inside" /\ cons[g] # "inside"
        BY <2>1, OneInside
    <3>3. main'[g] = (IF g = h THEN "check" ELSE main[g]) /\ prod' = prod /\ cons' = cons
        BY <1>9 DEF Publish
    <3>4. main'[g] \notin {"compute", "stats", "publish"}
        BY <3>1, <3>3
    <3> QED BY <3>2, <3>3, <3>4
  <2> QED BY <2>2
<1>10. ASSUME NEW h \in Conns, Check(h) PROVE MutexInv'
    BY <1>10 DEF Check
<1>11. ASSUME NEW h \in Conns, JoinAndFree(h) PROVE MutexInv'
    BY <1>11 DEF JoinAndFree
<1>12. ASSUME NEW h \in Conns, ProducerLock(h) PROVE MutexInv'
    BY <1>12 DEF ProducerLock, Acquire
<1>13. ASSUME NEW h \in Conns, ProducerUnlock(h) PROVE MutexInv'
  <2>1. mutex = <<h, "prod">>
      BY <1>13 DEF ProducerUnlock
  <2>2. \A g \in Conns :
           /\ main'[g] \notin {"compute", "stats", "publish"}
           /\ prod'[g] # "inside"
           /\ cons'[g] # "inside"
      BY <1>13, <2>1, OneInside, ZenonT(60) DEF ProducerUnlock
  <2> QED BY <2>2
<1>14. ASSUME NEW h \in Conns, ProducerCheck(h) PROVE MutexInv'
    BY <1>14 DEF ProducerCheck
<1>15. ASSUME NEW h \in Conns, ConsumerLock(h) PROVE MutexInv'
    BY <1>15 DEF ConsumerLock, Acquire
<1>16. ASSUME NEW h \in Conns, Send(h) PROVE MutexInv'
  <2>1. mutex = <<h, "cons">>
      BY <1>16 DEF Send
  <2>2. \A g \in Conns :
           /\ main'[g] \notin {"compute", "stats", "publish"}
           /\ prod'[g] # "inside"
           /\ cons'[g] # "inside"
      BY <1>16, <2>1, OneInside, ZenonT(60) DEF Send
  <2> QED BY <2>2
<1>17. ASSUME NEW h \in Conns, SendIsFatal(h) PROVE MutexInv'
    BY <1>17 DEF SendIsFatal
<1>18. ASSUME NEW h \in Conns, ConsumerCheck(h) PROVE MutexInv'
    BY <1>18 DEF ConsumerCheck
<1>19. ASSUME NEW h \in Conns, Accept(h) PROVE MutexInv'
    BY <1>19 DEF Accept
<1>20. ASSUME NEW h \in Conns, ClientLeaves(h) PROVE MutexInv'
    BY <1>20 DEF ClientLeaves
<1>21. ASSUME NEW h \in Conns, NEW r \in Requests, ReadRequest(h, r) PROVE MutexInv'
    BY <1>21 DEF ReadRequest
<1>22. CASE AcceptFails
    BY <1>22 DEF AcceptFails
<1>23. CASE UNCHANGED vars
    BY <1>23 DEF vars
<1> QED
    BY <1>1, <1>2, <1>3, <1>4, <1>5, <1>6, <1>7, <1>8, <1>9, <1>10, <1>11, <1>12,
       <1>13, <1>14, <1>15, <1>16, <1>17, <1>18, <1>19, <1>20, <1>21, <1>22, <1>23
       DEF Next, Environment, HandlerStep, ProducerStep, ConsumerStep

LEMMA RequestedCoherent ==
  ASSUME NEW old, Coherent(old), NEW r, r.op # "calc"
  PROVE  Coherent(Requested(old, r))
BY DEF Coherent, Requested

LEMMA StepRecordInv == TypeOK /\ MutexInv /\ RecordInv /\ [Next]_vars => RecordInv'
<1> SUFFICES ASSUME TypeOK, MutexInv, RecordInv, [Next]_vars PROVE RecordInv'
    OBVIOUS
<1> USE DEF TypeOK, RecordInv, MainTo, ProdTo, ConsTo, netVars, statVars, memVars
<1>1. ASSUME NEW h \in Conns, Start(h) PROVE RecordInv'
  <2>1. Coherent(ZeroRecord)
      BY DEF Coherent, ZeroRecord
  <2>2. Coherent(data'[h]) /\ heap' \subseteq heap
      BY <1>1, <2>1 DEF Start
  <2>3. \A g \in Conns \ {h} : data'[g] = data[g] /\ main'[g] = main[g]
      BY <1>1 DEF Start
  <2>4. main'[h] = "loop"
      BY <1>1 DEF Start
  <2> QED BY <1>1, <2>2, <2>3, <2>4 DEF Start
<1>2. ASSUME NEW h \in Conns, EnterRead(h) PROVE RecordInv'
    BY <1>2 DEF EnterRead
<1>3. ASSUME NEW h \in Conns, ReadEnd(h) PROVE RecordInv'
    BY <1>3 DEF ReadEnd
<1>4. ASSUME NEW h \in Conns, Lock(h) PROVE RecordInv'
    BY <1>4 DEF Lock
<1>5. ASSUME NEW h \in Conns, Compute(h) PROVE RecordInv'
  <2>1. \A g \in Conns \ {h} : data'[g] = data[g] /\ main'[g] = main[g]
      BY <1>5 DEF Compute
  <2>2. main'[h] = "stats" /\ heap' = heap
      BY <1>5 DEF Compute
  <2> QED BY <1>5, <2>1, <2>2 DEF Compute
<1>6. ASSUME NEW h \in Conns, ComputeHash(h) PROVE RecordInv'
  <2>1. \A g \in Conns \ {h} : data'[g] = data[g] /\ main'[g] = main[g]
      BY <1>6 DEF ComputeHash
  <2>2. main'[h] = "loop" /\ heap' = heap
      BY <1>6 DEF ComputeHash
  <2>3. Coherent(data[h]) /\ data'[h] = Requested(data[h], req[h])
      BY <1>6 DEF ComputeHash
  <2>4. Coherent(data'[h])
      BY <1>6, <2>3, RequestedCoherent DEF ComputeHash
  <2> QED BY <1>6, <2>1, <2>2, <2>4 DEF ComputeHash
<1>7. ASSUME NEW h \in Conns, ComputeTraps(h) PROVE RecordInv'
    BY <1>7 DEF ComputeTraps
<1>8. ASSUME NEW h \in Conns, UpdateStats(h) PROVE RecordInv'
  <2>1. \A g \in Conns \ {h} : main[g] # "publish" /\ main'[g] = main[g]
      BY <1>8 DEF UpdateStats, MutexInv
  <2>2. data[h].result \in Int /\ globalMin \in Int /\ globalMax \in Int
    <3>1. data[h].result \in Outcomes
        BY DEF Records
    <3>2. Outcomes \subseteq Int
        BY ConstantsAssumption DEF Outcomes
    <3> QED BY <3>1, <3>2
  <2>3. globalMin' <= data[h].result /\ data[h].result <= globalMax'
      BY <1>8, <2>2 DEF UpdateStats
  <2>4. data' = data /\ heap' = heap /\ main'[h] = "publish"
      BY <1>8 DEF UpdateStats
  <2> QED BY <2>1, <2>3, <2>4
<1>9. ASSUME NEW h \in Conns, Publish(h) PROVE RecordInv'
  <2>1. \A g \in Conns \ {h} : data'[g] = data[g] /\ main'[g] = main[g]
      BY <1>9 DEF Publish
  <2>2. main[h] = "publish" /\ main'[h] = "check" /\ heap' = heap
      BY <1>9 DEF Publish
  <2>3. data'[h] = Published(data[h])
      BY <1>9 DEF Publish
  <2>4. Coherent(data'[h])
      BY <2>2, <2>3 DEF Coherent, Published
  <2> QED BY <1>9, <2>1, <2>2, <2>4 DEF Publish
<1>10. ASSUME NEW h \in Conns, Check(h) PROVE RecordInv'
    BY <1>10 DEF Check
<1>11. ASSUME NEW h \in Conns, JoinAndFree(h) PROVE RecordInv'
  <2>1. main[h] = "join" /\ data' = data
      BY <1>11 DEF JoinAndFree
  <2>2. heap' = heap \cup {data[h]} /\ Coherent(data[h])
      BY <1>11, <2>1 DEF JoinAndFree
  <2> QED BY <1>11, <2>1, <2>2 DEF JoinAndFree
<1>12. ASSUME NEW h \in Conns, ProducerLock(h) PROVE RecordInv'
    BY <1>12 DEF ProducerLock
<1>13. ASSUME NEW h \in Conns, ProducerUnlock(h) PROVE RecordInv'
    BY <1>13 DEF ProducerUnlock
<1>14. ASSUME NEW h \in Conns, ProducerCheck(h) PROVE RecordInv'
    BY <1>14 DEF ProducerCheck
<1>15. ASSUME NEW h \in Conns, ConsumerLock(h) PROVE RecordInv'
    BY <1>15 DEF ConsumerLock
<1>16. ASSUME NEW h \in Conns, Send(h) PROVE RecordInv'
    BY <1>16 DEF Send
<1>17. ASSUME NEW h \in Conns, SendIsFatal(h) PROVE RecordInv'
    BY <1>17 DEF SendIsFatal
<1>18. ASSUME NEW h \in Conns, ConsumerCheck(h) PROVE RecordInv'
    BY <1>18 DEF ConsumerCheck
<1>19. ASSUME NEW h \in Conns, Accept(h) PROVE RecordInv'
    BY <1>19 DEF Accept
<1>20. ASSUME NEW h \in Conns, ClientLeaves(h) PROVE RecordInv'
    BY <1>20 DEF ClientLeaves
<1>21. ASSUME NEW h \in Conns, NEW r \in Requests, ReadRequest(h, r) PROVE RecordInv'
    BY <1>21 DEF ReadRequest
<1>22. CASE AcceptFails
    BY <1>22 DEF AcceptFails
<1>23. CASE UNCHANGED vars
    BY <1>23 DEF vars
<1> QED
    BY <1>1, <1>2, <1>3, <1>4, <1>5, <1>6, <1>7, <1>8, <1>9, <1>10, <1>11, <1>12,
       <1>13, <1>14, <1>15, <1>16, <1>17, <1>18, <1>19, <1>20, <1>21, <1>22, <1>23
       DEF Next, Environment, HandlerStep, ProducerStep, ConsumerStep

LEMMA RequestedWithin ==
  ASSUME NEW old, Within(old), NEW r
  PROVE  Within(Requested(old, r))
BY DEF Within, Requested

LEMMA StepRangeInv == TypeOK /\ RangeInv /\ [Next]_vars => RangeInv'
<1> SUFFICES ASSUME TypeOK, RangeInv, [Next]_vars PROVE RangeInv'
    OBVIOUS
<1>a. Outcomes \subseteq Int
    BY ConstantsAssumption DEF Outcomes
<1>b. globalMin \in Int /\ globalMax \in Int
    BY <1>a DEF TypeOK
<1>c. \A r \in Records : r.min \in Int /\ r.max \in Int /\ r.result \in Int
    BY <1>a DEF Records
<1>d. (\A h \in Conns : data[h] \in Records) /\ heap \subseteq Records
    BY DEF TypeOK
<1> USE DEF MainTo, ProdTo, ConsTo, netVars, statVars, memVars
<1>1. ASSUME NEW h \in Conns, Start(h) PROVE RangeInv'
  <2>1. globalMin' = globalMin /\ globalMax' = globalMax
      BY <1>1 DEF Start
  <2>2. Within(ZeroRecord)
      BY DEF Within, ZeroRecord
  <2>3. heap' \subseteq heap /\ \A g \in Conns : data'[g] \in {data[g], ZeroRecord} \cup heap
      BY <1>1, <1>d DEF Start, TypeOK
  <2> QED BY <2>1, <2>2, <2>3 DEF RangeInv, Within
<1>2. ASSUME NEW h \in Conns, EnterRead(h) PROVE RangeInv'
    BY <1>2 DEF EnterRead, RangeInv, Within
<1>3. ASSUME NEW h \in Conns, ReadEnd(h) PROVE RangeInv'
    BY <1>3 DEF ReadEnd, RangeInv, Within
<1>4. ASSUME NEW h \in Conns, Lock(h) PROVE RangeInv'
    BY <1>4 DEF Lock, RangeInv, Within
<1>5. ASSUME NEW h \in Conns, Compute(h) PROVE RangeInv'
  <2>1. globalMin' = globalMin /\ globalMax' = globalMax /\ heap' = heap
      BY <1>5 DEF Compute
  <2>2. \A g \in Conns : data'[g] \in {data[g], Requested(data[g], req[g])}
      BY <1>5, <1>d DEF Compute, TypeOK
  <2>3. \A g \in Conns : Within(data[g]) /\ Within(Requested(data[g], req[g]))
      BY RequestedWithin DEF RangeInv
  <2>4. \A g \in Conns : Within(data'[g])
      BY <2>2, <2>3
  <2> QED BY <2>1, <2>4 DEF RangeInv, Within
<1>6. ASSUME NEW h \in Conns, ComputeHash(h) PROVE RangeInv'
  <2>1. globalMin' = globalMin /\ globalMax' = globalMax /\ heap' = heap
      BY <1>6 DEF ComputeHash
  <2>2. \A g \in Conns : data'[g] \in {data[g], Requested(data[g], req[g])}
      BY <1>6, <1>d DEF ComputeHash, TypeOK
  <2>3. \A g \in Conns : Within(data[g]) /\ Within(Requested(data[g], req[g]))
      BY RequestedWithin DEF RangeInv
  <2>4. \A g \in Conns : Within(data'[g])
      BY <2>2, <2>3
  <2> QED BY <2>1, <2>4 DEF RangeInv, Within
<1>7. ASSUME NEW h \in Conns, ComputeTraps(h) PROVE RangeInv'
    BY <1>7 DEF ComputeTraps, RangeInv, Within
<1>8. ASSUME NEW h \in Conns, UpdateStats(h) PROVE RangeInv'
  <2>1. data' = data /\ heap' = heap
      BY <1>8 DEF UpdateStats
  <2>2. CASE globalMax = 0 /\ globalMin = 0
    <3>1. \A r \in Records : Within(r) => r.min = 0 /\ r.max = 0
        BY <1>c, <2>2 DEF Within
    <3>2. globalMin' = globalMax' /\ globalMin' \in Int
        BY <1>8, <1>c, <1>d, <2>2 DEF UpdateStats
    <3> QED BY <1>d, <2>1, <3>1, <3>2 DEF RangeInv, Within
  <2>3. CASE ~(globalMax = 0 /\ globalMin = 0)
    <3>1. /\ globalMin' <= globalMin /\ globalMax <= globalMax'
          /\ globalMin' \in Int /\ globalMax' \in Int
        BY <1>8, <1>b, <1>c, <1>d, <2>3 DEF UpdateStats
    <3>2. \A r \in Records : Within(r) => Within(r)'
        BY <1>b, <1>c, <3>1 DEF Within
    <3>3. globalMin' <= globalMax'
        BY <1>b, <3>1 DEF RangeInv
    <3> QED BY <1>b, <1>c, <1>d, <2>1, <3>1, <3>3 DEF RangeInv, Within
  <2> QED BY <2>2, <2>3
<1>9. ASSUME NEW h \in Conns, Publish(h) PROVE RangeInv'
  <2>1. globalMin' = globalMin /\ globalMax' = globalMax /\ heap' = heap
      BY <1>9 DEF Publish
  <2>2. \A g \in Conns : data'[g] \in {data[g], Published(data[g])}
      BY <1>9, <1>d DEF Publish, TypeOK
  <2>3. \A g \in Conns : Within(data[g]) /\ Within(Published(data[g]))
      BY <1>b DEF RangeInv, Within, Published
  <2>4. \A g \in Conns : Within(data'[g])
      BY <2>2, <2>3
  <2> QED BY <2>1, <2>4 DEF RangeInv, Within
<1>10. ASSUME NEW h \in Conns, Check(h) PROVE RangeInv'
    BY <1>10 DEF Check, RangeInv, Within
<1>11. ASSUME NEW h \in Conns, JoinAndFree(h) PROVE RangeInv'
  <2>1. globalMin' = globalMin /\ globalMax' = globalMax /\ data' = data
      BY <1>11 DEF JoinAndFree
  <2>2. heap' = heap \cup {data[h]}
      BY <1>11 DEF JoinAndFree
  <2> QED BY <2>1, <2>2 DEF RangeInv, Within
<1>12. ASSUME NEW h \in Conns, ProducerLock(h) PROVE RangeInv'
    BY <1>12 DEF ProducerLock, RangeInv, Within
<1>13. ASSUME NEW h \in Conns, ProducerUnlock(h) PROVE RangeInv'
    BY <1>13 DEF ProducerUnlock, RangeInv, Within
<1>14. ASSUME NEW h \in Conns, ProducerCheck(h) PROVE RangeInv'
    BY <1>14 DEF ProducerCheck, RangeInv, Within
<1>15. ASSUME NEW h \in Conns, ConsumerLock(h) PROVE RangeInv'
    BY <1>15 DEF ConsumerLock, RangeInv, Within
<1>16. ASSUME NEW h \in Conns, Send(h) PROVE RangeInv'
    BY <1>16 DEF Send, RangeInv, Within
<1>17. ASSUME NEW h \in Conns, SendIsFatal(h) PROVE RangeInv'
    BY <1>17 DEF SendIsFatal, RangeInv, Within
<1>18. ASSUME NEW h \in Conns, ConsumerCheck(h) PROVE RangeInv'
    BY <1>18 DEF ConsumerCheck, RangeInv, Within
<1>19. ASSUME NEW h \in Conns, Accept(h) PROVE RangeInv'
    BY <1>19 DEF Accept, RangeInv, Within
<1>20. ASSUME NEW h \in Conns, ClientLeaves(h) PROVE RangeInv'
    BY <1>20 DEF ClientLeaves, RangeInv, Within
<1>21. ASSUME NEW h \in Conns, NEW r \in Requests, ReadRequest(h, r) PROVE RangeInv'
    BY <1>21 DEF ReadRequest, RangeInv, Within
<1>22. CASE AcceptFails
    BY <1>22 DEF AcceptFails, RangeInv, Within
<1>23. CASE UNCHANGED vars
    BY <1>23 DEF vars, RangeInv, Within
<1> QED
    BY <1>1, <1>2, <1>3, <1>4, <1>5, <1>6, <1>7, <1>8, <1>9, <1>10, <1>11, <1>12,
       <1>13, <1>14, <1>15, <1>16, <1>17, <1>18, <1>19, <1>20, <1>21, <1>22, <1>23
       DEF Next, Environment, HandlerStep, ProducerStep, ConsumerStep

-----------------------------------------------------------------------------
(* Behind HangsUpOnQuitOnly: a record that asks to quit was told to by its *)
(* handler, or was freed by an earlier one.                                *)
QuitInv ==
  \A h \in Conns :
     /\ data[h].quit => \/ h \in recycled
                       \/ main[h] \in {"stats", "publish", "check", "join", "done"}
     /\ h \in recycled => main[h] \notin {"off", "start"}

(* Behind PoliteClientsAreHarmless.  A handler reads its descriptor once.  *)
FdInv ==
  /\ \A h \in Conns : main[h] \in {"off", "start"} => fd[h] = NoConn
  /\ \A c \in echoed : \E h \in Conns : fd[h] = c

(* Nobody leaves politely before the quit record or the end of the stream. *)
LeftInv ==
  \A c \in Conns : peer[c] \in {"left", "reset"} => c \in rude \cup echoed \cup closed

(* The consumer that has sent the quit record sends nothing more.          *)
Kept(h) ==
  /\ fd[h] \in echoed => data[h].quit
  /\ fd[h] \in echoed => cons[h] \in {"check", "done"}
  /\ fd[h] \in echoed /\ cons[h] = "done" => fd[h] \in closed

EchoedInv == recycled = {} /\ ~SharedConnection => \A h \in Conns : Kept(h)

LEMMA StepQuitInv == TypeOK /\ QuitInv /\ [Next]_vars => QuitInv'
<1> SUFFICES ASSUME TypeOK, QuitInv, [Next]_vars PROVE QuitInv'
    OBVIOUS
<1> USE DEF TypeOK, QuitInv, MainTo, ProdTo, ConsTo, netVars, statVars, memVars
<1>1. ASSUME NEW h \in Conns, Start(h) PROVE QuitInv'
    BY <1>1 DEF Start, ZeroRecord
<1>2. ASSUME NEW h \in Conns, EnterRead(h) PROVE QuitInv'
    BY <1>2 DEF EnterRead
<1>3. ASSUME NEW h \in Conns, ReadEnd(h) PROVE QuitInv'
    BY <1>3 DEF ReadEnd
<1>4. ASSUME NEW h \in Conns, Lock(h) PROVE QuitInv'
    BY <1>4 DEF Lock
<1>5. ASSUME NEW h \in Conns, Compute(h) PROVE QuitInv'
    BY <1>5 DEF Compute, Requested
<1>6. ASSUME NEW h \in Conns, ComputeHash(h) PROVE QuitInv'
    BY <1>6 DEF ComputeHash, Requested
<1>7. ASSUME NEW h \in Conns, ComputeTraps(h) PROVE QuitInv'
    BY <1>7 DEF ComputeTraps
<1>8. ASSUME NEW h \in Conns, UpdateStats(h) PROVE QuitInv'
    BY <1>8 DEF UpdateStats
<1>9. ASSUME NEW h \in Conns, Publish(h) PROVE QuitInv'
    BY <1>9 DEF Publish, Published
<1>10. ASSUME NEW h \in Conns, Check(h) PROVE QuitInv'
    BY <1>10 DEF Check
<1>11. ASSUME NEW h \in Conns, JoinAndFree(h) PROVE QuitInv'
    BY <1>11 DEF JoinAndFree
<1>12. ASSUME NEW h \in Conns, ProducerLock(h) PROVE QuitInv'
    BY <1>12 DEF ProducerLock
<1>13. ASSUME NEW h \in Conns, ProducerUnlock(h) PROVE QuitInv'
    BY <1>13 DEF ProducerUnlock
<1>14. ASSUME NEW h \in Conns, ProducerCheck(h) PROVE QuitInv'
    BY <1>14 DEF ProducerCheck
<1>15. ASSUME NEW h \in Conns, ConsumerLock(h) PROVE QuitInv'
    BY <1>15 DEF ConsumerLock
<1>16. ASSUME NEW h \in Conns, Send(h) PROVE QuitInv'
    BY <1>16 DEF Send
<1>17. ASSUME NEW h \in Conns, SendIsFatal(h) PROVE QuitInv'
    BY <1>17 DEF SendIsFatal
<1>18. ASSUME NEW h \in Conns, ConsumerCheck(h) PROVE QuitInv'
    BY <1>18 DEF ConsumerCheck
<1>19. ASSUME NEW h \in Conns, Accept(h) PROVE QuitInv'
    BY <1>19 DEF Accept
<1>20. ASSUME NEW h \in Conns, ClientLeaves(h) PROVE QuitInv'
    BY <1>20 DEF ClientLeaves
<1>21. ASSUME NEW h \in Conns, NEW r \in Requests, ReadRequest(h, r) PROVE QuitInv'
    BY <1>21 DEF ReadRequest
<1>22. CASE AcceptFails
    BY <1>22 DEF AcceptFails
<1>23. CASE UNCHANGED vars
    BY <1>23 DEF vars
<1> QED
    BY <1>1, <1>2, <1>3, <1>4, <1>5, <1>6, <1>7, <1>8, <1>9, <1>10, <1>11, <1>12,
       <1>13, <1>14, <1>15, <1>16, <1>17, <1>18, <1>19, <1>20, <1>21, <1>22, <1>23
       DEF Next, Environment, HandlerStep, ProducerStep, ConsumerStep

LEMMA StepHangsUp == TypeOK /\ QuitInv /\ HangsUpOnQuitOnly /\ [Next]_vars => HangsUpOnQuitOnly'
<1> SUFFICES ASSUME TypeOK, QuitInv, HangsUpOnQuitOnly, [Next]_vars PROVE HangsUpOnQuitOnly'
    OBVIOUS
<1> USE DEF TypeOK, QuitInv, HangsUpOnQuitOnly, MainTo, ProdTo, ConsTo, netVars, statVars, memVars
<1>1. ASSUME NEW h \in Conns, Start(h) PROVE HangsUpOnQuitOnly'
    BY <1>1 DEF Start, ZeroRecord
<1>2. ASSUME NEW h \in Conns, EnterRead(h) PROVE HangsUpOnQuitOnly'
    BY <1>2 DEF EnterRead
<1>3. ASSUME NEW h \in Conns, ReadEnd(h) PROVE HangsUpOnQuitOnly'
    BY <1>3 DEF ReadEnd
<1>4. ASSUME NEW h \in Conns, Lock(h) PROVE HangsUpOnQuitOnly'
    BY <1>4 DEF Lock
<1>5. ASSUME NEW h \in Conns, Compute(h) PROVE HangsUpOnQuitOnly'
    BY <1>5 DEF Compute, Requested
<1>6. ASSUME NEW h \in Conns, ComputeHash(h) PROVE HangsUpOnQuitOnly'
    BY <1>6 DEF ComputeHash, Requested
<1>7. ASSUME NEW h \in Conns, ComputeTraps(h) PROVE HangsUpOnQuitOnly'
    BY <1>7 DEF ComputeTraps
<1>8. ASSUME NEW h \in Conns, UpdateStats(h) PROVE HangsUpOnQuitOnly'
    BY <1>8 DEF UpdateStats
<1>9. ASSUME NEW h \in Conns, Publish(h) PROVE HangsUpOnQuitOnly'
    BY <1>9 DEF Publish, Published
<1>10. ASSUME NEW h \in Conns, Check(h) PROVE HangsUpOnQuitOnly'
    BY <1>10 DEF Check
<1>11. ASSUME NEW h \in Conns, JoinAndFree(h) PROVE HangsUpOnQuitOnly'
    BY <1>11 DEF JoinAndFree
<1>12. ASSUME NEW h \in Conns, ProducerLock(h) PROVE HangsUpOnQuitOnly'
    BY <1>12 DEF ProducerLock
<1>13. ASSUME NEW h \in Conns, ProducerUnlock(h) PROVE HangsUpOnQuitOnly'
    BY <1>13 DEF ProducerUnlock
<1>14. ASSUME NEW h \in Conns, ProducerCheck(h) PROVE HangsUpOnQuitOnly'
    BY <1>14 DEF ProducerCheck
<1>15. ASSUME NEW h \in Conns, ConsumerLock(h) PROVE HangsUpOnQuitOnly'
    BY <1>15 DEF ConsumerLock
<1>16. ASSUME NEW h \in Conns, Send(h) PROVE HangsUpOnQuitOnly'
    BY <1>16 DEF Send
<1>17. ASSUME NEW h \in Conns, SendIsFatal(h) PROVE HangsUpOnQuitOnly'
    BY <1>17 DEF SendIsFatal
<1>18. ASSUME NEW h \in Conns, ConsumerCheck(h) PROVE HangsUpOnQuitOnly'
    BY <1>18 DEF ConsumerCheck
<1>19. ASSUME NEW h \in Conns, Accept(h) PROVE HangsUpOnQuitOnly'
    BY <1>19 DEF Accept
<1>20. ASSUME NEW h \in Conns, ClientLeaves(h) PROVE HangsUpOnQuitOnly'
    BY <1>20 DEF ClientLeaves
<1>21. ASSUME NEW h \in Conns, NEW r \in Requests, ReadRequest(h, r) PROVE HangsUpOnQuitOnly'
    BY <1>21 DEF ReadRequest
<1>22. CASE AcceptFails
    BY <1>22 DEF AcceptFails
<1>23. CASE UNCHANGED vars
    BY <1>23 DEF vars
<1> QED
    BY <1>1, <1>2, <1>3, <1>4, <1>5, <1>6, <1>7, <1>8, <1>9, <1>10, <1>11, <1>12,
       <1>13, <1>14, <1>15, <1>16, <1>17, <1>18, <1>19, <1>20, <1>21, <1>22, <1>23
       DEF Next, Environment, HandlerStep, ProducerStep, ConsumerStep

LEMMA StepWedged ==
  ASSUME TypeOK, MutexInv, [Next]_vars, Wedged
  PROVE  Wedged' /\ UNCHANGED <<statVars, echoed>>
<1>0. PICK w \in Conns : mutex = <<w, "main">> /\ main[w] \in {"loop", "read", "lock", "gone"}
    BY DEF Wedged
<1>a. \A g \in Conns : /\ main[g] \notin {"compute", "stats", "publish"}
                        /\ prod[g] # "inside" /\ cons[g] # "inside"
    BY <1>0, OneInside
<1>b. mutex # Free
    BY <1>0 DEF Free
<1> USE DEF TypeOK, Wedged, Acquire, MainTo, ProdTo, ConsTo, netVars, statVars, memVars
<1>1. ASSUME NEW h \in Conns, Start(h) PROVE Wedged' /\ UNCHANGED <<statVars, echoed>>
    BY <1>1, <1>0, <1>a, <1>b DEF Start
<1>2. ASSUME NEW h \in Conns, EnterRead(h) PROVE Wedged' /\ UNCHANGED <<statVars, echoed>>
    BY <1>2, <1>0, <1>a, <1>b DEF EnterRead
<1>3. ASSUME NEW h \in Conns, ReadEnd(h) PROVE Wedged' /\ UNCHANGED <<statVars, echoed>>
    BY <1>3, <1>0, <1>a, <1>b DEF ReadEnd
<1>4. ASSUME NEW h \in Conns, Lock(h) PROVE Wedged' /\ UNCHANGED <<statVars, echoed>>
    BY <1>4, <1>0, <1>a, <1>b DEF Lock
<1>5. ASSUME NEW h \in Conns, Compute(h) PROVE Wedged' /\ UNCHANGED <<statVars, echoed>>
    BY <1>5, <1>0, <1>a, <1>b DEF Compute
<1>6. ASSUME NEW h \in Conns, ComputeHash(h) PROVE Wedged' /\ UNCHANGED <<statVars, echoed>>
    BY <1>6, <1>0, <1>a, <1>b DEF ComputeHash
<1>7. ASSUME NEW h \in Conns, ComputeTraps(h) PROVE Wedged' /\ UNCHANGED <<statVars, echoed>>
    BY <1>7, <1>0, <1>a, <1>b DEF ComputeTraps
<1>8. ASSUME NEW h \in Conns, UpdateStats(h) PROVE Wedged' /\ UNCHANGED <<statVars, echoed>>
    BY <1>8, <1>0, <1>a, <1>b DEF UpdateStats
<1>9. ASSUME NEW h \in Conns, Publish(h) PROVE Wedged' /\ UNCHANGED <<statVars, echoed>>
    BY <1>9, <1>0, <1>a, <1>b DEF Publish
<1>10. ASSUME NEW h \in Conns, Check(h) PROVE Wedged' /\ UNCHANGED <<statVars, echoed>>
    BY <1>10, <1>0, <1>a, <1>b DEF Check
<1>11. ASSUME NEW h \in Conns, JoinAndFree(h) PROVE Wedged' /\ UNCHANGED <<statVars, echoed>>
    BY <1>11, <1>0, <1>a, <1>b DEF JoinAndFree
<1>12. ASSUME NEW h \in Conns, ProducerLock(h) PROVE Wedged' /\ UNCHANGED <<statVars, echoed>>
    BY <1>12, <1>0, <1>a, <1>b DEF ProducerLock
<1>13. ASSUME NEW h \in Conns, ProducerUnlock(h) PROVE Wedged' /\ UNCHANGED <<statVars, echoed>>
    BY <1>13, <1>0, <1>a, <1>b DEF ProducerUnlock
<1>14. ASSUME NEW h \in Conns, ProducerCheck(h) PROVE Wedged' /\ UNCHANGED <<statVars, echoed>>
    BY <1>14, <1>0, <1>a, <1>b DEF ProducerCheck
<1>15. ASSUME NEW h \in Conns, ConsumerLock(h) PROVE Wedged' /\ UNCHANGED <<statVars, echoed>>
    BY <1>15, <1>0, <1>a, <1>b DEF ConsumerLock
<1>16. ASSUME NEW h \in Conns, Send(h) PROVE Wedged' /\ UNCHANGED <<statVars, echoed>>
    BY <1>16, <1>0, <1>a, <1>b DEF Send
<1>17. ASSUME NEW h \in Conns, SendIsFatal(h) PROVE Wedged' /\ UNCHANGED <<statVars, echoed>>
    BY <1>17, <1>0, <1>a, <1>b DEF SendIsFatal
<1>18. ASSUME NEW h \in Conns, ConsumerCheck(h) PROVE Wedged' /\ UNCHANGED <<statVars, echoed>>
    BY <1>18, <1>0, <1>a, <1>b DEF ConsumerCheck
<1>19. ASSUME NEW h \in Conns, Accept(h) PROVE Wedged' /\ UNCHANGED <<statVars, echoed>>
    BY <1>19, <1>0, <1>a, <1>b DEF Accept
<1>20. ASSUME NEW h \in Conns, ClientLeaves(h) PROVE Wedged' /\ UNCHANGED <<statVars, echoed>>
    BY <1>20, <1>0, <1>a, <1>b DEF ClientLeaves
<1>21. ASSUME NEW h \in Conns, NEW r \in Requests, ReadRequest(h, r)
      PROVE  Wedged' /\ UNCHANGED <<statVars, echoed>>
    BY <1>21, <1>0, <1>a, <1>b DEF ReadRequest
<1>22. CASE AcceptFails
    BY <1>22, <1>0, <1>a, <1>b DEF AcceptFails
<1>23. CASE UNCHANGED vars
    BY <1>23, <1>0, <1>a, <1>b DEF vars
<1> QED
    BY <1>1, <1>2, <1>3, <1>4, <1>5, <1>6, <1>7, <1>8, <1>9, <1>10, <1>11, <1>12,
       <1>13, <1>14, <1>15, <1>16, <1>17, <1>18, <1>19, <1>20, <1>21, <1>22, <1>23
       DEF Next, Environment, HandlerStep, ProducerStep, ConsumerStep

LEMMA StepFdInv == TypeOK /\ ServedInv /\ FdInv /\ [Next]_vars => FdInv'
<1> SUFFICES ASSUME TypeOK, ServedInv, FdInv, [Next]_vars PROVE FdInv'
    OBVIOUS
<1> USE DEF TypeOK, ServedInv, FdInv, MainTo, ProdTo, ConsTo, netVars, statVars, memVars
<1>1. ASSUME NEW h \in Conns, Start(h) PROVE FdInv'
  <2>1. /\ fd[h] = NoConn /\ echoed' = echoed
        /\ \A g \in Conns : g # h => fd'[g] = fd[g] /\ main'[g] = main[g]
      BY <1>1 DEF Start
  <2>2. main'[h] = "loop"
      BY <1>1 DEF Start
  <2>3. ASSUME NEW c \in echoed PROVE \E g \in Conns : fd'[g] = c
    <3>1. PICK g \in Conns : fd[g] = c
        OBVIOUS
    <3>2. c \in Conns
        OBVIOUS
    <3> QED BY <2>1, <3>1, <3>2, ConstantsAssumption
  <2> QED BY <2>1, <2>2, <2>3
<1>2. ASSUME NEW h \in Conns, EnterRead(h) PROVE FdInv'
    BY <1>2 DEF EnterRead
<1>3. ASSUME NEW h \in Conns, ReadEnd(h) PROVE FdInv'
    BY <1>3 DEF ReadEnd
<1>4. ASSUME NEW h \in Conns, Lock(h) PROVE FdInv'
    BY <1>4 DEF Lock
<1>5. ASSUME NEW h \in Conns, Compute(h) PROVE FdInv'
    BY <1>5 DEF Compute
<1>6. ASSUME NEW h \in Conns, ComputeHash(h) PROVE FdInv'
    BY <1>6 DEF ComputeHash
<1>7. ASSUME NEW h \in Conns, ComputeTraps(h) PROVE FdInv'
    BY <1>7 DEF ComputeTraps
<1>8. ASSUME NEW h \in Conns, UpdateStats(h) PROVE FdInv'
    BY <1>8 DEF UpdateStats
<1>9. ASSUME NEW h \in Conns, Publish(h) PROVE FdInv'
    BY <1>9 DEF Publish
<1>10. ASSUME NEW h \in Conns, Check(h) PROVE FdInv'
    BY <1>10 DEF Check
<1>11. ASSUME NEW h \in Conns, JoinAndFree(h) PROVE FdInv'
    BY <1>11 DEF JoinAndFree
<1>12. ASSUME NEW h \in Conns, ProducerLock(h) PROVE FdInv'
    BY <1>12 DEF ProducerLock
<1>13. ASSUME NEW h \in Conns, ProducerUnlock(h) PROVE FdInv'
    BY <1>13 DEF ProducerUnlock
<1>14. ASSUME NEW h \in Conns, ProducerCheck(h) PROVE FdInv'
    BY <1>14 DEF ProducerCheck
<1>15. ASSUME NEW h \in Conns, ConsumerLock(h) PROVE FdInv'
    BY <1>15 DEF ConsumerLock
<1>16. ASSUME NEW h \in Conns, Send(h) PROVE FdInv'
    BY <1>16 DEF Send
<1>17. ASSUME NEW h \in Conns, SendIsFatal(h) PROVE FdInv'
    BY <1>17 DEF SendIsFatal
<1>18. ASSUME NEW h \in Conns, ConsumerCheck(h) PROVE FdInv'
    BY <1>18 DEF ConsumerCheck
<1>19. ASSUME NEW h \in Conns, Accept(h) PROVE FdInv'
    BY <1>19 DEF Accept
<1>20. ASSUME NEW h \in Conns, ClientLeaves(h) PROVE FdInv'
    BY <1>20 DEF ClientLeaves
<1>21. ASSUME NEW h \in Conns, NEW r \in Requests, ReadRequest(h, r) PROVE FdInv'
    BY <1>21 DEF ReadRequest
<1>22. CASE AcceptFails
    BY <1>22 DEF AcceptFails
<1>23. CASE UNCHANGED vars
    BY <1>23 DEF vars
<1> QED
    BY <1>1, <1>2, <1>3, <1>4, <1>5, <1>6, <1>7, <1>8, <1>9, <1>10, <1>11, <1>12,
       <1>13, <1>14, <1>15, <1>16, <1>17, <1>18, <1>19, <1>20, <1>21, <1>22, <1>23
       DEF Next, Environment, HandlerStep, ProducerStep, ConsumerStep

LEMMA StepLeftInv == TypeOK /\ ServedInv /\ LeftInv /\ [Next]_vars => LeftInv'
<1> SUFFICES ASSUME TypeOK, ServedInv, LeftInv, [Next]_vars PROVE LeftInv'
    OBVIOUS
<1> USE DEF TypeOK, ServedInv, LeftInv, MainTo, ProdTo, ConsTo, netVars, statVars, memVars
<1>1. ASSUME NEW h \in Conns, Start(h) PROVE LeftInv'
    BY <1>1 DEF Start
<1>2. ASSUME NEW h \in Conns, EnterRead(h) PROVE LeftInv'
    BY <1>2 DEF EnterRead
<1>3. ASSUME NEW h \in Conns, ReadEnd(h) PROVE LeftInv'
    BY <1>3 DEF ReadEnd
<1>4. ASSUME NEW h \in Conns, Lock(h) PROVE LeftInv'
    BY <1>4 DEF Lock
<1>5. ASSUME NEW h \in Conns, Compute(h) PROVE LeftInv'
    BY <1>5 DEF Compute
<1>6. ASSUME NEW h \in Conns, ComputeHash(h) PROVE LeftInv'
    BY <1>6 DEF ComputeHash
<1>7. ASSUME NEW h \in Conns, ComputeTraps(h) PROVE LeftInv'
    BY <1>7 DEF ComputeTraps
<1>8. ASSUME NEW h \in Conns, UpdateStats(h) PROVE LeftInv'
    BY <1>8 DEF UpdateStats
<1>9. ASSUME NEW h \in Conns, Publish(h) PROVE LeftInv'
    BY <1>9 DEF Publish
<1>10. ASSUME NEW h \in Conns, Check(h) PROVE LeftInv'
    BY <1>10 DEF Check
<1>11. ASSUME NEW h \in Conns, JoinAndFree(h) PROVE LeftInv'
    BY <1>11 DEF JoinAndFree
<1>12. ASSUME NEW h \in Conns, ProducerLock(h) PROVE LeftInv'
    BY <1>12 DEF ProducerLock
<1>13. ASSUME NEW h \in Conns, ProducerUnlock(h) PROVE LeftInv'
    BY <1>13 DEF ProducerUnlock
<1>14. ASSUME NEW h \in Conns, ProducerCheck(h) PROVE LeftInv'
    BY <1>14 DEF ProducerCheck
<1>15. ASSUME NEW h \in Conns, ConsumerLock(h) PROVE LeftInv'
    BY <1>15 DEF ConsumerLock
<1>16. ASSUME NEW h \in Conns, Send(h) PROVE LeftInv'
    BY <1>16 DEF Send
<1>17. ASSUME NEW h \in Conns, SendIsFatal(h) PROVE LeftInv'
    BY <1>17 DEF SendIsFatal
<1>18. ASSUME NEW h \in Conns, ConsumerCheck(h) PROVE LeftInv'
    BY <1>18 DEF ConsumerCheck
<1>19. ASSUME NEW h \in Conns, Accept(h) PROVE LeftInv'
    BY <1>19 DEF Accept
<1>20. ASSUME NEW h \in Conns, ClientLeaves(h) PROVE LeftInv'
    BY <1>20 DEF ClientLeaves, EndOfStream
<1>21. ASSUME NEW h \in Conns, NEW r \in Requests, ReadRequest(h, r) PROVE LeftInv'
    BY <1>21 DEF ReadRequest
<1>22. CASE AcceptFails
    BY <1>22 DEF AcceptFails
<1>23. CASE UNCHANGED vars
    BY <1>23 DEF vars
<1> QED
    BY <1>1, <1>2, <1>3, <1>4, <1>5, <1>6, <1>7, <1>8, <1>9, <1>10, <1>11, <1>12,
       <1>13, <1>14, <1>15, <1>16, <1>17, <1>18, <1>19, <1>20, <1>21, <1>22, <1>23
       DEF Next, Environment, HandlerStep, ProducerStep, ConsumerStep

LEMMA StepEchoedInv ==
  TypeOK /\ ServedInv /\ QuitInv /\ FdInv /\ EchoedInv /\ [Next]_vars => EchoedInv'
<1> SUFFICES ASSUME TypeOK, ServedInv, QuitInv, FdInv, EchoedInv, [Next]_vars,
                    recycled' = {}, ~SharedConnection'
             PROVE  \A g \in Conns : Kept(g)'
    BY DEF EchoedInv, Kept
<1>r. recycled = {} /\ ~SharedConnection
  <2>1. fd' = fd \/ \E h \in Conns : Start(h)
      BY DEF vars, netVars, Next, Environment, HandlerStep, ProducerStep, ConsumerStep,
             AcceptFails, Accept, ClientLeaves, ReadRequest, Start, EnterRead, ReadEnd,
             Lock, Compute, ComputeHash, ComputeTraps, UpdateStats, Publish, Check,
             JoinAndFree, ProducerLock, ProducerUnlock, ProducerCheck, ConsumerLock,
             Send, SendIsFatal, ConsumerCheck
  <2>2. recycled \subseteq recycled'
      BY DEF vars, memVars, Next, Environment, HandlerStep, ProducerStep, ConsumerStep,
             AcceptFails, Accept, ClientLeaves, ReadRequest, Start, EnterRead, ReadEnd,
             Lock, Compute, ComputeHash, ComputeTraps, UpdateStats, Publish, Check,
             JoinAndFree, ProducerLock, ProducerUnlock, ProducerCheck, ConsumerLock,
             Send, SendIsFatal, ConsumerCheck
  <2>3. CASE fd' = fd
      BY <2>2, <2>3 DEF SharedConnection
  <2>4. ASSUME NEW h \in Conns, Start(h) PROVE ~SharedConnection
    <3>1. fd[h] = NoConn /\ \A g \in Conns : g # h => fd'[g] = fd[g]
        BY <2>4 DEF Start, MainTo, FdInv, TypeOK
    <3> QED BY <3>1 DEF SharedConnection
  <2> QED BY <2>1, <2>2, <2>3, <2>4
<1>e. \A g \in Conns : Kept(g)
    BY <1>r DEF EchoedInv, Kept
<1>f. \A g \in Conns : fd[g] \in echoed => cons[g] \in {"check", "done"}
    BY <1>e DEF Kept
<1>g. \A g \in Conns : fd[g] \in echoed => data[g].quit
    BY <1>e DEF Kept
<1>q. \A g \in Conns : data[g].quit => main[g] \in {"stats", "publish", "check", "join", "done"}
    BY <1>r DEF QuitInv
<1> USE DEF TypeOK, ServedInv, Kept, MainTo, ProdTo, ConsTo, netVars, statVars, memVars
<1>1. ASSUME NEW h \in Conns, Start(h) PROVE \A g \in Conns : Kept(g)'
  <2>1. fd[h] = NoConn /\ \A g \in Conns : g # h => fd'[g] = fd[g]
      BY <1>1 DEF Start, FdInv
  <2>2. latest \in Conns /\ fd'[h] = latest /\ echoed' = echoed
      BY <1>1 DEF Start
  <2>3. latest \notin echoed
    <3> SUFFICES ASSUME latest \in echoed PROVE FALSE
        OBVIOUS
    <3>1. PICK g \in Conns : fd[g] = latest
        BY DEF FdInv
    <3>2. g # h
        BY <2>1, <2>2, <3>1, ConstantsAssumption
    <3> QED BY <2>1, <2>2, <3>1, <3>2, ConstantsAssumption DEF SharedConnection
  <2> QED BY <1>1, <1>e, <2>1, <2>2, <2>3 DEF Start
<1>2. ASSUME NEW h \in Conns, EnterRead(h) PROVE \A g \in Conns : Kept(g)'
    BY <1>2, <1>e DEF EnterRead
<1>3. ASSUME NEW h \in Conns, ReadEnd(h) PROVE \A g \in Conns : Kept(g)'
    BY <1>3, <1>e DEF ReadEnd
<1>4. ASSUME NEW h \in Conns, Lock(h) PROVE \A g \in Conns : Kept(g)'
    BY <1>4, <1>e DEF Lock
<1>5. ASSUME NEW h \in Conns, Compute(h) PROVE \A g \in Conns : Kept(g)'
  <2>1. main[h] = "compute"
      BY <1>5 DEF Compute
  <2>2. fd[h] \notin echoed
      BY <1>g, <1>q, <2>1
  <2>3. /\ UNCHANGED <<fd, echoed, cons, closed>>
        /\ \A g \in Conns : g # h => data'[g] = data[g]
      BY <1>5 DEF Compute
  <2> QED BY <1>e, <2>2, <2>3
<1>6. ASSUME NEW h \in Conns, ComputeHash(h) PROVE \A g \in Conns : Kept(g)'
  <2>1. main[h] = "compute"
      BY <1>6 DEF ComputeHash
  <2>2. fd[h] \notin echoed
      BY <1>g, <1>q, <2>1
  <2>3. /\ UNCHANGED <<fd, echoed, cons, closed>>
        /\ \A g \in Conns : g # h => data'[g] = data[g]
      BY <1>6 DEF ComputeHash
  <2> QED BY <1>e, <2>2, <2>3
<1>7. ASSUME NEW h \in Conns, ComputeTraps(h) PROVE \A g \in Conns : Kept(g)'
    BY <1>7, <1>e DEF ComputeTraps
<1>8. ASSUME NEW h \in Conns, UpdateStats(h) PROVE \A g \in Conns : Kept(g)'
    BY <1>8, <1>e DEF UpdateStats
<1>9. ASSUME NEW h \in Conns, Publish(h) PROVE \A g \in Conns : Kept(g)'
    BY <1>9, <1>e DEF Publish, Published
<1>10. ASSUME NEW h \in Conns, Check(h) PROVE \A g \in Conns : Kept(g)'
    BY <1>10, <1>e DEF Check
<1>11. ASSUME NEW h \in Conns, JoinAndFree(h) PROVE \A g \in Conns : Kept(g)'
    BY <1>11, <1>e DEF JoinAndFree
<1>12. ASSUME NEW h \in Conns, ProducerLock(h) PROVE \A g \in Conns : Kept(g)'
    BY <1>12, <1>e DEF ProducerLock
<1>13. ASSUME NEW h \in Conns, ProducerUnlock(h) PROVE \A g \in Conns : Kept(g)'
    BY <1>13, <1>e DEF ProducerUnlock
<1>14. ASSUME NEW h \in Conns, ProducerCheck(h) PROVE \A g \in Conns : Kept(g)'
    BY <1>14, <1>e DEF ProducerCheck
<1>15. ASSUME NEW h \in Conns, ConsumerLock(h) PROVE \A g \in Conns : Kept(g)'
    BY <1>15, <1>e DEF ConsumerLock
<1>16. ASSUME NEW h \in Conns, Send(h) PROVE \A g \in Conns : Kept(g)'
  <2>1. fd[h] \in Conns /\ fd' = fd /\ data' = data /\ closed' = closed
      BY <1>16 DEF Send
  <2>2. \A g \in Conns : g # h => fd[g] # fd[h] /\ cons'[g] = cons[g]
      BY <1>16, <1>r, <2>1, ConstantsAssumption DEF Send, SharedConnection
  <2>3. echoed' = echoed \/ (echoed' = echoed \cup {fd[h]} /\ data[h].quit)
      BY <1>16 DEF Send
  <2>4. cons'[h] = "check" /\ cons[h] \notin {"check", "done"}
      BY <1>16 DEF Send
  <2>5. fd[h] \notin echoed
      BY <1>f, <2>4
  <2> QED BY <1>e, <2>1, <2>2, <2>3, <2>4, <2>5
<1>17. ASSUME NEW h \in Conns, SendIsFatal(h) PROVE \A g \in Conns : Kept(g)'
    BY <1>17, <1>e DEF SendIsFatal
<1>18. ASSUME NEW h \in Conns, ConsumerCheck(h) PROVE \A g \in Conns : Kept(g)'
    BY <1>18, <1>e DEF ConsumerCheck
<1>19. ASSUME NEW h \in Conns, Accept(h) PROVE \A g \in Conns : Kept(g)'
    BY <1>19, <1>e DEF Accept
<1>20. ASSUME NEW h \in Conns, ClientLeaves(h) PROVE \A g \in Conns : Kept(g)'
    BY <1>20, <1>e DEF ClientLeaves
<1>21. ASSUME NEW h \in Conns, NEW r \in Requests, ReadRequest(h, r) PROVE \A g \in Conns : Kept(g)'
    BY <1>21, <1>e DEF ReadRequest
<1>22. CASE AcceptFails
    BY <1>22, <1>e DEF AcceptFails
<1>23. CASE UNCHANGED vars
    BY <1>23, <1>e DEF vars
<1> QED
    BY <1>1, <1>2, <1>3, <1>4, <1>5, <1>6, <1>7, <1>8, <1>9, <1>10, <1>11, <1>12,
       <1>13, <1>14, <1>15, <1>16, <1>17, <1>18, <1>19, <1>20, <1>21, <1>22, <1>23
       DEF Next, Environment, HandlerStep, ProducerStep, ConsumerStep

LEMMA StepPolite ==
  ASSUME TypeOK, ServedInv, LeftInv, EchoedInv, PoliteClientsAreHarmless, [Next]_vars, FdInv
  PROVE  PoliteClientsAreHarmless'
<1> USE DEF PoliteClientsAreHarmless
<1>1. ASSUME NEW h \in Conns, SendIsFatal(h) PROVE PoliteClientsAreHarmless'
  <2>1. /\ cons[h] = "inside" /\ fd[h] \notin closed /\ fd[h] \in Conns
        /\ peer[fd[h]] = "reset"
        /\ UNCHANGED <<rude, fd, recycled>>
      BY <1>1 DEF SendIsFatal, ServedInv, netVars, memVars
  <2>2. fd[h] \in rude \cup echoed
      BY <2>1 DEF LeftInv
  <2>3. fd[h] \in echoed => recycled # {} \/ SharedConnection
    <3>1. cons[h] \notin {"check", "done"}
        BY <2>1
    <3> QED BY <2>1, <3>1 DEF EchoedInv, Kept
  <2> QED BY <2>1, <2>2, <2>3 DEF SharedConnection
<1>2. CASE \A h \in Conns : ~SendIsFatal(h)
  <2>1. life' # "sigpipe" \/ (life' = life /\ life # "up")
      BY <1>2 DEF vars, netVars, Next, Environment, HandlerStep, ProducerStep, ConsumerStep,
             AcceptFails, Accept, ClientLeaves, ReadRequest, Start, EnterRead, ReadEnd,
             Lock, Compute, ComputeHash, ComputeTraps, UpdateStats, Publish, Check,
             JoinAndFree, ProducerLock, ProducerUnlock, ProducerCheck, ConsumerLock,
             Send, SendIsFatal, ConsumerCheck
  <2>2. life' = life /\ life # "up" => UNCHANGED vars
      BY DEF Next
  <2> QED BY <2>1, <2>2 DEF vars, netVars, memVars, SharedConnection
<1> QED BY <1>1, <1>2

-----------------------------------------------------------------------------
LEMMA PacketInvariant == Spec => []PacketInv
<1>1. Init => PacketInv
  <2> SUFFICES ASSUME Init PROVE PacketInv
      OBVIOUS
  <2> USE DEF Init
  <2>1. ZeroRecord \in Records /\ Coherent(ZeroRecord)
      BY DEF ZeroRecord, Records, Outcomes, Coherent
  <2>2. TypeOK
      BY <2>1 DEF TypeOK, MainLocations, HelperLocations, Outcomes
  <2>3. ServedInv /\ MutexInv
      BY DEF ServedInv, MutexInv
  <2>4. RecordInv
      BY <2>1 DEF RecordInv
  <2> QED BY <2>2, <2>3, <2>4 DEF PacketInv
<1>2. PacketInv /\ [Next]_vars => PacketInv'
    BY StepTypeOK, StepServedInv, StepMutexInv, StepRecordInv DEF PacketInv
<1> QED
    BY <1>1, <1>2, PTL DEF Spec

(* Every variable of the model keeps its type, the trap and the wedged     *)
(* mutex included.                                                         *)
THEOREM TypeCorrect == Spec => []TypeOK
<1>1. PacketInv => TypeOK
    BY DEF PacketInv
<1> QED
    BY PacketInvariant, <1>1, PTL

(* However many connections there are, a consumer never sends a result     *)
(* without the extrema that take it into account: t_lock covers the update *)
(* of server_cal_data from its result to its max and min.                  *)
THEOREM PacketsAreCoherent == Spec => []PacketCoherent
<1>1. PacketInv => PacketCoherent
  <2> SUFFICES ASSUME PacketInv, NEW h \in Conns, cons[h] = "inside"
               PROVE  Coherent(data[h])
      BY DEF PacketCoherent, Coherent
  <2>1. main[h] \notin {"stats", "publish"}
      BY DEF PacketInv, MutexInv
  <2> QED BY <2>1 DEF PacketInv, RecordInv
<1> QED
    BY PacketInvariant, <1>1, PTL

(* The extrema that all connections share are updated as RunningExtrema    *)
(* prescribes, whatever the interleaving of the threads.                   *)
THEOREM StatsRefineExtrema == Spec => StatsImplementExtrema
<1> USE DEF Extrema!EInit, Extrema!ENext, Extrema!evars, Extrema!Record,
            Extrema!NewLo, Extrema!NewHi, Extrema!Unset
<1>1. Init => Extrema!EInit
    BY DEF Init
<1>2. TypeOK /\ [Next]_vars => [Extrema!ENext]_(Extrema!evars)
  <2> SUFFICES ASSUME TypeOK, [Next]_vars
               PROVE  Extrema!ENext \/ UNCHANGED statVars
      BY DEF statVars
  <2>1. ASSUME NEW h \in Conns, UpdateStats(h) PROVE Extrema!ENext
    <3>1. data[h].result \in Outcomes
        BY DEF TypeOK, Records
    <3>2. Extrema!Record(data[h].result)
        BY <2>1 DEF UpdateStats
    <3> QED BY <3>1, <3>2
  <2>2. CASE UNCHANGED statVars
      BY <2>2
  <2>3. CASE ~UNCHANGED statVars
    <3>1. \E h \in Conns : UpdateStats(h)
        BY <2>3 DEF vars, Next, Environment, HandlerStep, ProducerStep, ConsumerStep,
             AcceptFails, Accept, ClientLeaves, ReadRequest, Start, EnterRead, ReadEnd, Lock, Compute, ComputeHash, ComputeTraps, Publish, Check, JoinAndFree, ProducerLock, ProducerUnlock, ProducerCheck, ConsumerLock, Send, SendIsFatal, ConsumerCheck
    <3> QED BY <2>1, <3>1
  <2> QED BY <2>2, <2>3
<1> QED
    BY TypeCorrect, <1>1, <1>2, PTL DEF Spec, StatsImplementExtrema, Extrema!ESpec

(* However many connections there are, none is sent a range wider than     *)
(* that of the results of all of them: a range grows stale, never wrong.   *)
THEOREM PacketsStayWithinGlobals == Spec => []PacketWithinGlobals
<1>1. Init => RangeInv
    BY DEF Init, RangeInv, Within, ZeroRecord
<1>2. TypeOK /\ RangeInv /\ [Next]_vars => RangeInv'
    BY StepRangeInv
<1>3. RangeInv => PacketWithinGlobals
    BY DEF RangeInv, Within, PacketWithinGlobals
<1> QED
    BY TypeCorrect, <1>1, <1>2, <1>3, PTL DEF Spec

(* However many connections there are, a connection is closed only if its  *)
(* client has asked for it, or its handler found the quit request that an  *)
(* earlier one left in the memory malloc returned.                         *)
THEOREM HangsUpOnlyOnQuit == Spec => []HangsUpOnQuitOnly
<1>1. Init => QuitInv /\ HangsUpOnQuitOnly
    BY DEF Init, QuitInv, HangsUpOnQuitOnly, ZeroRecord
<1>2. TypeOK /\ QuitInv /\ HangsUpOnQuitOnly /\ [Next]_vars
        => QuitInv' /\ HangsUpOnQuitOnly'
    BY StepQuitInv, StepHangsUp
<1> QED
    BY TypeCorrect, <1>1, <1>2, PTL DEF Spec

(* Once a handler has gone round its loop with t_lock, no result is        *)
(* recorded and no quit record is sent on any connection, ever.            *)
THEOREM HashStopsAll == Spec => HashStopsEveryone
<1>1. PacketInv => TypeOK /\ MutexInv
    BY DEF PacketInv
<1>2. TypeOK /\ MutexInv /\ [Next]_vars
        => [Wedged => Wedged' /\ UNCHANGED <<statVars, echoed>>]_vars
    BY StepWedged
<1> QED
    BY PacketInvariant, <1>1, <1>2, PTL DEF Spec, HashStopsEveryone

(* However many connections there are, only a client that leaves before it *)
(* is answered, a shared descriptor or a recycled record can end the       *)
(* server with SIGPIPE.                                                    *)
THEOREM PolitenessSuffices == Spec => []PoliteClientsAreHarmless
<1> DEFINE I == QuitInv /\ FdInv /\ LeftInv /\ EchoedInv /\ PoliteClientsAreHarmless
<1>1. Init => I
  <2> SUFFICES ASSUME Init PROVE I
      OBVIOUS
  <2>1. QuitInv
      BY DEF Init, QuitInv, ZeroRecord
  <2>2. FdInv /\ LeftInv /\ EchoedInv /\ PoliteClientsAreHarmless
      BY ConstantsAssumption
         DEF Init, FdInv, LeftInv, EchoedInv, Kept, PoliteClientsAreHarmless
  <2> QED BY <2>1, <2>2
<1>2. TypeOK /\ ServedInv /\ I /\ [Next]_vars => I'
    BY StepQuitInv, StepFdInv, StepLeftInv, StepEchoedInv, StepPolite
<1>3. PacketInv => TypeOK /\ ServedInv
    BY DEF PacketInv
<1>4. I => PoliteClientsAreHarmless
    OBVIOUS
<1> QED
    BY PacketInvariant, <1>1, <1>2, <1>3, <1>4, PTL DEF Spec
=============================================================================
