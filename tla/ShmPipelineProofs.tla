-------------------------- MODULE ShmPipelineProofs --------------------------
(***************************************************************************)
(* Proofs about the semaphores and the record of ShmPipeline, for all      *)
(* requests and faults.                                                    *)
(***************************************************************************)
EXTENDS ShmPipeline, TLAPS

LEMMA HalfTypes ==
  /\ Blank \in Halves
  /\ NoJob \in [front : Halves, back : Halves]
  /\ \A r \in Requests : r \in Halves
BY DEF Blank, NoJob, Halves

LEMMA HalfValue ==
  ASSUME NEW r \in Halves, r.op = "calc"
  PROVE  r.value \in Outcomes
BY DEF Halves, Requests, Blank, Outcomes

LEMMA StepTypeOK == SemInv /\ [Next]_vars => TypeOK'
<1> SUFFICES ASSUME SemInv, [Next]_vars PROVE TypeOK'
    OBVIOUS
<1> USE DEF SemInv, TypeOK, AdjustInv, ConserveInv, SetupInv, Count, TriggerInside, ProducerInside1, ProducerInside2, ConsumerInside,
            sem1, sem2, memory
<1>1. CASE StartTrigger
    BY <1>1 DEF StartTrigger
<1>2. CASE TriggerWait
    BY <1>2 DEF TriggerWait, Wait
<1>3. CASE TriggerWaitFails
    BY <1>3 DEF TriggerWaitFails
<1>4. CASE WriteFront
    BY <1>4 DEF WriteFront
<1>5. CASE WriteBack
    BY <1>5 DEF WriteBack
<1>6. CASE TriggerSignal
    BY <1>6, HalfTypes DEF TriggerSignal, Signal
<1>7. CASE TriggerQuits
    BY <1>7, HalfTypes DEF TriggerQuits, TriggerEnds, Undo
<1>8. CASE KillTrigger
    BY <1>8, HalfTypes DEF KillTrigger, TriggerEnds, Undo
<1>9. CASE StartProducer
    BY <1>9 DEF StartProducer
<1>10. CASE SetSemaphore1
    BY <1>10 DEF SetSemaphore1, SetVal
<1>11. CASE SetSemaphore2
    BY <1>11 DEF SetSemaphore2, SetVal
<1>12. CASE ProducerWait1
    BY <1>12 DEF ProducerWait1, Wait
<1>13. CASE ReadFront
    BY <1>13 DEF ReadFront
<1>14. CASE ReadBack
    BY <1>14 DEF ReadBack
<1>15. CASE ProducerSignal1
    BY <1>15 DEF ProducerSignal1, Signal
<1>16. CASE ProducerWait2
    BY <1>16 DEF ProducerWait2, Wait
<1>17. CASE CopyJob
    BY <1>17 DEF CopyJob
<1>18. CASE Compute
  <2>1. job.front.op = "calc" => job.front.value \in Outcomes
      BY HalfValue
  <2>2. record' \in [front : Halves, back : Halves, result : Outcomes,
                     min : Outcomes, max : Outcomes]
      BY <1>18, <2>1 DEF Compute
  <2> QED BY <1>18, <2>2 DEF Compute
<1>19. CASE UpdateFirst
    BY <1>19 DEF UpdateFirst, Store, NewMin, NewMax
<1>20. CASE UpdateSecond
    BY <1>20 DEF UpdateSecond, Store, NewMin, NewMax
<1>21. CASE ProducerSignal2
    BY <1>21, HalfTypes DEF ProducerSignal2, Signal
<1>22. CASE ProducerQuits
    BY <1>22, HalfTypes DEF ProducerQuits, ProducerEnds, Undo
<1>23. CASE ProducerWaitFails
    BY <1>23, HalfTypes DEF ProducerWaitFails, ProducerEnds, Undo
<1>24. CASE ComputeTraps
    BY <1>24, HalfTypes DEF ComputeTraps, ProducerEnds, Undo
<1>25. CASE KillProducer
    BY <1>25, HalfTypes DEF KillProducer, ProducerEnds, Undo, LeftUndone
<1>26. CASE StartConsumer
    BY <1>26 DEF StartConsumer
<1>27. CASE ConsumerWait
    BY <1>27 DEF ConsumerWait, Wait
<1>28. CASE ConsumerWaitFails
    BY <1>28 DEF ConsumerWaitFails
<1>29. CASE PrintRecord
    BY <1>29 DEF PrintRecord
<1>30. CASE ConsumerSignal
    BY <1>30 DEF ConsumerSignal, Signal
<1>31. CASE ConsumerQuits
    BY <1>31 DEF ConsumerQuits, ConsumerEnds, Undo
<1>32. CASE KillConsumer
    BY <1>32 DEF KillConsumer, ConsumerEnds, Undo
<1>33. ASSUME NEW r \in Requests, ReadLine(r) PROVE TypeOK'
    BY <1>33, HalfTypes DEF ReadLine
<1>34. CASE UNCHANGED vars
    BY <1>34 DEF vars
<1> QED
    BY <1>1, <1>2, <1>3, <1>4, <1>5, <1>6, <1>7, <1>8, <1>9, <1>10, <1>11, <1>12,
       <1>13, <1>14, <1>15, <1>16, <1>17, <1>18, <1>19, <1>20, <1>21, <1>22, <1>23, <1>24,
       <1>25, <1>26, <1>27, <1>28, <1>29, <1>30, <1>31, <1>32, <1>33, <1>34
       DEF Next, TriggerStep, ProducerStep, ConsumerStep, Environment

LEMMA StepAdjust == SemInv /\ [Next]_vars => AdjustInv'
<1> SUFFICES ASSUME SemInv, [Next]_vars PROVE AdjustInv'
    OBVIOUS
<1> USE DEF SemInv, TypeOK, AdjustInv, Count, TriggerInside, ProducerInside1, ProducerInside2, ConsumerInside,
            sem1, sem2, memory
<1>1. CASE StartTrigger
    BY <1>1 DEF StartTrigger
<1>2. CASE TriggerWait
    BY <1>2 DEF TriggerWait, Wait
<1>3. CASE TriggerWaitFails
    BY <1>3 DEF TriggerWaitFails, ConserveInv, SetupInv
<1>4. CASE WriteFront
    BY <1>4 DEF WriteFront
<1>5. CASE WriteBack
    BY <1>5 DEF WriteBack
<1>6. CASE TriggerSignal
    BY <1>6 DEF TriggerSignal, Signal
<1>7. CASE TriggerQuits
    BY <1>7 DEF TriggerQuits, TriggerEnds, Undo
<1>8. CASE KillTrigger
    BY <1>8 DEF KillTrigger, TriggerEnds, Undo
<1>9. CASE StartProducer
    BY <1>9 DEF StartProducer
<1>10. CASE SetSemaphore1
    BY <1>10 DEF SetSemaphore1, SetVal
<1>11. CASE SetSemaphore2
    BY <1>11 DEF SetSemaphore2, SetVal
<1>12. CASE ProducerWait1
    BY <1>12 DEF ProducerWait1, Wait
<1>13. CASE ReadFront
    BY <1>13 DEF ReadFront
<1>14. CASE ReadBack
    BY <1>14 DEF ReadBack
<1>15. CASE ProducerSignal1
    BY <1>15 DEF ProducerSignal1, Signal
<1>16. CASE ProducerWait2
    BY <1>16 DEF ProducerWait2, Wait
<1>17. CASE CopyJob
    BY <1>17 DEF CopyJob
<1>18. CASE Compute
    BY <1>18 DEF Compute
<1>19. CASE UpdateFirst
    BY <1>19 DEF UpdateFirst, Store, NewMin, NewMax
<1>20. CASE UpdateSecond
    BY <1>20 DEF UpdateSecond, Store, NewMin, NewMax
<1>21. CASE ProducerSignal2
    BY <1>21 DEF ProducerSignal2, Signal
<1>22. CASE ProducerQuits
    BY <1>22 DEF ProducerQuits, ProducerEnds, Undo
<1>23. CASE ProducerWaitFails
    BY <1>23 DEF ProducerWaitFails, ProducerEnds, Undo
<1>24. CASE ComputeTraps
    BY <1>24 DEF ComputeTraps, ProducerEnds, Undo
<1>25. CASE KillProducer
    BY <1>25 DEF KillProducer, ProducerEnds, Undo, LeftUndone
<1>26. CASE StartConsumer
    BY <1>26 DEF StartConsumer
<1>27. CASE ConsumerWait
    BY <1>27 DEF ConsumerWait, Wait
<1>28. CASE ConsumerWaitFails
    BY <1>28 DEF ConsumerWaitFails, ConserveInv, SetupInv
<1>29. CASE PrintRecord
    BY <1>29 DEF PrintRecord
<1>30. CASE ConsumerSignal
    BY <1>30 DEF ConsumerSignal, Signal
<1>31. CASE ConsumerQuits
    BY <1>31 DEF ConsumerQuits, ConsumerEnds, Undo
<1>32. CASE KillConsumer
    BY <1>32 DEF KillConsumer, ConsumerEnds, Undo
<1>33. ASSUME NEW r \in Requests, ReadLine(r) PROVE AdjustInv'
    BY <1>33 DEF ReadLine
<1>34. CASE UNCHANGED vars
    BY <1>34 DEF vars
<1> QED
    BY <1>1, <1>2, <1>3, <1>4, <1>5, <1>6, <1>7, <1>8, <1>9, <1>10, <1>11, <1>12,
       <1>13, <1>14, <1>15, <1>16, <1>17, <1>18, <1>19, <1>20, <1>21, <1>22, <1>23, <1>24,
       <1>25, <1>26, <1>27, <1>28, <1>29, <1>30, <1>31, <1>32, <1>33, <1>34
       DEF Next, TriggerStep, ProducerStep, ConsumerStep, Environment

LEMMA StepConserve == SemInv /\ [Next]_vars => ConserveInv'
<1> SUFFICES ASSUME SemInv, [Next]_vars PROVE ConserveInv'
    OBVIOUS
<1> USE DEF SemInv, TypeOK, AdjustInv, ConserveInv, SetupInv, Count, TriggerInside, ProducerInside1, ProducerInside2, ConsumerInside,
            sem1, sem2, memory
<1>1. CASE StartTrigger
    BY <1>1 DEF StartTrigger
<1>2. CASE TriggerWait
    BY <1>2 DEF TriggerWait, Wait
<1>3. CASE TriggerWaitFails
    BY <1>3 DEF TriggerWaitFails
<1>4. CASE WriteFront
    BY <1>4 DEF WriteFront
<1>5. CASE WriteBack
    BY <1>5 DEF WriteBack
<1>6. CASE TriggerSignal
    BY <1>6 DEF TriggerSignal, Signal
<1>7. CASE TriggerQuits
    BY <1>7 DEF TriggerQuits, TriggerEnds, Undo
<1>8. CASE KillTrigger
    BY <1>8 DEF KillTrigger, TriggerEnds, Undo
<1>9. CASE StartProducer
    BY <1>9 DEF StartProducer
<1>10. CASE SetSemaphore1
    BY <1>10 DEF SetSemaphore1, SetVal
<1>11. CASE SetSemaphore2
    BY <1>11 DEF SetSemaphore2, SetVal
<1>12. CASE ProducerWait1
    BY <1>12 DEF ProducerWait1, Wait
<1>13. CASE ReadFront
    BY <1>13 DEF ReadFront
<1>14. CASE ReadBack
    BY <1>14 DEF ReadBack
<1>15. CASE ProducerSignal1
    BY <1>15 DEF ProducerSignal1, Signal
<1>16. CASE ProducerWait2
    BY <1>16 DEF ProducerWait2, Wait
<1>17. CASE CopyJob
    BY <1>17 DEF CopyJob
<1>18. CASE Compute
    BY <1>18 DEF Compute
<1>19. CASE UpdateFirst
    BY <1>19 DEF UpdateFirst, Store, NewMin, NewMax
<1>20. CASE UpdateSecond
    BY <1>20 DEF UpdateSecond, Store, NewMin, NewMax
<1>21. CASE ProducerSignal2
    BY <1>21 DEF ProducerSignal2, Signal
<1>22. CASE ProducerQuits
    BY <1>22 DEF ProducerQuits, ProducerEnds, Undo
<1>23. CASE ProducerWaitFails
    BY <1>23 DEF ProducerWaitFails, ProducerEnds, Undo
<1>24. CASE ComputeTraps
    BY <1>24 DEF ComputeTraps, ProducerEnds, Undo
<1>25. CASE KillProducer
    BY <1>25 DEF KillProducer, ProducerEnds, Undo, LeftUndone
<1>26. CASE StartConsumer
    BY <1>26 DEF StartConsumer
<1>27. CASE ConsumerWait
    BY <1>27 DEF ConsumerWait, Wait
<1>28. CASE ConsumerWaitFails
    BY <1>28 DEF ConsumerWaitFails
<1>29. CASE PrintRecord
    BY <1>29 DEF PrintRecord
<1>30. CASE ConsumerSignal
    BY <1>30 DEF ConsumerSignal, Signal
<1>31. CASE ConsumerQuits
    BY <1>31 DEF ConsumerQuits, ConsumerEnds, Undo
<1>32. CASE KillConsumer
    BY <1>32 DEF KillConsumer, ConsumerEnds, Undo
<1>33. ASSUME NEW r \in Requests, ReadLine(r) PROVE ConserveInv'
    BY <1>33 DEF ReadLine
<1>34. CASE UNCHANGED vars
    BY <1>34 DEF vars
<1> QED
    BY <1>1, <1>2, <1>3, <1>4, <1>5, <1>6, <1>7, <1>8, <1>9, <1>10, <1>11, <1>12,
       <1>13, <1>14, <1>15, <1>16, <1>17, <1>18, <1>19, <1>20, <1>21, <1>22, <1>23, <1>24,
       <1>25, <1>26, <1>27, <1>28, <1>29, <1>30, <1>31, <1>32, <1>33, <1>34
       DEF Next, TriggerStep, ProducerStep, ConsumerStep, Environment

LEMMA StepSetup == SemInv /\ [Next]_vars => SetupInv'
<1> SUFFICES ASSUME SemInv, [Next]_vars PROVE SetupInv'
    OBVIOUS
<1> USE DEF SemInv, TypeOK, SetupInv, sem1, sem2, memory
<1>1. CASE StartTrigger
    BY <1>1 DEF StartTrigger
<1>2. CASE TriggerWait
    BY <1>2 DEF TriggerWait, Wait
<1>3. CASE TriggerWaitFails
    BY <1>3 DEF TriggerWaitFails
<1>4. CASE WriteFront
    BY <1>4 DEF WriteFront
<1>5. CASE WriteBack
    BY <1>5 DEF WriteBack
<1>6. CASE TriggerSignal
    BY <1>6 DEF TriggerSignal, Signal
<1>7. CASE TriggerQuits
    BY <1>7 DEF TriggerQuits, TriggerEnds, Undo
<1>8. CASE KillTrigger
    BY <1>8 DEF KillTrigger, TriggerEnds, Undo
<1>9. CASE StartProducer
    BY <1>9 DEF StartProducer
<1>10. CASE SetSemaphore1
    BY <1>10 DEF SetSemaphore1, SetVal
<1>11. CASE SetSemaphore2
    BY <1>11 DEF SetSemaphore2, SetVal
<1>12. CASE ProducerWait1
    BY <1>12 DEF ProducerWait1, Wait
<1>13. CASE ReadFront
    BY <1>13 DEF ReadFront
<1>14. CASE ReadBack
    BY <1>14 DEF ReadBack
<1>15. CASE ProducerSignal1
    BY <1>15 DEF ProducerSignal1, Signal
<1>16. CASE ProducerWait2
    BY <1>16 DEF ProducerWait2, Wait
<1>17. CASE CopyJob
    BY <1>17 DEF CopyJob
<1>18. CASE Compute
    BY <1>18 DEF Compute
<1>19. CASE UpdateFirst
    BY <1>19 DEF UpdateFirst, Store, NewMin, NewMax
<1>20. CASE UpdateSecond
    BY <1>20 DEF UpdateSecond, Store, NewMin, NewMax
<1>21. CASE ProducerSignal2
    BY <1>21 DEF ProducerSignal2, Signal
<1>22. CASE ProducerQuits
    BY <1>22 DEF ProducerQuits, ProducerEnds, Undo
<1>23. CASE ProducerWaitFails
    BY <1>23 DEF ProducerWaitFails, ProducerEnds, Undo
<1>24. CASE ComputeTraps
    BY <1>24 DEF ComputeTraps, ProducerEnds, Undo
<1>25. CASE KillProducer
    BY <1>25 DEF KillProducer, ProducerEnds, Undo, LeftUndone
<1>26. CASE StartConsumer
    BY <1>26 DEF StartConsumer
<1>27. CASE ConsumerWait
    BY <1>27 DEF ConsumerWait, Wait
<1>28. CASE ConsumerWaitFails
    BY <1>28 DEF ConsumerWaitFails
<1>29. CASE PrintRecord
    BY <1>29 DEF PrintRecord
<1>30. CASE ConsumerSignal
    BY <1>30 DEF ConsumerSignal, Signal
<1>31. CASE ConsumerQuits
    BY <1>31 DEF ConsumerQuits, ConsumerEnds, Undo
<1>32. CASE KillConsumer
    BY <1>32 DEF KillConsumer, ConsumerEnds, Undo
<1>33. ASSUME NEW r \in Requests, ReadLine(r) PROVE SetupInv'
    BY <1>33 DEF ReadLine
<1>34. CASE UNCHANGED vars
    BY <1>34 DEF vars
<1> QED
    BY <1>1, <1>2, <1>3, <1>4, <1>5, <1>6, <1>7, <1>8, <1>9, <1>10, <1>11, <1>12,
       <1>13, <1>14, <1>15, <1>16, <1>17, <1>18, <1>19, <1>20, <1>21, <1>22, <1>23, <1>24,
       <1>25, <1>26, <1>27, <1>28, <1>29, <1>30, <1>31, <1>32, <1>33, <1>34
       DEF Next, TriggerStep, ProducerStep, ConsumerStep, Environment

LEMMA SemImpliesExclusion == SemInv => Exclusion
BY DEF SemInv, TypeOK, AdjustInv, ConserveInv, Count, Exclusion

LEMMA StepWhole == SemInv /\ WholeInv /\ JobsWhole /\ [Next]_vars => (WholeInv /\ JobsWhole)'
<1> SUFFICES ASSUME SemInv, WholeInv, JobsWhole, [Next]_vars PROVE (WholeInv /\ JobsWhole)'
    OBVIOUS
<1> USE DEF WholeInv, JobsWhole, sem1, sem2, memory
<1>1. CASE StartTrigger
    BY <1>1 DEF StartTrigger
<1>2. CASE TriggerWait
    BY <1>2 DEF TriggerWait, Wait
<1>3. CASE TriggerWaitFails
    BY <1>3 DEF TriggerWaitFails
<1>4. CASE WriteFront
  <2>1. producer = "back" => "overlap" \in faults
      BY <1>4, SemImpliesExclusion DEF WriteFront, Exclusion, TriggerInside, ProducerInside1
  <2> QED BY <1>4, <2>1 DEF WriteFront
<1>5. CASE WriteBack
    BY <1>5 DEF WriteBack
<1>6. CASE TriggerSignal
    BY <1>6 DEF TriggerSignal, Signal
<1>7. CASE TriggerQuits
    BY <1>7 DEF TriggerQuits, TriggerEnds, Undo
<1>8. CASE KillTrigger
    BY <1>8 DEF KillTrigger, TriggerEnds, Undo
<1>9. CASE StartProducer
    BY <1>9 DEF StartProducer
<1>10. CASE SetSemaphore1
    BY <1>10 DEF SetSemaphore1, SetVal
<1>11. CASE SetSemaphore2
    BY <1>11 DEF SetSemaphore2, SetVal
<1>12. CASE ProducerWait1
    BY <1>12 DEF ProducerWait1, Wait
<1>13. CASE ReadFront
    BY <1>13 DEF ReadFront
<1>14. CASE ReadBack
  <2>1. trigger = "back" => "overlap" \in faults
      BY <1>14, SemImpliesExclusion DEF ReadBack, Exclusion, TriggerInside, ProducerInside1
  <2> QED BY <1>14, <2>1 DEF ReadBack
<1>15. CASE ProducerSignal1
    BY <1>15 DEF ProducerSignal1, Signal
<1>16. CASE ProducerWait2
    BY <1>16 DEF ProducerWait2, Wait
<1>17. CASE CopyJob
    BY <1>17 DEF CopyJob
<1>18. CASE Compute
    BY <1>18 DEF Compute
<1>19. CASE UpdateFirst
    BY <1>19 DEF UpdateFirst, Store, NewMin, NewMax
<1>20. CASE UpdateSecond
    BY <1>20 DEF UpdateSecond, Store, NewMin, NewMax
<1>21. CASE ProducerSignal2
    BY <1>21 DEF ProducerSignal2, Signal
<1>22. CASE ProducerQuits
    BY <1>22 DEF ProducerQuits, ProducerEnds, Undo
<1>23. CASE ProducerWaitFails
    BY <1>23 DEF ProducerWaitFails, ProducerEnds, Undo
<1>24. CASE ComputeTraps
    BY <1>24 DEF ComputeTraps, ProducerEnds, Undo
<1>25. CASE KillProducer
    BY <1>25 DEF KillProducer, ProducerEnds, Undo, LeftUndone
<1>26. CASE StartConsumer
    BY <1>26 DEF StartConsumer
<1>27. CASE ConsumerWait
    BY <1>27 DEF ConsumerWait, Wait
<1>28. CASE ConsumerWaitFails
    BY <1>28 DEF ConsumerWaitFails
<1>29. CASE PrintRecord
    BY <1>29 DEF PrintRecord
<1>30. CASE ConsumerSignal
    BY <1>30 DEF ConsumerSignal, Signal
<1>31. CASE ConsumerQuits
    BY <1>31 DEF ConsumerQuits, ConsumerEnds, Undo
<1>32. CASE KillConsumer
    BY <1>32 DEF KillConsumer, ConsumerEnds, Undo
<1>33. ASSUME NEW r \in Requests, ReadLine(r) PROVE (WholeInv /\ JobsWhole)'
    BY <1>33 DEF ReadLine
<1>34. CASE UNCHANGED vars
    BY <1>34 DEF vars
<1> QED
    BY <1>1, <1>2, <1>3, <1>4, <1>5, <1>6, <1>7, <1>8, <1>9, <1>10, <1>11, <1>12,
       <1>13, <1>14, <1>15, <1>16, <1>17, <1>18, <1>19, <1>20, <1>21, <1>22, <1>23, <1>24,
       <1>25, <1>26, <1>27, <1>28, <1>29, <1>30, <1>31, <1>32, <1>33, <1>34
       DEF Next, TriggerStep, ProducerStep, ConsumerStep, Environment

-----------------------------------------------------------------------------
LEMMA SemaphoreInvariant == Spec => [](SemInv /\ WholeInv /\ JobsWhole)
<1>1. Init => SemInv /\ WholeInv /\ JobsWhole
  <2> SUFFICES ASSUME Init PROVE SemInv /\ WholeInv /\ JobsWhole
      OBVIOUS
  <2> USE DEF Init
  <2>1. TypeOK
    <3>1. 0 \in Outcomes
        BY DEF Outcomes
    <3> QED BY <3>1, HalfTypes DEF TypeOK
  <2>2. AdjustInv /\ ConserveInv /\ SetupInv
      BY DEF AdjustInv, ConserveInv, SetupInv, Count, TriggerInside,
             ProducerInside1, ProducerInside2, ConsumerInside
  <2>3. WholeInv /\ JobsWhole
      BY DEF WholeInv, JobsWhole, NoJob
  <2> QED BY <2>1, <2>2, <2>3 DEF SemInv
<1>2. SemInv /\ WholeInv /\ JobsWhole /\ [Next]_vars => (SemInv /\ WholeInv /\ JobsWhole)'
  <2>1. SemInv /\ [Next]_vars => SemInv'
      BY StepTypeOK, StepAdjust, StepConserve, StepSetup DEF SemInv
  <2> QED BY <2>1, StepWhole
<1> QED
    BY <1>1, <1>2, PTL DEF Spec

(* In particular the semaphores stay between 0 and 2 and an adjustment     *)
(* between -1 and 1, whoever is killed, fails or starts again.             *)
THEOREM TypeCorrect == Spec => []TypeOK
<1>1. SemInv => TypeOK
    BY DEF SemInv
<1> QED
    BY SemaphoreInvariant, <1>1, PTL

(* Only a trigger or a consumer that went on after a failed semop, or was  *)
(* inside when a new producer set its semaphore, is ever inside together   *)
(* with the producer, and only until it ends.                              *)
THEOREM MutualExclusion == Spec => []Exclusion
<1> QED
    BY SemaphoreInvariant, SemImpliesExclusion, PTL

(* The kernel's undo makes up for everything: whatever was killed in       *)
(* whatever order, a semaphore whose users have ended stands at 1.         *)
THEOREM UndoHeals == Spec => []SemaphoresHeal
<1>1. SemInv => SemaphoresHeal
  <2> SUFFICES ASSUME SemInv PROVE SemaphoresHeal
      OBVIOUS
  <2> USE DEF SemInv, TypeOK, AdjustInv, ConserveInv, SemaphoresHeal, Count,
              TriggerInside, ProducerInside1, ProducerInside2, ConsumerInside
  <2>1. ASSUME ipc \in {"semaphore1", "ready"}, trigger = "off", producer = "off"
        PROVE  val1 = 1
      BY <2>1
  <2>2. ASSUME ipc = "ready", producer = "off", consumer = "off" PROVE val2 = 1
      BY <2>2
  <2> QED BY <2>1, <2>2
<1> QED
    BY SemaphoreInvariant, <1>1, PTL

(* The producer's copy of a request is all of one request, unless a        *)
(* trigger was killed between its two writes or the programs overlapped.   *)
THEOREM RequestsArriveWhole == Spec => []JobsWhole
<1> QED
    BY SemaphoreInvariant, PTL

-----------------------------------------------------------------------------
(* The inductive invariants behind ExtremaExact and PrintsCoherent.        *)

(* (0, 0) stands for "nothing recorded yet": something that was recorded   *)
(* is not zero.                                                            *)
NonZero == seen = {} \/ \E x \in seen : x # 0

(* The pair is exact but between the producer's two stores, where one half *)
(* of it is still what it was.                                             *)
UpdateInv == "extrema" \notin faults =>
  /\ producer = "min" => /\ record.min = 0 /\ record.max = record.result
                         /\ seen = (IF record.result = 0 THEN {} ELSE {record.result})
  /\ producer = "max" => /\ {record.min, record.max, record.result} \subseteq seen
                         /\ \A x \in seen : /\ record.min <= x
                                            /\ x <= record.max \/ x = record.result
                         /\ NonZero
  /\ producer \notin {"min", "max"} => Extrema!Extremal /\ NonZero

Fits   == record.front.op = "calc" => record.result = record.front.value
Ranges == record.min <= record.result /\ record.result <= record.max

(* The record belongs together from Compute on, its range from the second  *)
(* store on, unless a producer ended in between and the next one has not   *)
(* come round yet.                                                         *)
RecordInv ==
  /\ producer = "compute" => record.front = job.front /\ record.back = job.back
  /\ \/ producer \in {"first", "min", "max", "leave2"}
     \/ producer # "compute" /\ "record" \notin faults
     => Fits
  /\ "extrema" \notin faults =>
       (\/ producer = "leave2"
        \/ producer \notin {"first", "min", "max"} /\ "record" \notin faults
        => Ranges)

(* The result is an integer, and so are the extrema.                       *)
LEMMA Integers == TypeOK => /\ record.result \in Int /\ record.min \in Int /\ record.max \in Int
                            /\ seen \subseteq Int
<1>1. Outcomes \subseteq Int
    BY ConstantsAssumption DEF Outcomes
<1> QED BY <1>1 DEF TypeOK

LEMMA StepUpdate == SemInv /\ UpdateInv /\ [Next]_vars => UpdateInv'
<1> SUFFICES ASSUME SemInv, UpdateInv, [Next]_vars PROVE UpdateInv'
    OBVIOUS
<1>i. /\ record.result \in Int /\ record.min \in Int /\ record.max \in Int
      /\ seen \subseteq Int
    BY Integers DEF SemInv
<1> USE DEF UpdateInv, NonZero, Extrema!Extremal, sem1, sem2, memory
<1>1. CASE StartTrigger
    BY <1>1 DEF StartTrigger
<1>2. CASE TriggerWait
    BY <1>2 DEF TriggerWait, Wait
<1>3. CASE TriggerWaitFails
    BY <1>3 DEF TriggerWaitFails
<1>4. CASE WriteFront
    BY <1>4 DEF WriteFront
<1>5. CASE WriteBack
    BY <1>5 DEF WriteBack
<1>6. CASE TriggerSignal
    BY <1>6 DEF TriggerSignal, Signal
<1>7. CASE TriggerQuits
    BY <1>7 DEF TriggerQuits, TriggerEnds, Undo
<1>8. CASE KillTrigger
    BY <1>8 DEF KillTrigger, TriggerEnds, Undo
<1>9. CASE StartProducer
    BY <1>9 DEF StartProducer
<1>10. CASE SetSemaphore1
    BY <1>10 DEF SetSemaphore1, SetVal
<1>11. CASE SetSemaphore2
    BY <1>11 DEF SetSemaphore2, SetVal
<1>12. CASE ProducerWait1
    BY <1>12 DEF ProducerWait1, Wait
<1>13. CASE ReadFront
    BY <1>13 DEF ReadFront
<1>14. CASE ReadBack
    BY <1>14 DEF ReadBack
<1>15. CASE ProducerSignal1
    BY <1>15 DEF ProducerSignal1, Signal
<1>16. CASE ProducerWait2
    BY <1>16 DEF ProducerWait2, Wait
<1>17. CASE CopyJob
  <2>1. UNCHANGED <<seen, faults>> /\ record'.min = record.min /\ record'.max = record.max
      BY <1>17 DEF CopyJob
  <2> QED BY <1>17, <2>1 DEF CopyJob
<1>18. CASE Compute
  <2>1. UNCHANGED <<seen, faults>> /\ record'.min = record.min /\ record'.max = record.max
      BY <1>18 DEF Compute
  <2> QED BY <1>18, <2>1 DEF Compute
<1>19. CASE UpdateFirst
  <2> SUFFICES ASSUME "extrema" \notin faults PROVE UpdateInv'
      BY <1>19 DEF UpdateFirst
  <2>1. Extrema!Extremal /\ NonZero
      BY <1>19 DEF UpdateFirst
  <2>2. CASE Unset
    <3>1. seen = {}
        BY <1>i, <2>1, <2>2 DEF Unset
    <3>2. /\ producer' = "min" /\ record'.min = 0 /\ record'.max = record.result
          /\ record'.result = record.result
          /\ seen' = (IF record.result = 0 THEN {} ELSE {record.result})
        BY <1>19, <2>2, <3>1 DEF UpdateFirst, Store, Unset
    <3> QED BY <3>2
  <2>3. CASE ~Unset
    <3>1. seen # {}
        BY <2>1, <2>3 DEF Unset
    <3>2. /\ producer' = "max" /\ record'.min = NewMin /\ record'.max = record.max
          /\ record'.result = record.result
          /\ seen' = seen \cup {record.result}
        BY <1>19, <2>3, <3>1 DEF UpdateFirst, Store
    <3>a. /\ record.min \in seen /\ record.max \in seen
          /\ \A x \in seen : record.min <= x /\ x <= record.max
        BY <2>1, <3>1
    <3>b. /\ NewMin \in {record.result, record.min}
          /\ NewMin <= record.result /\ NewMin <= record.min
        BY <1>i DEF NewMin
    <3>3. NewMin \in seen'
        BY <3>2, <3>a, <3>b
    <3>4. \A x \in seen : NewMin <= x /\ x <= record.max
        BY <1>i, <3>a, <3>b
    <3>5. NonZero'
        BY <2>1, <3>1, <3>2
    <3>6. {record'.min, record'.max, record'.result} \subseteq seen'
        BY <3>2, <3>3, <3>a
    <3>7. \A x \in seen' : record'.min <= x /\ (x <= record'.max \/ x = record'.result)
        BY <3>2, <3>b, <3>4
    <3> QED BY <3>2, <3>5, <3>6, <3>7
  <2> QED BY <2>2, <2>3
<1>20. CASE UpdateSecond
  <2> SUFFICES ASSUME "extrema" \notin faults PROVE Extrema!Extremal' /\ NonZero'
      BY <1>20 DEF UpdateSecond
  <2>1. CASE producer = "min"
    <3>1. record'.min = record.result /\ record'.max = record.max /\ seen' = seen
        BY <1>20, <2>1 DEF UpdateSecond, Store
    <3> QED BY <1>i, <2>1, <3>1
  <2>2. CASE producer = "max"
    <3>1. record'.min = record.min /\ record'.max = NewMax /\ seen' = seen
        BY <1>20, <2>2 DEF UpdateSecond, Store
    <3> QED BY <1>i, <2>2, <3>1 DEF NewMax
  <2> QED BY <1>20, <2>1, <2>2 DEF UpdateSecond
<1>21. CASE ProducerSignal2
    BY <1>21 DEF ProducerSignal2, Signal
<1>22. CASE ProducerQuits
    BY <1>22 DEF ProducerQuits, ProducerEnds, Undo
<1>23. CASE ProducerWaitFails
    BY <1>23 DEF ProducerWaitFails, ProducerEnds, Undo
<1>24. CASE ComputeTraps
    BY <1>24 DEF ComputeTraps, ProducerEnds, Undo
<1>25. CASE KillProducer
  <2> SUFFICES ASSUME "extrema" \notin faults' PROVE Extrema!Extremal' /\ NonZero'
      BY <1>25 DEF KillProducer, ProducerEnds
  <2>1. UNCHANGED <<record, seen>> /\ faults' = faults \cup LeftUndone
      BY <1>25 DEF KillProducer, ProducerEnds
  <2>2. CASE producer = "min"
    <3>1. record.result = record.min
        BY <2>1, <2>2 DEF LeftUndone
    <3> QED BY <2>1, <2>2, <3>1
  <2>3. CASE producer = "max"
    <3>1. ~(record.result > record.max)
        BY <2>1, <2>3 DEF LeftUndone
    <3> QED BY <1>i, <2>1, <2>3, <3>1
  <2> QED BY <2>1, <2>2, <2>3
<1>26. CASE StartConsumer
    BY <1>26 DEF StartConsumer
<1>27. CASE ConsumerWait
    BY <1>27 DEF ConsumerWait, Wait
<1>28. CASE ConsumerWaitFails
    BY <1>28 DEF ConsumerWaitFails
<1>29. CASE PrintRecord
    BY <1>29 DEF PrintRecord
<1>30. CASE ConsumerSignal
    BY <1>30 DEF ConsumerSignal, Signal
<1>31. CASE ConsumerQuits
    BY <1>31 DEF ConsumerQuits, ConsumerEnds, Undo
<1>32. CASE KillConsumer
    BY <1>32 DEF KillConsumer, ConsumerEnds, Undo
<1>33. ASSUME NEW r \in Requests, ReadLine(r) PROVE UpdateInv'
    BY <1>33 DEF ReadLine
<1>34. CASE UNCHANGED vars
    BY <1>34 DEF vars
<1> QED
    BY <1>1, <1>2, <1>3, <1>4, <1>5, <1>6, <1>7, <1>8, <1>9, <1>10, <1>11, <1>12,
       <1>13, <1>14, <1>15, <1>16, <1>17, <1>18, <1>19, <1>20, <1>21, <1>22, <1>23, <1>24,
       <1>25, <1>26, <1>27, <1>28, <1>29, <1>30, <1>31, <1>32, <1>33, <1>34
       DEF Next, TriggerStep, ProducerStep, ConsumerStep, Environment

LEMMA StepRecord ==
  SemInv /\ UpdateInv /\ RecordInv /\ [Next]_vars => RecordInv'
<1> SUFFICES ASSUME SemInv, UpdateInv, RecordInv, [Next]_vars PROVE RecordInv'
    OBVIOUS
<1>i. /\ record.result \in Int /\ record.min \in Int /\ record.max \in Int
      /\ seen \subseteq Int
    BY Integers DEF SemInv
<1> USE DEF RecordInv, Fits, Ranges, sem1, sem2, memory
<1>1. CASE StartTrigger
    BY <1>1 DEF StartTrigger
<1>2. CASE TriggerWait
    BY <1>2 DEF TriggerWait, Wait
<1>3. CASE TriggerWaitFails
    BY <1>3 DEF TriggerWaitFails
<1>4. CASE WriteFront
    BY <1>4 DEF WriteFront
<1>5. CASE WriteBack
    BY <1>5 DEF WriteBack
<1>6. CASE TriggerSignal
    BY <1>6 DEF TriggerSignal, Signal
<1>7. CASE TriggerQuits
    BY <1>7 DEF TriggerQuits, TriggerEnds, Undo
<1>8. CASE KillTrigger
    BY <1>8 DEF KillTrigger, TriggerEnds, Undo
<1>9. CASE StartProducer
    BY <1>9 DEF StartProducer
<1>10. CASE SetSemaphore1
    BY <1>10 DEF SetSemaphore1, SetVal
<1>11. CASE SetSemaphore2
    BY <1>11 DEF SetSemaphore2, SetVal
<1>12. CASE ProducerWait1
    BY <1>12 DEF ProducerWait1, Wait
<1>13. CASE ReadFront
    BY <1>13 DEF ReadFront
<1>14. CASE ReadBack
    BY <1>14 DEF ReadBack
<1>15. CASE ProducerSignal1
    BY <1>15 DEF ProducerSignal1, Signal
<1>16. CASE ProducerWait2
    BY <1>16 DEF ProducerWait2, Wait
<1>17. CASE CopyJob
    BY <1>17 DEF CopyJob
<1>18. CASE Compute
    BY <1>18 DEF Compute
<1>19. CASE UpdateFirst
  <2>1. /\ record'.front = record.front /\ record'.result = record.result
        /\ producer' \in {"min", "max"}
      BY <1>19 DEF UpdateFirst, Store
  <2> QED BY <1>19, <2>1 DEF UpdateFirst
<1>20. CASE UpdateSecond
  <2>1. /\ record'.front = record.front /\ record'.result = record.result
        /\ faults' = faults /\ producer' = "leave2"
      BY <1>20 DEF UpdateSecond, Store
  <2>2. Fits'
      BY <1>20, <2>1 DEF UpdateSecond
  <2>3. ASSUME "extrema" \notin faults PROVE Ranges'
    <3>1. CASE producer = "min"
        BY <1>20, <1>i, <2>3, <3>1 DEF UpdateSecond, Store, UpdateInv
    <3>2. CASE producer = "max"
      <4>1. record.min <= record.result
          BY <2>3, <3>2 DEF UpdateInv
      <4> QED BY <1>20, <1>i, <3>2, <4>1 DEF UpdateSecond, Store, NewMax
    <3> QED BY <1>20, <3>1, <3>2 DEF UpdateSecond
  <2> QED BY <2>1, <2>2, <2>3
<1>21. CASE ProducerSignal2
    BY <1>21 DEF ProducerSignal2, Signal
<1>22. CASE ProducerQuits
  <2>1. record.front.op # "calc"
      BY <1>22 DEF ProducerQuits, IsQuit
  <2> QED BY <1>22, <2>1 DEF ProducerQuits, ProducerEnds
<1>23. CASE ProducerWaitFails
    BY <1>23 DEF ProducerWaitFails, ProducerEnds, Undo
<1>24. CASE ComputeTraps
    BY <1>24 DEF ComputeTraps, ProducerEnds, Undo
<1>25. CASE KillProducer
    BY <1>25 DEF KillProducer, ProducerEnds, Undo, LeftUndone
<1>26. CASE StartConsumer
    BY <1>26 DEF StartConsumer
<1>27. CASE ConsumerWait
    BY <1>27 DEF ConsumerWait, Wait
<1>28. CASE ConsumerWaitFails
    BY <1>28 DEF ConsumerWaitFails
<1>29. CASE PrintRecord
    BY <1>29 DEF PrintRecord
<1>30. CASE ConsumerSignal
    BY <1>30 DEF ConsumerSignal, Signal
<1>31. CASE ConsumerQuits
    BY <1>31 DEF ConsumerQuits, ConsumerEnds, Undo
<1>32. CASE KillConsumer
    BY <1>32 DEF KillConsumer, ConsumerEnds, Undo
<1>33. ASSUME NEW r \in Requests, ReadLine(r) PROVE RecordInv'
    BY <1>33 DEF ReadLine
<1>34. CASE UNCHANGED vars
    BY <1>34 DEF vars
<1> QED
    BY <1>1, <1>2, <1>3, <1>4, <1>5, <1>6, <1>7, <1>8, <1>9, <1>10, <1>11, <1>12,
       <1>13, <1>14, <1>15, <1>16, <1>17, <1>18, <1>19, <1>20, <1>21, <1>22, <1>23, <1>24,
       <1>25, <1>26, <1>27, <1>28, <1>29, <1>30, <1>31, <1>32, <1>33, <1>34
       DEF Next, TriggerStep, ProducerStep, ConsumerStep, Environment

-----------------------------------------------------------------------------
LEMMA RecordInvariant == Spec => [](SemInv /\ UpdateInv /\ RecordInv)
<1>1. Init => UpdateInv /\ RecordInv
    BY DEF Init, UpdateInv, RecordInv, NonZero, Extrema!Extremal, Fits, Ranges, Blank
<1>2. SemInv /\ UpdateInv /\ RecordInv /\ [Next]_vars => UpdateInv' /\ RecordInv'
    BY StepUpdate, StepRecord
<1> QED
    BY SemaphoreInvariant, <1>1, <1>2, PTL DEF Spec

(* The extrema in the second segment are those of the results recorded,    *)
(* whatever results there are and however often producers are killed and   *)
(* started again, unless one was killed between its two stores.            *)
THEOREM SharedExtremaExact == Spec => []ExtremaExact
<1>1. UpdateInv => ExtremaExact
    BY DEF UpdateInv, ExtremaExact
<1> QED
    BY RecordInvariant, <1>1, PTL

(* An unspoiled consumer prints a result with its own numbers and within   *)
(* its own range: exclusion keeps the producer away while it looks, and    *)
(* the faults are the only way to leave a record half done behind.         *)
THEOREM PrintsBelongTogether == Spec => []PrintsCoherent
<1>1. SemInv /\ RecordInv => PrintsCoherent
  <2> SUFFICES ASSUME SemInv, RecordInv, consumer = "look", "consumer" \notin spoiled,
                      "record" \notin faults
               PROVE  Fits /\ ("extrema" \notin faults => Ranges)
      BY DEF PrintsCoherent, Fits, Ranges
  <2>1. ~ProducerInside2
      BY SemImpliesExclusion DEF Exclusion, ConsumerInside
  <2> QED BY <2>1 DEF RecordInv, ProducerInside2
<1> QED
    BY RecordInvariant, <1>1, PTL
==============================================================================
