--------------------------- MODULE OneShotProofs ---------------------------
(***************************************************************************)
(* Proofs about OneShotCalc, for every set of clients and of results and   *)
(* every number of slots.                                                  *)
(***************************************************************************)
EXTENDS OneShotCalc, RunningExtremaProofs, SequenceTheorems

(* Only the child that the parent waits for is still reading, and it has   *)
(* the parent's extrema; what is in the pipe is those with its result.     *)
KidInv ==
  /\ \A c \in Clients : kid[c].at = "read" =>
       /\ design = "forked" /\ pc = "pipe" /\ slots[1] = c /\ ~pipe.sent
       /\ kid[c].lo = lo /\ kid[c].hi = hi
  /\ pipe.sent =>
       /\ design = "forked" /\ pc = "pipe"
       /\ pipe.min = NewLo(pipe.result) /\ pipe.max = NewHi(pipe.result)

(* Only HW3 has to recognise "nothing yet"; HW2 knows by its counter.      *)
StartInv ==
  /\ design = "forked" => SentinelSound
  /\ turn = 1 /\ design # "forked" =>
       \A c \in Clients : answer[c].text = << >> /\ kid[c].at # "answer"

RangeInv ==
  /\ RangesNest
  /\ \A c \in Clients : kid[c].at = "answer" =>
       design = "forked" /\ Nested(kid[c].lo, kid[c].result, kid[c].hi)

-----------------------------------------------------------------------------
LEMMA RequestIsInt ==
  ASSUME NEW r \in Requests \cup {Nothing}
  PROVE  r.value \in Int
<1>1. CASE r \in [op : {"calc"}, value : Results]
    BY <1>1, ResultsAssumption
<1>2. CASE r \in [op : {"error", "trap"}, value : {0}] \cup {Nothing}
    BY <1>2 DEF Nothing
<1> QED
    BY <1>1, <1>2 DEF Requests

LEMMA NewIsInt ==
  ASSUME TypeOK, NEW r \in Int
  PROVE  NewLo(r) \in Int /\ NewHi(r) \in Int
BY DEF TypeOK, ETypeOK, NewLo, NewHi

LEMMA KidNewIsInt ==
  ASSUME TypeOK, NEW c \in Clients, NEW r \in Int
  PROVE  Kid(c)!NewLo(r) \in Int /\ Kid(c)!NewHi(r) \in Int
BY DEF TypeOK, Kid!NewLo, Kid!NewHi

LEMMA OneElement ==
  ASSUME NEW S, NEW x \in S
  PROVE  <<x>> \in Seq(S)
OBVIOUS

LEMMA Successor ==
  ASSUME NEW n \in Nat \ {0}
  PROVE  n + 1 \in Nat \ {0}
OBVIOUS

LEMMA NoRecordIsRecord ==
  NoRecord \in [min : Int, max : Int, result : Int, sent : BOOLEAN]
BY DEF NoRecord

LEMMA RecordIsInt ==
  ASSUME ETypeOK, NEW r \in Int, RecordInTurn(r)
  PROVE  ETypeOK'
<1>1. lo' \in Int /\ hi' \in Int
    BY DEF ETypeOK, RecordInTurn
<1>2. seen' \subseteq Int
  <2>1. CASE turn = 1
      BY <2>1 DEF RecordInTurn
  <2>2. CASE turn # 1
    <3>1. seen' \subseteq seen \cup {r} \cup {0}
        BY <2>2 DEF RecordInTurn
    <3> QED BY <3>1 DEF ETypeOK
  <2> QED BY <2>1, <2>2
<1> QED BY <1>1, <1>2 DEF ETypeOK

Answers(f) ==
  DOMAIN f = Clients /\ \A c \in Clients : f[c].result \in Int /\ f[c].min \in Int /\ f[c].max \in Int

LEMMA AnswersStay ==
  ASSUME NEW f, Answers(f), NEW c \in Clients,
         NEW r \in Int, NEW l \in Int, NEW h \in Int, NEW t
  PROVE  Answers([f EXCEPT ![c] = [result |-> r, min |-> l, max |-> h, text |-> t]])
BY DEF Answers

LEMMA InheritedIsKid ==
  ASSUME ETypeOK
  PROVE  Inherited \in [at : {"none", "read", "answer", "gone"}, lo : Int, hi : Int,
                        result : Int]
BY DEF ETypeOK, Inherited

LEMMA StepTypeOK == TypeOK /\ [Next]_vars => TypeOK'
<1> SUFFICES ASSUME TypeOK, [Next]_vars PROVE TypeOK'
    OBVIOUS
<1> USE DEF TypeOK, ETypeOK, clientVars, roundVars, forkVars, evars
<1>0. design' \in {"echo", "rounds", "forked"}
    BY DEF Next, ProgramStep, UserStep, vars
<1>a. backlog # << >> => Head(backlog) \in Clients /\ Tail(backlog) \in Seq(Clients)
    BY HeadTailProperties
<1>b. \A c \in Clients : /\ Append(backlog, c) \in Seq(Clients)
                        /\ Append(slots, c) \in Seq(Clients)
                        /\ inbox[c].value \in Int
    BY AppendProperties, RequestIsInt
<1>c. turn + 1 \in Nat \ {0}
    BY Successor
<1>d. backlog # << >> => <<Head(backlog)>> \in Seq(Clients)
    BY <1>a, OneElement
<1>e. NoRecord \in [min : Int, max : Int, result : Int, sent : BOOLEAN]
    BY NoRecordIsRecord
<1>1. ASSUME NEW c \in Clients, Connect(c) PROVE TypeOK'
  <2>1. backlog' \in Seq(Clients)
      BY <1>1, <1>b DEF Connect
  <2> QED BY <1>1, <1>0, <2>1 DEF Connect
<1>2. ASSUME NEW c \in Clients, Receive(c) PROVE TypeOK'
    BY <1>2, <1>0, ZenonT(60) DEF Receive
<1>3. ASSUME NEW c \in Clients, End(c) PROVE TypeOK'
    BY <1>3, <1>0 DEF End
<1>4. ASSUME NEW c \in Clients, SkipSlot(c) PROVE TypeOK'
  <2>1. turn' \in Nat \ {0}
    <3>1. turn' = turn + 1
        BY <1>4 DEF SkipSlot, Advance
    <3> QED BY <3>1, <1>c
  <2>2. buf' \in [1..MaxClients -> Clients \cup {Junk, ""}]
      BY <1>4 DEF SkipSlot
  <2> QED BY <1>4, <1>0, <2>1, <2>2 DEF SkipSlot, Close
<1>5. ASSUME NEW c \in Clients, ServeSlot(c) PROVE TypeOK'
  <2>1. turn' \in Nat \ {0}
    <3>1. turn' = turn + 1
        BY <1>5 DEF ServeSlot, Advance
    <3> QED BY <3>1, <1>c
  <2>2. buf' \in [1..MaxClients -> Clients \cup {Junk, ""}]
      BY <1>5 DEF ServeSlot
  <2>3. ETypeOK'
    <3>1. CASE design = "echo"
        BY <1>5, <3>1 DEF ServeSlot, evars
    <3>2. CASE design # "echo"
        BY <1>5, <3>2, <1>b, RecordIsInt DEF ServeSlot
    <3> QED BY <3>1, <3>2
  <2>4. DOMAIN answer' = Clients
      BY <1>5 DEF ServeSlot
  <2>5. \A d \in Clients :
           answer'[d].result \in Int /\ answer'[d].min \in Int /\ answer'[d].max \in Int
    <3>0. Answers(answer)
        BY DEF Answers
    <3>a. c \in Clients
        OBVIOUS
    <3>c. 0 \in Int
        BY ONLY SMT
    <3>b. \A r, l, h \in Int : \A t :
             Answers([answer EXCEPT ![c] = [result |-> r, min |-> l, max |-> h, text |-> t]])
        BY ONLY <3>a, <3>0, AnswersStay
    <3>1. CASE design = "echo"
      <4>1. answer' = [answer EXCEPT ![c] = [result |-> 0, min |-> 0, max |-> 0,
                                             text |-> Combined]]
          BY <1>5, <3>1 DEF ServeSlot
      <4>2. Answers(answer')
          BY ONLY <4>1, <3>c, <3>b, Zenon
      <4> QED BY <4>2 DEF Answers
    <3>2. CASE design # "echo"
      <4>1. answer' = [answer EXCEPT ![c] = [result |-> inbox[c].value, min |-> lo',
                                             max |-> hi', text |-> Combined]]
          BY <1>5, <3>2 DEF ServeSlot
      <4>a. inbox[c].value \in Int
          BY <1>b
      <4>b. lo' \in Int /\ hi' \in Int
          BY <2>3
      <4>2. Answers(answer')
          BY ONLY <4>1, <4>a, <4>b, <3>b, Zenon
      <4> QED BY <4>2 DEF Answers
    <3> QED BY <3>1, <3>2
  <2>6. inbox' \in [Clients -> Requests \cup {Nothing}] /\ open' \subseteq Clients
      BY <1>5 DEF ServeSlot, Close
  <2> QED BY <1>5, <1>0, <2>1, <2>2, <2>3, <2>4, <2>5, <2>6 DEF ServeSlot, Close
<1>6. ASSUME NEW c \in Clients, TrapSlot(c) PROVE TypeOK'
    BY <1>6, <1>0 DEF TrapSlot
<1>7. ASSUME NEW c \in Clients, KidHangsUp(c) PROVE TypeOK'
    BY <1>7, <1>0 DEF KidHangsUp, KidEnds, Close
<1>8. ASSUME NEW c \in Clients, KidRecords(c) PROVE TypeOK'
  <2>1. kid' \in [Clients -> [at : {"none", "read", "answer", "gone"}, lo : Int, hi : Int,
                            result : Int]]
      BY <1>8, <1>b, KidNewIsInt DEF KidRecords
  <2>2. pipe' \in [min : Int, max : Int, result : Int, sent : BOOLEAN]
      BY <1>8, <1>b, KidNewIsInt DEF KidRecords
  <2> QED BY <1>8, <1>0, <2>1, <2>2 DEF KidRecords
<1>9. ASSUME NEW c \in Clients, KidAnswers(c) PROVE TypeOK'
    BY <1>9, <1>0 DEF KidAnswers, KidEnds, Close
<1>10. ASSUME NEW c \in Clients, NEW r \in Requests, Ask(c, r) PROVE TypeOK'
    BY <1>10, <1>0 DEF Ask
<1>11. CASE AcceptSlot
  <2>1. backlog' \in Seq(Clients) /\ slots' \in Seq(Clients)
      BY <1>11, <1>a, <1>b DEF AcceptSlot
  <2> QED BY <1>11, <1>0, <2>1 DEF AcceptSlot
<1>12. CASE Fork
  <2>1. backlog' \in Seq(Clients) /\ slots' \in Seq(Clients)
      BY <1>12, <1>a, <1>d DEF Fork
  <2>2. kid' \in [Clients -> [at : {"none", "read", "answer", "gone"}, lo : Int, hi : Int,
                            result : Int]]
      BY <1>12, <1>a, InheritedIsKid DEF Fork
  <2>3. pc' \in {"accept", "serve", "pipe"}
      BY <1>12 DEF Fork
  <2> QED BY <1>12, <1>0, <2>1, <2>2, <2>3 DEF Fork
<1>13. CASE ForkFails
  <2>1. backlog' \in Seq(Clients)
      BY <1>13, <1>a DEF ForkFails
  <2> QED BY <1>13, <1>0, <2>1 DEF ForkFails, Close
<1>14. CASE AcceptFails
    BY <1>14, <1>0 DEF AcceptFails
<1>15. CASE PipeRead
  <2>1. ETypeOK'
      BY <1>15 DEF PipeRead
  <2>2. pipe' \in [min : Int, max : Int, result : Int, sent : BOOLEAN]
      BY <1>15, <1>e DEF PipeRead
  <2> QED BY <1>15, <1>0, <2>1, <2>2 DEF PipeRead
<1>16. CASE PipeEnds
    BY <1>16, <1>0 DEF PipeEnds
<1>17. CASE UNCHANGED vars
    BY <1>17 DEF vars
<1> QED
    BY <1>1, <1>2, <1>3, <1>4, <1>5, <1>6, <1>7, <1>8, <1>9, <1>10, <1>11, <1>12, <1>13, <1>14, <1>15, <1>16, <1>17
       DEF Next, ProgramStep, UserStep, RoundStep, ParentStep, KidStep

LEMMA InitTypeOK == Init => TypeOK
<1> SUFFICES ASSUME Init PROVE TypeOK
    OBVIOUS
<1>1. << >> \in Seq(Clients)
    OBVIOUS
<1>2. pipe \in [min : Int, max : Int, result : Int, sent : BOOLEAN]
    BY NoRecordIsRecord DEF Init
<1>3. Answers(answer)
    BY DEF Init, Answers, NoAnswer
<1>4. ETypeOK
    BY DEF Init, EInit, ETypeOK
<1>5. turn \in Nat \ {0} /\ buf \in [1..MaxClients -> Clients \cup {Junk, ""}]
    BY DEF Init
<1>6. kid \in [Clients -> [at : {"none", "read", "answer", "gone"}, lo : Int, hi : Int,
                           result : Int]]
    BY DEF Init, NoKid
<1> QED
    BY <1>1, <1>2, <1>3, <1>4, <1>5, <1>6 DEF Init, TypeOK, Answers

LEMMA TypeInvariant == Spec => []TypeOK
BY InitTypeOK, StepTypeOK, PTL DEF Spec

-----------------------------------------------------------------------------
(* The extrema and the ranges.                                             *)
Deep == KidInv /\ StartInv /\ RangeInv /\ Extremal

LEMMA InitDeep == Init => Deep
<1> SUFFICES ASSUME Init PROVE Deep
    OBVIOUS
<1>1. KidInv
    BY DEF Init, KidInv, NoKid, NoRecord
<1>2. StartInv
    BY DEF Init, EInit, StartInv, SentinelSound, Unset, NoKid, NoAnswer
<1>3. RangeInv
    BY DEF Init, RangeInv, RangesNest, NoKid, NoAnswer
<1>4. Extremal
    BY DEF Init, EInit, Extremal
<1> QED
    BY <1>1, <1>2, <1>3, <1>4 DEF Deep

(* What concerns the extrema and those who are told of them.               *)
told == <<design, evars, answer, kid, pipe>>

(* A step that touches none of that can disturb Deep only by pc, slots     *)
(* and turn.                                                               *)
LEMMA Untold ==
  ASSUME Deep, UNCHANGED told, KidInv', turn' = 1 => turn = 1
  PROVE  Deep'
<1> USE DEF told, evars, Deep
<1>1. StartInv'
    BY DEF StartInv, SentinelSound, Unset
<1>2. RangeInv'
    BY DEF RangeInv, RangesNest, Nested, Lowest, Highest
<1>3. Extremal'
    BY DEF Extremal
<1> QED
    BY <1>1, <1>2, <1>3

LEMMA Quiet ==
  ASSUME Deep, UNCHANGED told, UNCHANGED <<pc, slots, turn>>
  PROVE  Deep'
<1>1. KidInv'
    BY DEF Deep, KidInv, told, evars, NewLo, NewHi, Unset
<1> QED
    BY <1>1, Untold

(* If the range does not shrink, whoever was told one stays in it.         *)
LEMMA StillNested ==
  ASSUME TypeOK, NEW l \in Int, NEW r \in Int, NEW h \in Int, Nested(l, r, h),
         Lowest \in Int, Highest \in Int, Lowest' \in Int, Highest' \in Int,
         (Lowest = 0 /\ Highest = 0) \/ (Lowest' <= Lowest /\ Highest' >= Highest)
  PROVE  Nested(l, r, h)'
BY DEF Nested

LEMMA RangeIsInt ==
  ASSUME TypeOK
  PROVE  Lowest \in Int /\ Highest \in Int
BY DEF TypeOK, ETypeOK, Lowest, Highest

LEMMA NewContains ==
  ASSUME TypeOK, NEW r \in Int
  PROVE  /\ NewLo(r) <= r /\ r <= NewHi(r)
         /\ (lo = 0 /\ hi = 0) \/ (NewLo(r) <= lo /\ NewHi(r) >= hi)
<1>1. lo \in Int /\ hi \in Int
    BY DEF TypeOK, ETypeOK
<1> QED
    BY <1>1 DEF NewLo, NewHi, Unset

(* Those who were told a range, and the children about to tell one, need   *)
(* only be looked at if what they hold is new.                             *)
LEMMA RangesKept ==
  ASSUME TypeOK, TypeOK', Deep,
         (Lowest = 0 /\ Highest = 0) \/ (Lowest' <= Lowest /\ Highest' >= Highest),
         design' = design,
         \A d \in Clients :
            /\ \/ answer'[d] = answer[d]
               \/ Nested(answer[d].min, answer[d].result, answer[d].max)'
            /\ \/ kid'[d] = kid[d]
               \/ kid'[d].at = "answer" => design = "forked" /\ Nested(kid[d].lo, kid[d].result, kid[d].hi)'
  PROVE  RangeInv'
<1>a. /\ lo' \in Int /\ hi' \in Int
      /\ pipe' \in [min : Int, max : Int, result : Int, sent : BOOLEAN]
    BY DEF TypeOK, ETypeOK
<1>b. Lowest' \in Int /\ Highest' \in Int
    BY <1>a DEF Lowest, Highest
<1>0. /\ Lowest \in Int /\ Highest \in Int
      /\ Lowest' \in Int /\ Highest' \in Int
    BY RangeIsInt, <1>b
<1>1. ASSUME NEW d \in Clients, answer'[d].text # << >>
      PROVE  Nested(answer[d].min, answer[d].result, answer[d].max)'
  <2>1. CASE answer'[d] = answer[d]
    <3>1. Nested(answer[d].min, answer[d].result, answer[d].max)
        BY <1>1, <2>1 DEF Deep, RangeInv, RangesNest
    <3>2. answer[d].min \in Int /\ answer[d].result \in Int /\ answer[d].max \in Int
        BY DEF TypeOK
    <3> QED BY <1>0, <2>1, <3>1, <3>2 DEF Nested
  <2> QED BY <2>1
<1>2. ASSUME NEW d \in Clients, kid'[d].at = "answer"
      PROVE  design = "forked" /\ Nested(kid[d].lo, kid[d].result, kid[d].hi)'
  <2>1. CASE kid'[d] = kid[d]
    <3>1. design = "forked" /\ Nested(kid[d].lo, kid[d].result, kid[d].hi)
        BY <1>2, <2>1 DEF Deep, RangeInv
    <3>2. kid[d].lo \in Int /\ kid[d].result \in Int /\ kid[d].hi \in Int
        BY DEF TypeOK
    <3> QED BY <1>0, <2>1, <3>1, <3>2 DEF Nested
  <2> QED BY <1>2, <2>1
<1> QED
    BY <1>1, <1>2 DEF RangeInv, RangesNest

(* A round: the first result starts the extrema, the others widen them.    *)
LEMMA RoundExtremal ==
  ASSUME TypeOK, Extremal, NEW r \in Int, RecordInTurn(r)
  PROVE  /\ Extremal'
         /\ lo' <= r /\ r <= hi'
         /\ turn # 1 => lo' <= lo /\ hi <= hi'
<1>0. lo \in Int /\ hi \in Int /\ seen \subseteq Int
    BY DEF TypeOK, ETypeOK
<1>1. CASE turn = 1
    BY <1>1 DEF RecordInTurn, Extremal
<1>2. CASE turn # 1
  <2>1. lo' = (IF r < lo THEN r ELSE lo) /\ hi' = (IF r > hi THEN r ELSE hi)
      BY <1>2 DEF RecordInTurn
  <2>2. CASE seen = {}
    <3>1. seen' = {r, 0} /\ lo = 0 /\ hi = 0
        BY <1>2, <2>2 DEF RecordInTurn, Extremal
    <3>2. Extremal'
        BY <2>1, <3>1 DEF Extremal
    <3> QED BY <2>1, <3>1, <3>2, <1>0
  <2>3. CASE seen # {}
    <3>1. seen' = seen \cup {r}
        BY <1>2, <2>3 DEF RecordInTurn
    <3>2. Extremal'
      <4>1. lo \in seen /\ hi \in seen /\ \A x \in seen : lo <= x /\ x <= hi
          BY <2>3 DEF Extremal
      <4>2. seen' # {} /\ lo' \in seen' /\ hi' \in seen'
          BY <2>1, <3>1, <4>1
      <4>3. lo' <= lo /\ hi <= hi' /\ lo' <= r /\ r <= hi' /\ lo' \in Int /\ hi' \in Int
          BY <1>0, <2>1
      <4>4. ASSUME NEW x \in seen' PROVE lo' <= x /\ x <= hi'
        <5>1. x = r \/ x \in seen
            BY <3>1
        <5>2. CASE x = r
            BY <4>3, <5>2
        <5>3. CASE x \in seen
          <6>1. lo <= x /\ x <= hi /\ x \in Int
              BY <1>0, <4>1, <5>3
          <6> QED BY ONLY <1>0, <4>3, <6>1
        <5> QED BY <5>1, <5>2, <5>3
      <4> QED BY <4>2, <4>4 DEF Extremal
    <3> QED BY <1>0, <2>1, <3>2
  <2> QED BY <2>2, <2>3
<1> QED
    BY <1>1, <1>2

LEMMA StepDeep == TypeOK /\ TypeOK' /\ Deep /\ [Next]_vars => Deep'
<1> SUFFICES ASSUME TypeOK, TypeOK', Deep, [Next]_vars PROVE Deep'
    OBVIOUS
<1>0. design' = design
    BY DEF Next, ProgramStep, UserStep, vars
<1> USE DEF clientVars, roundVars, forkVars
<1>1. ASSUME NEW c \in Clients, Connect(c) PROVE Deep'
    BY <1>1, <1>0, Quiet DEF told, Connect
<1>2. ASSUME NEW c \in Clients, NEW r \in Requests, Ask(c, r) PROVE Deep'
    BY <1>2, <1>0, Quiet DEF told, Ask
<1>3. ASSUME NEW c \in Clients, Receive(c) PROVE Deep'
    BY <1>3, <1>0, Quiet DEF told, Receive
<1>4. ASSUME NEW c \in Clients, End(c) PROVE Deep'
    BY <1>4, <1>0, Quiet DEF told, End
<1>5. ASSUME NEW c \in Clients, TrapSlot(c) PROVE Deep'
    BY <1>5, <1>0, Quiet DEF told, TrapSlot
<1>6. CASE ForkFails
    BY <1>6, <1>0, Quiet DEF told, ForkFails
<1>7. CASE AcceptFails
    BY <1>7, <1>0, Quiet DEF told, AcceptFails
<1>8. CASE UNCHANGED vars
    BY <1>8, <1>0, Quiet DEF told, vars
<1>9. CASE AcceptSlot
  <2>1. UNCHANGED told /\ turn' = turn /\ design # "forked"
      BY <1>9, <1>0 DEF told, AcceptSlot, Rounds
  <2>2. KidInv'
      BY <2>1 DEF Deep, KidInv, told, evars, NewLo, NewHi, Unset
  <2> QED BY <2>1, <2>2, Untold
<1>10. ASSUME NEW c \in Clients, SkipSlot(c) PROVE Deep'
  <2>1. UNCHANGED told /\ UNCHANGED <<pc, slots>> /\ turn' = turn + 1
      BY <1>10, <1>0 DEF told, SkipSlot, Advance
  <2>2. KidInv'
      BY <2>1 DEF Deep, KidInv, told, evars, NewLo, NewHi, Unset
  <2>3. turn' # 1
    <3>1. turn \in Nat \ {0}
        BY DEF TypeOK
    <3> QED BY ONLY <2>1, <3>1
  <2> QED BY <2>1, <2>2, <2>3, Untold
<1>11. CASE PipeEnds
  <2>1. UNCHANGED told /\ UNCHANGED <<slots, turn>> /\ ~pipe.sent /\ kid[slots[1]].at = "gone"
      BY <1>11, <1>0 DEF told, PipeEnds, PipeAtEnd
  <2>2. \A c \in Clients : kid[c].at # "read"
      BY <2>1 DEF Deep, KidInv
  <2>3. KidInv'
      BY <2>1, <2>2 DEF KidInv, told
  <2> QED BY <2>1, <2>3, Untold
<1>12. ASSUME NEW c \in Clients, ServeSlot(c) PROVE Deep'
  <2>1. /\ design # "forked" /\ pipe' = pipe /\ kid' = kid /\ UNCHANGED <<pc, slots>>
        /\ turn' = turn + 1
      BY <1>12 DEF ServeSlot, Turn, Rounds, Advance
  <2>2. turn' # 1
    <3>1. turn \in Nat \ {0}
        BY DEF TypeOK
    <3> QED BY ONLY <2>1, <3>1
  <2>3. ~pipe.sent /\ \A d \in Clients : kid[d].at # "read" /\ kid[d].at # "answer"
      BY <2>1 DEF Deep, KidInv, RangeInv
  <2>4. KidInv' /\ StartInv'
      BY <1>0, <2>1, <2>2, <2>3 DEF KidInv, StartInv
  <2>5. CASE design = "echo"
    <3>1. UNCHANGED evars /\ answer' = [answer EXCEPT ![c] = [result |-> 0, min |-> 0, max |-> 0,
                                                             text |-> Combined]]
        BY <1>12, <2>5 DEF ServeSlot
    <3>2. Extremal'
        BY <3>1 DEF Deep, Extremal, evars
    <3>3. Lowest' = Lowest /\ Highest' = Highest
        BY <2>1, <3>1 DEF Lowest, Highest, evars
    <3>4. Lowest \in Int /\ Highest \in Int
        BY RangeIsInt
    <3>5. ASSUME NEW d \in Clients
          PROVE  \/ answer'[d] = answer[d]
                 \/ Nested(answer[d].min, answer[d].result, answer[d].max)'
      <4>1. CASE d = c
        <5>1. answer'[d].min = 0 /\ answer'[d].result = 0 /\ answer'[d].max = 0
            BY <3>1, <4>1 DEF TypeOK
        <5> QED BY <5>1 DEF Nested
      <4> QED BY <3>1, <4>1
    <3>6. RangeInv'
        BY <1>0, <2>1, <3>3, <3>4, <3>5, RangesKept
    <3> QED BY <2>4, <3>2, <3>6 DEF Deep
  <2>6. CASE design = "rounds"
    <3> DEFINE r == inbox[c].value
    <3>1. RecordInTurn(r) /\ answer' = [answer EXCEPT ![c] = [result |-> r, min |-> lo',
                                                             max |-> hi', text |-> Combined]]
        BY <1>12, <2>6 DEF ServeSlot
    <3>2. r \in Int
        BY RequestIsInt DEF TypeOK
    <3> HIDE DEF r
    <3>3. Extremal' /\ lo' <= r /\ r <= hi' /\ (turn # 1 => lo' <= lo /\ hi <= hi')
        BY <3>1, <3>2, RoundExtremal DEF Deep
    <3>4. Lowest = lo /\ Highest = hi /\ Lowest' = lo' /\ Highest' = hi'
        BY <2>1, <2>3 DEF Lowest, Highest
    <3>5. lo \in Int /\ hi \in Int /\ lo' \in Int /\ hi' \in Int
        BY DEF TypeOK, ETypeOK
    <3>6. Nested(answer[c].min, answer[c].result, answer[c].max)'
      <4>1. answer'[c].min = lo' /\ answer'[c].result = r /\ answer'[c].max = hi'
          BY <3>1 DEF TypeOK
      <4> QED BY <3>3, <3>4, <3>5, <4>1 DEF Nested
    <3>7. \A d \in Clients : d # c => answer'[d] = answer[d]
        BY <3>1
    <3>8. RangeInv'
      <4>1. CASE turn = 1
        <5>1. \A d \in Clients : d # c => answer'[d].text = << >>
            BY <2>1, <3>7, <4>1 DEF Deep, StartInv
        <5>2. \A d \in Clients : kid'[d].at # "answer"
            BY <2>1, <2>3
        <5> QED BY <3>6, <5>1, <5>2 DEF RangeInv, RangesNest
      <4>2. CASE turn # 1
        <5>1. Lowest' <= Lowest /\ Highest' >= Highest
            BY <3>3, <3>4, <3>5, <4>2
        <5>2. \A d \in Clients : \/ answer'[d] = answer[d]
                                  \/ Nested(answer[d].min, answer[d].result, answer[d].max)'
            BY <3>6, <3>7
        <5> QED BY <1>0, <2>1, <5>1, <5>2, RangesKept
      <4> QED BY <4>1, <4>2
    <3> QED BY <2>4, <3>3, <3>8 DEF Deep
  <2> QED BY <2>1, <2>5, <2>6 DEF TypeOK
<1>13. CASE Fork
  <2>1. /\ design = "forked" /\ pc = "accept" /\ backlog # << >>
        /\ kid' = [kid EXCEPT ![Head(backlog)] = Inherited]
        /\ slots' = <<Head(backlog)>> /\ pc' = "pipe"
        /\ UNCHANGED <<answer, pipe, evars>>
      BY <1>13 DEF Fork, Accepting, Forked
  <2>2. ~pipe.sent /\ \A d \in Clients : kid[d].at # "read"
      BY <2>1 DEF Deep, KidInv
  <2>3. ASSUME NEW d \in Clients
        PROVE  kid'[d] = kid[d] \/ (d = slots'[1] /\ kid'[d] = Inherited)
    <3>1. d \in DOMAIN kid
        BY DEF TypeOK
    <3> QED BY <2>1, <3>1
  <2>4. KidInv'
      BY <1>0, <2>1, <2>2, <2>3 DEF KidInv, Inherited, evars
  <2>5. StartInv' /\ Extremal'
      BY <1>0, <2>1 DEF Deep, StartInv, SentinelSound, Unset, Extremal, evars
  <2>6. Lowest' = Lowest /\ Highest' = Highest
      BY <2>1 DEF Lowest, Highest, evars
  <2>7. Lowest \in Int /\ Highest \in Int
      BY RangeIsInt
  <2>8. \A d \in Clients : kid'[d] = kid[d] \/ kid'[d].at # "answer"
      BY <2>3 DEF Inherited
  <2>9. RangeInv'
      BY <1>0, <2>1, <2>6, <2>7, <2>8, RangesKept
  <2> QED BY <2>4, <2>5, <2>9 DEF Deep
<1>14. ASSUME NEW c \in Clients, KidHangsUp(c) PROVE Deep'
  <2>1. /\ design = "forked" /\ UNCHANGED <<pc, slots, turn, answer, pipe, evars>>
        /\ kid' = [kid EXCEPT ![c] = [at |-> "gone", lo |-> kid[c].lo, hi |-> kid[c].hi,
                                      result |-> kid[c].result]]
      BY <1>14 DEF KidHangsUp, KidEnds, Forked
  <2>2. kid'[c].at = "gone" /\ \A d \in Clients : d # c => kid'[d] = kid[d]
      BY <2>1 DEF TypeOK
  <2>3. KidInv'
    <3>1. \A d \in Clients : kid'[d].at = "read" => kid[d].at = "read" /\ kid'[d] = kid[d]
        BY <2>2
    <3> QED BY <1>0, <2>1, <3>1 DEF Deep, KidInv, evars, NewLo, NewHi, Unset
  <2>4. StartInv' /\ Extremal'
      BY <1>0, <2>1 DEF Deep, StartInv, SentinelSound, Unset, Extremal, evars
  <2>5. Lowest' = Lowest /\ Highest' = Highest
      BY <2>1 DEF Lowest, Highest, evars
  <2>6. Lowest \in Int /\ Highest \in Int
      BY RangeIsInt
  <2>7. \A d \in Clients : kid'[d] = kid[d] \/ kid'[d].at # "answer"
      BY <2>2
  <2>8. RangeInv'
      BY <1>0, <2>1, <2>5, <2>6, <2>7, RangesKept
  <2> QED BY <2>3, <2>4, <2>8 DEF Deep
<1>15. ASSUME NEW c \in Clients, KidAnswers(c) PROVE Deep'
  <2>1. /\ design = "forked" /\ UNCHANGED <<pc, slots, turn, pipe, evars>>
        /\ kid' = [kid EXCEPT ![c] = [at |-> "gone", lo |-> kid[c].lo, hi |-> kid[c].hi,
                                      result |-> kid[c].result]]
      BY <1>15 DEF KidAnswers, KidEnds, Forked
  <2>2. kid'[c].at = "gone" /\ \A d \in Clients : d # c => kid'[d] = kid[d]
      BY <2>1 DEF TypeOK
  <2>3. KidInv'
    <3>1. \A d \in Clients : kid'[d].at = "read" => kid[d].at = "read" /\ kid'[d] = kid[d]
        BY <2>2
    <3> QED BY <1>0, <2>1, <3>1 DEF Deep, KidInv, evars, NewLo, NewHi, Unset
  <2>4. StartInv' /\ Extremal'
      BY <1>0, <2>1 DEF Deep, StartInv, SentinelSound, Unset, Extremal, evars
  <2>5. Lowest' = Lowest /\ Highest' = Highest
      BY <2>1 DEF Lowest, Highest, evars
  <2>6. Lowest \in Int /\ Highest \in Int
      BY RangeIsInt
  <2>7. /\ kid[c].at = "answer"
        /\ answer' = [answer EXCEPT ![c] = [result |-> kid[c].result, min |-> kid[c].lo,
                                            max |-> kid[c].hi, text |-> <<c>>]]
      BY <1>15 DEF KidAnswers
  <2>8. /\ answer'[c].result = kid[c].result /\ answer'[c].min = kid[c].lo
        /\ answer'[c].max = kid[c].hi
      BY <2>7 DEF TypeOK
  <2>9. Nested(kid[c].lo, kid[c].result, kid[c].hi)
      BY <2>7 DEF Deep, RangeInv
  <2>10. Nested(answer[c].min, answer[c].result, answer[c].max)'
      BY <2>5, <2>8, <2>9 DEF Nested
  <2>11. \A d \in Clients : \/ answer'[d] = answer[d]
                             \/ Nested(answer[d].min, answer[d].result, answer[d].max)'
      BY <2>7, <2>10
  <2>12. \A d \in Clients : kid'[d] = kid[d] \/ kid'[d].at # "answer"
      BY <2>2
  <2>13. RangeInv'
      BY <1>0, <2>5, <2>6, <2>11, <2>12, RangesKept
  <2> QED BY <2>3, <2>4, <2>13 DEF Deep
<1>16. ASSUME NEW c \in Clients, KidRecords(c) PROVE Deep'
  <2> DEFINE r == inbox[c].value
  <2>1. /\ design = "forked" /\ kid[c].at = "read" /\ UNCHANGED <<answer, pc, slots, turn, evars>>
        /\ kid' = [kid EXCEPT ![c] = [at |-> "answer", lo |-> Kid(c)!NewLo(r),
                                      hi |-> Kid(c)!NewHi(r), result |-> r]]
        /\ pipe' = [min |-> Kid(c)!NewLo(r), max |-> Kid(c)!NewHi(r), result |-> r, sent |-> TRUE]
      BY <1>16 DEF KidRecords, Forked
  <2>2. r \in Int
      BY RequestIsInt DEF TypeOK
  <2> HIDE DEF r
  <2>3. /\ pc = "pipe" /\ slots[1] = c /\ ~pipe.sent /\ kid[c].lo = lo /\ kid[c].hi = hi
        /\ \A d \in Clients : d # c => kid[d].at # "read"
      BY <2>1 DEF Deep, KidInv
  <2>4. Kid(c)!NewLo(r) = NewLo(r) /\ Kid(c)!NewHi(r) = NewHi(r)
      BY <2>3 DEF NewLo, NewHi, Unset, Kid!NewLo, Kid!NewHi, Kid!Unset
  <2>5. /\ pipe'.min = NewLo(r) /\ pipe'.max = NewHi(r) /\ pipe'.result = r /\ pipe'.sent
        /\ kid'[c].at = "answer" /\ kid'[c].lo = NewLo(r) /\ kid'[c].hi = NewHi(r)
        /\ kid'[c].result = r /\ \A d \in Clients : d # c => kid'[d] = kid[d]
      BY <2>1, <2>4 DEF TypeOK
  <2>7. KidInv'
    <3>1. \A d \in Clients : kid'[d].at # "read"
        BY <2>3, <2>5
    <3>2. /\ pipe'.min = (NewLo(pipe.result))' /\ pipe'.max = (NewHi(pipe.result))'
        BY <2>1, <2>5 DEF NewLo, NewHi, Unset, evars
    <3> QED BY <1>0, <2>1, <2>3, <3>1, <3>2 DEF KidInv
  <2>8. StartInv' /\ Extremal'
      BY <1>0, <2>1 DEF Deep, StartInv, SentinelSound, Unset, Extremal, evars
  <2>9. /\ Lowest = lo /\ Highest = hi /\ Lowest' = NewLo(r) /\ Highest' = NewHi(r)
      BY <2>3, <2>5 DEF Lowest, Highest
  <2>10. NewLo(r) \in Int /\ NewHi(r) \in Int
      BY <2>2, NewIsInt
  <2>11. Nested(kid[c].lo, kid[c].result, kid[c].hi)'
      BY <2>2, <2>5, <2>9, <2>10, NewContains DEF Nested
  <2>12. (Lowest = 0 /\ Highest = 0) \/ (Lowest' <= Lowest /\ Highest' >= Highest)
      BY <2>2, <2>9, NewContains
  <2>13. \A d \in Clients : kid'[d] = kid[d]
            \/ (design' = "forked" /\ Nested(kid[d].lo, kid[d].result, kid[d].hi)')
      BY <1>0, <2>1, <2>5, <2>11
  <2>14. RangeInv'
      BY <1>0, <2>1, <2>12, <2>13, RangesKept
  <2> QED BY <2>7, <2>8, <2>14 DEF Deep
<1>17. CASE PipeRead
  <2>1. /\ design = "forked" /\ pipe.sent /\ lo' = pipe.min /\ hi' = pipe.max
        /\ seen' = (IF seen = {} /\ pipe.result = 0 THEN {} ELSE seen \cup {pipe.result})
        /\ pipe' = NoRecord /\ UNCHANGED <<answer, kid>>
      BY <1>17 DEF PipeRead, Forked
  <2>2. /\ pipe.min = NewLo(pipe.result) /\ pipe.max = NewHi(pipe.result)
        /\ \A d \in Clients : kid[d].at # "read"
      BY <2>1 DEF Deep, KidInv
  <2>3. Record(pipe.result) /\ pipe.result \in Int
      BY <2>1, <2>2 DEF Record, TypeOK
  <2>4. EInv'
      BY <2>1, <2>3, RecordKeepsEInv DEF TypeOK, Deep, StartInv, EInv
  <2>5. ~pipe'.sent
      BY <2>1 DEF NoRecord
  <2>6. KidInv'
      BY <2>1, <2>2, <2>5 DEF KidInv
  <2>7. StartInv' /\ Extremal'
      BY <1>0, <2>1, <2>4 DEF StartInv, EInv
  <2>8. Lowest' = Lowest /\ Highest' = Highest
      BY <2>1, <2>5 DEF Lowest, Highest
  <2>9. Lowest \in Int /\ Highest \in Int
      BY RangeIsInt
  <2>10. RangeInv'
      BY <1>0, <2>1, <2>8, <2>9, RangesKept
  <2> QED BY <2>6, <2>7, <2>10 DEF Deep
<1> QED
    BY <1>1, <1>2, <1>3, <1>4, <1>5, <1>6, <1>7, <1>8, <1>9, <1>10, <1>11, <1>12, <1>13, <1>14, <1>15, <1>16, <1>17
       DEF Next, ProgramStep, UserStep, RoundStep, ParentStep, KidStep

LEMMA DeepInvariant == Spec => []Deep
BY TypeInvariant, InitDeep, StepDeep, PTL DEF Spec

-----------------------------------------------------------------------------
(* The texts.  A connection is in the backlog or in one slot, once.        *)
QueueInv ==
  /\ \A i \in 1..Len(backlog) : client[backlog[i]] # "off"
  /\ \A i, j \in 1..Len(backlog) : backlog[i] = backlog[j] => i = j
  /\ design # "forked" =>
       /\ \A i \in 1..Len(slots) :
             client[slots[i]] # "off" /\ \A q \in 1..Len(backlog) : slots[i] # backlog[q]
       /\ \A i, j \in 1..Len(slots) : slots[i] = slots[j] => i = j

(* HW1 and HW2 serve nobody before all slots are taken.                    *)
TurnInv ==
  /\ pc = "accept" => turn = 1
  /\ turn > 1 \/ pc = "serve" => Len(slots) = MaxClients
  /\ turn <= MaxClients + 1

(* What is in the buffers behind the turn is what their clients have       *)
(* contributed, and whoever has an answer was served: nobody can be served *)
(* a second time, which would change what others were told.                *)
TextInv ==
  /\ \A i \in 1..MaxClients : buf[i] = IF i < turn THEN Piece(i) ELSE Junk
  /\ \A c \in Clients : answer[c].text # << >> =>
       \E k \in 1..MaxClients :
          k < turn /\ slots[k] = c /\ answer[c].text = [i \in 1..k |-> Piece(i)]

ChildTextInv == \A c \in Clients : answer[c].text # << >> => answer[c].text = <<c>>

ConversationInv ==
  /\ QueueInv
  /\ IF design = "forked" THEN ChildTextInv ELSE TurnInv /\ TextInv

LEMMA AppendIs ==
  ASSUME NEW S, NEW s \in Seq(S), NEW x \in S
  PROVE  /\ Len(Append(s, x)) = Len(s) + 1
         /\ Append(s, x)[Len(s) + 1] = x
         /\ \A i \in 1..Len(s) : Append(s, x)[i] = s[i]
BY AppendProperties

LEMMA TailIs ==
  ASSUME NEW S, NEW s \in Seq(S), s # << >>
  PROVE  /\ Len(s) \in Nat \ {0} /\ Len(Tail(s)) = Len(s) - 1
         /\ Head(s) = s[1]
         /\ \A i \in 1..Len(s) - 1 : Tail(s)[i] = s[i + 1]
BY HeadTailProperties, EmptySeq, LenProperties

(* The queues change by a new connection, by taking the first, or not.     *)
LEMMA StepQueue == TypeOK /\ TypeOK' /\ QueueInv /\ [Next]_vars => QueueInv'
<1> SUFFICES ASSUME TypeOK, TypeOK', QueueInv, [Next]_vars PROVE QueueInv'
    OBVIOUS
<1> USE DEF clientVars, roundVars, forkVars
<1>0. /\ design' = design
      /\ backlog \in Seq(Clients) /\ slots \in Seq(Clients)
      /\ Len(backlog) \in Nat /\ Len(slots) \in Nat
      /\ client \in [Clients -> {"off", "idle", "asked", "answered", "ended"}]
    BY LenProperties DEF Next, ProgramStep, UserStep, vars, TypeOK
<1>a. /\ \A i \in 1..Len(backlog) : backlog[i] \in Clients
      /\ \A i \in 1..Len(slots) : slots[i] \in Clients
    BY <1>0, ElementOfSeq
<1>1. ASSUME NEW c \in Clients, Connect(c) PROVE QueueInv'
  <2> DEFINE n == Len(backlog)
  <2>1. /\ client[c] = "off" /\ client' = [client EXCEPT ![c] = "idle"]
        /\ backlog' = Append(backlog, c) /\ slots' = slots
      BY <1>1 DEF Connect
  <2>2. /\ Len(backlog') = n + 1 /\ backlog'[n + 1] = c
        /\ \A i \in 1..n : backlog'[i] = backlog[i]
      BY <1>0, <2>1, AppendIs
  <2>3. n \in Nat
      BY <1>0
  <2> HIDE DEF n
  <2>4. \A d \in Clients : client[d] # "off" => d # c /\ client'[d] # "off"
      BY <1>0, <2>1
  <2>5. client'[c] # "off"
      BY <1>0, <2>1
  <2>6. \A i \in 1..n : /\ backlog[i] # c /\ client'[backlog[i]] # "off"
                       /\ \A j \in 1..n : backlog[i] = backlog[j] => i = j
      BY <1>a, <2>4 DEF QueueInv, n
  <2>7. \A i \in 1..n + 1 : i = n + 1 \/ i \in 1..n
      BY <2>3
  <2>8. /\ \A i \in 1..n + 1 : client'[backlog'[i]] # "off"
        /\ \A i, j \in 1..n + 1 : backlog'[i] = backlog'[j] => i = j
      BY ONLY <2>2, <2>5, <2>6, <2>7
  <2>9. ASSUME design # "forked"
        PROVE  /\ \A i \in 1..Len(slots) : client'[slots[i]] # "off"
                     /\ \A q \in 1..n + 1 : slots[i] # backlog'[q]
               /\ \A i, j \in 1..Len(slots) : slots[i] = slots[j] => i = j
    <3>1. \A i \in 1..Len(slots) : slots[i] # c /\ client'[slots[i]] # "off"
                                  /\ \A q \in 1..n : slots[i] # backlog[q]
        BY <1>a, <2>4, <2>9 DEF QueueInv, n
    <3>2. \A i, j \in 1..Len(slots) : slots[i] = slots[j] => i = j
        BY <2>9 DEF QueueInv
    <3> QED BY ONLY <2>2, <2>7, <3>1, <3>2
  <2> QED BY <1>0, <2>1, <2>2, <2>8, <2>9 DEF QueueInv
<1>2. ASSUME backlog # << >>, backlog' = Tail(backlog), client' = client,
             \/ slots' = slots
             \/ slots' = Append(slots, Head(backlog))
             \/ design = "forked"
      PROVE  QueueInv'
  <2> DEFINE n == Len(backlog)
             m == Len(slots)
  <2>1. /\ n \in Nat \ {0} /\ Len(backlog') = n - 1 /\ Head(backlog) = backlog[1]
        /\ \A i \in 1..n - 1 : backlog'[i] = backlog[i + 1]
      BY <1>0, <1>2, TailIs
  <2>2. m \in Nat
      BY <1>0
  <2>a. backlog[1] \in Clients /\ client[backlog[1]] # "off"
      BY <1>a, <2>1 DEF QueueInv
  <2>3. \A i \in 1..n : /\ client[backlog[i]] # "off"
                       /\ \A j \in 1..n : backlog[i] = backlog[j] => i = j
      BY DEF QueueInv
  <2>4. design # "forked" =>
          \A i \in 1..m : /\ client[slots[i]] # "off"
                         /\ \A q \in 1..n : slots[i] # backlog[q]
                         /\ \A j \in 1..m : slots[i] = slots[j] => i = j
      BY DEF QueueInv
  <2>5. slots' = Append(slots, Head(backlog)) =>
          Len(slots') = m + 1 /\ slots'[m + 1] = backlog[1] /\ \A i \in 1..m : slots'[i] = slots[i]
      BY <1>0, <2>1, <2>a, AppendIs
  <2>b. slots' = slots => Len(slots') = m
      OBVIOUS
  <2>6. 1 \in 1..n /\ \A i \in 1..n - 1 : i + 1 \in 1..n /\ i + 1 # 1
      BY <2>1
  <2>7. \A i \in 1..m + 1 : i = m + 1 \/ i \in 1..m
      BY <2>2
  <2>c. client' = client
      BY <1>2
  <2> HIDE DEF n, m
  <2>8. \A i \in 1..n - 1 : client'[backlog'[i]] # "off"
      BY ONLY <2>1, <2>3, <2>6, <2>c
  <2>9. ASSUME NEW i \in 1..n - 1, NEW j \in 1..n - 1, backlog'[i] = backlog'[j]
        PROVE  i = j
    <3>1. i + 1 = j + 1
        BY <2>1, <2>3, <2>6, <2>9
    <3> QED BY <2>1, <3>1
  <2>10. ASSUME design # "forked"
         PROVE  /\ \A i \in 1..Len(slots') : client'[slots'[i]] # "off"
                      /\ \A q \in 1..n - 1 : slots'[i] # backlog'[q]
                /\ \A i, j \in 1..Len(slots') : slots'[i] = slots'[j] => i = j
    <3>1. CASE slots' = slots
        BY ONLY <3>1, <2>1, <2>4, <2>6, <2>b, <2>10, <2>c, SMTT(60)
    <3>2. CASE slots' = Append(slots, Head(backlog))
      <4>1. ASSUME NEW i \in 1..m
            PROVE  /\ client'[slots'[i]] # "off" /\ slots'[i] # backlog[1]
                   /\ \A q \in 1..n - 1 : slots'[i] # backlog'[q]
        <5>1. /\ slots'[i] = slots[i] /\ client[slots[i]] # "off"
              /\ \A q \in 1..n : slots[i] # backlog[q]
            BY ONLY <3>2, <2>4, <2>5, <2>10, i \in 1..m
        <5> QED BY ONLY <5>1, <2>1, <2>6, <2>c
      <4>2. client'[backlog[1]] # "off" /\ \A j \in 1..n - 1 : backlog[1] # backlog'[j]
          BY ONLY <2>1, <2>3, <2>6, <2>c
      <4>3. \A i, j \in 1..m : slots'[i] = slots'[j] => i = j
        <5>1. \A i \in 1..m : slots'[i] = slots[i]
            BY <3>2, <2>5
        <5>2. \A i, j \in 1..m : slots[i] = slots[j] => i = j
            BY <2>10 DEF QueueInv, m
        <5> QED BY ONLY <5>1, <5>2
      <4> QED BY ONLY <3>2, <2>5, <2>7, <4>1, <4>2, <4>3
    <3> QED BY <1>2, <2>10, <3>1, <3>2
  <2> QED BY <1>0, <2>1, <2>8, <2>9, <2>10 DEF QueueInv
<1>3. ASSUME UNCHANGED <<backlog, slots>>,
             \A d \in Clients : client[d] # "off" => client'[d] # "off"
      PROVE  QueueInv'
    BY <1>0, <1>a, <1>3 DEF QueueInv
<1>4. ASSUME NEW c \in Clients, NEW r \in Requests, Ask(c, r) PROVE QueueInv'
    BY <1>0, <1>3, <1>4 DEF Ask
<1>5. ASSUME NEW c \in Clients, Receive(c) PROVE QueueInv'
    BY <1>0, <1>3, <1>5 DEF Receive
<1>6. ASSUME NEW c \in Clients, End(c) PROVE QueueInv'
    BY <1>0, <1>3, <1>6 DEF End
<1>7. ASSUME NEW c \in Clients, SkipSlot(c) \/ ServeSlot(c) \/ TrapSlot(c) PROVE QueueInv'
    BY <1>3, <1>7 DEF SkipSlot, ServeSlot, TrapSlot, Close
<1>8. ASSUME NEW c \in Clients, KidStep(c) PROVE QueueInv'
    BY <1>3, <1>8 DEF KidStep, KidHangsUp, KidRecords, KidAnswers, KidEnds, Close
<1>9. CASE AcceptSlot
    BY <1>2, <1>9 DEF AcceptSlot
<1>10. CASE Fork
    BY <1>2, <1>10 DEF Fork, Accepting, Forked
<1>11. CASE ForkFails
    BY <1>2, <1>11 DEF ForkFails, Close
<1>12. CASE AcceptFails \/ PipeRead \/ PipeEnds
    BY <1>3, <1>12 DEF AcceptFails, PipeRead, PipeEnds
<1>13. CASE UNCHANGED vars
    BY <1>3, <1>13 DEF vars
<1> QED
    BY <1>1, <1>4, <1>5, <1>6, <1>7, <1>8, <1>9, <1>10, <1>11, <1>12, <1>13
       DEF Next, ProgramStep, UserStep, RoundStep, ParentStep

(* Contributions depend on who is in the slots and who has an answer.      *)
LEMMA PieceStays ==
  ASSUME NEW i, design' = design, slots'[i] = slots[i],
         answer'[slots[i]].text = answer[slots[i]].text
  PROVE  Piece(i)' = Piece(i)
BY DEF Piece

Skips(c) ==
  /\ answer'[c] = answer[c]
  /\ buf' = IF design = "echo" THEN [buf EXCEPT ![turn] = ""] ELSE buf

Serves(c) ==
  /\ answer'[c].text = Combined
  /\ buf' = [buf EXCEPT ![turn] = c]

(* A turn of HW1 or HW2: what concerns earlier turns stays as it is.       *)
LEMMA StepTurn ==
  ASSUME TypeOK, QueueInv, TurnInv, TextInv, design # "forked", design' = design,
         NEW c \in Clients, Turn(c), slots' = slots, pc' = pc, Advance,
         \A d \in Clients : d # c => answer'[d] = answer[d],
         Skips(c) \/ Serves(c)
  PROVE  TurnInv' /\ TextInv'
<1>a. /\ buf \in [1..MaxClients -> Clients \cup {Junk, ""}]
      /\ slots \in Seq(Clients)
    BY DEF TypeOK
<1>b. slots[turn] = c /\ pc = "serve"
    BY DEF Turn
<1>t. turn \in Nat \ {0} /\ MaxClients \in Nat \ {0}
    BY MaxClientsAssumption DEF TypeOK
<1>u. turn <= MaxClients /\ turn' = turn + 1
    BY DEF Turn, Advance
<1>c. Len(slots) = MaxClients
    BY <1>b DEF TurnInv
<1>d. /\ turn \in 1..MaxClients /\ turn' > 1 /\ turn' <= MaxClients + 1
      /\ \A i \in 1..MaxClients : i # turn => (i < turn' <=> i < turn)
      /\ turn < turn'
      /\ \A i \in 1..MaxClients : i < turn => i < turn'
      /\ \A i \in 1..turn : i \in 1..MaxClients /\ i < turn'
      /\ \A k \in 1..MaxClients : k < turn =>
            k # turn /\ \A i \in 1..k : i \in 1..MaxClients /\ i # turn
    BY ONLY <1>t, <1>u
<1>2. TurnInv'
    BY <1>b, <1>c, <1>d DEF TurnInv
<1>3. \A i \in 1..MaxClients : i # turn => slots[i] # c
    BY <1>b, <1>c, <1>d DEF QueueInv
<1>4. answer[c].text = << >>
  <2>1. ASSUME NEW k \in 1..MaxClients, k < turn, slots[k] = c PROVE FALSE
      BY <1>3, <1>d, <2>1
  <2> QED BY <2>1 DEF TextInv
<1>6. \A i \in 1..MaxClients : slots[i] \in Clients
    BY <1>a, <1>c, ElementOfSeq
<1>7. \A i \in 1..MaxClients : i # turn => Piece(i)' = Piece(i) /\ buf'[i] = buf[i]
  <2> SUFFICES ASSUME NEW i \in 1..MaxClients, i # turn
               PROVE  Piece(i)' = Piece(i) /\ buf'[i] = buf[i]
      OBVIOUS
  <2>1. answer'[slots[i]] = answer[slots[i]]
      BY <1>3, <1>6
  <2>2. Piece(i)' = Piece(i)
      BY <2>1, PieceStays
  <2>3. buf'[i] = buf[i]
      BY <1>a, <1>d DEF Skips, Serves
  <2> QED BY <2>2, <2>3
<1>8. ASSUME NEW n \in 1..MaxClients, n = turn
      PROVE  buf'[n] = Piece(n)'
  <2>0. slots'[n] = c /\ design' = design
      BY <1>8, <1>b
  <2>1. CASE Skips(c)
    <3>1. answer'[c].text = << >>
        BY <1>4, <2>1 DEF Skips
    <3>2. Piece(n)' = IF design = "echo" THEN "" ELSE Junk
        BY <2>0, <3>1 DEF Piece
    <3>3. buf[n] = Junk
      <4>1. ~(n < turn)
          BY ONLY <1>t, <1>8
      <4> QED BY <1>8, <4>1 DEF TextInv
    <3> QED BY <1>a, <1>8, <2>1, <3>2, <3>3 DEF Skips
  <2>2. CASE Serves(c)
    <3>1. answer'[c].text = Combined /\ buf'[n] = c
        BY <1>a, <1>8, <2>2 DEF Serves
    <3>2. Combined # << >>
      <4>1. DOMAIN Combined = 1..turn
          BY DEF Combined
      <4>2. 1 \in 1..turn
          BY ONLY <1>t
      <4>3. DOMAIN << >> = {}
          OBVIOUS
      <4> QED BY ONLY <4>1, <4>2, <4>3
    <3> QED BY <2>0, <3>1, <3>2 DEF Piece
  <2> QED BY <2>1, <2>2
<1>9. \A i \in 1..MaxClients : (buf[i])' = (IF i < turn THEN Piece(i) ELSE Junk)'
  <2> SUFFICES ASSUME NEW i \in 1..MaxClients
               PROVE  buf'[i] = IF i < turn' THEN Piece(i)' ELSE Junk
      OBVIOUS
  <2>1. CASE i = turn
    <3>1. i < turn'
        BY <1>d, <2>1
    <3>2. buf'[i] = Piece(i)'
        BY <1>8, <2>1
    <3> QED BY <3>1, <3>2
  <2>2. CASE i # turn
    <3>1. buf'[i] = IF i < turn THEN Piece(i)' ELSE Junk
        BY <1>7, <2>2 DEF TextInv
    <3>2. i < turn' <=> i < turn
        BY <1>d, <2>2
    <3> QED BY <3>1, <3>2
  <2> QED BY <2>1, <2>2
<1>10. ASSUME NEW k \in 1..MaxClients, k < turn
       PROVE  [i \in 1..k |-> Piece(i)] = [i \in 1..k |-> Piece(i)']
  <2>1. \A i \in 1..k : i \in 1..MaxClients /\ i # turn
      BY <1>d, <1>10
  <2> QED BY <1>7, <2>1
<1>11. ASSUME NEW d \in Clients, answer'[d].text # << >>
       PROVE  \E k \in 1..MaxClients :
                 k < turn' /\ slots'[k] = d /\ answer'[d].text = [i \in 1..k |-> Piece(i)']
  <2>1. CASE answer'[d] = answer[d]
    <3>1. PICK k \in 1..MaxClients :
             k < turn /\ slots[k] = d /\ answer[d].text = [i \in 1..k |-> Piece(i)]
        BY <1>11, <2>1 DEF TextInv
    <3>2. answer'[d].text = [i \in 1..k |-> Piece(i)']
        BY <1>10, <2>1, <3>1
    <3>3. k < turn'
        BY <1>d, <3>1
    <3> QED BY <3>1, <3>2, <3>3
  <2>2. CASE answer'[d] # answer[d]
    <3>1. d = c /\ answer'[c].text = Combined
        BY <2>2 DEF Skips, Serves
    <3>2. \A i \in 1..turn : buf'[i] = Piece(i)'
        BY <1>d, <1>9
    <3>3. Combined = [i \in 1..turn |-> Piece(i)']
        BY <3>2 DEF Combined
    <3> QED BY <1>b, <1>d, <3>1, <3>3
  <2> QED BY <2>1, <2>2
<1> QED
    BY <1>2, <1>9, <1>11 DEF TextInv

LEMMA StepConversation ==
  TypeOK /\ TypeOK' /\ ConversationInv /\ [Next]_vars => ConversationInv'
<1> SUFFICES ASSUME TypeOK, TypeOK', ConversationInv, [Next]_vars PROVE ConversationInv'
    OBVIOUS
<1> USE DEF clientVars, roundVars, forkVars
<1>0. design' = design
    BY DEF Next, ProgramStep, UserStep, vars
<1>1. QueueInv'
    BY StepQueue DEF ConversationInv
<1>2. CASE design = "forked"
  <2>1. ChildTextInv
      BY <1>2 DEF ConversationInv
  <2>2. answer' = answer \/ \E c \in Clients : KidAnswers(c)
      BY <1>2 DEF Next, ProgramStep, UserStep, RoundStep, ParentStep, KidStep, vars, Connect, Ask,
                  Receive, End, AcceptSlot, SkipSlot, ServeSlot, TrapSlot, Turn, Rounds, Fork, ForkFails,
                  AcceptFails, KidHangsUp, KidRecords, PipeRead, PipeEnds
  <2>3. ASSUME NEW c \in Clients, KidAnswers(c) PROVE ChildTextInv'
    <3>1. answer'[c].text = <<c>> /\ \A d \in Clients : d # c => answer'[d] = answer[d]
        BY <2>3 DEF KidAnswers, TypeOK
    <3> QED BY <2>1, <3>1 DEF ChildTextInv
  <2>4. ChildTextInv'
      BY <2>1, <2>2, <2>3 DEF ChildTextInv
  <2> QED BY <1>0, <1>1, <1>2, <2>4 DEF ConversationInv
<1>3. CASE design # "forked"
  <2>0. QueueInv /\ TurnInv /\ TextInv
      BY <1>3 DEF ConversationInv
  <2>a. ASSUME UNCHANGED <<answer, slots, turn, buf, pc>> PROVE TurnInv' /\ TextInv'
    <3>1. TurnInv'
        BY <2>0, <2>a DEF TurnInv
    <3>2. \A i : Piece(i)' = Piece(i)
        BY <1>0, <2>a DEF Piece
    <3>3. \A k : [i \in 1..k |-> Piece(i)'] = [i \in 1..k |-> Piece(i)]
        BY <3>2
    <3>4. TextInv'
        BY <2>0, <2>a, <3>2, <3>3 DEF TextInv
    <3> QED BY <3>1, <3>4
  <2>1. CASE AcceptSlot
    <3>1. /\ turn = 1 /\ UNCHANGED <<answer, turn, buf>> /\ slots' = Append(slots, Head(backlog))
          /\ pc' = IF Len(slots') = MaxClients THEN "serve" ELSE "accept"
        BY <2>0, <2>1 DEF AcceptSlot, TurnInv
    <3>2. TurnInv'
        BY <3>1, MaxClientsAssumption DEF TurnInv
    <3>3. \A k \in 1..MaxClients : ~(k < turn)
        BY <3>1, MaxClientsAssumption
    <3>4. TextInv'
        BY <2>0, <3>1, <3>3 DEF TextInv
    <3> QED BY <1>0, <1>1, <1>3, <3>2, <3>4 DEF ConversationInv
  <2>2. ASSUME NEW c \in Clients, SkipSlot(c) PROVE TurnInv' /\ TextInv'
    <3>1. Turn(c) /\ slots' = slots /\ pc' = pc /\ Advance /\ answer' = answer /\ Skips(c)
        BY <2>2 DEF SkipSlot, Skips
    <3> QED BY <1>0, <1>3, <2>0, <3>1, StepTurn
  <2>3. ASSUME NEW c \in Clients, ServeSlot(c) PROVE TurnInv' /\ TextInv'
    <3>1. Turn(c) /\ slots' = slots /\ pc' = pc /\ Advance /\ buf' = [buf EXCEPT ![turn] = c]
        BY <2>3 DEF ServeSlot
    <3>2. answer'[c].text = Combined /\ \A d \in Clients : d # c => answer'[d] = answer[d]
      <4>1. DOMAIN answer = Clients
          BY DEF TypeOK
      <4>2. CASE design = "echo"
          BY <2>3, <4>1, <4>2 DEF ServeSlot
      <4>3. CASE design # "echo"
          BY <2>3, <4>1, <4>3 DEF ServeSlot
      <4> QED BY <4>2, <4>3
    <3> QED BY <1>0, <1>3, <2>0, <3>1, <3>2, StepTurn DEF Serves
  <2>4. \/ AcceptSlot
        \/ \E c \in Clients : SkipSlot(c) \/ ServeSlot(c)
        \/ UNCHANGED <<answer, slots, turn, buf, pc>>
      BY <1>3 DEF Next, ProgramStep, UserStep, RoundStep, ParentStep, KidStep, vars, Connect, Ask,
                  Receive, End, TrapSlot, Accepting, Forked, Fork, ForkFails,
                  AcceptFails, KidHangsUp, KidRecords, KidAnswers, PipeRead, PipeEnds
  <2> QED BY <1>0, <1>1, <1>3, <2>a, <2>1, <2>2, <2>3, <2>4 DEF ConversationInv
<1> QED
    BY <1>2, <1>3

LEMMA InitConversation == Init => ConversationInv
<1> SUFFICES ASSUME Init PROVE ConversationInv
    OBVIOUS
<1>1. QueueInv
    BY DEF Init, QueueInv
<1>2. /\ turn = 1 /\ pc = "accept" /\ buf = [i \in 1..MaxClients |-> Junk]
      /\ \A c \in Clients : answer[c].text = << >>
    BY DEF Init, NoAnswer
<1>3. TurnInv
    BY <1>2, MaxClientsAssumption DEF TurnInv
<1>4. \A i \in 1..MaxClients : ~(i < turn)
    BY <1>2, MaxClientsAssumption
<1>5. TextInv /\ ChildTextInv
    BY <1>2, <1>4 DEF TextInv, ChildTextInv
<1> QED
    BY <1>1, <1>3, <1>5 DEF ConversationInv

LEMMA ConversationInvariant == Spec => []ConversationInv
BY TypeInvariant, InitConversation, StepConversation, PTL DEF Spec

-----------------------------------------------------------------------------
(* Every variable keeps its type.                                          *)
THEOREM TypeCorrect == Spec => []TypeOK
BY TypeInvariant, PTL

(* min and max are the extrema of the results recorded, for HW2's counter  *)
(* as for HW3's sentinel, and whatever children hang up or trap.           *)
THEOREM ExtremaOfAllRecorded == Spec => []Extremal
<1>1. Deep => Extremal
    BY DEF Deep
<1> QED
    BY DeepInvariant, <1>1, PTL

(* The ranges that clients are told contain their results and only widen.  *)
THEOREM RangesNestForAll == Spec => []RangesNest
<1>1. Deep => RangesNest
    BY DEF Deep, RangeInv
<1> QED
    BY DeepInvariant, <1>1, PTL

(* Every client of HW1, HW2 and HW3 reads the texts of those who asked and *)
(* whose turn came before it, in that order, and its own last.             *)
THEOREM TextsComeInOrder == Spec => []ConversationInOrder
<1>1. TypeOK /\ ConversationInv => ConversationInOrder
  <2> SUFFICES ASSUME TypeOK, ConversationInv, NEW c \in Clients, answer[c].text # << >>
               PROVE  \/ design = "forked" /\ answer[c].text = <<c>>
                      \/ /\ design # "forked"
                         /\ \E k \in DOMAIN slots :
                               slots[k] = c /\ answer[c].text = [i \in 1..k |-> Piece(i)]
      BY DEF ConversationInOrder
  <2>1. CASE design = "forked"
      BY <2>1 DEF ConversationInv, ChildTextInv
  <2>2. CASE design # "forked"
    <3>1. PICK k \in 1..MaxClients :
             k < turn /\ slots[k] = c /\ answer[c].text = [i \in 1..k |-> Piece(i)]
        BY <2>2 DEF ConversationInv, TextInv
    <3>2. turn > 1
      <4>1. turn \in Nat /\ MaxClients \in Nat
          BY MaxClientsAssumption DEF TypeOK
      <4> QED BY <3>1, <4>1
    <3>3. DOMAIN slots = 1..MaxClients
        BY <2>2, <3>2, LenProperties DEF ConversationInv, TurnInv, TypeOK
    <3> QED BY <2>2, <3>1, <3>3
  <2> QED BY <2>1, <2>2
<1> QED
    BY TypeInvariant, ConversationInvariant, <1>1, PTL
=============================================================================
