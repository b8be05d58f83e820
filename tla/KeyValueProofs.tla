--------------------------- MODULE KeyValueProofs ---------------------------
(***************************************************************************)
(* Proofs about KeyValueServer, for every set of clients, keys and bytes,  *)
(* every width and either kind of lock, and the proof that it implements   *)
(* AtomicStore at every byte position.                                     *)
(***************************************************************************)
EXTENDS KeyValueRefinement, SequenceTheorems, TLAPS

(* Which request a thread is serving follows from its command word.        *)
LEMMA RequestByCommand ==
  ASSUME NEW r \in Requests \cup {NoRequest}
  PROVE  /\ r.cmd \in {"SET", "GET", "BAD", "NONE"}
         /\ r.cmd = "SET" <=> r \in SetRequests
         /\ r.cmd = "GET" <=> r \in GetRequests
         /\ r.cmd = "NONE" <=> r = NoRequest
         /\ r \in SetRequests => r.key \in Keys /\ r.value \in Words
         /\ r \in GetRequests => r.key \in Keys
BY DEF Requests, SetRequests, GetRequests, BadRequests, NoRequest

LEMMA InitTypeOK == Init => TypeOK
BY ConstantsAssumption, EmptySeq
DEF Init, TypeOK, EmptyBuffer, Locations, ReplyKinds, NoRequest, Words

LEMMA StepTypeOK == TypeOK /\ RequestInv /\ PointersValid /\ [Next]_vars => TypeOK'
<1> SUFFICES ASSUME TypeOK, RequestInv, PointersValid, [Next]_vars PROVE TypeOK'
    OBVIOUS
<1> USE ConstantsAssumption DEF TypeOK, Goto, lockVars, Locations, ReplyKinds
<1>1. ASSUME NEW c \in Clients, Dispatch(c) PROVE TypeOK'
    BY <1>1 DEF Dispatch
<1>2. ASSUME NEW c \in Clients, Reject(c) PROVE TypeOK'
    BY <1>2 DEF Reject
<1>3. ASSUME NEW c \in Clients, LockExclusive(c) PROVE TypeOK'
    BY <1>3 DEF LockExclusive
<1>4. ASSUME NEW c \in Clients, LockShared(c) PROVE TypeOK'
    BY <1>4 DEF LockShared
<1>5. ASSUME NEW c \in Clients, SearchHit(c) PROVE TypeOK'
  <2>1. 1..Len(store) \subseteq Nat
      BY LenProperties
  <2> QED BY <1>5, <2>1 DEF SearchHit
<1>6. ASSUME NEW c \in Clients, SearchMiss(c) PROVE TypeOK'
    BY <1>6 DEF SearchMiss
<1>7. ASSUME NEW c \in Clients, CopyByte(c) PROVE TypeOK'
  <2>1. pos' \in [Clients -> 0..Width] /\ pos[c] + 1 \in Bytes
      BY <1>7 DEF CopyByte, Bytes
  <2>2. node[c] \in 1..Len(store) /\ req[c].value \in Words
      BY <1>7, RequestByCommand DEF CopyByte, PointersValid, RequestInv
  <2>3. store' \in Seq([key : Keys, value : Words])
    <3> DEFINE old == store[node[c]]
               new == [old.value EXCEPT ![pos[c] + 1] = req[c].value[pos[c] + 1]]
    <3>1. old \in [key : Keys, value : Words]
        BY <2>2, ElementOfSeq
    <3>2. new \in Words
        BY <2>1, <2>2, <3>1 DEF Words
    <3>3. [key |-> old.key, value |-> new] \in [key : Keys, value : Words]
        BY <3>1, <3>2
    <3>4. store' = [store EXCEPT ![node[c]] = [key |-> old.key, value |-> new]]
        BY <1>7 DEF CopyByte
    <3> HIDE DEF old, new
    <3> QED BY <2>2, <3>3, <3>4, ExceptSeq
  <2> QED BY <1>7, <2>1, <2>3 DEF CopyByte
<1>8. ASSUME NEW c \in Clients, CopyEnd(c) PROVE TypeOK'
    BY <1>8 DEF CopyEnd
<1>9. ASSUME NEW c \in Clients, InsertNode(c) PROVE TypeOK'
  <2>1. [key |-> req[c].key, value |-> req[c].value] \in [key : Keys, value : Words]
      BY <1>9, RequestByCommand DEF InsertNode, RequestInv
  <2> QED BY <1>9, <2>1, AppendProperties DEF InsertNode
<1>10. ASSUME NEW c \in Clients, SetReturns(c) PROVE TypeOK'
    BY <1>10 DEF SetReturns, Release
<1>11. ASSUME NEW c \in Clients, GetReturnsPointer(c) PROVE TypeOK'
    BY <1>11 DEF GetReturnsPointer, Release
<1>12. ASSUME NEW c \in Clients, GetReturnsNotFound(c) PROVE TypeOK'
    BY <1>12 DEF GetReturnsNotFound, Release
<1>13. ASSUME NEW c \in Clients, FormatByte(c) PROVE TypeOK'
  <2>1. pos' \in [Clients -> 0..Width] /\ pos[c] + 1 \in Bytes
      BY <1>13 DEF FormatByte, Bytes
  <2>2. node[c] \in 1..Len(store)
      BY <1>13 DEF FormatByte, PointersValid
  <2>3. store[node[c]] \in [key : Keys, value : Words]
      BY <2>2, ElementOfSeq
  <2>4. store[node[c]].value[pos[c] + 1] \in Char
      BY <2>1, <2>3 DEF Words
  <2>5. buffer' \in [Clients -> [Bytes -> Char \cup {Blank}]]
      BY <1>13, <2>1, <2>4 DEF FormatByte
  <2> QED BY <1>13, <2>1, <2>5 DEF FormatByte
<1>14. ASSUME NEW c \in Clients, FormatEnd(c) PROVE TypeOK'
    BY <1>14 DEF FormatEnd
<1>15. ASSUME NEW c \in Clients, WriteReply(c) PROVE TypeOK'
    BY <1>15 DEF WriteReply, EmptyBuffer
<1>16. ASSUME NEW c \in Clients, Accept(c) PROVE TypeOK'
    BY <1>16 DEF Accept
<1>17. ASSUME NEW c \in Clients, AcceptWithoutThread(c) PROVE TypeOK'
    BY <1>17 DEF AcceptWithoutThread
<1>18. ASSUME NEW c \in Clients, GiveUp(c) PROVE TypeOK'
    BY <1>18 DEF GiveUp
<1>19. ASSUME NEW c \in Clients, Hangup(c) PROVE TypeOK'
    BY <1>19 DEF Hangup
<1>20. ASSUME NEW c \in Clients, NEW r \in Requests, ReadRequest(c, r) PROVE TypeOK'
    BY <1>20, RequestByCommand DEF ReadRequest
<1>21. CASE UNCHANGED vars
    BY <1>21 DEF vars
<1> QED
    BY <1>1, <1>2, <1>3, <1>4, <1>5, <1>6, <1>7, <1>8, <1>9, <1>10, <1>11, <1>12, <1>13, <1>14, <1>15, <1>16, <1>17, <1>18, <1>19, <1>20, <1>21 DEF Next, ServerStep, ClientStep

(* What the two actions that change the list do to it.                     *)
LEMMA CopyByteEffect ==
  ASSUME TypeOK, RequestInv, PointersValid, NEW c \in Clients, CopyByte(c)
  PROVE  /\ node[c] \in 1..Len(store)
         /\ store[node[c]].key = req[c].key
         /\ req[c] \in SetRequests
         /\ pos[c] + 1 \in Bytes
         /\ Len(store') = Len(store)
         /\ \A i \in 1..Len(store) : store'[i].key = store[i].key
         /\ \A i \in 1..Len(store), b \in Bytes :
               store'[i].value[b] = IF i = node[c] /\ b = pos[c] + 1
                                    THEN req[c].value[b] ELSE store[i].value[b]
<1> DEFINE old == store[node[c]]
           new == [old.value EXCEPT ![pos[c] + 1] = req[c].value[pos[c] + 1]]
           rec == [key |-> old.key, value |-> new]
           Node == [key : Keys, value : Words]
<1>1. /\ node[c] \in 1..Len(store)
      /\ req[c] \in SetRequests
      /\ store[node[c]].key = req[c].key
    BY DEF CopyByte, PointersValid, RequestInv
<1>2. pos[c] + 1 \in Bytes
    BY ConstantsAssumption DEF CopyByte, TypeOK, Bytes
<1>3. store \in Seq(Node) /\ old \in Node
    BY <1>1, ElementOfSeq DEF TypeOK
<1>4. new \in Words /\ \A b \in Bytes : new[b] = IF b = pos[c] + 1 THEN req[c].value[b]
                                                               ELSE old.value[b]
    BY <1>1, <1>2, <1>3 DEF Words, SetRequests
<1>5. rec \in Node /\ rec.key = old.key /\ rec.value = new
    BY <1>3, <1>4
<1>6. store' = [store EXCEPT ![node[c]] = rec]
    BY DEF CopyByte
<1> HIDE DEF new, rec, Node
<1>7. /\ Len(store') = Len(store)
      /\ \A i \in 1..Len(store) : store'[i] = IF i = node[c] THEN rec ELSE store[i]
    BY <1>1, <1>3, <1>5, <1>6, ExceptSeq
<1> QED
    BY <1>1, <1>2, <1>4, <1>5, <1>7

LEMMA InsertNodeEffect ==
  ASSUME TypeOK, RequestInv, NEW c \in Clients, InsertNode(c)
  PROVE  /\ req[c] \in SetRequests
         /\ Len(store) \in Nat
         /\ Len(store') = Len(store) + 1
         /\ \A i \in 1..Len(store) : store'[i] = store[i]
         /\ store'[Len(store) + 1].key = req[c].key
         /\ store'[Len(store) + 1].value = req[c].value
<1>1. req[c] \in SetRequests
    BY DEF InsertNode, Goto, RequestInv
<1>2. [key |-> req[c].key, value |-> req[c].value] \in [key : Keys, value : Words]
    BY <1>1 DEF SetRequests
<1> QED
    BY <1>1, <1>2, AppendProperties, LenProperties DEF InsertNode, TypeOK

LEMMA StepLockInv == TypeOK /\ LockInv /\ [Next]_vars => LockInv'
<1> SUFFICES ASSUME TypeOK, LockInv, [Next]_vars PROVE LockInv'
    OBVIOUS
<1> USE ConstantsAssumption DEF TypeOK, LockInv, Inside, TakesShared, Goto, lockVars
<1>1. ASSUME NEW c \in Clients, Dispatch(c) PROVE LockInv'
    BY <1>1 DEF Dispatch
<1>2. ASSUME NEW c \in Clients, Reject(c) PROVE LockInv'
    BY <1>2 DEF Reject
<1>3. ASSUME NEW c \in Clients, LockExclusive(c) PROVE LockInv'
    BY <1>3 DEF LockExclusive, LockFree
<1>4. ASSUME NEW c \in Clients, LockShared(c) PROVE LockInv'
    BY <1>4 DEF LockShared
<1>5. ASSUME NEW c \in Clients, SearchHit(c) PROVE LockInv'
    BY <1>5 DEF SearchHit
<1>6. ASSUME NEW c \in Clients, SearchMiss(c) PROVE LockInv'
    BY <1>6 DEF SearchMiss
<1>7. ASSUME NEW c \in Clients, CopyByte(c) PROVE LockInv'
    BY <1>7 DEF CopyByte
<1>8. ASSUME NEW c \in Clients, CopyEnd(c) PROVE LockInv'
    BY <1>8 DEF CopyEnd
<1>9. ASSUME NEW c \in Clients, InsertNode(c) PROVE LockInv'
    BY <1>9 DEF InsertNode
<1>10. ASSUME NEW c \in Clients, SetReturns(c) PROVE LockInv'
    BY <1>10 DEF SetReturns, Release
<1>11. ASSUME NEW c \in Clients, GetReturnsPointer(c) PROVE LockInv'
    BY <1>11 DEF GetReturnsPointer, Release
<1>12. ASSUME NEW c \in Clients, GetReturnsNotFound(c) PROVE LockInv'
    BY <1>12 DEF GetReturnsNotFound, Release
<1>13. ASSUME NEW c \in Clients, FormatByte(c) PROVE LockInv'
    BY <1>13 DEF FormatByte
<1>14. ASSUME NEW c \in Clients, FormatEnd(c) PROVE LockInv'
    BY <1>14 DEF FormatEnd
<1>15. ASSUME NEW c \in Clients, WriteReply(c) PROVE LockInv'
    BY <1>15 DEF WriteReply
<1>16. ASSUME NEW c \in Clients, Accept(c) PROVE LockInv'
    BY <1>16 DEF Accept
<1>17. ASSUME NEW c \in Clients, AcceptWithoutThread(c) PROVE LockInv'
    BY <1>17 DEF AcceptWithoutThread
<1>18. ASSUME NEW c \in Clients, GiveUp(c) PROVE LockInv'
    BY <1>18 DEF GiveUp
<1>19. ASSUME NEW c \in Clients, Hangup(c) PROVE LockInv'
    BY <1>19 DEF Hangup
<1>20. ASSUME NEW c \in Clients, NEW r \in Requests, ReadRequest(c, r) PROVE LockInv'
    BY <1>20, RequestByCommand DEF ReadRequest
<1>21. CASE UNCHANGED vars
    BY <1>21 DEF vars
<1> QED
    BY <1>1, <1>2, <1>3, <1>4, <1>5, <1>6, <1>7, <1>8, <1>9, <1>10, <1>11, <1>12, <1>13, <1>14, <1>15, <1>16, <1>17, <1>18, <1>19, <1>20, <1>21 DEF Next, ServerStep, ClientStep

LEMMA StepRequestInv == TypeOK /\ RequestInv /\ PointersValid /\ [Next]_vars => RequestInv'
<1> SUFFICES ASSUME TypeOK, RequestInv, PointersValid, [Next]_vars PROVE RequestInv'
    OBVIOUS
<1> USE ConstantsAssumption, RequestByCommand DEF TypeOK, RequestInv, Fresh, Silent, Goto, lockVars
<1>1. ASSUME NEW c \in Clients, Dispatch(c) PROVE RequestInv'
    BY <1>1 DEF Dispatch
<1>2. ASSUME NEW c \in Clients, Reject(c) PROVE RequestInv'
    BY <1>2 DEF Reject
<1>3. ASSUME NEW c \in Clients, LockExclusive(c) PROVE RequestInv'
    BY <1>3 DEF LockExclusive
<1>4. ASSUME NEW c \in Clients, LockShared(c) PROVE RequestInv'
    BY <1>4 DEF LockShared
<1>5. ASSUME NEW c \in Clients, SearchHit(c) PROVE RequestInv'
    BY <1>5 DEF SearchHit
<1>6. ASSUME NEW c \in Clients, SearchMiss(c) PROVE RequestInv'
    BY <1>6 DEF SearchMiss
<1>7. ASSUME NEW c \in Clients, CopyByte(c) PROVE RequestInv'
    BY <1>7 DEF CopyByte
<1>8. ASSUME NEW c \in Clients, CopyEnd(c) PROVE RequestInv'
    BY <1>8 DEF CopyEnd
<1>9. ASSUME NEW c \in Clients, InsertNode(c) PROVE RequestInv'
    BY <1>9 DEF InsertNode
<1>10. ASSUME NEW c \in Clients, SetReturns(c) PROVE RequestInv'
    BY <1>10 DEF SetReturns, Release
<1>11. ASSUME NEW c \in Clients, GetReturnsPointer(c) PROVE RequestInv'
    BY <1>11 DEF GetReturnsPointer, Release
<1>12. ASSUME NEW c \in Clients, GetReturnsNotFound(c) PROVE RequestInv'
    BY <1>12 DEF GetReturnsNotFound, Release
<1>13. ASSUME NEW c \in Clients, FormatByte(c) PROVE RequestInv'
    BY <1>13 DEF FormatByte
<1>14. ASSUME NEW c \in Clients, FormatEnd(c) PROVE RequestInv'
    BY <1>14 DEF FormatEnd
<1>15. ASSUME NEW c \in Clients, WriteReply(c) PROVE RequestInv'
    BY <1>15 DEF WriteReply
<1>16. ASSUME NEW c \in Clients, Accept(c) PROVE RequestInv'
    BY <1>16 DEF Accept
<1>17. ASSUME NEW c \in Clients, AcceptWithoutThread(c) PROVE RequestInv'
    BY <1>17 DEF AcceptWithoutThread
<1>18. ASSUME NEW c \in Clients, GiveUp(c) PROVE RequestInv'
    BY <1>18 DEF GiveUp
<1>19. ASSUME NEW c \in Clients, Hangup(c) PROVE RequestInv'
    BY <1>19 DEF Hangup
<1>20. ASSUME NEW c \in Clients, NEW r \in Requests, ReadRequest(c, r) PROVE RequestInv'
    BY <1>20, RequestByCommand DEF ReadRequest
<1>21. CASE UNCHANGED vars
    BY <1>21 DEF vars
<1> QED
    BY <1>1, <1>2, <1>3, <1>4, <1>5, <1>6, <1>7, <1>8, <1>9, <1>10, <1>11, <1>12, <1>13, <1>14, <1>15, <1>16, <1>17, <1>18, <1>19, <1>20, <1>21 DEF Next, ServerStep, ClientStep

(* Only InsertNode changes which keys the list holds.                      *)
LEMMA StepInsertInv ==
  TypeOK /\ LockInv /\ RequestInv /\ InsertInv /\ PointersValid /\ [Next]_vars => InsertInv'
<1> SUFFICES ASSUME TypeOK, LockInv, RequestInv, InsertInv, PointersValid, [Next]_vars
             PROVE  InsertInv'
    OBVIOUS
<1> USE DEF TypeOK, InsertInv, IsAbsent, Goto, lockVars
<1>1. ASSUME NEW c \in Clients, Dispatch(c) PROVE InsertInv'
    BY <1>1 DEF Dispatch
<1>2. ASSUME NEW c \in Clients, Reject(c) PROVE InsertInv'
    BY <1>2 DEF Reject
<1>3. ASSUME NEW c \in Clients, LockExclusive(c) PROVE InsertInv'
    BY <1>3 DEF LockExclusive
<1>4. ASSUME NEW c \in Clients, LockShared(c) PROVE InsertInv'
    BY <1>4 DEF LockShared
<1>5. ASSUME NEW c \in Clients, SearchHit(c) PROVE InsertInv'
    BY <1>5 DEF SearchHit
<1>6. ASSUME NEW c \in Clients, SearchMiss(c) PROVE InsertInv'
    BY <1>6 DEF SearchMiss
<1>7. ASSUME NEW c \in Clients, CopyByte(c) PROVE InsertInv'
    BY <1>7, CopyByteEffect DEF CopyByte
<1>8. ASSUME NEW c \in Clients, CopyEnd(c) PROVE InsertInv'
    BY <1>8 DEF CopyEnd
<1>9. ASSUME NEW c \in Clients, InsertNode(c) PROVE InsertInv'
  <2>1. \A d \in Clients : pc[d] = "insert" => d = c
      BY <1>9, ZenonT(60) DEF InsertNode, LockInv, RequestInv, Inside, TakesShared, SetRequests
  <2> QED BY <1>9, <2>1 DEF InsertNode
<1>10. ASSUME NEW c \in Clients, SetReturns(c) PROVE InsertInv'
    BY <1>10 DEF SetReturns, Release
<1>11. ASSUME NEW c \in Clients, GetReturnsPointer(c) PROVE InsertInv'
    BY <1>11 DEF GetReturnsPointer, Release
<1>12. ASSUME NEW c \in Clients, GetReturnsNotFound(c) PROVE InsertInv'
    BY <1>12 DEF GetReturnsNotFound, Release
<1>13. ASSUME NEW c \in Clients, FormatByte(c) PROVE InsertInv'
    BY <1>13 DEF FormatByte
<1>14. ASSUME NEW c \in Clients, FormatEnd(c) PROVE InsertInv'
    BY <1>14 DEF FormatEnd
<1>15. ASSUME NEW c \in Clients, WriteReply(c) PROVE InsertInv'
    BY <1>15 DEF WriteReply
<1>16. ASSUME NEW c \in Clients, Accept(c) PROVE InsertInv'
    BY <1>16 DEF Accept
<1>17. ASSUME NEW c \in Clients, AcceptWithoutThread(c) PROVE InsertInv'
    BY <1>17 DEF AcceptWithoutThread
<1>18. ASSUME NEW c \in Clients, GiveUp(c) PROVE InsertInv'
    BY <1>18 DEF GiveUp
<1>19. ASSUME NEW c \in Clients, Hangup(c) PROVE InsertInv'
    BY <1>19 DEF Hangup
<1>20. ASSUME NEW c \in Clients, NEW r \in Requests, ReadRequest(c, r) PROVE InsertInv'
    BY <1>20 DEF ReadRequest
<1>21. CASE UNCHANGED vars
    BY <1>21 DEF vars
<1> QED
    BY <1>1, <1>2, <1>3, <1>4, <1>5, <1>6, <1>7, <1>8, <1>9, <1>10, <1>11, <1>12, <1>13, <1>14, <1>15, <1>16, <1>17, <1>18, <1>19, <1>20, <1>21 DEF Next, ServerStep, ClientStep

LEMMA StepOneNodePerKey ==
  TypeOK /\ RequestInv /\ InsertInv /\ PointersValid /\ OneNodePerKey /\ [Next]_vars
    => OneNodePerKey'
<1> SUFFICES ASSUME TypeOK, RequestInv, InsertInv, PointersValid, OneNodePerKey, [Next]_vars
             PROVE  OneNodePerKey'
    OBVIOUS
<1> USE DEF OneNodePerKey, lockVars
<1>1. ASSUME NEW c \in Clients, Dispatch(c) PROVE OneNodePerKey'
    BY <1>1 DEF Dispatch
<1>2. ASSUME NEW c \in Clients, Reject(c) PROVE OneNodePerKey'
    BY <1>2 DEF Reject
<1>3. ASSUME NEW c \in Clients, LockExclusive(c) PROVE OneNodePerKey'
    BY <1>3 DEF LockExclusive
<1>4. ASSUME NEW c \in Clients, LockShared(c) PROVE OneNodePerKey'
    BY <1>4 DEF LockShared
<1>5. ASSUME NEW c \in Clients, SearchHit(c) PROVE OneNodePerKey'
    BY <1>5 DEF SearchHit
<1>6. ASSUME NEW c \in Clients, SearchMiss(c) PROVE OneNodePerKey'
    BY <1>6 DEF SearchMiss
<1>7. ASSUME NEW c \in Clients, CopyByte(c) PROVE OneNodePerKey'
    BY <1>7, CopyByteEffect
<1>8. ASSUME NEW c \in Clients, CopyEnd(c) PROVE OneNodePerKey'
    BY <1>8 DEF CopyEnd
<1>9. ASSUME NEW c \in Clients, InsertNode(c) PROVE OneNodePerKey'
  <2>1. IsAbsent(req[c].key)
      BY <1>9 DEF InsertNode, Goto, InsertInv
  <2>2. /\ Len(store) \in Nat /\ Len(store') = Len(store) + 1
        /\ \A i \in 1..Len(store) : store'[i] = store[i]
        /\ store'[Len(store) + 1].key = req[c].key
      BY <1>9, InsertNodeEffect
  <2>3. \A i \in 1..Len(store) : store'[i].key = store[i].key /\ store'[i].key # req[c].key
      BY <2>1, <2>2 DEF IsAbsent
  <2>4. \A i \in 1..Len(store') : i \in 1..Len(store) \/ i = Len(store) + 1
      BY <2>2
  <2> QED BY <2>2, <2>3, <2>4
<1>10. ASSUME NEW c \in Clients, SetReturns(c) PROVE OneNodePerKey'
    BY <1>10 DEF SetReturns, Release
<1>11. ASSUME NEW c \in Clients, GetReturnsPointer(c) PROVE OneNodePerKey'
    BY <1>11 DEF GetReturnsPointer, Release
<1>12. ASSUME NEW c \in Clients, GetReturnsNotFound(c) PROVE OneNodePerKey'
    BY <1>12 DEF GetReturnsNotFound, Release
<1>13. ASSUME NEW c \in Clients, FormatByte(c) PROVE OneNodePerKey'
    BY <1>13 DEF FormatByte
<1>14. ASSUME NEW c \in Clients, FormatEnd(c) PROVE OneNodePerKey'
    BY <1>14 DEF FormatEnd
<1>15. ASSUME NEW c \in Clients, WriteReply(c) PROVE OneNodePerKey'
    BY <1>15 DEF WriteReply
<1>16. ASSUME NEW c \in Clients, Accept(c) PROVE OneNodePerKey'
    BY <1>16 DEF Accept
<1>17. ASSUME NEW c \in Clients, AcceptWithoutThread(c) PROVE OneNodePerKey'
    BY <1>17 DEF AcceptWithoutThread
<1>18. ASSUME NEW c \in Clients, GiveUp(c) PROVE OneNodePerKey'
    BY <1>18 DEF GiveUp
<1>19. ASSUME NEW c \in Clients, Hangup(c) PROVE OneNodePerKey'
    BY <1>19 DEF Hangup
<1>20. ASSUME NEW c \in Clients, NEW r \in Requests, ReadRequest(c, r) PROVE OneNodePerKey'
    BY <1>20 DEF ReadRequest
<1>21. CASE UNCHANGED vars
    BY <1>21 DEF vars
<1> QED
    BY <1>1, <1>2, <1>3, <1>4, <1>5, <1>6, <1>7, <1>8, <1>9, <1>10, <1>11, <1>12, <1>13, <1>14, <1>15, <1>16, <1>17, <1>18, <1>19, <1>20, <1>21 DEF Next, ServerStep, ClientStep

LEMMA StepPointersValid ==
  TypeOK /\ RequestInv /\ PointersValid /\ [Next]_vars => PointersValid'
<1> SUFFICES ASSUME TypeOK, RequestInv, PointersValid, [Next]_vars PROVE PointersValid'
    OBVIOUS
<1> USE DEF TypeOK, PointersValid, Goto, lockVars
<1>1. ASSUME NEW c \in Clients, Dispatch(c) PROVE PointersValid'
    BY <1>1 DEF Dispatch
<1>2. ASSUME NEW c \in Clients, Reject(c) PROVE PointersValid'
    BY <1>2 DEF Reject
<1>3. ASSUME NEW c \in Clients, LockExclusive(c) PROVE PointersValid'
    BY <1>3 DEF LockExclusive
<1>4. ASSUME NEW c \in Clients, LockShared(c) PROVE PointersValid'
    BY <1>4 DEF LockShared
<1>5. ASSUME NEW c \in Clients, SearchHit(c) PROVE PointersValid'
    BY <1>5, LenProperties DEF SearchHit, IsMatch, RequestInv
<1>6. ASSUME NEW c \in Clients, SearchMiss(c) PROVE PointersValid'
    BY <1>6 DEF SearchMiss
<1>7. ASSUME NEW c \in Clients, CopyByte(c) PROVE PointersValid'
    BY <1>7, CopyByteEffect DEF CopyByte
<1>8. ASSUME NEW c \in Clients, CopyEnd(c) PROVE PointersValid'
    BY <1>8 DEF CopyEnd
<1>9. ASSUME NEW c \in Clients, InsertNode(c) PROVE PointersValid'
    BY <1>9, InsertNodeEffect DEF InsertNode
<1>10. ASSUME NEW c \in Clients, SetReturns(c) PROVE PointersValid'
    BY <1>10 DEF SetReturns, Release
<1>11. ASSUME NEW c \in Clients, GetReturnsPointer(c) PROVE PointersValid'
    BY <1>11 DEF GetReturnsPointer, Release
<1>12. ASSUME NEW c \in Clients, GetReturnsNotFound(c) PROVE PointersValid'
    BY <1>12 DEF GetReturnsNotFound, Release
<1>13. ASSUME NEW c \in Clients, FormatByte(c) PROVE PointersValid'
    BY <1>13 DEF FormatByte
<1>14. ASSUME NEW c \in Clients, FormatEnd(c) PROVE PointersValid'
    BY <1>14 DEF FormatEnd
<1>15. ASSUME NEW c \in Clients, WriteReply(c) PROVE PointersValid'
    BY <1>15 DEF WriteReply
<1>16. ASSUME NEW c \in Clients, Accept(c) PROVE PointersValid'
    BY <1>16 DEF Accept
<1>17. ASSUME NEW c \in Clients, AcceptWithoutThread(c) PROVE PointersValid'
    BY <1>17 DEF AcceptWithoutThread
<1>18. ASSUME NEW c \in Clients, GiveUp(c) PROVE PointersValid'
    BY <1>18 DEF GiveUp
<1>19. ASSUME NEW c \in Clients, Hangup(c) PROVE PointersValid'
    BY <1>19 DEF Hangup
<1>20. ASSUME NEW c \in Clients, NEW r \in Requests, ReadRequest(c, r) PROVE PointersValid'
    BY <1>20 DEF ReadRequest, RequestInv, Fresh, Silent
<1>21. CASE UNCHANGED vars
    BY <1>21 DEF vars
<1> QED
    BY <1>1, <1>2, <1>3, <1>4, <1>5, <1>6, <1>7, <1>8, <1>9, <1>10, <1>11, <1>12, <1>13, <1>14, <1>15, <1>16, <1>17, <1>18, <1>19, <1>20, <1>21 DEF Next, ServerStep, ClientStep

(* What has been copied into a node or into a reply came from a SET.       *)
LEMMA StepProvenanceInv ==
  TypeOK /\ RequestInv /\ PointersValid /\ ProvenanceInv /\ [Next]_vars => ProvenanceInv'
<1> SUFFICES ASSUME TypeOK, RequestInv, PointersValid, ProvenanceInv, [Next]_vars
             PROVE  ProvenanceInv'
    OBVIOUS
<1> USE DEF ProvenanceInv, Goto, lockVars
<1>1. ASSUME NEW c \in Clients, Dispatch(c) PROVE ProvenanceInv'
  <2>1. /\ UNCHANGED <<store, req, node, pos, buffer, reply, issued>>
        /\ \A d \in Clients : reply[d] = "value" => pc'[d] = pc[d]
      BY <1>1 DEF Dispatch, TypeOK
  <2> QED BY <2>1
<1>2. ASSUME NEW c \in Clients, Reject(c) PROVE ProvenanceInv'
    BY <1>2 DEF TypeOK, Reject
<1>3. ASSUME NEW c \in Clients, LockExclusive(c) PROVE ProvenanceInv'
    BY <1>3 DEF TypeOK, LockExclusive
<1>4. ASSUME NEW c \in Clients, LockShared(c) PROVE ProvenanceInv'
    BY <1>4 DEF TypeOK, LockShared
<1>5. ASSUME NEW c \in Clients, SearchHit(c) PROVE ProvenanceInv'
    BY <1>5 DEF SearchHit, RequestInv, Fresh, Silent, TypeOK
<1>6. ASSUME NEW c \in Clients, SearchMiss(c) PROVE ProvenanceInv'
    BY <1>6 DEF TypeOK, SearchMiss
<1>7. ASSUME NEW c \in Clients, CopyByte(c) PROVE ProvenanceInv'
  <2>1. \A i \in 1..Len(store'), b \in Bytes :
           \E v \in issued'[store'[i].key] : store'[i].value[b] = v[b]
    <3>1. /\ Len(store') = Len(store) /\ issued' = issued
          /\ node[c] \in 1..Len(store) /\ store[node[c]].key = req[c].key
          /\ pos[c] + 1 \in Bytes
          /\ req[c].value \in issued[req[c].key]
        BY <1>7, CopyByteEffect DEF CopyByte
    <3>2. \A i \in 1..Len(store) : store'[i].key = store[i].key
        BY <1>7, CopyByteEffect
    <3>3. \A i \in 1..Len(store), b \in Bytes :
             store'[i].value[b] = IF i = node[c] /\ b = pos[c] + 1
                                  THEN req[c].value[b] ELSE store[i].value[b]
        BY <1>7, CopyByteEffect
    <3> QED BY <3>1, <3>2, <3>3
  <2>2. \A d \in Clients : req'[d] \in GetRequests /\ node'[d] # 0 => pos'[d] = pos[d]
      BY <1>7, CopyByteEffect DEF CopyByte, TypeOK, SetRequests, GetRequests
  <2>3. \A d \in Clients : reply[d] = "value" => pos'[d] = pos[d]
      BY <1>7, <2>2 DEF CopyByte
  <2> QED BY <1>7, <2>1, <2>2, <2>3 DEF CopyByte
<1>8. ASSUME NEW c \in Clients, CopyEnd(c) PROVE ProvenanceInv'
    BY <1>8 DEF TypeOK, CopyEnd
<1>9. ASSUME NEW c \in Clients, InsertNode(c) PROVE ProvenanceInv'
  <2>1. \A i \in 1..Len(store') : i \in 1..Len(store) \/ i = Len(store) + 1
      BY <1>9, InsertNodeEffect
  <2>2. \A i \in 1..Len(store'), b \in Bytes :
           \E v \in issued'[store'[i].key] : store'[i].value[b] = v[b]
    <3>1. issued' = issued /\ req[c].value \in issued[req[c].key]
        BY <1>9, InsertNodeEffect DEF InsertNode
    <3>2. \A i \in 1..Len(store) : store'[i] = store[i]
        BY <1>9, InsertNodeEffect
    <3>3. /\ store'[Len(store) + 1].key = req[c].key
          /\ store'[Len(store) + 1].value = req[c].value
        BY <1>9, InsertNodeEffect
    <3> QED BY <2>1, <3>1, <3>2, <3>3
  <2>3. /\ UNCHANGED <<req, node, pos, buffer, reply, issued>>
        /\ \A d \in Clients : reply[d] = "value" => pc'[d] = pc[d]
      BY <1>9 DEF InsertNode, TypeOK
  <2> QED BY <2>2, <2>3
<1>10. ASSUME NEW c \in Clients, SetReturns(c) PROVE ProvenanceInv'
    BY <1>10 DEF TypeOK, SetReturns, Release
<1>11. ASSUME NEW c \in Clients, GetReturnsPointer(c) PROVE ProvenanceInv'
    BY <1>11 DEF TypeOK, GetReturnsPointer, Release
<1>12. ASSUME NEW c \in Clients, GetReturnsNotFound(c) PROVE ProvenanceInv'
    BY <1>12 DEF TypeOK, GetReturnsNotFound, Release
<1>13. ASSUME NEW c \in Clients, FormatByte(c) PROVE ProvenanceInv'
  <2>1. /\ node[c] \in 1..Len(store) /\ store[node[c]].key = req[c].key
        /\ pos[c] \in Nat /\ pos[c] + 1 \in Bytes
        /\ req[c] \in GetRequests
      BY <1>13, ConstantsAssumption DEF FormatByte, PointersValid, RequestInv, TypeOK, Bytes
  <2>2. \E v \in issued[req[c].key] : store[node[c]].value[pos[c] + 1] = v[pos[c] + 1]
      BY <2>1
  <2>3. \A b \in 1..pos'[c] : \E v \in issued'[req[c].key] : buffer'[c][b] = v[b]
    <3>1. \A b \in 1..pos'[c] : b \in 1..pos[c] \/ b = pos[c] + 1
        BY <1>13, <2>1 DEF FormatByte, TypeOK
    <3>2. buffer'[c][pos[c] + 1] = store[node[c]].value[pos[c] + 1]
        BY <1>13, <2>1 DEF FormatByte, TypeOK
    <3>3. \A b \in 1..pos[c] : buffer'[c][b] = buffer[c][b]
        BY <1>13, <2>1 DEF FormatByte, TypeOK
    <3>4. req[c] \in GetRequests /\ node[c] # 0
        BY <2>1
    <3> QED BY <1>13, <2>2, <3>1, <3>2, <3>3, <3>4 DEF FormatByte
  <2>4. \A d \in Clients : d # c => pos'[d] = pos[d] /\ buffer'[d] = buffer[d]
      BY <1>13 DEF FormatByte, TypeOK
  <2>5. reply[c] # "value"
      BY <1>13 DEF FormatByte
  <2> QED BY <1>13, <2>3, <2>4, <2>5 DEF FormatByte
<1>14. ASSUME NEW c \in Clients, FormatEnd(c) PROVE ProvenanceInv'
  <2>1. req[c] \in GetRequests /\ node[c] # 0
      BY <1>14 DEF FormatEnd, RequestInv, PointersValid
  <2> QED BY <1>14, <2>1 DEF FormatEnd, TypeOK
<1>15. ASSUME NEW c \in Clients, WriteReply(c) PROVE ProvenanceInv'
  <2>1. UNCHANGED <<store, issued>>
      BY <1>15 DEF WriteReply
  <2>2. node'[c] = 0 /\ reply'[c] = "none" /\ req'[c] = NoRequest
      BY <1>15 DEF WriteReply, TypeOK
  <2>3. \A d \in Clients : d # c =>
           /\ req'[d] = req[d] /\ node'[d] = node[d] /\ pos'[d] = pos[d]
           /\ buffer'[d] = buffer[d] /\ reply'[d] = reply[d] /\ pc'[d] = pc[d]
      BY <1>15 DEF WriteReply, TypeOK
  <2>4. NoRequest \notin SetRequests
      BY DEF NoRequest, SetRequests
  <2> QED BY <2>1, <2>2, <2>3, <2>4
<1>16. ASSUME NEW c \in Clients, Accept(c) PROVE ProvenanceInv'
    BY <1>16 DEF TypeOK, Accept
<1>17. ASSUME NEW c \in Clients, AcceptWithoutThread(c) PROVE ProvenanceInv'
    BY <1>17 DEF TypeOK, AcceptWithoutThread
<1>18. ASSUME NEW c \in Clients, GiveUp(c) PROVE ProvenanceInv'
    BY <1>18 DEF TypeOK, GiveUp
<1>19. ASSUME NEW c \in Clients, Hangup(c) PROVE ProvenanceInv'
    BY <1>19 DEF TypeOK, Hangup
<1>20. ASSUME NEW c \in Clients, NEW r \in Requests, ReadRequest(c, r) PROVE ProvenanceInv'
  <2>1. \A k \in Keys : issued[k] \subseteq issued'[k]
      BY <1>20, RequestByCommand DEF ReadRequest, TypeOK
  <2>2. r \in SetRequests => r.value \in issued'[r.key]
      BY <1>20, RequestByCommand DEF ReadRequest, TypeOK
  <2>3. /\ \A d \in Clients : req'[d] = IF d = c THEN r ELSE req[d]
        /\ node[c] = 0 /\ reply[c] # "value"
      BY <1>20 DEF ReadRequest, TypeOK, RequestInv, Fresh, Silent
  <2>4. \A i \in 1..Len(store) : store[i].key \in Keys
    <3> SUFFICES ASSUME NEW i \in 1..Len(store) PROVE store[i].key \in Keys
        OBVIOUS
    <3>1. store[i] \in [key : Keys, value : Words]
        BY ElementOfSeq DEF TypeOK
    <3> QED BY <3>1
  <2>5. \A d \in Clients : req[d] \in SetRequests \cup GetRequests => req[d].key \in Keys
      BY DEF SetRequests, GetRequests
  <2>6. /\ UNCHANGED <<store, node, pos, buffer, reply>>
        /\ pc'[c] = "parse" /\ \A d \in Clients : d # c => pc'[d] = pc[d]
      BY <1>20 DEF ReadRequest, TypeOK
  <2>7. \A i \in 1..Len(store'), b \in Bytes :
           \E v \in issued'[store'[i].key] : store'[i].value[b] = v[b]
      BY <2>1, <2>4, <2>6
  <2>8. \A d \in Clients : req'[d] \in SetRequests => req'[d].value \in issued'[req'[d].key]
      BY <2>1, <2>2, <2>3, <2>5
  <2>9. \A d \in Clients : req'[d] \in GetRequests /\ node'[d] # 0 =>
           \A b \in 1..pos'[d] : \E v \in issued'[req'[d].key] : buffer'[d][b] = v[b]
      BY <2>1, <2>3, <2>5, <2>6
  <2> QED BY <2>3, <2>6, <2>7, <2>8, <2>9
<1>21. CASE UNCHANGED vars
    BY <1>21 DEF vars
<1> QED
    BY <1>1, <1>2, <1>3, <1>4, <1>5, <1>6, <1>7, <1>8, <1>9, <1>10, <1>11, <1>12, <1>13, <1>14, <1>15, <1>16, <1>17, <1>18, <1>19, <1>20, <1>21 DEF Next, ServerStep, ClientStep

LEMMA InitIInv == Init => IInv
<1> SUFFICES ASSUME Init PROVE IInv
    OBVIOUS
<1>1. TypeOK
    BY InitTypeOK
<1>2. LockInv
    BY ConstantsAssumption DEF Init, LockInv, Inside
<1>3. RequestInv /\ InsertInv
    BY DEF Init, RequestInv, InsertInv, Fresh, Silent
<1>4. OneNodePerKey
    BY DEF Init, OneNodePerKey
<1>5. PointersValid
    BY DEF Init, PointersValid
<1>6. ProvenanceInv
    BY DEF Init, ProvenanceInv, NoRequest, SetRequests
<1> QED
    BY <1>1, <1>2, <1>3, <1>4, <1>5, <1>6 DEF IInv

(* IInv is inductive: it holds at the start and every step keeps it.       *)
THEOREM InductiveInvariant == Spec => []IInv
<1>1. IInv /\ [Next]_vars => IInv'
    BY StepTypeOK, StepLockInv, StepRequestInv, StepInsertInv, StepOneNodePerKey,
       StepPointersValid, StepProvenanceInv DEF IInv
<1> QED
    BY InitIInv, <1>1, PTL DEF Spec

(* Every variable of the servers keeps its type.                           *)
THEOREM TypeCorrect == Spec => []TypeOK
<1>1. IInv => TypeOK
    BY DEF IInv
<1> QED
    BY InductiveInvariant, <1>1, PTL

(* pthread_mutex_t, pthread_spinlock_t and pthread_rwlock_t, used as the   *)
(* servers use them, keep set_key_value apart from everything else.        *)
THEOREM MutualExclusion == Spec => []Exclusion
<1>1. IInv => Exclusion
    BY ConstantsAssumption DEF IInv, LockInv, Exclusion
<1> QED
    BY InductiveInvariant, <1>1, PTL

(* set_key_value never leaves two nodes for one key.                       *)
THEOREM NoDuplicateNodes == Spec => []OneNodePerKey
<1>1. IInv => OneNodePerKey
    BY DEF IInv
<1> QED
    BY InductiveInvariant, <1>1, PTL

(* The pointer get_value returns stays that of the requested key's node.   *)
THEOREM PointersStayValid == Spec => []PointersValid
<1>1. IInv => PointersValid
    BY DEF IInv
<1> QED
    BY InductiveInvariant, <1>1, PTL

(* Every byte of a reply was put at its place by a SET of the same key,    *)
(* although get_value's caller reads the node without the lock.            *)
THEOREM RepliesAreMadeOfSetBytes == Spec => []ByteProvenance
<1>1. IInv => ByteProvenance
    BY DEF IInv, ByteProvenance, ProvenanceInv, Bytes
<1> QED
    BY InductiveInvariant, <1>1, PTL

-----------------------------------------------------------------------------
(* The server implements AtomicStore at every byte position.               *)

(* The thread of every other connection stays where it is.                 *)
OthersRest(c) ==
  \A d \in Clients : d # c =>
     /\ pc'[d] = pc[d] /\ req'[d] = req[d] /\ node'[d] = node[d]
     /\ pos'[d] = pos[d] /\ buffer'[d] = buffer[d]

LEMMA StoreFixesBytes ==
  ASSUME UNCHANGED store, NEW k
  PROVE  ByteOfKey(k)' = ByteOfKey(k)
BY DEF ByteOfKey, IsAbsent, IsMatch

LEMMA RestingClient ==
  ASSUME NEW c \in Clients, OthersRest(c), NEW d \in Clients, d # c
  PROVE  /\ Phase(d)' = Phase(d)
         /\ Result(d)' = Result(d)
         /\ ByteOfRequest(req[d])' = ByteOfRequest(req[d])
BY DEF OthersRest, Phase, Result, Answer, ByteOfRequest, Silent, TookEffect

(* With one node per key, the newest node of a key is its only node.       *)
LEMMA ByteOfNode ==
  ASSUME OneNodePerKey, NEW k, NEW i \in 1..Len(store), store[i].key = k
  PROVE  ByteOfKey(k) = store[i].value[Position]
<1>1. ~IsAbsent(k)
    BY DEF IsAbsent
<1>2. IsMatch(i, k)
  <2> SUFFICES ASSUME NEW j \in (i + 1)..Len(store), store[j].key = k PROVE FALSE
      BY DEF IsMatch
  <2>1. j \in 1..Len(store) /\ j # i
      OBVIOUS
  <2> QED BY <2>1 DEF OneNodePerKey
<1>3. \A n \in 1..Len(store) : IsMatch(n, k) => n = i
    BY DEF IsMatch, OneNodePerKey
<1> QED
    BY <1>1, <1>2, <1>3 DEF ByteOfKey

LEMMA ByteOfNodePrimed ==
  ASSUME OneNodePerKey', NEW k, NEW i \in 1..Len(store'), store'[i].key = k
  PROVE  ByteOfKey(k)' = store'[i].value[Position]
<1>1. ~IsAbsent(k)'
    BY DEF IsAbsent
<1>2. IsMatch(i, k)'
  <2> SUFFICES ASSUME NEW j \in (i + 1)..Len(store'), store'[j].key = k PROVE FALSE
      BY DEF IsMatch
  <2>1. j \in 1..Len(store') /\ j # i
      OBVIOUS
  <2> QED BY <2>1 DEF OneNodePerKey
<1>3. \A n \in 1..Len(store') : IsMatch(n, k)' => n = i
    BY DEF IsMatch, OneNodePerKey
<1> QED
    BY <1>1, <1>2, <1>3 DEF ByteOfKey

(* A step of one thread that the abstract store does not see.              *)
LEMMA StutterBytes ==
  ASSUME NEW c \in Clients, OthersRest(c),
         \A k \in Keys : ByteOfKey(k)' = ByteOfKey(k),
         Phase(c)' = Phase(c), Result(c)' = Result(c),
         ByteOfRequest(req[c])' = ByteOfRequest(req[c])
  PROVE  UNCHANGED Abstract!avars
<1>1. \A d \in Clients : /\ Phase(d)' = Phase(d)
                         /\ Result(d)' = Result(d)
                         /\ ByteOfRequest(req[d])' = ByteOfRequest(req[d])
    BY RestingClient
<1> QED
    BY <1>1 DEF Abstract!avars

LEMMA Stutter ==
  ASSUME NEW c \in Clients, OthersRest(c), UNCHANGED store,
         Phase(c)' = Phase(c), Result(c)' = Result(c),
         ByteOfRequest(req[c])' = ByteOfRequest(req[c])
  PROVE  UNCHANGED Abstract!avars
BY StoreFixesBytes, StutterBytes

(* A step of one thread by which its request takes effect.                 *)
LEMMA FinishRequest ==
  ASSUME NEW c \in Clients, OthersRest(c),
         Phase(c) = "pending", Phase(c)' = "done",
         ByteOfRequest(req[c])' = ByteOfRequest(req[c])
  PROVE  Abstract!Finish(c, Result(c)')
<1>2. \A d \in Clients : d # c => /\ Phase(d)' = Phase(d)
                                   /\ Result(d)' = Result(d)
    BY RestingClient
<1>3. \A d \in Clients : ByteOfRequest(req[d])' = ByteOfRequest(req[d])
    BY RestingClient
<1> QED
    BY <1>2, <1>3 DEF Abstract!Finish

LEMMA StepRefines == IInv /\ [Next]_vars => [Abstract!AtomicNext]_(Abstract!avars)
<1> SUFFICES ASSUME TypeOK, RequestInv, InsertInv, OneNodePerKey, PointersValid, [Next]_vars
             PROVE  [Abstract!AtomicNext]_(Abstract!avars)
    BY DEF IInv
<1> USE ConstantsAssumption, PositionAssumption DEF TypeOK, Goto, lockVars, Bytes
<1>0. \A c \in Clients : /\ pos[c] \in Nat /\ node[c] \in Nat /\ pos[c] <= Width
                          /\ req[c].cmd \in {"SET", "GET", "BAD", "NONE"}
                          /\ (req[c] \in SetRequests => req[c].cmd = "SET")
                          /\ (req[c] \in GetRequests => req[c].cmd = "GET")
    BY RequestByCommand
<1>1. ASSUME NEW c \in Clients, Dispatch(c) PROVE [Abstract!AtomicNext]_(Abstract!avars)
  <2>1. OthersRest(c) /\ UNCHANGED store
      BY <1>1 DEF Dispatch, OthersRest
  <2>2. /\ Phase(c)' = Phase(c) /\ Result(c)' = Result(c)
        /\ ByteOfRequest(req[c])' = ByteOfRequest(req[c])
      BY <1>1, <1>0 DEF Dispatch, RequestInv, PointersValid, Phase, TookEffect, Silent, Result, Answer, ByteOfRequest
  <2> QED BY <2>1, <2>2, Stutter
<1>2. ASSUME NEW c \in Clients, Reject(c) PROVE [Abstract!AtomicNext]_(Abstract!avars)
  <2>1. OthersRest(c) /\ UNCHANGED store /\ req' = req
      BY <1>2 DEF Reject, OthersRest
  <2>2. Phase(c) = "pending" /\ Phase(c)' = "done" /\ Result(c)' = [kind |-> "error"]
      BY <1>2, <1>0 DEF Reject, Phase, TookEffect, Silent, Result, Answer
  <2>3. Abstract!Finish(c, [kind |-> "error"])
      BY <2>1, <2>2, FinishRequest
  <2>4. \A k \in Keys : ByteOfKey(k)' = ByteOfKey(k)
      BY <2>1, StoreFixesBytes
  <2>5. Abstract!AtomicReject(c)
      BY <1>2, <2>3, <2>4 DEF Reject, Abstract!AtomicReject, ByteOfRequest
  <2> QED BY <2>5 DEF Abstract!AtomicNext
<1>3. ASSUME NEW c \in Clients, LockExclusive(c) PROVE [Abstract!AtomicNext]_(Abstract!avars)
  <2>1. OthersRest(c) /\ UNCHANGED store
      BY <1>3 DEF LockExclusive, OthersRest
  <2>2. /\ Phase(c)' = Phase(c) /\ Result(c)' = Result(c)
        /\ ByteOfRequest(req[c])' = ByteOfRequest(req[c])
      BY <1>3, <1>0 DEF LockExclusive, RequestInv, PointersValid, Phase, TookEffect, Silent, Result, Answer, ByteOfRequest
  <2> QED BY <2>1, <2>2, Stutter
<1>4. ASSUME NEW c \in Clients, LockShared(c) PROVE [Abstract!AtomicNext]_(Abstract!avars)
  <2>1. OthersRest(c) /\ UNCHANGED store
      BY <1>4 DEF LockShared, OthersRest
  <2>2. /\ Phase(c)' = Phase(c) /\ Result(c)' = Result(c)
        /\ ByteOfRequest(req[c])' = ByteOfRequest(req[c])
      BY <1>4, <1>0 DEF LockShared, RequestInv, PointersValid, Phase, TookEffect, Silent, Result, Answer, ByteOfRequest
  <2> QED BY <2>1, <2>2, Stutter
<1>5. ASSUME NEW c \in Clients, SearchHit(c) PROVE [Abstract!AtomicNext]_(Abstract!avars)
  <2>1. OthersRest(c) /\ UNCHANGED store /\ req' = req /\ pos' = pos
        /\ pc[c] = "search" /\ node'[c] # 0
        /\ pc'[c] = IF req[c].cmd = "SET" THEN "copy" ELSE "unlock"
      BY <1>5 DEF SearchHit, IsMatch, OthersRest
  <2>2. pos[c] = 0
      BY <2>1 DEF RequestInv, Fresh
  <2>3. Phase(c)' = Phase(c) /\ Result(c)' = Result(c)
      BY <2>1, <2>2 DEF Phase, TookEffect, Silent, Result, Answer
  <2> QED BY <2>1, <2>3, Stutter
<1>6. ASSUME NEW c \in Clients, SearchMiss(c) PROVE [Abstract!AtomicNext]_(Abstract!avars)
  <2>1. OthersRest(c) /\ UNCHANGED store /\ req' = req
        /\ pc[c] = "search" /\ node'[c] = 0 /\ IsAbsent(req[c].key)
        /\ pc'[c] = IF req[c].cmd = "SET" THEN "insert" ELSE "unlock"
      BY <1>6 DEF SearchMiss, OthersRest
  <2>0. req[c] \in SetRequests \/ req[c] \in GetRequests
      BY <2>1 DEF RequestInv
  <2>2. CASE req[c].cmd = "SET"
    <3>1. /\ Phase(c)' = Phase(c) /\ Result(c)' = Result(c)
        BY <2>1, <2>2 DEF Phase, TookEffect, Silent, Result, Answer
    <3> QED BY <2>1, <3>1, Stutter
  <2>3. CASE req[c].cmd = "GET"
    <3>1. Phase(c) = "pending" /\ Phase(c)' = "done" /\ Result(c)' = [kind |-> "missing"]
        BY <2>1, <2>3 DEF Phase, TookEffect, Silent, Result, Answer
    <3>2. Abstract!Finish(c, [kind |-> "missing"])
        BY <2>1, <3>1, FinishRequest
    <3>3. \A k \in Keys : ByteOfKey(k)' = ByteOfKey(k)
        BY <2>1, StoreFixesBytes
    <3>4. req[c].key \in Keys /\ ByteOfKey(req[c].key) = Blank
      <4>1. req[c] \in GetRequests
          BY <2>0, <2>3 DEF SetRequests
      <4> QED BY <2>1, <4>1 DEF GetRequests, ByteOfKey
    <3>5. Abstract!AtomicGet(c)
        BY <2>3, <3>2, <3>3, <3>4 DEF Abstract!AtomicGet, ByteOfRequest
    <3> QED BY <3>5 DEF Abstract!AtomicNext
  <2>4. req[c].cmd = "SET" \/ req[c].cmd = "GET"
      BY <2>0 DEF SetRequests, GetRequests
  <2> QED BY <2>2, <2>3, <2>4
<1>7. ASSUME NEW c \in Clients, CopyByte(c) PROVE [Abstract!AtomicNext]_(Abstract!avars)
  <2>1. OthersRest(c) /\ pc' = pc /\ req' = req /\ buffer' = buffer /\ node' = node
        /\ pc[c] = "copy" /\ pos'[c] = pos[c] + 1
      BY <1>7 DEF CopyByte, OthersRest
  <2>2. req[c] \in SetRequests /\ req[c].cmd = "SET"
    <3>1. req[c] \in SetRequests
        BY <1>7, CopyByteEffect
    <3> QED BY <3>1 DEF SetRequests
  <2>3. /\ node[c] \in 1..Len(store) /\ Len(store) \in Nat /\ Len(store') = Len(store)
        /\ store[node[c]].key = req[c].key
      BY <1>7, CopyByteEffect, LenProperties
  <2>4. \A i \in 1..Len(store) :
           /\ store'[i].key = store[i].key
           /\ store'[i].value[Position] = IF i = node[c] /\ Position = pos[c] + 1
                                          THEN req[c].value[Position]
                                          ELSE store[i].value[Position]
      BY <1>7, CopyByteEffect
  <2>5. \A k \in Keys : ByteOfKey(k)' =
                            IF k = req[c].key /\ Position = pos[c] + 1
                            THEN req[c].value[Position] ELSE ByteOfKey(k)
    <3> TAKE k \in Keys
    <3>1. CASE \E i \in 1..Len(store) : store[i].key = k
      <4>1. PICK i \in 1..Len(store) : store[i].key = k
          BY <3>1
      <4>2. ByteOfKey(k) = store[i].value[Position]
          BY <2>3, <4>1, ByteOfNode
      <4>3. OneNodePerKey'
          BY StepOneNodePerKey
      <4>4. i \in 1..Len(store') /\ store'[i].key = k
          BY <2>3, <2>4, <4>1
      <4>5. ByteOfKey(k)' = store'[i].value[Position]
          BY <4>3, <4>4, ByteOfNodePrimed
      <4>6. k = req[c].key <=> i = node[c]
          BY <2>3, <4>1 DEF OneNodePerKey
      <4> QED BY <2>4, <4>2, <4>5, <4>6
    <3>2. CASE \A i \in 1..Len(store) : store[i].key # k
      <4>1. IsAbsent(k) /\ IsAbsent(k)'
          BY <2>3, <2>4, <3>2 DEF IsAbsent
      <4> QED BY <2>3, <3>2, <4>1 DEF ByteOfKey
    <3> QED BY <3>1, <3>2
  <2>6. CASE Position = pos[c] + 1
    <3>1. Phase(c) = "pending" /\ Phase(c)' = "done" /\ Result(c)' = [kind |-> "ok"]
        BY <1>0, <2>1, <2>2, <2>6 DEF Phase, TookEffect, Silent, Result, Answer
    <3>2. Abstract!Finish(c, [kind |-> "ok"])
        BY <2>1, <3>1, FinishRequest
    <3>3. Abstract!AtomicSet(c)
        BY <2>2, <2>5, <2>6, <3>2 DEF Abstract!AtomicSet, ByteOfRequest
    <3> QED BY <3>3 DEF Abstract!AtomicNext
  <2>7. CASE Position # pos[c] + 1
    <3>1. Phase(c)' = Phase(c) /\ Result(c)' = Result(c)
        BY <1>0, <2>1, <2>2, <2>7 DEF Phase, TookEffect, Silent, Result, Answer
    <3> QED BY <2>1, <2>5, <2>7, <3>1, StutterBytes
  <2> QED BY <2>6, <2>7
<1>8. ASSUME NEW c \in Clients, CopyEnd(c) PROVE [Abstract!AtomicNext]_(Abstract!avars)
  <2>1. OthersRest(c) /\ UNCHANGED <<store, req, node, buffer>>
        /\ pc[c] = "copy" /\ pos[c] = Width /\ pc'[c] = "unlock"
      BY <1>8 DEF CopyEnd, OthersRest
  <2>2. req[c].cmd = "SET"
    <3>1. req[c] \in SetRequests
        BY <2>1 DEF RequestInv
    <3> QED BY <3>1 DEF SetRequests
  <2>3. Phase(c)' = Phase(c) /\ Result(c)' = Result(c)
      BY <2>1, <2>2 DEF Phase, TookEffect, Silent, Result, Answer
  <2> QED BY <2>1, <2>3, Stutter
<1>9. ASSUME NEW c \in Clients, InsertNode(c) PROVE [Abstract!AtomicNext]_(Abstract!avars)
  <2>1. OthersRest(c) /\ req' = req /\ pc[c] = "insert" /\ pc'[c] = "unlock"
      BY <1>9 DEF InsertNode, OthersRest
  <2>2. req[c] \in SetRequests /\ req[c].cmd = "SET" /\ IsAbsent(req[c].key)
    <3>1. req[c] \in SetRequests
        BY <1>9, InsertNodeEffect
    <3>2. req[c].cmd = "SET"
        BY <3>1 DEF SetRequests
    <3> QED BY <2>1, <3>1, <3>2 DEF InsertInv
  <2>3. /\ Len(store) \in Nat /\ Len(store') = Len(store) + 1
        /\ \A i \in 1..Len(store) : store'[i] = store[i]
      BY <1>9, InsertNodeEffect
  <2>4. /\ store'[Len(store) + 1].key = req[c].key
        /\ store'[Len(store) + 1].value = req[c].value
      BY <1>9, InsertNodeEffect
  <2>5. OneNodePerKey'
      BY StepOneNodePerKey
  <2>6. \A k \in Keys : ByteOfKey(k)' = IF k = req[c].key THEN req[c].value[Position]
                                                          ELSE ByteOfKey(k)
    <3> TAKE k \in Keys
    <3>1. CASE k = req[c].key
      <4>1. Len(store) + 1 \in 1..Len(store')
          BY <2>3
      <4>2. ByteOfKey(k)' = store'[Len(store) + 1].value[Position]
          BY <2>4, <2>5, <3>1, <4>1, ByteOfNodePrimed
      <4> QED BY <2>4, <3>1, <4>2
    <3>2. CASE k # req[c].key /\ \E i \in 1..Len(store) : store[i].key = k
      <4>1. PICK i \in 1..Len(store) : store[i].key = k
          BY <3>2
      <4>2. ByteOfKey(k) = store[i].value[Position]
          BY <2>3, <4>1, ByteOfNode
      <4>3. i \in 1..Len(store') /\ store'[i] = store[i]
          BY <2>3
      <4>4. ByteOfKey(k)' = store'[i].value[Position]
          BY <2>5, <4>1, <4>3, ByteOfNodePrimed
      <4> QED BY <3>2, <4>2, <4>3, <4>4
    <3>3. CASE k # req[c].key /\ \A i \in 1..Len(store) : store[i].key # k
      <4>1. \A i \in 1..Len(store') : i \in 1..Len(store) \/ i = Len(store) + 1
          BY <2>3
      <4>2. IsAbsent(k) /\ IsAbsent(k)'
          BY <2>3, <2>4, <3>3, <4>1 DEF IsAbsent
      <4> QED BY <3>3, <4>2 DEF ByteOfKey
    <3> QED BY <3>1, <3>2, <3>3
  <2>7. Phase(c) = "pending" /\ Phase(c)' = "done" /\ Result(c)' = [kind |-> "ok"]
      BY <2>1, <2>2 DEF Phase, TookEffect, Silent, Result, Answer
  <2>8. Abstract!Finish(c, [kind |-> "ok"])
      BY <2>1, <2>7, FinishRequest
  <2>9. Abstract!AtomicSet(c)
      BY <2>2, <2>6, <2>8 DEF Abstract!AtomicSet, ByteOfRequest
  <2> QED BY <2>9 DEF Abstract!AtomicNext
<1>10. ASSUME NEW c \in Clients, SetReturns(c) PROVE [Abstract!AtomicNext]_(Abstract!avars)
  <2>1. OthersRest(c) /\ UNCHANGED store
      BY <1>10 DEF SetReturns, Release, OthersRest
  <2>2. /\ Phase(c)' = Phase(c) /\ Result(c)' = Result(c)
        /\ ByteOfRequest(req[c])' = ByteOfRequest(req[c])
      BY <1>10, <1>0 DEF SetReturns, Release, RequestInv, PointersValid, Phase, TookEffect, Silent, Result, Answer, ByteOfRequest
  <2> QED BY <2>1, <2>2, Stutter
<1>11. ASSUME NEW c \in Clients, GetReturnsPointer(c) PROVE [Abstract!AtomicNext]_(Abstract!avars)
  <2>1. OthersRest(c) /\ UNCHANGED store
      BY <1>11 DEF GetReturnsPointer, Release, OthersRest
  <2>2. /\ Phase(c)' = Phase(c) /\ Result(c)' = Result(c)
        /\ ByteOfRequest(req[c])' = ByteOfRequest(req[c])
      BY <1>11, <1>0 DEF GetReturnsPointer, Release, RequestInv, PointersValid, Phase, TookEffect, Silent, Result, Answer, ByteOfRequest
  <2> QED BY <2>1, <2>2, Stutter
<1>12. ASSUME NEW c \in Clients, GetReturnsNotFound(c) PROVE [Abstract!AtomicNext]_(Abstract!avars)
  <2>1. OthersRest(c) /\ UNCHANGED store
      BY <1>12 DEF GetReturnsNotFound, Release, OthersRest
  <2>2. /\ Phase(c)' = Phase(c) /\ Result(c)' = Result(c)
        /\ ByteOfRequest(req[c])' = ByteOfRequest(req[c])
      BY <1>12, <1>0 DEF GetReturnsNotFound, Release, RequestInv, PointersValid, Phase, TookEffect, Silent, Result, Answer, ByteOfRequest
  <2> QED BY <2>1, <2>2, Stutter
<1>13. ASSUME NEW c \in Clients, FormatByte(c) PROVE [Abstract!AtomicNext]_(Abstract!avars)
  <2>1. OthersRest(c) /\ UNCHANGED store /\ req' = req /\ pc' = pc /\ node' = node
        /\ pc[c] = "format" /\ pos'[c] = pos[c] + 1
        /\ buffer'[c] = [buffer[c] EXCEPT ![pos[c] + 1] = store[node[c]].value[pos[c] + 1]]
      BY <1>13 DEF FormatByte, OthersRest
  <2>2. /\ node[c] \in 1..Len(store) /\ store[node[c]].key = req[c].key /\ node[c] # 0
        /\ req[c] \in GetRequests /\ req[c].cmd = "GET" /\ req[c].key \in Keys
      BY <1>0, <2>1 DEF GetRequests, RequestInv, PointersValid
  <2>3. \A k \in Keys : ByteOfKey(k)' = ByteOfKey(k)
      BY <2>1, StoreFixesBytes
  <2>4. CASE Position = pos[c] + 1
    <3>1. ByteOfKey(req[c].key) = store[node[c]].value[Position]
        BY <2>2, ByteOfNode
    <3>2. buffer'[c][Position] = store[node[c]].value[Position]
        BY <2>1, <2>4
    <3>3. store[node[c]].value[Position] # Blank
      <4>1. store[node[c]] \in [key : Keys, value : Words]
          BY <2>2, ElementOfSeq
      <4> QED BY <4>1 DEF Words
    <3>4. Phase(c) = "pending" /\ Phase(c)' = "done"
          /\ Result(c)' = [kind |-> "value", value |-> ByteOfKey(req[c].key)]
        BY <1>0, <2>1, <2>2, <2>4, <3>1, <3>2 DEF Phase, TookEffect, Silent, Result, Answer
    <3>5. Abstract!Finish(c, [kind |-> "value", value |-> ByteOfKey(req[c].key)])
        BY <2>1, <3>4, FinishRequest
    <3>6. Abstract!AtomicGet(c)
        BY <2>2, <2>3, <3>1, <3>3, <3>5 DEF Abstract!AtomicGet, ByteOfRequest
    <3> QED BY <3>6 DEF Abstract!AtomicNext
  <2>5. CASE Position # pos[c] + 1
    <3>1. buffer'[c][Position] = buffer[c][Position]
        BY <2>1, <2>5
    <3>2. Phase(c)' = Phase(c) /\ Result(c)' = Result(c)
        BY <1>0, <2>1, <2>2, <2>5, <3>1 DEF Phase, TookEffect, Silent, Result, Answer
    <3> QED BY <2>1, <3>2, Stutter
  <2> QED BY <2>4, <2>5
<1>14. ASSUME NEW c \in Clients, FormatEnd(c) PROVE [Abstract!AtomicNext]_(Abstract!avars)
  <2>1. OthersRest(c) /\ UNCHANGED store
      BY <1>14 DEF FormatEnd, OthersRest
  <2>2. /\ Phase(c)' = Phase(c) /\ Result(c)' = Result(c)
        /\ ByteOfRequest(req[c])' = ByteOfRequest(req[c])
      BY <1>14, <1>0 DEF FormatEnd, RequestInv, PointersValid, Phase, TookEffect, Silent, Result, Answer, ByteOfRequest
  <2> QED BY <2>1, <2>2, Stutter
<1>15. ASSUME NEW c \in Clients, WriteReply(c) PROVE [Abstract!AtomicNext]_(Abstract!avars)
  <2>1. OthersRest(c) /\ UNCHANGED store /\ req'[c] = NoRequest
      BY <1>15 DEF WriteReply, OthersRest
  <2>2. Phase(c) = "done" /\ Phase(c)' = "idle" /\ Result(c)' = [kind |-> "none"]
      BY <1>15 DEF WriteReply, Phase, TookEffect, Silent, Result, Answer
  <2>3. ByteOfRequest(req[c])' = Abstract!NoCall
      BY <2>1 DEF ByteOfRequest, NoRequest, Abstract!NoCall
  <2>4. \A k \in Keys : ByteOfKey(k)' = ByteOfKey(k)
      BY <2>1, StoreFixesBytes
  <2>5. \A d \in Clients : d # c =>
           /\ Phase(d)' = Phase(d) /\ Result(d)' = Result(d)
           /\ ByteOfRequest(req[d])' = ByteOfRequest(req[d])
      BY <2>1, RestingClient
  <2>6. Abstract!Respond(c)
      BY <2>2, <2>3, <2>4, <2>5 DEF Abstract!Respond, Abstract!NoResult
  <2> QED BY <2>6 DEF Abstract!AtomicNext
<1>16. ASSUME NEW c \in Clients, Accept(c) PROVE [Abstract!AtomicNext]_(Abstract!avars)
  <2>1. OthersRest(c) /\ UNCHANGED store
      BY <1>16 DEF Accept, OthersRest
  <2>2. /\ Phase(c)' = Phase(c) /\ Result(c)' = Result(c)
        /\ ByteOfRequest(req[c])' = ByteOfRequest(req[c])
      BY <1>16, <1>0 DEF Accept, RequestInv, PointersValid, Phase, TookEffect, Silent, Result, Answer, ByteOfRequest
  <2> QED BY <2>1, <2>2, Stutter
<1>17. ASSUME NEW c \in Clients, AcceptWithoutThread(c) PROVE [Abstract!AtomicNext]_(Abstract!avars)
  <2>1. OthersRest(c) /\ UNCHANGED store
      BY <1>17 DEF AcceptWithoutThread, OthersRest
  <2>2. /\ Phase(c)' = Phase(c) /\ Result(c)' = Result(c)
        /\ ByteOfRequest(req[c])' = ByteOfRequest(req[c])
      BY <1>17, <1>0 DEF AcceptWithoutThread, RequestInv, PointersValid, Phase, TookEffect, Silent, Result, Answer, ByteOfRequest
  <2> QED BY <2>1, <2>2, Stutter
<1>18. ASSUME NEW c \in Clients, GiveUp(c) PROVE [Abstract!AtomicNext]_(Abstract!avars)
  <2>1. OthersRest(c) /\ UNCHANGED store
      BY <1>18 DEF GiveUp, OthersRest
  <2>2. /\ Phase(c)' = Phase(c) /\ Result(c)' = Result(c)
        /\ ByteOfRequest(req[c])' = ByteOfRequest(req[c])
      BY <1>18, <1>0 DEF GiveUp, RequestInv, PointersValid, Phase, TookEffect, Silent, Result, Answer, ByteOfRequest
  <2> QED BY <2>1, <2>2, Stutter
<1>19. ASSUME NEW c \in Clients, Hangup(c) PROVE [Abstract!AtomicNext]_(Abstract!avars)
  <2>1. OthersRest(c) /\ UNCHANGED store
      BY <1>19 DEF Hangup, OthersRest
  <2>2. /\ Phase(c)' = Phase(c) /\ Result(c)' = Result(c)
        /\ ByteOfRequest(req[c])' = ByteOfRequest(req[c])
      BY <1>19, <1>0 DEF Hangup, RequestInv, PointersValid, Phase, TookEffect, Silent, Result, Answer, ByteOfRequest
  <2> QED BY <2>1, <2>2, Stutter
<1>20. ASSUME NEW c \in Clients, NEW r \in Requests, ReadRequest(c, r) PROVE [Abstract!AtomicNext]_(Abstract!avars)
  <2>1. OthersRest(c) /\ UNCHANGED store /\ req'[c] = r
      BY <1>20 DEF ReadRequest, OthersRest
  <2>2. /\ Phase(c) = "idle" /\ Phase(c)' = "pending"
        /\ Result(c) = [kind |-> "none"] /\ Result(c)' = [kind |-> "none"]
      BY <1>20 DEF ReadRequest, Phase, TookEffect, Silent, Result, Answer
  <2>3. ByteOfRequest(r) \in Abstract!Calls
      BY DEF ByteOfRequest, Abstract!Calls, Requests, SetRequests, GetRequests,
             BadRequests, Words
  <2>4. \A k \in Keys : ByteOfKey(k)' = ByteOfKey(k)
      BY <2>1, StoreFixesBytes
  <2>5. \A d \in Clients : d # c =>
           /\ Phase(d)' = Phase(d) /\ Result(d)' = Result(d)
           /\ ByteOfRequest(req[d])' = ByteOfRequest(req[d])
      BY <2>1, RestingClient
  <2>6. ByteOfRequest(req[c])' = ByteOfRequest(r)
      BY <2>1 DEF ByteOfRequest
  <2>7. Abstract!Invoke(c, ByteOfRequest(r))
    <3>1. \A d \in Clients : /\ Result(d)' = Result(d)
                             /\ Phase(d)' = IF d = c THEN "pending" ELSE Phase(d)
                             /\ ByteOfRequest(req[d])' = IF d = c THEN ByteOfRequest(r)
                                                         ELSE ByteOfRequest(req[d])
        BY <2>2, <2>5, <2>6
    <3> QED BY <2>2, <2>4, <3>1 DEF Abstract!Invoke
  <2> QED BY <2>3, <2>7 DEF Abstract!AtomicNext
<1>21. CASE UNCHANGED vars
  <2>1. \A k \in Keys : ByteOfKey(k)' = ByteOfKey(k)
      BY <1>21, StoreFixesBytes DEF vars
  <2>2. \A d \in Clients : /\ Phase(d)' = Phase(d) /\ Result(d)' = Result(d)
                           /\ ByteOfRequest(req[d])' = ByteOfRequest(req[d])
      BY <1>21 DEF vars, Phase, TookEffect, Silent, Result, Answer, ByteOfRequest
  <2> QED BY <2>1, <2>2 DEF Abstract!avars
<1> QED
    BY <1>1, <1>2, <1>3, <1>4, <1>5, <1>6, <1>7, <1>8, <1>9, <1>10, <1>11, <1>12, <1>13, <1>14, <1>15, <1>16, <1>17, <1>18, <1>19, <1>20, <1>21 DEF Next, ServerStep, ClientStep

LEMMA InitRefines == Init => Abstract!AtomicInit
<1> SUFFICES ASSUME Init PROVE Abstract!AtomicInit
    OBVIOUS
<1>1. \A k \in Keys : ByteOfKey(k) = Blank
    BY DEF Init, ByteOfKey, IsAbsent
<1>2. \A c \in Clients : /\ ByteOfRequest(req[c]) = [cmd |-> "NONE"]
                         /\ Phase(c) = "idle"
                         /\ Result(c) = [kind |-> "none"]
    BY DEF Init, NoRequest, ByteOfRequest, Phase, Silent, TookEffect, Result,
           Answer
<1> QED
    BY <1>1, <1>2 DEF Abstract!AtomicInit, Abstract!NoCall, Abstract!NoResult

(* The list behind its lock, with all the steps of its threads, implements *)
(* a store whose SETs and GETs are atomic, at every byte of the values.    *)
THEOREM Linearizability == Spec => LinearizableByte
<1>1. Init => Abstract!AtomicInit
    BY InitRefines
<1>2. IInv /\ [Next]_vars => [Abstract!AtomicNext]_(Abstract!avars)
    BY StepRefines
<1> QED
    BY InductiveInvariant, <1>1, <1>2, PTL DEF Spec, LinearizableByte, Abstract!AtomicSpec
=============================================================================
