-------------------------- MODULE SelectCalcProofs --------------------------
(***************************************************************************)
(* Proofs about SelectCalc, for any number of connections, requests and    *)
(* results.                                                                *)
(***************************************************************************)
EXTENDS SelectCalc, FiniteSetTheorems, TLAPS

(* A set of natural numbers has a least element.                           *)
LEMMA Least ==
  ASSUME NEW T, T \subseteq Nat, T # {}
  PROVE  \E x \in T : \A y \in T : x <= y
<1> DEFINE Below(x) == 0 .. x
           R == StrictSubsetOrdering(Nat)
<1>1. {Below(x) : x \in T} \subseteq FiniteSubsetsOf(Nat)
  <2> SUFFICES ASSUME NEW x \in T PROVE Below(x) \in SUBSET Nat /\ IsFiniteSet(Below(x))
      BY DEF FiniteSubsetsOf
  <2> QED BY FS_Interval
<1>2. PICK U \in {Below(x) : x \in T} : \A V \in {Below(x) : x \in T} : <<V, U>> \notin R
  <2>1. {Below(x) : x \in T} # {}
      OBVIOUS
  <2>2. IsWellFoundedOn(R, FiniteSubsetsOf(Nat))
      BY FS_StrictSubsetOrderingWellFounded
  <2> HIDE DEF Below, R
  <2> QED BY <1>1, <2>1, <2>2, WFMin, Zenon
<1>3. PICK x \in T : U = Below(x)
    OBVIOUS
<1>4. ASSUME NEW y \in T, y < x PROVE FALSE
  <2>1. Below(y) \subseteq Below(x) /\ Below(y) # Below(x)
      BY <1>4
  <2>2. <<Below(y), Below(x)>> \in R
      BY <2>1 DEF StrictSubsetOrdering
  <2> QED BY <1>2, <1>3, <2>2
<1> QED
    BY <1>4

(* A 32-bit int by its bytes.                                              *)
Int4(a, b, c, d) == a * 16777216 + b * 65536 + c * 256 + d

Byte(x) == x \in Nat /\ x < 256
Top(x)  == x \in Int /\ -128 <= x /\ x < 128

(* Every 32-bit int has four bytes, of which the highest is signed.        *)
LEMMA HasBytes ==
  ASSUME NEW n \in Int32
  PROVE  \E a, b, c, d \in Int : /\ Top(a) /\ Byte(b) /\ Byte(c) /\ Byte(d)
                                 /\ n = Int4(a, b, c, d)
<1> DEFINE q == n \div 256
           r == q \div 256
           a == r \div 256
<1>1. n \in Int /\ -2147483648 <= n /\ n < 2147483648
    BY DEF Int32
<1>2. n = 256 * q + (n % 256) /\ q \in Int /\ -8388608 <= q /\ q < 8388608 /\ Byte(n % 256)
    BY <1>1 DEF Byte
<1>3. q = 256 * r + (q % 256) /\ r \in Int /\ -32768 <= r /\ r < 32768 /\ Byte(q % 256)
    BY <1>2 DEF Byte
<1>4. r = 256 * a + (r % 256) /\ Top(a) /\ Byte(r % 256)
    BY <1>3 DEF Byte, Top
<1>5. n = Int4(a, r % 256, q % 256, n % 256)
    BY <1>2, <1>3, <1>4 DEF Int4, Byte, Top
<1> HIDE DEF q, r, a
<1> QED
    BY <1>2, <1>3, <1>4, <1>5 DEF Byte, Top

(* Division and remainder give the bytes back.                             *)
LEMMA TakeBytes ==
  ASSUME NEW a, Top(a), NEW b, Byte(b), NEW c, Byte(c), NEW d, Byte(d),
         NEW n, n = Int4(a, b, c, d)
  PROVE  /\ n \in Int32
         /\ (n \div 1) % 256 = d /\ (n \div 256) % 256 = c
         /\ (n \div 65536) % 256 = b
         /\ (n \div 16777216) % 256 = IF a < 0 THEN a + 256 ELSE a
<1> USE DEF Byte, Top
<1>1. n \in Int32
    BY DEF Int4, Int32
<1>2. n \div 1 = n /\ n % 256 = d
    BY DEF Int4
<1>3. n \div 256 = a * 65536 + b * 256 + c
    BY DEF Int4
<1>4. n \div 65536 = a * 256 + b
    BY DEF Int4
<1>5. n \div 16777216 = a
    BY DEF Int4
<1>6. (a * 65536 + b * 256 + c) % 256 = c
    OBVIOUS
<1>7. (a * 256 + b) % 256 = b
    OBVIOUS
<1>8. a % 256 = IF a < 0 THEN a + 256 ELSE a
    OBVIOUS
<1> QED
    BY <1>1, <1>2, <1>3, <1>4, <1>5, <1>6, <1>7, <1>8

(* Turning a 32-bit int around twice gives it back.                        *)
LEMMA NetNet ==
  ASSUME NEW n \in Int32
  PROVE  Net(n) \in Int32 /\ Net(Net(n)) = n
<1> DEFINE signed(x) == IF x < 128 THEN x ELSE x - 256
           unsigned(x) == IF x < 0 THEN x + 256 ELSE x
<1>1. ASSUME NEW a, Top(a), NEW b, Byte(b), NEW c, Byte(c), NEW d, Byte(d),
             NEW m, m = Int4(a, b, c, d)
      PROVE  /\ m \in Int32
             /\ Net(m) = Int4(signed(d), c, b, unsigned(a))
  <2>1. /\ m \in Int32
        /\ (m \div 1) % 256 = d /\ (m \div 256) % 256 = c
        /\ (m \div 65536) % 256 = b /\ (m \div 16777216) % 256 = unsigned(a)
      BY <1>1, TakeBytes
  <2> QED BY <2>1 DEF Net, Int4
<1>2. PICK a, b, c, d \in Int : /\ Top(a) /\ Byte(b) /\ Byte(c) /\ Byte(d)
                                /\ n = Int4(a, b, c, d)
    BY HasBytes
<1>3. /\ Top(signed(d)) /\ Byte(unsigned(a))
      /\ signed(unsigned(a)) = a /\ unsigned(signed(d)) = d
    BY <1>2 DEF Byte, Top
<1>4. Net(n) = Int4(signed(d), c, b, unsigned(a))
    BY <1>1, <1>2
<1>5. Net(n) \in Int32 /\ Net(Net(n)) = Int4(signed(unsigned(a)), b, c, unsigned(signed(d)))
    BY <1>1, <1>2, <1>3, <1>4
<1> QED
    BY <1>2, <1>3, <1>5

-----------------------------------------------------------------------------
(* A connection waits once to be accepted, and has no descriptor then.     *)
QueueInv ==
  /\ \A i, j \in DOMAIN backlog : backlog[i] = backlog[j] => i = j
  /\ \A c \in Conns : Queued(c) => fd[c] = NoFd /\ client[c] # "off"
  /\ \A c \in Conns : client[c] = "off" => fd[c] = NoFd

(* The loop comes to connections where there is something to read, and     *)
(* what there is to read is what the client asked last.                    *)
TalkInv ==
  \A c \in Conns :
    /\ fd[c] \in allfds => Readable(c)
    /\ inbox[c] # Nothing => client[c] \in {"waiting", "ended"} /\ asked[c] = inbox[c]
    /\ inbox[c].op = "quit" => client[c] = "ended"
    /\ answer[c] # NoAnswer => client[c] = "waiting" /\ inbox[c] = Nothing

IInv == TypeOK /\ DescriptorsKept /\ QueueInv /\ TalkInv

LEMMA ConnsFinite ==
  /\ IsFiniteSet(Conns) /\ Cardinality(Conns) \in Nat
  /\ IsFiniteSet(Fds) /\ Cardinality(Fds) = Cardinality(Conns)
  /\ \A f \in Fds : f \in Nat /\ f # Listen /\ f # NoFd
  /\ Fds \subseteq Nat /\ Listen \in Nat /\ Listen \notin Fds /\ NoFd \notin Fds
<1>1. IsFiniteSet(Conns) /\ Cardinality(Conns) \in Nat
    BY ConstantsAssumption, FS_CardinalityType
<1>2. IsFiniteSet(Fds) /\ Cardinality(Fds) = Cardinality(Conns)
  <2>1. Listen + 1 \in Int /\ Listen + Cardinality(Conns) \in Int
      BY <1>1 DEF Listen
  <2> QED BY <1>1, <2>1, FS_Interval DEF Fds, Listen
<1> QED
    BY <1>1, <1>2 DEF Fds, Listen, NoFd

(* The numbers that can be in result are 32-bit ints and stay themselves   *)
(* when they are turned around.                                            *)
LEMMA OutcomesTurn ==
  /\ \A n \in Outcomes : n \in Int32 /\ Net(n) \in Outcomes /\ Net(Net(n)) = n
  /\ Results \subseteq Outcomes
  /\ 0 \in Int32 /\ \A n \in Int32 : n \in Int
<1>1. \A n \in Results : n \in Int32
    BY ConstantsAssumption
<1>2. ASSUME NEW n \in Outcomes PROVE n \in Int32 /\ Net(n) \in Outcomes /\ Net(Net(n)) = n
  <2>1. CASE n \in Results
      BY <1>1, <2>1, NetNet DEF Outcomes
  <2>2. CASE n \notin Results
    <3>1. PICK r \in Results : n = Net(r)
        BY <2>2 DEF Outcomes
    <3>2. r \in Int32
        BY <1>1
    <3> QED BY <1>1, <3>1, <3>2, NetNet DEF Outcomes
  <2> QED BY <2>1, <2>2
<1> QED
    BY <1>2 DEF Outcomes, Int32

(* As long as a connection has no descriptor there is a free one, and      *)
(* accept takes it.                                                        *)
LEMMA FreeFdFree ==
  ASSUME TypeOK, DescriptorsKept, NEW e \in Conns, fd[e] = NoFd
  PROVE  FreeFd \in Fds /\ \A c \in Conns : fd[c] # FreeFd
<1> DEFINE Open == {c \in Conns : fd[c] # NoFd}
           F == {f \in Fds : \A c \in Conns : fd[c] # f}
           g == [c \in Open |-> fd[c]]
<1>1. /\ IsFiniteSet(Open) /\ Cardinality(Open) < Cardinality(Fds)
  <2>1. Open \in SUBSET Conns /\ Open # Conns
      OBVIOUS
  <2>2. /\ IsFiniteSet(Open) /\ Cardinality(Open) <= Cardinality(Conns)
        /\ Cardinality(Conns) # Cardinality(Open)
      BY <2>1, ConnsFinite, FS_Subset
  <2>3. Cardinality(Open) \in Nat
      BY <2>2, FS_CardinalityType
  <2> QED BY <2>2, <2>3, ConnsFinite
<1>2. g \in Injection(Open, Fds)
  <2>1. g \in [Open -> Fds]
      BY DEF TypeOK
  <2>2. \A c, d \in Open : g[c] = g[d] => c = d
      BY DEF DescriptorsKept
  <2> QED BY <2>1, <2>2 DEF Injection, IsInjective
<1>3. F # {}
  <2>1. SUFFICES ASSUME F = {} PROVE FALSE
      OBVIOUS
  <2>2. g \in [Open -> Fds]
      BY <1>2 DEF Injection
  <2>3. \A f \in Fds : \E c \in Open : g[c] = f
    <3> SUFFICES ASSUME NEW f \in Fds PROVE \E c \in Open : g[c] = f
        OBVIOUS
    <3>1. PICK c \in Conns : fd[c] = f
        BY <2>1
    <3>2. c \in Open /\ g[c] = f
        BY <3>1, ConnsFinite
    <3> QED BY <3>2
  <2>4. g \in Surjection(Open, Fds)
      BY <2>2, <2>3 DEF Surjection
  <2>5. Cardinality(Open) = Cardinality(Fds)
      BY <1>2, <2>4, ConnsFinite, FS_Injection
  <2>6. Cardinality(Open) \in Nat
      BY <1>1, FS_CardinalityType
  <2> QED BY <1>1, <2>5, <2>6
<1>4. PICK f \in F : \A h \in F : f <= h
    BY <1>3, ConnsFinite, Least
<1>5. \A h \in Fds : h < f => \E c \in Conns : fd[c] = h
    BY <1>4, ConnsFinite
<1>6. \E h \in Fds : /\ \A c \in Conns : fd[c] # h
                     /\ \A i \in Fds : i < h => \E c \in Conns : fd[c] = i
    BY <1>4, <1>5
<1> HIDE DEF Open, F, g
<1>7. /\ FreeFd \in Fds /\ \A c \in Conns : fd[c] # FreeFd
    BY <1>6 DEF FreeFd
<1> QED
    BY <1>7

TrapStep(c) ==
  /\ Traps(c)
  /\ life' = "sigfpe"
  /\ UNCHANGED <<clientVars, inbox, answer, backlog, fdVars, loopVars, calcVars>>

LEMMA HeadAccepted ==
  ASSUME TypeOK, DescriptorsKept, QueueInv, Listen \in Ready
  PROVE  /\ backlog # << >> /\ Head(backlog) \in Conns
         /\ Head(backlog) = backlog[1] /\ 1 \in DOMAIN backlog
         /\ fd[Head(backlog)] = NoFd /\ client[Head(backlog)] # "off"
         /\ FreeFd \in Fds /\ \A c \in Conns : fd[c] # FreeFd
<1>1. backlog # << >>
  <2>1. \A c \in Conns : fd[c] # Listen
      BY ConnsFinite DEF TypeOK, Listen, NoFd
  <2> QED BY <2>1 DEF Ready
<1>2. Head(backlog) \in Conns /\ Head(backlog) = backlog[1] /\ 1 \in DOMAIN backlog
    BY <1>1 DEF TypeOK
<1>3. fd[Head(backlog)] = NoFd /\ client[Head(backlog)] # "off"
    BY <1>2 DEF QueueInv, Queued
<1> QED
    BY <1>1, <1>2, <1>3, FreeFdFree

(* select reports the connections where there is something to read.        *)
LEMMA SelectPicks ==
  ASSUME TypeOK, DescriptorsKept, Select
  PROVE  /\ allfds' \subseteq Fds /\ allfds' \subseteq readfds /\ allfds' # {}
         /\ fdNum' = Cardinality(allfds') /\ fdNum' \in 0 .. Cardinality(Conns)
         /\ \A c \in Conns : fd[c] \in allfds' => Readable(c)
<1>1. Ready # {} /\ Listen \notin Ready
    BY DEF Select
<1>2. Ready = {fd[c] : c \in {d \in Conns : fd[d] \in readfds /\ Readable(d)}}
    BY <1>1 DEF Ready
<1>3. Ready \subseteq readfds /\ Ready \subseteq Fds
    BY <1>1, <1>2, ConnsFinite, ZenonT(60) DEF TypeOK
<1>4. allfds' = Ready
    BY <1>3 DEF Select, DescriptorsKept
<1>5. fdNum' = Cardinality(allfds')
    BY DEF Select
<1>6. IsFiniteSet(Ready) /\ Cardinality(Ready) <= Cardinality(Fds) /\ Cardinality(Ready) \in Nat
    BY <1>3, ConnsFinite, FS_Subset, FS_CardinalityType
<1>7. ASSUME NEW c \in Conns, fd[c] \in Ready PROVE Readable(c)
  <2>1. PICK d \in Conns : Readable(d) /\ fd[d] = fd[c]
      BY <1>2, <1>7
  <2>2. d = c
      BY <1>3, <1>7, <2>1, ConnsFinite DEF DescriptorsKept
  <2> QED BY <2>1, <2>2
<1> QED
    BY <1>1, <1>3, <1>4, <1>5, <1>6, <1>7, ConnsFinite

(* The loop goes on while there are as many descriptors left as it thinks. *)
LEMMA Advances ==
  ASSUME TypeOK, DescriptorsKept, NEW c \in Conns, Turn(c), Advance(c)
  PROVE  /\ fd[c] \in Fds /\ allfds' \subseteq allfds /\ fd[c] \notin allfds'
         /\ fdNum' \in 0 .. Cardinality(Conns)
         /\ pc' \in {"select", "loop"}
         /\ (pc' = "loop") <=> (allfds' # {})
         /\ pc' = "loop" => fdNum' = Cardinality(allfds')
<1> DEFINE R == allfds \ {fd[c]}
<1>1. /\ pc = "loop" /\ fd[c] \in allfds /\ fd[c] \in Fds
      /\ fdNum = Cardinality(allfds) /\ fdNum \in 0 .. Cardinality(Conns)
    BY DEF Turn, DescriptorsKept, TypeOK
<1>2. IsFiniteSet(allfds)
    BY ConnsFinite, FS_Subset DEF TypeOK
<1>3. IsFiniteSet(R) /\ Cardinality(R) = fdNum - 1 /\ Cardinality(R) \in Nat
    BY <1>1, <1>2, FS_RemoveElement, FS_CardinalityType
<1>4. Cardinality(R) = 0 <=> R = {}
    BY <1>3, FS_EmptySet
<1>5. /\ allfds' = IF fdNum > 1 THEN R ELSE {}
      /\ fdNum' = fdNum - 1 /\ pc' = IF allfds' = {} THEN "select" ELSE "loop"
    BY DEF Advance
<1>6. fdNum > 1 => R # {}
    BY <1>1, <1>3, <1>4
<1>7. fdNum' \in 0 .. Cardinality(Conns)
    BY <1>1, <1>3, <1>5, ConnsFinite
<1>8. allfds' \subseteq allfds /\ fd[c] \notin allfds'
    BY <1>5
<1> HIDE DEF R
<1> QED
    BY <1>1, <1>3, <1>5, <1>6, <1>7, <1>8

(* close and FD_CLR keep the set and the open connections together.        *)
LEMMA Closes ==
  ASSUME TypeOK, DescriptorsKept, NEW c \in Conns, fd[c] \in Fds, Close(c)
  PROVE  /\ (readfds = {Listen} \cup {fd[d] : d \in {e \in Conns : fd[e] # NoFd}})'
         /\ (\A f \in readfds : f <= maxfd)'
         /\ (\A d, e \in Conns : fd[d] = fd[e] /\ fd[d] # NoFd => d = e)'
         /\ readfds' = readfds \ {fd[c]}
<1>1. readfds' = readfds \ {fd[c]} /\ maxfd' = maxfd
    BY DEF Close
<1>2. \A d \in Conns : fd'[d] = IF d = c THEN NoFd ELSE fd[d]
    BY DEF Close, TypeOK
<1>3. \A d \in Conns : fd[d] = fd[c] => d = c
    BY ConnsFinite DEF DescriptorsKept
<1>4. (readfds = {Listen} \cup {fd[d] : d \in {e \in Conns : fd[e] # NoFd}})'
    BY <1>1, <1>2, <1>3, ConnsFinite DEF DescriptorsKept
<1> QED
    BY <1>1, <1>2, <1>4 DEF DescriptorsKept

(* What a calculation or an error records and sends.                       *)
LEMMA ServedNumbers ==
  ASSUME TypeOK, NEW c \in Conns, inbox[c].op \in {"calc", "error"}, NEW n, n = Computed(inbox[c])
  PROVE  /\ inbox[c] \in Requests /\ n \in Outcomes /\ Net(n) \in Outcomes /\ Net(Net(n)) = n
         /\ NewMin(n) \in Outcomes \cup {0} /\ NewMax(n) \in Outcomes \cup {0}
         /\ Net(n) \in Int /\ Net(NewMin(n)) \in Int /\ Net(NewMax(n)) \in Int
         /\ Net(Net(NewMin(n))) <= n /\ n <= Net(Net(NewMax(n)))
<1>1. inbox[c] \in Requests
    BY DEF TypeOK, Nothing
<1>2. n \in Outcomes
    BY <1>1, OutcomesTurn DEF Computed, Requests, TypeOK
<1>3. n \in Int /\ globalMin \in Int /\ globalMax \in Int
    BY <1>2, OutcomesTurn DEF TypeOK
<1>4. NewMin(n) \in Outcomes \cup {0} /\ NewMax(n) \in Outcomes \cup {0}
    BY <1>2 DEF NewMin, NewMax, TypeOK
<1>5. NewMin(n) <= n /\ n <= NewMax(n)
    BY <1>3 DEF NewMin, NewMax
<1>6. \A m \in Outcomes \cup {0} : Net(m) \in Int /\ Net(Net(m)) = m
    BY OutcomesTurn, NetNet
<1> QED
    BY <1>1, <1>2, <1>4, <1>5, <1>6, OutcomesTurn

LEMMA StepTypeOK == IInv /\ [Next]_vars => TypeOK'
<1> SUFFICES ASSUME IInv, [Next]_vars PROVE TypeOK'
    OBVIOUS
<1>0. life' \in {"up", "sigfpe"}
    BY DEF IInv, TypeOK, Next, ServerStep, ClientStep, vars
<1> USE DEF IInv, TypeOK, clientVars, fdVars, loopVars, calcVars
<1>1. CASE Select
  <2>1. /\ allfds' \subseteq Fds /\ fdNum' \in 0 .. Cardinality(Conns)
      BY <1>1, SelectPicks
  <2> QED BY <1>0, <1>1, <2>1 DEF Select
<1>2. CASE Accept
  <2>1. /\ Listen \in Ready
        /\ fd' = [fd EXCEPT ![Head(backlog)] = FreeFd] /\ readfds' = readfds \cup {FreeFd}
        /\ maxfd' = (IF FreeFd > maxfd THEN FreeFd ELSE maxfd)
        /\ backlog' = Tail(backlog)
      BY <1>2 DEF Accept
  <2>2. FreeFd \in Fds /\ backlog # << >>
      BY <2>1, HeadAccepted
  <2>3. fd' \in [Conns -> Fds \cup {NoFd}] /\ backlog' \in Seq(Conns)
      BY <2>1, <2>2
  <2> QED BY <1>0, <1>2, <2>1, <2>2, <2>3 DEF Accept
<1>3. ASSUME NEW c \in Conns, ServeEnd(c) PROVE TypeOK'
  <2>1. /\ Turn(c) /\ Advance(c) /\ Close(c) /\ UNCHANGED <<answer, backlog, calcVars>>
      BY <1>3 DEF ServeEnd
  <2>2. /\ allfds' \subseteq allfds /\ fdNum' \in 0 .. Cardinality(Conns)
        /\ pc' \in {"select", "loop"}
      BY <2>1, Advances
  <2> QED BY <1>0, <2>1, <2>2 DEF Close
<1>4. ASSUME NEW c \in Conns, ServeQuit(c) PROVE TypeOK'
    BY <1>4, <1>0 DEF ServeQuit, Turn, Close
<1>5. ASSUME NEW c \in Conns, ServeRequest(c) PROVE TypeOK'
  <2> DEFINE n == Computed(inbox[c])
  <2>1. /\ Turn(c) /\ Advance(c) /\ inbox[c].op \in {"calc", "error"}
        /\ UNCHANGED <<clientVars, backlog, fdVars>>
        /\ result' = Net(n) /\ globalMin' = NewMin(n) /\ globalMax' = NewMax(n)
        /\ inbox' = [inbox EXCEPT ![c] = Nothing]
        /\ answer' = IF client[c] = "ended" THEN answer
                     ELSE [answer EXCEPT ![c] = [to |-> inbox[c], result |-> Net(n),
                                                 min |-> Net(NewMin(n)), max |-> Net(NewMax(n))]]
      BY <1>5 DEF ServeRequest, Serve
  <2>2. /\ allfds' \subseteq allfds /\ fdNum' \in 0 .. Cardinality(Conns)
        /\ pc' \in {"select", "loop"}
      BY <2>1, Advances
  <2>3. /\ inbox[c] \in Requests /\ Net(n) \in Outcomes
        /\ NewMin(n) \in Outcomes \cup {0} /\ NewMax(n) \in Outcomes \cup {0}
        /\ Net(n) \in Int /\ Net(NewMin(n)) \in Int /\ Net(NewMax(n)) \in Int
      BY <2>1, ServedNumbers
  <2> HIDE DEF n
  <2>4. answer' \in [Conns -> Answers \cup {NoAnswer}]
      BY <2>1, <2>3 DEF Answers
  <2> QED BY <1>0, <2>1, <2>2, <2>3, <2>4
<1>6. ASSUME NEW c \in Conns, TrapStep(c) PROVE TypeOK'
    BY <1>6, <1>0 DEF TrapStep
<1>7. ASSUME NEW c \in Conns, Connect(c) PROVE TypeOK'
    BY <1>7, <1>0 DEF Connect
<1>8. ASSUME NEW c \in Conns, Receive(c) PROVE TypeOK'
    BY <1>8, <1>0 DEF Receive
<1>9. ASSUME NEW c \in Conns, End(c) PROVE TypeOK'
    BY <1>9, <1>0 DEF End
<1>10. ASSUME NEW c \in Conns, NEW r \in Requests, Ask(c, r) PROVE TypeOK'
    BY <1>10, <1>0 DEF Ask
<1>11. CASE UNCHANGED vars
    BY <1>11 DEF vars
<1> QED
    BY <1>1, <1>2, <1>3, <1>4, <1>5, <1>6,
       <1>7, <1>8, <1>9, <1>10, <1>11
       DEF Next, ServerStep, ClientStep, TrapStep

LEMMA StepDescriptors == IInv /\ [Next]_vars => DescriptorsKept'
<1> SUFFICES ASSUME IInv, [Next]_vars PROVE DescriptorsKept'
    OBVIOUS
<1> USE DEF IInv, fdVars, loopVars
<1>1. CASE Select
  <2>1. UNCHANGED fdVars /\ pc' = "loop"
      BY <1>1 DEF Select
  <2> QED BY <1>1, <2>1, SelectPicks DEF DescriptorsKept
<1>2. CASE Accept
  <2> DEFINE h == Head(backlog)
             f == FreeFd
  <2>1. /\ pc = "select" /\ Listen \in Ready
        /\ fd' = [fd EXCEPT ![h] = f] /\ readfds' = readfds \cup {f}
        /\ maxfd' = (IF f > maxfd THEN f ELSE maxfd)
        /\ UNCHANGED loopVars
      BY <1>2 DEF Accept
  <2>2. /\ h \in Conns /\ fd[h] = NoFd /\ f \in Fds /\ \A c \in Conns : fd[c] # f
      BY <2>1, HeadAccepted
  <2>3. f \in Nat /\ f # NoFd /\ maxfd \in Nat /\ \A g \in readfds : g \in Nat
      BY <2>2, ConnsFinite DEF TypeOK
  <2> HIDE DEF h, f
  <2>4. \A c \in Conns : fd'[c] = IF c = h THEN f ELSE fd[c]
      BY <2>1 DEF TypeOK
  <2>5. (readfds = {Listen} \cup {fd[c] : c \in {d \in Conns : fd[d] # NoFd}})'
      BY <2>1, <2>2, <2>3, <2>4 DEF DescriptorsKept
  <2>6. (\A g \in readfds : g <= maxfd)'
      BY <2>1, <2>3, SMTT(60) DEF DescriptorsKept
  <2>7. (\A c, d \in Conns : fd[c] = fd[d] /\ fd[c] # NoFd => c = d)'
      BY <2>2, <2>4 DEF DescriptorsKept
  <2> QED BY <2>1, <2>5, <2>6, <2>7 DEF DescriptorsKept, loopVars
<1>3. ASSUME NEW c \in Conns, ServeEnd(c) PROVE DescriptorsKept'
  <2>1. Turn(c) /\ Advance(c) /\ Close(c)
      BY <1>3 DEF ServeEnd
  <2> QED BY <2>1, Advances, Closes DEF DescriptorsKept
<1>4. ASSUME NEW c \in Conns, ServeQuit(c) PROVE DescriptorsKept'
  <2>1. /\ Turn(c) /\ Close(c) /\ allfds' = {} /\ pc' = "select"
      BY <1>4 DEF ServeQuit
  <2>2. fd[c] \in Fds
      BY <2>1 DEF Turn, TypeOK
  <2> QED BY <2>1, <2>2, Closes DEF DescriptorsKept
<1>5. ASSUME NEW c \in Conns, ServeRequest(c) PROVE DescriptorsKept'
  <2>1. Turn(c) /\ Advance(c) /\ UNCHANGED fdVars
      BY <1>5 DEF ServeRequest, Serve
  <2> QED BY <2>1, Advances DEF DescriptorsKept, fdVars
<1>6. ASSUME NEW c \in Conns, TrapStep(c) PROVE DescriptorsKept'
    BY <1>6 DEF TrapStep, fdVars, loopVars, DescriptorsKept
<1>7. ASSUME NEW c \in Conns, Connect(c) PROVE DescriptorsKept'
    BY <1>7 DEF Connect, fdVars, loopVars, DescriptorsKept
<1>8. ASSUME NEW c \in Conns, Receive(c) PROVE DescriptorsKept'
    BY <1>8 DEF Receive, fdVars, loopVars, DescriptorsKept
<1>9. ASSUME NEW c \in Conns, End(c) PROVE DescriptorsKept'
    BY <1>9 DEF End, fdVars, loopVars, DescriptorsKept
<1>10. ASSUME NEW c \in Conns, NEW r \in Requests, Ask(c, r) PROVE DescriptorsKept'
    BY <1>10 DEF Ask, fdVars, loopVars, DescriptorsKept
<1>11. CASE UNCHANGED vars
    BY <1>11 DEF vars, fdVars, loopVars, DescriptorsKept
<1> QED
    BY <1>1, <1>2, <1>3, <1>4, <1>5, <1>6,
       <1>7, <1>8, <1>9, <1>10, <1>11
       DEF Next, ServerStep, ClientStep, TrapStep

LEMMA StepQueue == IInv /\ [Next]_vars => QueueInv'
<1> SUFFICES ASSUME IInv, [Next]_vars PROVE QueueInv'
    OBVIOUS
<1> USE DEF IInv, TypeOK, QueueInv, Queued, clientVars, fdVars, loopVars, calcVars
<1>1. CASE Select
    BY <1>1 DEF Select
<1>2. CASE Accept
  <2> DEFINE h == Head(backlog)
  <2>1. /\ Listen \in Ready /\ fd' = [fd EXCEPT ![h] = FreeFd]
        /\ backlog' = Tail(backlog) /\ UNCHANGED client
      BY <1>2 DEF Accept
  <2>2. /\ backlog # << >> /\ h \in Conns /\ h = backlog[1] /\ 1 \in DOMAIN backlog
        /\ client[h] # "off"
      BY <2>1, HeadAccepted
  <2>3. \A i \in DOMAIN backlog' : /\ i \in Nat /\ i + 1 \in DOMAIN backlog /\ i + 1 # 1
                                   /\ backlog'[i] = backlog[i + 1]
      BY <2>1, <2>2
  <2> HIDE DEF h
  <2>4. \A i, j \in DOMAIN backlog' : backlog'[i] = backlog'[j] => i = j
      BY <2>3
  <2>5. \A i \in DOMAIN backlog' : backlog'[i] # h
      BY <2>2, <2>3
  <2>6. \A c \in Conns : (\E i \in DOMAIN backlog' : backlog'[i] = c) =>
           c # h /\ \E i \in DOMAIN backlog : backlog[i] = c
      BY <2>3, <2>5
  <2>7. \A c \in Conns : c # h => fd'[c] = fd[c]
      BY <2>1
  <2> QED BY <2>1, <2>2, <2>4, <2>6, <2>7
<1>3. ASSUME NEW c \in Conns, ServeEnd(c) PROVE QueueInv'
  <2>1. /\ fd[c] \in Fds /\ UNCHANGED backlog
        /\ fd' = [fd EXCEPT ![c] = NoFd] /\ client' = [client EXCEPT ![c] = "off"]
      BY <1>3 DEF ServeEnd, Turn, Close
  <2>2. fd[c] # NoFd
      BY <2>1, ConnsFinite
  <2> QED BY <2>1, <2>2
<1>4. ASSUME NEW c \in Conns, ServeQuit(c) PROVE QueueInv'
  <2>1. /\ fd[c] \in Fds /\ UNCHANGED backlog
        /\ fd' = [fd EXCEPT ![c] = NoFd] /\ client' = [client EXCEPT ![c] = "off"]
      BY <1>4 DEF ServeQuit, Turn, Close
  <2>2. fd[c] # NoFd
      BY <2>1, ConnsFinite
  <2> QED BY <2>1, <2>2
<1>5. ASSUME NEW c \in Conns, ServeRequest(c) PROVE QueueInv'
    BY <1>5 DEF ServeRequest, Serve, Turn, Advance
<1>6. ASSUME NEW c \in Conns, TrapStep(c) PROVE QueueInv'
    BY <1>6 DEF TrapStep
<1>7. ASSUME NEW c \in Conns, Connect(c) PROVE QueueInv'
    BY <1>7 DEF Connect
<1>8. ASSUME NEW c \in Conns, Receive(c) PROVE QueueInv'
    BY <1>8 DEF Receive
<1>9. ASSUME NEW c \in Conns, End(c) PROVE QueueInv'
    BY <1>9 DEF End
<1>10. ASSUME NEW c \in Conns, NEW r \in Requests, Ask(c, r) PROVE QueueInv'
    BY <1>10 DEF Ask
<1>11. CASE UNCHANGED vars
    BY <1>11 DEF vars
<1> QED
    BY <1>1, <1>2, <1>3, <1>4, <1>5, <1>6,
       <1>7, <1>8, <1>9, <1>10, <1>11
       DEF Next, ServerStep, ClientStep, TrapStep

LEMMA StepTalk == IInv /\ [Next]_vars => TalkInv'
<1> SUFFICES ASSUME IInv, [Next]_vars PROVE TalkInv'
    OBVIOUS
<1> USE DEF IInv, TypeOK, TalkInv, Readable, clientVars, fdVars, loopVars, calcVars
<1>1. CASE Select
  <2>1. /\ \A c \in Conns : fd[c] \in allfds' => Readable(c)
        /\ UNCHANGED <<clientVars, inbox, answer, fdVars>>
      BY <1>1, SelectPicks DEF Select
  <2> QED BY <2>1
<1>2. CASE Accept
  <2>1. UNCHANGED <<clientVars, inbox, answer, loopVars>> /\ pc = "select"
      BY <1>2 DEF Accept
  <2>2. allfds' = {}
      BY <2>1 DEF DescriptorsKept
  <2> QED BY <2>1, <2>2
<1>3. ASSUME NEW c \in Conns, ServeEnd(c) PROVE TalkInv'
  <2>1. /\ fd[c] \in allfds /\ allfds' \subseteq allfds /\ UNCHANGED answer
        /\ fd' = [fd EXCEPT ![c] = NoFd] /\ client' = [client EXCEPT ![c] = "off"]
        /\ inbox' = [inbox EXCEPT ![c] = Nothing] /\ asked' = [asked EXCEPT ![c] = Nothing]
      BY <1>3, Advances DEF ServeEnd, Turn, Close
  <2>2. answer[c] = NoAnswer
      BY <1>3, <2>1 DEF ServeEnd
  <2>3. NoFd \notin allfds'
      BY <2>1, ConnsFinite
  <2> QED BY <2>1, <2>2, <2>3 DEF Nothing
<1>4. ASSUME NEW c \in Conns, ServeQuit(c) PROVE TalkInv'
  <2>1. /\ fd[c] \in allfds /\ allfds' \subseteq allfds /\ UNCHANGED answer
        /\ fd' = [fd EXCEPT ![c] = NoFd] /\ client' = [client EXCEPT ![c] = "off"]
        /\ inbox' = [inbox EXCEPT ![c] = Nothing] /\ asked' = [asked EXCEPT ![c] = Nothing]
      BY <1>4, Advances DEF ServeQuit, Turn, Close
  <2>2. answer[c] = NoAnswer
      BY <1>4, <2>1 DEF ServeQuit
  <2>3. NoFd \notin allfds'
      BY <2>1, ConnsFinite
  <2> QED BY <2>1, <2>2, <2>3 DEF Nothing
<1>5. ASSUME NEW c \in Conns, ServeRequest(c) PROVE TalkInv'
  <2> DEFINE n == Computed(inbox[c])
             a == [to |-> inbox[c], result |-> Net(n),
                   min |-> Net(NewMin(n)), max |-> Net(NewMax(n))]
  <2>1. /\ Turn(c) /\ Advance(c) /\ inbox[c].op \in {"calc", "error"}
        /\ UNCHANGED <<clientVars, fdVars>>
        /\ inbox' = [inbox EXCEPT ![c] = Nothing]
        /\ answer' = IF client[c] = "ended" THEN answer ELSE [answer EXCEPT ![c] = a]
      BY <1>5 DEF ServeRequest, Serve
  <2>2. allfds' \subseteq allfds /\ fd[c] \notin allfds'
      BY <2>1, Advances
  <2> HIDE DEF n, a
  <2>3. inbox[c] # Nothing
      BY <2>1 DEF Nothing
  <2> QED BY <2>1, <2>2, <2>3 DEF Nothing
<1>6. ASSUME NEW c \in Conns, TrapStep(c) PROVE TalkInv'
    BY <1>6 DEF TrapStep
<1>7. ASSUME NEW c \in Conns, Connect(c) PROVE TalkInv'
    BY <1>7 DEF Connect
<1>8. ASSUME NEW c \in Conns, Receive(c) PROVE TalkInv'
    BY <1>8 DEF Receive
<1>9. ASSUME NEW c \in Conns, End(c) PROVE TalkInv'
    BY <1>9 DEF End
<1>10. ASSUME NEW c \in Conns, NEW r \in Requests, Ask(c, r) PROVE TalkInv'
    BY <1>10 DEF Ask
<1>11. CASE UNCHANGED vars
    BY <1>11 DEF vars
<1> QED
    BY <1>1, <1>2, <1>3, <1>4, <1>5, <1>6,
       <1>7, <1>8, <1>9, <1>10, <1>11
       DEF Next, ServerStep, ClientStep, TrapStep

LEMMA StepAnswers == IInv /\ AnswersFit /\ [Next]_vars => AnswersFit'
<1> SUFFICES ASSUME IInv /\ AnswersFit, [Next]_vars PROVE AnswersFit'
    OBVIOUS
<1> USE DEF IInv, TypeOK, TalkInv, AnswersFit, Readable, clientVars, fdVars, loopVars, calcVars
<1>1. CASE Select
    BY <1>1 DEF Select
<1>2. CASE Accept
    BY <1>2 DEF Accept
<1>3. ASSUME NEW c \in Conns, ServeEnd(c) PROVE AnswersFit'
    BY <1>3 DEF ServeEnd, Turn, Close, Advance
<1>4. ASSUME NEW c \in Conns, ServeQuit(c) PROVE AnswersFit'
    BY <1>4 DEF ServeQuit, Turn, Close
<1>5. ASSUME NEW c \in Conns, ServeRequest(c) PROVE AnswersFit'
  <2> DEFINE n == Computed(inbox[c])
             a == [to |-> inbox[c], result |-> Net(n),
                   min |-> Net(NewMin(n)), max |-> Net(NewMax(n))]
  <2>1. /\ inbox[c].op \in {"calc", "error"} /\ UNCHANGED clientVars
        /\ answer' = IF client[c] = "ended" THEN answer ELSE [answer EXCEPT ![c] = a]
      BY <1>5 DEF ServeRequest, Serve
  <2>2. /\ a.to = inbox[c] /\ Net(a.result) = n
        /\ Net(a.min) <= n /\ n <= Net(a.max)
      BY <2>1, ServedNumbers
  <2>3. inbox[c].op = "calc" => n = inbox[c].value
      BY DEF Computed
  <2>4. inbox[c] # Nothing
      BY <2>1 DEF Nothing
  <2> HIDE DEF n, a
  <2>5. /\ client[c] \in {"waiting", "ended"} /\ asked[c] = inbox[c]
      BY <2>4
  <2>6. \A d \in Conns : \/ answer'[d] = answer[d]
                         \/ d = c /\ client[c] = "waiting" /\ answer'[d] = a
      BY <2>1, <2>5
  <2>7. UNCHANGED <<client, asked>>
      BY <2>1
  <2> QED BY <2>2, <2>3, <2>5, <2>6, <2>7
<1>6. ASSUME NEW c \in Conns, TrapStep(c) PROVE AnswersFit'
    BY <1>6 DEF TrapStep
<1>7. ASSUME NEW c \in Conns, Connect(c) PROVE AnswersFit'
    BY <1>7 DEF Connect
<1>8. ASSUME NEW c \in Conns, Receive(c) PROVE AnswersFit'
    BY <1>8 DEF Receive
<1>9. ASSUME NEW c \in Conns, End(c) PROVE AnswersFit'
    BY <1>9 DEF End
<1>10. ASSUME NEW c \in Conns, NEW r \in Requests, Ask(c, r) PROVE AnswersFit'
    BY <1>10 DEF Ask
<1>11. CASE UNCHANGED vars
    BY <1>11 DEF vars
<1> QED
    BY <1>1, <1>2, <1>3, <1>4, <1>5, <1>6,
       <1>7, <1>8, <1>9, <1>10, <1>11
       DEF Next, ServerStep, ClientStep, TrapStep

LEMMA InductiveInvariant == Spec => []IInv
<1>1. Init => IInv
  <2> SUFFICES ASSUME Init PROVE IInv
      OBVIOUS
  <2>1. TypeOK
      BY ConnsFinite DEF Init, TypeOK
  <2>2. DescriptorsKept
      BY ConnsFinite DEF Init, DescriptorsKept
  <2>3. QueueInv
      BY DEF Init, QueueInv, Queued
  <2>4. TalkInv
      BY DEF Init, TalkInv, Nothing
  <2> QED BY <2>1, <2>2, <2>3, <2>4 DEF IInv
<1>2. IInv /\ [Next]_vars => IInv'
    BY StepTypeOK, StepDescriptors, StepQueue, StepTalk DEF IInv
<1> QED
    BY <1>1, <1>2, PTL DEF Spec

(* Type correctness: accept always has a descriptor to give, and result    *)
(* never holds anything but a result or one turned around.                 *)
THEOREM TypeCorrect == Spec => []TypeOK
BY InductiveInvariant, PTL DEF IInv

(* For any number of connections, readfds and maxfd know every open        *)
(* connection and nothing else, and the loop reads no closed descriptor.   *)
THEOREM DescriptorsAreKept == Spec => []DescriptorsKept
BY InductiveInvariant, PTL DEF IInv

(* For any number of connections and all 32-bit results, a client reads    *)
(* the answer to its own request, with a range that contains the result.   *)
THEOREM AnswersAlwaysFit == Spec => []AnswersFit
<1>1. Init => AnswersFit
    BY DEF Init, AnswersFit
<1> QED
    BY InductiveInvariant, StepAnswers, <1>1, PTL DEF Spec
=============================================================================
