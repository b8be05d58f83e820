--------------------------- MODULE KeyValueServer ---------------------------
(***************************************************************************)
(* The three C key-value servers (key-value-server-mutex.c, -spinlock.c    *)
(* and -rwlock.c): one detached thread per connection, and one linked list *)
(* of key/value nodes behind one lock.  The three programs differ only in  *)
(* the lock; SharedReads tells the read-write lock from the other two.     *)
(*                                                                         *)
(* The list.  Nodes are malloc'ed, pushed at the head and never freed, so  *)
(* a node's address is its position in the order of insertion: store[1] is *)
(* the oldest node, store[Len(store)] is *head, and 0 is NULL.             *)
(*                                                                         *)
(* Bytes.  get_value returns a POINTER into a node after it has released   *)
(* the lock, and handle_client formats the reply through that pointer, so  *)
(* the copy of a value out of a node (snprintf) races with the copy of     *)
(* another value into it (strncpy).  Both copies are modelled byte by      *)
(* byte.  Values all have Width bytes: the terminator never moves.         *)
(***************************************************************************)
EXTENDS Naturals, Sequences

CONSTANTS
  Clients,      \* connections, each with its own thread
  Keys,
  Char,         \* the bytes a value is made of
  Width,        \* the number of bytes in a value
  Blank,        \* a byte of the reply buffer that has not been written yet
  NoClient,     \* nobody
  SharedReads   \* TRUE: pthread_rwlock_t.  FALSE: mutex or spinlock.

ASSUME ConstantsAssumption ==
  /\ Width \in Nat \ {0}
  /\ Blank \notin Char
  /\ NoClient \notin Clients
  /\ SharedReads \in BOOLEAN

Bytes == 1..Width
Words == [Bytes -> Char]

SetRequests == [cmd : {"SET"}, key : Keys, value : Words]
GetRequests == [cmd : {"GET"}, key : Keys]
BadRequests == [cmd : {"BAD"}]
Requests    == SetRequests \cup GetRequests \cup BadRequests

NoRequest == [cmd |-> "NONE"]

VARIABLES
  store,    \* the nodes reachable from head, oldest first
  writer,   \* the thread that holds the lock exclusively, or NoClient
  readers,  \* the threads that hold it shared
  pc,       \* where each connection's thread is
  req,      \* the request parsed into command, key and value
  node,     \* the local variable current (0 is NULL)
  pos,      \* how many bytes the running strncpy or snprintf has copied
  buffer,   \* the value being formatted into the reply
  reply,    \* which reply the thread is about to write
  issued    \* history: the values that SET requests have named for a key

vars == <<store, writer, readers, pc, req, node, pos, buffer, reply, issued>>
lockVars == <<writer, readers>>

EmptyBuffer == [b \in Bytes |-> Blank]

Locations == {"off", "orphan", "read", "parse", "lock", "search", "copy",
              "insert", "unlock", "format", "reply"}

ReplyKinds == {"none", "ok", "missing", "error", "value"}

Init ==
  /\ store = <<>>
  /\ writer = NoClient
  /\ readers = {}
  /\ pc = [c \in Clients |-> "off"]
  /\ req = [c \in Clients |-> NoRequest]
  /\ node = [c \in Clients |-> 0]
  /\ pos = [c \in Clients |-> 0]
  /\ buffer = [c \in Clients |-> EmptyBuffer]
  /\ reply = [c \in Clients |-> "none"]
  /\ issued = [k \in Keys |-> {}]

Goto(c, from, to) == pc[c] = from /\ pc' = [pc EXCEPT ![c] = to]

-----------------------------------------------------------------------------
(* main: accept, then pthread_create and pthread_detach.                   *)

Accept(c) ==
  /\ Goto(c, "off", "read")
  /\ UNCHANGED <<store, lockVars, req, node, pos, buffer, reply, issued>>

(* pthread_create fails: the descriptor's box is freed, the connection     *)
(* itself is neither served nor closed, until its client gives up.         *)
AcceptWithoutThread(c) ==
  /\ Goto(c, "off", "orphan")
  /\ UNCHANGED <<store, lockVars, req, node, pos, buffer, reply, issued>>

GiveUp(c) ==
  /\ Goto(c, "orphan", "off")
  /\ UNCHANGED <<store, lockVars, req, node, pos, buffer, reply, issued>>

-----------------------------------------------------------------------------
(* handle_client, around the two store functions.                          *)

ReadRequest(c, r) ==
  /\ Goto(c, "read", "parse")
  /\ req' = [req EXCEPT ![c] = r]
  /\ issued' = IF r.cmd = "SET"
               THEN [issued EXCEPT ![r.key] = @ \cup {r.value}]
               ELSE issued
  /\ UNCHANGED <<store, lockVars, node, pos, buffer, reply>>

(* read returns 0 or an error: the loop ends and the descriptor is closed. *)
Hangup(c) ==
  /\ Goto(c, "read", "off")
  /\ UNCHANGED <<store, lockVars, req, node, pos, buffer, reply, issued>>

Dispatch(c) ==
  /\ req[c].cmd \in {"SET", "GET"}
  /\ Goto(c, "parse", "lock")
  /\ UNCHANGED <<store, lockVars, req, node, pos, buffer, reply, issued>>

Reject(c) ==
  /\ req[c].cmd = "BAD"
  /\ Goto(c, "parse", "reply")
  /\ reply' = [reply EXCEPT ![c] = "error"]
  /\ UNCHANGED <<store, lockVars, req, node, pos, buffer, issued>>

(* Mutant of FormatByte: the reply is taken from *head.                    *)
FormatByteOfHead(c) ==
  /\ pc[c] = "format"
  /\ pos[c] < Width
  /\ buffer' = [buffer EXCEPT ![c][pos[c] + 1] = store[Len(store)].value[pos[c] + 1]]
  /\ pos' = [pos EXCEPT ![c] = @ + 1]
  /\ UNCHANGED <<store, lockVars, pc, req, node, reply, issued>>

(* snprintf(buffer, ..., result): one byte through the pointer get_value   *)
(* returned, after the lock was released.                                  *)
FormatByte(c) ==
  /\ pc[c] = "format"
  /\ pos[c] < Width
  /\ buffer' = [buffer EXCEPT ![c][pos[c] + 1] = store[node[c]].value[pos[c] + 1]]
  /\ pos' = [pos EXCEPT ![c] = @ + 1]
  /\ UNCHANGED <<store, lockVars, pc, req, node, reply, issued>>

FormatEnd(c) ==
  /\ pos[c] = Width
  /\ Goto(c, "format", "reply")
  /\ reply' = [reply EXCEPT ![c] = "value"]
  /\ UNCHANGED <<store, lockVars, req, node, pos, buffer, issued>>

(* write the reply and go round the loop; the buffers are locals that the  *)
(* next request overwrites.                                                *)
WriteReply(c) ==
  /\ Goto(c, "reply", "read")
  /\ req' = [req EXCEPT ![c] = NoRequest]
  /\ node' = [node EXCEPT ![c] = 0]
  /\ pos' = [pos EXCEPT ![c] = 0]
  /\ buffer' = [buffer EXCEPT ![c] = EmptyBuffer]
  /\ reply' = [reply EXCEPT ![c] = "none"]
  /\ UNCHANGED <<store, lockVars, issued>>

-----------------------------------------------------------------------------
(* The lock.                                                               *)

(* Mutants of LockFree, which forget one side of the lock.                 *)
NoWriterInside  == writer = NoClient
NoReadersInside == readers = {}

LockFree == writer = NoClient /\ readers = {}

(* Mutant of TakesShared: wrlock where the code has rdlock.                *)
TakesNothingShared(c) == FALSE

TakesShared(c) == SharedReads /\ req[c].cmd = "GET"

LockExclusive(c) ==
  /\ ~TakesShared(c)
  /\ LockFree
  /\ Goto(c, "lock", "search")
  /\ writer' = c
  /\ UNCHANGED <<store, readers, req, node, pos, buffer, reply, issued>>

LockShared(c) ==
  /\ TakesShared(c)
  /\ writer = NoClient
  /\ Goto(c, "lock", "search")
  /\ readers' = readers \cup {c}
  /\ UNCHANGED <<store, writer, req, node, pos, buffer, reply, issued>>

Release(c) ==
  /\ writer' = IF writer = c THEN NoClient ELSE writer
  /\ readers' = readers \ {c}

-----------------------------------------------------------------------------
(* set_key_value and get_value.                                            *)

(* Mutants of the walk: no strcmp, and head left out.                      *)
IsHead(i, k) == i \in 1..Len(store) /\ i = Len(store)
IsAbsentBelowHead(k) == \A i \in 1..(Len(store) - 1) : store[i].key # k

(* The walk from head finds the newest node with the key, or falls off.    *)
IsMatch(i, k) ==
  /\ i \in 1..Len(store)
  /\ store[i].key = k
  /\ \A j \in (i + 1)..Len(store) : store[j].key # k

IsAbsent(k) == \A i \in 1..Len(store) : store[i].key # k

(* Mutant of SearchHit: set_key_value returns without the strncpy.         *)
SearchHitKeepsValue(c) ==
  /\ Goto(c, "search", "unlock")
  /\ \E i \in 1..Len(store) :
       /\ IsMatch(i, req[c].key)
       /\ node' = [node EXCEPT ![c] = i]
  /\ UNCHANGED <<store, lockVars, req, pos, buffer, reply, issued>>

SearchHit(c) ==
  /\ Goto(c, "search", IF req[c].cmd = "SET" THEN "copy" ELSE "unlock")
  /\ \E i \in 1..Len(store) :
       /\ IsMatch(i, req[c].key)
       /\ node' = [node EXCEPT ![c] = i]
  /\ UNCHANGED <<store, lockVars, req, pos, buffer, reply, issued>>

SearchMiss(c) ==
  /\ Goto(c, "search", IF req[c].cmd = "SET" THEN "insert" ELSE "unlock")
  /\ IsAbsent(req[c].key)
  /\ node' = [node EXCEPT ![c] = 0]
  /\ UNCHANGED <<store, lockVars, req, pos, buffer, reply, issued>>

(* strncpy(current->value, value, ...), one byte.                          *)
CopyByte(c) ==
  /\ pc[c] = "copy"
  /\ pos[c] < Width
  /\ LET old == store[node[c]]
         new == [old.value EXCEPT ![pos[c] + 1] = req[c].value[pos[c] + 1]]
     IN  store' = [store EXCEPT ![node[c]] = [key |-> old.key, value |-> new]]
  /\ pos' = [pos EXCEPT ![c] = @ + 1]
  /\ UNCHANGED <<lockVars, pc, req, node, buffer, reply, issued>>

(* Mutant of CopyEnd: strncpy stops one byte short.                        *)
CopyEndEarly(c) ==
  /\ pos[c] + 1 = Width
  /\ Goto(c, "copy", "unlock")
  /\ UNCHANGED <<store, lockVars, req, node, pos, buffer, reply, issued>>

CopyEnd(c) ==
  /\ pos[c] = Width
  /\ Goto(c, "copy", "unlock")
  /\ UNCHANGED <<store, lockVars, req, node, pos, buffer, reply, issued>>

(* Mutant of InsertNode: head = new_node comes before the value's strncpy. *)
InsertEmptyNode(c) ==
  /\ Goto(c, "insert", "unlock")
  /\ store' = Append(store, [key |-> req[c].key, value |-> EmptyBuffer])
  /\ UNCHANGED <<lockVars, req, node, pos, buffer, reply, issued>>

(* The new node is filled in before head = new_node publishes it.          *)
InsertNode(c) ==
  /\ Goto(c, "insert", "unlock")
  /\ store' = Append(store, [key |-> req[c].key, value |-> req[c].value])
  /\ UNCHANGED <<lockVars, req, node, pos, buffer, reply, issued>>

SetReturns(c) ==
  /\ req[c].cmd = "SET"
  /\ Goto(c, "unlock", "reply")
  /\ Release(c)
  /\ reply' = [reply EXCEPT ![c] = "ok"]
  /\ UNCHANGED <<store, req, node, pos, buffer, issued>>

GetReturnsPointer(c) ==
  /\ req[c].cmd = "GET"
  /\ node[c] # 0
  /\ Goto(c, "unlock", "format")
  /\ Release(c)
  /\ UNCHANGED <<store, req, node, pos, buffer, reply, issued>>

(* Mutant of GetReturnsNotFound: the unlock at the end is missing.         *)
NotFoundKeepsLock(c) ==
  /\ req[c].cmd = "GET"
  /\ node[c] = 0
  /\ Goto(c, "unlock", "reply")
  /\ reply' = [reply EXCEPT ![c] = "missing"]
  /\ UNCHANGED <<store, lockVars, req, node, pos, buffer, issued>>

GetReturnsNotFound(c) ==
  /\ req[c].cmd = "GET"
  /\ node[c] = 0
  /\ Goto(c, "unlock", "reply")
  /\ Release(c)
  /\ reply' = [reply EXCEPT ![c] = "missing"]
  /\ UNCHANGED <<store, req, node, pos, buffer, issued>>

-----------------------------------------------------------------------------
(* What a thread does once it has read a request.  Reading the next one,   *)
(* hanging up and connecting are up to the client.                         *)
ServerStep(c) ==
  \/ Dispatch(c)
  \/ Reject(c)
  \/ LockExclusive(c)
  \/ LockShared(c)
  \/ SearchHit(c)
  \/ SearchMiss(c)
  \/ CopyByte(c)
  \/ CopyEnd(c)
  \/ InsertNode(c)
  \/ SetReturns(c)
  \/ GetReturnsPointer(c)
  \/ GetReturnsNotFound(c)
  \/ FormatByte(c)
  \/ FormatEnd(c)
  \/ WriteReply(c)

ClientStep(c) ==
  \/ Accept(c)
  \/ AcceptWithoutThread(c)
  \/ GiveUp(c)
  \/ Hangup(c)
  \/ \E r \in Requests : ReadRequest(c, r)

Next == \E c \in Clients : ServerStep(c) \/ ClientStep(c)

Spec == Init /\ [][Next]_vars

(* Every thread keeps running; nothing is assumed of the clients, nor of   *)
(* which waiter a released lock goes to.                                   *)
Fairness == \A c \in Clients : WF_vars(ServerStep(c))

FairSpec == Spec /\ Fairness

-----------------------------------------------------------------------------
(* Properties.                                                             *)

TypeOK ==
  /\ store \in Seq([key : Keys, value : Words])
  /\ writer \in Clients \cup {NoClient}
  /\ readers \in SUBSET Clients
  /\ pc \in [Clients -> Locations]
  /\ req \in [Clients -> Requests \cup {NoRequest}]
  /\ node \in [Clients -> Nat]
  /\ pos \in [Clients -> 0..Width]
  /\ buffer \in [Clients -> [Bytes -> Char \cup {Blank}]]
  /\ reply \in [Clients -> ReplyKinds]
  /\ issued \in [Keys -> SUBSET Words]

(* c is between the lock call and the unlock call of a store function.     *)
Inside(c) == pc[c] \in {"search", "copy", "insert", "unlock"}

(* Two threads are inside the store functions together only if both are    *)
(* GETs under a read lock: set_key_value never overlaps anything.          *)
Exclusion ==
  \A c, d \in Clients :
     c # d /\ Inside(c) /\ Inside(d) => TakesShared(c) /\ TakesShared(d)

(* Two threads that both miss a key and then insert it would leave two     *)
(* nodes for it, the older one unreachable: set_key_value's search and its *)
(* insertion act as one step although they are two.                        *)
OneNodePerKey ==
  \A i, j \in 1..Len(store) : store[i].key = store[j].key => i = j

(* The pointer get_value hands out stays the node of the requested key     *)
(* until the reply has been formatted, whatever is inserted meanwhile.     *)
PointersValid ==
  \A c \in Clients :
     /\ pc[c] \in {"copy", "format"} => node[c] # 0
     /\ node[c] # 0 => /\ node[c] \in 1..Len(store)
                       /\ req[c] \in SetRequests \cup GetRequests
                       /\ store[node[c]].key = req[c].key

(* Every byte of a GET's reply, also of one that raced with a SET, is the  *)
(* byte some SET of the same key put at that position: a reply is never    *)
(* made of another key's bytes nor of memory nobody wrote.                 *)
ByteProvenance ==
  \A c \in Clients :
     reply[c] = "value" =>
        \A b \in Bytes : \E v \in issued[req[c].key] : buffer[c][b] = v[b]

(* "function to get a value for a given key" (the comment on get_value):   *)
(* a GET answers with a value that some SET gave to the key.               *)
RepliesAreValues ==
  \A c \in Clients : reply[c] = "value" => buffer[c] \in issued[req[c].key]

Silent(d) == pc[d] \in {"off", "orphan", "read"}

(* The lock is always given back: a request is answered once the other     *)
(* clients stay silent, however the threads interleaved before.            *)
AnsweredOnceOthersPause ==
  \A c \in Clients :
     <>[](\A d \in Clients \ {c} : Silent(d))
        => (pc[c] = "parse" ~> pc[c] = "reply")

(* Read-write lock only: a GET is answered once there are no more SETs,    *)
(* even if other GETs never stop arriving and overlapping.                 *)
GetsDoNotWaitForGets ==
  \A c \in Clients :
     <>[](\A d \in Clients : req[d].cmd # "SET")
        => (pc[c] = "parse" ~> pc[c] = "reply")

-----------------------------------------------------------------------------
(* The inductive invariant behind Exclusion, OneNodePerKey and the pointer *)
(* and byte properties.                                                    *)

LockInv ==
  /\ \A c \in Clients : (writer = c) <=> (Inside(c) /\ ~TakesShared(c))
  /\ readers = {c \in Clients : Inside(c) /\ TakesShared(c)}
  /\ writer # NoClient => readers = {}

(* Nothing has been found or copied for the current request yet.           *)
Fresh(c) == Silent(c) \/ pc[c] \in {"parse", "lock", "search"}

RequestInv ==
  \A c \in Clients :
     /\ pc[c] \in {"lock", "search", "unlock"} => req[c] \in SetRequests \cup GetRequests
     /\ pc[c] \in {"copy", "insert"} => req[c] \in SetRequests
     /\ pc[c] = "format" => req[c] \in GetRequests
     /\ Fresh(c) => node[c] = 0 /\ pos[c] = 0 /\ reply[c] = "none"
     /\ pc[c] = "unlock" /\ req[c].cmd = "GET" => pos[c] = 0

(* The thread about to insert has the list to itself since its search.     *)
InsertInv ==
  \A c \in Clients : pc[c] = "insert" => IsAbsent(req[c].key)

ProvenanceInv ==
  /\ \A i \in 1..Len(store), b \in Bytes :
        \E v \in issued[store[i].key] : store[i].value[b] = v[b]
  /\ \A c \in Clients :
        req[c] \in SetRequests => req[c].value \in issued[req[c].key]
  /\ \A c \in Clients :
        req[c] \in GetRequests /\ node[c] # 0 =>
           /\ \A b \in 1..pos[c] : \E v \in issued[req[c].key] : buffer[c][b] = v[b]
  /\ \A c \in Clients :
        reply[c] = "value" => /\ req[c] \in GetRequests
                             /\ node[c] # 0
                             /\ pos[c] = Width
                             /\ pc[c] = "reply"

IInv ==
  /\ TypeOK
  /\ LockInv
  /\ RequestInv
  /\ InsertInv
  /\ OneNodePerKey
  /\ PointersValid
  /\ ProvenanceInv
=============================================================================
