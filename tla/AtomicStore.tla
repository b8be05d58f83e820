---------------------------- MODULE AtomicStore -----------------------------
(***************************************************************************)
(* What a key-value server promises its clients: each request takes effect *)
(* at one instant between the moment the server reads it and the moment    *)
(* the reply is written.  Nothing in the sources implements this module    *)
(* directly; KeyValueServer is shown to implement it.                      *)
(***************************************************************************)
EXTENDS Naturals

CONSTANTS
  Clients,   \* connections
  Keys,
  Values,    \* what a SET can store
  Missing    \* the content of a key that no SET has reached

VARIABLES
  db,        \* db[k]: the current value of k, or Missing
  call,      \* call[c]: the request of c that is being served, or NoCall
  phase,     \* phase[c]: "idle", "pending" or "done"
  result     \* result[c]: what the reply of c will say, once phase[c] is "done"

avars == <<db, call, phase, result>>

Calls == [cmd : {"SET"}, key : Keys, value : Values]
           \cup [cmd : {"GET"}, key : Keys]
           \cup [cmd : {"BAD"}]

NoCall   == [cmd |-> "NONE"]
NoResult == [kind |-> "none"]

Results == [kind : {"none", "ok", "missing", "error"}]
             \cup [kind : {"value"}, value : Values]

AtomicTypeOK ==
  /\ db \in [Keys -> Values \cup {Missing}]
  /\ call \in [Clients -> Calls \cup {NoCall}]
  /\ phase \in [Clients -> {"idle", "pending", "done"}]
  /\ result \in [Clients -> Results]

AtomicInit ==
  /\ db = [k \in Keys |-> Missing]
  /\ call = [c \in Clients |-> NoCall]
  /\ phase = [c \in Clients |-> "idle"]
  /\ result = [c \in Clients |-> NoResult]

Invoke(c, r) ==
  /\ phase[c] = "idle"
  /\ call' = [call EXCEPT ![c] = r]
  /\ phase' = [phase EXCEPT ![c] = "pending"]
  /\ UNCHANGED <<db, result>>

Finish(c, res) ==
  /\ phase[c] = "pending"
  /\ phase' = [phase EXCEPT ![c] = "done"]
  /\ result' = [result EXCEPT ![c] = res]
  /\ UNCHANGED call

AtomicSet(c) ==
  /\ call[c].cmd = "SET"
  /\ db' = [db EXCEPT ![call[c].key] = call[c].value]
  /\ Finish(c, [kind |-> "ok"])

AtomicGet(c) ==
  /\ call[c].cmd = "GET"
  /\ Finish(c, IF db[call[c].key] = Missing
               THEN [kind |-> "missing"]
               ELSE [kind |-> "value", value |-> db[call[c].key]])
  /\ UNCHANGED db

AtomicReject(c) ==
  /\ call[c].cmd = "BAD"
  /\ Finish(c, [kind |-> "error"])
  /\ UNCHANGED db

Respond(c) ==
  /\ phase[c] = "done"
  /\ phase' = [phase EXCEPT ![c] = "idle"]
  /\ call' = [call EXCEPT ![c] = NoCall]
  /\ result' = [result EXCEPT ![c] = NoResult]
  /\ UNCHANGED db

AtomicNext ==
  \E c \in Clients :
     \/ \E r \in Calls : Invoke(c, r)
     \/ AtomicSet(c)
     \/ AtomicGet(c)
     \/ AtomicReject(c)
     \/ Respond(c)

AtomicSpec == AtomicInit /\ [][AtomicNext]_avars
=============================================================================
