------------------------- MODULE KeyValueRefinement -------------------------
(***************************************************************************)
(* KeyValueServer implements AtomicStore at every byte position: seen      *)
(* through one position of the values, each SET and each GET takes effect  *)
(* at one instant while it is being served.  With Width = 1 that is the    *)
(* whole store; with more bytes the positions are atomic one by one, and   *)
(* the value they make up together is not (see RepliesAreValues).          *)
(***************************************************************************)
EXTENDS KeyValueServer

CONSTANT Position   \* the byte that is looked at

ASSUME PositionAssumption == Position \in Bytes

(* The current content of key k at Position.                               *)
ByteOfKey(k) ==
  IF IsAbsent(k) THEN Blank
  ELSE store[CHOOSE n \in 1..Len(store) : IsMatch(n, k)].value[Position]

ByteOfRequest(r) ==
  IF r.cmd = "SET" THEN [cmd |-> "SET", key |-> r.key, value |-> r.value[Position]]
                   ELSE r

(* The instant a request takes effect: the copy of the byte into the node  *)
(* or out of it, the publication of a new node, or the end of a fruitless  *)
(* search.                                                                 *)
TookEffect(c) ==
  \/ pc[c] = "reply"
  \/ pc[c] \in {"copy", "format"} /\ pos[c] >= Position
  \/ pc[c] = "unlock" /\ (req[c].cmd = "SET" \/ node[c] = 0)

Phase(c) ==
  IF Silent(c) THEN "idle" ELSE IF TookEffect(c) THEN "done" ELSE "pending"

Answer(c) ==
  IF req[c].cmd = "SET" THEN [kind |-> "ok"]
  ELSE IF req[c].cmd = "BAD" THEN [kind |-> "error"]
  ELSE IF node[c] = 0 THEN [kind |-> "missing"]
  ELSE [kind |-> "value", value |-> buffer[c][Position]]

Result(c) == IF Phase(c) = "done" THEN Answer(c) ELSE [kind |-> "none"]

Abstract == INSTANCE AtomicStore WITH
  Values  <- Char,
  Missing <- Blank,
  db      <- [k \in Keys |-> ByteOfKey(k)],
  call    <- [c \in Clients |-> ByteOfRequest(req[c])],
  phase   <- [c \in Clients |-> Phase(c)],
  result  <- [c \in Clients |-> Result(c)]

(* Linearizability, byte by byte: an acknowledged SET is seen by every     *)
(* later GET, no GET goes back to an older value, and none reports a key   *)
(* that was set as missing.                                                *)
LinearizableByte == Abstract!AtomicSpec
=============================================================================
