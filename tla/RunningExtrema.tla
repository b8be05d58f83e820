--------------------------- MODULE RunningExtrema ---------------------------
(***************************************************************************)
(* The running minimum and maximum that the calculator servers HW3 to HW7  *)
(* keep of their results.  Every one of them recognises "nothing recorded  *)
(* yet" by max == 0 && min == 0, a state that results themselves can lead  *)
(* to.  This module is that algorithm and what it amounts to: the servers' *)
(* modules are shown to implement it.                                      *)
(***************************************************************************)
EXTENDS Integers

CONSTANT Results   \* what a calculation can yield

ASSUME ResultsAssumption == Results \subseteq Int

VARIABLES
  lo,     \* min
  hi,     \* max
  seen    \* history: the results recorded, from the first that is not zero

evars == <<lo, hi, seen>>

Unset == lo = 0 /\ hi = 0

EInit ==
  /\ lo = 0
  /\ hi = 0
  /\ seen = {}

(* The update itself: the first branch of the code's if, and the other two *)
(* as the smaller and the larger of two numbers.                           *)
NewLo(r) == IF Unset \/ r < lo THEN r ELSE lo
NewHi(r) == IF Unset \/ r > hi THEN r ELSE hi

Record(r) ==
  /\ lo' = NewLo(r)
  /\ hi' = NewHi(r)
  /\ seen' = IF seen = {} /\ r = 0 THEN {} ELSE seen \cup {r}

ENext == \E r \in Results : Record(r)

ESpec == EInit /\ [][ENext]_evars

-----------------------------------------------------------------------------
ETypeOK ==
  /\ lo \in Int
  /\ hi \in Int
  /\ seen \subseteq Int

(* lo and hi are the least and the greatest of the results recorded, and   *)
(* leading zeros are forgotten: a zero counts only once another result has *)
(* been recorded.                                                          *)
Extremal ==
  IF seen = {}
  THEN lo = 0 /\ hi = 0
  ELSE /\ lo \in seen
       /\ hi \in seen
       /\ \A r \in seen : lo <= r /\ r <= hi

(* The sentinel is not taken for a pair of results: once something other   *)
(* than zero has been recorded, the pair is never (0, 0) again.            *)
SentinelSound == Unset <=> seen = {}

(* Nothing that has been recorded is ever left out of the range again.     *)
NeverNarrows == [][seen # {} => lo' <= lo /\ hi' >= hi]_evars

EInv == ETypeOK /\ Extremal /\ SentinelSound
=============================================================================
