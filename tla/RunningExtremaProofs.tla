------------------------ MODULE RunningExtremaProofs ------------------------
(***************************************************************************)
(* The running extrema are right for every set of integer results.         *)
(***************************************************************************)
EXTENDS RunningExtrema, TLAPS

LEMMA RecordKeepsEInv ==
  ASSUME NEW r \in Int, EInv, Record(r)
  PROVE  EInv'
<1> USE DEF EInv, ETypeOK, Extremal, SentinelSound, Unset, Record, NewLo, NewHi
<1>1. CASE seen = {} /\ r = 0
    BY <1>1
<1>2. CASE seen = {} /\ r # 0
    BY <1>2
<1>3. CASE seen # {}
  <2>1. seen' = seen \cup {r} /\ ~Unset
      BY <1>3
  <2>2. lo' = (IF r < lo THEN r ELSE lo) /\ hi' = (IF r > hi THEN r ELSE hi)
      BY <2>1
  <2>3. Extremal'
      BY <1>3, <2>1, <2>2
  <2>4. ~Unset'
    <3>1. \E x \in seen : x # 0
        BY <1>3, <2>1
    <3> QED BY <2>1, <2>3, <3>1
  <2> QED BY <2>1, <2>2, <2>3, <2>4
<1> QED
    BY <1>1, <1>2, <1>3

LEMMA ExtremaInvariant == ESpec => []EInv
<1>1. EInit => EInv
    BY DEF EInit, EInv, ETypeOK, Extremal, SentinelSound, Unset
<1>2. EInv /\ [ENext]_evars => EInv'
  <2> SUFFICES ASSUME EInv, [ENext]_evars PROVE EInv'
      OBVIOUS
  <2>1. CASE ENext
      BY <2>1, ResultsAssumption, RecordKeepsEInv DEF ENext
  <2>2. CASE UNCHANGED evars
      BY <2>2 DEF evars, EInv, ETypeOK, Extremal, SentinelSound, Unset
  <2> QED BY <2>1, <2>2
<1> QED
    BY <1>1, <1>2, PTL DEF ESpec

(* min and max are the extrema of what was recorded, leading zeros apart.  *)
THEOREM ExtremaAreExact == ESpec => []Extremal
<1>1. EInv => Extremal
    BY DEF EInv
<1> QED
    BY ExtremaInvariant, <1>1, PTL

(* max == 0 && min == 0 is read as "nothing yet" only when that is so.     *)
THEOREM SentinelIsSound == ESpec => []SentinelSound
<1>1. EInv => SentinelSound
    BY DEF EInv
<1> QED
    BY ExtremaInvariant, <1>1, PTL

(* The range only ever widens.                                             *)
THEOREM RangeWidens == ESpec => NeverNarrows
<1>1. EInv /\ [ENext]_evars => [seen # {} => lo' <= lo /\ hi' >= hi]_evars
  <2> SUFFICES ASSUME EInv, ENext, seen # {} PROVE lo' <= lo /\ hi' >= hi
      OBVIOUS
  <2>1. PICK r \in Int : Record(r)
      BY ResultsAssumption DEF ENext
  <2>2. ~Unset /\ lo \in Int /\ hi \in Int
      BY DEF EInv, ETypeOK, SentinelSound
  <2>3. lo' = (IF r < lo THEN r ELSE lo) /\ hi' = (IF r > hi THEN r ELSE hi)
      BY <2>1, <2>2 DEF Record, NewLo, NewHi
  <2> QED
      BY <2>2, <2>3
<1> QED
    BY ExtremaInvariant, <1>1, PTL DEF ESpec, NeverNarrows
=============================================================================
