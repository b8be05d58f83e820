---------------------------- MODULE MCThreadCalc ----------------------------
(* Small instances of the threaded calculator for TLC.                     *)
EXTENDS ThreadCalc, TLC

(* Results on both sides of zero, which is the sentinel of the extrema.    *)
SignedResults == {-1, 0, 1}
NonZeroResults == {-1, 1}
PlainResults == {1}

AllOps == {"calc", "error", "trap", "hash", "quit"}
CalcOnly == {"calc"}
CalcAndQuit == {"calc", "quit"}
AllButTraps == {"calc", "hash", "quit"}

Symmetry == Permutations(Conns)
=============================================================================
