---------------------------- MODULE MCSelectCalc ----------------------------
(* A small instance of the select calculator for TLC.                      *)
EXTENDS SelectCalc

(* Net(-2) is less than -2, and the byte-swapped 1 is greater than 1.      *)
SignedResults == {-2, 1}

AllOps == {"calc", "error", "trap", "quit"}
=============================================================================
