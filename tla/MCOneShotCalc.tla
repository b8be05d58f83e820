--------------------------- MODULE MCOneShotCalc ---------------------------
(* A small instance of the one-request servers for TLC.                    *)
EXTENDS OneShotCalc

(* Results on either side of zero, the sentinel, and a request that fails  *)
(* counts as zero.                                                         *)
SignedResults == {-1, 2}
=============================================================================
