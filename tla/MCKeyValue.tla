----------------------------- MODULE MCKeyValue -----------------------------
(* Small instances of the key-value server for TLC.                        *)
EXTENDS KeyValueRefinement, TLC

(* Connections are interchangeable, and so are keys and byte values.       *)
Symmetry ==
  Permutations(Clients) \cup Permutations(Keys) \cup Permutations(Char)
=============================================================================
