---------------------------- MODULE MCForkShmCalc ----------------------------
(* Small instances of the forked calculator with shared memory for TLC.    *)
EXTENDS ForkShmCalc, TLC

Say(op, v, t) == [op |-> op, value |-> v, text |-> t]

\* Only quit, which is calculated as an error.
FewRequests == {Say("dollar", 0, "quit")}

\* Everything that can be said, among it a description that only looks
\* like quit and two zeros with a $ that do not.
AllRequests == {Say("calc", 2, "other"), Say("calc", -1, "quit"), Say("error", 0, "other"),
                Say("trap", 0, "other"), Say("idle", 0, "other"),
                Say("dollar", 0, "other"), Say("dollar", 0, "quit")}

\* What a consumer has copied to send steers nothing: where no property
\* looks at it, states that differ in it alone are one.
NoOut == <<tables, main, timer, reader, sem, gsem, mem, in, extrema>>

Symmetry == Permutations(Clients) \cup Permutations(Keys) \cup Permutations(Ids)
==============================================================================
