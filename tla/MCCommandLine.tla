--------------------------- MODULE MCCommandLine ---------------------------
(* CommandLine for TLC: invocations differ in nothing but their name. *)
EXTENDS CommandLine, TLC

Alike == Permutations(Invocations)
=============================================================================
