---------------------------- MODULE MCFileExchange ----------------------------
(* An instance of FileExchange for TLC. *)
EXTENDS FileExchange, TLC

CONSTANTS w1, w2, s1, s2, f1, f2

MCSymmetry == Permutations({s1, s2}) \cup Permutations({f1, f2}) \cup Permutations({w1, w2})
==============================================================================
