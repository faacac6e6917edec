------------------------------ MODULE MCClient -------------------------------
(* Client for TLC: callers are interchangeable.                            *)
EXTENDS Client, TLC

CallerSymmetry == Permutations(Callers)
=============================================================================
