------------------------------- MODULE MCPool --------------------------------
(* Pool for TLC: goroutines, addresses and handlers are interchangeable.   *)
EXTENDS Pool, TLC

PoolSymmetry == Permutations(Procs) \cup Permutations(Addrs)
=============================================================================
