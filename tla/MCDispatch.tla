----------------------------- MODULE MCDispatch ------------------------------
(* Dispatch for TLC: agents are interchangeable.                           *)
EXTENDS Dispatch, TLC

AgentSymmetry == Permutations(Agents)
=============================================================================
