---------------------------- MODULE MCAgentTasks ----------------------------
(* AgentTasks for TLC: runs, messages and calls are interchangeable.        *)
EXTENDS AgentTasks, TLC

Symmetry == Permutations(Runs) \cup Permutations(Messages) \cup Permutations(Calls)
=============================================================================
