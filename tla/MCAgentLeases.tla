--------------------------- MODULE MCAgentLeases ---------------------------
(* AgentLeases for TLC.  Ids and agents are interchangeable.               *)
EXTENDS AgentLeases, TLC

Symmetry == Permutations(LeaseId) \cup Permutations(Agent) \cup Permutations(Run)
=============================================================================
