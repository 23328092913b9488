----------------------------- MODULE MCAgentPool -----------------------------
(* Model values and symmetry for checking AgentPool with TLC.              *)
EXTENDS AgentPool, TLC

Symmetry == Permutations(Token) \cup Permutations(Conn) \cup Permutations(Agent)
=============================================================================
