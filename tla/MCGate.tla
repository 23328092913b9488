------------------------------- MODULE MCGate -------------------------------
EXTENDS Gate, TLC

(* Connections, addresses and tokens are interchangeable.  Sound for the   *)
(* safety properties this is used with.                                    *)
Symmetry == Permutations(Conn) \cup Permutations(IP) \cup Permutations(Token)
=============================================================================
