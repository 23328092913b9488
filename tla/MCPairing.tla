------------------------------ MODULE MCPairing ------------------------------
EXTENDS Pairing, TLC

(* Codes are interchangeable and so are requests.  Sound for the safety    *)
(* properties this is used with.                                           *)
Symmetry == Permutations(Code) \cup Permutations(Req)
=============================================================================
