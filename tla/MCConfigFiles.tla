---------------------------- MODULE MCConfigFiles ----------------------------
EXTENDS ConfigFiles, TLC

(* Processes, identities and the valid addresses are interchangeable; only *)
(* safety properties are checked.                                          *)
Symmetry == Permutations(Proc) \cup Permutations(Id) \cup Permutations(Addr \ Invalid)
=============================================================================
