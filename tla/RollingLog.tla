------------------------------ MODULE RollingLog ------------------------------
(***************************************************************************)
(* What a size-rotated log promises its reader (the header comment of      *)
(* core/src/file_log_layer.rs): lines are only ever appended and only the  *)
(* oldest are forgotten, so what is on disk is always an unbroken run of   *)
(* lines that ends with the newest; and a line outlives as many rotations  *)
(* as there are files.  Both hold until a file operation fails.            *)
(***************************************************************************)
EXTENDS Integers, Sequences

VARIABLES
  keep,     \* rotations a line is guaranteed to outlive
  born,     \* born[i]: rotations begun before line i was written
  turn,     \* rotations begun so far
  kept,     \* numbers of the lines that can still be read
  damaged   \* a file operation of a rotation has failed

vars == <<keep, born, turn, kept, damaged>>

Init ==
  /\ keep \in Nat \ {0}
  /\ born = <<>> /\ turn = 0 /\ kept = {} /\ damaged = FALSE

Write ==
  /\ born' = Append(born, turn)
  /\ kept' = kept \cup {Len(born) + 1}
  /\ UNCHANGED <<keep, turn, damaged>>

Turn ==
  /\ turn' = turn + 1
  /\ UNCHANGED <<keep, born, kept, damaged>>

(* The oldest lines go, when they have outlived their rotations: lines     *)
(* from "first" on stay.                                                   *)
Forget(first) ==
  /\ kept' = {i \in kept : i >= first}
  /\ \A i \in kept \ kept' : turn - born[i] >= keep
  /\ UNCHANGED <<keep, born, turn, damaged>>

(* A file operation fails: from then on any line may go.                   *)
Lose(rest) ==
  /\ kept' = rest
  /\ damaged' = TRUE
  /\ UNCHANGED <<keep, born, turn>>

Next ==
  \/ Write \/ Turn
  \/ \E first \in 1 .. Len(born) + 1 : Forget(first)
  \/ \E rest \in SUBSET kept : Lose(rest)

Spec == Init /\ [][Next]_vars

-----------------------------------------------------------------------------
(* Nothing is missing in the middle: as long as no operation has failed,   *)
(* what is kept is a suffix of all that was written.                       *)
KeptIsSuffix == ~damaged => \A i \in kept : i .. Len(born) \subseteq kept

(* A line is there until it has outlived its rotations.                    *)
Retained == ~damaged => \A i \in DOMAIN born : turn - born[i] < keep => i \in kept
=============================================================================
