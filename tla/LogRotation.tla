----------------------------- MODULE LogRotation -----------------------------
(***************************************************************************)
(* The size-rotating log file (core/src/file_log_layer.rs).  on_event runs *)
(* under the layer's mutex, so the only other actor is a crash of the      *)
(* process; it can strike between any two file operations, and the next    *)
(* process goes on with the files it finds.  Every file operation may fail *)
(* (its error is dropped by "let _ =" or ".ok()").                         *)
(*                                                                         *)
(* Slot 0 is aptove.log, slot n is aptove.log.n.  A file is the sequence   *)
(* of the numbers of its lines and its length in bytes.                    *)
(***************************************************************************)
EXTENDS Integers, Sequences, FiniteSets, Functions

CONSTANTS
  FileCounts,  \* values of log_file_count tried
  MaxBytes,    \* size at which a file is rotated
  LineLens,    \* lengths of lines
  MaxLines,    \* bound: lines written
  MaxTurns     \* bound: rotations begun

ASSUME LogAssumption ==
  /\ FileCounts \subseteq Nat
  /\ MaxBytes \in Nat
  /\ LineLens \subseteq Nat \ {0}
  /\ MaxLines \in Nat /\ MaxTurns \in Nat

VARIABLES
  count,     \* file_count of the layer
  disk,      \* the files that exist, by slot
  open,      \* FileState::writer is Some
  written,   \* FileState::written
  pc,        \* where on_event is
  n,         \* the backup the shifting loop is at
  line,      \* length of the line being logged
  born,      \* born[i]: rotations begun before line i was written (history)
  turn,      \* rotations begun (history)
  damaged    \* a removal or rename has failed (history)

vars == <<count, disk, open, written, pc, n, line, born, turn, damaged>>

-----------------------------------------------------------------------------
(* The file system                                                         *)

EmptyFile == [lines |-> <<>>, bytes |-> 0]
Exists(s) == s \in DOMAIN disk

Removed(s) == Restrict(disk, DOMAIN disk \ {s})

(* rename replaces its target.                                             *)
CopiedOnly(from, to) ==
  [s \in DOMAIN disk \cup {to} |-> IF s = to THEN disk[from] ELSE disk[s]]
Renamed(from, to) ==
  [s \in (DOMAIN disk \ {from}) \cup {to} |-> IF s = to THEN disk[from] ELSE disk[s]]

(* open_append creates a missing file and keeps the contents of another.   *)
Created == IF Exists(0) THEN disk
           ELSE [s \in DOMAIN disk \cup {0} |-> IF s = 0 THEN EmptyFile ELSE disk[s]]

LengthForgotten == 0
Existing == IF Exists(0) THEN disk[0].bytes ELSE 0

Appended(file, i) ==
  [lines |-> Append(file.lines, i), bytes |-> file.bytes + line]

(* "if exists { let _ = operation }": done, not needed, or failed.         *)
Attempt(needed, result) ==
  \/ needed /\ disk' = result /\ UNCHANGED damaged
  \/ ~needed /\ UNCHANGED <<disk, damaged>>
  \/ needed /\ UNCHANGED disk /\ damaged' = TRUE

-----------------------------------------------------------------------------
Init ==
  /\ count \in {IF c < 1 THEN 1 ELSE c : c \in FileCounts}
  /\ disk = [s \in {0} |-> EmptyFile]
  /\ open = TRUE /\ written = 0
  /\ pc = "idle" /\ n = 0 /\ line = 0
  /\ born = <<>> /\ turn = 0 /\ damaged = FALSE

(* on_event: rotate if this line would exceed the limit.                   *)
Exceeds(len) == written + len > MaxBytes
LogLine(len) ==
  /\ pc = "idle"
  /\ Len(born) < MaxLines
  /\ line' = len
  /\ IF Exceeds(len)
     THEN /\ turn < MaxTurns /\ turn' = turn + 1
          /\ open' = FALSE
          /\ pc' = "remove"
     ELSE /\ UNCHANGED <<turn, open>>
          /\ pc' = "write"
  /\ UNCHANGED <<count, disk, written, n, born, damaged>>

(* rotate: the oldest backup goes.  With one file it is aptove.log.0,      *)
(* which never exists.                                                     *)
OldestTooLow == count - 2
Oldest == count - 1
ShiftsPastOldest == count - 1
HighestShifted == count - 2
RemoveOldest ==
  /\ pc = "remove"
  /\ pc' = "shift" /\ n' = HighestShifted
  /\ Attempt(Oldest > 0 /\ Exists(Oldest), Removed(Oldest))
  /\ UNCHANGED <<count, open, written, line, born, turn>>

(* rotate: each backup moves up, the highest first.                        *)
ShiftBackup ==
  /\ pc = "shift" /\ n >= 1
  /\ n' = n - 1
  /\ Attempt(Exists(n), Renamed(n, n + 1))
  /\ UNCHANGED <<count, open, written, pc, line, born, turn>>

RenameCurrent ==
  /\ pc = "shift" /\ n < 1
  /\ pc' = "reopen"
  /\ Attempt(Exists(0), Renamed(0, 1))
  /\ UNCHANGED <<count, open, written, n, line, born, turn>>

(* on_event: a fresh file, taken to be empty whatever open_append says.    *)
Reopen ==
  /\ pc = "reopen"
  /\ \/ disk' = Created /\ open' = TRUE
     \/ UNCHANGED disk /\ open' = FALSE
  /\ written' = 0
  /\ pc' = "write"
  /\ UNCHANGED <<count, n, line, born, turn, damaged>>

(* on_event: opened lazily when it is not open, the line is written and    *)
(* flushed.  If the write fails the line is dropped.  If the flush does,   *)
(* the line is counted and stays in the writer's buffer: it goes out with  *)
(* a later one, or when the writer is closed (here: at once), or is lost   *)
(* with the writer (here: at once).                                        *)
WriteLine ==
  /\ pc = "write"
  /\ pc' = "idle"
  /\ LET opened == IF open THEN disk ELSE Created
         base   == IF open THEN written ELSE Existing
         i      == Len(born) + 1
     IN \/ /\ disk' = [opened EXCEPT ![0] = Appended(@, i)]
           /\ born' = Append(born, turn)
           /\ written' = base + line
           /\ open' = TRUE
        \/ /\ disk' = opened /\ open' = TRUE /\ UNCHANGED born   \* write or flush fails
           /\ written' \in {base, base + line}
        \/ /\ ~open /\ written' = Existing                       \* opening fails
           /\ UNCHANGED <<disk, open, born>>
  /\ UNCHANGED <<count, n, line, turn, damaged>>

(* The process dies between two file operations and a new one starts: new  *)
(* opens the file for appending and takes its length.                      *)
Restart ==
  /\ pc' = "idle" /\ n' = 0 /\ line' = 0
  /\ written' = Existing
  /\ \/ disk' = Created /\ open' = TRUE
     \/ UNCHANGED disk /\ open' = FALSE
  /\ UNCHANGED <<count, born, turn, damaged>>

Next ==
  \/ \E len \in LineLens : LogLine(len)
  \/ RemoveOldest \/ ShiftBackup \/ RenameCurrent \/ Reopen \/ WriteLine
  \/ Restart

Spec == Init /\ [][Next]_vars

-----------------------------------------------------------------------------
(* Properties.                                                             *)

TypeOK ==
  /\ count \in Nat \ {0}
  /\ DOMAIN disk \subseteq Nat
  /\ \A s \in DOMAIN disk : disk[s] \in [lines : Seq(Nat \ {0}), bytes : Nat]
  /\ open \in BOOLEAN /\ (open => Exists(0))
  /\ written \in Nat
  /\ pc \in {"idle", "remove", "shift", "reopen", "write"}
  /\ n \in Int /\ n < count
  /\ line \in Nat
  /\ born \in Seq(Nat) /\ turn \in Nat
  /\ damaged \in BOOLEAN

(* Whatever is interrupted, and whichever files a crash left behind, the   *)
(* log is the rolling log its header comment describes.                    *)
Lines(s) == Range(disk[s].lines)
Kept == UNION {Lines(s) : s \in DOMAIN disk}
Survives == IF count = 1 THEN 2 ELSE count
Abstract == INSTANCE RollingLog WITH keep <- Survives, kept <- Kept
ImplementsRollingLog == Abstract!Spec

(* A reader who goes through aptove.log.2, aptove.log.1 and aptove.log     *)
(* finds the lines in the order they were logged, each once; even after    *)
(* failed renames.                                                         *)
OrderKept ==
  /\ \A s, t \in DOMAIN disk : s < t => \A i \in Lines(s), j \in Lines(t) : j < i
  /\ \A s \in DOMAIN disk : \A i, j \in DOMAIN disk[s].lines :
       i < j => disk[s].lines[i] < disk[s].lines[j]

(* The disk the log takes is bounded.  No file grows past the limit unless *)
(* a single line is longer, as the count of bytes written stays true       *)
(* through rotations, crashes and files that could not be opened (a failed *)
(* rename of aptove.log breaks it: the count restarts at zero on a file    *)
(* that is not empty).  And "at most file_count files are kept on disk",   *)
(* from two files on.                                                      *)
DiskBounded ==
  /\ ~damaged =>
       \A s \in DOMAIN disk : disk[s].bytes <= MaxBytes \/ Len(disk[s].lines) = 1
  /\ count >= 2 => DOMAIN disk \subseteq 0 .. count - 1

-----------------------------------------------------------------------------
(* What the header comment says and the code does not do with one file:    *)
(* file_log_layer.rs:7 "At most `file_count` files are kept on disk".      *)
AtMostCountFiles == Cardinality(DOMAIN disk) <= count
=============================================================================
