-------------------------- MODULE LogRotationProofs --------------------------
(***************************************************************************)
(* Theorems about LogRotation, for every value of its constants.           *)
(***************************************************************************)
EXTENDS LogRotation, SequenceTheorems, TLAPS

(* The writer is closed while a rotation is under way.                     *)
TypeInv == TypeOK /\ (pc \in {"remove", "shift", "reopen"} => ~open)

-----------------------------------------------------------------------------
(* The order of the lines.                                                 *)

(* Every line on disk has been written.                                    *)
LinesWritten == \A s \in DOMAIN disk : Lines(s) \subseteq 1 .. Len(born)

OrderInv == LinesWritten /\ OrderKept

-----------------------------------------------------------------------------
(* The bound on the disk.                                                  *)

(* No byte of aptove.log is left uncounted, a rotation leaves none behind, *)
(* and the line at hand fits or starts a file.                             *)
CountedRight ==
  ~damaged =>
    /\ pc \in {"idle", "write"} => written >= Existing
    /\ pc = "reopen" => ~Exists(0)
    /\ pc = "write" => \/ written + line <= MaxBytes
                       \/ Exists(0) => disk[0] = EmptyFile

(* The shifting loop never reaches past the oldest backup.                 *)
ShiftBounded == pc = "shift" => n <= count - 2

(* At most file_count files, and never fewer than two slots.               *)
SlotsInRange == DOMAIN disk \subseteq 0 .. Survives - 1

BoundInv == CountedRight /\ ShiftBounded /\ SlotsInRange /\ DiskBounded

-----------------------------------------------------------------------------
(* The age of the lines: a line in backup s has outlived s rotations, and  *)
(* the one under way as well when its file has not been moved yet.         *)
Outlived(s, k) == \A i \in Lines(s) : turn - born[i] >= k

AgeInv ==
  /\ \A i \in DOMAIN born : born[i] <= turn
  /\ ~damaged =>
       \A s \in DOMAIN disk :
         /\ Outlived(s, s)
         /\ pc = "remove" \/ (pc = "shift" /\ (s <= n \/ count = 1)) => Outlived(s, s + 1)

(* The slot a backup is moved to is free.                                  *)
SlotFree == ~damaged /\ pc = "shift" /\ count >= 2 => n >= 0 /\ ~Exists(n + 1)

LogInv == TypeInv /\ OrderInv /\ BoundInv /\ AgeInv /\ SlotFree

-----------------------------------------------------------------------------
(* What the file operations leave on disk.                                 *)
File == [lines : Seq(Nat \ {0}), bytes : Nat]

LEMMA RemovedIs ==
  ASSUME NEW k
  PROVE  /\ DOMAIN Removed(k) = DOMAIN disk \ {k}
         /\ \A s \in DOMAIN disk \ {k} : Removed(k)[s] = disk[s]
BY DEF Removed, Restrict

LEMMA RenamedIs ==
  ASSUME NEW k \in Nat, Exists(k)
  PROVE  /\ DOMAIN Renamed(k, k + 1) = (DOMAIN disk \ {k}) \cup {k + 1}
         /\ Renamed(k, k + 1)[k + 1] = disk[k]
         /\ \A s \in DOMAIN disk \ {k, k + 1} : Renamed(k, k + 1)[s] = disk[s]
BY DEF Renamed

LEMMA CreatedIs ==
  /\ DOMAIN Created = DOMAIN disk \cup {0}
  /\ \A s \in DOMAIN disk : Created[s] = disk[s]
  /\ ~Exists(0) => Created[0] = EmptyFile
<1>1. CASE Exists(0)
  BY <1>1 DEF Created, Exists
<1>2. CASE ~Exists(0)
  BY <1>2 DEF Created, Exists
<1>3. QED BY <1>1, <1>2

(* A line written: it is put at the end of aptove.log, which is created    *)
(* when it is missing.                                                     *)
Written ==
  /\ DOMAIN disk' = DOMAIN disk \cup {0}
  /\ \A s \in DOMAIN disk \ {0} : disk'[s] = disk[s]
  /\ LET old == IF Exists(0) THEN disk[0] ELSE EmptyFile
     IN  disk'[0] = [lines |-> Append(old.lines, Len(born) + 1), bytes |-> old.bytes + line]
  /\ born' = Append(born, turn)

(* The steps, by what they do to the disk.                                 *)
LEMMA WriteEffect ==
  ASSUME TypeInv, WriteLine
  PROVE  \/ Written /\ open' = TRUE /\ written' = (IF open THEN written ELSE Existing) + line
         \/ /\ DOMAIN disk' = DOMAIN disk \cup {0} /\ \A s \in DOMAIN disk : disk'[s] = disk[s]
            /\ ~Exists(0) => disk'[0] = EmptyFile
            /\ open' = TRUE /\ born' = born
            /\ LET base == IF open THEN written ELSE Existing
               IN  written' \in {base, base + line}
         \/ ~open /\ UNCHANGED <<disk, open, born>> /\ written' = Existing
<1> DEFINE opened == IF open THEN disk ELSE Created
           i == Len(born) + 1
<1>1. /\ DOMAIN opened = DOMAIN disk \cup {0}
      /\ \A s \in DOMAIN disk : opened[s] = disk[s]
      /\ ~Exists(0) => opened[0] = EmptyFile
  BY CreatedIs DEF TypeInv, TypeOK, Exists
<1> HIDE DEF opened
<1>2. ASSUME disk' = [opened EXCEPT ![0] = Appended(@, i)], born' = Append(born, turn)
      PROVE  Written
  <2>1. DOMAIN disk' = DOMAIN opened /\ \A s \in DOMAIN opened \ {0} : disk'[s] = opened[s]
    BY <1>2
  <2>2. disk'[0] = Appended(opened[0], i)
    BY <1>1, <1>2
  <2>3. opened[0] = IF Exists(0) THEN disk[0] ELSE EmptyFile
    BY <1>1 DEF Exists
  <2>4. QED BY <1>1, <1>2, <2>1, <2>2, <2>3 DEF Written, Appended
<1>3. \/ disk' = [opened EXCEPT ![0] = Appended(@, i)] /\ born' = Append(born, turn)
         /\ open' = TRUE /\ written' = (IF open THEN written ELSE Existing) + line
      \/ /\ disk' = opened /\ open' = TRUE /\ born' = born
         /\ LET base == IF open THEN written ELSE Existing
            IN  written' \in {base, base + line}
      \/ ~open /\ UNCHANGED <<disk, open, born>> /\ written' = Existing
  BY DEF WriteLine, opened
<1>4. QED BY <1>1, <1>2, <1>3

LEMMA TypeStep ==
  ASSUME TypeInv, [Next]_vars
  PROVE  TypeInv'
<1> USE LogAssumption
<1>0. /\ count \in Nat \ {0} /\ DOMAIN disk \subseteq Nat /\ \A s \in DOMAIN disk : disk[s] \in File
      /\ open \in BOOLEAN /\ (open => Exists(0)) /\ written \in Nat
      /\ pc \in {"idle", "remove", "shift", "reopen", "write"}
      /\ n \in Int /\ n < count /\ line \in Nat /\ born \in Seq(Nat) /\ turn \in Nat /\ damaged \in BOOLEAN
      /\ pc \in {"remove", "shift", "reopen"} => ~open
  BY DEF TypeInv, TypeOK, File
<1>a. EmptyFile \in File
  BY DEF EmptyFile, File
<1>b. Existing \in Nat
  BY <1>0 DEF Existing, Exists, File
<1>c. ASSUME DOMAIN disk' \subseteq Nat, \A s \in DOMAIN disk' : disk'[s] \in File,
             open' \in BOOLEAN, open' => 0 \in DOMAIN disk', written' \in Nat,
             pc' \in {"idle", "remove", "shift", "reopen", "write"}, n' \in Int, n' < count,
             line' \in Nat, born' \in Seq(Nat), turn' \in Nat, damaged' \in BOOLEAN,
             pc' \in {"remove", "shift", "reopen"} => ~open', count' = count
      PROVE  TypeInv'
  BY <1>0, <1>c DEF TypeInv, TypeOK, File, Exists
<1>1. ASSUME NEW len \in LineLens, LogLine(len)
      PROVE  TypeInv'
  <2>1. /\ UNCHANGED <<count, disk, written, n, born, damaged>> /\ line' \in Nat /\ turn' \in Nat
        /\ \/ pc' = "remove" /\ open' = FALSE
           \/ pc' = "write" /\ open' = open
    BY <1>0, <1>1 DEF LogLine
  <2>2. open' \in BOOLEAN /\ (open' => 0 \in DOMAIN disk')
    <3>1. CASE open' = FALSE
      BY <3>1
    <3>2. CASE open' = open
      BY <1>0, <2>1, <3>2 DEF Exists
    <3>3. QED BY <2>1, <3>1, <3>2
  <2>3. pc' \in {"idle", "remove", "shift", "reopen", "write"} /\ (pc' \in {"remove", "shift", "reopen"} => ~open')
    BY <2>1
  <2>4. QED BY <1>0, <1>c, <2>1, <2>2, <2>3
<1>2. ASSUME RemoveOldest
      PROVE  TypeInv'
  <2>1. DOMAIN disk' \subseteq Nat /\ (\A s \in DOMAIN disk' : disk'[s] \in File) /\ damaged' \in BOOLEAN
    <3>1. CASE disk' = Removed(Oldest) /\ UNCHANGED damaged
      BY <1>0, <3>1, RemovedIs
    <3>2. CASE UNCHANGED disk /\ damaged' \in {damaged, TRUE}
      BY <1>0, <3>2
    <3>3. QED BY <1>2, <3>1, <3>2 DEF RemoveOldest, Attempt
  <2>2. QED BY <1>0, <1>2, <1>c, <2>1 DEF RemoveOldest, HighestShifted
<1>3. ASSUME NEW k \in Nat, Attempt(Exists(k), Renamed(k, k + 1))
      PROVE  /\ DOMAIN disk' \subseteq Nat /\ damaged' \in BOOLEAN
             /\ \A s \in DOMAIN disk' : disk'[s] \in File
  <2>1. CASE Exists(k) /\ disk' = Renamed(k, k + 1) /\ UNCHANGED damaged
    <3>1. /\ DOMAIN disk' = (DOMAIN disk \ {k}) \cup {k + 1} /\ disk'[k + 1] = disk[k]
          /\ \A s \in DOMAIN disk \ {k, k + 1} : disk'[s] = disk[s]
      BY <2>1, RenamedIs
    <3>2. QED BY <1>0, <2>1, <3>1 DEF Exists
  <2>2. CASE UNCHANGED disk /\ damaged' \in {damaged, TRUE}
    BY <1>0, <2>2
  <2>3. QED BY <1>3, <2>1, <2>2 DEF Attempt
<1>4. ASSUME ShiftBackup
      PROVE  TypeInv'
  <2>1. n \in Nat /\ Attempt(Exists(n), Renamed(n, n + 1))
    BY <1>0, <1>4 DEF ShiftBackup
  <2>2. QED BY <1>0, <1>3, <1>4, <1>c, <2>1 DEF ShiftBackup
<1>5. ASSUME RenameCurrent
      PROVE  TypeInv'
  <2>1. Attempt(Exists(0), Renamed(0, 0 + 1))
    BY <1>5 DEF RenameCurrent
  <2>2. QED BY <1>0, <1>3, <1>5, <1>c, <2>1 DEF RenameCurrent
<1>6. ASSUME Reopen \/ Restart
      PROVE  TypeInv'
  <2>1. /\ \/ disk' = Created /\ open' = TRUE
           \/ disk' = disk /\ open' = FALSE
        /\ written' \in Nat /\ line' \in Nat /\ n' \in Int /\ n' < count
        /\ pc' \in {"idle", "write"} /\ UNCHANGED <<count, born, turn, damaged>>
    BY <1>0, <1>6, <1>b DEF Reopen, Restart
  <2>2. DOMAIN disk' \subseteq Nat /\ (\A s \in DOMAIN disk' : disk'[s] \in File)
        /\ (open' => 0 \in DOMAIN disk') /\ open' \in BOOLEAN
    <3>1. CASE disk' = Created /\ open' = TRUE
      BY <1>0, <1>a, <3>1, CreatedIs DEF Exists
    <3>2. CASE disk' = disk /\ open' = FALSE
      BY <1>0, <3>2
    <3>3. QED BY <2>1, <3>1, <3>2
  <2>3. QED BY <1>0, <1>c, <2>1, <2>2
<1>7. ASSUME WriteLine
      PROVE  TypeInv'
  <2>1. pc' = "idle" /\ UNCHANGED <<count, n, line, turn, damaged>>
    BY <1>7 DEF WriteLine
  <2>2. CASE Written /\ open' = TRUE /\ written' = (IF open THEN written ELSE Existing) + line
    <3>1. disk'[0] \in File
      <4> DEFINE old == IF Exists(0) THEN disk[0] ELSE EmptyFile
      <4>1. old \in File
        BY <1>0, <1>a DEF Exists
      <4>2. disk'[0] = [lines |-> Append(old.lines, Len(born) + 1), bytes |-> old.bytes + line]
        BY <2>2 DEF Written
      <4> HIDE DEF old
      <4>3. Len(born) + 1 \in Nat \ {0}
        BY <1>0
      <4>4. Append(old.lines, Len(born) + 1) \in Seq(Nat \ {0}) /\ old.bytes + line \in Nat
        BY <1>0, <4>1, <4>3 DEF File
      <4>5. QED BY <4>2, <4>4 DEF File
    <3>2. born' \in Seq(Nat)
      BY <1>0, <2>2 DEF Written
    <3>3. written' \in Nat
      BY <1>0, <1>b, <2>2
    <3>4. DOMAIN disk' \subseteq Nat /\ (\A s \in DOMAIN disk' : disk'[s] \in File) /\ 0 \in DOMAIN disk'
      <4>1. DOMAIN disk' = DOMAIN disk \cup {0} /\ \A s \in DOMAIN disk \ {0} : disk'[s] = disk[s]
        BY <2>2 DEF Written
      <4>2. QED BY <1>0, <3>1, <4>1
    <3>5. QED BY <1>0, <1>c, <2>1, <2>2, <3>2, <3>3, <3>4
  <2>3. ASSUME DOMAIN disk' = DOMAIN disk \cup {0}, \A s \in DOMAIN disk : disk'[s] = disk[s],
               ~Exists(0) => disk'[0] = EmptyFile,
               open' = TRUE, born' = born, written' \in Nat
        PROVE  TypeInv'
    <3>1. DOMAIN disk' \subseteq Nat /\ (\A s \in DOMAIN disk' : disk'[s] \in File) /\ 0 \in DOMAIN disk'
      BY <1>0, <1>a, <2>3 DEF Exists
    <3>2. QED BY <1>0, <1>c, <2>1, <2>3, <3>1
  <2>4. CASE ~open /\ UNCHANGED <<disk, open, born>> /\ written' = Existing
    BY <1>0, <1>b, <1>c, <2>1, <2>4 DEF Exists
  <2>5. LET base == IF open THEN written ELSE Existing
        IN  written' \in {base, base + line} => written' \in Nat
    BY <1>0, <1>b
  <2>6. QED BY <1>7, <2>2, <2>3, <2>4, <2>5, WriteEffect
<1>8. CASE UNCHANGED vars
  BY <1>8 DEF vars, TypeInv, TypeOK, Exists
<1>9. QED BY <1>1, <1>2, <1>4, <1>5, <1>6, <1>7, <1>8 DEF Next

-----------------------------------------------------------------------------
(* Moving whole files to slots in the same order, dropping some and adding *)
(* empty ones keeps the lines in order.                                    *)
LEMMA OrderMoved ==
  ASSUME TypeInv, OrderInv, born' = born, NEW h,
         \A s \in DOMAIN disk' : \/ disk'[s].lines = <<>>
                                 \/ h[s] \in DOMAIN disk /\ disk'[s] = disk[h[s]],
         \A s, t \in DOMAIN disk' : s < t => h[s] < h[t]
  PROVE  OrderInv'
<1>1. \A s \in DOMAIN disk' : \/ Lines(s)' = {}
                              \/ h[s] \in DOMAIN disk /\ Lines(s)' = Lines(h[s])
  BY DEF Lines, Range
<1>2. LinesWritten'
  BY <1>1 DEF OrderInv, LinesWritten
<1>3. ASSUME NEW s \in DOMAIN disk', NEW t \in DOMAIN disk', s < t,
             NEW i \in Lines(s)', NEW j \in Lines(t)'
      PROVE  j < i
  <2>1. /\ h[s] \in DOMAIN disk /\ i \in Lines(h[s])
        /\ h[t] \in DOMAIN disk /\ j \in Lines(h[t])
    BY <1>1
  <2>2. h[s] < h[t]
    BY <1>3
  <2>3. QED BY <2>1, <2>2 DEF OrderInv, OrderKept
<1>4. ASSUME NEW s \in DOMAIN disk', NEW i \in DOMAIN disk'[s].lines, NEW j \in DOMAIN disk'[s].lines, i < j
      PROVE  disk'[s].lines[i] < disk'[s].lines[j]
  BY <1>4 DEF OrderInv, OrderKept
<1>5. QED BY <1>2, <1>3, <1>4 DEF OrderInv, OrderKept

LEMMA OrderStep ==
  ASSUME TypeInv, OrderInv, [Next]_vars
  PROVE  OrderInv'
<1>0. DOMAIN disk \subseteq Nat /\ (\A s \in DOMAIN disk : disk[s] \in File) /\ born \in Seq(Nat) /\ n \in Int
  BY DEF TypeInv, TypeOK, File
<1>1. ASSUME disk' = disk, born' = born
      PROVE  OrderInv'
  BY <1>1 DEF OrderInv, LinesWritten, OrderKept, Lines
<1>2. ASSUME born' = born, DOMAIN disk' \subseteq DOMAIN disk \cup {0},
             \A s \in DOMAIN disk' : disk'[s].lines = <<>> \/ (s \in DOMAIN disk /\ disk'[s] = disk[s])
      PROVE  OrderInv'
  <2> DEFINE h == [s \in DOMAIN disk' |-> s]
  <2>1. \A s \in DOMAIN disk' : disk'[s].lines = <<>> \/ (h[s] \in DOMAIN disk /\ disk'[s] = disk[h[s]])
    BY <1>2
  <2>2. \A s, t \in DOMAIN disk' : s < t => h[s] < h[t]
    OBVIOUS
  <2> HIDE DEF h
  <2>3. QED BY <1>2, <2>1, <2>2, OrderMoved
<1>3. ASSUME disk' = Created, born' = born
      PROVE  OrderInv'
  BY <1>2, <1>3, CreatedIs DEF Exists, EmptyFile
<1>4. ASSUME RemoveOldest
      PROVE  OrderInv'
  <2>1. born' = born /\ (disk' = disk \/ disk' = Removed(Oldest))
    BY <1>4 DEF RemoveOldest, Attempt
  <2>2. QED BY <1>1, <1>2, <2>1, RemovedIs
<1>5. ASSUME NEW k \in Nat, born' = born, Attempt(Exists(k), Renamed(k, k + 1))
      PROVE  OrderInv'
  <2>1. CASE disk' = disk
    BY <1>1, <1>5, <2>1
  <2>2. CASE Exists(k) /\ disk' = Renamed(k, k + 1)
    <3> DEFINE h == [s \in DOMAIN disk' |-> IF s = k + 1 THEN k ELSE s]
    <3>1. /\ DOMAIN disk' = (DOMAIN disk \ {k}) \cup {k + 1} /\ disk'[k + 1] = disk[k]
          /\ \A s \in DOMAIN disk \ {k, k + 1} : disk'[s] = disk[s]
      BY <2>2, RenamedIs
    <3>2. \A s \in DOMAIN disk' : h[s] \in DOMAIN disk /\ disk'[s] = disk[h[s]]
      BY <2>2, <3>1 DEF Exists
    <3>3. \A s, t \in DOMAIN disk' : s < t => h[s] < h[t]
      BY <1>0, <3>1
    <3> HIDE DEF h
    <3>4. QED BY <1>5, <3>2, <3>3, OrderMoved
  <2>3. QED BY <1>5, <2>1, <2>2 DEF Attempt
<1>6. ASSUME ShiftBackup \/ RenameCurrent
      PROVE  OrderInv'
  <2>1. CASE ShiftBackup
    <3>1. n \in Nat /\ born' = born /\ Attempt(Exists(n), Renamed(n, n + 1))
      BY <1>0, <2>1 DEF ShiftBackup
    <3>2. QED BY <1>5, <3>1
  <2>2. CASE RenameCurrent
    <3>1. born' = born /\ Attempt(Exists(0), Renamed(0, 0 + 1))
      BY <2>2 DEF RenameCurrent
    <3>2. QED BY <1>5, <3>1
  <2>3. QED BY <1>6, <2>1, <2>2
<1>7. ASSUME Written
      PROVE  OrderInv'
  <2> DEFINE old == IF Exists(0) THEN disk[0].lines ELSE <<>>
             m == Len(born) + 1
  <2>1. old \in Seq(Nat \ {0}) /\ m \in Nat \ {0} /\ Len(old) \in Nat
    BY <1>0 DEF Exists, File
  <2>2. /\ DOMAIN disk' = DOMAIN disk \cup {0} /\ \A s \in DOMAIN disk \ {0} : disk'[s] = disk[s]
        /\ disk'[0].lines = Append(old, m)
        /\ born' = Append(born, turn)
    BY <1>7 DEF Written, EmptyFile
  <2>3. Range(old) \subseteq 1 .. Len(born)
    BY DEF OrderInv, LinesWritten, Lines, Range, Exists
  <2>4. \A i, j \in 1 .. Len(old) : i < j => old[i] < old[j]
    <3>1. CASE Exists(0)
      <4>1. DOMAIN disk[0].lines = 1 .. Len(old)
        BY <2>1, <3>1
      <4>2. QED BY <3>1, <4>1 DEF Exists, OrderInv, OrderKept
    <3>2. CASE ~Exists(0)
      BY <3>2
    <3>3. QED BY <3>1, <3>2
  <2>5. \A t \in DOMAIN disk : 0 < t => \A i \in Range(old), j \in Lines(t) : j < i
    BY DEF Exists, OrderInv, OrderKept, Lines, Range
  <2> HIDE DEF old, m
  <2>6. /\ Len(Append(old, m)) = Len(old) + 1 /\ DOMAIN Append(old, m) = 1 .. Len(old) + 1
        /\ \A i \in 1 .. Len(old) : Append(old, m)[i] = old[i]
        /\ Append(old, m)[Len(old) + 1] = m
    BY <2>1, AppendProperties
  <2>7. Lines(0)' = Range(old) \cup {m}
    <3>1. Range(Append(old, m)) = Range(old) \cup {m}
      <4>1. DOMAIN old = 1 .. Len(old)
        BY <2>1
      <4>2. \A i \in 1 .. Len(old) + 1 : i \in 1 .. Len(old) \/ i = Len(old) + 1
        BY <2>1
      <4>3. 1 .. Len(old) \subseteq 1 .. Len(old) + 1 /\ Len(old) + 1 \in 1 .. Len(old) + 1
        BY <2>1
      <4>4. QED BY <2>6, <4>1, <4>2, <4>3 DEF Range
    <3>2. QED BY <2>2, <3>1 DEF Lines
  <2>8. \A t \in DOMAIN disk \ {0} : Lines(t)' = Lines(t)
    BY <2>2 DEF Lines
  <2>9. Len(born') = m
    BY <1>0, <2>2 DEF m
  <2>a. \A t \in DOMAIN disk : Lines(t) \subseteq 1 .. Len(born)
    BY DEF OrderInv, LinesWritten
  <2>b. Len(born) \in Nat /\ m = Len(born) + 1
    BY <1>0 DEF m
  <2>10. LinesWritten'
    <3> SUFFICES ASSUME NEW s \in DOMAIN disk', NEW i \in Lines(s)' PROVE i \in 1 .. m
      BY <2>9 DEF LinesWritten
    <3>1. i \in 1 .. Len(born) \/ i = m
      BY <2>2, <2>3, <2>7, <2>8, <2>a
    <3>2. QED BY <2>b, <3>1
  <2>11. ASSUME NEW s \in DOMAIN disk', NEW t \in DOMAIN disk', s < t,
                NEW i \in Lines(s)', NEW j \in Lines(t)'
         PROVE  j < i
    <3>1. s \in Nat /\ t \in Nat /\ 0 < t /\ t \in DOMAIN disk /\ t # 0
      BY <1>0, <2>2, <2>11
    <3>2. j \in Lines(t)
      BY <2>8, <3>1
    <3>3. CASE s = 0 /\ i \in Range(old)
      BY <2>5, <3>1, <3>2, <3>3
    <3>4. CASE s = 0 /\ i = m
      BY <2>a, <2>b, <3>1, <3>2, <3>4
    <3>5. CASE s # 0
      <4>1. s \in DOMAIN disk /\ i \in Lines(s)
        BY <2>2, <2>8, <3>5
      <4>2. QED BY <2>11, <3>1, <3>2, <4>1 DEF OrderInv, OrderKept
    <3>6. QED BY <2>7, <2>11, <3>3, <3>4, <3>5
  <2>12. ASSUME NEW s \in DOMAIN disk', NEW i \in DOMAIN disk'[s].lines, NEW j \in DOMAIN disk'[s].lines, i < j
         PROVE  disk'[s].lines[i] < disk'[s].lines[j]
    <3>1. CASE s = 0
      <4>1. i \in 1 .. Len(old) + 1 /\ j \in 1 .. Len(old) + 1
        BY <2>2, <2>6, <2>12, <3>1
      <4>2. i \in 1 .. Len(old)
        BY <2>1, <2>12, <4>1
      <4>3. CASE j \in 1 .. Len(old)
        BY <2>2, <2>4, <2>6, <2>12, <3>1, <4>2, <4>3
      <4>4. CASE j = Len(old) + 1
        <5>1. old[i] \in 1 .. Len(born)
          BY <2>1, <2>3, <4>2 DEF Range
        <5>2. disk'[s].lines[i] = old[i] /\ disk'[s].lines[j] = m
          BY <2>2, <2>6, <3>1, <4>2, <4>4
        <5>3. QED BY <2>b, <5>1, <5>2
      <4>5. QED BY <2>1, <4>1, <4>3, <4>4
    <3>2. CASE s # 0
      <4>1. s \in DOMAIN disk /\ disk'[s] = disk[s]
        BY <2>2, <3>2
      <4>2. QED BY <2>12, <4>1 DEF OrderInv, OrderKept
    <3>3. QED BY <3>1, <3>2
  <2>13. QED BY <2>10, <2>11, <2>12 DEF OrderInv, OrderKept
<1>8. ASSUME WriteLine
      PROVE  OrderInv'
  <2>1. CASE Written
    BY <1>7, <2>1
  <2>2. ASSUME DOMAIN disk' = DOMAIN disk \cup {0}, \A s \in DOMAIN disk : disk'[s] = disk[s],
               ~Exists(0) => disk'[0] = EmptyFile, born' = born
        PROVE  OrderInv'
    BY <1>2, <2>2 DEF Exists, EmptyFile
  <2>3. CASE UNCHANGED <<disk, born>>
    BY <1>1, <2>3
  <2>4. QED BY <1>8, <2>1, <2>2, <2>3, WriteEffect
<1>9. ASSUME Reopen \/ Restart
      PROVE  OrderInv'
  <2>1. born' = born /\ (disk' = disk \/ disk' = Created)
    BY <1>9 DEF Reopen, Restart
  <2>2. QED BY <1>1, <1>3, <2>1
<1>10. ASSUME (\E len \in LineLens : LogLine(len)) \/ UNCHANGED vars
       PROVE  disk' = disk /\ born' = born
  BY <1>10 DEF LogLine, vars
<1>11. QED BY <1>1, <1>4, <1>6, <1>8, <1>9, <1>10 DEF Next

-----------------------------------------------------------------------------
(* The bytes are counted right and the slots stay in range.                *)
LEMMA BoundStep ==
  ASSUME TypeInv, BoundInv, [Next]_vars
  PROVE  BoundInv'
<1> USE LogAssumption
<1> DEFINE Fits(file) == file.bytes <= MaxBytes \/ Len(file.lines) = 1
           Slots == 0 .. Survives - 1
<1>0. /\ count \in Nat \ {0} /\ DOMAIN disk \subseteq Nat /\ \A s \in DOMAIN disk : disk[s] \in File
      /\ written \in Nat /\ n \in Int /\ line \in Nat /\ born \in Seq(Nat)
      /\ damaged \in BOOLEAN /\ open \in BOOLEAN /\ (open => Exists(0))
  BY DEF TypeInv, TypeOK, File
<1>a. /\ ~damaged => \A s \in DOMAIN disk : Fits(disk[s])
      /\ DOMAIN disk \subseteq Slots
  BY <1>0 DEF BoundInv, DiskBounded, SlotsInRange
<1>b. ASSUME count' = count, CountedRight', ShiftBounded',
             ~damaged' => \A s \in DOMAIN disk' : Fits(disk'[s]),
             DOMAIN disk' \subseteq Slots
      PROVE  BoundInv'
  <2>1. Survives' = Survives /\ (count >= 2 => Survives = count)
    BY <1>b DEF Survives
  <2>2. QED BY <1>b, <2>1 DEF BoundInv, DiskBounded, SlotsInRange
<1>c. 0 \in Slots /\ 0 + 1 \in Slots /\ Fits(EmptyFile) /\ EmptyFile.bytes = 0 /\ Existing \in Nat
  BY <1>0 DEF EmptyFile, Existing, Exists, File, Survives
<1>d. /\ ~damaged /\ pc \in {"idle", "write"} => written >= Existing
      /\ ~damaged /\ pc = "reopen" => ~Exists(0)
      /\ ~damaged /\ pc = "write" => written + line <= MaxBytes \/ (Exists(0) => disk[0] = EmptyFile)
      /\ pc = "shift" => n <= count - 2
  BY DEF BoundInv, CountedRight, ShiftBounded
<1> HIDE DEF Fits, Slots
<1>1. ASSUME NEW len \in LineLens, LogLine(len)
      PROVE  BoundInv'
  <2>1. /\ pc = "idle" /\ line' = len /\ UNCHANGED <<count, disk, written, n, damaged>>
        /\ pc' = "remove" \/ (pc' = "write" /\ written + len <= MaxBytes)
    <3>1. CASE Exceeds(len)
      BY <1>1, <3>1 DEF LogLine
    <3>2. CASE ~Exceeds(len)
      <4>1. written + len <= MaxBytes
        BY <1>0, <3>2 DEF Exceeds
      <4>2. QED BY <1>1, <3>2, <4>1 DEF LogLine
    <3>3. QED BY <3>1, <3>2
  <2>2. Existing' = Existing
    BY <2>1 DEF Existing, Exists
  <2>3. CountedRight' /\ ShiftBounded'
    BY <1>d, <2>1, <2>2 DEF CountedRight, ShiftBounded
  <2>4. QED BY <1>a, <1>b, <2>1, <2>3
<1>2. ASSUME RemoveOldest
      PROVE  BoundInv'
  <2>1. pc' = "shift" /\ n' = count - 2 /\ count' = count
    BY <1>2 DEF RemoveOldest, HighestShifted
  <2>2. CountedRight' /\ ShiftBounded'
    BY <1>0, <2>1 DEF CountedRight, ShiftBounded
  <2>3. CASE disk' = Removed(Oldest) /\ damaged' = damaged
    BY <1>a, <1>b, <2>1, <2>2, <2>3, RemovedIs
  <2>4. CASE disk' = disk /\ (damaged' = damaged \/ damaged' = TRUE)
    BY <1>a, <1>b, <2>1, <2>2, <2>4
  <2>5. QED BY <1>2, <2>3, <2>4 DEF RemoveOldest, Attempt
<1>3. ASSUME NEW k \in Nat, k + 1 \in Slots, Attempt(Exists(k), Renamed(k, k + 1))
      PROVE  /\ ~damaged' => ~damaged /\ ~(k \in DOMAIN disk')
             /\ ~damaged' => \A s \in DOMAIN disk' : Fits(disk'[s])
             /\ DOMAIN disk' \subseteq Slots
  <2>1. CASE Exists(k) /\ disk' = Renamed(k, k + 1) /\ UNCHANGED damaged
    <3>1. /\ DOMAIN disk' = (DOMAIN disk \ {k}) \cup {k + 1} /\ disk'[k + 1] = disk[k]
          /\ \A s \in DOMAIN disk \ {k, k + 1} : disk'[s] = disk[s]
      BY <2>1, RenamedIs
    <3>2. k # k + 1
      BY <1>3
    <3>3. QED BY <1>3, <1>a, <2>1, <3>1, <3>2 DEF Exists
  <2>2. CASE ~Exists(k) /\ UNCHANGED <<disk, damaged>>
    BY <1>a, <2>2 DEF Exists
  <2>3. CASE UNCHANGED disk /\ damaged' = TRUE
    BY <1>a, <2>3
  <2>4. QED BY <1>3, <2>1, <2>2, <2>3 DEF Attempt
<1>4. ASSUME ShiftBackup
      PROVE  BoundInv'
  <2>1. /\ pc = "shift" /\ n \in Nat /\ n' = n - 1 /\ pc' = pc /\ count' = count
        /\ Attempt(Exists(n), Renamed(n, n + 1))
    BY <1>0, <1>4 DEF ShiftBackup
  <2>2. n + 1 \in Slots
    BY <1>0, <1>d, <2>1 DEF Slots, Survives
  <2>3. CountedRight' /\ ShiftBounded'
    BY <1>0, <1>d, <2>1 DEF CountedRight, ShiftBounded
  <2>4. QED BY <1>3, <1>b, <2>1, <2>2, <2>3
<1>5. ASSUME RenameCurrent
      PROVE  BoundInv'
  <2>1. pc' = "reopen" /\ count' = count /\ Attempt(Exists(0), Renamed(0, 0 + 1))
    BY <1>5 DEF RenameCurrent
  <2>2. 0 + 1 \in Slots
    BY <1>c
  <2>3. /\ ~damaged' => ~(0 \in DOMAIN disk')
        /\ ~damaged' => \A s \in DOMAIN disk' : Fits(disk'[s])
        /\ DOMAIN disk' \subseteq Slots
    BY <1>3, <2>1, <2>2
  <2>4. CountedRight' /\ ShiftBounded'
    BY <2>1, <2>3 DEF CountedRight, ShiftBounded, Exists
  <2>5. QED BY <1>b, <2>1, <2>3, <2>4
<1>6. ASSUME disk' = Created \/ disk' = disk
      PROVE  /\ Existing' = Existing
             /\ ~Exists(0) /\ Exists(0)' => disk'[0] = EmptyFile
             /\ ~damaged => \A s \in DOMAIN disk' : Fits(disk'[s])
             /\ DOMAIN disk' \subseteq Slots
  BY <1>6, <1>a, <1>c, CreatedIs DEF Existing, Exists
<1>7. ASSUME Reopen
      PROVE  BoundInv'
  <2>1. /\ pc = "reopen" /\ pc' = "write" /\ written' = 0 /\ UNCHANGED <<count, damaged>>
        /\ disk' = Created \/ disk' = disk
    BY <1>7 DEF Reopen
  <2>2. ~damaged' => ~Exists(0)
    BY <1>d, <2>1
  <2>3. ~damaged' => Existing' = 0 /\ (Exists(0)' => disk'[0] = EmptyFile)
    BY <1>6, <2>1, <2>2 DEF Existing
  <2>4. CountedRight' /\ ShiftBounded'
    BY <2>1, <2>3 DEF CountedRight, ShiftBounded
  <2>5. QED BY <1>6, <1>b, <2>1, <2>4
<1>8. ASSUME Restart
      PROVE  BoundInv'
  <2>1. /\ pc' = "idle" /\ written' = Existing /\ UNCHANGED <<count, damaged>>
        /\ disk' = Created \/ disk' = disk
    BY <1>8 DEF Restart
  <2>2. Existing \in Nat /\ Existing' = Existing
    BY <1>0, <1>c, <1>6, <2>1 DEF Existing, Exists, File
  <2>3. CountedRight' /\ ShiftBounded'
    BY <1>6, <2>1, <2>2 DEF CountedRight, ShiftBounded
  <2>4. QED BY <1>6, <1>b, <2>1, <2>3
<1>9. ASSUME WriteLine
      PROVE  BoundInv'
  <2>1. pc = "write" /\ pc' = "idle" /\ UNCHANGED <<count, damaged>>
    BY <1>9 DEF WriteLine
  <2>0. Existing \in Nat /\ line \in Nat /\ written \in Nat
    BY <1>0, <1>c DEF Existing, Exists, File
  <2>2. ~damaged => (IF open THEN written ELSE Existing) >= Existing
    BY <1>d, <2>0, <2>1
  <2>3. ShiftBounded'
    BY <2>1 DEF ShiftBounded
  <2>4. CASE Written /\ written' = (IF open THEN written ELSE Existing) + line
    <3> DEFINE old == IF Exists(0) THEN disk[0] ELSE EmptyFile
    <3>1. /\ DOMAIN disk' = DOMAIN disk \cup {0} /\ \A s \in DOMAIN disk \ {0} : disk'[s] = disk[s]
          /\ disk'[0] = [lines |-> Append(old.lines, Len(born) + 1), bytes |-> old.bytes + line]
      BY <2>4 DEF Written
    <3>2. old \in File /\ old.bytes = Existing
      BY <1>0, <1>c DEF Exists, Existing, File, EmptyFile
    <3>3. ~damaged => written + line <= MaxBytes \/ old = EmptyFile
      BY <1>d, <2>1
    <3> HIDE DEF old
    <3>4. /\ disk'[0].bytes = Existing + line
          /\ old = EmptyFile => Len(disk'[0].lines) = 1
      <4>1. old = EmptyFile => Len(Append(old.lines, Len(born) + 1)) = 1
        BY DEF EmptyFile
      <4>2. QED BY <3>1, <3>2, <4>1
    <3>5. ~damaged => Fits(disk'[0])
      BY <1>d, <2>0, <2>1, <3>3, <3>4 DEF Fits
    <3>6. CountedRight'
      <4>1. Existing' = Existing + line
        BY <3>1, <3>4 DEF Existing, Exists
      <4>2. QED BY <2>0, <2>1, <2>2, <2>4, <4>1 DEF CountedRight
    <3>7. QED BY <1>a, <1>b, <1>c, <2>1, <2>3, <3>1, <3>5, <3>6
  <2>5. ASSUME DOMAIN disk' = DOMAIN disk \cup {0}, \A s \in DOMAIN disk : disk'[s] = disk[s],
               ~Exists(0) => disk'[0] = EmptyFile, ~damaged => written' >= Existing
        PROVE  BoundInv'
    <3>1. Existing' = Existing
      BY <1>c, <2>5 DEF Existing, Exists
    <3>2. CountedRight'
      BY <2>1, <2>5, <3>1 DEF CountedRight
    <3>3. ~damaged' => \A s \in DOMAIN disk' : Fits(disk'[s])
      BY <1>a, <1>c, <2>1, <2>5 DEF Exists
    <3>4. QED BY <1>a, <1>b, <1>c, <2>1, <2>3, <2>5, <3>2, <3>3
  <2>6. CASE disk' = disk /\ written' = Existing
    <3>1. CountedRight'
      <4>1. Existing' = Existing
        BY <2>6 DEF Existing, Exists
      <4>2. QED BY <2>0, <2>1, <2>6, <4>1 DEF CountedRight
    <3>2. QED BY <1>a, <1>b, <2>1, <2>3, <2>6, <3>1
  <2>7. LET base == IF open THEN written ELSE Existing
        IN  written' \in {base, base + line} /\ ~damaged => written' >= Existing
    BY <2>0, <2>2
  <2>8. QED BY <1>9, <2>4, <2>5, <2>6, <2>7, WriteEffect
<1>10. CASE UNCHANGED vars
  BY <1>10 DEF vars, BoundInv, CountedRight, ShiftBounded, DiskBounded, SlotsInRange, Survives, Existing, Exists
<1>11. QED BY <1>1, <1>2, <1>4, <1>5, <1>7, <1>8, <1>9, <1>10 DEF Next

-----------------------------------------------------------------------------
(* A file is moved up once in every rotation, and only after those above.  *)
LEMMA AgeStep ==
  ASSUME TypeInv, LinesWritten, BoundInv, AgeInv, SlotFree, [Next]_vars
  PROVE  AgeInv' /\ SlotFree'
<1> USE LogAssumption
<1>0. /\ count \in Nat \ {0} /\ DOMAIN disk \subseteq Nat /\ \A s \in DOMAIN disk : disk[s] \in File
      /\ n \in Int /\ born \in Seq(Nat) /\ turn \in Nat /\ damaged \in BOOLEAN
  BY DEF TypeInv, TypeOK, File
<1>a. \A s \in DOMAIN disk : \A i \in Lines(s) : i \in 1 .. Len(born) /\ born[i] \in Nat
  BY <1>0 DEF LinesWritten
<1>b. /\ \A i \in DOMAIN born : born[i] <= turn
      /\ ~damaged => \A s \in DOMAIN disk : Outlived(s, s)
      /\ ~damaged /\ pc = "remove" => \A s \in DOMAIN disk : Outlived(s, s + 1)
      /\ ~damaged /\ pc = "shift" => \A s \in DOMAIN disk : s <= n \/ count = 1 => Outlived(s, s + 1)
      /\ ~damaged /\ pc = "shift" /\ count >= 2 => n >= 0 /\ ~Exists(n + 1)
      /\ pc = "shift" => n <= count - 2
  BY DEF AgeInv, SlotFree, BoundInv, ShiftBounded
<1>c. ASSUME UNCHANGED <<count, turn, born, damaged>>, pc' \notin {"remove", "shift"},
             ~damaged => \A s \in DOMAIN disk' : \A i \in Range(disk'[s].lines) : turn - born[i] >= s
      PROVE  AgeInv' /\ SlotFree'
  BY <1>b, <1>c DEF AgeInv, SlotFree, Outlived, Lines
<1>d. ASSUME disk' = Created \/ disk' = disk
      PROVE  ~damaged => \A s \in DOMAIN disk' : \A i \in Range(disk'[s].lines) : turn - born[i] >= s
  BY <1>b, <1>d, CreatedIs DEF Outlived, Lines, Range, Exists, EmptyFile
<1>e. ASSUME damaged', UNCHANGED <<born, turn>>
      PROVE  AgeInv' /\ SlotFree'
  BY <1>b, <1>e DEF AgeInv, SlotFree
<1>1. ASSUME NEW len \in LineLens, LogLine(len)
      PROVE  AgeInv' /\ SlotFree'
  <2>1. UNCHANGED <<count, disk, n, born, damaged>>
    BY <1>1 DEF LogLine
  <2>2. CASE Exceeds(len)
    <3>1. turn' = turn + 1 /\ pc' = "remove"
      BY <1>1, <2>2 DEF LogLine
    <3>2. \A i \in DOMAIN born : born[i] \in Nat
      BY <1>0
    <3>3. \A i \in DOMAIN born' : born'[i] <= turn'
      BY <1>0, <1>b, <2>1, <3>1, <3>2
    <3>4. ~damaged => \A s \in DOMAIN disk : \A i \in Lines(s) : turn + 1 - born[i] >= s + 1
      <4> SUFFICES ASSUME ~damaged, NEW s \in DOMAIN disk, NEW i \in Lines(s)
                   PROVE  turn + 1 - born[i] >= s + 1
        OBVIOUS
      <4>1. turn - born[i] >= s
        BY <1>b DEF Outlived
      <4>2. s \in Nat /\ born[i] \in Nat
        BY <1>0, <1>a
      <4>3. QED BY <1>0, <4>1, <4>2
    <3>5. ~damaged => \A s \in DOMAIN disk : \A i \in Lines(s) : turn + 1 - born[i] >= s
      <4> SUFFICES ASSUME ~damaged, NEW s \in DOMAIN disk, NEW i \in Lines(s)
                   PROVE  turn + 1 - born[i] >= s
        OBVIOUS
      <4>1. turn + 1 - born[i] >= s + 1 /\ s \in Nat /\ born[i] \in Nat
        BY <1>0, <1>a, <3>4
      <4>2. QED BY <1>0, <4>1
    <3>6. ASSUME ~damaged, NEW s \in DOMAIN disk' PROVE Outlived(s, s)' /\ Outlived(s, s + 1)'
      <4>1. s \in DOMAIN disk /\ disk' = disk /\ turn' = turn + 1 /\ born' = born
        BY <2>1, <3>1
      <4>2. \A i \in Range(disk[s].lines) : turn + 1 - born[i] >= s /\ turn + 1 - born[i] >= s + 1
        BY <3>4, <3>5, <3>6, <4>1 DEF Lines
      <4>3. \A i \in Range(disk'[s].lines) : turn' - born'[i] >= s /\ turn' - born'[i] >= s + 1
        <5> SUFFICES ASSUME NEW i \in Range(disk'[s].lines)
                     PROVE  turn' - born'[i] >= s /\ turn' - born'[i] >= s + 1
          OBVIOUS
        <5>1. i \in Range(disk[s].lines)
          BY ONLY <4>1
        <5>2. turn + 1 - born[i] >= s /\ turn + 1 - born[i] >= s + 1
          BY ONLY <4>2, <5>1
        <5>3. turn \in Nat /\ born[i] \in Nat /\ s \in Nat
          BY <1>0, <1>a, <4>1, <5>1 DEF Lines
        <5>4. turn' = turn + 1 /\ born'[i] = born[i]
          BY <4>1
        <5>5. QED BY <5>2, <5>3, <5>4
      <4>4. QED BY ONLY <4>3 DEF Outlived, Lines
    <3>7. AgeInv'
      BY <2>1, <3>3, <3>6 DEF AgeInv
    <3>8. QED BY <3>1, <3>7 DEF SlotFree
  <2>3. CASE ~Exceeds(len)
    <3>1. turn' = turn /\ pc' = "write"
      BY <1>1, <2>3 DEF LogLine
    <3>2. QED BY <1>c, <1>d, <2>1, <3>1
  <2>4. QED BY <2>2, <2>3
<1>2. ASSUME RemoveOldest
      PROVE  AgeInv' /\ SlotFree'
  <2>1. pc = "remove" /\ pc' = "shift" /\ n' = count - 2 /\ UNCHANGED <<count, born, turn>>
    BY <1>2 DEF RemoveOldest, HighestShifted
  <2>2. ASSUME ~damaged, damaged' = damaged, DOMAIN disk' \subseteq DOMAIN disk,
               \A s \in DOMAIN disk' : disk'[s] = disk[s],
               count >= 2 => count - 1 \notin DOMAIN disk'
        PROVE  AgeInv' /\ SlotFree'
    <3>1. \A s \in DOMAIN disk' : Outlived(s, s)' /\ Outlived(s, s + 1)'
      BY <1>b, <2>1, <2>2 DEF Outlived, Lines
    <3>2. count >= 2 => n' >= 0 /\ n' + 1 = count - 1
      BY <1>0, <2>1
    <3>3. QED BY <1>b, <2>1, <2>2, <3>1, <3>2 DEF AgeInv, SlotFree, Exists
  <2>3. CASE damaged'
    BY <1>e, <2>1, <2>3
  <2>4. CASE ~damaged'
    <3>1. /\ ~damaged /\ damaged' = damaged
          /\ \/ disk' = Removed(Oldest)
             \/ ~(Oldest > 0 /\ Exists(Oldest)) /\ disk' = disk
      BY <1>0, <1>2, <2>4 DEF RemoveOldest, Attempt
    <3>2. CASE disk' = Removed(Oldest)
      BY <2>2, <3>1, <3>2, RemovedIs DEF Oldest
    <3>3. CASE ~(Oldest > 0 /\ Exists(Oldest)) /\ disk' = disk
      <4>1. count >= 2 => count - 1 \notin DOMAIN disk'
        BY <1>0, <3>3 DEF Oldest, Exists
      <4>2. QED BY <2>2, <3>1, <3>3, <4>1
    <3>4. QED BY <3>1, <3>2, <3>3
  <2>5. QED BY <2>3, <2>4
<1>3. ASSUME ~damaged, ~damaged', NEW k \in Nat, Attempt(Exists(k), Renamed(k, k + 1)), UNCHANGED <<born, turn>>,
             k \in DOMAIN disk => Outlived(k, k + 1)
      PROVE  /\ damaged' = damaged /\ k \notin DOMAIN disk'
             /\ DOMAIN disk' \subseteq DOMAIN disk \cup {k + 1}
             /\ \A s \in DOMAIN disk' : Outlived(s, s)'
             /\ \A s \in DOMAIN disk' \ {k + 1} : disk'[s] = disk[s]
  <2>1. CASE Exists(k) /\ disk' = Renamed(k, k + 1) /\ damaged' = damaged
    <3>1. /\ DOMAIN disk' = (DOMAIN disk \ {k}) \cup {k + 1} /\ disk'[k + 1] = disk[k]
          /\ \A s \in DOMAIN disk \ {k, k + 1} : disk'[s] = disk[s]
      BY <2>1, RenamedIs
    <3>2. k # k + 1
      BY <1>3
    <3>3. \A s \in DOMAIN disk' \ {k + 1} : s \in DOMAIN disk /\ disk'[s] = disk[s]
      BY <3>1
    <3>4. \A s \in DOMAIN disk' \ {k + 1} : Outlived(s, s)'
      BY <1>3, <1>b, <3>3 DEF Outlived, Lines
    <3>5. Outlived(k + 1, k + 1)'
      BY <1>3, <2>1, <3>1 DEF Outlived, Lines, Exists
    <3>6. QED BY <2>1, <3>1, <3>2, <3>3, <3>4, <3>5
  <2>2. CASE ~Exists(k) /\ UNCHANGED <<disk, damaged>>
    BY <1>3, <1>b, <2>2 DEF Outlived, Lines, Exists
  <2>3. QED BY <1>3, <2>1, <2>2 DEF Attempt
<1>4. ASSUME ShiftBackup
      PROVE  AgeInv' /\ SlotFree'
  <2>1. /\ pc = "shift" /\ pc' = "shift" /\ n \in Nat /\ n' = n - 1 /\ n >= 1
        /\ Attempt(Exists(n), Renamed(n, n + 1)) /\ UNCHANGED <<count, born, turn>>
    BY <1>0, <1>4 DEF ShiftBackup
  <2>2. CASE damaged'
    BY <1>e, <2>1, <2>2
  <2>3. CASE ~damaged'
    <3>1. ~damaged
      BY <1>0, <2>1, <2>3 DEF Attempt
    <3>2. n \in DOMAIN disk => Outlived(n, n + 1)
      BY <1>b, <2>1, <3>1
    <3>3. /\ damaged' = damaged /\ n \notin DOMAIN disk'
          /\ DOMAIN disk' \subseteq DOMAIN disk \cup {n + 1}
          /\ \A s \in DOMAIN disk' : Outlived(s, s)'
          /\ \A s \in DOMAIN disk' \ {n + 1} : disk'[s] = disk[s]
      BY <1>3, <2>1, <2>3, <3>1, <3>2
    <3>4. count >= 2 /\ count # 1
      BY <1>0, <1>b, <2>1
    <3>5. \A s \in DOMAIN disk' : s <= n' => Outlived(s, s + 1)'
      <4> SUFFICES ASSUME NEW s \in DOMAIN disk', s <= n' PROVE Outlived(s, s + 1)'
        OBVIOUS
      <4>1. s \in Nat /\ s # n + 1
        BY <1>0, <2>1, <3>3
      <4>2. s \in DOMAIN disk /\ disk'[s] = disk[s] /\ s <= n
        BY <1>0, <2>1, <3>3, <4>1
      <4>3. Outlived(s, s + 1)
        BY <1>b, <2>1, <3>1, <4>2
      <4>4. QED BY <2>1, <4>2, <4>3 DEF Outlived, Lines
    <3>6. n' >= 0 /\ n' + 1 = n
      BY <2>1
    <3>7. AgeInv'
      BY <1>b, <2>1, <3>3, <3>4, <3>5 DEF AgeInv
    <3>8. QED BY <3>3, <3>6, <3>7 DEF SlotFree, Exists
  <2>4. QED BY <2>2, <2>3
<1>5. ASSUME RenameCurrent
      PROVE  AgeInv' /\ SlotFree'
  <2>1. /\ pc = "shift" /\ pc' = "reopen" /\ n < 1
        /\ Attempt(Exists(0), Renamed(0, 0 + 1)) /\ UNCHANGED <<count, born, turn>>
    BY <1>5 DEF RenameCurrent
  <2>2. CASE damaged'
    BY <1>e, <2>1, <2>2
  <2>3. CASE ~damaged'
    <3>1. ~damaged
      BY <1>0, <2>1, <2>3 DEF Attempt
    <3>2. 0 <= n \/ count = 1
      BY <1>0, <1>b, <2>1, <3>1
    <3>3. 0 \in DOMAIN disk => Outlived(0, 0 + 1)
      BY <1>b, <2>1, <3>1, <3>2
    <3>4. damaged' = damaged /\ \A s \in DOMAIN disk' : Outlived(s, s)'
      BY <1>3, <2>1, <2>3, <3>1, <3>3
    <3>5. QED BY <1>b, <2>1, <3>4 DEF AgeInv, SlotFree
  <2>4. QED BY <2>2, <2>3
<1>6. ASSUME Reopen \/ Restart
      PROVE  AgeInv' /\ SlotFree'
  <2>1. /\ pc' \notin {"remove", "shift"} /\ UNCHANGED <<count, born, turn, damaged>>
        /\ disk' = Created \/ disk' = disk
    BY <1>6 DEF Reopen, Restart
  <2>2. QED BY <1>c, <1>d, <2>1
<1>7. ASSUME WriteLine
      PROVE  AgeInv' /\ SlotFree'
  <2>1. pc' = "idle" /\ UNCHANGED <<count, turn, damaged>>
    BY <1>7 DEF WriteLine
  <2>2. CASE Written
    <3> DEFINE old == IF Exists(0) THEN disk[0] ELSE EmptyFile
               m == Len(born) + 1
    <3>1. /\ DOMAIN disk' = DOMAIN disk \cup {0} /\ \A s \in DOMAIN disk \ {0} : disk'[s] = disk[s]
          /\ disk'[0].lines = Append(old.lines, m) /\ born' = Append(born, turn)
      BY <2>2 DEF Written
    <3>2. old.lines \in Seq(Nat \ {0}) /\ Range(old.lines) \subseteq 1 .. Len(born)
      BY <1>0, <1>a DEF Exists, File, EmptyFile, Lines, Range
    <3>a. ~damaged => \A i \in Range(old.lines) : turn - born[i] >= 0
      BY <1>b DEF Exists, EmptyFile, Outlived, Lines, Range
    <3>3. /\ Len(born') = m /\ m \in Nat \ {0} /\ born'[m] = turn
          /\ \A i \in 1 .. Len(born) : born'[i] = born[i]
          /\ DOMAIN born = 1 .. Len(born) /\ DOMAIN born' = 1 .. m
      BY <1>0, <3>1, AppendProperties
    <3> HIDE DEF old
    <3>4. \A i \in Range(disk'[0].lines) : i \in Range(old.lines) \/ i = m
      <4> DEFINE q == old.lines
      <4>1. q \in Seq(Nat \ {0}) /\ m \in Nat \ {0} /\ DOMAIN q = 1 .. Len(q) /\ Len(q) \in Nat
        BY <3>2, <3>3
      <4> HIDE DEF q, m
      <4>2. /\ DOMAIN Append(q, m) = 1 .. Len(q) + 1
            /\ \A i \in 1 .. Len(q) : Append(q, m)[i] = q[i]
            /\ Append(q, m)[Len(q) + 1] = m
        BY <4>1, AppendProperties
      <4>3. \A i \in 1 .. Len(q) + 1 : i \in 1 .. Len(q) \/ i = Len(q) + 1
        BY <4>1
      <4>4. QED BY <3>1, <4>1, <4>2, <4>3 DEF Range, q
    <3>b. \A i \in 1 .. m : i \in 1 .. Len(born) \/ i = m
      BY <1>0
    <3> HIDE DEF m
    <3>5. \A i \in DOMAIN born' : born'[i] <= turn
      BY <1>0, <1>b, <3>3, <3>b
    <3>6. ~damaged => \A s \in DOMAIN disk' : \A i \in Range(disk'[s].lines) : turn - born'[i] >= s
      <4> SUFFICES ASSUME ~damaged, NEW s \in DOMAIN disk', NEW i \in Range(disk'[s].lines)
                   PROVE  turn - born'[i] >= s
        OBVIOUS
      <4>1. CASE s = 0 /\ i = m
        BY <1>0, <3>3, <4>1
      <4>2. CASE s = 0 /\ i \in Range(old.lines)
        BY <3>2, <3>3, <3>a, <4>2
      <4>3. CASE s # 0
        <5>1. s \in DOMAIN disk /\ i \in Lines(s)
          BY <3>1, <4>3 DEF Lines
        <5>2. turn - born[i] >= s /\ i \in 1 .. Len(born)
          BY <1>a, <1>b, <5>1 DEF Outlived
        <5>3. QED BY <3>3, <5>2
      <4>4. QED BY <3>4, <4>1, <4>2, <4>3
    <3>7. QED BY <2>1, <3>5, <3>6 DEF AgeInv, SlotFree, Outlived, Lines
  <2>3. ASSUME DOMAIN disk' = DOMAIN disk \cup {0}, \A s \in DOMAIN disk : disk'[s] = disk[s],
               ~Exists(0) => disk'[0] = EmptyFile, born' = born
        PROVE  AgeInv' /\ SlotFree'
    <3>1. ~damaged => \A s \in DOMAIN disk' : \A i \in Range(disk'[s].lines) : turn - born[i] >= s
      BY <1>b, <2>3 DEF Outlived, Lines, Range, Exists, EmptyFile
    <3>2. QED BY <1>c, <2>1, <2>3, <3>1
  <2>4. CASE UNCHANGED <<disk, born>>
    BY <1>c, <1>d, <2>1, <2>4
  <2>5. QED BY <1>7, <2>2, <2>3, <2>4, WriteEffect
<1>8. CASE UNCHANGED vars
  BY <1>8 DEF vars, AgeInv, SlotFree, Outlived, Lines, Exists
<1>9. QED BY <1>1, <1>2, <1>4, <1>5, <1>6, <1>7, <1>8 DEF Next

-----------------------------------------------------------------------------
(* All the invariants together.                                            *)
THEOREM LogInvariant == Spec => []LogInv
<1>1. Init => LogInv
  <2> SUFFICES ASSUME Init PROVE LogInv
    OBVIOUS
  <2>1. /\ DOMAIN disk = {0} /\ disk[0] = EmptyFile /\ Range(EmptyFile.lines) = {} /\ EmptyFile \in File
        /\ EmptyFile.bytes = 0 /\ EmptyFile.lines = <<>> /\ count \in Nat \ {0}
    BY LogAssumption DEF Init, EmptyFile, Range, File
  <2>2. Lines(0) = {}
    BY <2>1 DEF Lines
  <2>3. TypeInv
    BY <2>1 DEF Init, TypeInv, TypeOK, File, Exists
  <2>4. OrderInv
    BY <2>1, <2>2 DEF OrderInv, LinesWritten, OrderKept
  <2>5. BoundInv
    BY <2>1, LogAssumption DEF Init, BoundInv, CountedRight, ShiftBounded, SlotsInRange, Survives, DiskBounded, Existing, Exists
  <2>6. AgeInv /\ SlotFree
    BY <2>1, <2>2 DEF Init, AgeInv, SlotFree, Outlived
  <2>7. QED BY <2>3, <2>4, <2>5, <2>6 DEF LogInv
<1>2. LogInv /\ [Next]_vars => LogInv'
  BY TypeStep, OrderStep, BoundStep, AgeStep DEF LogInv, OrderInv
<1>3. QED BY <1>1, <1>2, PTL DEF Spec

(* A reader who goes through the backups and the log finds the lines in    *)
(* the order they were logged, each once, whatever failed or crashed.      *)
THEOREM OrderKeptAlways == Spec => []OrderKept
<1>1. LogInv => OrderKept
  BY DEF LogInv, OrderInv
<1>2. QED BY <1>1, LogInvariant, PTL

(* The disk the log takes is bounded, in bytes until a file operation      *)
(* fails and in files from two on.                                         *)
THEOREM DiskBoundedAlways == Spec => []DiskBounded
<1>1. LogInv => DiskBounded
  BY DEF LogInv, BoundInv
<1>2. QED BY <1>1, LogInvariant, PTL

-----------------------------------------------------------------------------
(* Refinement: every step of the files is a step of RollingLog or leaves   *)
(* what can be read alone.                                                 *)

(* What is kept without slot k.                                            *)
KeptBut(k) == UNION {Lines(s) : s \in DOMAIN disk \ {k}}

LEMMA KeptAfter ==
  /\ \A k : disk' = Removed(k) => Kept' = KeptBut(k)
  /\ \A k \in Nat : Exists(k) /\ disk' = Renamed(k, k + 1) => Kept' = KeptBut(k + 1)
  /\ disk' = Created \/ disk' = disk => Kept' = Kept
<1>1. ASSUME NEW k, disk' = Removed(k) PROVE Kept' = KeptBut(k)
  BY <1>1, RemovedIs DEF Kept, KeptBut, Lines
<1>2. ASSUME NEW k \in Nat, Exists(k), disk' = Renamed(k, k + 1) PROVE Kept' = KeptBut(k + 1)
  <2>1. /\ DOMAIN disk' = (DOMAIN disk \ {k}) \cup {k + 1} /\ disk'[k + 1] = disk[k]
        /\ \A s \in DOMAIN disk \ {k, k + 1} : disk'[s] = disk[s]
    BY <1>2, RenamedIs
  <2>2. k # k + 1 /\ k \in DOMAIN disk
    BY <1>2 DEF Exists
  <2>3. ASSUME NEW i \in Kept' PROVE i \in KeptBut(k + 1)
    <3>1. PICK s \in DOMAIN disk' : i \in Range(disk'[s].lines)
      BY DEF Kept, Lines
    <3>2. CASE s = k + 1
      <4>1. i \in Lines(k) /\ k \in DOMAIN disk \ {k + 1}
        BY <2>1, <2>2, <3>1, <3>2 DEF Lines
      <4>2. QED BY <4>1 DEF KeptBut
    <3>3. CASE s # k + 1
      <4>1. i \in Lines(s) /\ s \in DOMAIN disk \ {k + 1}
        BY <2>1, <3>1, <3>3 DEF Lines
      <4>2. QED BY <4>1 DEF KeptBut
    <3>4. QED BY <3>2, <3>3
  <2>4. ASSUME NEW i \in KeptBut(k + 1) PROVE i \in Kept'
    <3>1. PICK s \in DOMAIN disk \ {k + 1} : i \in Lines(s)
      BY DEF KeptBut
    <3>2. CASE s = k
      <4>1. k + 1 \in DOMAIN disk' /\ i \in Range(disk'[k + 1].lines)
        BY <2>1, <3>1, <3>2 DEF Lines
      <4>2. QED BY <4>1 DEF Kept, Lines
    <3>3. CASE s # k
      <4>1. s \in DOMAIN disk' /\ i \in Range(disk'[s].lines)
        BY <2>1, <3>1, <3>3 DEF Lines
      <4>2. QED BY <4>1 DEF Kept, Lines
    <3>4. QED BY <3>2, <3>3
  <2>5. QED BY <2>3, <2>4
<1>3. ASSUME DOMAIN disk' = DOMAIN disk \cup {0}, \A s \in DOMAIN disk : disk'[s] = disk[s],
             ~Exists(0) => disk'[0] = EmptyFile
      PROVE  Kept' = Kept
  BY <1>3 DEF Kept, Lines, Range, Exists, EmptyFile
<1>4. disk' = Created => Kept' = Kept
  BY <1>3, CreatedIs
<1>5. disk' = disk => Kept' = Kept
  BY DEF Kept, Lines
<1>6. QED BY <1>1, <1>2, <1>4, <1>5

(* Dropping the highest slot forgets the oldest lines, which have outlived *)
(* their rotations.                                                        *)
LEMMA DropHighest ==
  ASSUME TypeInv, OrderInv, NEW k \in DOMAIN disk, \A s \in DOMAIN disk : s <= k,
         Outlived(k, Survives), Kept' = KeptBut(k), UNCHANGED <<count, born, turn, damaged>>
  PROVE  \/ UNCHANGED Abstract!vars
         \/ \E first \in 1 .. Len(born) + 1 : Abstract!Forget(first)
<1> DEFINE q == disk[k].lines
<1>1. /\ q \in Seq(Nat \ {0}) /\ Len(q) \in Nat /\ DOMAIN q = 1 .. Len(q)
      /\ DOMAIN disk \subseteq Nat /\ born \in Seq(Nat) /\ Len(born) \in Nat
  BY DEF TypeInv, TypeOK
<1>2. /\ \A s \in DOMAIN disk : Lines(s) \subseteq 1 .. Len(born)
      /\ \A s, t \in DOMAIN disk : s < t => \A i \in Lines(s), j \in Lines(t) : j < i
      /\ \A i, j \in 1 .. Len(q) : i < j => q[i] < q[j]
      /\ Lines(k) = {q[i] : i \in 1 .. Len(q)}
  BY <1>1 DEF OrderInv, LinesWritten, OrderKept, Lines, Range
<1>3. Kept = Lines(k) \cup KeptBut(k)
  BY DEF Kept, KeptBut
<1>4. UNCHANGED <<Survives, born, turn, damaged>>
  BY DEF Survives
<1> HIDE DEF q
<1>5. CASE Len(q) = 0
  <2>1. Lines(k) = {}
    BY <1>2, <1>5
  <2>2. Kept' = Kept
    BY <1>3, <2>1
  <2>3. QED BY <1>4, <2>2 DEF Abstract!vars
<1>6. CASE Len(q) # 0
  <2> DEFINE last == q[Len(q)]
  <2>1. last \in Lines(k) /\ last \in 1 .. Len(born) /\ \A i \in Lines(k) : i <= last
    <3>1. Len(q) \in 1 .. Len(q)
      BY <1>1, <1>6
    <3>2. last \in Lines(k) /\ last \in 1 .. Len(born)
      BY <1>2, <3>1
    <3>3. ASSUME NEW i \in 1 .. Len(q) PROVE q[i] <= last
      <4>a. i \in Int /\ Len(q) \in Int /\ i <= Len(q)
        BY <1>1
      <4>1. i = Len(q) \/ i < Len(q)
        BY <4>a
      <4>2. q[i] \in Nat /\ last \in Nat
        BY <1>1, <3>1
      <4>3. QED BY <1>2, <3>1, <4>1, <4>2
    <3>4. QED BY <1>2, <3>2, <3>3
  <2>2. \A i \in KeptBut(k) : i \in 1 .. Len(born) /\ last < i
    <3> SUFFICES ASSUME NEW i \in KeptBut(k) PROVE i \in 1 .. Len(born) /\ last < i
      OBVIOUS
    <3>1. PICK s \in DOMAIN disk \ {k} : i \in Lines(s)
      BY DEF KeptBut
    <3>2. s < k
      BY <1>1
    <3>3. QED BY <1>2, <2>1, <3>1, <3>2
  <2>3. \A i \in Lines(k) : i \in 1 .. Len(born)
    BY <1>2
  <2>4. last + 1 \in 1 .. Len(born) + 1
    BY <1>1, <2>1
  <2> HIDE DEF last
  <2>a. last \in Int /\ \A i \in Kept : i \in Int
    BY <1>1, <1>3, <2>1, <2>2, <2>3
  <2>b. \A i \in Kept : i >= last + 1 <=> i \in KeptBut(k)
    <3>1. \A i \in Lines(k) : ~(i >= last + 1)
      BY <1>3, <2>1, <2>a
    <3>2. \A i \in KeptBut(k) : i >= last + 1
      BY <1>3, <2>2, <2>a
    <3>3. QED BY <1>3, <3>1, <3>2
  <2>5. Kept' = {i \in Kept : i >= last + 1}
    BY <1>3, <2>b
  <2>6. \A i \in Kept \ Kept' : turn - born[i] >= Survives
    BY <1>3 DEF Outlived
  <2>7. Abstract!Forget(last + 1)
    BY <1>4, <2>5, <2>6 DEF Abstract!Forget
  <2>8. QED BY <2>4, <2>7
<1>7. QED BY <1>5, <1>6

LEMMA RefineStep ==
  ASSUME LogInv, [Next]_vars
  PROVE  [Abstract!Next]_(Abstract!vars)
<1>0. /\ count \in Nat \ {0} /\ DOMAIN disk \subseteq Nat /\ n \in Int /\ damaged \in BOOLEAN
      /\ \A s \in DOMAIN disk : disk[s] \in File
  BY DEF LogInv, TypeInv, TypeOK, File
<1>a. TypeInv /\ OrderInv
  BY DEF LogInv
<1>b. /\ ~damaged /\ pc = "remove" => \A s \in DOMAIN disk : Outlived(s, s + 1)
      /\ ~damaged /\ pc = "shift" => \A s \in DOMAIN disk : s <= n \/ count = 1 => Outlived(s, s + 1)
      /\ ~damaged /\ pc = "shift" /\ count >= 2 => n >= 0 /\ ~Exists(n + 1)
      /\ pc = "shift" => n <= count - 2
      /\ DOMAIN disk \subseteq 0 .. Survives - 1
  BY DEF LogInv, AgeInv, SlotFree, BoundInv, ShiftBounded, SlotsInRange
<1>c. ASSUME UNCHANGED <<count, born, turn, damaged>>, Kept' = Kept
      PROVE  [Abstract!Next]_(Abstract!vars)
  BY <1>c DEF Abstract!vars, Survives
<1>d. ASSUME UNCHANGED <<count, born, turn>>, damaged' = TRUE, Kept' \subseteq Kept
      PROVE  [Abstract!Next]_(Abstract!vars)
  <2>1. Abstract!Lose(Kept')
    BY <1>d DEF Abstract!Lose, Survives
  <2>2. QED BY <1>d, <2>1 DEF Abstract!Next
<1>e. \A k : KeptBut(k) \subseteq Kept
  BY DEF KeptBut, Kept
<1>1. ASSUME NEW len \in LineLens, LogLine(len)
      PROVE  [Abstract!Next]_(Abstract!vars)
  <2>1. UNCHANGED <<count, born, damaged, disk>> /\ Kept' = Kept
    BY <1>1, KeptAfter DEF LogLine
  <2>2. CASE turn' = turn
    BY <1>c, <2>1, <2>2
  <2>3. CASE turn' = turn + 1
    BY <2>1, <2>3 DEF Abstract!Next, Abstract!Turn, Survives
  <2>4. QED BY <1>1, <2>2, <2>3 DEF LogLine
<1>2. ASSUME RemoveOldest
      PROVE  [Abstract!Next]_(Abstract!vars)
  <2>1. pc = "remove" /\ UNCHANGED <<count, born, turn>> /\ Attempt(Oldest > 0 /\ Exists(Oldest), Removed(Oldest))
    BY <1>2 DEF RemoveOldest
  <2>2. CASE Oldest > 0 /\ Exists(Oldest) /\ disk' = Removed(Oldest) /\ damaged' = damaged
    <3>1. Kept' = KeptBut(Oldest)
      BY <2>2, KeptAfter
    <3>2. CASE damaged
      <4>1. damaged' = TRUE
        BY <1>0, <2>2, <3>2
      <4>2. QED BY <1>d, <1>e, <2>1, <3>1, <4>1
    <3>3. CASE ~damaged
      <4>1. Survives = count /\ Oldest \in DOMAIN disk /\ Oldest + 1 = Survives
        BY <1>0, <2>2 DEF Survives, Oldest, Exists
      <4>2. \A s \in DOMAIN disk : s <= Oldest
        BY <1>0, <1>b, <4>1 DEF Oldest
      <4>3. Outlived(Oldest, Survives)
        BY <1>b, <2>1, <3>3, <4>1
      <4>4. QED BY <1>a, <2>1, <2>2, <3>1, <4>1, <4>2, <4>3, DropHighest DEF Abstract!Next
    <3>4. QED BY <3>2, <3>3
  <2>3. CASE disk' = disk /\ damaged' = damaged
    BY <1>c, <2>1, <2>3, KeptAfter
  <2>4. CASE disk' = disk /\ damaged' = TRUE
    BY <1>d, <2>1, <2>4, KeptAfter
  <2>5. QED BY <2>1, <2>2, <2>3, <2>4 DEF Attempt
<1>3. ASSUME NEW k \in Nat, UNCHANGED <<count, born, turn>>, Attempt(Exists(k), Renamed(k, k + 1)),
             ~damaged /\ Exists(k + 1) /\ Exists(k) => (\A s \in DOMAIN disk : s <= k + 1) /\ Outlived(k + 1, Survives)
      PROVE  [Abstract!Next]_(Abstract!vars)
  <2>1. CASE Exists(k) /\ disk' = Renamed(k, k + 1) /\ damaged' = damaged
    <3>1. Kept' = KeptBut(k + 1)
      BY <2>1, KeptAfter
    <3>2. CASE damaged
      <4>1. damaged' = TRUE
        BY <1>0, <2>1, <3>2
      <4>2. QED BY <1>3, <1>d, <1>e, <3>1, <4>1
    <3>3. CASE ~damaged /\ Exists(k + 1)
      <4>1. k + 1 \in DOMAIN disk /\ (\A s \in DOMAIN disk : s <= k + 1) /\ Outlived(k + 1, Survives)
        BY <1>3, <2>1, <3>3 DEF Exists
      <4>2. QED BY <1>3, <1>a, <2>1, <3>1, <4>1, DropHighest DEF Abstract!Next
    <3>4. CASE ~Exists(k + 1)
      <4>1. KeptBut(k + 1) = Kept
        BY <3>4 DEF KeptBut, Kept, Exists
      <4>2. QED BY <1>3, <1>c, <2>1, <3>1, <4>1
    <3>5. QED BY <3>2, <3>3, <3>4
  <2>2. CASE disk' = disk /\ damaged' = damaged
    BY <1>3, <1>c, <2>2, KeptAfter
  <2>3. CASE disk' = disk /\ damaged' = TRUE
    BY <1>3, <1>d, <2>3, KeptAfter
  <2>4. QED BY <1>3, <2>1, <2>2, <2>3 DEF Attempt
<1>4. ASSUME ShiftBackup
      PROVE  [Abstract!Next]_(Abstract!vars)
  <2>1. /\ pc = "shift" /\ n \in Nat /\ n >= 1 /\ UNCHANGED <<count, born, turn>>
        /\ Attempt(Exists(n), Renamed(n, n + 1))
    BY <1>0, <1>4 DEF ShiftBackup
  <2>2. ~damaged => ~Exists(n + 1)
    BY <1>0, <1>b, <2>1
  <2>3. QED BY <1>3, <2>1, <2>2
<1>5. ASSUME RenameCurrent
      PROVE  [Abstract!Next]_(Abstract!vars)
  <2>1. /\ pc = "shift" /\ n < 1 /\ UNCHANGED <<count, born, turn>>
        /\ Attempt(Exists(0), Renamed(0, 0 + 1))
    BY <1>5 DEF RenameCurrent
  <2>2. ASSUME ~damaged, Exists(0 + 1) PROVE (\A s \in DOMAIN disk : s <= 0 + 1) /\ Outlived(0 + 1, Survives)
    <3>1. count = 1
      <4>1. count >= 2 => n = 0 /\ ~Exists(n + 1)
        BY <1>0, <1>b, <2>1, <2>2
      <4>2. QED BY <1>0, <2>2, <4>1
    <3>2. Survives = 2 /\ \A s \in DOMAIN disk : s \in 0 .. 1
      BY <1>b, <3>1 DEF Survives
    <3>3. Outlived(0 + 1, 0 + 1 + 1)
      BY <1>b, <2>1, <2>2, <3>1 DEF Exists
    <3>4. QED BY <3>2, <3>3
  <2>3. QED BY <1>3, <2>1, <2>2
<1>6. ASSUME Reopen \/ Restart
      PROVE  [Abstract!Next]_(Abstract!vars)
  <2>1. UNCHANGED <<count, born, turn, damaged>> /\ (disk' = Created \/ disk' = disk)
    BY <1>6 DEF Reopen, Restart
  <2>2. QED BY <1>c, <2>1, KeptAfter
<1>7. ASSUME WriteLine
      PROVE  [Abstract!Next]_(Abstract!vars)
  <2>1. UNCHANGED <<count, turn, damaged>>
    BY <1>7 DEF WriteLine
  <2>2. CASE Written
    <3> DEFINE old == IF Exists(0) THEN disk[0].lines ELSE <<>>
               m == Len(born) + 1
    <3>1. /\ DOMAIN disk' = DOMAIN disk \cup {0} /\ \A s \in DOMAIN disk \ {0} : disk'[s] = disk[s]
          /\ disk'[0].lines = Append(old, m) /\ born' = Append(born, turn)
      BY <2>2 DEF Written, EmptyFile
    <3>2. old \in Seq(Nat \ {0}) /\ m \in Nat \ {0}
      BY <1>0, <1>a DEF Exists, File, TypeInv, TypeOK
    <3>3. Range(disk'[0].lines) = Range(old) \cup {m}
      <4> HIDE DEF old, m
      <4>1. /\ DOMAIN Append(old, m) = 1 .. Len(old) + 1
            /\ \A i \in 1 .. Len(old) : Append(old, m)[i] = old[i]
            /\ Append(old, m)[Len(old) + 1] = m
            /\ DOMAIN old = 1 .. Len(old) /\ Len(old) \in Nat
        BY <3>2, AppendProperties
      <4>2. \A i \in 1 .. Len(old) + 1 : i \in 1 .. Len(old) \/ i = Len(old) + 1
        BY <4>1
      <4>3. 1 .. Len(old) \subseteq 1 .. Len(old) + 1 /\ Len(old) + 1 \in 1 .. Len(old) + 1
        BY <4>1
      <4>4. QED BY <3>1, <4>1, <4>2, <4>3 DEF Range
    <3>4. Range(old) = IF Exists(0) THEN Lines(0) ELSE {}
      BY DEF Lines, Range
    <3> HIDE DEF old, m
    <3>5. Kept' = Kept \cup {m}
      <4>1. ASSUME NEW i \in Kept' PROVE i \in Kept \cup {m}
        <5>1. PICK s \in DOMAIN disk' : i \in Range(disk'[s].lines)
          BY DEF Kept, Lines
        <5>2. CASE s = 0
          BY <3>3, <3>4, <5>1, <5>2 DEF Kept, Exists
        <5>3. CASE s # 0
          <6>1. s \in DOMAIN disk /\ i \in Lines(s)
            BY <3>1, <5>1, <5>3 DEF Lines
          <6>2. QED BY <6>1 DEF Kept
        <5>4. QED BY <5>2, <5>3
      <4>2. ASSUME NEW s \in DOMAIN disk, NEW i \in Lines(s) PROVE i \in Kept'
        <5>1. s \in DOMAIN disk' /\ i \in Range(disk'[s].lines)
          BY <3>1, <3>3, <3>4 DEF Exists, Lines
        <5>2. QED BY <5>1 DEF Kept, Lines
      <4>3. m \in Kept'
        BY <3>1, <3>3 DEF Kept, Lines
      <4>4. QED BY <4>1, <4>2, <4>3 DEF Kept
    <3>6. Abstract!Write
      BY <2>1, <3>1, <3>5 DEF Abstract!Write, Survives, m
    <3>7. QED BY <3>6 DEF Abstract!Next
  <2>3. ASSUME DOMAIN disk' = DOMAIN disk \cup {0}, \A s \in DOMAIN disk : disk'[s] = disk[s],
               ~Exists(0) => disk'[0] = EmptyFile, born' = born
        PROVE  [Abstract!Next]_(Abstract!vars)
    <3>1. Kept' = Kept
      BY <2>3 DEF Kept, Lines, Range, Exists, EmptyFile
    <3>2. QED BY <1>c, <2>1, <2>3, <3>1
  <2>4. CASE UNCHANGED <<disk, born>>
    BY <1>c, <2>1, <2>4, KeptAfter
  <2>5. \/ Written
        \/ /\ DOMAIN disk' = DOMAIN disk \cup {0} /\ \A s \in DOMAIN disk : disk'[s] = disk[s]
           /\ ~Exists(0) => disk'[0] = EmptyFile
           /\ born' = born
        \/ UNCHANGED <<disk, born>>
    BY <1>7, <1>a, WriteEffect
  <2>6. QED BY <2>2, <2>3, <2>4, <2>5
<1>8. CASE UNCHANGED vars
  BY <1>8, <1>c, KeptAfter DEF vars
<1>9. QED BY <1>1, <1>2, <1>4, <1>5, <1>6, <1>7, <1>8 DEF Next

(* The log is the rolling log its header comment describes.                *)
THEOREM LogImplementsRollingLog == Spec => ImplementsRollingLog
<1>1. Init => Abstract!Init
  <2> SUFFICES ASSUME Init PROVE Abstract!Init
    OBVIOUS
  <2>1. Kept = {}
    BY DEF Init, Kept, Lines, Range, EmptyFile
  <2>2. Survives \in Nat \ {0}
    BY LogAssumption DEF Init, Survives
  <2>3. QED BY <2>1, <2>2 DEF Init, Abstract!Init
<1>2. LogInv /\ [Next]_vars => [Abstract!Next]_(Abstract!vars)
  BY RefineStep
<1>3. QED BY <1>1, <1>2, LogInvariant, PTL DEF Spec, ImplementsRollingLog, Abstract!Spec

-----------------------------------------------------------------------------
(* What the reader of a rolling log is promised, for the files on disk: a  *)
(* line that is kept has all later ones after it, and it is kept until it  *)
(* has outlived its rotations.  Both need that no line is kept before it   *)
(* is written.                                                             *)
PromiseInv ==
  /\ born \in Seq(Nat) /\ Kept \subseteq 1 .. Len(born) /\ turn \in Nat /\ Survives \in Nat
  /\ Abstract!KeptIsSuffix /\ Abstract!Retained

LEMMA PromiseStep ==
  ASSUME PromiseInv, damaged \in BOOLEAN, [Abstract!Next]_(Abstract!vars)
  PROVE  PromiseInv'
<1> DEFINE m == Len(born) + 1
<1>0. /\ born \in Seq(Nat) /\ Kept \subseteq 1 .. Len(born) /\ turn \in Nat /\ Survives \in Nat
      /\ ~damaged => \A i \in Kept : i .. Len(born) \subseteq Kept
      /\ ~damaged => \A i \in DOMAIN born : turn - born[i] < Survives => i \in Kept
  BY DEF PromiseInv, Abstract!KeptIsSuffix, Abstract!Retained
<1>1. CASE Abstract!Write
  <2>1. /\ born' = Append(born, turn) /\ Kept' = Kept \cup {m}
        /\ Survives' = Survives /\ turn' = turn /\ damaged' = damaged
    BY <1>1 DEF Abstract!Write
  <2>2. born' \in Seq(Nat) /\ Len(born') = m /\ m \in Nat
    BY <1>0, <2>1
  <2>3. \A i \in 1 .. Len(born) : born'[i] = born[i]
    BY <1>0, <2>1
  <2>4. Kept' \subseteq 1 .. Len(born')
    <3>1. Len(born) \in Nat
      BY <1>0
    <3>2. 1 .. Len(born) \subseteq 1 .. m /\ m \in 1 .. m
      BY <3>1
    <3>3. QED BY <1>0, <2>1, <2>2, <3>2
  <2>5. ~damaged' => \A i \in Kept' : i .. Len(born') \subseteq Kept'
    BY <1>0, <2>1, <2>2
  <2>6. ~damaged' => \A i \in DOMAIN born' : turn' - born'[i] < Survives' => i \in Kept'
    BY <1>0, <2>1, <2>2, <2>3
  <2>7. QED BY <1>0, <2>1, <2>2, <2>4, <2>5, <2>6
                DEF PromiseInv, Abstract!KeptIsSuffix, Abstract!Retained
<1>2. CASE Abstract!Turn
  <2>1. turn' = turn + 1 /\ Survives' = Survives /\ born' = born /\ Kept' = Kept /\ damaged' = damaged
    BY <1>2 DEF Abstract!Turn
  <2>2. \A i \in DOMAIN born : born[i] \in Nat
    BY <1>0
  <2>3. QED BY <1>0, <2>1, <2>2 DEF PromiseInv, Abstract!KeptIsSuffix, Abstract!Retained
<1>3. ASSUME NEW first \in 1 .. Len(born) + 1, Abstract!Forget(first)
      PROVE  PromiseInv'
  <2>1. /\ Kept' = {i \in Kept : i >= first} /\ \A i \in Kept \ Kept' : turn - born[i] >= Survives
        /\ Survives' = Survives /\ born' = born /\ turn' = turn /\ damaged' = damaged
    BY <1>3 DEF Abstract!Forget
  <2>2. \A i \in DOMAIN born : born[i] \in Nat /\ i \in Nat
    BY <1>0
  <2>3. ~damaged' => \A i \in Kept' : i .. Len(born') \subseteq Kept'
    BY <1>0, <2>1
  <2>4. ~damaged' => \A i \in DOMAIN born' : turn' - born'[i] < Survives' => i \in Kept'
    BY <1>0, <2>1, <2>2
  <2>5. QED BY <1>0, <2>1, <2>3, <2>4 DEF PromiseInv, Abstract!KeptIsSuffix, Abstract!Retained
<1>4. ASSUME NEW rest \in SUBSET Kept, Abstract!Lose(rest)
      PROVE  PromiseInv'
  BY <1>0, <1>4 DEF Abstract!Lose, PromiseInv, Abstract!KeptIsSuffix, Abstract!Retained
<1>5. CASE UNCHANGED Abstract!vars
  BY <1>0, <1>5 DEF Abstract!vars, PromiseInv, Abstract!KeptIsSuffix, Abstract!Retained
<1>6. QED BY <1>1, <1>2, <1>3, <1>4, <1>5 DEF Abstract!Next

(* A line written to aptove.log or rotated into a backup can be read until *)
(* as many rotations have passed as files are kept, and never disappears   *)
(* before an older one, as long as no file operation has failed.           *)
THEOREM LinesAreRetained == Spec => [](Abstract!KeptIsSuffix /\ Abstract!Retained)
<1>1. Init => PromiseInv
  <2> SUFFICES ASSUME Init PROVE PromiseInv
    OBVIOUS
  <2>1. Kept = {} /\ born = <<>> /\ turn \in Nat
    BY DEF Init, Kept, Lines, Range, EmptyFile
  <2>2. Survives \in Nat
    BY LogAssumption DEF Init, Survives
  <2>3. QED BY <2>1, <2>2 DEF PromiseInv, Abstract!KeptIsSuffix, Abstract!Retained
<1>2. PromiseInv /\ LogInv /\ [Next]_vars => PromiseInv'
  BY RefineStep, PromiseStep DEF LogInv, TypeInv, TypeOK
<1>3. PromiseInv => Abstract!KeptIsSuffix /\ Abstract!Retained
  BY DEF PromiseInv
<1>4. QED BY <1>1, <1>2, <1>3, LogInvariant, PTL DEF Spec

=============================================================================
