---------------------------- MODULE Audit_proofs ----------------------------
(***************************************************************************)
(* Theorems about Audit, for every number of generations, limit, set of    *)
(* line sizes and readers and every bound: types, that the log on disk is  *)
(* a window without a gap, that queries come out in order, and that the    *)
(* files stay within their limit.                                          *)
(***************************************************************************)
EXTENDS Audit, SequenceTheorems, FiniteSetTheorems, WellFoundedInduction, TLAPS

(***************************************************************************)
(* The inductive invariant.                                                *)
(***************************************************************************)
Lines(g) == 1..Len(file[g].lines)

\* A rotation has made the place it moves the next file to.
Rotating ==
  /\ writer.pc \in {"unlink", "rename"} => Backups > 0
  /\ writer.pc = "rename" => writer.gen < Backups /\ file[writer.gen + 1] = Empty
  /\ writer.pc = "unlink" => file[0].size > 0
  /\ \A g \in Gens : file[g].open \/ file[g].size > 0 => Len(file[g].lines) > 0

\* The number of the call that is under way is on no line yet.
Numbered ==
  /\ recorded \subseteq 1..count
  /\ \A g \in Gens : \A i \in Lines(g) : file[g].lines[i] <= count
  /\ writer.pc # "idle" =>
       /\ count > 0 /\ count \notin recorded
       /\ \A g \in Gens : \A i \in Lines(g) : file[g].lines[i] < count

\* From file to file, oldest first, and from line to line the numbers go up.
Ordered ==
  \A g, h \in Gens : \A i \in Lines(g), j \in Lines(h) :
    g > h \/ (g = h /\ i < j) =>
      \/ file[g].lines[i] = Malformed \/ file[h].lines[j] = Malformed
      \/ file[g].lines[i] < file[h].lines[j]

\* A line without a newline is no complete record; and only faults make one.
Torn ==
  /\ \A g \in Gens : file[g].open => file[g].lines[Len(file[g].lines)] \notin recorded
  /\ faults = 0 => \A g \in Gens :
       ~file[g].open /\ \A i \in Lines(g) : file[g].lines[i] \in recorded

\* What a query has read is older than all that it has still to read.
Reading ==
  \A p \in Readers :
    /\ Increasing(reader[p].got)
    /\ reader[p].pc = "list" => reader[p].got = <<>>
    /\ reader[p].pc = "read" =>
         \A k \in 1..Len(reader[p].got) :
           /\ reader[p].got[k] <= count
           /\ writer.pc # "idle" => reader[p].got[k] < count
           /\ \A g \in Gens : \A i \in Lines(g) :
                g + reader[p].next <= Backups /\ file[g].lines[i] # Malformed =>
                  reader[p].got[k] < file[g].lines[i]

\* A line is appended to an empty file, or to one that it does not overfill.
Fitting ==
  /\ writer.pc # "idle" => writer.bytes \in LineSizes
  /\ writer.pc = "append" /\ ~stuck =>
       file[0].size = 0 \/ file[0].size + writer.bytes <= MaxBytes

(***************************************************************************)
(* Files.                                                                  *)
(***************************************************************************)
LEMMA EmptyType ==
  /\ Empty \in Contents /\ Empty.lines = <<>> /\ Len(Empty.lines) = 0
  /\ Empty.size = 0 /\ ~Empty.open
BY EmptySeq DEF Empty, Contents

LEMMA GensType ==
  /\ Gens \subseteq Nat /\ 0 \in Gens /\ Backups \in Gens
  /\ \A g \in Gens : g <= Backups
BY AuditAssumption DEF Gens

LEMMA FileType ==
  ASSUME TypeOK, NEW g \in Gens
  PROVE  /\ file[g] \in Contents
         /\ file[g].lines \in Seq(Nat) /\ Len(file[g].lines) \in Nat
         /\ \A i \in Lines(g) : file[g].lines[i] \in Nat
         /\ file[g].size \in Nat /\ file[g].open \in BOOLEAN
<1>1. file[g] \in Contents
  BY DEF TypeOK
<1>2. file[g].lines \in Seq(Nat) /\ file[g].size \in Nat /\ file[g].open \in BOOLEAN
  BY <1>1 DEF Contents
<1>3. Len(file[g].lines) \in Nat /\ \A i \in Lines(g) : file[g].lines[i] \in Nat
  BY <1>2, ElementOfSeq, LenProperties DEF Lines
<1> QED BY <1>1, <1>2, <1>3

LEMMA WriterType ==
  ASSUME TypeOK
  PROVE  /\ writer.pc \in {"idle", "unlink", "rename", "append"}
         /\ writer.gen \in Gens /\ writer.gen \in Nat /\ writer.bytes \in Nat
BY GensType DEF TypeOK

\* The file that a line was appended to.
LEMMA AppendedType ==
  ASSUME NEW f \in Contents, f.open => Len(f.lines) > 0,
         NEW line \in Nat, NEW n \in Nat, NEW open \in BOOLEAN
  PROVE  /\ Appended(f, line, n, open) \in Contents
         /\ Appended(f, line, n, open).size = f.size + n
         /\ Appended(f, line, n, open).open = open
<1>1. f.lines \in Seq(Nat) /\ f.size \in Nat /\ Len(f.lines) \in Nat
  BY LenProperties DEF Contents
<1>2. CASE f.open
  <2>1. [f.lines EXCEPT ![Len(f.lines)] = Malformed] \in Seq(Nat)
    BY <1>1, <1>2, ExceptSeq DEF Malformed
  <2> QED BY <1>1, <1>2, <2>1 DEF Appended, Contents
<1>3. CASE ~f.open
  <2>1. Append(f.lines, line) \in Seq(Nat)
    BY <1>1, AppendProperties
  <2> QED BY <1>1, <1>3, <2>1 DEF Appended, Contents
<1> QED BY <1>2, <1>3

\* A torn last line is spoilt by what is written behind it.
LEMMA AppendedToTorn ==
  ASSUME NEW f \in Contents, f.open, Len(f.lines) > 0, NEW line, NEW n, NEW open
  PROVE  /\ Len(Appended(f, line, n, open).lines) = Len(f.lines)
         /\ \A i \in 1..Len(f.lines) :
              Appended(f, line, n, open).lines[i] =
                IF i = Len(f.lines) THEN Malformed ELSE f.lines[i]
<1>1. f.lines \in Seq(Nat) /\ Len(f.lines) \in 1..Len(f.lines)
  BY LenProperties DEF Contents
<1>2. Appended(f, line, n, open).lines = [f.lines EXCEPT ![Len(f.lines)] = Malformed]
  BY DEF Appended
<1> QED BY <1>1, <1>2, ExceptSeq DEF Malformed

LEMMA AppendedToWhole ==
  ASSUME NEW f \in Contents, ~f.open, NEW line \in Nat, NEW n, NEW open
  PROVE  /\ Len(Appended(f, line, n, open).lines) = Len(f.lines) + 1
         /\ Appended(f, line, n, open).lines[Len(f.lines) + 1] = line
         /\ \A i \in 1..Len(f.lines) : Appended(f, line, n, open).lines[i] = f.lines[i]
<1>1. f.lines \in Seq(Nat)
  BY DEF Contents
<1>2. Appended(f, line, n, open).lines = Append(f.lines, line)
  BY DEF Appended
<1> QED BY <1>1, <1>2, AppendProperties

\* The live file is a file.
LEMMA LiveFile ==
  ASSUME TypeOK, Rotating
  PROVE  file[0] \in Contents /\ (file[0].open => Len(file[0].lines) > 0)
BY FileType, GensType DEF Rotating

\* A line, or a part of one, is written.
Write(line, open) == file' = [file EXCEPT ![0] = Appended(@, line, writer.bytes, open)]

\* Where its lines are from: those of the live file stay where they are, but for
\* a torn one, and on a file with whole lines there is a new one.
LEMMA WriteFacts ==
  ASSUME TypeOK, Rotating, NEW line \in Nat, NEW open \in BOOLEAN, Write(line, open)
  PROVE  /\ file' \in [Gens -> Contents]
         /\ \A g \in Gens \ {0} : file'[g] = file[g]
         /\ file'[0].size = file[0].size + writer.bytes /\ file'[0].open = open
         /\ Len(file'[0].lines) \in Nat \ {0}
         /\ Len(file'[0].lines) = IF file[0].open THEN Len(file[0].lines)
                                                  ELSE Len(file[0].lines) + 1
         /\ file'[0].lines[Len(file'[0].lines)] = IF file[0].open THEN Malformed ELSE line
         /\ \A i \in 1..Len(file[0].lines) :
              file'[0].lines[i] = IF file[0].open /\ i = Len(file[0].lines)
                                  THEN Malformed ELSE file[0].lines[i]
<1> DEFINE f == file[0]
           a == Appended(f, line, writer.bytes, open)
<1>1. /\ f \in Contents /\ (f.open => Len(f.lines) > 0) /\ writer.bytes \in Nat
      /\ Len(f.lines) \in Nat
  BY LiveFile, WriterType, FileType, GensType
<1>2. a \in Contents /\ a.size = f.size + writer.bytes /\ a.open = open
  BY <1>1, AppendedType
<1>3. /\ file' \in [Gens -> Contents] /\ file'[0] = a
      /\ \A g \in Gens \ {0} : file'[g] = file[g]
  BY <1>2, GensType DEF Write, TypeOK
<1>4. CASE f.open
  <2>1. /\ Len(a.lines) = Len(f.lines)
        /\ \A i \in 1..Len(f.lines) :
             a.lines[i] = IF i = Len(f.lines) THEN Malformed ELSE f.lines[i]
    BY <1>1, <1>4, AppendedToTorn
  <2> HIDE DEF a
  <2>2. a.lines[Len(a.lines)] = Malformed
    BY <1>1, <1>4, <2>1
  <2> QED BY <1>1, <1>2, <1>3, <1>4, <2>1, <2>2
<1>5. CASE ~f.open
  <2>1. /\ Len(a.lines) = Len(f.lines) + 1 /\ a.lines[Len(f.lines) + 1] = line
        /\ \A i \in 1..Len(f.lines) : a.lines[i] = f.lines[i]
    BY <1>1, <1>5, AppendedToWhole
  <2> HIDE DEF a
  <2> QED BY <1>1, <1>2, <1>3, <1>5, <2>1
<1> QED BY <1>1, <1>4, <1>5

\* What record() may do to the files in one step.
Writes == \E line \in {Malformed, count}, open \in BOOLEAN : Write(line, open)
(***************************************************************************)
(* Types, and the place that a rotation has made.                          *)
(***************************************************************************)
\* A file that moves to another place, or goes; none overtakes another.
Moves ==
  \E from \in [Gens -> Gens] :
    /\ \A g \in Gens : from[g] <= g /\ file'[g] \in {Empty, file[from[g]]}
    /\ \A g, h \in Gens : g > h /\ file'[g] # Empty /\ file'[h] # Empty => from[g] > from[h]

LEMMA UnlinkMoves ==
  ASSUME TypeOK, Unlink
  PROVE  /\ Moves /\ file' \in [Gens -> Contents] /\ file'[Backups] = Empty
         /\ \A g \in Gens : g # Backups => file'[g] = file[g]
<1>1. file' = [file EXCEPT ![Backups] = Empty]
  BY DEF Unlink
<1>2. /\ file' \in [Gens -> Contents] /\ file'[Backups] = Empty
      /\ \A g \in Gens : g # Backups => file'[g] = file[g]
  BY <1>1, GensType, EmptyType DEF TypeOK
<1>3. PICK from \in [Gens -> Gens] : from = [g \in Gens |-> g]
  OBVIOUS
<1>4. \A g \in Gens : from[g] = g /\ g <= g
  BY <1>3, GensType
<1>5. Moves
  BY <1>2, <1>4 DEF Moves
<1> QED BY <1>2, <1>5

LEMMA RenameMoves ==
  ASSUME TypeOK, Rotating, Rename
  PROVE  /\ Moves /\ file' \in [Gens -> Contents] /\ file'[writer.gen] = Empty
         /\ file'[writer.gen + 1] = file[writer.gen]
         /\ \A g \in Gens : g # writer.gen /\ g # writer.gen + 1 => file'[g] = file[g]
         /\ writer.gen + 1 \in Gens
<1> DEFINE to == writer.gen + 1
<1>1. /\ writer.gen \in Gens /\ writer.gen \in Nat /\ to \in Gens /\ file[to] = Empty
      /\ to # writer.gen
  BY WriterType, AuditAssumption DEF Rename, Rotating, Gens
<1>2. /\ file' \in [Gens -> Contents] /\ file'[writer.gen] = Empty
      /\ file'[to] = file[writer.gen]
      /\ \A g \in Gens : g # writer.gen /\ g # to => file'[g] = file[g]
  <2>1. CASE file[writer.gen] = Empty
    BY <1>1, <2>1 DEF Rename, TypeOK
  <2>2. CASE file[writer.gen] # Empty
    <3>1. file' = [file EXCEPT ![to] = file[writer.gen], ![writer.gen] = Empty]
      BY <2>2 DEF Rename
    <3> QED BY <1>1, <3>1, EmptyType DEF TypeOK
  <2> QED BY <2>1, <2>2
<1>3. PICK from \in [Gens -> Gens] : from = [g \in Gens |-> IF g = to THEN writer.gen ELSE g]
  BY <1>1
<1>4. \A g \in Gens : from[g] = IF g = to THEN writer.gen ELSE g
  BY <1>3
<1>5. ASSUME NEW g \in Gens PROVE from[g] <= g /\ file'[g] \in {Empty, file[from[g]]}
  BY <1>1, <1>2, <1>4, GensType
<1>6. ASSUME NEW g \in Gens, NEW h \in Gens, g > h, file'[g] # Empty, file'[h] # Empty
      PROVE  from[g] > from[h]
  BY <1>1, <1>2, <1>4, <1>6, GensType
<1>7. Moves
  BY <1>5, <1>6 DEF Moves
<1> QED BY <1>1, <1>2, <1>7

\* The ways a step may change the files.
LEMMA FileSteps ==
  ASSUME TypeOK, Rotating, [Next]_vars
  PROVE  \/ UNCHANGED file
         \/ Unlink /\ Moves
         \/ Rename /\ Moves
         \/ AppendLine /\ Write(count, FALSE)
         \/ WriteInterrupted /\ \E line \in {Malformed, count} : Write(line, TRUE)
<1>1. CASE UNCHANGED vars
  BY <1>1 DEF vars
<1>2. ASSUME NEW n \in LineSizes, Record(n) PROVE UNCHANGED file
  BY <1>2 DEF Record
<1>3. RotationFails => UNCHANGED file
  BY DEF RotationFails
<1>4. Crash => UNCHANGED file
  BY DEF Crash
<1>5. ASSUME NEW p \in Readers, Query(p) \/ ListFile(p) \/ ReadFile(p) PROVE UNCHANGED file
  BY <1>5 DEF Query, ListFile, ReadFile
<1>6. AppendLine => Write(count, FALSE)
  BY DEF AppendLine, Write
<1>7. WriteInterrupted => UNCHANGED file \/ \E line \in {Malformed, count} : Write(line, TRUE)
  BY DEF WriteInterrupted, Write
<1> QED BY <1>1, <1>2, <1>3, <1>4, <1>5, <1>6, <1>7, UnlinkMoves, RenameMoves DEF Next

LEMMA UnlockedFacts ==
  /\ Unlocked.pc = "idle" /\ Unlocked.gen = 0 /\ Unlocked.bytes = 0
  /\ Unlocked \in [pc : {"idle", "unlink", "rename", "append"}, gen : Gens, bytes : Nat]
BY GensType DEF Unlocked

LEMMA FilesTyped ==
  ASSUME TypeOK, Rotating, [Next]_vars
  PROVE  file' \in [Gens -> Contents]
<1>1. Malformed \in Nat /\ count \in Nat
  BY AuditAssumption DEF TypeOK, Malformed
<1> QED BY <1>1, FileSteps, UnlinkMoves, RenameMoves, WriteFacts DEF TypeOK

\* The record of the writer after each of its steps.
WriterRecords == [pc : {"idle", "unlink", "rename", "append"}, gen : Gens, bytes : Nat]

LEMMA WriterTyped ==
  ASSUME TypeOK, Rotating, [Next]_vars
  PROVE  writer' \in WriterRecords
<1> USE DEF WriterRecords
<1>0. writer \in WriterRecords
  BY DEF TypeOK
<1>1. ASSUME NEW n \in LineSizes, Record(n) PROVE writer' \in WriterRecords
  BY <1>1, UnlockedFacts, AuditAssumption DEF Record
<1>2. CASE Unlink
  <2>1. Backups - 1 \in Gens
    BY <1>2, AuditAssumption DEF Unlink, Rotating, Gens
  <2> QED BY <1>0, <1>2, <2>1 DEF Unlink
<1>3. CASE Rename
  <2>1. writer.gen # 0 => writer.gen - 1 \in Gens
    BY WriterType, AuditAssumption DEF Gens
  <2> QED BY <1>0, <1>3, <2>1 DEF Rename, NextRename
<1>4. CASE RotationFails
  BY <1>0, <1>4 DEF RotationFails, RotationEnds
<1>5. CASE AppendLine \/ WriteInterrupted \/ Crash
  BY <1>5, UnlockedFacts DEF AppendLine, WriteInterrupted, Crash
<1>6. ASSUME NEW p \in Readers, Query(p) \/ ListFile(p) \/ ReadFile(p) PROVE UNCHANGED writer
  BY <1>6 DEF Query, ListFile, ReadFile
<1> QED BY <1>0, <1>1, <1>2, <1>3, <1>4, <1>5, <1>6 DEF Next, vars

(***************************************************************************)
(* What a query gets from a file.                                          *)
(***************************************************************************)
\* Counting the records of a file up to a line.
LEMMA UpToFacts ==
  ASSUME NEW f \in Contents, NEW i \in Nat
  PROVE  /\ IsFiniteSet(UpTo(f, i)) /\ Cardinality(UpTo(f, i)) \in Nat
         /\ IsFiniteSet(Places(f)) /\ Cardinality(Places(f)) \in Nat
         /\ \A h \in Nat : h <= i => Cardinality(UpTo(f, h)) <= Cardinality(UpTo(f, i))
<1>1. Len(f.lines) \in Nat
  BY LenProperties DEF Contents
<1>2. IsFiniteSet(1..Len(f.lines))
  BY <1>1, FS_Interval
<1>3. IsFiniteSet(Places(f))
  BY <1>2, FS_Subset DEF Places
<1>4. IsFiniteSet(UpTo(f, i))
  BY <1>3, FS_Subset DEF UpTo
<1>5. ASSUME NEW h \in Nat, h <= i
      PROVE  Cardinality(UpTo(f, h)) <= Cardinality(UpTo(f, i))
  <2>1. UpTo(f, h) \in SUBSET UpTo(f, i)
    BY <1>1, <1>5 DEF UpTo, Places
  <2> QED BY <1>4, <2>1, FS_Subset
<1> QED BY <1>3, <1>4, <1>5, FS_CardinalityType

\* A non-empty set of numbers has a least one.
LEMMA LeastExists ==
  ASSUME NEW T \in SUBSET Nat, T # {}
  PROVE  \E m \in T : \A t \in T : m <= t
<1>1. PICK m \in T : \A t \in T : ~(<<t, m>> \in OpToRel(<, Nat))
  BY WFMin, NatLessThanWellFounded, Zenon
<1>2. \A t \in T : ~(t < m)
  BY <1>1 DEF OpToRel
<1> QED BY <1>2

LEMMA PlaceExists ==
  ASSUME NEW f \in Contents, NEW k \in 1..Cardinality(Places(f))
  PROVE  \E i \in Places(f) : Cardinality(UpTo(f, i)) = k
<1> DEFINE T == {i \in Nat : Cardinality(UpTo(f, i)) >= k}
<1>1. Len(f.lines) \in Nat /\ Places(f) \subseteq Nat \ {0}
  BY LenProperties DEF Contents, Places
<1>2. UpTo(f, Len(f.lines)) = Places(f)
  BY <1>1 DEF UpTo, Places
<1>3. Cardinality(Places(f)) \in Nat /\ k \in Nat /\ k > 0 /\ Cardinality(Places(f)) >= k
  BY <1>1, UpToFacts
<1>4. Len(f.lines) \in T
  BY <1>1, <1>2, <1>3
<1>5. PICK m \in T : \A t \in T : m <= t
  <2>1. T \in SUBSET Nat /\ T # {}
    BY <1>4
  <2> HIDE DEF T
  <2> QED BY <2>1, LeastExists
<1>6. m \in Nat /\ Cardinality(UpTo(f, m)) >= k /\ Cardinality(UpTo(f, m)) \in Nat
  BY UpToFacts
<1>7. m # 0
  <2>1. UpTo(f, 0) = {}
    BY <1>1 DEF UpTo
  <2> QED BY <1>3, <1>6, <2>1, FS_EmptySet
<1>8. m - 1 \in Nat /\ ~(m - 1 \in T)
  BY <1>5, <1>6, <1>7
<1>9. Cardinality(UpTo(f, m - 1)) \in Nat /\ Cardinality(UpTo(f, m - 1)) < k
      /\ IsFiniteSet(UpTo(f, m - 1))
  BY <1>3, <1>8, UpToFacts
<1>10. m \in Places(f)
  <2>1. m \notin Places(f) => UpTo(f, m) = UpTo(f, m - 1)
    BY <1>1, <1>6, <1>8 DEF UpTo
  <2> QED BY <1>3, <1>6, <1>9, <2>1
<1>11. UpTo(f, m) = UpTo(f, m - 1) \cup {m}
  BY <1>1, <1>6, <1>8, <1>10 DEF UpTo
<1>12. m \notin UpTo(f, m - 1)
  BY <1>6 DEF UpTo
<1>13. Cardinality(UpTo(f, m)) = Cardinality(UpTo(f, m - 1)) + 1
  BY <1>9, <1>11, <1>12, FS_AddElement
<1> QED BY <1>3, <1>6, <1>9, <1>10, <1>13

\* The records a query reads from a file are on lines of it, in their order.
LEMMA RecordsFacts ==
  ASSUME NEW f \in Contents
  PROVE  /\ Records(f) \in Seq(Nat)
         /\ \E at \in [1..Len(Records(f)) -> Places(f)] :
              /\ \A k \in 1..Len(Records(f)) : Records(f)[k] = f.lines[at[k]]
              /\ \A k, m \in 1..Len(Records(f)) : k < m => at[k] < at[m]
<1> DEFINE n == Cardinality(Places(f))
           at == [k \in 1..n |-> CHOOSE i \in Places(f) : Cardinality(UpTo(f, i)) = k]
<1>1. /\ n \in Nat /\ Places(f) \subseteq 1..Len(f.lines) /\ Places(f) \subseteq Nat
      /\ \A i \in 1..Len(f.lines) : f.lines[i] \in Nat
  <2>1. f.lines \in Seq(Nat)
    BY DEF Contents
  <2>2. Places(f) \subseteq 1..Len(f.lines) /\ Places(f) \subseteq Nat
    BY <2>1, LenProperties DEF Places
  <2>3. 0 \in Nat
    OBVIOUS
  <2> QED BY <2>1, <2>2, <2>3, UpToFacts, ElementOfSeq
<1>2. ASSUME NEW k \in 1..n
      PROVE  at[k] \in Places(f) /\ Cardinality(UpTo(f, at[k])) = k
  BY PlaceExists
<1>3. Records(f) = [k \in 1..n |-> f.lines[at[k]]]
  BY DEF Records
<1> HIDE DEF n
<1>4. at \in [1..n -> Places(f)]
  BY <1>2
<1> HIDE DEF at
<1>5. Records(f) \in [1..n -> Nat]
  BY <1>1, <1>3, <1>4
<1>6. Records(f) \in Seq(Nat) /\ Len(Records(f)) = n
  BY <1>1, <1>5, IsASeq, LenProperties
<1>7. ASSUME NEW k \in 1..n, NEW m \in 1..n, k < m PROVE at[k] < at[m]
  <2>1. at[k] \in Nat /\ at[m] \in Nat
    BY <1>1, <1>4
  <2>2. at[m] <= at[k] => Cardinality(UpTo(f, at[m])) <= Cardinality(UpTo(f, at[k]))
    BY <2>1, UpToFacts
  <2> QED BY <1>1, <1>2, <1>7, <2>1, <2>2
<1> QED BY <1>3, <1>4, <1>6, <1>7

\* What is left of a sequence at the limit of a query.
LEMMA NewestFacts ==
  ASSUME NEW s \in Seq(Nat)
  PROVE  /\ Newest(s) \in Seq(Nat)
         /\ \E d \in Nat : /\ Len(Newest(s)) + d = Len(s)
                           /\ \A k \in 1..Len(Newest(s)) : Newest(s)[k] = s[k + d]
<1>1. Len(s) \in Nat /\ Limit \in Nat \ {0}
  BY LenProperties, AuditAssumption
<1>2. CASE Len(s) <= Limit
  <2>1. Newest(s) = s
    BY <1>2 DEF Newest
  <2>2. Len(s) + 0 = Len(s) /\ \A k \in 1..Len(s) : k + 0 = k
    BY <1>1
  <2> QED BY <2>1, <2>2
<1>3. CASE ~(Len(s) <= Limit)
  <2> DEFINE d == Len(s) - Limit
  <2>1. Newest(s) = SubSeq(s, d + 1, Len(s)) /\ d \in Nat
    BY <1>1, <1>3 DEF Newest
  <2>2. \A i \in d + 1 .. Len(s) : s[i] \in Nat
    BY <1>1, <2>1, ElementOfSeq
  <2>3. /\ SubSeq(s, d + 1, Len(s)) \in Seq(Nat)
        /\ Len(SubSeq(s, d + 1, Len(s))) =
             IF d + 1 <= Len(s) THEN Len(s) - (d + 1) + 1 ELSE 0
        /\ \A i \in 1 .. Len(s) - (d + 1) + 1 : SubSeq(s, d + 1, Len(s))[i] = s[d + 1 + i - 1]
    <3>1. d + 1 \in Int /\ Len(s) \in Int
      BY <1>1, <2>1
    <3> HIDE DEF d
    <3> QED BY <2>2, <3>1, SubSeqProperties
  <2>4. Len(Newest(s)) = Limit /\ Len(Newest(s)) + d = Len(s)
    BY <1>1, <1>3, <2>1, <2>3
  <2>5. ASSUME NEW k \in 1..Len(Newest(s)) PROVE Newest(s)[k] = s[k + d]
    <3>1. k \in 1 .. Len(s) - (d + 1) + 1 /\ d + 1 + k - 1 = k + d
      BY <1>1, <2>1, <2>4
    <3> HIDE DEF d
    <3> QED BY <2>1, <2>3, <3>1
  <2> HIDE DEF d
  <2> QED BY <2>1, <2>3, <2>4, <2>5
<1> QED BY <1>2, <1>3

(***************************************************************************)
(* The type theorem.                                                       *)
(***************************************************************************)
ReaderRecords == [pc : {"idle", "list", "read"}, next : Gens, found : SUBSET Gens, got : Seq(Nat)]

\* What the step of a query does to the others, and to its next file.
LEMMA ReaderFacts ==
  ASSUME TypeOK, NEW p \in Readers
  PROVE  /\ reader[p] \in ReaderRecords
         /\ reader[p].next \in Gens /\ reader[p].next \in Nat /\ reader[p].next <= Backups
         /\ OldestFirst(reader[p].next) \in Gens
         /\ OldestFirst(reader[p].next) + reader[p].next = Backups
         /\ reader[p].next # Backups => reader[p].next + 1 \in Gens
         /\ reader[p].got \in Seq(Nat)
<1>1. reader[p] \in ReaderRecords
  BY DEF TypeOK, ReaderRecords
<1>2. reader[p].next \in Gens /\ reader[p].got \in Seq(Nat)
  BY <1>1 DEF ReaderRecords
<1> QED BY <1>1, <1>2, AuditAssumption DEF Gens, OldestFirst

LEMMA NotReadingType == NotReading \in ReaderRecords /\ NotReading.got = <<>>
BY GensType, EmptySeq DEF NotReading, ReaderRecords

LEMMA QueryBecomes ==
  ASSUME TypeOK, NEW p \in Readers, Query(p)
  PROVE  /\ reader' \in [Readers -> ReaderRecords]
         /\ \A q \in Readers \ {p} : reader'[q] = reader[q]
         /\ reader'[p].got = <<>> /\ reader'[p].pc = "list"
<1> DEFINE rec == [NotReading EXCEPT !.pc = "list"]
<1>1. rec \in ReaderRecords /\ rec.got = <<>> /\ rec.pc = "list"
  BY NotReadingType DEF ReaderRecords
<1>2. reader' = [reader EXCEPT ![p] = rec]
  BY DEF Query
<1> HIDE DEF rec
<1> QED BY <1>1, <1>2 DEF TypeOK, ReaderRecords

LEMMA ListFileBecomes ==
  ASSUME TypeOK, NEW p \in Readers, ListFile(p)
  PROVE  /\ reader' \in [Readers -> ReaderRecords]
         /\ \A q \in Readers \ {p} : reader'[q] = reader[q]
         /\ reader'[p].got = reader[p].got /\ reader[p].pc = "list"
<1> DEFINE k == reader[p].next
           there == {g \in {OldestFirst(k)} : file[g] # Empty}
           rec == [reader[p] EXCEPT !.found = @ \cup there,
                                    !.pc = IF k = Backups THEN "read" ELSE "list",
                                    !.next = IF k = Backups THEN 0 ELSE k + 1]
<1>1. there \subseteq Gens /\ 0 \in Gens /\ (k # Backups => k + 1 \in Gens)
  BY ReaderFacts, GensType
<1>2. reader' = [reader EXCEPT ![p] = rec] /\ reader[p].pc = "list"
  BY DEF ListFile, TypeOK
<1> HIDE DEF there, k
<1>3. rec \in ReaderRecords /\ rec.got = reader[p].got
  BY <1>1, ReaderFacts DEF ReaderRecords
<1> HIDE DEF rec
<1> QED BY <1>2, <1>3 DEF TypeOK, ReaderRecords

\* read_text(): the records of a file of the list are got, those of others not.
LEMMA ReadFileBecomes ==
  ASSUME TypeOK, NEW p \in Readers, ReadFile(p)
  PROVE  /\ reader' \in [Readers -> ReaderRecords]
         /\ \A q \in Readers \ {p} : reader'[q] = reader[q]
         /\ reader[p].pc = "read"
         /\ reader'[p].got \in
              {reader[p].got,
               Newest(reader[p].got \o Records(file[OldestFirst(reader[p].next)]))}
         /\ reader'[p].pc \in {"idle", "read"}
         /\ reader'[p].pc = "read" => reader'[p].next = reader[p].next + 1
<1> DEFINE k == reader[p].next
           more == Newest(reader[p].got \o Records(file[OldestFirst(k)]))
           rec == [reader[p] EXCEPT
                     !.got = IF OldestFirst(k) \in reader[p].found THEN more ELSE @,
                     !.pc = IF k = Backups THEN "idle" ELSE "read",
                     !.next = IF k = Backups THEN 0 ELSE k + 1]
<1>1. more \in Seq(Nat)
  <2>1. Records(file[OldestFirst(k)]) \in Seq(Nat)
    BY ReaderFacts, FileType, RecordsFacts
  <2>2. reader[p].got \o Records(file[OldestFirst(k)]) \in Seq(Nat)
    BY <2>1, ReaderFacts, ConcatProperties
  <2> QED BY <2>2, NewestFacts
<1>2. 0 \in Gens /\ (k # Backups => k + 1 \in Gens)
  BY ReaderFacts, GensType
<1>3. reader' = [reader EXCEPT ![p] = rec] /\ reader[p].pc = "read"
  BY DEF ReadFile, TypeOK
<1> HIDE DEF more
<1>4. /\ rec \in ReaderRecords /\ rec.got \in {reader[p].got, more}
      /\ rec.pc \in {"idle", "read"} /\ (rec.pc = "read" => rec.next = k + 1)
  BY <1>1, <1>2, ReaderFacts DEF ReaderRecords
<1> HIDE DEF rec
<1> QED BY <1>3, <1>4 DEF TypeOK, ReaderRecords, more

LEMMA CountersTyped ==
  ASSUME TypeOK, Numbered, [Next]_vars
  PROVE  /\ count' \in 0..MaxRecords /\ faults' \in 0..MaxFaults
         /\ recorded' \subseteq 1..MaxRecords /\ stuck' \in BOOLEAN
<1>1. /\ MaxRecords \in Nat /\ MaxFaults \in Nat /\ count \in 0..MaxRecords
      /\ faults \in 0..MaxFaults /\ recorded \subseteq 1..MaxRecords /\ stuck \in BOOLEAN
  BY AuditAssumption DEF TypeOK
<1>2. ASSUME NEW n \in LineSizes, Record(n)
      PROVE  count' \in 0..MaxRecords /\ UNCHANGED <<faults, recorded, stuck>>
  BY <1>1, <1>2 DEF Record
<1>3. CASE Unlink \/ Rename
  BY <1>1, <1>3 DEF Unlink, Rename
<1>4. CASE RotationFails
  BY <1>1, <1>4 DEF RotationFails
<1>5. CASE AppendLine
  <2>1. count \in 1..MaxRecords
    BY <1>1, <1>5 DEF AppendLine, Numbered
  <2> QED BY <1>1, <1>5, <2>1 DEF AppendLine
<1>6. CASE WriteInterrupted \/ Crash
  <2>1. /\ faults < MaxFaults /\ faults' = faults + 1
        /\ UNCHANGED <<count, recorded, stuck>>
    BY <1>6 DEF WriteInterrupted, Crash
  <2> QED BY <1>1, <2>1
<1>7. ASSUME NEW p \in Readers, Query(p) \/ ListFile(p) \/ ReadFile(p)
      PROVE  UNCHANGED <<count, faults, recorded, stuck>>
  BY <1>7 DEF Query, ListFile, ReadFile
<1> QED BY <1>1, <1>2, <1>3, <1>4, <1>5, <1>6, <1>7 DEF Next, vars

LEMMA ReadersTyped ==
  ASSUME TypeOK, [Next]_vars
  PROVE  reader' \in [Readers -> ReaderRecords]
<1>1. ASSUME NEW p \in Readers, Query(p) \/ ListFile(p) \/ ReadFile(p)
      PROVE  reader' \in [Readers -> ReaderRecords]
  BY <1>1, QueryBecomes, ListFileBecomes, ReadFileBecomes
<1>2. CASE UNCHANGED reader
  BY <1>2 DEF TypeOK, ReaderRecords
<1>3. (\E n \in LineSizes : Record(n)) => UNCHANGED reader
  BY DEF Record
<1>4. \/ Unlink \/ Rename \/ RotationFails \/ AppendLine \/ WriteInterrupted \/ Crash
      \/ UNCHANGED vars
      => UNCHANGED reader
  BY DEF Unlink, Rename, RotationFails, AppendLine, WriteInterrupted, Crash, vars
<1> QED BY <1>1, <1>2, <1>3, <1>4 DEF Next

LEMMA TypesKept ==
  ASSUME TypeOK, Rotating, Numbered, [Next]_vars
  PROVE  TypeOK'
BY FilesTyped, WriterTyped, ReadersTyped, CountersTyped DEF TypeOK, WriterRecords, ReaderRecords

(***************************************************************************)
(* The rotation.                                                           *)
(***************************************************************************)
LEMMA RotatingKept ==
  ASSUME TypeOK, Rotating, [Next]_vars
  PROVE  Rotating'
<1>1. \A g \in Gens : file'[g].open \/ file'[g].size > 0 => Len(file'[g].lines) > 0
  <2>1. CASE UNCHANGED file
    BY <2>1 DEF Rotating
  <2>2. CASE Moves
    BY <2>2, EmptyType DEF Moves, Rotating
  <2>3. ASSUME NEW line \in Nat, NEW open \in BOOLEAN, Write(line, open)
        PROVE  \A g \in Gens : file'[g].open \/ file'[g].size > 0 => Len(file'[g].lines) > 0
    <3>1. Len(file'[0].lines) \in Nat \ {0} /\ \A g \in Gens \ {0} : file'[g] = file[g]
      BY <2>3, WriteFacts
    <3> QED BY <3>1 DEF Rotating
  <2>4. Malformed \in Nat /\ count \in Nat
    BY AuditAssumption DEF TypeOK, Malformed
  <2> QED BY <2>1, <2>2, <2>3, <2>4, FileSteps
<1>2. ASSUME NEW n \in LineSizes, Record(n)
      PROVE  /\ writer'.pc \in {"unlink", "append"} /\ UNCHANGED file
             /\ writer'.pc = "unlink" => Backups > 0 /\ file[0].size > 0
  BY <1>2, UnlockedFacts DEF Record, ShouldRotate, Unlocked
<1>3. CASE Unlink
  <2>1. /\ writer'.pc = "rename" /\ writer'.gen = Backups - 1 /\ Backups > 0
        /\ file'[Backups] = Empty
    BY <1>3, UnlinkMoves DEF Unlink, TypeOK, Rotating
  <2>2. writer'.gen < Backups /\ writer'.gen + 1 = Backups
    BY <2>1, AuditAssumption
  <2> QED BY <1>1, <2>1, <2>2 DEF Rotating
<1>4. CASE Rename
  <2>1. /\ writer.gen < Backups /\ Backups > 0 /\ file'[writer.gen] = Empty
        /\ writer.gen \in Nat
    BY <1>4, RenameMoves, WriterType DEF Rename, Rotating
  <2>2. CASE writer.gen = 0
    <3>1. writer'.pc = "append"
      BY <1>4, <2>2 DEF Rename, NextRename, TypeOK
    <3> QED BY <1>1, <3>1 DEF Rotating
  <2>3. CASE writer.gen # 0
    <3>1. writer'.pc = "rename" /\ writer'.gen = writer.gen - 1
      BY <1>4, <2>3 DEF Rename, NextRename, TypeOK
    <3>2. writer'.gen < Backups /\ writer'.gen + 1 = writer.gen
      BY <2>1, <3>1, AuditAssumption
    <3> QED BY <1>1, <2>1, <3>1, <3>2 DEF Rotating
  <2> QED BY <2>2, <2>3
<1>5. CASE RotationFails
  <2>1. writer'.pc = "append"
    BY <1>5 DEF RotationFails, RotationEnds, TypeOK
  <2> QED BY <1>1, <2>1 DEF Rotating
<1>6. CASE AppendLine \/ WriteInterrupted \/ Crash
  <2>1. writer'.pc = "idle"
    BY <1>6, UnlockedFacts DEF AppendLine, WriteInterrupted, Crash
  <2> QED BY <1>1, <2>1 DEF Rotating
<1>7. CASE UNCHANGED <<file, writer>>
  BY <1>7 DEF Rotating
<1>8. ASSUME NEW p \in Readers, Query(p) \/ ListFile(p) \/ ReadFile(p)
      PROVE  UNCHANGED <<file, writer>>
  BY <1>8 DEF Query, ListFile, ReadFile
<1>9. UNCHANGED vars => UNCHANGED <<file, writer>>
  BY DEF vars
<1>10. ASSUME NEW n \in LineSizes, Record(n) PROVE Rotating'
  BY <1>1, <1>2, <1>10 DEF Rotating
<1> QED BY <1>3, <1>4, <1>5, <1>6, <1>7, <1>8, <1>9, <1>10 DEF Next

(***************************************************************************)
(* The numbers on the lines.                                               *)
(***************************************************************************)
LEMMA CountType ==
  ASSUME TypeOK
  PROVE  count \in Nat /\ Malformed \in Nat /\ Malformed = 0 /\ faults \in Nat
BY AuditAssumption DEF TypeOK, Malformed

\* A line of the live file after a write: an old one, spoilt perhaps, or a new one.
LEMMA WrittenLine ==
  ASSUME TypeOK, Rotating, NEW line \in Nat, NEW open \in BOOLEAN, Write(line, open),
         NEW i \in 1..Len(file'[0].lines)
  PROVE  \/ file'[0].lines[i] = Malformed
         \/ i \in Lines(0) /\ file'[0].lines[i] = file[0].lines[i]
         \/ i = Len(file[0].lines) + 1 /\ ~file[0].open /\ file'[0].lines[i] = line
<1>1. Len(file[0].lines) \in Nat
  BY FileType, GensType
<1>2. i \in 1..Len(file[0].lines) \/ (i = Len(file[0].lines) + 1 /\ ~file[0].open)
  BY <1>1, WriteFacts
<1>3. CASE i \in 1..Len(file[0].lines)
  BY <1>3, WriteFacts DEF Lines
<1>4. CASE i = Len(file[0].lines) + 1 /\ ~file[0].open
  BY <1>4, WriteFacts
<1> QED BY <1>2, <1>3, <1>4

\* Where a line has been before a step: in the same file or a newer one.
LEMMA LineOrigin ==
  ASSUME TypeOK, Rotating, [Next]_vars, NEW g \in Gens, NEW i \in 1..Len(file'[g].lines)
  PROVE  \/ file'[g].lines[i] = Malformed
         \/ \E h \in Gens : h <= g /\ \E j \in Lines(h) : file'[g].lines[i] = file[h].lines[j]
         \/ file'[g].lines[i] = count /\ (AppendLine \/ WriteInterrupted)
<1>1. g \in Nat /\ g <= g
  BY GensType
<1>2. CASE UNCHANGED file
  BY <1>1, <1>2 DEF Lines
<1>3. CASE Moves
  BY <1>3, EmptyType DEF Moves, Lines
<1>4. ASSUME AppendLine \/ WriteInterrupted, NEW line \in {Malformed, count},
             NEW open \in BOOLEAN, Write(line, open)
      PROVE  \/ file'[g].lines[i] = Malformed
             \/ \E h \in Gens :
                  h <= g /\ \E j \in Lines(h) : file'[g].lines[i] = file[h].lines[j]
             \/ file'[g].lines[i] = count /\ (AppendLine \/ WriteInterrupted)
  <2>1. line \in Nat
    BY CountType
  <2>2. CASE g = 0
    BY <1>1, <1>4, <2>1, <2>2, WrittenLine
  <2>3. CASE g # 0
    <3>1. file'[g] = file[g]
      BY <1>4, <2>1, <2>3, WriteFacts
    <3> QED BY <1>1, <3>1 DEF Lines
  <2> QED BY <2>2, <2>3
<1> QED BY <1>2, <1>3, <1>4, FileSteps

LEMMA NumberedKept ==
  ASSUME TypeOK, Rotating, Numbered, [Next]_vars
  PROVE  Numbered'
<1> USE CountType
<1>1. count' \in {count, count + 1} /\ recorded' \in {recorded, recorded \cup {count}}
  BY DEF Next, vars, Record, Unlink, Rename, RotationFails, AppendLine, WriteInterrupted,
         Crash, Query, ListFile, ReadFile
<1>2. AppendLine \/ WriteInterrupted => writer.pc = "append" /\ writer'.pc = "idle"
  BY UnlockedFacts DEF AppendLine, WriteInterrupted
<1>3. ASSUME NEW g \in Gens, NEW i \in 1..Len(file'[g].lines)
      PROVE  file'[g].lines[i] <= count
  BY <1>2, LineOrigin, FileType DEF Numbered
<1>4. ASSUME NEW g \in Gens, NEW i \in 1..Len(file'[g].lines),
             writer.pc # "idle", writer'.pc # "idle"
      PROVE  file'[g].lines[i] < count
  BY <1>2, <1>4, LineOrigin, FileType DEF Numbered
<1>5. ASSUME NEW g \in Gens, NEW i \in 1..Len(file'[g].lines)
      PROVE  file'[g].lines[i] \in Nat
  <2>1. file'[g] \in Contents
    BY FilesTyped
  <2>2. file'[g].lines \in Seq(Nat)
    BY <2>1 DEF Contents
  <2> QED BY <2>2, ElementOfSeq
<1>6. recorded' \subseteq 1..count'
  <2>1. AppendLine => count \in 1..count
    BY <1>2 DEF Numbered
  <2>2. recorded' = recorded \/ AppendLine
    BY DEF Next, vars, Record, Unlink, Rename, RotationFails, WriteInterrupted,
           Crash, Query, ListFile, ReadFile
  <2>3. AppendLine => count' = count
    BY DEF AppendLine
  <2> QED BY <1>1, <2>1, <2>2, <2>3 DEF Numbered
<1>7. CASE writer'.pc # "idle" /\ writer.pc # "idle"
  <2>1. count' = count /\ recorded' = recorded
    BY <1>2, <1>7 DEF Next, vars, Record, Unlink, Rename, RotationFails, Crash, AppendLine,
                      WriteInterrupted, Query, ListFile, ReadFile
  <2>2. \A g \in Gens : \A i \in 1..Len(file'[g].lines) : file'[g].lines[i] < count'
    BY <1>4, <1>7, <2>1
  <2> QED BY <1>3, <1>6, <1>7, <2>1, <2>2 DEF Numbered, Lines
<1>8. CASE writer'.pc # "idle" /\ writer.pc = "idle"
  <2>1. count' = count + 1 /\ recorded' = recorded
    BY <1>8 DEF Next, vars, Record, Unlink, Rename, RotationFails, AppendLine,
                WriteInterrupted, Crash, Query, ListFile, ReadFile
  <2>2. \A g \in Gens : \A i \in 1..Len(file'[g].lines) :
          file'[g].lines[i] < count' /\ file'[g].lines[i] <= count'
    BY <1>3, <1>5, <2>1
  <2>3. count' > 0 /\ count' \notin recorded'
    BY <2>1 DEF Numbered
  <2> QED BY <1>6, <2>2, <2>3 DEF Numbered, Lines
<1>9. CASE writer'.pc = "idle"
  <2>1. \A g \in Gens : \A i \in 1..Len(file'[g].lines) : file'[g].lines[i] <= count'
    BY <1>1, <1>3, <1>5
  <2> QED BY <1>6, <1>9, <2>1 DEF Numbered, Lines
<1> QED BY <1>7, <1>8, <1>9

(***************************************************************************)
(* Their order.                                                            *)
(***************************************************************************)
LEMMA OrderedMoves ==
  ASSUME TypeOK, Ordered, Moves
  PROVE  Ordered'
<1>1. PICK from \in [Gens -> Gens] :
        /\ \A g \in Gens : from[g] <= g /\ file'[g] \in {Empty, file[from[g]]}
        /\ \A g, h \in Gens : g > h /\ file'[g] # Empty /\ file'[h] # Empty => from[g] > from[h]
  BY DEF Moves
<1> SUFFICES ASSUME NEW g \in Gens, NEW h \in Gens, NEW i \in 1..Len(file'[g].lines),
                    NEW j \in 1..Len(file'[h].lines), g > h \/ (g = h /\ i < j)
             PROVE  \/ file'[g].lines[i] = Malformed \/ file'[h].lines[j] = Malformed
                    \/ file'[g].lines[i] < file'[h].lines[j]
  BY DEF Ordered, Lines
<1>2. file'[g] # Empty /\ file'[h] # Empty
  BY EmptyType
<1>3. /\ file'[g] = file[from[g]] /\ file'[h] = file[from[h]]
      /\ from[g] \in Gens /\ from[h] \in Gens
  BY <1>1, <1>2
<1>4. from[g] > from[h] \/ (from[g] = from[h] /\ i < j)
  BY <1>1, <1>2
<1>5. i \in Lines(from[g]) /\ j \in Lines(from[h])
  BY <1>3 DEF Lines
<1> QED BY <1>3, <1>4, <1>5 DEF Ordered

LEMMA OrderedWrite ==
  ASSUME TypeOK, Rotating, Numbered, Ordered, writer.pc # "idle",
         NEW line \in {Malformed, count}, NEW open \in BOOLEAN, Write(line, open)
  PROVE  Ordered'
<1>0. line \in Nat /\ Len(file[0].lines) \in Nat
  BY CountType, FileType, GensType
<1> SUFFICES ASSUME NEW g \in Gens, NEW h \in Gens, NEW i \in 1..Len(file'[g].lines),
                    NEW j \in 1..Len(file'[h].lines), g > h \/ (g = h /\ i < j)
             PROVE  \/ file'[g].lines[i] = Malformed \/ file'[h].lines[j] = Malformed
                    \/ file'[g].lines[i] < file'[h].lines[j]
  BY DEF Ordered, Lines
<1>1. \A f \in Gens \ {0} : file'[f] = file[f]
  BY <1>0, WriteFacts
<1>2. CASE h # 0
  <2>1. g # 0
    BY <1>2, GensType
  <2> QED BY <1>1, <1>2, <2>1 DEF Ordered, Lines
<1>3. CASE h = 0
  <2>1. \/ file'[0].lines[j] = Malformed
        \/ j \in Lines(0) /\ file'[0].lines[j] = file[0].lines[j]
        \/ j = Len(file[0].lines) + 1 /\ ~file[0].open /\ file'[0].lines[j] = line
    BY <1>0, <1>3, WrittenLine
  <2>2. CASE g # 0
    <3>1. file'[g] = file[g] /\ i \in Lines(g) /\ g > 0
      BY <1>1, <2>2, GensType DEF Lines
    <3>2. file[g].lines[i] < count
      BY <3>1 DEF Numbered
    <3> QED BY <1>3, <2>1, <3>1, <3>2 DEF Ordered
  <2>3. CASE g = 0
    <3>1. i < j
      BY <1>3, <2>3
    <3>2. i \in Lines(0)
      BY <1>0, <1>3, <2>3, <3>1, WriteFacts DEF Lines
    <3>3. file'[0].lines[i] = Malformed \/ file'[0].lines[i] = file[0].lines[i]
      BY <1>0, <3>2, WriteFacts DEF Lines
    <3>4. file[0].lines[i] < count
      BY <3>2, GensType DEF Numbered
    <3> QED BY <1>3, <2>1, <2>3, <3>1, <3>2, <3>3, <3>4 DEF Ordered
  <2> QED BY <2>2, <2>3
<1> QED BY <1>2, <1>3

LEMMA OrderedKept ==
  ASSUME TypeOK, Rotating, Numbered, Ordered, [Next]_vars
  PROVE  Ordered'
<1>1. UNCHANGED file => Ordered'
  BY DEF Ordered, Lines
<1>2. AppendLine \/ WriteInterrupted => writer.pc # "idle"
  BY DEF AppendLine, WriteInterrupted
<1> QED BY <1>1, <1>2, FileSteps, OrderedMoves, OrderedWrite

(***************************************************************************)
(* Queries.                                                                *)
(***************************************************************************)
LEMMA NewestIncreasing ==
  ASSUME NEW s \in Seq(Nat), Increasing(s)
  PROVE  Increasing(Newest(s))
<1>1. PICK d \in Nat : /\ Len(Newest(s)) + d = Len(s)
                       /\ \A k \in 1..Len(Newest(s)) : Newest(s)[k] = s[k + d]
  BY NewestFacts
<1>2. Len(Newest(s)) \in Nat /\ Len(s) \in Nat
  BY NewestFacts, LenProperties
<1>3. \A k \in 1..Len(Newest(s)) : k + d \in 1..Len(s)
  BY <1>1, <1>2
<1>4. \A i, j \in 1..Len(Newest(s)) : i < j => i + d < j + d
  BY <1>2
<1> QED BY <1>1, <1>3, <1>4 DEF Increasing

LEMMA ConcatIncreasing ==
  ASSUME NEW a \in Seq(Nat), NEW b \in Seq(Nat), Increasing(a), Increasing(b),
         \A i \in 1..Len(a), j \in 1..Len(b) : a[i] < b[j]
  PROVE  /\ a \o b \in Seq(Nat) /\ Increasing(a \o b)
         /\ \A k \in 1..Len(a \o b) : \/ \E m \in 1..Len(a) : (a \o b)[k] = a[m]
                                      \/ \E m \in 1..Len(b) : (a \o b)[k] = b[m]
<1>1. Len(a) \in Nat /\ Len(b) \in Nat
  BY LenProperties
<1>2. PICK s \in Seq(Nat) : s = a \o b
  BY ConcatProperties
<1>3. /\ Len(s) = Len(a) + Len(b)
      /\ \A k \in 1..Len(a) + Len(b) : s[k] = IF k <= Len(a) THEN a[k] ELSE b[k - Len(a)]
  BY <1>2, ConcatProperties
<1>4. ASSUME NEW k \in 1..Len(s)
      PROVE  \/ k \in 1..Len(a) /\ s[k] = a[k]
             \/ /\ k > Len(a) /\ k - Len(a) \in 1..Len(b)
                /\ s[k] = b[k - Len(a)]
  BY <1>1, <1>3
<1>5. ASSUME NEW i \in 1..Len(s), NEW j \in 1..Len(s), i < j
      PROVE  s[i] < s[j]
  <2>1. CASE j \in 1..Len(a) /\ s[j] = a[j]
    <3>1. i \in 1..Len(a) /\ s[i] = a[i]
      BY <1>1, <1>4, <1>5, <2>1
    <3> QED BY <1>5, <2>1, <3>1 DEF Increasing
  <2>2. ASSUME j > Len(a), j - Len(a) \in 1..Len(b), s[j] = b[j - Len(a)]
        PROVE  s[i] < s[j]
    <3>1. CASE i \in 1..Len(a) /\ s[i] = a[i]
      BY <2>2, <3>1
    <3>2. CASE i > Len(a) /\ i - Len(a) \in 1..Len(b) /\ s[i] = b[i - Len(a)]
      <4>1. i - Len(a) < j - Len(a)
        BY <1>1, <1>3, <1>5
      <4> QED BY <2>2, <3>2, <4>1 DEF Increasing
    <3> QED BY <1>4, <3>1, <3>2
  <2> QED BY <1>4, <2>1, <2>2
<1>6. Increasing(s)
  BY <1>5 DEF Increasing
<1> QED BY <1>2, <1>4, <1>6

\* A query's next file is newer than all it has got.
LEMMA Extended ==
  ASSUME TypeOK, Ordered, Reading, NEW p \in Readers, reader[p].pc = "read",
         NEW g \in Gens, g + reader[p].next = Backups
  PROVE  LET s == reader[p].got \o Records(file[g]) IN
         /\ s \in Seq(Nat) /\ Increasing(s)
         /\ \A k \in 1..Len(s) :
              \/ \E m \in 1..Len(reader[p].got) : s[k] = reader[p].got[m]
              \/ \E i \in Lines(g) :
                   file[g].lines[i] # Malformed /\ s[k] = file[g].lines[i]
<1> DEFINE got == reader[p].got
           more == Records(file[g])
<1>1. got \in Seq(Nat) /\ file[g] \in Contents /\ more \in Seq(Nat)
  BY ReaderFacts, FileType, RecordsFacts
<1>2. PICK at \in [1..Len(more) -> Places(file[g])] :
        /\ \A k \in 1..Len(more) : more[k] = file[g].lines[at[k]]
        /\ \A k, m \in 1..Len(more) : k < m => at[k] < at[m]
  BY <1>1, RecordsFacts
<1>3. \A k \in 1..Len(more) :
        at[k] \in Lines(g) /\ file[g].lines[at[k]] # Malformed
  BY DEF Places, Lines
<1>4. /\ Increasing(got)
      /\ \A k \in 1..Len(got) : \A i \in Lines(g) :
           file[g].lines[i] # Malformed => got[k] < file[g].lines[i]
  <2>1. g + reader[p].next <= Backups
    BY AuditAssumption
  <2> QED BY <2>1 DEF Reading
<1> HIDE DEF got, more
<1>5. \A k, m \in 1..Len(more) : k < m => more[k] < more[m]
  <2> SUFFICES ASSUME NEW k \in 1..Len(more), NEW m \in 1..Len(more), k < m
               PROVE  more[k] < more[m]
    OBVIOUS
  <2>1. at[k] < at[m] /\ at[k] \in Lines(g) /\ at[m] \in Lines(g)
    BY <1>2, <1>3
  <2> QED BY <1>2, <1>3, <2>1 DEF Ordered
<1>6. \A k \in 1..Len(got), m \in 1..Len(more) : got[k] < more[m]
  BY <1>2, <1>3, <1>4
<1>7. /\ got \o more \in Seq(Nat) /\ Increasing(got \o more)
      /\ \A k \in 1..Len(got \o more) :
           \/ \E m \in 1..Len(got) : (got \o more)[k] = got[m]
           \/ \E m \in 1..Len(more) : (got \o more)[k] = more[m]
  <2>1. Increasing(more)
    BY <1>5 DEF Increasing
  <2> QED BY <1>1, <1>4, <1>6, <2>1, ConcatIncreasing
<1>8. ASSUME NEW k \in 1..Len(got \o more)
      PROVE  \/ \E m \in 1..Len(got) : (got \o more)[k] = got[m]
             \/ \E i \in Lines(g) :
                  file[g].lines[i] # Malformed /\ (got \o more)[k] = file[g].lines[i]
  BY <1>2, <1>3, <1>7
<1> QED BY <1>7, <1>8 DEF got, more

\* What a query has read against what is still to read, for one query.
Past(p) ==
  \A k \in 1..Len(reader[p].got) :
    /\ reader[p].got[k] <= count
    /\ writer.pc # "idle" => reader[p].got[k] < count
    /\ \A g \in Gens : \A i \in Lines(g) :
         g + reader[p].next <= Backups /\ file[g].lines[i] # Malformed =>
           reader[p].got[k] < file[g].lines[i]

LEMMA ReadFileKeeps ==
  ASSUME TypeOK, Numbered, Ordered, Reading, NEW p \in Readers, ReadFile(p)
  PROVE  /\ Increasing(reader'[p].got)
         /\ reader'[p].pc # "list"
         /\ reader'[p].pc = "read" => Past(p)'
<1> DEFINE g == OldestFirst(reader[p].next)
<1>1. /\ UNCHANGED <<file, writer, count>> /\ reader[p].pc = "read"
      /\ reader'[p].pc \in {"idle", "read"}
      /\ reader'[p].pc = "read" => reader'[p].next = reader[p].next + 1
  BY ReadFileBecomes DEF ReadFile
<1>2. /\ g \in Gens /\ g + reader[p].next = Backups
      /\ reader[p].got \in Seq(Nat) /\ reader[p].next \in Nat
  BY ReaderFacts
<1>3. PICK s : s = reader[p].got \o Records(file[g])
  OBVIOUS
<1>4. /\ s \in Seq(Nat) /\ Increasing(s)
      /\ \A k \in 1..Len(s) :
           \/ \E m \in 1..Len(reader[p].got) : s[k] = reader[p].got[m]
           \/ \E i \in Lines(g) : file[g].lines[i] # Malformed /\ s[k] = file[g].lines[i]
  BY <1>1, <1>2, <1>3, Extended
<1>5. reader'[p].got \in {reader[p].got, Newest(s)}
  BY <1>3, ReadFileBecomes
<1> HIDE DEF g
<1>6. PICK got : got = reader'[p].got
  OBVIOUS
<1>7. Increasing(got) /\ got \in Seq(Nat)
  BY <1>1, <1>2, <1>4, <1>5, <1>6, NewestIncreasing, NewestFacts DEF Reading
<1>8. ASSUME NEW k \in 1..Len(got)
      PROVE  \/ \E m \in 1..Len(reader[p].got) : got[k] = reader[p].got[m]
             \/ \E i \in Lines(g) : file[g].lines[i] # Malformed /\ got[k] = file[g].lines[i]
  <2>1. CASE got = reader[p].got
    BY <2>1
  <2>2. CASE got = Newest(s)
    <3>1. PICK d \in Nat : /\ Len(got) + d = Len(s)
                           /\ \A m \in 1..Len(got) : got[m] = s[m + d]
      BY <1>4, <2>2, NewestFacts
    <3>2. k + d \in 1..Len(s) /\ got[k] = s[k + d]
      BY <1>4, <1>7, <3>1, LenProperties
    <3> QED BY <1>4, <3>2
  <2> QED BY <1>5, <1>6, <2>1, <2>2
<1>9. ASSUME NEW k \in 1..Len(got), reader'[p].pc = "read"
      PROVE  /\ got[k] <= count
             /\ writer.pc # "idle" => got[k] < count
             /\ \A h \in Gens : \A i \in Lines(h) :
                  h + reader'[p].next <= Backups /\ file[h].lines[i] # Malformed =>
                    got[k] < file[h].lines[i]
  <2>1. reader'[p].next = reader[p].next + 1
    BY <1>1, <1>9
  <2>2. \A h \in Gens : h + reader'[p].next <= Backups => g > h /\ h + reader[p].next <= Backups
    BY <1>2, <2>1, AuditAssumption, GensType
  <2>3. CASE \E m \in 1..Len(reader[p].got) : got[k] = reader[p].got[m]
    BY <1>1, <2>2, <2>3 DEF Reading
  <2>4. ASSUME NEW j \in Lines(g), file[g].lines[j] # Malformed, got[k] = file[g].lines[j]
        PROVE  /\ got[k] <= count
               /\ writer.pc # "idle" => got[k] < count
               /\ \A h \in Gens : \A i \in Lines(h) :
                    h + reader'[p].next <= Backups /\ file[h].lines[i] # Malformed =>
                      got[k] < file[h].lines[i]
    BY <1>2, <2>2, <2>4 DEF Numbered, Ordered
  <2> QED BY <1>8, <2>3, <2>4
<1>10. reader'[p].pc = "read" => Past(p)'
  BY <1>1, <1>6, <1>9 DEF Past, Lines
<1> QED BY <1>1, <1>6, <1>7, <1>10

\* A query that stands still, while a call of record() goes on.
LEMMA WriterKeepsReading ==
  ASSUME TypeOK, Rotating, Numbered, Reading, [Next]_vars, NEW p \in Readers,
         reader'[p] = reader[p], reader[p].pc = "read"
  PROVE  Past(p)'
<1> USE CountType
<1>1. count' \in {count, count + 1} /\ (writer'.pc # "idle" /\ writer.pc = "idle" => count' = count + 1)
  BY DEF Next, vars, Record, Unlink, Rename, RotationFails, AppendLine, WriteInterrupted,
         Crash, Query, ListFile, ReadFile
<1>2. AppendLine \/ WriteInterrupted => writer.pc = "append"
  BY DEF AppendLine, WriteInterrupted
<1> SUFFICES ASSUME NEW k \in 1..Len(reader[p].got)
             PROVE  /\ reader[p].got[k] <= count'
                    /\ writer'.pc # "idle" => reader[p].got[k] < count'
                    /\ \A g \in Gens : \A i \in 1..Len(file'[g].lines) :
                         g + reader[p].next <= Backups /\ file'[g].lines[i] # Malformed =>
                           reader[p].got[k] < file'[g].lines[i]
  BY DEF Past, Lines
<1>3. reader[p].got[k] \in Nat
  BY ReaderFacts, ElementOfSeq
<1>4. reader[p].got[k] <= count /\ (writer.pc # "idle" => reader[p].got[k] < count)
  BY DEF Reading
<1>5. ASSUME NEW g \in Gens, NEW i \in 1..Len(file'[g].lines),
             g + reader[p].next <= Backups, file'[g].lines[i] # Malformed
      PROVE  reader[p].got[k] < file'[g].lines[i]
  <2>1. CASE \E h \in Gens : h <= g /\ \E j \in Lines(h) : file'[g].lines[i] = file[h].lines[j]
    <3>1. PICK h \in Gens : h <= g /\ \E j \in Lines(h) : file'[g].lines[i] = file[h].lines[j]
      BY <2>1
    <3>2. h + reader[p].next <= Backups
      BY <1>5, <3>1, ReaderFacts, GensType, AuditAssumption
    <3> QED BY <1>5, <3>1, <3>2 DEF Reading
  <2>2. CASE file'[g].lines[i] = count /\ (AppendLine \/ WriteInterrupted)
    BY <1>2, <1>4, <2>2
  <2> QED BY <1>5, <2>1, <2>2, LineOrigin
<1> QED BY <1>1, <1>3, <1>4, <1>5

LEMMA ReadingKept ==
  ASSUME TypeOK, Rotating, Numbered, Ordered, Reading, [Next]_vars
  PROVE  Reading'
<1>1. ASSUME NEW p \in Readers
      PROVE  /\ Increasing(reader'[p].got)
             /\ reader'[p].pc = "list" => reader'[p].got = <<>>
             /\ reader'[p].pc = "read" => Past(p)'
  <2>1. CASE reader'[p] = reader[p]
    BY <2>1, WriterKeepsReading DEF Reading
  <2>2. CASE Query(p)
    <3>1. reader'[p].got = <<>> /\ reader'[p].pc = "list"
      BY <2>2, QueryBecomes
    <3> QED BY <3>1, EmptySeq DEF Increasing
  <2>3. CASE ListFile(p)
    <3>1. reader'[p].got = <<>>
      BY <2>3, ListFileBecomes DEF Reading
    <3> QED BY <3>1, EmptySeq DEF Increasing, Past
  <2>4. CASE ReadFile(p)
    BY <2>4, ReadFileKeeps
  <2>5. \/ \E q \in Readers \ {p} : Query(q) \/ ListFile(q) \/ ReadFile(q)
        \/ Query(p) \/ ListFile(p) \/ ReadFile(p)
        \/ UNCHANGED reader
    BY DEF Next, vars, Record, Unlink, Rename, RotationFails, AppendLine, WriteInterrupted,
           Crash
  <2>6. ASSUME NEW q \in Readers \ {p}, Query(q) \/ ListFile(q) \/ ReadFile(q)
        PROVE  reader'[p] = reader[p]
    BY <2>6, QueryBecomes, ListFileBecomes, ReadFileBecomes
  <2> QED BY <2>1, <2>2, <2>3, <2>4, <2>5, <2>6
<1> QED BY <1>1 DEF Reading, Past

(***************************************************************************)
(* Torn lines.                                                             *)
(***************************************************************************)
LEMMA RecordedSteps ==
  ASSUME [Next]_vars
  PROVE  /\ AppendLine \/ UNCHANGED recorded
         /\ faults' \in {faults, faults + 1}
         /\ AppendLine \/ WriteInterrupted =>
              writer.pc = "append" /\ UNCHANGED count
         /\ WriteInterrupted => faults' = faults + 1 /\ UNCHANGED recorded
BY DEF Next, vars, Record, Unlink, Rename, RotationFails, AppendLine, WriteInterrupted,
       Crash, Query, ListFile, ReadFile

\* The two ways to write: a whole line, or a torn one.
LEMMA TornAppend ==
  ASSUME TypeOK, Rotating, Numbered, Torn, AppendLine, faults' = faults
  PROVE  Torn'
<1>1. /\ count \in Nat /\ writer.pc # "idle" /\ Write(count, FALSE)
      /\ recorded' = IF file[0].open THEN recorded ELSE recorded \cup {count}
  BY CountType DEF AppendLine, Write
<1>2. /\ \A g \in Gens \ {0} : file'[g] = file[g]
      /\ ~file'[0].open
  BY <1>1, WriteFacts
<1>3. ASSUME NEW g \in Gens, file'[g].open
      PROVE  file'[g].lines[Len(file'[g].lines)] \notin recorded'
  <2>1. g # 0 /\ file'[g] = file[g] /\ file[g].open
    BY <1>2, <1>3
  <2>2. Len(file[g].lines) \in Lines(g)
    BY <2>1, FileType DEF Rotating, Lines
  <2>3. file[g].lines[Len(file[g].lines)] < count
    BY <1>1, <2>2 DEF Numbered
  <2> QED BY <1>1, <2>1, <2>3 DEF Torn
<1>4. ASSUME faults = 0, NEW g \in Gens
      PROVE  ~file'[g].open /\ \A i \in 1..Len(file'[g].lines) : file'[g].lines[i] \in recorded'
  <2>1. ~file[0].open /\ recorded' = recorded \cup {count}
    BY <1>1, <1>4, GensType DEF Torn
  <2>2. CASE g # 0
    BY <1>2, <1>4, <2>1, <2>2 DEF Torn, Lines
  <2>3. CASE g = 0
    <3>1. \A i \in 1..Len(file'[0].lines) :
            file'[0].lines[i] = count \/ file'[0].lines[i] \in recorded
      <4> SUFFICES ASSUME NEW i \in 1..Len(file'[0].lines)
                   PROVE  file'[0].lines[i] = count \/ file'[0].lines[i] \in recorded
        OBVIOUS
      <4>1. Len(file[0].lines) \in Nat
        BY FileType, GensType
      <4>2. i \in 1..Len(file[0].lines) \/ i = Len(file'[0].lines)
        <5>1. Len(file'[0].lines) = Len(file[0].lines) + 1
          BY <1>1, <2>1, WriteFacts
        <5> QED BY <4>1, <5>1
      <4>3. i \in 1..Len(file[0].lines) => file'[0].lines[i] = file[0].lines[i]
        BY <1>1, <2>1, WriteFacts
      <4>4. file'[0].lines[Len(file'[0].lines)] = count
        BY <1>1, <2>1, WriteFacts
      <4> QED BY <1>4, <4>2, <4>3, <4>4, GensType DEF Torn, Lines
    <3> QED BY <1>2, <2>1, <2>3, <3>1
  <2> QED BY <2>2, <2>3
<1> QED BY <1>3, <1>4 DEF Torn, Lines

LEMMA TornWrite ==
  ASSUME TypeOK, Rotating, Numbered, Torn, writer.pc # "idle", UNCHANGED recorded,
         faults' = faults + 1,
         NEW line \in {Malformed, count}, Write(line, TRUE)
  PROVE  Torn'
<1>1. line \in Nat /\ line \notin recorded /\ Malformed \notin recorded /\ faults' # 0
  BY CountType DEF Numbered
<1>2. /\ \A g \in Gens \ {0} : file'[g] = file[g]
      /\ file'[0].lines[Len(file'[0].lines)] \in {Malformed, line}
  BY <1>1, WriteFacts
<1>3. ASSUME NEW g \in Gens, file'[g].open
      PROVE  file'[g].lines[Len(file'[g].lines)] \notin recorded
  BY <1>1, <1>2, <1>3 DEF Torn
<1> QED BY <1>1, <1>3 DEF Torn

LEMMA TornKept ==
  ASSUME TypeOK, Rotating, Numbered, Torn, [Next]_vars
  PROVE  Torn'
<1> USE CountType, RecordedSteps
<1>1. CASE AppendLine
  <2>1. faults' = faults
    BY <1>1 DEF AppendLine
  <2> QED BY <1>1, <2>1, TornAppend
<1>2. CASE ~AppendLine /\ UNCHANGED file
  BY <1>2 DEF Torn, Lines
<1>3. CASE ~AppendLine /\ Moves
  <2>1. PICK from \in [Gens -> Gens] :
          \A g \in Gens : file'[g] \in {Empty, file[from[g]]}
    BY <1>3 DEF Moves
  <2>2. ASSUME NEW g \in Gens
        PROVE  /\ file'[g].open => file'[g].lines[Len(file'[g].lines)] \notin recorded
               /\ faults = 0 =>
                    ~file'[g].open /\ \A i \in 1..Len(file'[g].lines) : file'[g].lines[i] \in recorded
    <3>1. CASE file'[g] = Empty
      BY <3>1, EmptyType
    <3>2. CASE file'[g] = file[from[g]]
      <4>1. from[g] \in Gens
        OBVIOUS
      <4> QED BY <3>2, <4>1 DEF Torn, Lines
    <3> QED BY <2>1, <3>1, <3>2
  <2>3. recorded' = recorded /\ (faults' = 0 => faults = 0)
    BY <1>3
  <2> QED BY <2>2, <2>3 DEF Torn, Lines
<1>4. CASE WriteInterrupted /\ \E line \in {Malformed, count} : Write(line, TRUE)
  BY <1>4, TornWrite
<1> QED BY <1>1, <1>2, <1>3, <1>4, FileSteps

(***************************************************************************)
(* The window.                                                             *)
(***************************************************************************)
Held(n) == \E g \in Gens : \E i \in Lines(g) : file[g].lines[i] = n

\* OnlyOlderDropped, over the lines instead of the set Kept.
Window ==
  /\ \A m, n \in recorded : Held(n) /\ m > n => Held(m)
  /\ faults = 0 => \A n \in recorded : Held(n) \/ \E m \in recorded : m > n

LEMMA WindowMeaning ==
  ASSUME Numbered, Window
  PROVE  OnlyOlderDropped
<1>1. \A n \in 1..count : n \in Kept <=> Held(n)
  BY DEF Kept, Held, Lines
<1>2. \A n \in recorded : n \in Kept <=> Held(n)
  BY <1>1 DEF Numbered
<1> QED BY <1>2 DEF Window, OnlyOlderDropped

\* Renaming and writing lose no record.
LEMMA HeldAfterRename ==
  ASSUME TypeOK, Rotating, Rename, NEW n
  PROVE  Held(n)' <=> Held(n)
<1>1. /\ file'[writer.gen] = Empty /\ file'[writer.gen + 1] = file[writer.gen]
      /\ \A g \in Gens : g # writer.gen /\ g # writer.gen + 1 => file'[g] = file[g]
      /\ writer.gen + 1 \in Gens /\ writer.gen \in Gens
      /\ file[writer.gen + 1] = Empty
  BY RenameMoves, WriterType DEF Rename, Rotating
<1>2. ASSUME NEW g \in Gens, NEW i \in 1..Len(file'[g].lines), file'[g].lines[i] = n
      PROVE  Held(n)
  <2>1. g # writer.gen
    BY <1>1, EmptyType
  <2>2. CASE g = writer.gen + 1
    BY <1>1, <1>2, <2>2 DEF Held, Lines
  <2>3. CASE g # writer.gen + 1
    BY <1>1, <1>2, <2>1, <2>3 DEF Held, Lines
  <2> QED BY <2>2, <2>3
<1>3. ASSUME NEW g \in Gens, NEW i \in Lines(g), file[g].lines[i] = n
      PROVE  \E h \in Gens : \E j \in 1..Len(file'[h].lines) : file'[h].lines[j] = n
  <2>1. g # writer.gen + 1
    BY <1>1, EmptyType DEF Lines
  <2>2. CASE g = writer.gen
    BY <1>1, <1>3, <2>2 DEF Lines
  <2>3. CASE g # writer.gen
    BY <1>1, <1>3, <2>1, <2>3 DEF Lines
  <2> QED BY <2>2, <2>3
<1> QED BY <1>2, <1>3 DEF Held, Lines

LEMMA HeldAfterWrite ==
  ASSUME TypeOK, Rotating, Numbered, Torn, writer.pc # "idle",
         NEW line \in {Malformed, count}, NEW open \in BOOLEAN, Write(line, open),
         NEW n \in recorded
  PROVE  Held(n)' <=> Held(n)
<1>1. line \in Nat /\ n # Malformed /\ n # line /\ 0 \in Gens
  BY CountType, GensType DEF Numbered
<1>2. \A g \in Gens \ {0} : file'[g] = file[g]
  BY <1>1, WriteFacts
<1>3. ASSUME NEW g \in Gens, NEW i \in 1..Len(file'[g].lines), file'[g].lines[i] = n
      PROVE  Held(n)
  <2>1. CASE g = 0
    BY <1>1, <1>3, <2>1, WrittenLine DEF Held
  <2>2. CASE g # 0
    BY <1>2, <1>3, <2>2 DEF Held, Lines
  <2> QED BY <2>1, <2>2
<1>4. ASSUME NEW g \in Gens, NEW i \in Lines(g), file[g].lines[i] = n
      PROVE  \E h \in Gens : \E j \in 1..Len(file'[h].lines) : file'[h].lines[j] = n
  <2>1. CASE g = 0
    <3>1. ~(file[0].open /\ i = Len(file[0].lines))
      BY <1>4, <2>1 DEF Torn
    <3>2. file'[0].lines[i] = n
      BY <1>1, <1>4, <2>1, <3>1, WriteFacts DEF Lines
    <3>3. i \in 1..Len(file'[0].lines)
      BY <1>1, <2>1, WriteFacts, FileType DEF Lines
    <3> QED BY <2>1, <3>2, <3>3
  <2>2. CASE g # 0
    BY <1>2, <1>4, <2>2 DEF Lines
  <2> QED BY <2>1, <2>2
<1> QED BY <1>3, <1>4 DEF Held, Lines

\* The step that drops the oldest file: nothing older is left behind, and, while
\* the disk is without faults, something newer is.
LEMMA WindowAfterUnlink ==
  ASSUME TypeOK, Rotating, Numbered, Ordered, Torn, Window, Unlink
  PROVE  Window'
<1> USE CountType
<1>1. /\ file'[Backups] = Empty
      /\ \A g \in Gens : g # Backups => file'[g] = file[g]
      /\ UNCHANGED <<recorded, faults>>
      /\ writer.pc = "unlink"
  BY UnlinkMoves DEF Unlink
<1>2. ASSUME NEW n, NEW g \in Gens, NEW i \in 1..Len(file'[g].lines), file'[g].lines[i] = n
      PROVE  g < Backups /\ i \in Lines(g) /\ file[g].lines[i] = n
  <2>1. g # Backups
    BY <1>1, EmptyType
  <2> QED BY <1>1, <1>2, <2>1, GensType, AuditAssumption DEF Lines
<1>3. ASSUME NEW n, NEW g \in Gens, NEW i \in Lines(g), file[g].lines[i] = n, g # Backups
      PROVE  Held(n)'
  BY <1>1, <1>3 DEF Held, Lines
<1>4. \A n \in recorded : n \in Nat /\ n # Malformed
  BY DEF Numbered
<1>5. ASSUME NEW m \in recorded, NEW n \in recorded, Held(n)', m > n
      PROVE  Held(m)'
  <2>1. PICK h \in Gens : \E j \in 1..Len(file'[h].lines) : file'[h].lines[j] = n
    BY <1>5 DEF Held, Lines
  <2>2. h < Backups /\ \E j \in Lines(h) : file[h].lines[j] = n
    BY <1>2, <2>1
  <2>3. Held(m)
    BY <1>5, <2>2 DEF Held, Window
  <2>4. PICK g \in Gens : \E i \in Lines(g) : file[g].lines[i] = m
    BY <2>3 DEF Held
  <2>5. CASE g = Backups
    <3>1. m < n
      BY <1>4, <1>5, <2>2, <2>4, <2>5 DEF Ordered
    <3> QED BY <1>4, <1>5, <3>1
  <2>6. CASE g # Backups
    BY <1>3, <2>4, <2>6
  <2> QED BY <2>5, <2>6
<1>6. ASSUME faults = 0, NEW n \in recorded
      PROVE  Held(n)' \/ \E m \in recorded : m > n
  <2>1. CASE \E m \in recorded : m > n
    BY <2>1
  <2>2. CASE Held(n)
    <3>1. PICK g \in Gens : \E i \in Lines(g) : file[g].lines[i] = n
      BY <2>2 DEF Held
    <3>2. CASE g # Backups
      BY <1>3, <3>1, <3>2
    <3>3. CASE g = Backups
      <4>1. Backups > 0 /\ 0 \in Gens /\ 1 \in Lines(0)
        BY <1>1, FileType, GensType DEF Rotating, Lines
      <4>2. file[0].lines[1] \in recorded
        BY <1>6, <4>1 DEF Torn
      <4>3. n < file[0].lines[1]
        BY <1>4, <3>1, <3>3, <4>1, <4>2 DEF Ordered
      <4> QED BY <1>4, <4>2, <4>3
    <3> QED BY <3>2, <3>3
  <2> QED BY <1>6, <2>1, <2>2 DEF Window
<1> QED BY <1>1, <1>5, <1>6 DEF Window

LEMMA WindowKept ==
  ASSUME TypeOK, Rotating, Numbered, Ordered, Torn, Window, [Next]_vars
  PROVE  Window'
<1> USE CountType, RecordedSteps
<1>1. CASE AppendLine
  <2>1. /\ writer.pc # "idle" /\ Write(count, FALSE) /\ UNCHANGED <<count, faults>>
        /\ recorded' = IF file[0].open THEN recorded ELSE recorded \cup {count}
    BY <1>1 DEF AppendLine, Write
  <2>2. /\ \A n \in recorded : n < count /\ n \in Nat
    BY <2>1 DEF Numbered
  <2>3. \A n \in recorded : Held(n)' <=> Held(n)
    BY <2>1, HeldAfterWrite
  <2>4. ASSUME ~file[0].open PROVE Held(count)'
    <3>1. \E i \in 1..Len(file'[0].lines) : file'[0].lines[i] = count
      <4>1. /\ Len(file'[0].lines) \in Nat \ {0}
            /\ file'[0].lines[Len(file'[0].lines)] = count
        BY <2>1, <2>4, WriteFacts
      <4> QED BY <4>1
    <3> QED BY <2>1, <3>1, GensType DEF Held, Lines
  <2>5. ASSUME NEW m \in recorded', NEW n \in recorded', Held(n)', m > n PROVE Held(m)'
    <3>1. n \in recorded
      BY <2>1, <2>2, <2>5
    <3>2. CASE m \in recorded
      BY <2>3, <2>5, <3>1, <3>2 DEF Window
    <3>3. CASE m \notin recorded
      BY <2>1, <2>4, <2>5, <3>3
    <3> QED BY <3>2, <3>3
  <2>6. ASSUME faults = 0, NEW n \in recorded' PROVE Held(n)' \/ \E m \in recorded' : m > n
    <3>1. ~file[0].open /\ recorded' = recorded \cup {count}
      BY <2>1, <2>6, GensType DEF Torn
    <3> QED BY <2>2, <2>4, <2>6, <3>1
  <2> QED BY <2>1, <2>5, <2>6 DEF Window
<1>2. CASE UNCHANGED recorded /\ \A n \in recorded : Held(n)' <=> Held(n)
  <2>1. faults' = 0 => faults = 0
    OBVIOUS
  <2> QED BY <1>2, <2>1 DEF Window
<1>3. CASE ~AppendLine /\ UNCHANGED file
  <2>1. \A n \in recorded : Held(n)' <=> Held(n)
    BY <1>3 DEF Held, Lines
  <2> QED BY <1>2, <1>3, <2>1
<1>4. CASE ~AppendLine /\ Rename
  BY <1>2, <1>4, HeldAfterRename
<1>5. CASE Unlink
  BY <1>5, WindowAfterUnlink
<1>6. CASE WriteInterrupted /\ \E line \in {Malformed, count} : Write(line, TRUE)
  <2>1. \A n \in recorded : Held(n)' <=> Held(n)
    BY <1>6, HeldAfterWrite
  <2> QED BY <1>2, <1>6, <2>1
<1> QED BY <1>1, <1>3, <1>4, <1>5, <1>6, FileSteps

(***************************************************************************)
(* The size of the files.                                                  *)
(***************************************************************************)
\* The log rotates, and there is a longest line.
RotationOn == MaxBytes > 0 /\ Backups > 0

LongestExists == \E n \in LineSizes : \A m \in LineSizes : m <= n

LEMMA LongestFacts ==
  ASSUME LongestExists
  PROVE  Longest \in LineSizes /\ \A m \in LineSizes : m <= Longest
BY DEF LongestExists, Longest

LEMMA FittingKept ==
  ASSUME TypeOK, Rotating, Fitting, RotationOn, [Next]_vars
  PROVE  Fitting'
<1>0. 0 \in Gens /\ MaxBytes \in Nat /\ LineSizes \subseteq Nat /\ file[0].size \in Nat
  BY GensType, FileType, AuditAssumption
<1>1. ASSUME NEW n \in LineSizes, Record(n) PROVE Fitting'
  <2>1. /\ writer'.bytes = n /\ UNCHANGED <<file, stuck>>
        /\ writer'.pc = IF ShouldRotate(n) THEN "unlink" ELSE "append"
    BY <1>1 DEF Record, Unlocked
  <2>2. writer'.pc = "append" => file[0].size = 0 \/ file[0].size + n <= MaxBytes
    BY <1>0, <2>1 DEF ShouldRotate, RotationOn
  <2> QED BY <2>1, <2>2 DEF Fitting
<1>2. CASE Unlink
  <2>1. writer'.pc = "rename" /\ writer'.bytes = writer.bytes /\ writer.pc # "idle"
    BY <1>2 DEF Unlink, TypeOK
  <2> QED BY <2>1 DEF Fitting
<1>3. CASE Rename
  <2>1. /\ writer'.bytes = writer.bytes /\ writer.pc # "idle"
        /\ writer'.pc = "append" => writer.gen = 0
    BY <1>3 DEF Rename, NextRename, TypeOK
  <2>2. writer'.pc = "append" => file'[0].size = 0
    BY <1>3, <2>1, RenameMoves, EmptyType
  <2> QED BY <2>1, <2>2 DEF Fitting
<1>4. CASE RotationFails
  <2>1. writer'.bytes = writer.bytes /\ writer.pc # "idle" /\ stuck'
    BY <1>4 DEF RotationFails, RotationEnds, TypeOK
  <2> QED BY <2>1 DEF Fitting
<1>5. CASE AppendLine \/ WriteInterrupted \/ Crash
  <2>1. writer'.pc = "idle"
    BY <1>5, UnlockedFacts DEF AppendLine, WriteInterrupted, Crash
  <2> QED BY <2>1 DEF Fitting
<1>6. CASE UNCHANGED <<file, writer, stuck>>
  BY <1>6 DEF Fitting
<1>7. ASSUME NEW p \in Readers, Query(p) \/ ListFile(p) \/ ReadFile(p)
      PROVE  UNCHANGED <<file, writer, stuck>>
  BY <1>7 DEF Query, ListFile, ReadFile
<1> QED BY <1>1, <1>2, <1>3, <1>4, <1>5, <1>6, <1>7 DEF Next, vars

LEMMA BoundedKept ==
  ASSUME TypeOK, Rotating, Fitting, GenerationsBounded, LongestExists, [Next]_vars
  PROVE  GenerationsBounded'
<1>0. MaxBytes \in Nat /\ 0 \in Gens /\ LineSizes \subseteq Nat
  BY GensType, AuditAssumption
<1>1. stuck => stuck'
  BY DEF Next, vars, Record, Unlink, Rename, RotationFails, AppendLine, WriteInterrupted,
         Crash, Query, ListFile, ReadFile
<1>2. CASE UNCHANGED file
  BY <1>1, <1>2 DEF GenerationsBounded
<1>3. CASE Moves
  BY <1>0, <1>1, <1>3, EmptyType DEF Moves, GenerationsBounded
<1>4. ASSUME writer.pc = "append", NEW line \in Nat, NEW open \in BOOLEAN, Write(line, open)
      PROVE  GenerationsBounded'
  <2>1. /\ file'[0].size = file[0].size + writer.bytes /\ file[0].size \in Nat
        /\ \A g \in Gens \ {0} : file'[g] = file[g]
    BY <1>0, <1>4, WriteFacts, FileType
  <2>2. writer.bytes \in LineSizes /\ writer.bytes <= Longest /\ Longest \in Nat
    BY <1>0, <1>4, LongestFacts DEF Fitting
  <2>3. ASSUME ~stuck PROVE file'[0].size <= MaxBytes \/ file'[0].size <= Longest
    <3>1. file[0].size = 0 \/ file[0].size + writer.bytes <= MaxBytes
      BY <1>4, <2>3 DEF Fitting
    <3>2. file'[0].size = file[0].size + writer.bytes /\ file[0].size \in Nat
          /\ writer.bytes \in Nat /\ writer.bytes <= Longest
      BY <1>0, <2>1, <2>2
    <3>3. file[0].size = 0 => file[0].size + writer.bytes <= Longest
      BY <3>2
    <3> QED BY <3>1, <3>2, <3>3
  <2> QED BY <1>1, <2>1, <2>3 DEF GenerationsBounded
<1>5. Malformed \in Nat /\ count \in Nat
  BY CountType
<1> QED BY <1>2, <1>3, <1>4, <1>5, FileSteps DEF AppendLine, WriteInterrupted

(***************************************************************************)
(* The theorems.                                                           *)
(***************************************************************************)
LEMMA Initially ==
  ASSUME Init
  PROVE  /\ TypeOK /\ Rotating /\ Numbered /\ Ordered /\ Torn /\ Window /\ Reading
         /\ Fitting /\ GenerationsBounded
<1>1. /\ \A g \in Gens : file[g] = Empty
      /\ file \in [Gens -> Contents]
  BY EmptyType DEF Init
<1>2. writer.pc = "idle" /\ writer \in WriterRecords
  BY UnlockedFacts DEF Init, WriterRecords
<1>3. /\ reader \in [Readers -> ReaderRecords]
      /\ \A p \in Readers : reader[p].got = <<>> /\ reader[p].pc = "idle"
  BY NotReadingType DEF Init, NotReading
<1>4. count = 0 /\ faults = 0 /\ recorded = {} /\ stuck = FALSE
  BY DEF Init
<1>5. 0 \in 0..MaxRecords /\ 0 \in 0..MaxFaults
  BY AuditAssumption
<1>6. TypeOK
  BY <1>1, <1>2, <1>3, <1>4, <1>5 DEF TypeOK, WriterRecords, ReaderRecords
<1>7. Rotating /\ Numbered /\ Ordered /\ Torn /\ Window
  <2>1. \A g \in Gens : Lines(g) = {} /\ ~file[g].open /\ ~(file[g].size > 0)
    BY <1>1, EmptyType DEF Lines
  <2>2. Rotating
    BY <1>2, <2>1 DEF Rotating
  <2>3. Numbered
    BY <1>2, <1>4, <2>1 DEF Numbered
  <2> QED BY <1>4, <2>1, <2>2, <2>3 DEF Ordered, Torn, Window
<1>8. Reading
  BY <1>3, EmptySeq DEF Reading, Increasing
<1>9. Fitting /\ GenerationsBounded
  <2>1. \A g \in Gens : file[g].size <= MaxBytes
    BY <1>1, EmptyType, AuditAssumption
  <2> QED BY <1>2, <2>1 DEF Fitting, GenerationsBounded
<1> QED BY <1>6, <1>7, <1>8, <1>9

\* What the steps keep whatever the limit is.
IInv == TypeOK /\ Rotating /\ Numbered /\ Ordered /\ Torn /\ Window /\ Reading

LEMMA Invariant == Spec => []IInv
<1>1. Init => IInv
  BY Initially DEF IInv
<1>2. IInv /\ [Next]_vars => IInv'
  BY TypesKept, RotatingKept, NumberedKept, OrderedKept, TornKept, WindowKept, ReadingKept
     DEF IInv
<1> QED BY <1>1, <1>2, PTL DEF Spec

\* The variables keep their types: a rotation never leaves the generations, and
\* no record is counted that record() was not called for.
THEOREM Typing == Spec => []TypeOK
<1>1. IInv => TypeOK
  BY DEF IInv
<1> QED BY <1>1, Invariant, PTL

\* A query of the CLI is chronological and shows nothing twice, for any number
\* of generations and any limit (read_records without the lock).
THEOREM QueriesInOrder == Spec => []QueryChronological
<1>1. IInv => QueryChronological
  BY DEF IInv, Reading, QueryChronological
<1> QED BY <1>1, Invariant, PTL

\* The log on disk is a window of what was written, without a gap, however
\* rotations end (_rotate).
THEOREM WindowWithoutGap == Spec => []OnlyOlderDropped
<1>1. IInv => OnlyOlderDropped
  BY WindowMeaning DEF IInv
<1> QED BY <1>1, Invariant, PTL

\* No file outgrows max_bytes by more than a single line that is longer than it,
\* as long as the log rotates at all and no rotation has failed (_should_rotate).
THEOREM FilesBounded == RotationOn /\ LongestExists => (Spec => []GenerationsBounded)
<1> SUFFICES ASSUME RotationOn, LongestExists PROVE Spec => []GenerationsBounded
  OBVIOUS
<1>1. Init => Fitting /\ GenerationsBounded
  BY Initially
<1>2. IInv /\ Fitting /\ GenerationsBounded /\ [Next]_vars => (Fitting /\ GenerationsBounded)'
  BY FittingKept, BoundedKept DEF IInv
<1> QED BY <1>1, <1>2, Invariant, PTL DEF Spec
=============================================================================
