------------------------------- MODULE Audit --------------------------------
(***************************************************************************)
(* The audit log (sentinel/audit.py): a live file and a bounded number of  *)
(* older generations.  record() appends a line, after a rotation if the    *)
(* line would push the live file over its limit; the operator's CLI reads  *)
(* the generations oldest first, in another process, so without the lock   *)
(* that record() and the /audit endpoint take.  A step is a file operation,*)
(* and a crash or an error of the disk may come before any of them.        *)
(*                                                                         *)
(* Left out: what a record says, and the filters of a query.               *)
(***************************************************************************)
EXTENDS Naturals, Sequences, FiniteSets

CONSTANTS
  Backups,      \* backup_count: generations kept beside the live file
  MaxBytes,     \* max_bytes
  LineSizes,    \* how long a line may be, in the unit of MaxBytes
  Limit,        \* how many records a query wants
  Readers,      \* the CLI, one process per query, one after the other
  MaxRecords,   \* bound on the calls of record()
  MaxFaults     \* bound on crashes and disk errors

ASSUME AuditAssumption ==
  /\ Backups \in Nat /\ MaxBytes \in Nat
  /\ LineSizes \subseteq Nat \ {0}
  /\ Limit \in Nat \ {0}
  /\ MaxRecords \in Nat /\ MaxFaults \in Nat

VARIABLES
  file,        \* generation -> its content, 0 is the live file
  writer,      \* the call of record() that has the lock
  reader,      \* CLI process -> where its query is
  count,       \* the calls of record() so far: a record is known by its number
  faults,      \* crashes and disk errors so far
  recorded,    \* history: the records whose call appended a line of their own
  stuck        \* history: a rotation has failed

vars == <<file, writer, reader, count, faults, recorded, stuck>>

Gens == 0..Backups

\* A line that is no JSON record.
Malformed == 0

\* `lines` are records and malformed lines; `open` says that the last of them
\* has no newline yet.  Nothing tells a missing file from an empty one.
Contents == [lines : Seq(Nat), size : Nat, open : BOOLEAN]

Empty == [lines |-> <<>>, size |-> 0, open |-> FALSE]

Unlocked == [pc |-> "idle", gen |-> 0, bytes |-> 0]

NotReading == [pc |-> "idle", next |-> 0, found |-> {}, got |-> <<>>]

TypeOK ==
  /\ file \in [Gens -> Contents]
  /\ writer \in [pc : {"idle", "unlink", "rename", "append"}, gen : Gens, bytes : Nat]
  /\ reader \in [Readers -> [pc : {"idle", "list", "read"}, next : Gens,
                             found : SUBSET Gens, got : Seq(Nat)]]
  /\ count \in 0..MaxRecords /\ faults \in 0..MaxFaults
  /\ recorded \subseteq 1..MaxRecords /\ stuck \in BOOLEAN

Init ==
  /\ file = [g \in Gens |-> Empty]
  /\ writer = Unlocked /\ reader = [p \in Readers |-> NotReading]
  /\ count = 0 /\ faults = 0 /\ recorded = {} /\ stuck = FALSE

(***************************************************************************)
(* record() and _rotate().                                                 *)
(***************************************************************************)
\* Slip: the line to come is not counted.
ShouldRotateLate(n) == MaxBytes > 0 /\ Backups > 0 /\ file[0].size > MaxBytes

ShouldRotate(n) ==
  /\ MaxBytes > 0 /\ Backups > 0
  /\ file[0].size > 0 /\ file[0].size + n > MaxBytes

Record(n) ==
  /\ writer.pc = "idle" /\ count < MaxRecords
  /\ count' = count + 1
  /\ writer' = [Unlocked EXCEPT !.pc = IF ShouldRotate(n) THEN "unlink" ELSE "append",
                                !.bytes = n]
  /\ UNCHANGED <<file, reader, faults, recorded, stuck>>

\* The oldest generation goes, then the others move up, the live file last.
Unlink ==
  /\ writer.pc = "unlink"
  /\ file' = [file EXCEPT ![Backups] = Empty]
  /\ writer' = [writer EXCEPT !.pc = "rename", !.gen = Backups - 1]
  /\ UNCHANGED <<reader, count, faults, recorded, stuck>>

\* Slip: the loop does not stop at the live file.
NextRenameAlways == [writer EXCEPT !.gen = @ - 1]

\* The next generation to move, or the end of the rotation.
NextRename ==
  IF writer.gen = 0 THEN [writer EXCEPT !.pc = "append"]
                    ELSE [writer EXCEPT !.gen = @ - 1]

Rename ==
  /\ writer.pc = "rename"
  /\ file' = IF file[writer.gen] = Empty THEN file
             ELSE [file EXCEPT ![writer.gen + 1] = file[writer.gen], ![writer.gen] = Empty]
  /\ writer' = NextRename
  /\ UNCHANGED <<reader, count, faults, recorded, stuck>>

\* Slip: the error is caught inside the loop, file by file.
RotationGoesOn ==
  IF writer.pc = "unlink" THEN [writer EXCEPT !.pc = "rename", !.gen = Backups - 1]
                          ELSE NextRename

\* An OSError ends the rotation where it is; the line is appended all the same.
RotationEnds == [writer EXCEPT !.pc = "append"]

RotationFails ==
  /\ faults < MaxFaults
  /\ \/ writer.pc = "unlink" /\ file[Backups] # Empty
     \/ writer.pc = "rename" /\ file[writer.gen] # Empty
  /\ writer' = RotationEnds
  /\ faults' = faults + 1 /\ stuck' = TRUE
  /\ UNCHANGED <<file, reader, count, recorded>>

\* A file after a line, or the start of one, was appended to it: on a line
\* without newline the two make one malformed line.
Appended(f, line, n, open) ==
  [lines |-> IF f.open THEN [f.lines EXCEPT ![Len(f.lines)] = Malformed]
                       ELSE Append(f.lines, line),
   size  |-> f.size + n,
   open  |-> open]

AppendLine ==
  /\ writer.pc = "append"
  /\ file' = [file EXCEPT ![0] = Appended(@, count, writer.bytes, FALSE)]
  /\ recorded' = IF file[0].open THEN recorded ELSE recorded \cup {count}
  /\ writer' = Unlocked
  /\ UNCHANGED <<reader, count, faults, stuck>>

\* The disk fails, or the process dies, before or within the write: nothing, a
\* part of the line, or all of it but the newline is on disk.  An error is
\* raised to the caller.
WriteInterrupted ==
  /\ writer.pc = "append" /\ faults < MaxFaults
  /\ \/ UNCHANGED file
     \/ \E line \in {Malformed, count} :
          file' = [file EXCEPT ![0] = Appended(@, line, writer.bytes, TRUE)]
  /\ writer' = Unlocked
  /\ faults' = faults + 1
  /\ UNCHANGED <<reader, count, recorded, stuck>>

\* The process dies within a rotation; the next one finds the files as they are.
Crash ==
  /\ writer.pc \in {"unlink", "rename"} /\ faults < MaxFaults
  /\ writer' = Unlocked
  /\ faults' = faults + 1
  /\ UNCHANGED <<file, reader, count, recorded, stuck>>

(***************************************************************************)
(* read_records() of the CLI.                                              *)
(***************************************************************************)
\* Where the lines are that are records, and those of them up to a line.
Places(f) == {i \in 1..Len(f.lines) : f.lines[i] # Malformed}

UpTo(f, i) == {j \in Places(f) : j <= i}

\* These records, in their order: the k-th has k of them up to it.
Records(f) ==
  [k \in 1..Cardinality(Places(f)) |->
     f.lines[CHOOSE i \in Places(f) : Cardinality(UpTo(f, i)) = k]]

\* deque(maxlen=limit)
Newest(s) == IF Len(s) <= Limit THEN s ELSE SubSeq(s, Len(s) - Limit + 1, Len(s))

\* Slip: the order of _generations turned round.
LiveFirst(k) == k

\* _generations: the k-th file a query looks at.
OldestFirst(k) == Backups - k

Query(p) ==
  /\ reader[p].pc = "idle"
  /\ reader' = [reader EXCEPT ![p] = [NotReading EXCEPT !.pc = "list"]]
  /\ UNCHANGED <<file, writer, count, faults, recorded, stuck>>

\* f.exists(), one file after the other.
ListFile(p) ==
  /\ reader[p].pc = "list"
  /\ LET k == reader[p].next
         there == {g \in {OldestFirst(k)} : file[g] # Empty}
     IN reader' = [reader EXCEPT ![p].found = @ \cup there,
                                 ![p].pc = IF k = Backups THEN "read" ELSE "list",
                                 ![p].next = IF k = Backups THEN 0 ELSE k + 1]
  /\ UNCHANGED <<file, writer, count, faults, recorded, stuck>>

\* read_text() of a file on the list; one that is gone meanwhile is skipped.
ReadFile(p) ==
  /\ reader[p].pc = "read"
  /\ LET k == reader[p].next
         g == OldestFirst(k)
     IN reader' = [reader EXCEPT
          ![p].got = IF g \in reader[p].found THEN Newest(@ \o Records(file[g])) ELSE @,
          ![p].pc = IF k = Backups THEN "idle" ELSE "read",
          ![p].next = IF k = Backups THEN 0 ELSE k + 1]
  /\ UNCHANGED <<file, writer, count, faults, recorded, stuck>>

Next ==
  \/ \E n \in LineSizes : Record(n)
  \/ Unlink \/ Rename \/ RotationFails
  \/ AppendLine \/ WriteInterrupted \/ Crash
  \/ \E p \in Readers : Query(p) \/ ListFile(p) \/ ReadFile(p)

Spec == Init /\ [][Next]_vars

(***************************************************************************)
(* Properties.                                                             *)
(***************************************************************************)
Increasing(s) == \A i, j \in 1..Len(s) : i < j => s[i] < s[j]

\* A query of the CLI, which takes no lock, comes out in chronological order
\* and shows no record twice, whatever rotations, failures and crashes move
\* the files under it (_generations and _rotate go in opposite directions).
QueryChronological == \A p \in Readers : Increasing(reader[p].got)

Kept == UNION {{n \in 1..count : \E i \in 1..Len(file[g].lines) : file[g].lines[i] = n} :
               g \in Gens}

\* However a rotation ends - complete, on an error, by a crash between two
\* renames - it has dropped older records only: on disk is a window of what was
\* written, without a gap.  (That it reaches to the newest record needs a disk
\* without faults: _rotate deletes the oldest file also when an earlier failure
\* has left a free place, and after a few of them that is a recent one.)
OnlyOlderDropped ==
  /\ \A m, n \in recorded : n \in Kept /\ m > n => m \in Kept
  /\ faults = 0 => \A n \in recorded : n \in Kept \/ \E m \in recorded : m > n

Longest == CHOOSE n \in LineSizes : \A m \in LineSizes : m <= n

\* The volume is bounded: while no rotation has failed no generation outgrows
\* max_bytes, but for a single line longer than that, crashes and torn writes
\* notwithstanding.
GenerationsBounded ==
  ~stuck => \A g \in Gens : file[g].size <= MaxBytes \/ file[g].size <= Longest
=============================================================================
