-------------------------------- MODULE Board -------------------------------
(***************************************************************************)
(* The Jira project as sentinel uses it: the status and labels of each     *)
(* ticket, the sentinel.* issue properties, the webhook for an agent's     *)
(* status change, and the humans who share the board.  Jira is external:   *)
(* every variable is one the code in sentinel/ reads or writes through     *)
(* JiraClient, and one call is one atomic step.                            *)
(***************************************************************************)
EXTENDS Pipeline

CONSTANTS
  InitialStatuses,   \* where the tickets of the instance start
  HumanStatuses,     \* statuses a human may move a ticket to
  HumanLabels,       \* labels a human may add or remove
  MaxRetries,        \* sentinel.retries is not told apart above this
  MaxRework          \* bound on sentinel.rework

ASSUME BoardAssumption ==
  /\ InitialStatuses \subseteq Statuses /\ InitialStatuses # {}
  /\ HumanStatuses \subseteq Statuses
  /\ HumanLabels \subseteq Labels
  /\ MaxRetries \in Nat /\ MaxRetries > 2 /\ MaxRework \in Nat

VARIABLES
  status,      \* ticket -> its workflow status
  labels,      \* ticket -> its labels (agent-leased is never read, so left out)
  lease,       \* ticket -> the sentinel.lease property
  retries,     \* ticket -> sentinel.retries.count
  rework,      \* ticket -> sentinel.rework.count
  rejected,    \* ticket -> its last rejection payload is not counted yet
  waiting,     \* ticket -> it has a sentinel.waiting marker
  notice,      \* ticket -> a webhook for an agent's transition is on its way
  beats        \* the heartbeats that have read their lease and will write it back

boardVars == <<status, labels, lease, retries, rework, rejected, waiting, notice, beats>>

\* A lease names the role and goes stale when its heartbeat is older than the
\* lease timeout; clocks are abstracted to that one bit.
Leases == [role : Roles \cup {NoRole}, stale : BOOLEAN]

NoLease == [role |-> NoRole, stale |-> FALSE]

FreshLease(role) == [role |-> role, stale |-> FALSE]

Leased(t) == lease[t] # NoLease

\* Slips: no lease ever times out; every lease has timed out.
IsStaleNever(l) == FALSE
IsStaleAlways(l) == TRUE

\* LeaseManager.is_stale, for a lease that exists.
IsStale(l) == l.stale

Active(l) == l # NoLease /\ ~IsStale(l)

\* Slips: the count goes down; the count stays.
BumpedDown(n) == n - 1
BumpedNot(n) == n

\* A bump of the retry count.  The code only asks whether it exceeds one, so
\* the count may stop at MaxRetries without changing what is decided.
Bumped(n) == IF n < MaxRetries THEN n + 1 ELSE n

BoardTypeOK ==
  /\ status \in [Tickets -> Statuses]
  /\ labels \in [Tickets -> SUBSET Labels]
  /\ lease \in [Tickets -> Leases]
  /\ retries \in [Tickets -> Nat]
  /\ rework \in [Tickets -> Nat]
  /\ rejected \in [Tickets -> BOOLEAN]
  /\ waiting \in [Tickets -> BOOLEAN]
  /\ notice \in [Tickets -> BOOLEAN]
  /\ beats \subseteq Roles \X Tickets

BoardInit ==
  /\ status \in [Tickets -> InitialStatuses]
  /\ labels = [t \in Tickets |-> {}]
  /\ lease = [t \in Tickets |-> NoLease]
  /\ retries = [t \in Tickets |-> 0]
  /\ rework = [t \in Tickets |-> 0]
  /\ rejected = [t \in Tickets |-> FALSE]
  /\ waiting = [t \in Tickets |-> FALSE]
  /\ notice = [t \in Tickets |-> FALSE]
  /\ beats = {}

\* One issue as get_issue and search return it.  A search for the
\* agent-owned statuses does not return the others.
Issue(t) == [status |-> status[t], labels |-> labels[t]]

Absent == [status |-> NoStatus, labels |-> {}]

Issues == [status : Statuses \cup {NoStatus}, labels : SUBSET Labels]

SearchResult ==
  [t \in Tickets |-> IF status[t] \in AgentStatuses THEN Issue(t) ELSE Absent]

\* The writers of one property or field each, used by the runs and by the
\* orchestrator alike.
WriteLease(t, l) ==
  /\ lease' = [lease EXCEPT ![t] = l]
  /\ UNCHANGED <<status, labels, retries, rework, rejected, waiting, notice, beats>>

WriteRetries(t, n) ==
  /\ retries' = [retries EXCEPT ![t] = n]
  /\ UNCHANGED <<status, labels, lease, rework, rejected, waiting, notice, beats>>

WriteWaiting(t, b) ==
  /\ waiting' = [waiting EXCEPT ![t] = b]
  /\ UNCHANGED <<status, labels, lease, retries, rework, rejected, notice, beats>>

\* LeaseManager.heartbeat, its second call: the lease is written back as it was
\* read, whatever has become of it and of the run meanwhile.
BeatLands(b) ==
  /\ beats' = beats \ {b}
  /\ lease' = [lease EXCEPT ![b[2]] = FreshLease(b[1])]
  /\ UNCHANGED <<status, labels, retries, rework, rejected, waiting, notice>>

AddLabels(t, ls) ==
  /\ labels' = [labels EXCEPT ![t] = @ \cup ls]
  /\ UNCHANGED <<status, lease, retries, rework, rejected, waiting, notice, beats>>

(***************************************************************************)
(* Humans move tickets and edit labels whenever they like.                 *)
(***************************************************************************)
HumanMove(t) ==
  /\ \E s \in HumanStatuses \ {status[t]} : status' = [status EXCEPT ![t] = s]
  /\ UNCHANGED <<labels, lease, retries, rework, rejected, waiting, notice, beats>>

HumanLabel(t) ==
  /\ \E l \in HumanLabels :
       labels' = [labels EXCEPT ![t] = IF l \in @ THEN @ \ {l} ELSE @ \cup {l}]
  /\ UNCHANGED <<status, lease, retries, rework, rejected, waiting, notice, beats>>

Humans == \E t \in Tickets : HumanMove(t) \/ HumanLabel(t)
=============================================================================
