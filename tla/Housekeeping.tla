---------------------------- MODULE Housekeeping ----------------------------
(***************************************************************************)
(* What a sweep does after its dispatch (orchestrator.py): reminders for   *)
(* tickets that stay frozen, then the quota on the workspaces of the       *)
(* roles.  The first runs outside the lock, the second scans outside it    *)
(* and deletes under it.                                                   *)
(*                                                                         *)
(* Dispatch is reduced to what matters here: whoever holds the lock may    *)
(* start agents, on free slots (Orchestrator has the rules).               *)
(***************************************************************************)
EXTENDS Naturals, FiniteSets

CONSTANTS
  Roles, Tickets,
  Sweeps,         \* the sweeps that may overlap
  Flushes,        \* webhook flushes: they dispatch and do no housekeeping
  Hours,          \* stale_escalation_hours, in ticks of the clock
  MaxTime,        \* bound on the clock
  MaxRestarts,    \* bound on restarts of the process
  Nobody, NoTicket

Evaluators == Sweeps \cup Flushes

ASSUME HousekeepingAssumption ==
  /\ Sweeps \cap Flushes = {} /\ Nobody \notin Evaluators
  /\ NoTicket \notin Tickets
  /\ Hours \in Nat \ {0} /\ MaxTime \in Nat /\ MaxRestarts \in Nat

VARIABLES
  now,         \* the clock
  frozen,      \* the tickets labelled needs-human or handoff-invalid
  updated,     \* ticket -> when it was last touched
  reminded,    \* ticket -> the sentinel.reminded property, Never if absent
  over,        \* the roles whose workspace is over the quota
  running,     \* Orchestrator.running: the slots (role, ticket) taken
  live,        \* the slots whose agent is still at work
  lock,        \* who holds Orchestrator._lock
  ev,          \* evaluator -> where it is
  restarts,    \* restarts so far
  notified     \* history: ticket -> the clock of the scan that last notified

board == <<frozen, updated, reminded>>
agents == <<running, live>>
vars == <<now, board, over, agents, lock, ev, restarts, notified>>

Slots == Roles \X Tickets

\* Long before the clock starts.
Never == 0

Times == 0 .. MaxTime + Hours

EvalRecords ==
  [pc    : {"idle", "locking", "locked", "remind", "stamp", "notify", "scan",
            "relock", "wipe", "wiping"},
   found : SUBSET Tickets,               \* frozen tickets of the snapshot
   seen  : [Tickets -> Times],           \* fields.updated of the snapshot
   start : Times,                        \* `now` of the reminder scan
   ticket: Tickets \cup {NoTicket},      \* the ticket being reminded of
   big   : SUBSET Roles,                 \* oversized workspaces left to wipe
   tree  : SUBSET Roles]                 \* the one being deleted

Idle == [pc |-> "idle", found |-> {}, seen |-> [t \in Tickets |-> Never],
         start |-> Never, ticket |-> NoTicket, big |-> {}, tree |-> {}]

TypeOK ==
  /\ now \in Times /\ restarts \in 0..MaxRestarts
  /\ frozen \subseteq Tickets
  /\ updated \in [Tickets -> Times] /\ reminded \in [Tickets -> Times]
  /\ notified \in [Tickets -> Times]
  /\ over \subseteq Roles /\ running \subseteq Slots /\ live \subseteq Slots
  /\ lock \in Evaluators \cup {Nobody}
  /\ ev \in [Evaluators -> EvalRecords]

Init ==
  /\ now = Hours /\ restarts = 0
  /\ frozen = {} /\ over = {} /\ running = {} /\ live = {}
  /\ updated = [t \in Tickets |-> Hours]
  /\ reminded = [t \in Tickets |-> Never] /\ notified = [t \in Tickets |-> Never]
  /\ lock = Nobody /\ ev = [e \in Evaluators |-> Idle]

At(e, pc) == ev[e].pc = pc

Goto(e, rec) == ev' = [ev EXCEPT ![e] = rec]

(***************************************************************************)
(* A pass: the snapshot, the lock, agents started under it.                *)
(***************************************************************************)
\* Slip: the role is taken for the key.
CollectedRoles == {s[1] : s \in running \cap live}

\* _gc_running
Collected == running \cap live

\* A sweep searches the board before it waits for the lock, a flush does not.
Search(e) ==
  /\ e \in Sweeps /\ At(e, "idle")
  /\ running' = Collected
  /\ Goto(e, [Idle EXCEPT !.pc = "locking", !.found = frozen, !.seen = updated])
  /\ UNCHANGED <<now, board, over, live, lock, restarts, notified>>

Flush(e) ==
  /\ e \in Flushes /\ At(e, "idle")
  /\ Goto(e, [Idle EXCEPT !.pc = "locking"])
  /\ UNCHANGED <<now, board, over, agents, lock, restarts, notified>>

\* Slip: the lock is not waited for.
LockFreeAlways == TRUE

LockFree == lock = Nobody

TakeLock(e) ==
  /\ At(e, "locking") /\ LockFree
  /\ lock' = e
  /\ running' = IF e \in Flushes THEN Collected ELSE running
  /\ Goto(e, [ev[e] EXCEPT !.pc = "locked"])
  /\ UNCHANGED <<now, board, over, live, restarts, notified>>

Spawn(e) ==
  /\ At(e, "locked")
  /\ \E s \in Slots \ running :
       /\ running' = running \cup {s}
       /\ live' = live \cup {s}
  /\ UNCHANGED <<now, board, over, lock, ev, restarts, notified>>

\* A sweep goes on to its reminders, with one look at the clock.
LeaveLock(e) ==
  /\ At(e, "locked")
  /\ lock' = Nobody
  /\ Goto(e, IF e \in Sweeps THEN [ev[e] EXCEPT !.pc = "remind", !.start = now] ELSE Idle)
  /\ UNCHANGED <<now, board, over, agents, restarts, notified>>

\* A Jira error in the search of the board, or in one made for a queue, ends the
\* pass.
PassFails(e) ==
  \/ /\ e \in Sweeps /\ At(e, "idle")
     /\ running' = Collected
     /\ UNCHANGED <<now, board, over, live, lock, ev, restarts, notified>>
  \/ /\ At(e, "locked")
     /\ lock' = Nobody
     /\ Goto(e, Idle)
     /\ UNCHANGED <<now, board, over, agents, restarts, notified>>

(***************************************************************************)
(* _remind_stale_escalations.                                              *)
(***************************************************************************)
\* Slip: a window that ends one tick early.
DueEarly(e, t) ==
  ev[e].start >= ev[e].seen[t] + Hours /\ ev[e].start + 1 >= reminded[t] + Hours

\* Nobody touched the ticket, nor was reminded of it, for `hours`.
Due(e, t) ==
  ev[e].start >= ev[e].seen[t] + Hours /\ ev[e].start >= reminded[t] + Hours

CheckReminder(e) ==
  /\ At(e, "remind")
  /\ \E t \in ev[e].found :
       Goto(e, [ev[e] EXCEPT !.found = @ \ {t},
                             !.pc = IF Due(e, t) THEN "stamp" ELSE "remind",
                             !.ticket = IF Due(e, t) THEN t ELSE NoTicket])
  /\ UNCHANGED <<now, board, over, agents, lock, restarts, notified>>

\* The property is written before the notification goes out.
Stamp(e) ==
  /\ At(e, "stamp")
  /\ reminded' = [reminded EXCEPT ![ev[e].ticket] = ev[e].start]
  /\ Goto(e, [ev[e] EXCEPT !.pc = "notify"])
  /\ UNCHANGED <<now, frozen, updated, over, agents, lock, restarts, notified>>

Notify(e) ==
  /\ At(e, "notify")
  /\ notified' = [notified EXCEPT ![ev[e].ticket] = ev[e].start]
  /\ Goto(e, [ev[e] EXCEPT !.pc = "remind", !.ticket = NoTicket])
  /\ UNCHANGED <<now, board, over, agents, lock, restarts>>

\* Slip: an error in the reminders, of which some are left, ends the sweep.
AfterRemindersLost(e) == IF ev[e].found = {} THEN [Idle EXCEPT !.pc = "scan"] ELSE Idle

\* Whatever becomes of the reminders, the quota comes next.
AfterReminders(e) == [Idle EXCEPT !.pc = "scan"]

\* The scan is over, or a Jira error ends it for all its tickets.
EndReminders(e) ==
  /\ ev[e].pc \in {"remind", "stamp"}
  /\ Goto(e, AfterReminders(e))
  /\ UNCHANGED <<now, board, over, agents, lock, restarts, notified>>

(***************************************************************************)
(* _enforce_workspace_quota.                                               *)
(***************************************************************************)
\* Sized off the event loop, without the lock.
Scan(e) ==
  /\ At(e, "scan")
  /\ Goto(e, IF over = {} THEN Idle ELSE [Idle EXCEPT !.pc = "relock", !.big = over])
  /\ UNCHANGED <<now, board, over, agents, lock, restarts, notified>>

\* running_roles, read again under the lock
RunningRoles == {s[1] : s \in running}

Relock(e) ==
  /\ At(e, "relock") /\ LockFree
  /\ lock' = e
  /\ Goto(e, [ev[e] EXCEPT !.pc = "wipe", !.big = @ \ RunningRoles])
  /\ UNCHANGED <<now, board, over, agents, restarts, notified>>

\* shutil.rmtree in a thread, while the event loop goes on.
BeginWipe(e) ==
  /\ At(e, "wipe")
  /\ \E r \in ev[e].big :
       Goto(e, [ev[e] EXCEPT !.pc = "wiping", !.big = @ \ {r}, !.tree = {r}])
  /\ UNCHANGED <<now, board, over, agents, lock, restarts, notified>>

\* rmtree, of a tree that can be deleted.
EndWipe(e) ==
  /\ At(e, "wiping")
  /\ over' = over \ ev[e].tree
  /\ Goto(e, [ev[e] EXCEPT !.pc = "wipe", !.tree = {}])
  /\ UNCHANGED <<now, board, agents, lock, restarts, notified>>

EndQuota(e) ==
  /\ At(e, "wipe") /\ ev[e].big = {}
  /\ lock' = Nobody
  /\ Goto(e, Idle)
  /\ UNCHANGED <<now, board, over, agents, restarts, notified>>

(***************************************************************************)
(* Everything else.                                                        *)
(***************************************************************************)
\* An agent fills its workspace, or ends; its slot stays taken until _gc_running.
AgentGrows(s) ==
  /\ s \in live /\ over' = over \cup {s[1]}
  /\ UNCHANGED <<now, board, agents, lock, ev, restarts, notified>>

AgentEnds(s) ==
  /\ s \in live /\ live' = live \ {s}
  /\ UNCHANGED <<now, board, over, running, lock, ev, restarts, notified>>

\* A ticket is frozen, or touched by a human who may unfreeze it.
BoardMoves(t) ==
  /\ frozen' \in {frozen, frozen \cup {t}, frozen \ {t}}
  /\ updated' = [updated EXCEPT ![t] = now]
  /\ UNCHANGED <<now, reminded, over, agents, lock, ev, restarts, notified>>

Tick ==
  /\ now < MaxTime + Hours /\ now' = now + 1
  /\ UNCHANGED <<board, over, agents, lock, ev, restarts, notified>>

\* All tasks are gone; a ticket may have its stamp and nobody was notified.
Restart ==
  /\ restarts < MaxRestarts /\ restarts' = restarts + 1
  /\ running' = {} /\ live' = {} /\ lock' = Nobody
  /\ ev' = [e \in Evaluators |-> Idle]
  /\ UNCHANGED <<now, board, over, notified>>

Pass(e) ==
  \/ Search(e) \/ Flush(e) \/ TakeLock(e) \/ Spawn(e) \/ LeaveLock(e) \/ PassFails(e)
  \/ CheckReminder(e) \/ Stamp(e) \/ Notify(e) \/ EndReminders(e)
  \/ Scan(e) \/ Relock(e) \/ BeginWipe(e) \/ EndWipe(e) \/ EndQuota(e)

Next ==
  \/ \E e \in Evaluators : Pass(e)
  \/ \E s \in Slots : AgentGrows(s) \/ AgentEnds(s)
  \/ \E t \in Tickets : BoardMoves(t)
  \/ Tick \/ Restart

Spec == Init /\ [][Next]_vars

\* Coroutines go on when they can; the lock is FIFO; Jira does not fail in
\* every single pass, and a pass has finitely many tickets to start agents on.
Fairness ==
  \A e \in Evaluators :
    /\ WF_vars(Search(e)) /\ SF_vars(TakeLock(e)) /\ SF_vars(LeaveLock(e))
    /\ WF_vars(CheckReminder(e) \/ Stamp(e) \/ Notify(e) \/ EndReminders(e))
    /\ WF_vars(Scan(e)) /\ SF_vars(Relock(e))
    /\ WF_vars(BeginWipe(e) \/ EndWipe(e) \/ EndQuota(e))

FairSpec == Spec /\ Fairness

(***************************************************************************)
(* Properties.                                                             *)
(***************************************************************************)
\* No workspace is deleted under an agent at work, nor does an agent start into
\* a half-deleted one (the second look at `running`, and rmtree under the lock).
NeverYanked ==
  \A e \in Sweeps : \A s \in live : s[1] \notin ev[e].tree

\* At most one reminder for a ticket per window, also over a restart between
\* stamp and notification.  (With one sweep at a time: two that overlap may
\* both read the property before either writes it.)
OneReminderPerWindow ==
  \A e \in Sweeps : At(e, "notify") =>
    ev[e].start >= notified[ev[e].ticket] + Hours

\* A workspace over the quota whose role has no agent any more is wiped, even
\* when the reminders of every sweep fail and finished agents are still listed.
\* (For a disk that deletes: rmtree ignores errors, what it leaves stays over.)
QuotaHolds ==
  \A r \in Roles :
    <>[](\A s \in live : s[1] # r) => []<>(r \notin over)
=============================================================================
