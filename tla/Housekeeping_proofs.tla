-------------------------- MODULE Housekeeping_proofs -----------------------
(***************************************************************************)
(* Theorems about Housekeeping, for every set of roles, tickets, sweeps    *)
(* and flushes and every bound: types, that no workspace is deleted under  *)
(* an agent, and - for one sweep at a time - that a ticket is not reminded *)
(* of twice in a window.                                                   *)
(***************************************************************************)
EXTENDS Housekeeping, TLAPS

(***************************************************************************)
(* The quota and the dispatch meet in `running`: a slot is taken under the *)
(* lock, and the roles of the taken slots are struck off the list of       *)
(* workspaces to wipe under the same lock.                                 *)
(***************************************************************************)
LockPcs == {"locked", "wipe", "wiping"}

Exclusive ==
  /\ live \subseteq running
  /\ \A e \in Evaluators : ev[e].pc \in LockPcs => lock = e
  /\ \A e \in Evaluators : ev[e].tree # {} => At(e, "wiping")
  /\ \A e \in Evaluators : ev[e].pc \in {"wipe", "wiping"} =>
       \A s \in running : s[1] \notin ev[e].big \cup ev[e].tree

(***************************************************************************)
(* The stamp of a reminder is written before the notification goes out: it *)
(* is never behind the last notification, and what is due by the stamp is  *)
(* due by the notification.                                                *)
(***************************************************************************)
Stamped ==
  /\ \A t \in Tickets : notified[t] <= reminded[t]
  /\ \A e \in Evaluators : ev[e].pc \in {"remind", "stamp", "notify"} => e \in Sweeps
  /\ \A e \in Evaluators : ev[e].pc \in {"stamp", "notify"} =>
       /\ ev[e].ticket \in Tickets
       /\ ev[e].start >= notified[ev[e].ticket] + Hours
  /\ \A e \in Evaluators : At(e, "notify") => reminded[ev[e].ticket] = ev[e].start

OneSweep == \A e1, e2 \in Sweeps : e1 = e2

(***************************************************************************)
(* Lemmas.                                                                 *)
(***************************************************************************)
\* The times of the model, and the record of a pass that has not begun.
LEMMA Constants ==
  /\ Hours \in Times /\ Never \in Times /\ Times \subseteq Nat
  /\ Idle \in EvalRecords
<1>1. Hours \in Times /\ Never \in Times /\ Times \subseteq Nat
  BY HousekeepingAssumption DEF Times, Never
<1>2. [t \in Tickets |-> Never] \in [Tickets -> Times]
  BY <1>1
<1> QED BY <1>1, <1>2 DEF Idle, EvalRecords

\* The evaluators after a step of one of them.
LEMMA GotoType ==
  ASSUME TypeOK, NEW e \in Evaluators, NEW rec \in EvalRecords, Goto(e, rec)
  PROVE  /\ ev' \in [Evaluators -> EvalRecords]
         /\ ev'[e] = rec
         /\ \A d \in Evaluators \ {e} : ev'[d] = ev[d]
BY DEF TypeOK, Goto

\* The fields of the record of an evaluator.
LEMMA Fields ==
  ASSUME TypeOK, NEW e \in Evaluators
  PROVE  /\ ev[e] \in EvalRecords
         /\ ev[e].found \subseteq Tickets /\ ev[e].seen \in [Tickets -> Times]
         /\ ev[e].start \in Times /\ ev[e].ticket \in Tickets \cup {NoTicket}
         /\ ev[e].big \subseteq Roles /\ ev[e].tree \subseteq Roles
BY DEF TypeOK, EvalRecords

\* Collecting the finished agents keeps those at work.
LEMMA CollectedType ==
  ASSUME TypeOK
  PROVE  /\ Collected \subseteq Slots /\ Collected \subseteq running
         /\ (Exclusive => live \subseteq Collected)
BY DEF TypeOK, Collected, Exclusive

(***************************************************************************)
(* What the step of an evaluator keeps, told by the record it has then.    *)
(***************************************************************************)
\* Only who has the lock takes slots, and nobody takes the lock from another.
LEMMA ExclusiveStep ==
  ASSUME TypeOK, Exclusive, NEW e \in Evaluators, NEW rec \in EvalRecords, Goto(e, rec),
         live' \subseteq running',
         rec.pc \in LockPcs => lock' = e,
         rec.tree # {} => rec.pc = "wiping",
         rec.pc \in {"wipe", "wiping"} =>
           \A s \in running' : s[1] \notin rec.big \cup rec.tree,
         lock' = lock \/ lock = Nobody \/ ev[e].pc \in LockPcs,
         running' \subseteq running \/ lock' = e
  PROVE  Exclusive'
<1>1. ev'[e] = rec /\ \A d \in Evaluators \ {e} : ev'[d] = ev[d]
  BY GotoType
<1>2. ASSUME NEW d \in Evaluators, d # e, ev[d].pc \in LockPcs
      PROVE  lock' = d /\ running' \subseteq running
  <2>1. lock = d /\ d # Nobody
    BY <1>2, HousekeepingAssumption DEF Exclusive
  <2>2. ev[e].pc \notin LockPcs
    BY <1>2, <2>1 DEF Exclusive
  <2> QED BY <1>2, <2>1, <2>2
<1>3. ASSUME NEW d \in Evaluators PROVE ev'[d].pc \in LockPcs => lock' = d
  BY <1>1, <1>2
<1>4. ASSUME NEW d \in Evaluators PROVE ev'[d].tree # {} => ev'[d].pc = "wiping"
  BY <1>1 DEF Exclusive, At
<1>5. ASSUME NEW d \in Evaluators, ev'[d].pc \in {"wipe", "wiping"}
      PROVE  \A s \in running' : s[1] \notin ev'[d].big \cup ev'[d].tree
  <2>1. CASE d = e
    BY <1>1, <1>5, <2>1
  <2>2. CASE d # e
    <3>1. ev'[d] = ev[d] /\ running' \subseteq running
      BY <1>1, <1>2, <1>5, <2>2 DEF LockPcs
    <3> QED BY <1>5, <3>1 DEF Exclusive
  <2> QED BY <2>1, <2>2
<1> QED BY <1>3, <1>4, <1>5 DEF Exclusive, At

\* Only the one sweep writes stamps and notifies.
LEMMA StampedStep ==
  ASSUME TypeOK, Stamped, OneSweep, NEW e \in Evaluators, NEW rec \in EvalRecords,
         Goto(e, rec),
         rec.pc \in {"remind", "stamp", "notify"} => e \in Sweeps,
         \A t \in Tickets : notified'[t] <= reminded'[t],
         rec.pc \in {"stamp", "notify"} =>
           rec.ticket \in Tickets /\ rec.start >= notified'[rec.ticket] + Hours,
         rec.pc = "notify" => reminded'[rec.ticket] = rec.start,
         UNCHANGED <<reminded, notified>> \/ e \in Sweeps
  PROVE  Stamped'
<1>1. ev'[e] = rec /\ \A d \in Evaluators \ {e} : ev'[d] = ev[d]
  BY GotoType
<1>2. ASSUME NEW d \in Evaluators \ {e}, ev[d].pc \in {"remind", "stamp", "notify"}
      PROVE  UNCHANGED <<reminded, notified>>
  BY <1>2 DEF Stamped, OneSweep
<1>3. \A d \in Evaluators : ev'[d].pc \in {"remind", "stamp", "notify"} => d \in Sweeps
  BY <1>1 DEF Stamped
<1>4. ASSUME NEW d \in Evaluators, ev'[d].pc \in {"stamp", "notify"}
      PROVE  /\ ev'[d].ticket \in Tickets
             /\ ev'[d].start >= notified'[ev'[d].ticket] + Hours
  BY <1>1, <1>2, <1>4 DEF Stamped
<1>5. ASSUME NEW d \in Evaluators, ev'[d].pc = "notify"
      PROVE  reminded'[ev'[d].ticket] = ev'[d].start
  BY <1>1, <1>2, <1>5 DEF Stamped, At
<1> QED BY <1>3, <1>4, <1>5 DEF Stamped, At

\* All of it, for a step that writes neither stamps nor notifications.
Keeps == TypeOK' /\ (Exclusive => Exclusive') /\ (Stamped /\ OneSweep => Stamped')

LEMMA QuietStep ==
  ASSUME TypeOK, NEW e \in Evaluators, NEW rec \in EvalRecords, Goto(e, rec),
         lock' \in Evaluators \cup {Nobody}, running' \subseteq Slots, live' \subseteq Slots,
         over' \subseteq Roles, UNCHANGED <<now, board, restarts, notified>>,
         Exclusive =>
           /\ live' \subseteq running'
           /\ rec.pc \in LockPcs => lock' = e
           /\ rec.tree # {} => rec.pc = "wiping"
           /\ rec.pc \in {"wipe", "wiping"} =>
                \A s \in running' : s[1] \notin rec.big \cup rec.tree
           /\ lock' = lock \/ lock = Nobody \/ ev[e].pc \in LockPcs
           /\ running' \subseteq running \/ lock' = e,
         Stamped => (rec.pc \in {"remind", "stamp"} => e \in Sweeps),
         rec.pc = "stamp" =>
           rec.ticket \in Tickets /\ rec.start >= reminded[rec.ticket] + Hours,
         rec.pc # "notify"
  PROVE  Keeps
<1>1. TypeOK'
  <2>1. ev' \in [Evaluators -> EvalRecords]
    BY GotoType
  <2> QED BY <2>1 DEF TypeOK, board
<1>2. Exclusive => Exclusive'
  BY ExclusiveStep
<1>3. ASSUME Stamped, OneSweep PROVE Stamped'
  <2>1. UNCHANGED <<reminded, notified>>
    BY DEF board
  <2>2. \A t \in Tickets : notified'[t] <= reminded'[t]
    BY <1>3, <2>1 DEF Stamped
  <2>3. rec.pc \in {"stamp", "notify"} =>
          rec.ticket \in Tickets /\ rec.start >= notified'[rec.ticket] + Hours
    <3> SUFFICES ASSUME rec.pc = "stamp"
                 PROVE  rec.start >= notified'[rec.ticket] + Hours
      OBVIOUS
    <3>1. rec.ticket \in Tickets /\ notified[rec.ticket] <= reminded[rec.ticket]
      BY <1>3 DEF Stamped
    <3>2. notified[rec.ticket] \in Nat /\ reminded[rec.ticket] \in Nat /\ rec.start \in Nat
      BY <3>1, Constants DEF TypeOK, EvalRecords
    <3> QED BY <2>1, <3>1, <3>2, HousekeepingAssumption
  <2>4. rec.pc \in {"remind", "stamp", "notify"} => e \in Sweeps
    BY <1>3
  <2> QED BY <1>3, <2>1, <2>2, <2>3, <2>4, StampedStep
<1> QED BY <1>1, <1>2, <1>3 DEF Keeps

(***************************************************************************)
(* The passes, action by action.                                           *)
(***************************************************************************)
\* A pass begins, waits for the lock, starts agents under it and leaves it.
LEMMA DispatchKeeps ==
  ASSUME TypeOK, NEW e \in Evaluators,
         Search(e) \/ Flush(e) \/ TakeLock(e) \/ Spawn(e) \/ LeaveLock(e) \/ PassFails(e)
  PROVE  Keeps
<1> USE Constants, Fields, CollectedType
<1>1. CASE Search(e)
  <2> DEFINE rec == [Idle EXCEPT !.pc = "locking", !.found = frozen, !.seen = updated]
  <2>1. /\ rec \in EvalRecords /\ rec.pc = "locking" /\ rec.tree = {}
        /\ Goto(e, rec)
    BY <1>1 DEF Search, TypeOK, Idle, EvalRecords
  <2> HIDE DEF rec
  <2>2. running' = Collected /\ UNCHANGED <<now, board, over, live, lock, restarts, notified>>
    BY <1>1 DEF Search
  <2> QED BY <2>1, <2>2, QuietStep DEF TypeOK, LockPcs
<1>2. CASE Flush(e)
  <2> DEFINE rec == [Idle EXCEPT !.pc = "locking"]
  <2>1. /\ rec \in EvalRecords /\ rec.pc = "locking" /\ rec.tree = {}
        /\ Goto(e, rec)
    BY <1>2 DEF Flush, Idle, EvalRecords
  <2> HIDE DEF rec
  <2>2. UNCHANGED <<now, board, over, agents, lock, restarts, notified>>
    BY <1>2 DEF Flush
  <2> QED BY <2>1, <2>2, QuietStep DEF TypeOK, LockPcs, agents, Exclusive
<1>3. CASE TakeLock(e)
  <2> DEFINE rec == [ev[e] EXCEPT !.pc = "locked"]
  <2>1. /\ rec \in EvalRecords /\ rec.pc = "locked" /\ rec.tree = ev[e].tree
        /\ Goto(e, rec)
    BY <1>3 DEF TakeLock, EvalRecords
  <2> HIDE DEF rec
  <2>2. /\ At(e, "locking") /\ lock = Nobody /\ lock' = e
        /\ running' \in {Collected, running}
        /\ UNCHANGED <<now, board, over, live, restarts, notified>>
    BY <1>3 DEF TakeLock, LockFree
  <2>3. Exclusive => rec.tree = {}
    BY <2>1, <2>2 DEF Exclusive, At
  <2> QED BY <2>1, <2>2, <2>3, QuietStep DEF TypeOK, LockPcs, Exclusive
<1>4. CASE Spawn(e)
  <2>1. Goto(e, ev[e])
    BY <1>4 DEF Spawn, Goto, TypeOK
  <2>2. /\ ev[e].pc = "locked"
        /\ UNCHANGED <<now, board, over, lock, restarts, notified>>
    BY <1>4 DEF Spawn, At
  <2>3. PICK s \in Slots \ running : running' = running \cup {s} /\ live' = live \cup {s}
    BY <1>4 DEF Spawn
  <2>4. Exclusive => lock = e
    BY <2>2 DEF Exclusive, LockPcs
  <2>5. Exclusive => ev[e].tree = {} /\ live' \subseteq running'
    BY <2>2, <2>3 DEF Exclusive, At
  <2> QED BY <2>1, <2>2, <2>3, <2>4, <2>5, QuietStep DEF TypeOK, LockPcs
<1>5. CASE LeaveLock(e)
  <2> DEFINE rec == IF e \in Sweeps THEN [ev[e] EXCEPT !.pc = "remind", !.start = now] ELSE Idle
  <2>1. /\ ev[e].pc = "locked" /\ lock' = Nobody /\ Goto(e, rec)
        /\ UNCHANGED <<now, board, over, agents, restarts, notified>>
    BY <1>5 DEF LeaveLock, At
  <2>2. rec \in EvalRecords
    BY DEF TypeOK, EvalRecords
  <2>3. rec.pc \in {"remind", "idle"} /\ rec.tree \in {ev[e].tree, {}}
        /\ (rec.pc = "remind" => e \in Sweeps)
    BY DEF TypeOK, EvalRecords, Idle
  <2> HIDE DEF rec
  <2>4. Exclusive => rec.tree = {}
    BY <2>1, <2>3 DEF Exclusive, At
  <2> QED BY <2>1, <2>2, <2>3, <2>4, QuietStep DEF TypeOK, LockPcs, Exclusive, agents
<1>6. CASE PassFails(e)
  <2>1. CASE At(e, "idle") /\ running' = Collected
             /\ UNCHANGED <<now, board, over, live, lock, ev, restarts, notified>>
    <3>1. Goto(e, ev[e]) /\ ev[e].pc = "idle"
      BY <2>1 DEF Goto, TypeOK, At
    <3>2. Exclusive => ev[e].tree = {}
      BY <3>1 DEF Exclusive, At
    <3> QED BY <2>1, <3>1, <3>2, QuietStep DEF TypeOK, LockPcs
  <2>2. CASE At(e, "locked") /\ lock' = Nobody /\ Goto(e, Idle)
             /\ UNCHANGED <<now, board, over, agents, restarts, notified>>
    <3>1. Idle.pc = "idle" /\ Idle.tree = {} /\ ev[e].pc = "locked"
      BY <2>2 DEF Idle, At
    <3> QED BY <2>2, <3>1, QuietStep DEF TypeOK, LockPcs, Exclusive, agents
  <2> QED BY <1>6, <2>1, <2>2 DEF PassFails
<1> QED BY <1>1, <1>2, <1>3, <1>4, <1>5, <1>6

\* The workspaces: the list is struck down to idle roles when the lock is taken,
\* and nobody starts an agent until it is worked off.
LEMMA QuotaKeeps ==
  ASSUME TypeOK, NEW e \in Evaluators,
         Scan(e) \/ Relock(e) \/ BeginWipe(e) \/ EndWipe(e) \/ EndQuota(e)
  PROVE  Keeps
<1> USE Constants, Fields
<1> USE DEF TypeOK, agents
<1>1. CASE Scan(e)
  <2> DEFINE rec == IF over = {} THEN Idle ELSE [Idle EXCEPT !.pc = "relock", !.big = over]
  <2>1. /\ rec \in EvalRecords /\ rec.pc \in {"idle", "relock"} /\ rec.tree = {}
        /\ Goto(e, rec)
    BY <1>1 DEF Scan, Idle, EvalRecords
  <2> HIDE DEF rec
  <2>2. UNCHANGED <<now, board, over, agents, lock, restarts, notified>>
    BY <1>1 DEF Scan
  <2> QED BY <2>1, <2>2, QuietStep DEF LockPcs, Exclusive
<1>2. CASE Relock(e)
  <2> DEFINE rec == [ev[e] EXCEPT !.pc = "wipe", !.big = @ \ RunningRoles]
  <2>1. /\ rec \in EvalRecords /\ rec.pc = "wipe" /\ rec.tree = ev[e].tree
        /\ rec.big = ev[e].big \ RunningRoles /\ Goto(e, rec)
    BY <1>2 DEF Relock, EvalRecords
  <2> HIDE DEF rec
  <2>2. /\ At(e, "relock") /\ lock = Nobody /\ lock' = e
        /\ UNCHANGED <<now, board, over, agents, restarts, notified>>
    BY <1>2 DEF Relock, LockFree
  <2>3. Exclusive => rec.tree = {}
    BY <2>1, <2>2 DEF Exclusive, At
  <2>4. \A s \in running : s[1] \notin rec.big
    BY <2>1 DEF RunningRoles
  <2> QED BY <2>1, <2>2, <2>3, <2>4, QuietStep DEF LockPcs, Exclusive
<1>3. CASE BeginWipe(e)
  <2>1. PICK r \in ev[e].big :
          Goto(e, [ev[e] EXCEPT !.pc = "wiping", !.big = @ \ {r}, !.tree = {r}])
    BY <1>3 DEF BeginWipe
  <2> DEFINE rec == [ev[e] EXCEPT !.pc = "wiping", !.big = @ \ {r}, !.tree = {r}]
  <2>2. /\ rec \in EvalRecords /\ rec.pc = "wiping" /\ rec.tree = {r}
        /\ rec.big = ev[e].big \ {r} /\ Goto(e, rec)
    BY <2>1 DEF EvalRecords
  <2> HIDE DEF rec
  <2>3. /\ ev[e].pc = "wipe" /\ UNCHANGED <<now, board, over, agents, lock, restarts, notified>>
    BY <1>3 DEF BeginWipe, At
  <2>4. Exclusive => lock = e /\ \A s \in running : s[1] \notin rec.big \cup rec.tree
    BY <2>2, <2>3 DEF Exclusive, LockPcs
  <2> QED BY <2>2, <2>3, <2>4, QuietStep DEF Exclusive
<1>4. CASE EndWipe(e)
  <2> DEFINE rec == [ev[e] EXCEPT !.pc = "wipe", !.tree = {}]
  <2>1. /\ rec \in EvalRecords /\ rec.pc = "wipe" /\ rec.tree = {}
        /\ rec.big = ev[e].big /\ Goto(e, rec)
    BY <1>4 DEF EndWipe, EvalRecords
  <2> HIDE DEF rec
  <2>2. /\ ev[e].pc = "wiping" /\ over' \subseteq Roles
        /\ UNCHANGED <<now, board, agents, lock, restarts, notified>>
    BY <1>4 DEF EndWipe, At
  <2>3. Exclusive => lock = e /\ \A s \in running : s[1] \notin rec.big
    BY <2>1, <2>2 DEF Exclusive, LockPcs
  <2> QED
    <3>1. running' = running /\ live' = live /\ lock' = lock
      BY <2>2
    <3>2. /\ lock' \in Evaluators \cup {Nobody} /\ running' \subseteq Slots /\ live' \subseteq Slots
          /\ UNCHANGED <<now, board, restarts, notified>>
      BY <2>2
    <3>3. Exclusive =>
           /\ live' \subseteq running'
           /\ rec.pc \in LockPcs => lock' = e
           /\ rec.tree # {} => rec.pc = "wiping"
           /\ rec.pc \in {"wipe", "wiping"} =>
                \A s \in running' : s[1] \notin rec.big \cup rec.tree
           /\ lock' = lock
           /\ running' \subseteq running
      BY <2>1, <2>3, <3>1 DEF Exclusive
    <3> QED BY <2>1, <2>2, <3>2, <3>3, QuietStep
<1>5. CASE EndQuota(e)
  <2>1. /\ ev[e].pc = "wipe" /\ lock' = Nobody /\ Goto(e, Idle)
        /\ Idle.pc = "idle" /\ Idle.tree = {}
        /\ UNCHANGED <<now, board, over, agents, restarts, notified>>
    BY <1>5 DEF EndQuota, At, Idle
  <2> QED BY <2>1, QuietStep DEF LockPcs, Exclusive
<1> QED BY <1>1, <1>2, <1>3, <1>4, <1>5

\* The reminders.  A check lets pass what is due by the stamp; the stamp is then
\* set to the time of the scan, and so is the notification after it.
LEMMA RemindersKeep ==
  ASSUME TypeOK, NEW e \in Evaluators,
         CheckReminder(e) \/ Stamp(e) \/ Notify(e) \/ EndReminders(e)
  PROVE  Keeps
<1> USE Constants, Fields
<1>0. Stamped => e \in Sweeps
  BY DEF CheckReminder, Stamp, Notify, EndReminders, At, Stamped
<1>1. CASE CheckReminder(e)
  <2>1. PICK t \in ev[e].found :
          Goto(e, [ev[e] EXCEPT !.found = @ \ {t},
                                !.pc = IF Due(e, t) THEN "stamp" ELSE "remind",
                                !.ticket = IF Due(e, t) THEN t ELSE NoTicket])
    BY <1>1 DEF CheckReminder
  <2> DEFINE rec == [ev[e] EXCEPT !.found = @ \ {t},
                                  !.pc = IF Due(e, t) THEN "stamp" ELSE "remind",
                                  !.ticket = IF Due(e, t) THEN t ELSE NoTicket]
  <2>2. /\ rec \in EvalRecords /\ rec.tree = ev[e].tree /\ rec.start = ev[e].start
        /\ rec.pc = (IF Due(e, t) THEN "stamp" ELSE "remind")
        /\ rec.ticket = (IF Due(e, t) THEN t ELSE NoTicket)
        /\ Goto(e, rec)
    BY <2>1 DEF EvalRecords
  <2> HIDE DEF rec
  <2>3. ev[e].pc = "remind" /\ UNCHANGED <<now, board, over, agents, lock, restarts, notified>>
    BY <1>1 DEF CheckReminder, At
  <2>4. Exclusive => rec.tree = {}
    BY <2>2, <2>3 DEF Exclusive, At
  <2>5. rec.pc = "stamp" =>
          rec.ticket \in Tickets /\ rec.start >= reminded[rec.ticket] + Hours
    BY <2>2 DEF Due
  <2>6. rec.pc \in {"remind", "stamp"}
    BY <2>2
  <2> QED BY <1>0, <2>2, <2>3, <2>4, <2>5, <2>6, QuietStep DEF TypeOK, LockPcs, Exclusive, agents
<1>2. CASE Stamp(e)
  <2> DEFINE rec == [ev[e] EXCEPT !.pc = "notify"]
  <2>1. /\ rec \in EvalRecords /\ rec.pc = "notify" /\ rec.tree = ev[e].tree
        /\ rec.ticket = ev[e].ticket /\ rec.start = ev[e].start
        /\ Goto(e, rec)
    BY <1>2 DEF Stamp, EvalRecords
  <2> HIDE DEF rec
  <2>2. /\ ev[e].pc = "stamp" /\ reminded' = [reminded EXCEPT ![rec.ticket] = rec.start]
        /\ UNCHANGED <<now, frozen, updated, over, agents, lock, restarts, notified>>
    BY <1>2, <2>1 DEF Stamp, At
  <2>3. TypeOK'
    <3>1. ev' \in [Evaluators -> EvalRecords]
      BY <2>1, GotoType
    <3>2. reminded' \in [Tickets -> Times]
      BY <2>1, <2>2 DEF TypeOK
    <3> QED BY <2>2, <3>1, <3>2 DEF TypeOK, agents
  <2>4. ASSUME Exclusive PROVE Exclusive'
    <3>1. rec.tree = {}
      BY <2>1, <2>2, <2>4 DEF Exclusive, At
    <3> QED BY <2>1, <2>2, <2>4, <3>1, ExclusiveStep DEF LockPcs, Exclusive, agents
  <2>5. ASSUME Stamped, OneSweep PROVE Stamped'
    <3>1. /\ rec.ticket \in Tickets /\ rec.start \in Nat /\ notified[rec.ticket] \in Nat
          /\ rec.start >= notified[rec.ticket] + Hours
      BY <2>1, <2>2, <2>5 DEF Stamped, TypeOK
    <3>2. reminded'[rec.ticket] = rec.start
      BY <2>2, <3>1 DEF TypeOK
    <3>3. ASSUME NEW t \in Tickets PROVE notified'[t] <= reminded'[t]
      <4>1. CASE t = rec.ticket
        BY <2>2, <3>1, <3>2, <4>1, HousekeepingAssumption
      <4>2. CASE t # rec.ticket
        BY <2>2, <2>5, <4>2 DEF Stamped, TypeOK
      <4> QED BY <4>1, <4>2
    <3>4. rec.start >= notified'[rec.ticket] + Hours
      BY <2>2, <3>1
    <3> QED BY <1>0, <2>1, <2>5, <3>1, <3>2, <3>3, <3>4, StampedStep
  <2> QED BY <2>3, <2>4, <2>5 DEF Keeps
<1>3. CASE Notify(e)
  <2> DEFINE rec == [ev[e] EXCEPT !.pc = "remind", !.ticket = NoTicket]
  <2>1. /\ rec \in EvalRecords /\ rec.pc = "remind" /\ rec.tree = ev[e].tree
        /\ Goto(e, rec)
    BY <1>3 DEF Notify, EvalRecords
  <2> HIDE DEF rec
  <2>2. /\ ev[e].pc = "notify"
        /\ notified' = [notified EXCEPT ![ev[e].ticket] = ev[e].start]
        /\ UNCHANGED <<now, frozen, updated, reminded, over, agents, lock, restarts>>
    BY <1>3 DEF Notify, At, board
  <2>3. TypeOK'
    <3>1. ev' \in [Evaluators -> EvalRecords]
      BY <2>1, GotoType
    <3>2. notified' \in [Tickets -> Times]
      BY <2>2 DEF TypeOK
    <3> QED BY <2>2, <3>1, <3>2 DEF TypeOK, agents
  <2>4. ASSUME Exclusive PROVE Exclusive'
    <3>1. rec.tree = {}
      BY <2>1, <2>2, <2>4 DEF Exclusive, At
    <3> QED BY <2>1, <2>2, <2>4, <3>1, ExclusiveStep DEF LockPcs, Exclusive, agents
  <2>5. ASSUME Stamped, OneSweep PROVE Stamped'
    <3>1. ev[e].ticket \in Tickets /\ ev[e].start \in Nat /\ reminded[ev[e].ticket] = ev[e].start
      BY <2>2, <2>5 DEF Stamped, At
    <3>2. ASSUME NEW t \in Tickets PROVE notified'[t] <= reminded'[t]
      <4>1. CASE t = ev[e].ticket
        BY <2>2, <3>1, <4>1 DEF TypeOK
      <4>2. CASE t # ev[e].ticket
        BY <2>2, <2>5, <4>2 DEF Stamped, TypeOK
      <4> QED BY <4>1, <4>2
    <3> QED BY <1>0, <2>1, <2>5, <3>2, StampedStep
  <2> QED BY <2>3, <2>4, <2>5 DEF Keeps
<1>4. CASE EndReminders(e)
  <2>1. /\ AfterReminders(e) \in EvalRecords /\ AfterReminders(e).pc = "scan"
        /\ AfterReminders(e).tree = {} /\ Goto(e, AfterReminders(e))
    BY <1>4 DEF EndReminders, AfterReminders, Idle, EvalRecords
  <2>2. UNCHANGED <<now, board, over, agents, lock, restarts, notified>>
    BY <1>4 DEF EndReminders
  <2> QED BY <2>1, <2>2, QuietStep DEF TypeOK, LockPcs, Exclusive, agents
<1> QED BY <1>1, <1>2, <1>3, <1>4

\* Agents, humans, the clock and the supervisor.
LEMMA OutsideKeeps ==
  ASSUME TypeOK,
         \/ \E s \in Slots : AgentGrows(s) \/ AgentEnds(s)
         \/ \E t \in Tickets : BoardMoves(t)
         \/ Tick \/ Restart \/ UNCHANGED vars
  PROVE  Keeps
<1> USE Constants
<1>1. ASSUME NEW s \in Slots, AgentGrows(s) PROVE Keeps
  <2>1. s[1] \in Roles
    BY DEF Slots
  <2> QED BY <1>1, <2>1 DEF AgentGrows, Keeps, TypeOK, Exclusive, Stamped, agents, board, At
<1>2. ASSUME NEW s \in Slots, AgentEnds(s) PROVE Keeps
  BY <1>2 DEF AgentEnds, Keeps, TypeOK, Exclusive, Stamped, board, At
<1>3. ASSUME NEW t \in Tickets, BoardMoves(t) PROVE Keeps
  BY <1>3 DEF BoardMoves, Keeps, TypeOK, Exclusive, Stamped, agents, At
<1>4. CASE Tick
  <2>1. now' \in Times
    BY <1>4, HousekeepingAssumption DEF Tick, TypeOK, Times
  <2> QED BY <1>4, <2>1 DEF Tick, Keeps, TypeOK, Exclusive, Stamped, agents, board, At
<1>5. CASE Restart
  <2>1. /\ ev' = [e \in Evaluators |-> Idle] /\ Idle.pc = "idle" /\ Idle.tree = {}
        /\ running' = {} /\ live' = {} /\ lock' = Nobody
        /\ UNCHANGED <<now, board, over, notified>>
    BY <1>5 DEF Restart, Idle
  <2>2. restarts' \in 0 .. MaxRestarts
    BY <1>5, HousekeepingAssumption DEF Restart, TypeOK
  <2>3. TypeOK'
    BY <2>1, <2>2 DEF TypeOK, board
  <2>4. Exclusive'
    BY <2>1 DEF Exclusive, LockPcs, At
  <2>5. Stamped => Stamped'
    BY <2>1 DEF Stamped, board, At
  <2> QED BY <2>3, <2>4, <2>5 DEF Keeps
<1>6. CASE UNCHANGED vars
  BY <1>6 DEF vars, Keeps, TypeOK, Exclusive, Stamped, agents, board, At
<1> QED BY <1>1, <1>2, <1>3, <1>4, <1>5, <1>6

(***************************************************************************)
(* The theorems.                                                           *)
(***************************************************************************)
LEMMA Initially == Init => TypeOK /\ Exclusive /\ Stamped
<1> SUFFICES ASSUME Init PROVE TypeOK /\ Exclusive /\ Stamped
  OBVIOUS
<1>1. ev = [e \in Evaluators |-> Idle] /\ Idle.pc = "idle" /\ Idle.tree = {}
  BY DEF Init, Idle
<1>2. restarts \in 0 .. MaxRestarts
  BY HousekeepingAssumption DEF Init
<1>3. TypeOK
  BY <1>1, <1>2, Constants DEF Init, TypeOK
<1>4. Exclusive
  BY <1>1 DEF Init, Exclusive, LockPcs, At
<1>5. Stamped
  BY <1>1, Constants DEF Init, Stamped, At, Never
<1> QED BY <1>3, <1>4, <1>5

LEMMA Step ==
  ASSUME TypeOK, [Next]_vars
  PROVE  Keeps
<1>1. ASSUME NEW e \in Evaluators, Pass(e) PROVE Keeps
  BY <1>1, DispatchKeeps, RemindersKeep, QuotaKeeps DEF Pass
<1> QED BY <1>1, OutsideKeeps DEF Next

\* The variables keep their types; the clock its bound, and the time stamps with
\* it.
THEOREM Typing == Spec => []TypeOK
<1>1. Init => TypeOK
  BY Initially
<1>2. TypeOK /\ [Next]_vars => TypeOK'
  BY Step DEF Keeps
<1> QED BY <1>1, <1>2, PTL DEF Spec

\* The lock is one, what it protects is touched under it, and the quota wipes
\* only workspaces whose role has no slot.
THEOREM LockProtects == Spec => []Exclusive
<1>1. Init => Exclusive
  BY Initially
<1>2. TypeOK /\ Exclusive /\ [Next]_vars => Exclusive'
  BY Step DEF Keeps
<1> QED BY <1>1, <1>2, Typing, PTL DEF Spec

\* _enforce_workspace_quota never deletes a workspace an agent works in, and no
\* agent starts into one that is being deleted: with any number of sweeps and
\* flushes.
THEOREM WorkspaceSafe == Spec => []NeverYanked
<1>1. Exclusive => NeverYanked
  <2> SUFFICES ASSUME Exclusive, NEW e \in Sweeps, NEW s \in live
               PROVE  s[1] \notin ev[e].tree
    BY DEF NeverYanked
  <2>1. e \in Evaluators /\ s \in running
    BY DEF Exclusive, Evaluators
  <2>2. CASE ev[e].tree = {}
    BY <2>2
  <2>3. CASE ev[e].tree # {}
    BY <2>1, <2>3 DEF Exclusive, At
  <2> QED BY <2>2, <2>3
<1> QED BY <1>1, LockProtects, PTL

\* _remind_stale_escalations: whatever the clock, the board and the restarts do,
\* two notifications about a ticket are a window apart, when sweeps do not
\* overlap.
THEOREM RemindedOnce == OneSweep => (Spec => []OneReminderPerWindow)
<1> SUFFICES ASSUME OneSweep PROVE Spec => []OneReminderPerWindow
  OBVIOUS
<1>1. Init => Stamped
  BY Initially
<1>2. TypeOK /\ Stamped /\ [Next]_vars => Stamped'
  BY Step DEF Keeps
<1>3. Stamped => OneReminderPerWindow
  BY DEF Stamped, OneReminderPerWindow, At, Evaluators
<1> QED BY <1>1, <1>2, <1>3, Typing, PTL DEF Spec
=============================================================================
