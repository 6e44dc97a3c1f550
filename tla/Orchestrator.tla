---------------------------- MODULE Orchestrator ----------------------------
(***************************************************************************)
(* The dispatcher (role 01).  Evaluators are the coroutines that run       *)
(* _evaluate_ticket and _evaluate_queues: sweeps - the periodic one and    *)
(* those POST /sweep starts - and webhook flushes.  They share the dict    *)
(* `running`, guarded by one lock, with the runs they spawn.  Every step   *)
(* ends at an await.                                                       *)
(***************************************************************************)
EXTENDS AgentRun

CONSTANTS
  Sweeps,          \* the sweeps that may be in progress at once
  Flushes,         \* the webhook flush tasks (the code has at most one)
  Nobody,
  OperatorPauses,  \* whether the pipeline is paused and resumed
  PayloadsMiss,    \* whether a webhook may find no valid handoff payload
  Exits,           \* how the process may end: it is killed, or told to stop
  MaxRestarts      \* bound on process restarts

Evaluators == Sweeps \cup Flushes

ASSUME OrchestratorAssumption ==
  /\ Nobody \notin Evaluators
  /\ Sweeps \cap Flushes = {}
  /\ OperatorPauses \in BOOLEAN /\ PayloadsMiss \in BOOLEAN
  /\ Exits \subseteq {"kill", "stop"} /\ MaxRestarts \in Nat

VARIABLES
  running,    \* slot -> the registered task and the status it counts under
  lock,       \* holder of Orchestrator._lock
  ev,         \* evaluator -> where that coroutine is
  paused,     \* the pause flag (persisted), or any other reason dispatch is off
  stop,       \* Orchestrator.stop, where it is
  restarts    \* process restarts so far

orchVars == <<running, lock, ev, paused, stop, restarts>>

vars == <<boardVars, run, orchVars>>

NotRunning == [inst |-> 0, status |-> NoStatus]

Registered(x) == running[x] # NotRunning

\* search   waiting for the sweep's board search (before the lock)
\* locking  waiting for the lock
\* pick     between tickets; lease..unpark: awaits of _evaluate_ticket
\* queues   between queue roles; capacity: await of _queue_condition_met
EvalPcs == {"idle", "search", "locking", "pick", "lease", "reclaim", "bump",
            "bumped", "retries", "reset", "escalate", "rework", "waiting",
            "unpark", "queues", "capacity"}

TicketPcs == {"lease", "reclaim", "bump", "bumped", "retries", "reset",
              "escalate", "rework", "waiting", "unpark"}

InLock == TicketPcs \cup {"pick", "queues", "capacity"}

EvalRecords ==
  [pc    : EvalPcs,
   todo  : SUBSET Tickets,                 \* tickets left to evaluate
   snap  : [Tickets -> Issues],            \* what the search returned
   slot  : Slots \cup {<<NoRole, NoTicket>>},   \* role and ticket under evaluation
   st    : Statuses \cup {NoStatus},       \* the status the evaluation goes by
   cnt   : Nat,                            \* a retry count it has read
   qtodo : SUBSET QueueRoles]              \* queue roles left to evaluate

NoSlot == <<NoRole, NoTicket>>

Idle == [pc |-> "idle", todo |-> {}, snap |-> [t \in Tickets |-> Absent],
         slot |-> NoSlot, st |-> NoStatus, cnt |-> 0, qtodo |-> {}]

StopRecords ==
  [on   : BOOLEAN,
   calm : BOOLEAN,           \* history: no pass was in progress when it began
   told : SUBSET Runs,       \* tasks cancelled that have not noticed yet
   left : SUBSET Tickets]    \* tickets whose lease it will release itself

NotStopping == [on |-> FALSE, calm |-> FALSE, told |-> {}, left |-> {}]

TypeOK ==
  /\ BoardTypeOK
  /\ RunTypeOK
  /\ running \in [Slots -> [inst : Instances \cup {0}, status : Statuses \cup {NoStatus}]]
  /\ lock \in Evaluators \cup {Nobody}
  /\ ev \in [Evaluators -> EvalRecords]
  /\ paused \in BOOLEAN
  /\ stop \in StopRecords
  /\ restarts \in Nat

Init ==
  /\ BoardInit
  /\ RunInit
  /\ running = [x \in Slots |-> NotRunning]
  /\ lock = Nobody
  /\ ev = [e \in Evaluators |-> Idle]
  /\ paused = FALSE
  /\ stop = NotStopping
  /\ restarts = 0

InPc(e, pc) == ev[e].pc = pc

Step(e, rec) == ev' = [ev EXCEPT ![e] = rec]

\* On to the next ticket of this pass, whatever the outcome for this one.
NextTicket(e) ==
  Step(e, [ev[e] EXCEPT !.pc = "pick", !.slot = NoSlot, !.st = NoStatus, !.cnt = 0,
             !.todo = @ \ {ev[e].slot[2]}])

TicketOf(e) == ev[e].slot[2]

(***************************************************************************)
(* The dict `running`.                                                     *)
(***************************************************************************)
Finished(x) == Registered(x) /\ ~Live(<<x, running[x].inst>>)

\* Slip: finished tasks are never forgotten.
SweptNot == running

\* Slip: the tasks still at work are forgotten too.
SweptAll == [x \in Slots |-> NotRunning]

\* _gc_running: forget the tasks that are done.
Swept == [x \in Slots |-> IF Finished(x) THEN NotRunning ELSE running[x]]

RunningCount(s) == Cardinality({x \in Slots : Registered(x) /\ running[x].status = s})

\* Slip: > for >=.
WipFullLate(s) == s \in Limited /\ RunningCount(s) > WipLimit[s]

WipFull(s) == s \in Limited /\ RunningCount(s) >= WipLimit[s]

\* _spawn: create the task and register it under its slot; no await.
Spawn(x, s, tickets) ==
  \E i \in Instances :
    /\ ~Live(<<x, i>>)
    /\ \A j \in Instances : ~Live(<<x, j>>) => i <= j
    /\ run' = [run EXCEPT ![<<x, i>>] = NewRun(x, s, tickets)]
    /\ running' = [running EXCEPT ![x] = [inst |-> i, status |-> s]]

(***************************************************************************)
(* Passes: sweep, _flush_pending, and the lock around both.                *)
(***************************************************************************)
SweepBegin(e) ==
  /\ e \in Sweeps /\ InPc(e, "idle") /\ ~stop.on
  /\ running' = Swept
  /\ Step(e, [Idle EXCEPT !.pc = "search"])
  /\ UNCHANGED <<boardVars, run, lock, paused, stop, restarts>>

\* The snapshot is taken before the lock, and may be old when it is used.
SweepSearch(e) ==
  /\ InPc(e, "search")
  /\ Step(e, [Idle EXCEPT !.pc = "locking", !.snap = SearchResult,
                !.todo = {t \in Tickets : status[t] \in AgentStatuses}])
  /\ UNCHANGED <<boardVars, run, running, lock, paused, stop, restarts>>

\* Webhooks for some tickets arrived; the debounce is over.
FlushBegin(e) ==
  /\ e \in Flushes /\ InPc(e, "idle")
  /\ \E keys \in (SUBSET Tickets) \ {{}} :
       Step(e, [Idle EXCEPT !.pc = "locking", !.todo = keys])
  /\ UNCHANGED <<boardVars, run, running, lock, paused, stop, restarts>>

LockFree == lock = Nobody

TakeLock(e) ==
  /\ InPc(e, "locking") /\ LockFree
  /\ lock' = e
  /\ Step(e, [ev[e] EXCEPT !.pc = "pick"])
  /\ running' = IF e \in Flushes THEN Swept ELSE running
  /\ UNCHANGED <<boardVars, run, paused, stop, restarts>>

\* The pass is over: leave the lock and start from nothing next time.
EndPass(e) ==
  /\ Step(e, Idle)
  /\ lock' = Nobody

(***************************************************************************)
(* _evaluate_ticket.                                                       *)
(***************************************************************************)
\* A sweep goes by its snapshot, a flush has just fetched the issue.
IssueFor(e, t) == IF e \in Sweeps THEN ev[e].snap[t] ELSE Issue(t)

\* Slip: the flag is not looked at.
SuspendedNever == FALSE

Suspended == paused

\* Slip: `running` is not looked at.
EligibleTwice(role, t, issue) ==
  /\ ~Suspended
  /\ ~Frozen(issue.labels)
  /\ Required[role] \subseteq issue.labels

\* The checks before the first await.
Eligible(role, t, issue) ==
  /\ ~Suspended
  /\ ~Frozen(issue.labels)
  /\ Required[role] \subseteq issue.labels
  /\ ~Registered(<<role, t>>)

Consider(e) ==
  /\ InPc(e, "pick")
  /\ \E t \in ev[e].todo :
       LET issue == IssueFor(e, t)
           roles == {r \in TicketRolesFor(issue.status) : Eligible(r, t, issue)}
       IN \/ \E role \in roles :
               Step(e, [ev[e] EXCEPT !.pc = "lease", !.slot = <<role, t>>, !.st = issue.status])
          \/ roles = {} /\ Step(e, [ev[e] EXCEPT !.todo = @ \ {t}])
  /\ UNCHANGED <<boardVars, run, running, lock, paused, stop, restarts>>

\* Steps of _evaluate_ticket that end at the next await, nothing spawned.
Evaluating == UNCHANGED <<run, running, lock, paused, stop, restarts>>

ReadLease(e) ==
  /\ InPc(e, "lease")
  /\ LET l == lease[TicketOf(e)]
     IN \/ l = NoLease /\ Step(e, [ev[e] EXCEPT !.pc = "retries"])
        \/ l # NoLease /\ IsStale(l) /\ Step(e, [ev[e] EXCEPT !.pc = "reclaim"])
        \/ Active(l) /\ NextTicket(e)
  /\ Evaluating /\ UNCHANGED boardVars

\* LeaseManager.reclaim: a forced release.
Reclaim(e) ==
  /\ InPc(e, "reclaim")
  /\ WriteLease(TicketOf(e), NoLease)
  /\ Step(e, [ev[e] EXCEPT !.pc = "bump"])
  /\ Evaluating

ReclaimBumpRead(e) ==
  /\ InPc(e, "bump")
  /\ Step(e, [ev[e] EXCEPT !.pc = "bumped", !.cnt = retries[TicketOf(e)]])
  /\ Evaluating /\ UNCHANGED boardVars

ReclaimBumpWrite(e) ==
  /\ InPc(e, "bumped")
  /\ WriteRetries(TicketOf(e), Bumped(ev[e].cnt))
  /\ Step(e, [ev[e] EXCEPT !.pc = "retries", !.cnt = 0])
  /\ Evaluating

\* Slip: one retry more.
OutOfRetriesLate(n) == n > 2

OutOfRetries(n) == n > 1

ReadRetries(e) ==
  /\ InPc(e, "retries")
  /\ Step(e, [ev[e] EXCEPT !.pc =
       IF OutOfRetries(retries[TicketOf(e)]) THEN "reset"
       ELSE IF ev[e].slot[1] = Router THEN "rework" ELSE "waiting"])
  /\ Evaluating /\ UNCHANGED boardVars

\* A fresh budget for when the human removes needs-human.
ResetRetries(e) ==
  /\ InPc(e, "reset")
  /\ WriteRetries(TicketOf(e), 0)
  /\ Step(e, [ev[e] EXCEPT !.pc = "escalate"])
  /\ Evaluating

EscalateTicket(e) ==
  /\ InPc(e, "escalate")
  /\ AddLabels(TicketOf(e), {"needs-human"})
  /\ NextTicket(e)
  /\ Evaluating

\* Slip: one rework more.
OverReworkLimitLate(t) == rework[t] > ReworkLimit + 1

\* The loop-breaker.
OverReworkLimit(t) == rework[t] > ReworkLimit

ReadRework(e) ==
  /\ InPc(e, "rework")
  /\ Step(e, [ev[e] EXCEPT !.pc =
       IF OverReworkLimit(TicketOf(e)) THEN "escalate" ELSE "waiting"])
  /\ Evaluating /\ UNCHANGED boardVars

\* The end of _evaluate_ticket: the WIP check and _spawn, with no await between.
Dispatch(e) ==
  /\ IF WipFull(ev[e].st) THEN UNCHANGED <<run, running>>
     ELSE Spawn(ev[e].slot, ev[e].st, {})
  /\ NextTicket(e)
  /\ UNCHANGED <<lock, paused, stop, restarts>>

\* A parked ticket wakes on newer activity or at wake_at: either may be so.
ReadWaiting(e) ==
  /\ InPc(e, "waiting")
  /\ \/ ~waiting[TicketOf(e)] /\ Dispatch(e)
     \/ waiting[TicketOf(e)] /\ NextTicket(e) /\ Evaluating
     \/ waiting[TicketOf(e)] /\ Step(e, [ev[e] EXCEPT !.pc = "unpark"]) /\ Evaluating
  /\ UNCHANGED boardVars

Unpark(e) ==
  /\ InPc(e, "unpark")
  /\ WriteWaiting(TicketOf(e), FALSE)
  /\ Dispatch(e)

\* A JiraError on one ticket is logged and the pass goes on with the next.
EvaluationFails(e) ==
  /\ "pass" \in JiraFails /\ ev[e].pc \in TicketPcs
  /\ NextTicket(e)
  /\ Evaluating /\ UNCHANGED boardVars

(***************************************************************************)
(* _evaluate_queues.                                                       *)
(***************************************************************************)
\* A flush searches the board first; the pause is checked once, here.
EnterQueues(e) ==
  /\ InPc(e, "pick") /\ ev[e].todo = {}
  /\ IF Suspended THEN EndPass(e)
     ELSE /\ Step(e, [ev[e] EXCEPT !.pc = "queues", !.qtodo = QueueRoles,
                        !.snap = IF e \in Flushes THEN SearchResult ELSE @])
          /\ UNCHANGED lock
  /\ UNCHANGED <<boardVars, run, running, paused, stop, restarts>>

Actionable(e, q) ==
  {t \in Tickets : ev[e].snap[t].status \in Watches[q] /\ ~Frozen(ev[e].snap[t].labels)}

SomeLabel(e, q, l) == \E t \in Actionable(e, q) : l \in ev[e].snap[t].labels

\* _queue_condition_met, without the capacity search.  Whether min_interval
\* has elapsed is left open.
ConditionOpen(e, q) ==
  CASE Condition[q] = "window" -> {SomeLabel(e, q, "release-now")}
    [] Condition[q] = "interval" -> IF SomeLabel(e, q, "deploy-now") THEN {TRUE} ELSE BOOLEAN
    [] OTHER -> {TRUE}

QueueDone(e, q) == Step(e, [ev[e] EXCEPT !.pc = "queues", !.slot = NoSlot, !.qtodo = @ \ {q}])

SpawnQueue(e, q) == Spawn(<<q, NoTicket>>, Anchor[q], Actionable(e, q)) /\ QueueDone(e, q)

\* Slip: `running` is not looked at.
QueueReadyTwice(e, q) == Actionable(e, q) # {}

QueueReady(e, q) == ~Registered(<<q, NoTicket>>) /\ Actionable(e, q) # {}

ConsiderQueue(e) ==
  /\ InPc(e, "queues")
  /\ \E q \in ev[e].qtodo :
       IF ~QueueReady(e, q) THEN QueueDone(e, q) /\ UNCHANGED <<run, running>>
       ELSE IF Condition[q] = "capacity"
       THEN /\ Step(e, [ev[e] EXCEPT !.pc = "capacity", !.slot = <<q, NoTicket>>])
            /\ UNCHANGED <<run, running>>
       ELSE \E open \in ConditionOpen(e, q) :
              IF open THEN SpawnQueue(e, q)
              ELSE QueueDone(e, q) /\ UNCHANGED <<run, running>>
  /\ UNCHANGED <<boardVars, lock, paused, stop, restarts>>

AtCapacity == InProgress \in Limited
              /\ Cardinality({t \in Tickets : status[t] = InProgress}) >= WipLimit[InProgress]

CheckCapacity(e) ==
  /\ InPc(e, "capacity")
  /\ LET q == ev[e].slot[1]
     IN IF AtCapacity THEN QueueDone(e, q) /\ UNCHANGED <<run, running>>
        ELSE SpawnQueue(e, q)
  /\ UNCHANGED <<boardVars, lock, paused, stop, restarts>>

LeaveQueues(e) ==
  /\ InPc(e, "queues") /\ ev[e].qtodo = {}
  /\ EndPass(e)
  /\ UNCHANGED <<boardVars, run, running, paused, stop, restarts>>

\* A JiraError outside the per-ticket handlers ends the pass: the board
\* search of a sweep, the queue search of a flush, the capacity search.
PassFails(e) ==
  /\ "pass" \in JiraFails
  /\ \/ InPc(e, "search") /\ Step(e, Idle) /\ UNCHANGED lock
     \/ InPc(e, "pick") /\ ev[e].todo = {} /\ e \in Flushes /\ EndPass(e)
     \/ InPc(e, "capacity") /\ EndPass(e)
  /\ UNCHANGED <<boardVars, run, running, paused, stop, restarts>>

(***************************************************************************)
(* Everything else that writes this state.                                 *)
(***************************************************************************)
\* _on_status_change for an agent's transition: a valid payload resets the
\* retries of the stage, a missing one freezes the ticket.
OnStatusChange(t) ==
  /\ notice[t]
  /\ notice' = [notice EXCEPT ![t] = FALSE]
  /\ \/ retries' = [retries EXCEPT ![t] = 0] /\ UNCHANGED labels
     \/ PayloadsMiss /\ labels' = [labels EXCEPT ![t] = @ \cup FreezeLabels] /\ UNCHANGED retries
  /\ UNCHANGED <<status, lease, rework, rejected, waiting, beats, run, orchVars>>

PauseOrResume ==
  /\ OperatorPauses
  /\ paused' = ~paused
  /\ UNCHANGED <<boardVars, run, running, lock, ev, stop, restarts>>

\* A new process: every task is gone, the leases are not.
Reborn ==
  /\ restarts' = restarts + 1
  /\ run' = [r \in Runs |-> DoneRun]
  /\ running' = [x \in Slots |-> NotRunning]
  /\ ev' = [e \in Evaluators |-> Idle]
  /\ lock' = Nobody
  /\ stop' = NotStopping
  /\ UNCHANGED <<boardVars, paused>>

\* The process dies and starts again.
Restart == "kill" \in Exits /\ restarts < MaxRestarts /\ Reborn

(***************************************************************************)
(* stop(): cancel the tasks in `running`, give them a while for their      *)
(* cleanup, release the tickets of ticket roles once more, exit.  Passes   *)
(* in progress go on meanwhile; no further sweep begins.                   *)
(***************************************************************************)
\* Slip: the cleanup of the runs is relied on.
TicketsRunningNone == {}

TicketsRunning == {t \in Tickets : \E x \in TicketSlots : x[2] = t /\ Registered(x)}

BeginStop ==
  /\ "stop" \in Exits /\ ~stop.on /\ restarts < MaxRestarts
  /\ stop' = [on |-> TRUE, calm |-> \A e \in Evaluators : InPc(e, "idle"),
              told |-> {r \in Runs : Live(r) /\ running[r[1]].inst = r[2]},
              left |-> TicketsRunning]
  /\ UNCHANGED <<boardVars, run, running, lock, ev, paused, restarts>>

\* CancelledError comes before anything else in a task that was told.
Notice(r) ==
  /\ r \in stop.told
  /\ Cancel(r)
  /\ stop' = [stop EXCEPT !.told = @ \ {r}]
  /\ UNCHANGED <<running, lock, ev, paused, restarts>>

\* Whether or not the runs were done with their cleanup in time.
ReleaseLeft(t) ==
  /\ stop.told = {} /\ t \in stop.left
  /\ \/ WriteLease(t, NoLease)
     \/ "run" \in JiraFails /\ UNCHANGED boardVars
  /\ stop' = [stop EXCEPT !.left = @ \ {t}]
  /\ UNCHANGED <<run, running, lock, ev, paused, restarts>>

Exit == stop.on /\ stop.told = {} /\ stop.left = {} /\ Reborn

Shutdown ==
  \/ BeginStop \/ Exit
  \/ (\E r \in Runs : Notice(r)) \/ (\E t \in Tickets : ReleaseLeft(t))

Free(r) == r \notin stop.told

EvaluateTicket(e) ==
  Consider(e) \/ ReadLease(e) \/ Reclaim(e) \/ ReclaimBumpRead(e) \/ ReclaimBumpWrite(e)
  \/ ReadRetries(e) \/ ResetRetries(e) \/ EscalateTicket(e) \/ ReadRework(e)
  \/ ReadWaiting(e) \/ Unpark(e)

EvaluateQueues(e) == EnterQueues(e) \/ ConsiderQueue(e) \/ CheckCapacity(e) \/ LeaveQueues(e)

Environment ==
  \/ Humans /\ UNCHANGED <<run, orchVars>>
  \/ (\E t \in Tickets : Expire(t)) /\ UNCHANGED orchVars
  \/ PauseOrResume
  \/ Restart
  \/ Shutdown

Next ==
  \/ \E e \in Evaluators :
       \/ SweepBegin(e) \/ SweepSearch(e) \/ FlushBegin(e) \/ TakeLock(e)
       \/ EvaluateTicket(e) \/ EvaluateQueues(e) \/ EvaluationFails(e) \/ PassFails(e)
  \/ \E r \in Runs : Free(r) /\ RunStep(r) /\ UNCHANGED orchVars
  \/ \E b \in beats : BeatLands(b) /\ UNCHANGED <<run, orchVars>>
  \/ \E t \in Tickets : OnStatusChange(t)
  \/ Environment

Spec == Init /\ [][Next]_vars

(***************************************************************************)
(* Fairness.  asyncio resumes every coroutine whose await is over, so a    *)
(* coroutine that can step does (weak fairness); asyncio.Lock is FIFO, so  *)
(* one that waits for it gets it (strong fairness); the sweep timer always *)
(* fires again.  The turn cap ends every run, by a terminal call or by the *)
(* abort.  Nothing is assumed of humans, flushes, restarts or Jira errors. *)
(***************************************************************************)
EndsRun(r) ==
  \/ BeginFinish(r) \/ BeginCrash(r)
  \/ ~IsQueueRun(r) /\ (BeginHandoff(r) \/ BeginEscalate(r))

Fairness ==
  /\ \A e \in Evaluators :
       /\ WF_vars(SweepBegin(e) \/ SweepSearch(e))
       /\ SF_vars(TakeLock(e))
       /\ WF_vars(EvaluateTicket(e) \/ EvaluateQueues(e))
  /\ \A r \in Runs :
       /\ WF_vars(Free(r) /\ Proceed(r) /\ UNCHANGED orchVars)
       /\ SF_vars(Free(r) /\ EndsRun(r) /\ UNCHANGED orchVars)
  /\ \A t \in Tickets : WF_vars(Expire(t) /\ UNCHANGED orchVars)

FairSpec == Spec /\ Fairness

(***************************************************************************)
(* Safety.                                                                 *)
(***************************************************************************)
\* No two live runs of one role on one ticket, and one run per queue role,
\* although sweeps and flushes decide on it concurrently across many awaits
\* (the check of `running` in _evaluate_ticket and _evaluate_queues, the lock).
SingleRun ==
  \A x \in Slots : \A i, j \in Instances : Live(<<x, i>>) /\ Live(<<x, j>>) => i = j

RunsAt(s) == {r \in Runs : r[1] \in TicketSlots /\ Live(r) /\ run[r].at = s}

\* ORC-3: the ticket agents at work on a status never exceed its WIP limit
\* (the check at the end of _evaluate_ticket, with no await before _spawn).
WipRespected == \A s \in Limited : Cardinality(RunsAt(s)) <= WipLimit[s]

\* A run starts in this step.
Started(r) == ~Live(r) /\ run'[r].pc # "done"

\* No agent starts on a ticket while sentinel.retries says more than one, although
\* _evaluate_ticket reads it several awaits before _spawn and the runs, the
\* reclaim, hand-offs and webhooks write it meanwhile.  For a ticket one role
\* works at a time: a second one, started from an old snapshot beside a run that
\* then crashes, may get past the count.  This bounds the count and not the
\* failures: a reset before an escalation that fails, or by a late webhook, is
\* a fresh budget.  Parking!OneRetryThenAHuman follows the failures.
StartsWithinCount ==
  [][\A r \in Runs : Started(r) /\ r[1] \in TicketSlots => retries[OwnTicket(r)] <= 1]_vars

\* The retry counter itself stays at two or below while the first process lives:
\* the escalation resets it before any further run could fail.  (The reclaim of
\* a lease that a restart orphaned may be a third failure.)
RetriesBounded == restarts = 0 => \A t \in Tickets : retries[t] <= 2

\* The purpose of the lease: no two runs at work hold the same ticket, and one
\* that was cancelled only releases what it holds.  (With one sweep, no flush
\* beside it and no Jira errors: two roles started on one ticket from an old
\* snapshot both read no lease, and both write theirs.)
ExclusiveHold ==
  \A r1, r2 \in {r \in Runs : Live(r) /\ run[r].op # "cancel"} :
    r1 # r2 => run[r1].held \cap run[r2].held = {}

\* No run leaves a lease behind, however it ends: whoever a lease is for, a
\* live run holds the ticket (the releases of finish_run, the tools, the crash
\* and turn-cap cleanups; without Jira errors in a run, restarts, or another
\* call between the two of a heartbeat).
LeaseHasHolder ==
  \A t \in Tickets : Leased(t) => \E r \in Runs : Live(r) /\ t \in run[r].held

\* No agent starts on a ticket that carries needs-human or handoff-invalid.
NoDispatchOnFrozen ==
  [][\A r \in Runs : Started(r) /\ r[1] \in TicketSlots => ~Frozen(labels[OwnTicket(r)])]_vars

\* The loop-breaker as the code has it: no router starts on a ticket whose
\* rework count exceeds the limit (ReadRework, two awaits before _spawn).
RouterWithinReworkLimit ==
  [][\A r \in Runs : Started(r) /\ RoleOf(r) = Router => rework[OwnTicket(r)] <= ReworkLimit]_vars

\* "so a redeploy doesn't strand tickets" (README.md:143): a graceful stop with no
\* pass in progress leaves no lease behind, wherever the runs of ticket roles
\* were when they were cancelled, the claim before their try block included, and
\* whether or not their cleanup was in time.
CleanStop ==
  [][stop.on /\ stop.calm /\ ~stop'.on => \A t \in Tickets : ~Leased(t)]_vars

\* Dispatch as a whole is an admission control on slots and WIP limits.
Admitted ==
  {[slot |-> r[1], id |-> r[2], at |-> run[r].at] : r \in {q \in Runs : Live(q)}}

A == INSTANCE Admission WITH agents <- Admitted

AdmissionSpec == A!Spec

(***************************************************************************)
(* The inductive invariant behind SingleRun, WipRespected and              *)
(* AdmissionSpec: whoever evaluates a ticket or a queue role is alone in   *)
(* doing so, has seen its slot free, and nobody can take it meanwhile.     *)
(***************************************************************************)
\* A run inside a call, or in its cleanup, knows the ticket it is about.
RunKeys == \A r \in Runs : run[r].pc \notin {"work", "done"} => run[r].key \in Tickets

\* A live run is the one its slot has registered, under the same status.
LiveRegistered ==
  \A x \in Slots : \A i \in Instances :
    Live(<<x, i>>) => /\ running[x] = [inst |-> i, status |-> run[<<x, i>>].at]
                      /\ run[<<x, i>>].at \in Statuses

\* Between the checks on `running` and _spawn the evaluator holds the lock and
\* the slot stays free.
Reserved ==
  \A e \in Evaluators :
    /\ ev[e].pc \in InLock => lock = e
    /\ ev[e].pc \in TicketPcs =>
         ev[e].slot \in TicketSlots /\ ~Registered(ev[e].slot) /\ ev[e].st \in Statuses
    /\ ev[e].pc = "capacity" => ev[e].slot \in QueueSlots /\ ~Registered(ev[e].slot)

\* The conjunction that every step preserves: no evaluator acts on a slot it
\* has not seen free under the lock, and no live run is unregistered.
IInv == TypeOK /\ RunKeys /\ LiveRegistered /\ Reserved

(***************************************************************************)
(* Liveness.                                                               *)
(***************************************************************************)
WorkedOn(t) == \E r \in Runs : Live(r) /\ (OwnTicket(r) = t \/ t \in run[r].held)

\* The ticket is an agent's to work on: not frozen, and the label its role is
\* gated on is there.
AgentOwned(t) ==
  /\ ~Frozen(labels[t])
  /\ \E role \in TicketRolesFor(status[t]) : Required[role] \subseteq labels[t]

\* ORC-1: unless it is paused, the pipeline does not leave a ticket in the
\* status of a ticket role alone for good: again and again it is worked on, or
\* frozen for a human, or parked, or moved away - whatever runs died, and after
\* a restart that lost every task.
NothingStuck ==
  <>[]~paused => \A t \in Tickets : []<>(AgentOwned(t) => WorkedOn(t) \/ waiting[t])

\* ORC-2 for the statuses of ticket roles: a lease without heartbeat does not
\* stay on the ticket (the reclaim of _evaluate_ticket), unless paused.
StaleLeaseReclaimed ==
  <>[]~paused => \A t \in Tickets : []<>~(lease[t].stale /\ AgentOwned(t))

CrashedOn(t) == \E r \in Runs : run[r].op = "crash" /\ run[r].key = t

Stays(t) == \E s \in Statuses : <>[](status[t] = s)

\* A ticket whose runs keep crashing while it gets nowhere is handed to a human
\* again and again, it does not loop through the agents for ever.  (A hand-off
\* in between, or a human who moves it, is a fresh start.  And with JiraFails = {},
\* which the run has: were each escalation to fail between the reset of the count
\* and the label, or each cleanup before it counts, nobody would be called.)
CrashLoopEscalates ==
  \A t \in Tickets : Stays(t) /\ []<>CrashedOn(t) => []<>Frozen(labels[t])

\* A pipeline that stays paused drains: what was in flight ends and nothing
\* follows it.
PauseDrains == <>[]paused => <>[](\A r \in Runs : ~Live(r))
=============================================================================
