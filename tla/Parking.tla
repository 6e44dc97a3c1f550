------------------------------- MODULE Parking ------------------------------
(***************************************************************************)
(* A ticket that waits for a human: finish_run parks it with the           *)
(* sentinel.waiting marker and releases its lease, and _evaluate_ticket    *)
(* wakes it when Jira's `updated` is past the marker's `since`, or at      *)
(* `wake_at` - unless pause, freeze labels, retries, the rework limit or   *)
(* the WIP limit send it back before it gets there.                        *)
(*                                                                         *)
(* What the code compares are time stamps, and only their order matters.   *)
(* `since` has whole seconds, rounded down; `updated` is finer, and every  *)
(* edit of the issue sets it, a label or comment of sentinel's as well as  *)
(* a human's.  (Issue properties do not.)  The module therefore keeps,     *)
(* for the ticket and for the snapshot of it that a sweep took, two bits:  *)
(* whether `updated` is past `since`, and whether it falls in the current  *)
(* second - for then it will be past the `since` of a marker written now.  *)
(*                                                                         *)
(* One role works at the ticket, and its runs end by parking it or by      *)
(* failing; other endings leave no marker and are in AgentRun.             *)
(***************************************************************************)
EXTENDS Naturals

CONSTANTS
  Sweeps, Flushes,  \* the passes that may overlap
  MaxFailures       \* bound on crashes, restarts and failed requests

Evaluators == Sweeps \cup Flushes

ASSUME ParkingAssumption == Sweeps \cap Flushes = {} /\ MaxFailures \in Nat

VARIABLES
  stamp,      \* the ticket's `updated`, as described above
  marker,     \* it has a sentinel.waiting marker
  due,        \* the marker's wake_at has come
  lease,      \* its sentinel.lease: none, held (with a recent heartbeat) or stale
  retries,    \* its sentinel.retries, not told apart above two
  frozen,     \* it has a freeze label
  run,        \* where the one role of its status is
  ev,         \* evaluator -> where it is and what it knows of the ticket
  closed,     \* the pipeline is paused or gated
  full,       \* other tickets fill the WIP limit of its status
  failures,   \* crashes, restarts and failed requests so far
  unheard,    \* history: a human has acted since a run last read the ticket
  unlabelled, \* history: the last release did not get to its label edit
  strikes,    \* history: runs that failed since sentinel last called a human
  uncounted   \* history: a failure or a restart kept one of them, or the human's
              \* call after them, from being recorded

board == <<stamp, marker, due, lease, retries, frozen>>
others == <<closed, full>>
history == <<unheard, unlabelled, strikes, uncounted>>

vars == <<board, run, ev, others, failures, history>>

Stamps == [fresh : BOOLEAN,    \* updated > since, if there is a marker
           second : BOOLEAN]   \* it is of this second

\* claim    its lease is about to be written        work     in the LLM loop
\* read     about to fetch the ticket
\* unlease, unlabel: the two calls of finish_run's release, the lease and the label
\* abort, aborted: those of the cleanup's
RunPcs == {"idle", "claim", "read", "work", "unlease", "unlabel", "abort", "aborted"}

HasLease == {"read", "work", "unlease", "abort"}
HasReleased == {"unlabel", "aborted"}

\* locking  waiting for the lock, the board searched (sweep) or not (flush)
\* lease..unpark: awaits of _evaluate_ticket; `reclaim` and `relabel` are the two
\* calls of a release, `breaker` escalates for the rework limit
EvalPcs == {"idle", "locking", "lease", "reclaim", "relabel", "bump", "retries",
            "reset", "escalate", "breaker", "waiting", "unpark"}

InLock == EvalPcs \ {"idle", "locking"}

EvalRecords == [pc : EvalPcs, stamp : Stamps, frozen : BOOLEAN]

Old == [fresh |-> FALSE, second |-> FALSE]

Idle == [pc |-> "idle", stamp |-> Old, frozen |-> FALSE]

TypeOK ==
  /\ stamp \in Stamps /\ marker \in BOOLEAN /\ due \in BOOLEAN
  /\ lease \in {"none", "held", "stale"}
  /\ retries \in 0..2 /\ frozen \in BOOLEAN
  /\ run \in RunPcs
  /\ ev \in [Evaluators -> EvalRecords]
  /\ closed \in BOOLEAN /\ full \in BOOLEAN
  /\ failures \in 0..MaxFailures
  /\ unheard \in BOOLEAN /\ unlabelled \in BOOLEAN
  /\ strikes \in Nat /\ uncounted \in BOOLEAN

Init ==
  /\ stamp = Old /\ marker = FALSE /\ due = FALSE /\ lease = "none"
  /\ retries = 0 /\ frozen = FALSE
  /\ run = "idle" /\ ev = [e \in Evaluators |-> Idle]
  /\ closed = FALSE /\ full = FALSE
  /\ failures = 0
  /\ unheard = FALSE /\ unlabelled = FALSE /\ strikes = 0 /\ uncounted = FALSE

Now == [fresh |-> TRUE, second |-> TRUE]

\* Any edit of the issue.
Edited == stamp' = Now

Fails == failures < MaxFailures /\ failures' = failures + 1

Counted == retries' = IF retries < 2 THEN retries + 1 ELSE retries

InPc(e, pc) == ev[e].pc = pc

Step(e, rec) == ev' = [ev EXCEPT ![e] = rec]

Goto(e, pc) == Step(e, [ev[e] EXCEPT !.pc = pc])

(***************************************************************************)
(* The run.                                                                *)
(***************************************************************************)
\* LeaseManager.claim: the lease, then the label, the assignee, a comment.
Claim ==
  /\ run = "claim" /\ run' = "read"
  /\ lease' = "held" /\ Edited
  /\ UNCHANGED <<marker, due, retries, frozen, ev, others, failures, history>>

\* The kickoff tells it to begin with get_ticket.
ReadTicket ==
  /\ run = "read" /\ run' = "work"
  /\ unheard' = FALSE
  /\ UNCHANGED <<board, ev, others, failures, unlabelled, strikes, uncounted>>

\* What the stamps are in the eyes of a marker whose `since` is this second.
Seen(s) == [s EXCEPT !.fresh = s.second]

\* finish_run: the marker, with a `wake_at` some hours away.
Park ==
  /\ run = "work" /\ run' = "unlease"
  /\ marker' = TRUE /\ due' = FALSE
  /\ stamp' = Seen(stamp)
  /\ ev' = [e \in Evaluators |-> [ev[e] EXCEPT !.stamp = Seen(@)]]
  /\ UNCHANGED <<lease, retries, frozen, others, failures, history>>

\* A crash or the turn cap: the cleanup counts it and releases the lease, or
\* gives up on the ticket when it cannot count.
Crash ==
  /\ run = "work" /\ Fails /\ strikes' = strikes + 1
  /\ \/ Counted /\ run' = "abort" /\ UNCHANGED uncounted
     \/ run' = "idle" /\ uncounted' = TRUE /\ UNCHANGED retries
  /\ UNCHANGED <<stamp, marker, due, lease, frozen, ev, others, unheard, unlabelled>>

\* LeaseManager.release, its two calls.
Unlease ==
  /\ \/ run = "unlease" /\ run' = "unlabel"
     \/ run = "abort" /\ run' = "aborted"
  /\ lease' = "none"
  /\ UNCHANGED <<stamp, marker, due, retries, frozen, ev, others, failures, history>>

\* Slip: the release deletes the property and leaves the issue alone.
ReleaseQuietly == UNCHANGED stamp

ReleaseEdits == Edited

Unlabel ==
  /\ run \in HasReleased /\ run' = "idle"
  /\ ReleaseEdits /\ unlabelled' = FALSE
  /\ UNCHANGED <<marker, due, lease, retries, frozen, ev, others, failures,
                 unheard, strikes, uncounted>>

\* A JiraError at either call: finish_run returns an ERROR to the loop, a cleanup
\* gives up on the ticket.
ReleaseFails ==
  /\ \/ run \in {"unlease", "unlabel"} /\ run' = "work"
     \/ run \in {"abort", "aborted"} /\ run' = "idle"
  /\ Fails /\ unlabelled' = (unlabelled \/ run \in HasReleased)
  /\ UNCHANGED <<board, ev, others, unheard, strikes, uncounted>>

(***************************************************************************)
(* The passes.  A sweep works with the `updated` and the labels its search *)
(* returned, a flush fetches the issue under the lock.                     *)
(***************************************************************************)
Begin(e) ==
  /\ InPc(e, "idle")
  /\ Step(e, IF e \in Sweeps THEN [pc |-> "locking", stamp |-> stamp, frozen |-> frozen]
             ELSE [Idle EXCEPT !.pc = "locking"])
  /\ UNCHANGED <<board, run, others, failures, history>>

\* Slip: the lock is not waited for.
LockFreeAlways == TRUE

LockFree == \A e \in Evaluators : ev[e].pc \notin InLock

\* The issue _evaluate_ticket is given.
IssueFor(e) ==
  IF e \in Sweeps THEN ev[e] ELSE [ev[e] EXCEPT !.stamp = stamp, !.frozen = frozen]

\* The lock, and _evaluate_ticket to its first await: nothing is done while the
\* pipeline is closed, on a frozen ticket, or while the role is at work.
TakeLock(e) ==
  /\ InPc(e, "locking") /\ LockFree
  /\ Step(e, IF closed \/ IssueFor(e).frozen \/ run # "idle" THEN Idle
             ELSE [IssueFor(e) EXCEPT !.pc = "lease"])
  /\ UNCHANGED <<board, run, others, failures, history>>

ReadLease(e) ==
  /\ InPc(e, "lease")
  /\ \/ lease = "held" /\ Step(e, Idle)
     \/ lease = "stale" /\ Goto(e, "reclaim")
     \/ lease = "none" /\ Goto(e, "retries")
  /\ UNCHANGED <<board, run, others, failures, history>>

\* LeaseManager.reclaim is a release, in two calls; the evaluation goes on with
\* the `updated` it has.
Reclaim(e) ==
  /\ InPc(e, "reclaim") /\ Goto(e, "relabel")
  /\ lease' = "none"
  /\ UNCHANGED <<stamp, marker, due, retries, frozen, run, others, failures, history>>

Relabel(e) ==
  /\ InPc(e, "relabel") /\ Goto(e, "bump")
  /\ Edited /\ unlabelled' = FALSE
  /\ UNCHANGED <<marker, due, lease, retries, frozen, run, others, failures,
                 unheard, strikes, uncounted>>

\* The lost run counts as a failed one.
BumpReclaimed(e) ==
  /\ InPc(e, "bump") /\ Goto(e, "retries")
  /\ Counted
  /\ UNCHANGED <<stamp, marker, due, lease, frozen, run, others, failures, history>>

\* Slip: one retry too many.
OutOfRetriesLate == retries > 2

OutOfRetries == retries > 1

\* The retry check, and the router's check of the rework count, of which its runs
\* make what they like.
ReadRetries(e) ==
  /\ InPc(e, "retries")
  /\ \/ OutOfRetries /\ Goto(e, "reset")
     \/ ~OutOfRetries /\ \E pc \in {"breaker", "waiting"} : Goto(e, pc)
  /\ UNCHANGED <<board, run, others, failures, history>>

ResetRetries(e) ==
  /\ InPc(e, "reset") /\ Goto(e, "escalate")
  /\ retries' = 0
  /\ UNCHANGED <<stamp, marker, due, lease, frozen, run, others, failures, history>>

\* _escalate: needs-human, and the evaluation is over.
Escalate(e) ==
  /\ InPc(e, "escalate") \/ InPc(e, "breaker")
  /\ Step(e, Idle)
  /\ frozen' = TRUE /\ Edited
  /\ strikes' = 0 /\ uncounted' = FALSE
  /\ UNCHANGED <<marker, due, lease, retries, run, others, failures, unheard, unlabelled>>

\* Slip: wake_at is forgotten.
WakesOnActivity(s) == s.fresh

\* fresh_activity or wake_due.
Wakes(s) == s.fresh \/ due

\* The end of _evaluate_ticket: the WIP limit, and _spawn with no await between.
Dispatch(e) ==
  /\ Step(e, Idle)
  /\ IF full THEN UNCHANGED run ELSE run' = "claim"

ReadWaiting(e) ==
  /\ InPc(e, "waiting")
  /\ \/ ~marker /\ Dispatch(e)
     \/ marker /\ Wakes(ev[e].stamp) /\ Goto(e, "unpark") /\ UNCHANGED run
     \/ marker /\ ~Wakes(ev[e].stamp) /\ Step(e, Idle) /\ UNCHANGED run
  /\ UNCHANGED <<board, others, failures, history>>

\* The marker is deleted, and the role is dispatched, if there is room for it.
Unpark(e) ==
  /\ InPc(e, "unpark")
  /\ marker' = FALSE
  /\ Dispatch(e)
  /\ UNCHANGED <<stamp, due, lease, retries, frozen, others, failures, history>>

\* What is not recorded when the evaluation ends here: the lost run whose lease
\* is gone, the escalation after the count was reset.
Unrecorded(e) == ev[e].pc \in {"relabel", "bump", "escalate"}

\* A JiraError, which the pass logs.
EvaluationFails(e) ==
  /\ ev[e].pc \in InLock /\ Fails
  /\ Step(e, Idle)
  /\ unlabelled' = (unlabelled \/ InPc(e, "relabel"))
  /\ uncounted' = (uncounted \/ Unrecorded(e))
  /\ UNCHANGED <<board, run, others, unheard, strikes>>

(***************************************************************************)
(* Time, humans, other tickets, the supervisor.                            *)
(***************************************************************************)
NextSecond ==
  /\ stamp' = [stamp EXCEPT !.second = FALSE]
  /\ ev' = [e \in Evaluators |-> [ev[e] EXCEPT !.stamp.second = FALSE]]
  /\ UNCHANGED <<marker, due, lease, retries, frozen, run, others, failures, history>>

WakeTime ==
  /\ marker /\ due' = TRUE
  /\ UNCHANGED <<stamp, marker, lease, retries, frozen, run, ev, others, failures, history>>

\* No heartbeat for the lease timeout.
Expire ==
  /\ lease = "held" /\ run \notin HasLease
  /\ lease' = "stale"
  /\ UNCHANGED <<stamp, marker, due, retries, frozen, run, ev, others, failures, history>>

\* The reply, a freeze label set or removed, or any other edit.
HumanActs ==
  /\ Edited /\ unheard' = TRUE /\ frozen' \in BOOLEAN
  /\ UNCHANGED <<marker, due, lease, retries, run, ev, others, failures,
                 unlabelled, strikes, uncounted>>

\* Pause, gate and the agents on other tickets come and go.
OthersAct ==
  /\ \/ closed' = ~closed /\ UNCHANGED full
     \/ full' = ~full /\ UNCHANGED closed
  /\ UNCHANGED <<board, run, ev, failures, history>>

\* A run that had its lease is a lost one.
Restart ==
  /\ Fails
  /\ run' = "idle" /\ ev' = [e \in Evaluators |-> Idle]
  /\ strikes' = IF run # "idle" /\ lease = "held" THEN strikes + 1 ELSE strikes
  /\ unlabelled' = \/ unlabelled \/ run \in HasReleased
                    \/ \E e \in Evaluators : InPc(e, "relabel")
  /\ uncounted' = (uncounted \/ \E e \in Evaluators : Unrecorded(e))
  /\ UNCHANGED <<board, others, unheard>>

Proceed == Claim \/ ReadTicket \/ Park \/ Unlease \/ Unlabel

Evaluate(e) ==
  \/ ReadLease(e) \/ Reclaim(e) \/ Relabel(e) \/ BumpReclaimed(e) \/ ReadRetries(e)
  \/ ResetRetries(e) \/ Escalate(e) \/ ReadWaiting(e) \/ Unpark(e)

Next ==
  \/ Proceed \/ Crash \/ ReleaseFails
  \/ \E e \in Evaluators : Begin(e) \/ TakeLock(e) \/ Evaluate(e) \/ EvaluationFails(e)
  \/ NextSecond \/ WakeTime \/ Expire \/ HumanActs \/ OthersAct \/ Restart

Spec == Init /\ [][Next]_vars

\* As in Orchestrator: awaits end, the sweep timer fires, the lock is FIFO, a
\* run ends.  Nothing is assumed of humans, webhooks, clocks and failures.
Fairness ==
  /\ WF_vars(Proceed) /\ WF_vars(Expire)
  /\ \A e \in Sweeps : WF_vars(Begin(e))
  /\ \A e \in Evaluators : SF_vars(TakeLock(e)) /\ WF_vars(Evaluate(e))

FairSpec == Spec /\ Fairness

(***************************************************************************)
(* Properties.                                                             *)
(***************************************************************************)
\* One pass at a time evaluates the ticket, and none while its role is at work:
\* the marker an evaluation deletes is the one it has read.
Alone ==
  /\ \A e1, e2 \in Evaluators : ev[e1].pc \in InLock /\ ev[e2].pc \in InLock => e1 = e2
  /\ \A e \in Evaluators : ev[e].pc \in InLock => run = "idle"

\* What every step preserves.
IInv == TypeOK /\ Alone

\* A human is always heard: after a reply, however close to the moment the
\* agent parked the ticket, and although wake_at may be days away, a run reads
\* the ticket again or a human is called to it - if the pipeline stays open and
\* leaves room for it, and unless the release failed, or the process died, just
\* before its label edit, for then the ticket sleeps until wake_at
\* (_evaluate_ticket, all the way to _spawn).
HumanHeard ==
  <>[](~closed /\ ~full) => (unheard ~> (~unheard \/ unlabelled \/ frozen))

\* What that rests on: on a parked ticket that nobody works at, and whose lease
\* is released, `updated` is newer than the marker's `since` if a reply is
\* unread, whichever of the two came first within the second - with the same
\* exception.  So the next search of the board shows it.
ReplyInSight ==
  /\ unheard /\ marker
  /\ run = "idle" /\ lease = "none" /\ \A e \in Evaluators : ~InPc(e, "relabel")
  => stamp.fresh \/ unlabelled

\* When wake_at has come the ticket does not stay parked, whatever failed before
\* and although nobody replied (finish_run's "or after wake_hours") - unless the
\* run parks it anew, which sets a new wake_at, or a human is called to it
\* because of what failed before; if the pipeline is not closed for good.
WakesWhenDue == <>[]~closed => ((marker /\ due) ~> (~(marker /\ due) \/ frozen))

\* "Retry once, then escalate": after two failed runs none starts before sentinel
\* has called a human, be they crashes, turn caps or lost with their process, and
\* parked runs between them or not - unless a request or the process failed where
\* one of them was to be counted, or between the reset of the count and the call
\* (_evaluate_ticket, _bump_retries).
OneRetryThenAHuman ==
  [][run = "idle" /\ run' = "claim" => strikes <= 1 \/ uncounted]_vars

\* What finish_run tells the agent (tools.py:169): the role is dispatched again
\* when the ticket is updated or after wake_hours - so not before, for nothing.
ParkedUntilActivity == [][marker /\ ~marker' => due \/ unheard]_vars
=============================================================================
