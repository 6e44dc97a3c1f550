------------------------------ MODULE Breakers ------------------------------
(***************************************************************************)
(* What stops dispatch as a whole: the persisted operator pause, the daily *)
(* token budget that sets it, and the LLM gate that engages and lifts by   *)
(* itself.  A pass - a sweep or the webhook flush - looks at budget and    *)
(* gate first, alerting and probing on the way; the agents it dispatches   *)
(* feed both with the outcome of their LLM calls.  Which tickets a pass    *)
(* dispatches, and the lock, are in Orchestrator.  Steps end at an await.  *)
(***************************************************************************)
EXTENDS Naturals, FiniteSets

CONSTANTS
  Sweeps,          \* sweeps that may be in progress at once
  Flush,           \* the webhook flush task
  Keys,            \* tickets webhooks are about
  Agents,          \* bound on agents at work
  DegradedAfter,   \* failures in a row after which the backend is down
  Budget,          \* tokens per UTC day, 0 for no budget
  MaxRestarts      \* bound on process restarts

Passes == Sweeps \cup {Flush}

ASSUME BreakersAssumption ==
  /\ Flush \notin Sweeps
  /\ DegradedAfter \in Nat \ {0}
  /\ Budget \in Nat
  /\ MaxRestarts \in Nat

VARIABLES
  paused,     \* Orchestrator.paused
  file,       \* what pause.json holds
  gated,      \* Orchestrator.llm_gated
  failures,   \* LLM.consecutive_failures, not told apart above DegradedAfter
  tokens,     \* LLM.tokens_today, not told apart above Budget
  old,        \* LLM._usage_day is not today
  up,         \* the LLM backend answers
  pending,    \* Orchestrator._pending_keys
  pass,       \* pass -> where that coroutine is
  calling,    \* the agents at work, each in an LLM call
  restarts,   \* process restarts so far
  unsaved,    \* history: the last write or removal of pause.json failed
  spent,      \* history: what the calls that ended since midnight, or since the
              \* process started, have used
  over        \* history: the passes that began with the budget spent, and
              \* nobody resumed since

vars == <<paused, file, gated, failures, tokens, old, up, pending, pass,
          calling, restarts, unsaved, spent, over>>

\* torn: truncated by a write that did not go on, and no JSON any more
Files == {"none", "paused", "torn"}

\* debounce  the flush sleeps before its pass
\* pausing   awaits the alert of the pause it set itself
\* alert     awaits the alert that the gate is engaged
\* probe     awaits the probe call
\* lifted    awaits the alert that the gate is lifted
\* board     between tickets, before the next check of pause and gate
\* ticket    past that check, awaiting Jira about a ticket
PassPcs == {"idle", "debounce", "pausing", "alert", "probe", "lifted", "board", "ticket"}

TypeOK ==
  /\ paused \in BOOLEAN /\ file \in Files /\ gated \in BOOLEAN
  /\ old \in BOOLEAN /\ up \in BOOLEAN
  /\ failures \in 0 .. DegradedAfter
  /\ tokens \in 0 .. Budget
  /\ spent \in 0 .. Budget
  /\ pending \subseteq Keys
  /\ pass \in [Passes -> PassPcs]
  /\ calling \subseteq Agents
  /\ restarts \in Nat
  /\ unsaved \in BOOLEAN
  /\ over \subseteq Passes

Init ==
  /\ paused = FALSE /\ file = "none" /\ unsaved = FALSE /\ gated = FALSE
  /\ failures = 0 /\ tokens = 0 /\ old = FALSE /\ spent = 0
  /\ up \in BOOLEAN
  /\ pending = {}
  /\ pass = [e \in Passes |-> "idle"]
  /\ calling = {}
  /\ restarts = 0
  /\ over = {}

Goto(e, pc) == pass' = [pass EXCEPT ![e] = pc]

InPass(e, pc) == pass[e] = pc

UpTo(n, limit) == IF n < limit THEN n + 1 ELSE n

(***************************************************************************)
(* LLM.chat: its outcome is known when it returns.                         *)
(***************************************************************************)
\* Slip: the window is not rolled when it is read.
WindowNotRolled == tokens

\* tokens_in_current_window rolls the day before it reads the total.
Window == IF old THEN 0 ELSE tokens

\* A backend may leave the usage out.
ChatWorks ==
  /\ up
  /\ failures' = 0
  /\ old' = FALSE
  /\ \/ tokens' = UpTo(Window, Budget) /\ spent' = UpTo(spent, Budget)
     \/ tokens' = Window /\ UNCHANGED spent

ChatFails ==
  /\ ~up
  /\ failures' = UpTo(failures, DegradedAfter)
  /\ UNCHANGED <<old, tokens, spent>>

Degraded == failures >= DegradedAfter

(***************************************************************************)
(* The pause.                                                              *)
(***************************************************************************)
\* The file is written; or an OSError leaves it as it was, for it could not be
\* opened, or truncated, for it could.  The pause holds all the same.
SetPause ==
  /\ paused' = TRUE
  /\ \/ file' = "paused" /\ unsaved' = FALSE
     \/ file' \in {file, "torn"} /\ unsaved' = TRUE

\* POST /pause.
OperatorPause ==
  /\ SetPause
  /\ UNCHANGED <<gated, failures, tokens, old, up, pending, pass, calling, restarts, spent, over>>

\* POST /resume.  A file that cannot be removed stays.
Resume ==
  /\ paused' = FALSE
  /\ \/ file' = "none" /\ unsaved' = FALSE
     \/ file # "none" /\ unsaved' = TRUE /\ UNCHANGED file
  /\ over' = {}
  /\ UNCHANGED <<gated, failures, tokens, old, up, pending, pass, calling, restarts, spent>>

(***************************************************************************)
(* The start of a pass: _enforce_token_budget, then _check_llm_gate.       *)
(***************************************************************************)
\* Slip: only sweeps enforce the budget.
BudgetBlownForSweeps(e) == e \in Sweeps /\ Budget > 0 /\ ~paused /\ Window >= Budget

BudgetBlown(e) == Budget > 0 /\ ~paused /\ Window >= Budget

\* Slip: a gate that is engaged is taken to lift without a probe.
CheckGateNoProbe(e) ==
  \/ /\ Degraded
     /\ gated' = TRUE
     /\ Goto(e, IF gated THEN "board" ELSE "alert")
  \/ /\ ~Degraded
     /\ gated' = FALSE
     /\ Goto(e, IF gated THEN "lifted" ELSE "board")

\* _check_llm_gate up to its first await.
CheckGate(e) ==
  \/ /\ Degraded
     /\ gated' = TRUE
     /\ Goto(e, IF gated THEN "probe" ELSE "alert")
  \/ /\ ~Degraded
     /\ gated' = FALSE
     /\ Goto(e, IF gated THEN "lifted" ELSE "board")

\* Reading the window rolls it, when there is a budget and no pause.
StartPass(e) ==
  /\ IF Budget > 0 /\ ~paused
     THEN tokens' = Window /\ old' = FALSE
     ELSE UNCHANGED <<tokens, old>>
  /\ IF BudgetBlown(e)
     THEN SetPause /\ Goto(e, "pausing") /\ UNCHANGED gated
     ELSE CheckGate(e) /\ UNCHANGED <<paused, file, unsaved>>
  /\ over' = IF Budget > 0 /\ spent >= Budget THEN over \cup {e} ELSE over \ {e}
  /\ UNCHANGED <<failures, up, calling, restarts, spent>>

BeginSweep(e) ==
  /\ e \in Sweeps /\ InPass(e, "idle")
  /\ StartPass(e)
  /\ UNCHANGED pending

\* handle_webhook: note the key, and start the flush task if there is none.
HandleWebhook ==
  /\ \E k \in Keys : pending' = pending \cup {k}
  /\ IF InPass(Flush, "idle") THEN Goto(Flush, "debounce") ELSE UNCHANGED pass
  /\ UNCHANGED <<paused, file, unsaved, gated, failures, tokens, old, up, calling, restarts, spent, over>>

\* _flush_pending wakes up: it takes the keys, or returns when there are none.
TakePending ==
  /\ InPass(Flush, "debounce")
  /\ IF pending = {}
     THEN /\ Goto(Flush, "idle")
          /\ UNCHANGED <<paused, file, unsaved, gated, failures, tokens, old, up, calling,
                         restarts, spent, over>>
     ELSE StartPass(Flush)
  /\ pending' = {}

\* The alert of the pause is delivered, or has failed: on to the gate.
Paused(e) ==
  /\ InPass(e, "pausing")
  /\ CheckGate(e)
  /\ UNCHANGED <<paused, file, unsaved, failures, tokens, old, up, pending, calling, restarts, spent, over>>

Alerted(e) ==
  /\ InPass(e, "alert")
  /\ Goto(e, "probe")
  /\ UNCHANGED <<paused, file, unsaved, gated, failures, tokens, old, up, pending, calling,
                 restarts, spent, over>>

\* Slip: any probe that has been made lifts the gate.
StillDownNever == FALSE

\* What the counter says after the probe.
StillDown == failures' >= DegradedAfter

\* The probe returns, and the gate is looked at again with no await between.
Probe(e) ==
  /\ InPass(e, "probe")
  /\ ChatWorks \/ ChatFails
  /\ IF gated /\ ~StillDown
     THEN gated' = FALSE /\ Goto(e, "lifted")
     ELSE UNCHANGED gated /\ Goto(e, "board")
  /\ UNCHANGED <<paused, file, unsaved, up, pending, calling, restarts, over>>

Lifted(e) ==
  /\ InPass(e, "lifted")
  /\ Goto(e, "board")
  /\ UNCHANGED <<paused, file, unsaved, gated, failures, tokens, old, up, pending, calling,
                 restarts, spent, over>>

(***************************************************************************)
(* The rest of the pass.                                                   *)
(***************************************************************************)
Closed == paused \/ gated

\* _evaluate_ticket and _evaluate_queues look at pause and gate first.
CheckFlags(e) ==
  /\ InPass(e, "board") /\ ~Closed
  /\ Goto(e, "ticket")
  /\ UNCHANGED <<paused, file, unsaved, gated, failures, tokens, old, up, pending, calling,
                 restarts, spent, over>>

\* _spawn, or not, and back to the next ticket.
Dispatch(e) ==
  /\ InPass(e, "ticket")
  /\ Goto(e, "board")
  /\ calling' = calling \/ \E a \in Agents \ calling : calling' = calling \cup {a}
  /\ UNCHANGED <<paused, file, unsaved, gated, failures, tokens, old, up, pending, restarts, spent, over>>

\* Slip: the flush task returns without another look at the pending keys.
AfterPassIdle(e) == "idle"

\* Where a pass goes when it is over: the flush goes round again for keys that
\* came meanwhile.
AfterPass(e) == IF e = Flush /\ pending # {} THEN "debounce" ELSE "idle"

\* No ticket is left, or a Jira error has ended the pass.
EndPass(e) ==
  /\ InPass(e, "board")
  /\ Goto(e, AfterPass(e))
  /\ UNCHANGED <<paused, file, unsaved, gated, failures, tokens, old, up, pending, calling,
                 restarts, spent, over>>

(***************************************************************************)
(* Agents, the backend, the calendar, the process.                         *)
(***************************************************************************)
\* An agent's call returns: it goes on with the next, ends, or crashes.
AgentCall(a) ==
  /\ a \in calling
  /\ \/ ChatWorks /\ calling' \in {calling, calling \ {a}}
     \/ ChatFails /\ calling' = calling \ {a}
  /\ UNCHANGED <<paused, file, unsaved, gated, up, pending, pass, restarts, over>>

BackendChanges ==
  /\ up' = ~up
  /\ UNCHANGED <<paused, file, unsaved, gated, failures, tokens, old, pending, pass, calling,
                 restarts, spent, over>>

Midnight ==
  /\ old' = TRUE
  /\ spent' = 0
  /\ over' = {}
  /\ UNCHANGED <<paused, file, unsaved, gated, failures, tokens, up, pending, pass, calling, restarts>>

\* Slip: a new process starts unpaused.
LoadNothing(f) == FALSE

\* _load_pause_state: a file that is no JSON counts as none.
LoadPauseState(f) == f = "paused"

\* A new process, and what the old one left in the file.
Reborn(f) ==
  /\ restarts < MaxRestarts
  /\ restarts' = restarts + 1
  /\ file' = f /\ paused' = LoadPauseState(f) /\ unsaved' = FALSE
  /\ gated' = FALSE /\ failures' = 0
  /\ tokens' = 0 /\ old' = FALSE /\ spent' = 0
  /\ pending' = {}
  /\ pass' = [e \in Passes |-> "idle"]
  /\ calling' = {}
  /\ over' = {}
  /\ UNCHANGED up

Restart == Reborn(file)

\* The process is killed in a POST /pause, between the truncation of the file
\* and the text.
KilledPausing == Reborn("torn")

PassStep(e) ==
  \/ BeginSweep(e) \/ Paused(e) \/ Alerted(e) \/ Probe(e) \/ Lifted(e)
  \/ CheckFlags(e) \/ Dispatch(e) \/ EndPass(e)

Next ==
  \/ \E e \in Passes : PassStep(e)
  \/ HandleWebhook \/ TakePending
  \/ OperatorPause \/ Resume
  \/ \E a \in Agents : AgentCall(a)
  \/ BackendChanges \/ Midnight \/ Restart \/ KilledPausing

Spec == Init /\ [][Next]_vars

(***************************************************************************)
(* Fairness: the sweep timer always fires again, an await on an alert, a   *)
(* call or Jira is over some time, and the tickets of a pass come to an    *)
(* end.  Nothing is assumed of operators, webhooks, days or the backend.   *)
(***************************************************************************)
Fairness ==
  /\ \A e \in Passes : WF_vars(PassStep(e)) /\ SF_vars(EndPass(e))
  /\ WF_vars(TakePending)
  /\ \A a \in Agents : WF_vars(AgentCall(a))

FairSpec == Spec /\ Fairness

(***************************************************************************)
(* Properties.                                                             *)
(***************************************************************************)
\* A webhook's key is never left with no flush task to take it, although the
\* task looks, decides to return, and is asked for done() by the next webhook.
NoKeyStranded == pending # {} => ~InPass(Flush, "idle")

\* The flag and its file say the same between any two steps, so that a restart at
\* any moment goes on as the process left off - as long as the disk does what it
\* is told: after a write or a removal that failed they differ until the next
\* pause, resume or restart (pause, resume: no await between the two).
FlagOnDisk == ~unsaved => (paused <=> file = "paused")

\* The rolling window holds what was really used today, whoever rolls it.
WindowHonest == Window = spent

\* A pass that began with the budget spent sees the pause it found or set, and
\* is never past the check of the flags.
OverBudget == (over # {} => paused) /\ \A e \in over : ~InPass(e, "ticket")

\* What every step preserves.
IInv == TypeOK /\ FlagOnDisk /\ NoKeyStranded /\ WindowHonest /\ OverBudget

\* Only /resume lifts a pause, whoever set it: no pass, no midnight and no restart
\* does ("survives restart") - unless the disk has lost it, the last write of its
\* file having failed or having been cut short by the kill (pause, resume,
\* _persist_pause_state, _load_pause_state).
PauseSticks ==
  [][paused /\ ~paused' => Resume \/ (Restart /\ unsaved) \/ KilledPausing]_vars

\* The budget pauses the pipeline for what was used on this day only: a resume
\* after midnight is not undone by yesterday's total (tokens_in_current_window).
BudgetPauseIsDue ==
  [][\A e \in Passes : StartPass(e) /\ ~paused /\ paused' => spent >= Budget]_vars

\* A pass that began with the budget spent dispatches nobody unless a human
\* resumed or a new day began, be it a sweep or a flush (_enforce_token_budget
\* before both, and the check of `paused` for each ticket).
BudgetStopsDispatch ==
  [][\A e \in over : Dispatch(e) => calling' = calling]_vars

\* The gate lifts itself: once the backend stays up the gate is open for good,
\* although a gated pipeline makes no calls of its own but the probe.
GateLifts == <>[]up => <>[]~gated

\* While the backend stays down the pipeline comes to rest: agents crash on
\* their first call only until the gate engages, then none is dispatched.
OutageComesToRest == <>[]~up => <>[](calling = {})
=============================================================================
