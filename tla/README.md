# A TLA+ model of sentinel

Sentinel dispatches LLM agents ("roles") on the tickets of one Jira project. A
single asyncio process sweeps the board, starts a role where a ticket waits for
one, and the agents move the tickets on. What makes it hard is not any one
function but the windows between its awaits: sweeps, webhook flushes, agents,
heartbeats, humans and the process supervisor all change the same tickets, and
Jira has no transactions. These modules model the program at exactly that grain:
**one action is one stretch of code between two awaits that matter.**

Paths below are relative to the repository's root.

## 1. Inventory

| Part | State it keeps | Operations | Talks to |
|---|---|---|---|
| dispatch table, `sentinel/config.py` | none at run time | `validate_config`, `roles_for_status`, `wip_limit` | read by all |
| orchestrator, `sentinel/orchestrator.py` | `running`, `_lock`, snapshots held over awaits, `_queue_last_run` | `sweep`, `_flush_pending`, `_evaluate_ticket`, `_evaluate_queues`, `_spawn`, `_escalate`, `_on_status_change`, `_gc_running`, `stop` | Jira, agent runner (tasks), server (calls) |
| pause, budget, gate, same file | `paused`, `pause.json`, `llm_gated`, `_pending_keys`, `_flush_task` | `pause`, `resume`, `_enforce_token_budget`, `_check_llm_gate`, `handle_webhook`, `start` | LLM client, disk, operator |
| agent runner, `sentinel/agent.py` | message list, `extra_leased`, heartbeat task | `run`, `_loop`, crash, cancel and turn-cap cleanup, `_heartbeat_once`, `_bump_retries` | tools, leases, LLM |
| leases, `sentinel/lease.py` | issue property `sentinel.lease`, label `agent-leased` | `claim`, `heartbeat`, `release`, `reclaim`, `is_stale` | Jira |
| tools, `sentinel/tools.py` | `ToolContext` | claim, release, hand-off, reject, escalate, finish, rework count; content tools, shell commands, estimators | Jira, leases |
| Jira client, `sentinel/jira.py` | none | reads, property writes, transitions, label updates, the retries of `_request` | Jira |
| LLM client, `sentinel/llm.py` | `consecutive_failures`, `tokens_today`, `_usage_day` | `chat`, `tokens_in_current_window` | LiteLLM |
| payloads, `sentinel/payloads.py` | none | parse and validate hand-off and rejection payloads | tools, webhook |
| housekeeping, `sentinel/orchestrator.py` | workspaces, `sentinel.reminded` | quota, stale-escalation reminders | disk, Jira |
| audit, `sentinel/audit.py` | JSONL files | append, rotate, read | disk |
| server, `sentinel/server.py` | sweep tasks | webhook, `/sweep`, `/pause`, `/resume`, `/health`, `/metrics` | orchestrator |
| notifier, metrics, doctor, onboarding | display or set-up only | | |

Hard behaviour, by part, and what correctness means there:

- **Dispatch.** The check that a slot is free and the spawn that takes it are up
  to eight awaits apart, and a sweep, `POST /sweep` and a flush all do this. A
  role must run at most once on a ticket, a queue role at most once, and WIP
  limits must hold (ORC-3). A sweep's snapshot is older than its lock.
- **Retries.** `sentinel.retries` is written by crashing runs, turn caps and
  reclaims, deleted by hand-offs, escalations and late webhooks, and read by
  dispatch: one retry, then a human, and no endless crash loop.
- **Leases.** Claim and heartbeat are read, then write; release writes blindly.
  One holder at a time; no lease without a holder; a stale one is reclaimed (ORC-2).
- **Progress.** After a crash of the process all tasks are gone and all leases
  stay. Nothing may be stuck silently (ORC-1); a pause must drain; a graceful
  stop should leave no lease behind.
- **Hand-offs.** Check, payload comment, look-up of the edge and transition are
  four calls, each of which may fail, be repeated, or have been done unheard,
  with humans moving the ticket in between; a webhook judges the result later,
  from the comments. An agent's move has its payload (ORC-5), a rejection counts
  once, and nobody is accused wrongly.
- **Parking.** Whether a parked ticket has been replied to is decided by the order
  of two time stamps of different precision, one of which sentinel's own edits
  move. A reply must be heard, and the ticket must not wake for nothing.
- **Breakers.** The pause outlives a restart, if the disk has got it, and only a
  human lifts it; the budget stops sweeps and flushes alike; the gate lifts itself.

`PROJECT.json` lists every hazard with its line and the properties against it.

## 2. The modules

```
Pipeline            the dispatch table (constants and what validate_config accepts)
  Board             Jira as sentinel uses it, and the humans on it
    AgentRun        one agent run: claim, loop, terminal calls, crash, cancellation
      Orchestrator  sweeps, flushes, `running`, the lock, the end of the process
        MCOrchestrator        instances for TLC
        Orchestrator_proofs   theorems
          ReworkLimit_proofs  the rework limit and the retry counter
            Lease_proofs      who holds a lease, and whose failures are counted
Admission           abstract: what dispatch promises; Orchestrator implements it
Breakers            pause, token budget, LLM gate and webhook debounce
  Breakers_proofs   theorems
Payloads            how a payload is found in the text of a comment
  Handoff           one ticket changing hands: tools, comments, webhooks, retries
    MCHandoff       its instance
    Handoff_proofs  theorems
Parking             the waiting marker, its time stamps, and the passes that read it
  Parking_proofs    theorems
Audit               the audit log: append, rotation, a reader without the lock
  Audit_proofs      theorems
Housekeeping        reminders and workspace quota after a sweep's dispatch
  Housekeeping_proofs  theorems
```

**Pipeline** has no variables. `Watches`, `Required`, `Condition`, `Limited`,
`WipLimit` are the fields of `pipeline.yml`; `ValidConfig` is what
`validate_config` enforces (a status has one ticket role; `Anchor` is
`statuses[0]`). The proofs hold for every configuration it accepts.

**Board** holds the fields of a ticket the code reads: `status`, `labels`,
the properties `lease`, `retries`, `rework`, `waiting`, and three bits the
environment needs: `rejected` (a rejection payload nobody counted yet),
`notice` (the webhook of an agent's transition is under way) and `beats`
(heartbeats that have read their lease and not written it back). One Jira call
is one atomic step. Left out because no code decides on it: the label
`agent-leased`, the assignee, comment texts. A lease's clock is one bit, `stale`.

**AgentRun** is a program counter per (slot, instance). `start`, `claiming` and
`writing` are the awaits of `LeaseManager.claim`; `move`, `clear`, `reset`,
`release` those of `_transition_with_handoff`; `bump`, `bumped`, `release`
those of the cleanup after a crash or turn cap. `CallFails` and `ClaimFails`
are the `JiraError` paths: in a tool they return to the loop as an ERROR, in
the cleanup they give up on that ticket only. `Cancel` is `CancelledError` at
any await: to the handler that releases what the run holds, or straight out where
the handler is not reached (`Entered`: the claim of a ticket role comes before
the `try`). The request the run was waiting for may have been done or not
(`InFlight`). `Heartbeat` is a whole beat; `BeatRead` and `BeatLands` (Board)
are its two calls with anything between.

**Orchestrator** adds a program counter per evaluator. `SweepBegin`,
`SweepSearch`, `FlushBegin`, `TakeLock`, `EnterQueues`, `LeaveQueues` are the
pass; `Consider` to `Unpark` is `_evaluate_ticket`, a step per await;
`ConsiderQueue` and `CheckCapacity` are `_evaluate_queues`. `Dispatch` is its
end, WIP check and spawn in one step because no await lies between them.
The set `Sweeps` is the sweeps that may overlap: the periodic one and those
`POST /sweep` starts. The process ends in two ways (`Exits`): `Restart` loses
every task and keeps the board; `stop()` is `BeginStop` (the tasks of `running`
are cancelled, in one stretch), `Notice` (a task gets its `CancelledError`; `Free`
says that it does nothing else first), `ReleaseLeft` (the fallback release, which
does not wait longer than the grace time, so the runs may still be at it) and
`Exit`. Passes in progress go on during all of that; no sweep begins.

**Admission** is the abstract specification: a set of agents at work; one is
admitted to a free slot below its WIP limit; any may leave. The refinement
mapping, `Admitted`, is the set of live runs.

**Payloads** is `extract_yaml_blocks` and `find_payload` on a text of lines, a
line being one of the seven things the pattern `_FENCE` tells apart. `FencedBlocks`
is `finditer`: first opener, its first closer, and on from there.

**Handoff** follows one ticket and one run at a time through
`_check_transition` (`Call`, `CheckEdges`), the payload comments
(`PostRejection`, `PostHandoff`; `Recheck` between the two of a rejection),
`transition_to` (`Lookup`, `Fire`) and `increment_rework` (`ReadRejection`,
`WriteCount`). `Sent` and `Post` are `_request`: a POST that fails is repeated
only after an answer Jira gave, and may then have been done already. `notices` are webhooks, delivered
late, twice or never; `OnStatusChange` looks for the payload among the last
`Recent` comments of the one page that is fetched. `moves` and `flagged` are
history: who moved the ticket, from where, and which moves were objected to.

**Parking** is the marker's life: `Park`, then `Unlease` and `Unlabel` (the two
calls of the release that follows), and a pass with the `updated` and the freeze
label of its snapshot. A pass reads the marker last, so everything that may send
it back before is here too, await by await: pause, freeze and `running`
(`TakeLock`), the lease (`ReadLease`, `Reclaim`, `Relabel`), the count of a lost
run (`BumpReclaimed`), the retry check with its reset and its escalation
(`ReadRetries`, `ResetRetries`, `Escalate`), the router's rework check, of which
only the two outcomes are kept, and after the marker the WIP limit (`Dispatch`).
A run that fails counts itself and releases, or gives up on the ticket (`Crash`,
`ReleaseFails`). Of the time stamps it keeps the order only, as two bits (its head
comment says which). Four histories say what no code records: whether a human is
unheard, whether the last release got to its label edit, how many runs have failed
since a human was last called (`strikes`), and whether a failure kept one of them,
or the call, from being recorded (`uncounted`).

**Breakers** looks at the other half of a pass, the part before the lock:
`StartPass` (budget, then gate), `Paused`, `Alerted`, `Probe`, `Lifted` (an
action per await), `CheckFlags` and `Dispatch` (the window between reading the
flags and spawning), `HandleWebhook`, `TakePending` and `AfterPass` (the
debounce). `file` is what `pause.json` holds: `SetPause` writes it, or fails before
or after the truncation, `Resume` removes it or not, `KilledPausing` is the process
killed between truncation and text, and `LoadPauseState` takes a torn file for
none. In `Orchestrator` all this is one flag, `paused`, that something
sets and clears. A history variable, `unsaved`, says that the last write or
removal failed. Two more, `spent` and `over`, say what was really
used today and which passes began over budget; no action reads them in a guard.

**Audit** is one call of `record()` at the grain of file operations (`Record`,
`Unlink`, `Rename` for each generation down to the live file, `AppendLine`) and
a query of the CLI, file by file (`Query`, `ListFile`, `ReadFile`).
`RotationFails`, `WriteInterrupted` and `Crash` are the disk's and the process's
faults. A record is its number; a file is its lines, its size, and whether its
last line lacks the newline. Queries inside the process hold the lock and see
the files between two calls, which no property needs as a step.

**Housekeeping** is the part of a sweep after its lock: `CheckReminder`, `Stamp`,
`Notify` (two awaits per ticket, on one reading of the clock), then `Scan`
without the lock and `Relock`, `BeginWipe`, `EndWipe` under it. Dispatch is
reduced to "who holds the lock may start agents on free slots".

### What an agent is taken to do

An LLM may call any tool with any argument. The model takes it to follow its
prompt this far: it acts on tickets it holds, hands off from the status it was
dispatched for, claims tickets of its kickoff list, goes to Rework only by
`reject_to_rework`, and its terminal call ends its message. It chooses freely
among the calls, their order, and crashing at any turn. Tools that change no
dispatch state are steps nobody sees. In `Handoff` it may name any target, write
any summary of `Summaries` before its payload, and put more calls behind a
terminal one (`Fire`), though not beside the next run.

## 3. The runs

All pipelines are cut out of `config/pipeline.yml` (`MCOrchestrator`). Two
instances per slot suffice: a third live run of a slot implies a second.
`MaxRetries = 4` only stops the counter where the code no longer tells values
apart (it asks for more than one). `MaxRework` lies above `ReworkLimit`.
`MaxRestarts` bounds the ends of the process, `MaxFaults` and `MaxFailures` the
failed calls, `MaxMoves` and `MaxComments` the ticket's history.

| Run | Instance | Shows |
|---|---|---|
| `core_dispatch` | two tickets, the implementer's status (limit 1), sweep and flush, Jira errors, one restart | `TypeOK`, `IInv`, `WipRespected`: the spawn of one pass is seen by the next; dispatch implements `Admission`; no agent starts while the retry counter says more than one |
| `rework_cycle` | one ticket between review and rework, freezes, parking, crashes, late webhooks, one graceful stop | one holder, retries at most two, the router within its limit; `CleanStop`: no lease stays behind |
| `queue_batch` | two tickets, the planner's queue (capacity condition) that claims them itself, sweep and flush, Jira errors in passes | `SingleRun`; no lease without a holder, however the run ends |
| `resilience` | one ticket in intake, fairness, crashes, lost and late heartbeats (two calls), a human moving it back and toggling `needs-human`, pauses, flush, a restart | the four liveness properties, and the bound of the retry counter at a start, under lost and late heartbeats |
| `breakers` | one sweep, the flush, two agents, failures to 3, budget 2, one key, one restart, any write or removal of the pause file may fail | who lifts what; gate and outage liveness |
| `handoff` | the review loop, three moves, six comments, one retry per call, two faults; a view of 3 on a page of 5 comments | a payload before each move, no false accusation, no phantom bounce, moves leave from where the payload says |
| `parking` | one ticket, sweep and flush, three failures (crash, restart, failed request), pauses, freezes, a full status | a reply shows (`ReplyInSight`) and is heard, `wake_at` wakes, after two failed runs a human is called first (`OneRetryThenAHuman`) |
| `audit` | three files of 3 units, six records of 1 or 2, two faults, one CLI | queries in order, no gap, bounded files |
| `housekeeping` | one role, one ticket, sweep and flush, three windows, one restart | nobody's workspace is wiped, reminders keep their window, the quota holds in the end |

Why these bounds are enough to see the cases: the dispatch races need two
evaluators and one slot; WIP needs two tickets; a crash loop needs the count to
pass two; a batch needs a second ticket so that the first is not the last; a
restart can happen at every step, once; three rotations over three files drop
one for good, and two faults hit two of them; three windows hold two reminders.
In `handoff` three moves make a whole loop, so a payload of the first round is
there to be mistaken for one of the second; with six comments over a view of
three and a page of five both windows overflow; two faults make a rejection fail
half-way twice. In `parking` the third failure is the one that makes an escalation
fail after two runs have. Summaries have up to two code blocks, the least that lets one
block's end pair up with the next one's beginning.

Some properties have conditions, written at their definitions; the runs of the
next section, and the list after it, show what happens outside them.
`ExclusiveHold`: one sweep and no flush, no Jira errors in runs. `RetriesBounded`:
before the first restart, no Jira errors. `LeaseHasHolder`: no restarts, no Jira
errors in a run's calls (`JiraFails` says whose calls may fail), heartbeats in
one step. `CleanStop`: no pass in progress when `stop()` begins, ticket roles, no
Jira errors. `StartsWithinCount`: one role at a time works a ticket; and it bounds
the counter, which several calls delete, not the failures. Those are followed by
`OneRetryThenAHuman`, for the one role of `Parking` and unless a failed request or
a restart came just where a run was to be counted or, the count reset, a human to
be called. `CrashLoopEscalates` rests on calls that do not fail for good
(`JiraFails = {}`).
`OnlyUnseenFlagged`: the summaries of `Fenced`, no fence inside a payload.
`LeavesWhereItSaid`: one way into each status. `HumanHeard` and `ReplyInSight`: unless the
label edit after a release failed. `HumanHeard`: a run reads the reply, or a human
has been called to the ticket for what failed before, and the reply stays for that
human; the pipeline stays open and has room for the ticket. `WakesWhenDue`: the
same for the escalation, and the pipeline is not closed for good. `IInv` and
`PauseSticks` of `Breakers`: unless the last write or removal of `pause.json`
failed, or the kill cut the write short. `QuotaHolds`: a disk that deletes.
`OneReminderPerWindow`: one sweep at a time. `GenerationsBounded`: until a rotation
fails. Each condition of `Parking` and `Breakers` is needed: without it TLC finds
the property violated in that run.

### Where the code and its documents disagree

Each of these runs checks one property and TLC finds it violated.

| Run | Property | What happens |
|---|---|---|
| `v_frozen` | `NoDispatchOnFrozen` | a flush escalates a ticket while a sweep waits for the lock; the sweep dispatches on it from its old snapshot (`docs/01-orchestrator.md:57`) |
| `v_queue_crashes` | `CrashLoopEscalates` | crashes of queue runs are counted, but nobody reads the count (`sentinel/agent.py:137`) |
| `v_parked` | `ParkedUntilActivity` | `finish_run` parks the ticket and then releases its lease; the release edits a label, which makes `updated` newer than the marker's `since`, and the next pass wakes the ticket for nothing (`sentinel/tools.py:169`) |

Seen while modelling, of the same kind, without a run of its own:

- The lease of a dead run on a ticket in a *queue* status is reclaimed by nobody,
  `_evaluate_ticket` returns before it looks (`docs/01-orchestrator.md:27`).
- With a flush beside the sweep (`Flushes = {"flush"}` in `rework_cycle`) a ticket
  that moves between the two gets two roles, both read no lease and both keep
  working: `ExclusiveHold` fails (`docs/01-orchestrator.md:51`). One of them may
  then start above the retry count: the other crashes after the count was read.
- A third run may start after two failed ones with no human called
  (`sentinel/agent.py:137`, `sentinel/orchestrator.py:484`, "retry once, then
  escalate"): the count is deleted before the escalation
  (`sentinel/orchestrator.py:489`), whose label may then fail; a reclaim removes the
  lease before it counts; and a late webhook deletes what the next stage has counted
  already (`sentinel/orchestrator.py:702`).
- An escalation for failed runs comes before the marker is read
  (`sentinel/orchestrator.py:486`): a parked ticket whose release was lost, with a
  failure before it, is frozen with its marker and its unread reply when `wake_at`
  comes.
- A pause whose write fails holds until the process restarts, as the comment at
  `sentinel/orchestrator.py:146` says. A second `POST /pause` truncates the file of
  the first: failing or killed in between, it leaves a file that is read as no
  pause, though a freeze "must survive a container bounce"
  (`sentinel/orchestrator.py:128`). A resume whose `unlink` fails comes up paused.
- A heartbeat in flight writes the lease back after the release: with
  `BeatsOverlap = TRUE` in `queue_batch`, `LeaseHasHolder` fails
  (`sentinel/lease.py:5`), and in `rework_cycle` `RetriesBounded` does.
- Two things hide a valid payload from `_FENCE` and get its hand-off flagged, or
  its rejection uncounted: a code block labelled in Markdown (```` ```python ````)
  in the summary, and a fence inside a value of the payload. `MCHandoff` has both
  as `Labelled` and `DumpsWithFence`; with either, `OnlyUnseenFlagged` fails
  (`sentinel/payloads.py:34`, "Pull every parseable fenced YAML block").
- `transition_with_handoff` to Rework asks for no rejection payload, and rejecting
  is not limited to the reviewers (`sentinel/tools.py:4`).
- A human's move is undone where the workflow has an edge to the target from the
  new status too, and by a transition that `_request` repeats after a 502 or 504
  although the first one got through (`sentinel/jira.py:50`, `docs/01-orchestrator.md:21`).
- Calls after a terminal call in one message are still executed, and those of a
  ticket role are not checked for ownership (`sentinel/agent.py:199`).
- On a ticket with more than 200 comments every hand-off is flagged and no
  rejection is counted (`sentinel/jira.py:168`); ten comments before a late
  webhook have the first effect.
- Releasing the lease without the label edit would cure `v_parked` and break
  `HumanHeard`: the edit is what covers a reply in the second of the parking. When
  the edit fails, or the process dies before it, that reply waits for `wake_at`.
- After `stop()` a pass in progress may spawn once more, or the fallback release
  may free the lease of a run just started; a queue run cancelled inside
  `claim_ticket`, or in its crash cleanup, leaves leases behind. `README.md:141`
  says that none are, "including tickets a queue role self-claimed".
- Two overlapping sweeps may both send a reminder (`sentinel/orchestrator.py:382`
  promises one per window).
- `read_records` has a lock so that "a concurrent rotation can't tear the view"
  (`sentinel/audit.py:64`); the CLI runs in another process and may miss records
  that move while it reads. It also looks at five generations whatever
  `SENTINEL_AUDIT_BACKUP_COUNT` says.
- A line torn by a crash has no newline: the next record is appended to it and
  is malformed too. And `_rotate` deletes the oldest file even when an earlier
  failure left a free place, so repeated failures empty the history.
- `paused` is read once, before up to eight awaits, so one more agent may start
  after a pause (`docs/01-orchestrator.md:38`).
- The rework limit is read for the router only, while ORC-4 speaks of any agent.
- A release that deletes the property and then fails on the label is an ERROR to
  the LLM, whose run goes on believing that it holds the ticket (`CallFails`).

## 4. Fairness

- A coroutine whose await is over is resumed: weak fairness of `SweepBegin`
  (the timer of `run_forever`), `SweepSearch`, every step of an evaluation, and
  every step a run takes once it has chosen (`Proceed`); in `Breakers` of
  `PassStep`, `TakePending` and `AgentCall`.
- `asyncio.Lock` is FIFO: strong fairness of `TakeLock` and `Relock`.
- `max_agent_turns` ends a run that does not end itself: strong fairness of
  `EndsRun`, the union of the ways to end. The model may do anything else any
  number of times before.
- A pass has finitely many tickets: strong fairness of `EndPass` in `Breakers`.
- Time passes: weak fairness of `Expire`.
- A run that was cancelled does nothing else before it notices (`Free`).
- `Parking`: the same, with weak fairness of `Proceed` as a run there ends by
  parking or crashing. Pauses, freezes and other tickets' agents come and go as
  they like; a property that needs them gone for good says so.
- In `Housekeeping`, weak fairness of a sweep's steps, and strong fairness of
  `LeaveLock`: Jira does not fail every single pass.

Nothing is assumed of humans, operators, webhooks, flushes, restarts, the
backend or Jira errors. Webhooks may be late or never come. `NothingStuck` and
`StaleLeaseReclaimed` start from a pipeline that is not paused for good.

## 5. What is proved

TLAPS checks the theorems for every configuration, number of tickets, sweeps,
flushes and restarts; they rest on the named assumptions of the modules only.

**`Orchestrator_proofs`.** `SingleRun` is not inductive: it says nothing of the
evaluator that is about to spawn. `IInv` adds what the code relies on:
`LiveRegistered` (a live run is the one registered under its slot, with its
status), `Reserved` (between the checks on `running` and the spawn an evaluator
holds the lock and its slot stays free) and `RunKeys` (a run in a call knows its
ticket). Its induction step has a lemma per group of actions: an evaluator that
starts nothing, one that starts a run, a run that moves or is cancelled, what
comes from outside, a new process. Then
`OneRunPerSlot` follows from `LiveRegistered`; `WipBound` from an injection of
the live runs of a status into the entries `_running_count_for_status` counts;
`ImplementsAdmission` from a lemma per action, an `Admit` for `Dispatch` and
`SpawnQueue`, a `Leave` for everything else.

**`ReworkLimit_proofs`.** Two counts that end a loop are read some awaits before
the spawn they decide on, so the arguments are about who may write them
meanwhile. `RouterLimited`: only a run of the router on that ticket counts
reworks (`OnlyRoutersCount`), and while an evaluator holds the router's slot
`Reserved` says there is none (`CountingIsExclusive`). The invariant `LimitSeen`
(an evaluator past the check sees a count within the limit) rests on `IInv`.
`NoStartAboveCount` is the same for the retry count (`BudgetSeen`), of which alone
it speaks: what was deleted from it is `Parking`'s. Its writers
are more: the crash of any run on the ticket, which writes a value it read
earlier. So it needs `Own`, proved in `RunsHoldTheirOwn`: a run of a ticket
role acts on no ticket but its own. Under `OneRole` (one ticket role and no queue
role, the condition `core_dispatch` and `resilience` have) such a run occupies the
very slot the evaluator has reserved (`BumpsElsewhere`). With a second role the
claim is false, section 3 says how. A lemma per step (`ClaimReadTells` to
`CancelTells`) says what a run's record is after it; both proof modules use these.

**`Lease_proofs`.** Four theorems, each with a condition on the constants that the
run of its property meets. The conditions are no convenience: drop one of them in
that run (failing calls, late heartbeats, a second sweep, a flush, humans who move
tickets, a kill, a second life after an unclean stop, for `CleanStop` a queue
role) and TLC finds the property violated. The one exception is that lost heartbeats
did no harm to `RetriesBounded`; and what a queue role does to the last two was not
tried.

| Theorem | Condition | Invariant beside `IInv` and `Own` |
|---|---|---|
| `LeasesHaveHolders` | `Reliable` (no call of a run fails for good, heartbeats in one step), no end of the process | `LeasesHeld`: until the process ends or is told to stop, a lease names the role of a live run that holds its ticket |
| `StopLeavesNoLease` | `StopsCleanly`: `Reliable`, ticket roles, no flush, the process ends by one `stop()` | `Orderly` (`LeasesHeld`, and nobody is told to stop before a stop), and `Calm`: after a stop that no pass overlaps, a lease is left only on a ticket that `stop()` is still to release |
| `NoTwoHold` | `Undisturbed`: `Reliable`, one sweep, no flush, ticket roles, heartbeats arrive, only agents move tickets | `Orderly` and `Alone` |
| `RetriesStayBounded` | `Undisturbed` | `Orderly`, `Alone` and `Counted` |

`ExclusiveHold` is far from inductive. The sweep goes by a snapshot, dispatches
many awaits later, and the claim reads and then writes. `Alone` says why this
works with one sweep. A snapshot is right about a ticket's status or
whoever moved the ticket is still in `running` (`Snapped`), for only the sweep itself
forgets finished tasks, before its search. A run that has not moved its ticket is
found in `running`; one that has holds a good lease (`ClaimsHold`), and is found by
the look at the lease. So past that look the evaluator is alone with the ticket
(`SeenFree`), and at most one run contends for it (`OneContender`). During a stop
leases go while runs are still being cancelled; then `ToldAhead` takes over: who is
at work on a ticket that a sweep has yet to look at was told to stop.
`Counted` adds that there is nothing to reclaim before the first restart (each lease is
good, or is left by a cancelled run whose role is still in `running`) and that
whoever may still count a failure has at most one behind it.

**`Breakers_proofs`.** `IInv` joins the type with four facts: flag and file
agree unless the last write or removal failed, a pending key has a flush task, the window equals what was really spent
today, and a pass that began over budget sees a pause and is not past its check.
From it: `KeysServed`, `PauseLiftedByResume`, `BudgetPausesForToday`,
`NoDispatchOverBudget`.

**`Handoff_proofs`.** All that `handoff.cfg` checks, for every workflow, page,
view, text and number of retries. *Types* need `CallNamed` (a call under way
names two statuses with an edge between them) and that a non-empty bounded set
of ids has a newest. `EveryMoveHasItsPayload`: past its post, a call has a payload
younger than any agent move elsewhere (`PayloadReady`); comments are never removed
and the call is the only one, so it is there when the transition goes through.
`EveryBounceIsReal`: a rejection nobody counted means, for a ticket in Rework or a
router at work, a bounce nobody counted (`UncountedOwed`). This is inductive with
`ReviewerOwed`: a run that began elsewhere and finds the ticket in Rework has seen
a bounce. Two theorems have a condition, the one the run's constants satisfy:
`NobodyWronglyAccused` that the agents' texts are `Readable`, and
`HumansWinOverAgents` that there is `OneWayIn` to each status.

**`Parking_proofs`.** `EvaluationAlone`: `IInv`. `NoReplyHidden`: a marker's `since`
may hide a reply of the same second, and what makes it show again is the label
edit of a release. `Sighted` says which release is still to come: that of the run
that parked, or the reclaim of the lease that a dead one has left.
`HumanAfterTwoFailures`: `strikes` is what the human should be called for, `retries`
what sentinel knows of it. `Tallied` says that the count covers the failed runs but
for one `Outstanding` (its lease, or the reclaim of it, is still there to be counted
by), until it says two, and then until the human is called; so whoever is past the
check holds a ticket with at most one strike. Beside a run nobody evaluates
(`IInv`), which is why the counter has one writer at a time here.

**`Housekeeping_proofs`.** `Typing`. `LockProtects` (`Exclusive`): the lock has
one holder, a slot is taken under it, and under it too the roles of the taken
slots are struck off the workspaces to wipe; so no wipe meets an agent, which is
`WorkspaceSafe`. `RemindedOnce`, for sweeps that do not overlap
(`OneReminderPerWindow` is false otherwise): the stamp on the board is never
behind the last notification, also between the two awaits, so what is due by the
stamp is due (`Stamped`).

**`Audit_proofs`.** `IInv` says how the files stand to each other at every file
operation: line numbers go up from the oldest file to the live one (`Ordered`), a
rotation has made the place it moves the next file to (`Rotating`), a torn line is no
record (`Torn`). `WindowWithoutGap`: with a record all later ones are there
(`Window`), whatever operation the process or the disk fails at. `QueriesInOrder`: what
a reader has read is older than all it has still to read (`Reading`), as records only
move to older files. `FilesBounded`: if the log rotates at all and its lines have a
longest, a line is appended to an empty file or to one it does not overfill
(`Fitting`), until a rotation has failed. `Audit` defines `Records` by the rank of
each line and not with `SelectSeq`, of which the provers know nothing.

**Only model-checked.** Liveness, which needs ENABLED: `NothingStuck`,
`StaleLeaseReclaimed`, `CrashLoopEscalates`, `PauseDrains`, `GateLifts`,
`OutageComesToRest`, `QuotaHolds`, `HumanHeard`, `WakesWhenDue`. Every safety
property of a passing run has its theorem. What `FencedBlocks` computes for a
text of any length is an induction over data; the theorems on hand-offs take what
it says as given (`Readable`).

## 6. Plan

Order of work, the most important behaviour first; steps 1 to 9 are done.

1. `Pipeline`, `Board`, `AgentRun`, `Orchestrator`: dispatch at the grain of awaits.
2. `Admission` and the refinement.
3. `Orchestrator_proofs`: types, one run per slot, WIP, refinement.
4. `Breakers` and its proofs.
5. `Audit` and `Housekeeping`.
6. `Payloads`, `Handoff` and `Parking`: payloads, comments, webhooks, time stamps.
7. Shutdown: `stop()` and the cancellation of a run, in `AgentRun` and
   `Orchestrator`.
8. `Handoff_proofs`: types, payloads, the rework count, who is accused.
9. Proofs of the safety of leases, retries, parking, housekeeping and the audit log.
10. An abstract specification of the lease, implemented by `LeaseManager` with
   its label, its comment and two claimers.

## 7. Not modelled

The content tools, prompts and wording; what the validators of a payload ask for
(one bit: a payload they refuse is never posted); the environment variables and
YAML of the configuration. The retries of `_request` are modelled in `Handoff`; in
`Board` a call succeeds once or fails. The label `agent-leased` and the comment
of a claim are left out with the rest of what no code reads. Of the audit log the
filters and the formatting of a query, of housekeeping the sizes of the trees.
Left out for good: authentication, `/health`, `/metrics`, the notifier, the doctor
and the onboarding script, which decide nothing about tickets. An error on
reading `pause.json`, other than that there is none, stops the start and is left out.

`Parking` has one role for its status and no hand-offs: its runs park or fail, and
of the router's rework check it keeps that it may escalate. So the deletion of
the count by a hand-off or a webhook is in `Orchestrator` and `Handoff` only, where
no history of failures is kept. A disk that keeps what `rmtree` should delete is
left out of `Housekeeping`.

Of a shutdown: a cancelled request has been done or not when the run notices;
nothing of it arrives later. The cleanup at the turn cap is taken to be cancelled
like the loop, or like the crash cleanup. `loop_task.cancel()` comes after
`stop()`, so a pass in progress lives as long as the process.
