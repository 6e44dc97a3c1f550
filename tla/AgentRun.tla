------------------------------ MODULE AgentRun ------------------------------
(***************************************************************************)
(* One agent run, from AgentRunner.run to its terminal tool call, its      *)
(* crash, or its turn cap.  Each step ends at an await on Jira, which is   *)
(* where other coroutines get to run.                                      *)
(*                                                                         *)
(* The model in the run decides what to do next; it is taken to follow its *)
(* prompt this far: it acts on tickets it holds, hands a ticket off from   *)
(* the status it was dispatched for, claims the tickets its kickoff lists, *)
(* sends a ticket to Rework only with reject_to_rework, and a terminal     *)
(* call is the last of its message.  Labels it sets otherwise (set_labels) *)
(* are among those HumanLabel sets.                                        *)
(***************************************************************************)
EXTENDS Board

CONSTANTS
  Instances,       \* bound on the runs of one slot that can be live at once
  JiraFails,       \* whose Jira calls may fail for good: those of a "pass", of a "run"
  HeartbeatsFail,  \* whether all heartbeats of a lease may be lost for 30 min
  BeatsOverlap     \* whether other calls may come between the two of a heartbeat

ASSUME RunAssumption ==
  /\ Instances \subseteq Nat \ {0} /\ IsFiniteSet(Instances) /\ Instances # {}
  /\ JiraFails \subseteq {"pass", "run"} /\ HeartbeatsFail \in BOOLEAN /\ BeatsOverlap \in BOOLEAN

VARIABLE run     \* (slot, instance) -> where that coroutine is

Runs == Slots \X Instances

RoleOf(r) == r[1][1]

OwnTicket(r) == r[1][2]

IsQueueRun(r) == RoleOf(r) \in QueueRoles

\* start       waiting for claim's read of the lease (ticket roles)
\* claiming    the same, in the claim_ticket tool (queue roles)
\* writing     claim saw no active lease and is about to write its own
\* work        in the LLM loop, between tool calls
\* move..release  in a tool call or in the cleanup after a crash
RunPcs == {"start", "claiming", "writing", "work", "move", "clear", "reset",
           "bump", "bumped", "release", "done"}

\* What a release is part of: one tool call, finish_run, the cleanup after a
\* crash or the turn cap, or the one after a cancellation.
Purposes == {"none", "step", "finish", "crash", "cancel"}

RunRecords ==
  [pc   : RunPcs,
   at   : Statuses \cup {NoStatus},      \* the status it was dispatched for
   op   : Purposes,
   key  : Tickets \cup {NoTicket},       \* the ticket of the current call
   held : SUBSET Tickets,                \* its ticket, or ctx.extra_leased
   list : SUBSET Tickets,                \* the tickets its kickoff names
   to   : Statuses \cup {NoStatus},      \* target of the current transition
   cnt  : Nat]                           \* the retry count it has read

DoneRun == [pc |-> "done", at |-> NoStatus, op |-> "none", key |-> NoTicket,
            held |-> {}, list |-> {}, to |-> NoStatus, cnt |-> 0]

\* AgentRunner.run(role, ticket, kickoff): a ticket role claims its ticket
\* first, a queue role starts with nothing and goes straight to its loop.
NewRun(x, s, tickets) ==
  IF x[1] \in QueueRoles
  THEN [DoneRun EXCEPT !.pc = "work", !.at = s, !.list = tickets]
  ELSE [DoneRun EXCEPT !.pc = "start", !.at = s, !.key = x[2]]

Live(r) == run[r].pc # "done"

RunTypeOK == run \in [Runs -> RunRecords]

RunInit == run = [r \in Runs |-> DoneRun]

At(r, pc) == run[r].pc = pc

Become(r, rec) == run' = [run EXCEPT ![r] = rec]

Goto(r, pc) == Become(r, [run[r] EXCEPT !.pc = pc])

\* Back in the loop: the tool call is over, whether it worked or returned an
\* ERROR result to the model.
Working(rec) == [rec EXCEPT !.pc = "work", !.op = "none", !.to = NoStatus, !.cnt = 0]

\* The issue moves along an edge of the workflow, and a webhook will say so.
Transition(k, s) ==
  /\ s \in Workflow[status[k]]
  /\ status' = [status EXCEPT ![k] = s]
  /\ notice' = [notice EXCEPT ![k] = TRUE]
  /\ rejected' = [rejected EXCEPT ![k] = @ \/ s = ReworkStatus]
  /\ UNCHANGED <<labels, lease, retries, rework, waiting, beats>>

\* What has become of the request a run waits for when the run does not get
\* its answer, because of an error or a cancellation: Jira has done it, or not.
InFlight(r) ==
  LET k == run[r].key
  IN \/ UNCHANGED boardVars
     \/ At(r, "writing") /\ WriteLease(k, FreshLease(RoleOf(r)))
     \/ At(r, "move") /\ Transition(k, run[r].to)
     \/ At(r, "clear") /\ WriteWaiting(k, FALSE)
     \/ At(r, "reset") /\ WriteRetries(k, 0)
     \/ At(r, "bumped") /\ WriteRetries(k, Bumped(run[r].cnt))
     \/ At(r, "release") /\ WriteLease(k, NoLease)

(***************************************************************************)
(* LeaseManager.claim: read, check, write - three awaits, nothing atomic.  *)
(***************************************************************************)
ClaimRefused(r) == Active(lease[run[r].key])

ClaimRead(r) ==
  /\ run[r].pc \in {"start", "claiming"}
  /\ Become(r, IF ~ClaimRefused(r) THEN [run[r] EXCEPT !.pc = "writing"]
               ELSE IF IsQueueRun(r) THEN Working(run[r])
               ELSE DoneRun)
  /\ UNCHANGED boardVars

ClaimWrite(r) ==
  /\ At(r, "writing")
  /\ WriteLease(run[r].key, FreshLease(RoleOf(r)))
  /\ Become(r, [Working(run[r]) EXCEPT !.held = @ \cup {run[r].key}])

\* A JiraError inside claim.  The lease may be written already (the label and
\* comment calls come after it) and nobody takes it back: a ticket role's run
\* is over before its try block, a queue role's tool reports an error.
ClaimFails(r) ==
  /\ "run" \in JiraFails
  /\ run[r].pc \in {"start", "claiming", "writing"}
  /\ Become(r, IF IsQueueRun(r) THEN Working(run[r]) ELSE DoneRun)
  /\ InFlight(r)

\* claim_ticket of a ticket of the queue.
BeginClaim(r) ==
  /\ At(r, "work") /\ IsQueueRun(r)
  /\ \E k \in run[r].list \ run[r].held :
       Become(r, [run[r] EXCEPT !.pc = "claiming", !.key = k])
  /\ UNCHANGED boardVars

(***************************************************************************)
(* Terminal and queue tools.                                               *)
(***************************************************************************)
\* The from_status of the payload, which _check_transition compares with the
\* status it fetches.
ExpectedIn(r, s) == IF IsQueueRun(r) THEN s \in Watches[RoleOf(r)] ELSE s = run[r].at

\* _check_transition: the ticket is where the payload says and the workflow
\* has the edge; the handoff comment is posted next.
BeginHandoff(r) ==
  /\ At(r, "work")
  /\ \E k \in run[r].held : \E s \in Workflow[status[k]] :
       /\ ExpectedIn(r, status[k])
       /\ Become(r, [run[r] EXCEPT !.pc = "move", !.op = "step", !.key = k, !.to = s])
  /\ UNCHANGED boardVars

\* JiraClient.transition_to: the edge is looked up again, from wherever the
\* ticket is by now.  Without one it raises and the tool call is over.
Move(r) ==
  /\ At(r, "move")
  /\ \/ Transition(run[r].key, run[r].to) /\ Goto(r, "clear")
     \/ /\ run[r].to \notin Workflow[status[run[r].key]]
        /\ UNCHANGED boardVars /\ Become(r, Working(run[r]))

ClearWaiting(r) ==
  /\ At(r, "clear")
  /\ WriteWaiting(run[r].key, FALSE)
  /\ Goto(r, "reset")

ClearRetries(r) ==
  /\ At(r, "reset")
  /\ WriteRetries(run[r].key, 0)
  /\ Goto(r, "release")

\* The escalate tool: freeze, comment, then release.
BeginEscalate(r) ==
  /\ At(r, "work")
  /\ \E k \in run[r].held :
       /\ AddLabels(k, {"needs-human"})
       /\ Become(r, [run[r] EXCEPT !.pc = "release", !.op = "step", !.key = k])

\* The release_ticket tool.
BeginRelease(r) ==
  /\ At(r, "work") /\ IsQueueRun(r)
  /\ \E k \in run[r].held :
       Become(r, [run[r] EXCEPT !.pc = "release", !.op = "step", !.key = k])
  /\ UNCHANGED boardVars

\* finish_run: a ticket role parks its ticket first; then every held lease is
\* released in turn.
BeginFinish(r) ==
  /\ At(r, "work")
  /\ IF IsQueueRun(r) THEN UNCHANGED boardVars ELSE WriteWaiting(OwnTicket(r), TRUE)
  /\ \/ run[r].held = {} /\ Become(r, DoneRun)
     \/ \E k \in run[r].held :
          Become(r, [run[r] EXCEPT !.pc = "release", !.op = "finish", !.key = k])

\* increment_rework: count the last rejection once.
IncrementRework(r) ==
  /\ At(r, "work") /\ RoleOf(r) = Router
  /\ LET k == OwnTicket(r)
     IN /\ rejected[k] /\ rework[k] < MaxRework
        /\ rework' = [rework EXCEPT ![k] = @ + 1]
        /\ rejected' = [rejected EXCEPT ![k] = FALSE]
  /\ UNCHANGED <<status, labels, lease, retries, waiting, notice, beats, run>>

(***************************************************************************)
(* The run dies: an exception outside the tools (the LLM call) or the turn *)
(* cap.  Every held ticket gets its retry count bumped, then its release.  *)
(***************************************************************************)
BeginCrash(r) ==
  /\ At(r, "work")
  /\ \/ run[r].held = {} /\ Become(r, DoneRun)
     \/ \E k \in run[r].held :
          Become(r, [run[r] EXCEPT !.pc = "bump", !.op = "crash", !.key = k])
  /\ UNCHANGED boardVars

BumpRead(r) ==
  /\ At(r, "bump")
  /\ Become(r, [run[r] EXCEPT !.pc = "bumped", !.cnt = retries[run[r].key]])
  /\ UNCHANGED boardVars

BumpWrite(r) ==
  /\ At(r, "bumped")
  /\ WriteRetries(run[r].key, Bumped(run[r].cnt))
  /\ Become(r, [run[r] EXCEPT !.pc = "release", !.cnt = 0])

\* Slip: the run is over after the first of its tickets.
AfterFirstRelease(r) ==
  IF run[r].op = "step" /\ IsQueueRun(r)
  THEN Become(r, [Working(run[r]) EXCEPT !.held = @ \ {run[r].key}])
  ELSE Become(r, DoneRun)

\* After a ticket is released, or its cleanup has failed: a tool call of a
\* queue role returns to the loop, a terminal one ends the run, and finish_run
\* and the crash cleanup go on to the next ticket.
AfterRelease(r) ==
  LET left == run[r].held \ {run[r].key}
  IN \/ /\ run[r].op = "step" /\ IsQueueRun(r)
        /\ Become(r, [Working(run[r]) EXCEPT !.held = left])
     \/ /\ run[r].op = "step" /\ ~IsQueueRun(r)
        /\ Become(r, DoneRun)
     \/ /\ run[r].op # "step" /\ left = {}
        /\ Become(r, DoneRun)
     \/ /\ run[r].op # "step"
        /\ \E k \in left :
             Become(r, [run[r] EXCEPT !.held = left, !.key = k, !.cnt = 0,
                          !.pc = IF run[r].op = "crash" THEN "bump" ELSE "release"])

\* LeaseManager.release deletes the property whoever wrote it.
Release(r) ==
  /\ At(r, "release")
  /\ WriteLease(run[r].key, NoLease)
  /\ AfterRelease(r)

\* A JiraError in a tool call goes back to the model as an ERROR result; in a
\* cleanup it gives up on that ticket.
CallFails(r) ==
  /\ "run" \in JiraFails
  /\ run[r].pc \in {"move", "clear", "reset", "bump", "bumped", "release"}
  /\ IF run[r].op \in {"crash", "cancel"} THEN AfterRelease(r) ELSE Become(r, Working(run[r]))
  /\ InFlight(r)

(***************************************************************************)
(* The run is cancelled: the process is about to stop.                     *)
(***************************************************************************)
\* The first claim of a ticket role comes before the try block.
Entered(r) == ~At(r, "start") /\ (At(r, "writing") => IsQueueRun(r))

\* The handler of CancelledError releases what the run holds, one ticket after
\* the other.  It is not reached from the handler of another exception, while
\* the cleanup at the turn cap is inside the try: either may be at work.
Cancel(r) ==
  /\ Live(r)
  /\ \/ Entered(r)
        /\ \E k \in run[r].held :
             Become(r, [Working(run[r]) EXCEPT !.pc = "release", !.op = "cancel", !.key = k])
     \/ (~Entered(r) \/ run[r].held = {} \/ run[r].op = "crash") /\ Become(r, DoneRun)
  /\ InFlight(r)

(***************************************************************************)
(* Heartbeats.  A run beats for what it holds until it is done; a queue    *)
(* role that finds another role's lease stops touching that ticket.        *)
(* Heartbeat is the whole of it in one step; BeatRead and BeatLands are    *)
(* its two calls with anything between them, the end of the run included:  *)
(* cancelling the heartbeat task does not recall a request that is sent.   *)
(***************************************************************************)
Beats(r, t) == Live(r) /\ t \in run[r].held

Heartbeat(r) ==
  /\ Live(r)
  /\ \E t \in run[r].held :
       \/ /\ lease[t].role = RoleOf(r) /\ lease[t].stale
          /\ WriteLease(t, FreshLease(RoleOf(r)))
          /\ UNCHANGED run
       \/ /\ lease[t].role # RoleOf(r) /\ IsQueueRun(r)
          /\ run[r].op \in {"none", "step"}   \* the others walk a copy of the set
          /\ Become(r, [run[r] EXCEPT !.held = @ \ {t}])
          /\ UNCHANGED boardVars

\* LeaseManager.heartbeat, its first call: the lease is still this role's.
BeatRead(r) ==
  /\ BeatsOverlap /\ Live(r)
  /\ \E t \in run[r].held :
       /\ lease[t].role = RoleOf(r)
       /\ beats' = beats \cup {<<RoleOf(r), t>>}
  /\ UNCHANGED <<status, labels, lease, retries, rework, rejected, waiting, notice, run>>

\* Thirty minutes pass without a heartbeat that counts.
Expire(t) ==
  /\ Active(lease[t])
  /\ HeartbeatsFail \/ ~\E r \in Runs : Beats(r, t) /\ RoleOf(r) = lease[t].role
  /\ WriteLease(t, [lease[t] EXCEPT !.stale = TRUE])
  /\ UNCHANGED run

\* The steps a run takes by itself once it has chosen what to do.
Proceed(r) ==
  ClaimRead(r) \/ ClaimWrite(r) \/ Move(r) \/ ClearWaiting(r) \/ ClearRetries(r)
  \/ BumpRead(r) \/ BumpWrite(r) \/ Release(r)

Choose(r) ==
  BeginClaim(r) \/ BeginHandoff(r) \/ BeginEscalate(r) \/ BeginRelease(r)
  \/ BeginFinish(r) \/ IncrementRework(r) \/ BeginCrash(r)

RunStep(r) ==
  Proceed(r) \/ Choose(r) \/ ClaimFails(r) \/ CallFails(r) \/ Heartbeat(r)
  \/ BeatRead(r)
=============================================================================
