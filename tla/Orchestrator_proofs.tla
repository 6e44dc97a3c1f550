------------------------- MODULE Orchestrator_proofs -------------------------
(***************************************************************************)
(* Proofs about dispatch, for any pipeline, any number of tickets, sweeps  *)
(* and flushes: type correctness, one run per slot, WIP limits, and that   *)
(* dispatch implements Admission.                                          *)
(***************************************************************************)
EXTENDS Orchestrator, FiniteSetTheorems, TLAPS

(***************************************************************************)
(* The static part.                                                        *)
(***************************************************************************)
\* What the dispatch table gives the proofs: statuses of roles, anchors and
\* edges are statuses of the workflow, and tickets of a slot are tickets.
LEMMA Static ==
  /\ \A q \in Roles : Watches[q] \subseteq Statuses
  /\ \A q \in QueueRoles : Anchor[q] \in Statuses
  /\ \A s \in Statuses : Workflow[s] \subseteq Statuses
  /\ TicketRolesFor(NoStatus) = {}
  /\ \A x \in TicketSlots : x \in Slots /\ x[1] \in TicketRoles /\ x[2] \in Tickets
  /\ \A x \in QueueSlots : x \in Slots /\ x[1] \in QueueRoles /\ x[2] = NoTicket
  /\ TicketSlots \cap QueueSlots = {}
<1>1. \A q \in Roles : Watches[q] \subseteq Statuses
  BY ConfigAssumption DEF ValidConfig
<1>2. \A q \in QueueRoles : Anchor[q] \in Statuses
  BY <1>1, ConfigAssumption DEF ValidConfig, Roles
<1>3. \A s \in Statuses : Workflow[s] \subseteq Statuses
  BY PipelineAssumption
<1>4. TicketRolesFor(NoStatus) = {}
  BY <1>1, PipelineAssumption DEF TicketRolesFor, Roles
<1>5. \A x \in TicketSlots : x \in Slots /\ x[1] \in TicketRoles /\ x[2] \in Tickets
  BY DEF TicketSlots, Slots
<1>6. \A x \in QueueSlots : x \in Slots /\ x[1] \in QueueRoles /\ x[2] = NoTicket
  BY DEF QueueSlots, Slots
<1>7. TicketSlots \cap QueueSlots = {}
  BY <1>5, <1>6, PipelineAssumption
<1> QED BY <1>1, <1>2, <1>3, <1>4, <1>5, <1>6, <1>7

\* A run that is no queue run has a ticket of its own.
LEMMA OwnTickets ==
  ASSUME NEW r \in Runs
  PROVE  /\ r[1] \in Slots /\ r[2] \in Instances /\ r = <<r[1], r[2]>>
         /\ RoleOf(r) \in Roles
         /\ ~IsQueueRun(r) => OwnTicket(r) \in Tickets /\ r[1] \in TicketSlots
         /\ RoleOf(r) = Router => OwnTicket(r) \in Tickets
<1>1. r[1] \in Slots /\ r[2] \in Instances /\ r = <<r[1], r[2]>>
  BY DEF Runs
<1>2. CASE r[1] \in TicketSlots
  BY <1>1, <1>2, Static, PipelineAssumption DEF RoleOf, OwnTicket, IsQueueRun, Roles
<1>3. CASE r[1] \in QueueSlots
  BY <1>1, <1>3, Static, PipelineAssumption DEF RoleOf, OwnTicket, IsQueueRun, Roles
<1> QED BY <1>1, <1>2, <1>3 DEF Slots

(***************************************************************************)
(* Steps of the board.                                                     *)
(***************************************************************************)
\* Fresh, absent and expired leases are leases.
LEMMA LeaseTypes ==
  /\ NoLease \in Leases
  /\ \A q \in Roles : FreshLease(q) \in Leases
  /\ \A l \in Leases : [l EXCEPT !.stale = TRUE] \in Leases
BY DEF Leases, NoLease, FreshLease

\* The count never leaves the naturals.
LEMMA BumpedType == \A n \in Nat : Bumped(n) \in Nat
BY DEF Bumped

\* Each writer of a property keeps the board well typed.
LEMMA WriterTypes ==
  ASSUME BoardTypeOK, NEW t
  PROVE  /\ \A l \in Leases : WriteLease(t, l) => BoardTypeOK'
         /\ \A n \in Nat : WriteRetries(t, n) => BoardTypeOK'
         /\ \A b \in BOOLEAN : WriteWaiting(t, b) => BoardTypeOK'
         /\ \A ls \in SUBSET Labels : AddLabels(t, ls) => BoardTypeOK'
BY DEF BoardTypeOK, WriteLease, WriteRetries, WriteWaiting, AddLabels

\* A board that does not change stays well typed.
LEMMA SameBoardTypes ==
  ASSUME BoardTypeOK, UNCHANGED boardVars
  PROVE  BoardTypeOK'
BY DEF BoardTypeOK, boardVars

(***************************************************************************)
(* Steps of a run.                                                         *)
(***************************************************************************)
\* Every step of a run only moves that run, keeps it well formed, and keeps
\* the status it was dispatched for while it lives.
Advance(r) ==
  /\ run' = [run EXCEPT ![r] = run'[r]]
  /\ run'[r] \in RunRecords
  /\ run'[r].pc = "done" \/ run'[r].at = run[r].at
  /\ run'[r].pc \notin {"work", "done"} => run'[r].key \in Tickets

\* A run that becomes another record under the same slot and status advances.
LEMMA BecomeAdvances ==
  ASSUME RunTypeOK, NEW r \in Runs, NEW rec \in RunRecords, Become(r, rec),
         rec.pc = "done" \/ rec.at = run[r].at,
         rec.pc \notin {"work", "done"} => rec.key \in Tickets
  PROVE  Advance(r)
<1>1. run' = [run EXCEPT ![r] = rec]
  BY DEF Become
<1>2. run'[r] = rec
  BY <1>1 DEF RunTypeOK
<1> QED BY <1>1, <1>2 DEF Advance

\* Heartbeats and counts may leave the run where it is.
LEMMA StayAdvances ==
  ASSUME RunTypeOK, RunKeys, NEW r \in Runs, UNCHANGED run
  PROVE  Advance(r)
BY DEF RunTypeOK, RunKeys, Advance

\* The record of a finished run is well typed.
LEMMA DoneRunType == DoneRun \in RunRecords /\ DoneRun.pc = "done"
BY DEF DoneRun, RunRecords, RunPcs, Purposes

\* Going back to the loop keeps the record well typed and its status.
LEMMA WorkingType ==
  ASSUME NEW rec \in RunRecords
  PROVE  /\ Working(rec) \in RunRecords /\ Working(rec).pc = "work"
         /\ Working(rec).at = rec.at /\ Working(rec).held = rec.held
BY DEF Working, RunRecords, RunPcs, Purposes

\* The ways AfterRelease goes on are all moves of this run.
LEMMA AfterReleaseAdvances ==
  ASSUME RunTypeOK, NEW r \in Runs, AfterRelease(r)
  PROVE  Advance(r)
<1> DEFINE left == run[r].held \ {run[r].key}
<1>1. run[r] \in RunRecords
  BY DEF RunTypeOK
<1>2. left \subseteq Tickets
  BY <1>1 DEF RunRecords
<1>3. CASE Become(r, [Working(run[r]) EXCEPT !.held = left])
  <2>1. Working(run[r]) \in RunRecords /\ Working(run[r]).pc = "work" /\ Working(run[r]).at = run[r].at
    BY <1>1, WorkingType
  <2>2. [Working(run[r]) EXCEPT !.held = left] \in RunRecords
    BY <2>1, <1>2 DEF RunRecords
  <2> QED BY <1>3, <2>1, <2>2, BecomeAdvances DEF RunRecords
<1>4. CASE Become(r, DoneRun)
  BY <1>4, DoneRunType, BecomeAdvances
<1>5. CASE \E k \in left :
             Become(r, [run[r] EXCEPT !.held = left, !.key = k, !.cnt = 0,
                          !.pc = IF run[r].op = "crash" THEN "bump" ELSE "release"])
  <2>1. PICK k \in left :
             Become(r, [run[r] EXCEPT !.held = left, !.key = k, !.cnt = 0,
                          !.pc = IF run[r].op = "crash" THEN "bump" ELSE "release"])
    BY <1>5
  <2> DEFINE rec == [run[r] EXCEPT !.held = left, !.key = k, !.cnt = 0,
                          !.pc = IF run[r].op = "crash" THEN "bump" ELSE "release"]
  <2>2. rec \in RunRecords /\ rec.at = run[r].at /\ rec.key \in Tickets
    BY <1>1, <1>2 DEF RunRecords, RunPcs
  <2> QED BY <2>1, <2>2, BecomeAdvances
<1> QED BY <1>3, <1>4, <1>5 DEF AfterRelease

\* A transition along an edge of the workflow keeps the board well typed.
LEMMA TransitionTypes ==
  ASSUME BoardTypeOK, NEW k \in Tickets, NEW s, Transition(k, s)
  PROVE  BoardTypeOK'
<1>1. s \in Statuses
  BY Static DEF Transition, BoardTypeOK
<1> QED BY <1>1 DEF Transition, BoardTypeOK

\* A request that was sent keeps it well typed too, whether or not it arrives.
LEMMA InFlightTypes ==
  ASSUME RunTypeOK, BoardTypeOK, RunKeys, NEW r \in Runs, InFlight(r)
  PROVE  BoardTypeOK'
<1>1. Bumped(run[r].cnt) \in Nat /\ FreshLease(RoleOf(r)) \in Leases /\ NoLease \in Leases
  BY BumpedType, LeaseTypes, OwnTickets DEF RunTypeOK, RunRecords
<1>2. CASE At(r, "move") /\ Transition(run[r].key, run[r].to)
  <2>1. run[r].key \in Tickets
    BY <1>2 DEF At, RunKeys
  <2> QED BY <1>2, <2>1, TransitionTypes
<1>3. \/ UNCHANGED boardVars
      \/ WriteLease(run[r].key, FreshLease(RoleOf(r)))
      \/ At(r, "move") /\ Transition(run[r].key, run[r].to)
      \/ WriteWaiting(run[r].key, FALSE)
      \/ WriteRetries(run[r].key, 0)
      \/ WriteRetries(run[r].key, Bumped(run[r].cnt))
      \/ WriteLease(run[r].key, NoLease)
  BY DEF InFlight
<1> QED BY <1>1, <1>2, <1>3, WriterTypes, SameBoardTypes

\* The claim: refused, written, or failed half-way.
LEMMA ClaimAdvances ==
  ASSUME RunTypeOK, BoardTypeOK, RunKeys, NEW r \in Runs,
         ClaimRead(r) \/ ClaimWrite(r) \/ ClaimFails(r) \/ BeginClaim(r)
  PROVE  Advance(r) /\ BoardTypeOK' /\ Live(r)
<1>1. run[r] \in RunRecords
  BY DEF RunTypeOK
<1>2. Working(run[r]) \in RunRecords /\ Working(run[r]).pc = "work" /\ Working(run[r]).at = run[r].at
      /\ Working(run[r]).held = run[r].held
  BY <1>1, WorkingType
<1>3. CASE ClaimRead(r)
  <2>1. run[r].key \in Tickets
    BY <1>3 DEF ClaimRead, RunKeys
  <2> DEFINE rec == IF ~ClaimRefused(r) THEN [run[r] EXCEPT !.pc = "writing"]
               ELSE IF IsQueueRun(r) THEN Working(run[r])
               ELSE DoneRun
  <2>2. /\ rec \in RunRecords
        /\ rec.pc = "done" \/ rec.at = run[r].at
        /\ rec.pc \notin {"work", "done"} => rec.key \in Tickets
    BY <1>1, <1>2, <2>1, DoneRunType DEF RunRecords, RunPcs
  <2>3. Become(r, rec)
    BY <1>3 DEF ClaimRead
  <2> HIDE DEF rec
  <2> QED BY <1>3, <2>2, <2>3, BecomeAdvances, SameBoardTypes DEF ClaimRead, Live
<1>4. CASE ClaimWrite(r)
  <2>1. run[r].key \in Tickets
    BY <1>4 DEF ClaimWrite, RunKeys, At
  <2> DEFINE rec == [Working(run[r]) EXCEPT !.held = @ \cup {run[r].key}]
  <2>2. rec \in RunRecords /\ rec.pc = "work" /\ rec.at = run[r].at
    BY <1>2, <2>1 DEF RunRecords
  <2>3. Become(r, rec) /\ Live(r)
    BY <1>4 DEF ClaimWrite, Live, At
  <2>4. BoardTypeOK'
    BY <1>4, OwnTickets, LeaseTypes, WriterTypes DEF ClaimWrite
  <2> HIDE DEF rec
  <2> QED BY <2>2, <2>3, <2>4, BecomeAdvances
<1>5. CASE ClaimFails(r)
  <2>1. Advance(r) /\ Live(r)
    BY <1>2, <1>5, DoneRunType, BecomeAdvances DEF ClaimFails, Live
  <2>2. BoardTypeOK'
    BY <1>5, InFlightTypes DEF ClaimFails
  <2> QED BY <2>1, <2>2
<1>6. CASE BeginClaim(r)
  <2>1. PICK k \in run[r].list \ run[r].held :
          Become(r, [run[r] EXCEPT !.pc = "claiming", !.key = k])
    BY <1>6 DEF BeginClaim
  <2> DEFINE rec == [run[r] EXCEPT !.pc = "claiming", !.key = k]
  <2>2. rec \in RunRecords /\ rec.at = run[r].at /\ rec.key \in Tickets
    BY <1>1 DEF RunRecords, RunPcs
  <2> HIDE DEF rec
  <2> QED BY <1>6, <2>1, <2>2, BecomeAdvances, SameBoardTypes DEF BeginClaim, Live, At, rec
<1> QED BY <1>3, <1>4, <1>5, <1>6

\* A step that picks a ticket the run holds and starts a call about it.
LEMMA StartCall ==
  ASSUME RunTypeOK, NEW r \in Runs, NEW k \in run[r].held,
         NEW p \in RunPcs, NEW o \in Purposes, NEW s \in Statuses \cup {NoStatus},
         Become(r, [run[r] EXCEPT !.pc = p, !.op = o, !.key = k, !.to = s])
  PROVE  Advance(r)
<1> DEFINE rec == [run[r] EXCEPT !.pc = p, !.op = o, !.key = k, !.to = s]
<1>1. run[r] \in RunRecords
  BY DEF RunTypeOK
<1>2. rec \in RunRecords /\ rec.at = run[r].at /\ rec.key \in Tickets
  BY <1>1 DEF RunRecords
<1> HIDE DEF rec
<1> QED BY <1>2, BecomeAdvances DEF rec

\* The same when the target status stays what it was.
LEMMA StartCallSameTarget ==
  ASSUME RunTypeOK, NEW r \in Runs, NEW k \in run[r].held,
         NEW p \in RunPcs, NEW o \in Purposes,
         Become(r, [run[r] EXCEPT !.pc = p, !.op = o, !.key = k])
  PROVE  Advance(r)
<1> DEFINE rec == [run[r] EXCEPT !.pc = p, !.op = o, !.key = k]
<1>1. run[r] \in RunRecords
  BY DEF RunTypeOK
<1>2. rec \in RunRecords /\ rec.at = run[r].at /\ rec.key \in Tickets
  BY <1>1 DEF RunRecords
<1> HIDE DEF rec
<1> QED BY <1>2, BecomeAdvances DEF rec

\* The next await of the call the run is in.
LEMMA GotoAdvances ==
  ASSUME RunTypeOK, RunKeys, NEW r \in Runs, run[r].pc \notin {"work", "done"},
         NEW p \in RunPcs, Goto(r, p)
  PROVE  Advance(r)
<1> DEFINE rec == [run[r] EXCEPT !.pc = p]
<1>1. run[r] \in RunRecords /\ run[r].key \in Tickets
  BY DEF RunTypeOK, RunKeys
<1>2. rec \in RunRecords /\ rec.at = run[r].at /\ rec.key \in Tickets
  BY <1>1 DEF RunRecords
<1> HIDE DEF rec
<1> QED BY <1>2, BecomeAdvances DEF rec, Goto

\* The transition, the escalation, release_ticket and finish_run.
LEMMA ToolAdvances ==
  ASSUME RunTypeOK, BoardTypeOK, RunKeys, NEW r \in Runs,
         \/ BeginHandoff(r) \/ Move(r) \/ ClearWaiting(r) \/ ClearRetries(r)
         \/ BeginEscalate(r) \/ BeginRelease(r) \/ BeginFinish(r) \/ IncrementRework(r)
  PROVE  Advance(r) /\ BoardTypeOK' /\ Live(r)
<1>1. run[r] \in RunRecords
  BY DEF RunTypeOK
<1>2. Working(run[r]) \in RunRecords /\ Working(run[r]).pc = "work" /\ Working(run[r]).at = run[r].at
  BY <1>1, WorkingType
<1>3. {"move", "clear", "reset", "release"} \subseteq RunPcs /\ {"step", "finish", "crash"} \subseteq Purposes
  BY DEF RunPcs, Purposes
<1>4. CASE BeginHandoff(r)
  <2>1. PICK k \in run[r].held : \E s \in Workflow[status[k]] :
          Become(r, [run[r] EXCEPT !.pc = "move", !.op = "step", !.key = k, !.to = s])
    BY <1>4 DEF BeginHandoff
  <2>2. k \in Tickets /\ Workflow[status[k]] \subseteq Statuses
    BY <1>1, <2>1, Static DEF RunRecords, BoardTypeOK
  <2> QED BY <1>3, <1>4, <2>1, <2>2, StartCall, SameBoardTypes DEF BeginHandoff, Live, At
<1>5. CASE Move(r)
  <2>1. run[r].key \in Tickets /\ Live(r) /\ run[r].pc \notin {"work", "done"}
    BY <1>5 DEF Move, At, RunKeys, Live
  <2>2. CASE Transition(run[r].key, run[r].to) /\ Goto(r, "clear")
    BY <1>3, <2>1, <2>2, TransitionTypes, GotoAdvances
  <2>3. CASE UNCHANGED boardVars /\ Become(r, Working(run[r]))
    BY <1>2, <2>1, <2>3, BecomeAdvances, SameBoardTypes
  <2> QED BY <1>5, <2>2, <2>3 DEF Move
<1>6. CASE ClearWaiting(r)
  BY <1>3, <1>6, GotoAdvances, WriterTypes DEF ClearWaiting, At, Live
<1>7. CASE ClearRetries(r)
  BY <1>3, <1>7, GotoAdvances, WriterTypes DEF ClearRetries, At, Live
<1>8. CASE BeginEscalate(r)
  <2>1. PICK k \in run[r].held :
          /\ AddLabels(k, {"needs-human"})
          /\ Become(r, [run[r] EXCEPT !.pc = "release", !.op = "step", !.key = k])
    BY <1>8 DEF BeginEscalate
  <2>2. {"needs-human"} \in SUBSET Labels
    BY DEF Labels
  <2> QED BY <1>3, <1>8, <2>1, <2>2, StartCallSameTarget, WriterTypes DEF BeginEscalate, At, Live
<1>9. CASE BeginRelease(r)
  BY <1>3, <1>9, StartCallSameTarget, SameBoardTypes DEF BeginRelease, At, Live
<1>10. CASE BeginFinish(r)
  <2>1. BoardTypeOK'
    BY <1>10, WriterTypes, SameBoardTypes DEF BeginFinish
  <2>2. Advance(r)
    BY <1>3, <1>10, DoneRunType, BecomeAdvances, StartCallSameTarget DEF BeginFinish
  <2> QED BY <1>10, <2>1, <2>2 DEF BeginFinish, At, Live
<1>11. CASE IncrementRework(r)
  <2>1. OwnTicket(r) \in Tickets
    BY <1>11, OwnTickets DEF IncrementRework
  <2>2. BoardTypeOK'
    BY <1>11, <2>1 DEF IncrementRework, BoardTypeOK
  <2> QED BY <1>11, <2>2, StayAdvances DEF IncrementRework, At, Live
<1> QED BY <1>4, <1>5, <1>6, <1>7, <1>8, <1>9, <1>10, <1>11

\* The crash cleanup, releases, failing calls and heartbeats.
LEMMA CleanupAdvances ==
  ASSUME RunTypeOK, BoardTypeOK, RunKeys, NEW r \in Runs,
         \/ BeginCrash(r) \/ BumpRead(r) \/ BumpWrite(r) \/ Release(r) \/ CallFails(r)
         \/ Heartbeat(r) \/ BeatRead(r)
  PROVE  Advance(r) /\ BoardTypeOK' /\ Live(r)
<1>1. run[r] \in RunRecords
  BY DEF RunTypeOK
<1>2. Working(run[r]) \in RunRecords /\ Working(run[r]).pc = "work" /\ Working(run[r]).at = run[r].at
  BY <1>1, WorkingType
<1>3. {"bump", "bumped", "release"} \subseteq RunPcs /\ "crash" \in Purposes
  BY DEF RunPcs, Purposes
<1>4. CASE BeginCrash(r)
  <2>1. Advance(r)
    BY <1>3, <1>4, DoneRunType, BecomeAdvances, StartCallSameTarget DEF BeginCrash
  <2> QED BY <1>4, <2>1, SameBoardTypes DEF BeginCrash, At, Live
<1>5. CASE BumpRead(r)
  <2>1. run[r].key \in Tickets
    BY <1>5 DEF BumpRead, At, RunKeys
  <2> DEFINE rec == [run[r] EXCEPT !.pc = "bumped", !.cnt = retries[run[r].key]]
  <2>2. rec \in RunRecords /\ rec.at = run[r].at /\ rec.key \in Tickets
    BY <1>1, <2>1, <1>3 DEF RunRecords, BoardTypeOK
  <2> HIDE DEF rec
  <2> QED BY <1>5, <2>2, BecomeAdvances, SameBoardTypes DEF BumpRead, At, Live, rec
<1>6. CASE BumpWrite(r)
  <2>1. run[r].key \in Tickets /\ Bumped(run[r].cnt) \in Nat
    BY <1>1, <1>6, BumpedType DEF BumpWrite, At, RunKeys, RunRecords
  <2> DEFINE rec == [run[r] EXCEPT !.pc = "release", !.cnt = 0]
  <2>2. rec \in RunRecords /\ rec.at = run[r].at /\ rec.key \in Tickets
    BY <1>1, <2>1, <1>3 DEF RunRecords
  <2> HIDE DEF rec
  <2> QED BY <1>6, <2>1, <2>2, BecomeAdvances, WriterTypes DEF BumpWrite, At, Live, rec
<1>7. CASE Release(r)
  BY <1>7, AfterReleaseAdvances, LeaseTypes, WriterTypes DEF Release, At, Live
<1>8. CASE CallFails(r)
  <2>1. Advance(r)
    BY <1>2, <1>8, AfterReleaseAdvances, BecomeAdvances DEF CallFails
  <2>2. BoardTypeOK'
    BY <1>8, InFlightTypes DEF CallFails
  <2> QED BY <1>8, <2>1, <2>2 DEF CallFails, Live
<1>9. CASE Heartbeat(r)
  <2>1. PICK t \in run[r].held :
       \/ WriteLease(t, FreshLease(RoleOf(r))) /\ UNCHANGED run
       \/ Become(r, [run[r] EXCEPT !.held = @ \ {t}]) /\ UNCHANGED boardVars
    BY <1>9 DEF Heartbeat
  <2> DEFINE rec == [run[r] EXCEPT !.held = @ \ {t}]
  <2>2. rec \in RunRecords /\ rec.at = run[r].at /\ rec.key = run[r].key /\ rec.pc = run[r].pc
    BY <1>1 DEF RunRecords
  <2>3. run[r].pc \notin {"work", "done"} => run[r].key \in Tickets
    BY DEF RunKeys
  <2> HIDE DEF rec
  <2>4. Advance(r)
    BY <2>1, <2>2, <2>3, BecomeAdvances, StayAdvances DEF rec
  <2>5. BoardTypeOK'
    BY <2>1, OwnTickets, LeaseTypes, WriterTypes, SameBoardTypes
  <2> QED BY <1>9, <2>4, <2>5 DEF Heartbeat, Live
<1>10. CASE BeatRead(r)
  <2>1. PICK t \in run[r].held : beats' = beats \cup {<<RoleOf(r), t>>}
    BY <1>10 DEF BeatRead
  <2>2. RoleOf(r) \in Roles /\ t \in Tickets
    BY <1>1, OwnTickets DEF RunRecords
  <2>3. BoardTypeOK'
    BY <1>10, <2>1, <2>2 DEF BeatRead, BoardTypeOK
  <2>4. Advance(r)
    BY <1>10, StayAdvances DEF BeatRead
  <2> QED BY <1>10, <2>3, <2>4 DEF BeatRead
<1> QED BY <1>4, <1>5, <1>6, <1>7, <1>8, <1>9, <1>10

\* A run that is cancelled goes to its cleanup or is over.
LEMMA CancelAdvances ==
  ASSUME RunTypeOK, BoardTypeOK, RunKeys, NEW r \in Runs, Cancel(r)
  PROVE  Advance(r) /\ BoardTypeOK' /\ Live(r)
<1>1. run[r] \in RunRecords
  BY DEF RunTypeOK
<1>2. Working(run[r]) \in RunRecords /\ Working(run[r]).at = run[r].at
  BY <1>1, WorkingType
<1>3. BoardTypeOK' /\ Live(r)
  BY InFlightTypes DEF Cancel
<1>4. ASSUME NEW k \in run[r].held,
             Become(r, [Working(run[r]) EXCEPT !.pc = "release", !.op = "cancel", !.key = k])
      PROVE  Advance(r)
  <2> DEFINE rec == [Working(run[r]) EXCEPT !.pc = "release", !.op = "cancel", !.key = k]
  <2>1. k \in Tickets
    BY <1>1 DEF RunRecords
  <2>2. rec \in RunRecords /\ rec.at = run[r].at /\ rec.key \in Tickets
    BY <1>2, <2>1 DEF RunRecords, RunPcs, Purposes
  <2>3. Become(r, rec)
    BY <1>4
  <2> HIDE DEF rec
  <2> QED BY <2>2, <2>3, BecomeAdvances
<1>5. Become(r, DoneRun) => Advance(r)
  BY DoneRunType, BecomeAdvances
<1> QED BY <1>3, <1>4, <1>5 DEF Cancel

\* Any step of a run.
LEMMA RunStepAdvances ==
  ASSUME TypeOK, RunKeys, NEW r \in Runs, RunStep(r)
  PROVE  Advance(r) /\ BoardTypeOK' /\ Live(r)
BY ClaimAdvances, ToolAdvances, CleanupAdvances DEF RunStep, Proceed, Choose, TypeOK

\* A run that advances leaves every other run alone.
LEMMA AdvanceFrame ==
  ASSUME RunTypeOK, RunKeys, NEW r \in Runs, Advance(r)
  PROVE  /\ RunTypeOK' /\ RunKeys'
         /\ \A q \in Runs : q # r => run'[q] = run[q]
BY DEF RunTypeOK, RunKeys, Advance

(***************************************************************************)
(* Steps of an evaluator.                                                  *)
(***************************************************************************)
\* What holds of an evaluator's record once it is past its checks.
ReservedBy(e, rec, holder, table) ==
  /\ rec.pc \in InLock => holder = e
  /\ rec.pc \in TicketPcs =>
       rec.slot \in TicketSlots /\ table[rec.slot] = NotRunning /\ rec.st \in Statuses
  /\ rec.pc = "capacity" => rec.slot \in QueueSlots /\ table[rec.slot] = NotRunning

\* Every step of an evaluator moves that evaluator only; it takes, keeps or
\* gives back the lock, and never moves it between others.
Evaluate(e) ==
  /\ ev' = [ev EXCEPT ![e] = ev'[e]]
  /\ ev'[e] \in EvalRecords
  /\ ReservedBy(e, ev'[e], lock', running')
  /\ lock' = lock \/ (lock \in {e, Nobody} /\ lock' \in {e, Nobody})

\* A step of an evaluator that moves only its own record keeps the reservations.
LEMMA StepEvaluates ==
  ASSUME ev \in [Evaluators -> EvalRecords], NEW e \in Evaluators, NEW rec \in EvalRecords,
         Step(e, rec), ReservedBy(e, rec, lock', running'),
         lock' = lock \/ (lock \in {e, Nobody} /\ lock' \in {e, Nobody})
  PROVE  Evaluate(e)
<1>1. ev' = [ev EXCEPT ![e] = rec]
  BY DEF Step
<1>2. ev'[e] = rec
  BY <1>1
<1> QED BY <1>1, <1>2 DEF Evaluate

\* An idle evaluator is well typed.
LEMMA IdleType == Idle \in EvalRecords /\ Idle.pc = "idle"
BY DEF Idle, EvalRecords, EvalPcs, Issues, Absent, NoSlot

\* A board search returns an issue, or none, for every ticket.
LEMMA SearchType == BoardTypeOK => SearchResult \in [Tickets -> Issues]
BY DEF BoardTypeOK, SearchResult, Issue, Absent, Issues

\* The next ticket: nothing is reserved but the lock.
LEMMA NextTicketEvaluates ==
  ASSUME ev \in [Evaluators -> EvalRecords], NEW e \in Evaluators, NextTicket(e),
         lock = e, UNCHANGED lock
  PROVE  Evaluate(e)
<1> DEFINE rec == [ev[e] EXCEPT !.pc = "pick", !.slot = NoSlot, !.st = NoStatus, !.cnt = 0,
                     !.todo = @ \ {ev[e].slot[2]}]
<1>1. ev[e] \in EvalRecords
  OBVIOUS
<1>2. rec \in EvalRecords /\ rec.pc = "pick"
  BY <1>1 DEF EvalRecords, EvalPcs, NoSlot
<1>3. ReservedBy(e, rec, lock', running')
  BY <1>2 DEF ReservedBy, TicketPcs
<1> HIDE DEF rec
<1> QED BY <1>2, <1>3, StepEvaluates DEF NextTicket, rec

\* The next await on the same ticket: the slot is still reserved.
LEMMA StayReserved ==
  ASSUME ev \in [Evaluators -> EvalRecords], Reserved, NEW e \in Evaluators,
         ev[e].pc \in TicketPcs, NEW p \in TicketPcs, NEW n \in Nat,
         Step(e, [ev[e] EXCEPT !.pc = p, !.cnt = n]), UNCHANGED <<lock, running>>
  PROVE  Evaluate(e)
<1> DEFINE rec == [ev[e] EXCEPT !.pc = p, !.cnt = n]
<1>1. ev[e] \in EvalRecords
  OBVIOUS
<1>2. rec \in EvalRecords /\ rec.pc = p /\ rec.slot = ev[e].slot /\ rec.st = ev[e].st
  BY <1>1 DEF EvalRecords, EvalPcs, TicketPcs
<1>3. ReservedBy(e, rec, lock', running')
  BY <1>2 DEF Reserved, ReservedBy, Registered, TicketPcs, InLock
<1> HIDE DEF rec
<1> QED BY <1>2, <1>3, StepEvaluates DEF rec

\* The same when the count it has read stays too.
LEMMA StayReservedSameCount ==
  ASSUME ev \in [Evaluators -> EvalRecords], Reserved, NEW e \in Evaluators,
         ev[e].pc \in TicketPcs, NEW p \in TicketPcs,
         Step(e, [ev[e] EXCEPT !.pc = p]), UNCHANGED <<lock, running>>
  PROVE  Evaluate(e)
<1>1. ev[e] \in EvalRecords
  OBVIOUS
<1>2. ev[e].cnt \in Nat /\ [ev[e] EXCEPT !.pc = p] = [ev[e] EXCEPT !.pc = p, !.cnt = ev[e].cnt]
  BY <1>1 DEF EvalRecords
<1> QED BY <1>2, StayReserved

\* The table forgets finished tasks and nothing else.
LEMMA SweptTable ==
  ASSUME TypeOK
  PROVE  /\ Swept \in [Slots -> [inst : Instances \cup {0}, status : Statuses \cup {NoStatus}]]
         /\ \A x \in Slots : Swept[x] = running[x] \/ (Swept[x] = NotRunning /\ Finished(x))
         /\ \A x \in Slots : running[x] = NotRunning => Swept[x] = NotRunning
BY DEF TypeOK, Swept, NotRunning, Finished, Registered

\* Passes begin and end.
LEMMA PassEvaluates ==
  ASSUME TypeOK, Reserved, NEW e \in Evaluators,
         \/ SweepBegin(e) \/ SweepSearch(e) \/ FlushBegin(e) \/ TakeLock(e)
         \/ LeaveQueues(e) \/ PassFails(e) \/ EnterQueues(e)
  PROVE  /\ Evaluate(e) /\ BoardTypeOK' /\ UNCHANGED <<run, paused, stop, restarts>>
         /\ running' = running \/ running' = Swept
<1>1. ev \in [Evaluators -> EvalRecords] /\ ev[e] \in EvalRecords /\ BoardTypeOK
  BY DEF TypeOK
<1>2. SearchResult \in [Tickets -> Issues]
  BY <1>1, SearchType
<1>3. CASE SweepBegin(e)
  <2> DEFINE rec == [Idle EXCEPT !.pc = "search"]
  <2>1. rec \in EvalRecords /\ rec.pc = "search"
    BY IdleType DEF EvalRecords, EvalPcs
  <2>2. ReservedBy(e, rec, lock', running')
    BY <2>1 DEF ReservedBy, InLock, TicketPcs
  <2> HIDE DEF rec
  <2> QED BY <1>1, <1>3, <2>1, <2>2, StepEvaluates, SameBoardTypes DEF SweepBegin, rec
<1>4. CASE SweepSearch(e)
  <2> DEFINE rec == [Idle EXCEPT !.pc = "locking", !.snap = SearchResult,
                       !.todo = {t \in Tickets : status[t] \in AgentStatuses}]
  <2>1. rec \in EvalRecords /\ rec.pc = "locking"
    BY <1>2, IdleType DEF EvalRecords, EvalPcs
  <2>2. ReservedBy(e, rec, lock', running')
    BY <2>1 DEF ReservedBy, InLock, TicketPcs
  <2> HIDE DEF rec
  <2> QED BY <1>1, <1>4, <2>1, <2>2, StepEvaluates, SameBoardTypes DEF SweepSearch, rec
<1>5. CASE FlushBegin(e)
  <2>1. PICK keys \in (SUBSET Tickets) \ {{}} :
          Step(e, [Idle EXCEPT !.pc = "locking", !.todo = keys])
    BY <1>5 DEF FlushBegin
  <2> DEFINE rec == [Idle EXCEPT !.pc = "locking", !.todo = keys]
  <2>2. rec \in EvalRecords /\ rec.pc = "locking"
    BY IdleType DEF EvalRecords, EvalPcs
  <2>3. ReservedBy(e, rec, lock', running')
    BY <2>2 DEF ReservedBy, InLock, TicketPcs
  <2> HIDE DEF rec
  <2> QED BY <1>1, <1>5, <2>1, <2>2, <2>3, StepEvaluates, SameBoardTypes DEF FlushBegin, rec
<1>6. CASE TakeLock(e)
  <2> DEFINE rec == [ev[e] EXCEPT !.pc = "pick"]
  <2>1. rec \in EvalRecords /\ rec.pc = "pick"
    BY <1>1 DEF EvalRecords, EvalPcs
  <2>2. ReservedBy(e, rec, lock', running')
    BY <1>6, <2>1 DEF ReservedBy, InLock, TicketPcs, TakeLock
  <2> HIDE DEF rec
  <2> QED BY <1>1, <1>6, <2>1, <2>2, StepEvaluates, SameBoardTypes DEF TakeLock, LockFree, rec
<1>7. ASSUME Step(e, Idle), lock' = lock \/ (lock = e /\ lock' = Nobody)
      PROVE  Evaluate(e)
  <2>1. ReservedBy(e, Idle, lock', running')
    BY IdleType DEF ReservedBy, InLock, TicketPcs
  <2> QED BY <1>1, <1>7, <2>1, IdleType, StepEvaluates
<1>8. CASE LeaveQueues(e)
  <2>1. lock = e
    BY <1>8 DEF LeaveQueues, InPc, Reserved, InLock
  <2> QED BY <1>1, <1>7, <1>8, <2>1, SameBoardTypes DEF LeaveQueues, EndPass
<1>9. CASE PassFails(e)
  <2>1. ev[e].pc \in {"pick", "capacity"} => lock = e
    BY DEF Reserved, InLock
  <2> QED BY <1>1, <1>7, <1>9, <2>1, SameBoardTypes DEF PassFails, EndPass, InPc
<1>10. CASE EnterQueues(e)
  <2>1. lock = e
    BY <1>10 DEF EnterQueues, InPc, Reserved, InLock
  <2> DEFINE rec == [ev[e] EXCEPT !.pc = "queues", !.qtodo = QueueRoles,
                        !.snap = IF e \in Flushes THEN SearchResult ELSE @]
  <2>2. rec \in EvalRecords /\ rec.pc = "queues"
    BY <1>1, <1>2 DEF EvalRecords, EvalPcs
  <2>3. ReservedBy(e, rec, lock, running')
    BY <2>1, <2>2 DEF ReservedBy, TicketPcs
  <2>4. CASE Suspended
    BY <1>1, <1>7, <1>10, <2>1, <2>4, SameBoardTypes DEF EnterQueues, EndPass
  <2>5. CASE ~Suspended
    <3>1. Step(e, rec) /\ UNCHANGED lock
      BY <1>10, <2>5 DEF EnterQueues
    <3> HIDE DEF rec
    <3> QED BY <1>1, <1>10, <2>2, <2>3, <3>1, StepEvaluates, SameBoardTypes DEF EnterQueues
  <2> QED BY <2>4, <2>5
<1> QED BY <1>3, <1>4, <1>5, <1>6, <1>8, <1>9, <1>10

\* _evaluate_ticket up to, and without, its dispatch.
LEMMA TicketEvaluates ==
  ASSUME TypeOK, Reserved, NEW e \in Evaluators,
         \/ Consider(e) \/ ReadLease(e) \/ Reclaim(e) \/ ReclaimBumpRead(e)
         \/ ReclaimBumpWrite(e) \/ ReadRetries(e) \/ ResetRetries(e)
         \/ EscalateTicket(e) \/ ReadRework(e) \/ EvaluationFails(e)
  PROVE  Evaluate(e) /\ BoardTypeOK' /\ UNCHANGED <<run, running, paused, stop, restarts>>
<1>1. ev \in [Evaluators -> EvalRecords] /\ ev[e] \in EvalRecords /\ BoardTypeOK
  BY DEF TypeOK
<1>2. ev[e].pc \in TicketPcs => lock = e /\ TicketOf(e) \in Tickets
  BY Static DEF Reserved, InLock, TicketOf
<1>3. CASE Consider(e)
  <2>1. PICK t \in ev[e].todo :
       LET issue == IssueFor(e, t)
           roles == {r \in TicketRolesFor(issue.status) : Eligible(r, t, issue)}
       IN \/ \E role \in roles :
               Step(e, [ev[e] EXCEPT !.pc = "lease", !.slot = <<role, t>>, !.st = issue.status])
          \/ Step(e, [ev[e] EXCEPT !.todo = @ \ {t}])
    BY <1>3 DEF Consider
  <2>2. lock = e /\ ev[e].pc = "pick" /\ t \in Tickets
    BY <1>1, <1>3 DEF Consider, InPc, Reserved, InLock, EvalRecords
  <2>3. CASE Step(e, [ev[e] EXCEPT !.todo = @ \ {t}])
    <3> DEFINE rec == [ev[e] EXCEPT !.todo = @ \ {t}]
    <3>1. rec \in EvalRecords /\ rec.pc = "pick"
      BY <1>1, <2>2 DEF EvalRecords
    <3>2. ReservedBy(e, rec, lock, running')
      BY <2>2, <3>1 DEF ReservedBy, TicketPcs
    <3> HIDE DEF rec
    <3> QED BY <1>1, <1>3, <2>3, <3>1, <3>2, StepEvaluates, SameBoardTypes DEF Consider, rec
  <2>4. CASE \E role \in TicketRolesFor(IssueFor(e, t).status) :
               /\ Eligible(role, t, IssueFor(e, t))
               /\ Step(e, [ev[e] EXCEPT !.pc = "lease", !.slot = <<role, t>>,
                                        !.st = IssueFor(e, t).status])
    <3>1. PICK role \in TicketRolesFor(IssueFor(e, t).status) :
               /\ Eligible(role, t, IssueFor(e, t))
               /\ Step(e, [ev[e] EXCEPT !.pc = "lease", !.slot = <<role, t>>,
                                        !.st = IssueFor(e, t).status])
      BY <2>4
    <3> DEFINE rec == [ev[e] EXCEPT !.pc = "lease", !.slot = <<role, t>>,
                                    !.st = IssueFor(e, t).status]
    <3>2. role \in TicketRoles /\ IssueFor(e, t).status \in Statuses
      BY Static DEF TicketRolesFor, Roles
    <3>3. <<role, t>> \in TicketSlots /\ <<role, t>> \in Slots
      BY <2>2, <3>2 DEF TicketSlots, Slots
    <3>4. /\ rec \in EvalRecords /\ rec.pc = "lease" /\ rec.slot = <<role, t>>
          /\ rec.st \in Statuses
      BY <1>1, <3>2, <3>3 DEF EvalRecords, EvalPcs
    <3>5. ReservedBy(e, rec, lock, running)
      BY <2>2, <3>1, <3>3, <3>4 DEF ReservedBy, Eligible, Registered
    <3> HIDE DEF rec
    <3> QED BY <1>1, <1>3, <3>1, <3>4, <3>5, StepEvaluates, SameBoardTypes DEF Consider, rec
  <2> QED BY <2>1, <2>3, <2>4
<1>4. CASE ReadLease(e)
  <2>1. ev[e].pc \in TicketPcs /\ {"retries", "reclaim"} \subseteq TicketPcs
    BY <1>4 DEF ReadLease, InPc, TicketPcs
  <2> QED BY <1>1, <1>2, <1>4, <2>1, StayReservedSameCount, NextTicketEvaluates, SameBoardTypes
          DEF ReadLease, Evaluating
<1>5. CASE Reclaim(e)
  <2>1. ev[e].pc \in TicketPcs /\ "bump" \in TicketPcs
    BY <1>5 DEF Reclaim, InPc, TicketPcs
  <2> QED BY <1>1, <1>5, <2>1, StayReservedSameCount, LeaseTypes, WriterTypes DEF Reclaim, Evaluating
<1>6. CASE ReclaimBumpRead(e)
  <2>1. ev[e].pc \in TicketPcs /\ "bumped" \in TicketPcs
    BY <1>6 DEF ReclaimBumpRead, InPc, TicketPcs
  <2>2. retries[TicketOf(e)] \in Nat
    BY <1>1, <1>2, <2>1 DEF BoardTypeOK
  <2> QED BY <1>1, <1>6, <2>1, <2>2, StayReserved, SameBoardTypes DEF ReclaimBumpRead, Evaluating
<1>7. CASE ReclaimBumpWrite(e)
  <2>1. ev[e].pc \in TicketPcs /\ "retries" \in TicketPcs /\ 0 \in Nat
    BY <1>7 DEF ReclaimBumpWrite, InPc, TicketPcs
  <2>2. Bumped(ev[e].cnt) \in Nat
    BY <1>1, BumpedType DEF EvalRecords
  <2> QED BY <1>1, <1>7, <2>1, <2>2, StayReserved, WriterTypes DEF ReclaimBumpWrite, Evaluating
<1>8. CASE ReadRetries(e)
  <2> DEFINE p == IF OutOfRetries(retries[TicketOf(e)]) THEN "reset"
                  ELSE IF ev[e].slot[1] = Router THEN "rework" ELSE "waiting"
  <2>1. ev[e].pc \in TicketPcs /\ p \in TicketPcs
    BY <1>8 DEF ReadRetries, InPc, TicketPcs
  <2>2. Step(e, [ev[e] EXCEPT !.pc = p])
    BY <1>8 DEF ReadRetries
  <2> HIDE DEF p
  <2> QED BY <1>1, <1>8, <2>1, <2>2, StayReservedSameCount, SameBoardTypes DEF ReadRetries, Evaluating
<1>9. CASE ResetRetries(e)
  <2>1. ev[e].pc \in TicketPcs /\ "escalate" \in TicketPcs
    BY <1>9 DEF ResetRetries, InPc, TicketPcs
  <2> QED BY <1>1, <1>9, <2>1, StayReservedSameCount, WriterTypes DEF ResetRetries, Evaluating
<1>10. CASE EscalateTicket(e)
  <2>1. ev[e].pc \in TicketPcs /\ {"needs-human"} \in SUBSET Labels
    BY <1>10 DEF EscalateTicket, InPc, TicketPcs, Labels
  <2> QED BY <1>1, <1>2, <1>10, <2>1, NextTicketEvaluates, WriterTypes DEF EscalateTicket, Evaluating
<1>11. CASE ReadRework(e)
  <2> DEFINE p == IF OverReworkLimit(TicketOf(e)) THEN "escalate" ELSE "waiting"
  <2>1. ev[e].pc \in TicketPcs /\ p \in TicketPcs
    BY <1>11 DEF ReadRework, InPc, TicketPcs
  <2>2. Step(e, [ev[e] EXCEPT !.pc = p])
    BY <1>11 DEF ReadRework
  <2> HIDE DEF p
  <2> QED BY <1>1, <1>11, <2>1, <2>2, StayReservedSameCount, SameBoardTypes DEF ReadRework, Evaluating
<1>12. CASE EvaluationFails(e)
  BY <1>1, <1>2, <1>12, NextTicketEvaluates, SameBoardTypes DEF EvaluationFails, Evaluating
<1> QED BY <1>3, <1>4, <1>5, <1>6, <1>7, <1>8, <1>9, <1>10, <1>11, <1>12

\* A spawn: the slot was free under the lock and, for a ticket role, the
\* status below its limit.
Admits(e, x, i, s, ts) ==
  /\ lock = e
  /\ ~Registered(x)
  /\ x \in TicketSlots => ~WipFull(s)
  /\ run' = [run EXCEPT ![<<x, i>>] = NewRun(x, s, ts)]
  /\ running' = [running EXCEPT ![x] = [inst |-> i, status |-> s]]

SomeAdmitted(e) ==
  \E x \in Slots : \E i \in Instances : \E s \in Statuses : \E ts \in SUBSET Tickets :
    Admits(e, x, i, s, ts)

\* A queue role is done with, whether or not it was started.
LEMMA QueueDoneEvaluates ==
  ASSUME ev \in [Evaluators -> EvalRecords], NEW e \in Evaluators, NEW q, QueueDone(e, q),
         lock = e, UNCHANGED lock
  PROVE  Evaluate(e)
<1> DEFINE rec == [ev[e] EXCEPT !.pc = "queues", !.slot = NoSlot, !.qtodo = @ \ {q}]
<1>1. ev[e] \in EvalRecords
  OBVIOUS
<1>2. rec \in EvalRecords /\ rec.pc = "queues"
  BY <1>1 DEF EvalRecords, EvalPcs, NoSlot
<1>3. ReservedBy(e, rec, lock', running')
  BY <1>2 DEF ReservedBy, TicketPcs
<1> HIDE DEF rec
<1> QED BY <1>2, <1>3, StepEvaluates DEF QueueDone, rec

\* A queue role that is started takes its own free slot.
LEMMA QueueAdmits ==
  ASSUME NEW e \in Evaluators, NEW q \in QueueRoles, SpawnQueue(e, q),
         ~Registered(<<q, NoTicket>>), lock = e
  PROVE  SomeAdmitted(e)
<1> DEFINE x == <<q, NoTicket>>
<1>1. x \in QueueSlots /\ x \in Slots /\ x \notin TicketSlots
  BY Static DEF QueueSlots
<1>2. Anchor[q] \in Statuses /\ Actionable(e, q) \in SUBSET Tickets
  BY Static DEF Actionable
<1>3. PICK i \in Instances : Admits(e, x, i, Anchor[q], Actionable(e, q))
  BY <1>1 DEF SpawnQueue, Spawn, Admits
<1> QED BY <1>1, <1>2, <1>3 DEF SomeAdmitted

\* The steps that may start a run.
LEMMA DispatchEvaluates ==
  ASSUME TypeOK, Reserved, NEW e \in Evaluators,
         ReadWaiting(e) \/ Unpark(e) \/ ConsiderQueue(e) \/ CheckCapacity(e)
  PROVE  /\ Evaluate(e) /\ BoardTypeOK' /\ UNCHANGED <<paused, stop, restarts>>
         /\ UNCHANGED <<run, running>> \/ SomeAdmitted(e)
<1>1. ev \in [Evaluators -> EvalRecords] /\ ev[e] \in EvalRecords /\ BoardTypeOK
  BY DEF TypeOK
<1>2. ASSUME Dispatch(e), ev[e].pc \in TicketPcs
      PROVE  /\ Evaluate(e) /\ UNCHANGED <<paused, stop, restarts>>
             /\ UNCHANGED <<run, running>> \/ SomeAdmitted(e)
  <2>1. /\ lock = e /\ ev[e].slot \in TicketSlots /\ ~Registered(ev[e].slot)
        /\ ev[e].st \in Statuses
    BY <1>2 DEF Reserved, InLock
  <2>2. Evaluate(e) /\ UNCHANGED <<paused, stop, restarts>>
    BY <1>1, <1>2, <2>1, NextTicketEvaluates DEF Dispatch
  <2>3. CASE WipFull(ev[e].st)
    BY <1>2, <2>2, <2>3 DEF Dispatch
  <2>4. CASE ~WipFull(ev[e].st)
    <3>1. PICK i \in Instances : Admits(e, ev[e].slot, i, ev[e].st, {})
      BY <1>2, <2>1, <2>4 DEF Dispatch, Spawn, Admits
    <3> QED BY <2>1, <2>2, <3>1, Static DEF SomeAdmitted
  <2> QED BY <2>3, <2>4
<1>3. CASE ReadWaiting(e)
  <2>1. ev[e].pc \in TicketPcs /\ lock = e /\ "unpark" \in TicketPcs
    BY <1>3 DEF ReadWaiting, InPc, TicketPcs, Reserved, InLock
  <2>2. CASE Dispatch(e)
    BY <1>1, <1>2, <1>3, <2>1, <2>2, SameBoardTypes DEF ReadWaiting
  <2>3. CASE NextTicket(e) /\ Evaluating
    BY <1>1, <1>3, <2>1, <2>3, NextTicketEvaluates, SameBoardTypes DEF ReadWaiting, Evaluating
  <2>4. CASE Step(e, [ev[e] EXCEPT !.pc = "unpark"]) /\ Evaluating
    BY <1>1, <1>3, <2>1, <2>4, StayReservedSameCount, SameBoardTypes DEF ReadWaiting, Evaluating
  <2> QED BY <1>3, <2>2, <2>3, <2>4 DEF ReadWaiting
<1>4. CASE Unpark(e)
  <2>1. ev[e].pc \in TicketPcs
    BY <1>4 DEF Unpark, InPc, TicketPcs
  <2> QED BY <1>1, <1>2, <1>4, <2>1, WriterTypes DEF Unpark
<1>5. CASE ConsiderQueue(e)
  <2>1. lock = e
    BY <1>5 DEF ConsiderQueue, InPc, Reserved, InLock
  <2>2. PICK q \in ev[e].qtodo :
          \/ QueueDone(e, q) /\ UNCHANGED <<run, running>>
          \/ /\ QueueReady(e, q)
             /\ Step(e, [ev[e] EXCEPT !.pc = "capacity", !.slot = <<q, NoTicket>>])
             /\ UNCHANGED <<run, running>>
          \/ QueueReady(e, q) /\ SpawnQueue(e, q)
    BY <1>5 DEF ConsiderQueue
  <2>3. q \in QueueRoles
    BY <1>1 DEF EvalRecords
  <2>4. BoardTypeOK' /\ UNCHANGED <<lock, paused, stop, restarts>>
    BY <1>1, <1>5, SameBoardTypes DEF ConsiderQueue
  <2>5. CASE QueueDone(e, q) /\ UNCHANGED <<run, running>>
    BY <1>1, <2>1, <2>4, <2>5, QueueDoneEvaluates
  <2>6. CASE QueueReady(e, q) /\ SpawnQueue(e, q)
    BY <1>1, <2>1, <2>3, <2>4, <2>6, QueueDoneEvaluates, QueueAdmits DEF QueueReady, SpawnQueue
  <2>7. CASE /\ QueueReady(e, q)
             /\ Step(e, [ev[e] EXCEPT !.pc = "capacity", !.slot = <<q, NoTicket>>])
             /\ UNCHANGED <<run, running>>
    <3> DEFINE rec == [ev[e] EXCEPT !.pc = "capacity", !.slot = <<q, NoTicket>>]
    <3>1. <<q, NoTicket>> \in QueueSlots /\ <<q, NoTicket>> \in Slots
      BY <2>3 DEF QueueSlots, Slots
    <3>2. rec \in EvalRecords /\ rec.pc = "capacity" /\ rec.slot = <<q, NoTicket>>
      BY <1>1, <3>1 DEF EvalRecords, EvalPcs
    <3>3. ReservedBy(e, rec, lock, running)
      BY <2>1, <2>7, <3>1, <3>2 DEF ReservedBy, QueueReady, Registered, TicketPcs
    <3> HIDE DEF rec
    <3> QED BY <1>1, <2>4, <2>7, <3>2, <3>3, StepEvaluates DEF rec
  <2> QED BY <2>2, <2>5, <2>6, <2>7
<1>6. CASE CheckCapacity(e)
  <2> DEFINE q == ev[e].slot[1]
  <2>1. lock = e /\ ev[e].slot \in QueueSlots /\ ~Registered(ev[e].slot)
    BY <1>6 DEF CheckCapacity, InPc, Reserved, InLock
  <2>2. q \in QueueRoles /\ ev[e].slot = <<q, NoTicket>>
    BY <2>1 DEF QueueSlots
  <2>3. BoardTypeOK' /\ UNCHANGED <<lock, paused, stop, restarts>>
    BY <1>1, <1>6, SameBoardTypes DEF CheckCapacity
  <2>4. (QueueDone(e, q) /\ UNCHANGED <<run, running>>) \/ SpawnQueue(e, q)
    BY <1>6 DEF CheckCapacity
  <2> HIDE DEF q
  <2> QED BY <1>1, <2>1, <2>2, <2>3, <2>4, QueueDoneEvaluates, QueueAdmits DEF SpawnQueue
<1> QED BY <1>3, <1>4, <1>5, <1>6

(***************************************************************************)
(* The inductive invariant.                                                *)
(***************************************************************************)
\* An evaluator that starts nothing preserves it.
LEMMA QuietPreserves ==
  ASSUME IInv, NEW e \in Evaluators, Evaluate(e), BoardTypeOK',
         UNCHANGED <<run, paused, stop, restarts>>, running' = running \/ running' = Swept
  PROVE  IInv'
<1>1. TypeOK'
  BY SweptTable, OrchestratorAssumption DEF IInv, TypeOK, RunTypeOK, Evaluate
<1>2. RunKeys'
  BY DEF IInv, RunKeys
<1>3. LiveRegistered'
  <2>1. SUFFICES ASSUME NEW x \in Slots, NEW i \in Instances, Live(<<x, i>>)
                 PROVE  running'[x] = running[x]
    BY DEF IInv, LiveRegistered, Live
  <2>2. running[x].inst = i /\ i # 0
    <3>1. i # 0
      BY RunAssumption
    <3>2. running[x] = [inst |-> i, status |-> run[<<x, i>>].at]
      BY <2>1 DEF IInv, LiveRegistered
    <3> QED BY <3>1, <3>2
  <2>3. ~Finished(x)
    BY <2>1, <2>2 DEF Finished
  <2>4. running[x] # NotRunning
    BY <2>2 DEF NotRunning
  <2> QED BY <2>3, <2>4, SweptTable DEF IInv
<1>4. Reserved'
  <2>1. SUFFICES ASSUME NEW f \in Evaluators
                 PROVE  ReservedBy(f, ev'[f], lock', running')
    BY DEF Reserved, ReservedBy, Registered
  <2>2. CASE f = e
    BY <2>2 DEF Evaluate
  <2>3. CASE f # e
    <3>1. ev'[f] = ev[f]
      BY <2>3 DEF Evaluate, IInv, TypeOK
    <3>2. ev[f].pc \in InLock => lock = f /\ lock' = lock
      BY <2>3, OrchestratorAssumption DEF IInv, Reserved, Evaluate
    <3>3. \A x \in Slots : running[x] = NotRunning => running'[x] = NotRunning
      BY SweptTable DEF IInv
    <3> QED BY <3>1, <3>2, <3>3, Static DEF IInv, Reserved, ReservedBy, Registered
  <2> QED BY <2>2, <2>3
<1> QED BY <1>1, <1>2, <1>3, <1>4 DEF IInv

\* So does one that starts a run.
LEMMA AdmitPreserves ==
  ASSUME IInv, NEW e \in Evaluators, Evaluate(e), BoardTypeOK',
         UNCHANGED <<paused, stop, restarts>>, SomeAdmitted(e)
  PROVE  IInv'
<1>1. PICK x \in Slots, i \in Instances, s \in Statuses, ts \in SUBSET Tickets :
        Admits(e, x, i, s, ts)
  BY DEF SomeAdmitted
<1>2. <<x, i>> \in Runs /\ \A y \in Slots, j \in Instances : <<y, j>> \in Runs
  BY DEF Runs
<1> DEFINE new == NewRun(x, s, ts)
<1>3. /\ new \in RunRecords /\ new.at = s /\ new.pc \in {"start", "work"}
      /\ new.pc = "start" => new.key \in Tickets
  BY Static, PipelineAssumption DEF NewRun, DoneRun, RunRecords, RunPcs, Purposes, Slots, QueueSlots
<1> HIDE DEF new
<1>4. run' = [run EXCEPT ![<<x, i>>] = new] /\ running' = [running EXCEPT ![x] = [inst |-> i, status |-> s]]
  BY <1>1 DEF Admits, new
<1>5. TypeOK'
  BY <1>2, <1>3, <1>4, OrchestratorAssumption DEF IInv, TypeOK, RunTypeOK, Evaluate
<1>6. RunKeys'
  BY <1>2, <1>3, <1>4 DEF IInv, RunKeys, TypeOK, RunTypeOK
<1>7. LiveRegistered'
  <2>1. SUFFICES ASSUME NEW y \in Slots, NEW j \in Instances, run'[<<y, j>>].pc # "done"
                 PROVE  /\ running'[y] = [inst |-> j, status |-> run'[<<y, j>>].at]
                        /\ run'[<<y, j>>].at \in Statuses
    BY DEF LiveRegistered, Live
  <2>2. CASE y = x /\ j = i
    BY <1>2, <1>3, <1>4, <2>2 DEF IInv, TypeOK, RunTypeOK
  <2>3. CASE y # x
    BY <1>2, <1>4, <2>1, <2>3 DEF IInv, TypeOK, RunTypeOK, LiveRegistered, Live
  <2>4. CASE y = x /\ j # i
    <3>1. run'[<<x, j>>] = run[<<x, j>>]
      BY <1>2, <1>4, <2>4 DEF IInv, TypeOK, RunTypeOK
    <3>2. running[x].inst = j /\ j # 0
      <4>1. j # 0
        BY RunAssumption
      <4>2. running[x] = [inst |-> j, status |-> run[<<x, j>>].at]
        BY <2>1, <2>4, <3>1 DEF IInv, LiveRegistered, Live
      <4> QED BY <4>1, <4>2
    <3>3. running[x].inst = 0
      BY <1>1 DEF Admits, Registered, NotRunning
    <3> QED BY <3>2, <3>3
  <2> QED BY <2>2, <2>3, <2>4
<1>8. Reserved'
  <2>1. SUFFICES ASSUME NEW f \in Evaluators
                 PROVE  ReservedBy(f, ev'[f], lock', running')
    BY DEF Reserved, ReservedBy, Registered
  <2>2. CASE f = e
    BY <2>2 DEF Evaluate
  <2>3. CASE f # e
    <3>1. ev'[f] = ev[f]
      BY <2>3 DEF Evaluate, IInv, TypeOK
    <3>2. ev[f].pc \notin InLock
      BY <1>1, <2>3 DEF IInv, Reserved, Admits
    <3> QED BY <3>1, <3>2 DEF ReservedBy, InLock
  <2> QED BY <2>2, <2>3
<1> QED BY <1>5, <1>6, <1>7, <1>8 DEF IInv

\* One run moves, by itself or because it is cancelled.
RunMoves(r) ==
  /\ Advance(r) /\ BoardTypeOK' /\ Live(r)
  /\ UNCHANGED <<running, lock, ev, paused, restarts>> /\ stop' \in StopRecords

\* A step of a run keeps it under the slot and status it was started for.
LEMMA RunPreserves ==
  ASSUME IInv, NEW r \in Runs, RunMoves(r)
  PROVE  IInv'
<1>1. Advance(r) /\ BoardTypeOK' /\ Live(r)
  BY DEF RunMoves
<1>2. RunTypeOK' /\ RunKeys' /\ \A q \in Runs : q # r => run'[q] = run[q]
  BY <1>1, AdvanceFrame DEF IInv, TypeOK
<1>3. TypeOK'
  BY <1>1, <1>2 DEF IInv, TypeOK, RunMoves
<1>4. LiveRegistered'
  <2>1. SUFFICES ASSUME NEW x \in Slots, NEW i \in Instances, run'[<<x, i>>].pc # "done"
                 PROVE  /\ running[x] = [inst |-> i, status |-> run'[<<x, i>>].at]
                        /\ run'[<<x, i>>].at \in Statuses
    BY DEF LiveRegistered, Live, RunMoves
  <2>2. <<x, i>> \in Runs
    BY DEF Runs
  <2>3. Live(<<x, i>>) /\ run'[<<x, i>>].at = run[<<x, i>>].at
    BY <1>1, <1>2, <2>1, <2>2 DEF Live, Advance
  <2> QED BY <2>3 DEF IInv, LiveRegistered
<1>5. Reserved'
  BY DEF IInv, Reserved, Registered, RunMoves
<1> QED BY <1>2, <1>3, <1>4, <1>5 DEF IInv

\* A step that touches neither runs nor evaluators.
Outside ==
  /\ UNCHANGED <<run, running, lock, ev, restarts>>
  /\ BoardTypeOK' /\ paused' \in BOOLEAN /\ stop' \in StopRecords

\* Such steps preserve it: humans, webhooks, leases running out, the pause flag,
\* what stop() does itself.
LEMMA OutsidePreserves ==
  ASSUME IInv, Outside
  PROVE  IInv'
<1>1. TypeOK'
  BY DEF Outside, IInv, TypeOK, RunTypeOK
<1>2. RunKeys' /\ LiveRegistered' /\ Reserved'
  BY DEF Outside, IInv, RunKeys, LiveRegistered, Live, Reserved, Registered
<1> QED BY <1>1, <1>2 DEF IInv

\* No task and no evaluator at work, as at the start and after a restart.
Quiescent ==
  /\ run = [r \in Runs |-> DoneRun]
  /\ running = [x \in Slots |-> NotRunning]
  /\ ev = [e \in Evaluators |-> Idle]
  /\ lock = Nobody

\* Nobody stops at the start.
LEMMA NotStoppingType == NotStopping \in StopRecords
BY DEF NotStopping, StopRecords

\* The start satisfies the invariant.
LEMMA InitInv == Init => IInv
<1>1. SUFFICES ASSUME Init PROVE IInv
  OBVIOUS
<1>2. NoLease \in Leases
  BY LeaseTypes
<1>3. BoardTypeOK
  <2>1. status \in [Tickets -> Statuses]
    BY <1>1, BoardAssumption DEF Init, BoardInit
  <2>2. labels \in [Tickets -> SUBSET Labels]
    BY <1>1 DEF Init, BoardInit
  <2>3. lease \in [Tickets -> Leases]
    BY <1>1, <1>2 DEF Init, BoardInit
  <2>4. retries \in [Tickets -> Nat] /\ rework \in [Tickets -> Nat]
    BY <1>1 DEF Init, BoardInit
  <2>5. rejected \in [Tickets -> BOOLEAN] /\ waiting \in [Tickets -> BOOLEAN]
        /\ notice \in [Tickets -> BOOLEAN]
    BY <1>1, Zenon DEF Init, BoardInit
  <2>6. beats \subseteq Roles \X Tickets
    BY <1>1 DEF Init, BoardInit
  <2> QED BY <2>1, <2>2, <2>3, <2>4, <2>5, <2>6 DEF BoardTypeOK
<1>4. Quiescent
  BY <1>1 DEF Init, RunInit, Quiescent
<1>5. TypeOK
  <2>1. RunTypeOK
    BY <1>4, DoneRunType DEF Quiescent, RunTypeOK
  <2>2. ev \in [Evaluators -> EvalRecords]
    BY <1>4, IdleType DEF Quiescent
  <2>3. running \in [Slots -> [inst : Instances \cup {0}, status : Statuses \cup {NoStatus}]]
    BY <1>4 DEF Quiescent, NotRunning
  <2>4. paused \in BOOLEAN /\ restarts \in Nat /\ lock \in Evaluators \cup {Nobody}
    BY <1>1, <1>4 DEF Init, Quiescent
  <2>5. stop \in StopRecords
    BY <1>1, NotStoppingType DEF Init
  <2> QED BY <1>3, <2>1, <2>2, <2>3, <2>4, <2>5 DEF TypeOK
<1>6. RunKeys /\ LiveRegistered
  BY <1>4, DoneRunType DEF Quiescent, RunKeys, LiveRegistered, Live, Runs
<1>7. Reserved
  BY <1>4, IdleType DEF Quiescent, Reserved, InLock, TicketPcs
<1> QED BY <1>5, <1>6, <1>7 DEF IInv

\* And so does the start of a new process.
LEMMA RebornPreserves ==
  ASSUME IInv, Reborn
  PROVE  IInv'
<1>1. BoardTypeOK'
  BY SameBoardTypes DEF Reborn, IInv, TypeOK
<1>2. Quiescent'
  BY DEF Reborn, Quiescent
<1>3. TypeOK'
  BY <1>1, <1>2, DoneRunType, IdleType, NotStoppingType
     DEF Reborn, IInv, Quiescent, TypeOK, RunTypeOK, NotRunning
<1>4. RunKeys' /\ LiveRegistered'
  BY <1>2, DoneRunType DEF Quiescent, RunKeys, LiveRegistered, Live, Runs
<1>5. Reserved'
  BY <1>2, IdleType DEF Quiescent, Reserved, InLock, TicketPcs
<1> QED BY <1>3, <1>4, <1>5 DEF IInv

(***************************************************************************)
(* What a step of the specification can be.                                *)
(***************************************************************************)
\* An evaluator at work that starts nothing; one that starts a run; a run;
\* anything that leaves runs and evaluators alone; the end of the process.
Quiet(e) ==
  /\ Evaluate(e) /\ BoardTypeOK' /\ UNCHANGED <<run, paused, stop, restarts>>
  /\ running' = running \/ running' = Swept

Admitting(e) ==
  /\ Evaluate(e) /\ BoardTypeOK' /\ UNCHANGED <<paused, stop, restarts>> /\ SomeAdmitted(e)

\* Every step is quiet, admits a run, is a run's, comes from outside, or restarts.
LEMMA StepKinds ==
  ASSUME IInv, [Next]_vars
  PROVE  \/ \E e \in Evaluators : Quiet(e) \/ Admitting(e)
         \/ \E r \in Runs : RunMoves(r)
         \/ Outside
         \/ Reborn
<1>1. TypeOK /\ RunTypeOK /\ BoardTypeOK /\ RunKeys /\ Reserved /\ paused \in BOOLEAN
      /\ stop \in StopRecords
  BY DEF IInv, TypeOK
<1>2. CASE \E e \in Evaluators :
             \/ SweepBegin(e) \/ SweepSearch(e) \/ FlushBegin(e) \/ TakeLock(e)
             \/ EvaluateTicket(e) \/ EvaluateQueues(e) \/ EvaluationFails(e) \/ PassFails(e)
  <2>1. PICK e \in Evaluators :
             \/ SweepBegin(e) \/ SweepSearch(e) \/ FlushBegin(e) \/ TakeLock(e)
             \/ EvaluateTicket(e) \/ EvaluateQueues(e) \/ EvaluationFails(e) \/ PassFails(e)
    BY <1>2
  <2>2. CASE \/ SweepBegin(e) \/ SweepSearch(e) \/ FlushBegin(e) \/ TakeLock(e)
             \/ LeaveQueues(e) \/ PassFails(e) \/ EnterQueues(e)
    BY <1>1, <2>2, PassEvaluates DEF Quiet
  <2>3. CASE \/ Consider(e) \/ ReadLease(e) \/ Reclaim(e) \/ ReclaimBumpRead(e)
             \/ ReclaimBumpWrite(e) \/ ReadRetries(e) \/ ResetRetries(e)
             \/ EscalateTicket(e) \/ ReadRework(e) \/ EvaluationFails(e)
    BY <1>1, <2>3, TicketEvaluates DEF Quiet
  <2>4. CASE ReadWaiting(e) \/ Unpark(e) \/ ConsiderQueue(e) \/ CheckCapacity(e)
    BY <1>1, <2>4, DispatchEvaluates DEF Quiet, Admitting
  <2> QED BY <2>1, <2>2, <2>3, <2>4 DEF EvaluateTicket, EvaluateQueues
<1>3. CASE \E r \in Runs : RunStep(r) /\ UNCHANGED orchVars
  BY <1>1, <1>3, RunStepAdvances DEF RunMoves, orchVars
<1>4. CASE \E t \in Tickets : OnStatusChange(t)
  <2>1. PICK t \in Tickets : OnStatusChange(t)
    BY <1>4
  <2>2. FreezeLabels \subseteq Labels
    BY DEF FreezeLabels, Labels
  <2>3. BoardTypeOK'
    BY <1>1, <2>1, <2>2 DEF OnStatusChange, BoardTypeOK
  <2> QED BY <1>1, <2>1, <2>3 DEF OnStatusChange, Outside, orchVars
<1>5. CASE Humans /\ UNCHANGED <<run, orchVars>>
  <2>1. BoardTypeOK'
    BY <1>1, <1>5, BoardAssumption DEF Humans, HumanMove, HumanLabel, BoardTypeOK
  <2> QED BY <1>1, <1>5, <2>1 DEF Outside, orchVars
<1>6. CASE (\E t \in Tickets : Expire(t)) /\ UNCHANGED orchVars
  <2>1. PICK t \in Tickets : Expire(t)
    BY <1>6
  <2>2. [lease[t] EXCEPT !.stale = TRUE] \in Leases
    BY <1>1, LeaseTypes DEF BoardTypeOK
  <2>3. BoardTypeOK'
    BY <1>1, <2>1, <2>2, WriterTypes DEF Expire
  <2> QED BY <1>1, <1>6, <2>1, <2>3 DEF Expire, Outside, orchVars
<1>7. CASE PauseOrResume
  BY <1>1, <1>7, SameBoardTypes DEF PauseOrResume, Outside
<1>8. CASE UNCHANGED vars
  BY <1>1, <1>8, SameBoardTypes DEF Outside, vars, orchVars
<1>9. CASE \E b \in beats : BeatLands(b) /\ UNCHANGED <<run, orchVars>>
  <2>1. PICK b \in beats : BeatLands(b)
    BY <1>9
  <2>2. b[1] \in Roles /\ FreshLease(b[1]) \in Leases
    BY <1>1, LeaseTypes DEF BoardTypeOK
  <2>3. BoardTypeOK'
    BY <1>1, <2>1, <2>2 DEF BeatLands, BoardTypeOK
  <2> QED BY <1>1, <1>9, <2>3 DEF Outside, orchVars
<1>10. CASE Shutdown
  <2>1. CASE BeginStop
    <3>1. stop' \in StopRecords
      BY <2>1 DEF BeginStop, StopRecords, TicketsRunning
    <3> QED BY <1>1, <2>1, <3>1, SameBoardTypes DEF BeginStop, Outside
  <2>2. CASE \E r \in Runs : Notice(r)
    <3>1. PICK r \in Runs : Notice(r)
      BY <2>2
    <3>2. stop' \in StopRecords
      BY <1>1, <3>1 DEF Notice, StopRecords
    <3>3. Advance(r) /\ BoardTypeOK' /\ Live(r)
      BY <1>1, <3>1, CancelAdvances DEF Notice
    <3> QED BY <3>1, <3>2, <3>3 DEF Notice, RunMoves
  <2>3. CASE \E t \in Tickets : ReleaseLeft(t)
    <3>1. PICK t \in Tickets : ReleaseLeft(t)
      BY <2>3
    <3>2. stop' \in StopRecords
      BY <1>1, <3>1 DEF ReleaseLeft, StopRecords
    <3>3. BoardTypeOK'
      BY <1>1, <3>1, LeaseTypes, WriterTypes, SameBoardTypes DEF ReleaseLeft
    <3> QED BY <1>1, <3>1, <3>2, <3>3 DEF ReleaseLeft, Outside
  <2>4. CASE Exit
    BY <2>4 DEF Exit
  <2> QED BY <1>10, <2>1, <2>2, <2>3, <2>4 DEF Shutdown
<1>11. CASE Restart
  BY <1>11 DEF Restart
<1> QED BY <1>2, <1>3, <1>4, <1>5, <1>6, <1>7, <1>8, <1>9, <1>10, <1>11 DEF Next, Environment

\* Every step preserves the invariant.
LEMMA NextInv ==
  ASSUME IInv, [Next]_vars
  PROVE  IInv'
<1>1. CASE \E e \in Evaluators : Quiet(e)
  BY <1>1, QuietPreserves DEF Quiet
<1>2. CASE \E e \in Evaluators : Admitting(e)
  BY <1>2, AdmitPreserves DEF Admitting
<1>3. CASE \E r \in Runs : RunMoves(r)
  BY <1>3, RunPreserves
<1>4. CASE Outside
  BY <1>4, OutsidePreserves
<1>5. CASE Reborn
  BY <1>5, RebornPreserves
<1> QED BY <1>1, <1>2, <1>3, <1>4, <1>5, StepKinds

(***************************************************************************)
(* The theorems.                                                           *)
(***************************************************************************)
\* IInv is an invariant of every pipeline.
THEOREM InductiveInvariant == Spec => []IInv
<1>1. Init => IInv
  BY InitInv
<1>2. IInv /\ [Next]_vars => IInv'
  BY NextInv
<1> QED BY <1>1, <1>2, PTL DEF Spec

\* Every variable keeps its type.
THEOREM TypeCorrect == Spec => []TypeOK
<1>1. IInv => TypeOK
  BY DEF IInv
<1> QED BY <1>1, InductiveInvariant, PTL

\* No slot ever has two live runs: whatever sweeps and flushes interleave, no
\* ticket is given to one role twice and no queue role runs twice.
THEOREM OneRunPerSlot == Spec => []SingleRun
<1>1. IInv => SingleRun
  <2>1. SUFFICES ASSUME IInv, NEW x \in Slots, NEW i \in Instances, NEW j \in Instances,
                        Live(<<x, i>>), Live(<<x, j>>)
                 PROVE  i = j
    BY DEF SingleRun
  <2>2. /\ running[x] = [inst |-> i, status |-> run[<<x, i>>].at]
        /\ running[x] = [inst |-> j, status |-> run[<<x, j>>].at]
    BY <2>1 DEF IInv, LiveRegistered
  <2> QED BY <2>2
<1> QED BY <1>1, InductiveInvariant, PTL

(***************************************************************************)
(* WIP limits and admission.                                               *)
(***************************************************************************)
\* Finitely many tickets and roles make finitely many slots.
LEMMA SlotsFinite == IsFiniteSet(Slots)
<1>1. IsFiniteSet(TicketSlots)
  BY PipelineAssumption, FS_Product DEF TicketSlots
<1>2. IsFiniteSet(QueueSlots)
  BY PipelineAssumption, FS_Product, FS_Singleton DEF QueueSlots
<1> QED BY <1>1, <1>2, FS_Union DEF Slots

\* A set of agents that work in different slots, each registered under s, is
\* no larger than the count _evaluate_ticket compares with the limit.
LEMMA CountedOnce ==
  ASSUME NEW s, NEW S, NEW f \in [S -> Slots],
         \A a, b \in S : f[a] = f[b] => a = b,
         \A a \in S : Registered(f[a]) /\ running[f[a]].status = s
  PROVE  /\ IsFiniteSet(S) /\ Cardinality(S) \in Nat /\ RunningCount(s) \in Nat
         /\ Cardinality(S) <= RunningCount(s)
<1> DEFINE T == {x \in Slots : Registered(x) /\ running[x].status = s}
<1>1. IsFiniteSet(T)
  BY SlotsFinite, FS_Subset
<1>2. f \in Injection(S, T)
  BY DEF Injection, IsInjective
<1>3. IsFiniteSet(S) /\ Cardinality(S) <= Cardinality(T)
  BY <1>1, <1>2, FS_Injection
<1> QED BY <1>1, <1>3, FS_CardinalityType DEF RunningCount

\* The ticket runs at a status are all counted.
LEMMA RunsCounted ==
  ASSUME IInv, NEW s \in Statuses
  PROVE  /\ IsFiniteSet(RunsAt(s)) /\ Cardinality(RunsAt(s)) \in Nat
         /\ RunningCount(s) \in Nat /\ Cardinality(RunsAt(s)) <= RunningCount(s)
<1> DEFINE f == [r \in RunsAt(s) |-> r[1]]
<1>1. ASSUME NEW r \in RunsAt(s)
      PROVE  /\ r = <<r[1], r[2]>> /\ r[1] \in Slots /\ r[2] \in Instances
             /\ running[r[1]] = [inst |-> r[2], status |-> s]
  BY <1>1, OwnTickets DEF RunsAt, IInv, LiveRegistered
<1>2. f \in [RunsAt(s) -> Slots]
  BY <1>1
<1>3. ASSUME NEW a \in RunsAt(s), NEW b \in RunsAt(s), f[a] = f[b]
      PROVE  a = b
  <2>1. a = <<a[1], a[2]>> /\ b = <<b[1], b[2]>> /\ a[1] = b[1]
    BY <1>1, <1>3
  <2>2. /\ running[a[1]] = [inst |-> a[2], status |-> s]
        /\ running[b[1]] = [inst |-> b[2], status |-> s]
    BY <1>1
  <2> QED BY <2>1, <2>2
<1>4. ASSUME NEW r \in RunsAt(s)
      PROVE  Registered(f[r]) /\ running[f[r]].status = s
  <2>1. f[r] = r[1] /\ running[r[1]] = [inst |-> r[2], status |-> s] /\ s # NoStatus
    BY <1>1, PipelineAssumption
  <2> HIDE DEF f
  <2> QED BY <2>1 DEF Registered, NotRunning
<1> HIDE DEF f
<1> QED BY <1>2, <1>3, <1>4, CountedOnce

\* Nor are the agents Admission sees more than the count says.
LEMMA AgentsCounted ==
  ASSUME IInv, NEW s \in Statuses
  PROVE  /\ Cardinality(A!AgentsAt(s)) \in Nat /\ RunningCount(s) \in Nat
         /\ Cardinality(A!AgentsAt(s)) <= RunningCount(s)
<1> DEFINE f == [a \in A!AgentsAt(s) |-> a.slot]
<1>1. ASSUME NEW a \in A!AgentsAt(s)
      PROVE  /\ a = [slot |-> a.slot, id |-> a.id, at |-> s] /\ a.slot \in Slots
             /\ running[a.slot] = [inst |-> a.id, status |-> s]
  <2>1. PICK r \in Runs : Live(r) /\ a = [slot |-> r[1], id |-> r[2], at |-> run[r].at]
    BY <1>1 DEF A!AgentsAt, Admitted
  <2>2. a.at = s
    BY <1>1 DEF A!AgentsAt
  <2>3. r[1] \in Slots /\ r[2] \in Instances /\ r = <<r[1], r[2]>>
    BY OwnTickets
  <2>4. running[r[1]] = [inst |-> r[2], status |-> run[r].at]
    BY <2>1, <2>3 DEF IInv, LiveRegistered
  <2> QED BY <2>1, <2>2, <2>3, <2>4
<1>2. f \in [A!AgentsAt(s) -> Slots]
  BY <1>1
<1>3. ASSUME NEW a \in A!AgentsAt(s), NEW b \in A!AgentsAt(s), f[a] = f[b]
      PROVE  a = b
  <2>1. /\ running[a.slot] = [inst |-> a.id, status |-> s]
        /\ running[b.slot] = [inst |-> b.id, status |-> s]
        /\ a.slot = b.slot
    BY <1>1, <1>3
  <2>2. a.id = b.id
    BY <2>1
  <2> QED BY <1>1, <2>1, <2>2
<1>4. ASSUME NEW a \in A!AgentsAt(s)
      PROVE  Registered(f[a]) /\ running[f[a]].status = s
  <2>1. f[a] = a.slot /\ running[a.slot] = [inst |-> a.id, status |-> s] /\ s # NoStatus
    BY <1>1, PipelineAssumption
  <2> HIDE DEF f
  <2> QED BY <2>1 DEF Registered, NotRunning
<1> HIDE DEF f
<1> QED BY <1>2, <1>3, <1>4, CountedOnce

\* Runs only end, or go on as they were.
Shrink ==
  \A r \in Runs : run'[r].pc # "done" => Live(r) /\ run'[r].at = run[r].at

\* Every step admits one run or none.
LEMMA AdmitsOrShrinks ==
  ASSUME IInv, [Next]_vars
  PROVE  Shrink \/ \E e \in Evaluators : SomeAdmitted(e)
<1>1. CASE run' = run
  BY <1>1 DEF Shrink, Live
<1>2. CASE \E r \in Runs : RunMoves(r)
  <2>1. PICK r \in Runs : RunMoves(r)
    BY <1>2
  <2>2. Advance(r) /\ Live(r) /\ \A q \in Runs : q # r => run'[q] = run[q]
    BY <2>1, AdvanceFrame DEF RunMoves, IInv, TypeOK
  <2> QED BY <2>2 DEF Shrink, Advance, Live
<1>3. CASE Reborn
  BY <1>3, DoneRunType DEF Reborn, Shrink
<1> QED BY <1>1, <1>2, <1>3, StepKinds DEF Quiet, Admitting, Outside

\* The slot a run is started in has no live run.
LEMMA AdmittedAlone ==
  ASSUME IInv, NEW e \in Evaluators, NEW x \in Slots, NEW i \in Instances, NEW s \in Statuses,
         NEW ts \in SUBSET Tickets, Admits(e, x, i, s, ts)
  PROVE  /\ <<x, i>> \in Runs /\ run'[<<x, i>>].pc # "done" /\ run'[<<x, i>>].at = s
         /\ \A r \in Runs : r # <<x, i>> => run'[r] = run[r]
         /\ \A j \in Instances : ~Live(<<x, j>>)
<1>1. <<x, i>> \in Runs
  BY DEF Runs
<1>2. NewRun(x, s, ts).pc # "done" /\ NewRun(x, s, ts).at = s
  BY DEF NewRun, DoneRun
<1>3. run' = [run EXCEPT ![<<x, i>>] = NewRun(x, s, ts)] /\ running[x] = NotRunning
  BY DEF Admits, Registered
<1>4. ASSUME NEW j \in Instances PROVE ~Live(<<x, j>>)
  <2>1. j # 0
    BY RunAssumption
  <2>2. Live(<<x, j>>) => running[x] = [inst |-> j, status |-> run[<<x, j>>].at]
    BY DEF IInv, LiveRegistered
  <2> QED BY <1>3, <2>1, <2>2 DEF NotRunning
<1> QED BY <1>1, <1>2, <1>3, <1>4 DEF IInv, TypeOK, RunTypeOK

\* A limited status is a status of the workflow, its limit a number.
LEMMA LimitTypes == \A s \in Limited : s \in Statuses /\ WipLimit[s] \in Nat
BY ConfigAssumption, Static DEF ValidConfig, AgentStatuses

\* A step never takes a status over its limit.
LEMMA WipStep ==
  ASSUME IInv, WipRespected, [Next]_vars
  PROVE  WipRespected'
<1> SUFFICES ASSUME NEW s \in Limited
             PROVE  Cardinality(RunsAt(s)') <= WipLimit[s]
  BY DEF WipRespected
<1>1. /\ s \in Statuses /\ WipLimit[s] \in Nat
      /\ IsFiniteSet(RunsAt(s)) /\ Cardinality(RunsAt(s)) \in Nat
      /\ RunningCount(s) \in Nat /\ Cardinality(RunsAt(s)) <= RunningCount(s)
      /\ Cardinality(RunsAt(s)) <= WipLimit[s]
  BY LimitTypes, RunsCounted DEF WipRespected
<1>2. ASSUME RunsAt(s)' \subseteq RunsAt(s)
      PROVE  Cardinality(RunsAt(s)') <= WipLimit[s]
  <2>1. IsFiniteSet(RunsAt(s)') /\ Cardinality(RunsAt(s)') <= Cardinality(RunsAt(s))
    BY <1>1, <1>2, FS_Subset
  <2> QED BY <1>1, <2>1, FS_CardinalityType
<1>3. CASE Shrink
  <2>1. RunsAt(s)' \subseteq RunsAt(s)
    BY <1>3 DEF Shrink, RunsAt, Live
  <2> QED BY <1>2, <2>1
<1>4. CASE \E e \in Evaluators : SomeAdmitted(e)
  <2>1. PICK e \in Evaluators, x \in Slots, i \in Instances, st \in Statuses,
             ts \in SUBSET Tickets : Admits(e, x, i, st, ts)
    BY <1>4 DEF SomeAdmitted
  <2>2. /\ run'[<<x, i>>].at = st
        /\ \A r \in Runs : r # <<x, i>> => run'[r] = run[r]
    BY <2>1, AdmittedAlone
  <2>3. CASE x \in TicketSlots /\ st = s
    <3>1. RunningCount(s) < WipLimit[s]
      BY <1>1, <2>1, <2>3 DEF Admits, WipFull
    <3>2. /\ IsFiniteSet(RunsAt(s) \cup {<<x, i>>})
          /\ Cardinality(RunsAt(s) \cup {<<x, i>>}) <= Cardinality(RunsAt(s)) + 1
      <4>1. /\ IsFiniteSet(RunsAt(s) \cup {<<x, i>>})
            /\ Cardinality(RunsAt(s) \cup {<<x, i>>})
                 = IF <<x, i>> \in RunsAt(s) THEN Cardinality(RunsAt(s))
                   ELSE Cardinality(RunsAt(s)) + 1
        BY <1>1, FS_AddElement, Zenon
      <4> QED BY <1>1, <4>1
    <3>3. RunsAt(s)' \subseteq RunsAt(s) \cup {<<x, i>>}
      BY <2>2 DEF RunsAt, Live
    <3>4. /\ Cardinality(RunsAt(s)') <= Cardinality(RunsAt(s) \cup {<<x, i>>})
          /\ IsFiniteSet(RunsAt(s)')
      BY <3>2, <3>3, FS_Subset
    <3>5. Cardinality(RunsAt(s)') \in Nat /\ Cardinality(RunsAt(s) \cup {<<x, i>>}) \in Nat
      BY <3>2, <3>4, FS_CardinalityType
    <3> QED BY <1>1, <3>1, <3>2, <3>4, <3>5
  <2>4. CASE x \notin TicketSlots \/ st # s
    <3>1. RunsAt(s)' \subseteq RunsAt(s)
      <4>1. \A r \in RunsAt(s)' : r # <<x, i>>
        BY <2>2, <2>4 DEF RunsAt
      <4> QED BY <2>2, <4>1 DEF RunsAt, Live
    <3> QED BY <1>2, <3>1
  <2> QED BY <2>3, <2>4
<1> QED BY <1>3, <1>4, AdmitsOrShrinks

\* ORC-3: the ticket agents in a status never outnumber its WIP limit.
THEOREM WipBound == Spec => []WipRespected
<1>1. Init => WipRespected
  <2>1. ASSUME Init, NEW s \in Limited PROVE Cardinality(RunsAt(s)) <= WipLimit[s]
    <3>1. RunsAt(s) = {}
      BY <2>1, DoneRunType DEF Init, RunInit, RunsAt, Live
    <3> QED BY <3>1, LimitTypes, FS_EmptySet
  <2> QED BY <2>1 DEF WipRespected
<1>2. IInv /\ WipRespected /\ [Next]_vars => WipRespected'
  BY WipStep
<1> QED BY <1>1, <1>2, InductiveInvariant, PTL DEF Spec

\* Dispatch implements Admission: whatever evaluators and runs do, seen from
\* outside agents are admitted one by one to free slots under the limits.
THEOREM ImplementsAdmission == Spec => AdmissionSpec
<1>1. Init => A!Init
  BY DoneRunType DEF Init, RunInit, A!Init, Admitted, Live
<1>2. IInv /\ [Next]_vars => [A!Next]_Admitted
  <2> SUFFICES ASSUME IInv, [Next]_vars PROVE A!Next
    OBVIOUS
  <2>1. CASE Shrink
    <3>1. Admitted' \subseteq Admitted
      BY <2>1 DEF Shrink, Admitted, Live
    <3>2. Admitted' = Admitted \ (Admitted \ Admitted')
      BY <3>1
    <3> QED BY <3>2 DEF A!Next, A!Leave
  <2>2. CASE \E e \in Evaluators : SomeAdmitted(e)
    <3>1. PICK e \in Evaluators, x \in Slots, i \in Instances, s \in Statuses,
               ts \in SUBSET Tickets : Admits(e, x, i, s, ts)
      BY <2>2 DEF SomeAdmitted
    <3> DEFINE a == [slot |-> x, id |-> i, at |-> s]
    <3>2. /\ <<x, i>> \in Runs /\ run'[<<x, i>>].pc # "done" /\ run'[<<x, i>>].at = s
          /\ \A r \in Runs : r # <<x, i>> => run'[r] = run[r]
          /\ \A j \in Instances : ~Live(<<x, j>>)
      BY <3>1, AdmittedAlone
    <3>3. Admitted' = Admitted \cup {a}
      BY <3>2 DEF Admitted, Live
    <3>4. \A b \in Admitted : b.slot # x
      <4>1. \A r \in Runs : Live(r) => r[1] # x
        BY <3>2, OwnTickets
      <4> QED BY <4>1 DEF Admitted
    <3>5. x \in TicketSlots /\ s \in Limited => Cardinality(A!AgentsAt(s)) < WipLimit[s]
      <4> SUFFICES ASSUME x \in TicketSlots, s \in Limited
                   PROVE  Cardinality(A!AgentsAt(s)) < WipLimit[s]
        OBVIOUS
      <4>1. ~WipFull(s)
        BY <3>1 DEF Admits
      <4>2. Cardinality(A!AgentsAt(s)) \in Nat /\ RunningCount(s) \in Nat
            /\ Cardinality(A!AgentsAt(s)) <= RunningCount(s)
        BY AgentsCounted
      <4> QED BY <4>1, <4>2, LimitTypes DEF WipFull
    <3>6. a \in A!Agents /\ a.slot = x /\ a.at = s
      BY DEF A!Agents
    <3> HIDE DEF a
    <3>7. A!Admit(a)
      <4>1. \A b \in Admitted : b.slot # a.slot
        BY <3>4, <3>6
      <4>2. a.slot \in TicketSlots /\ a.at \in Limited
              => Cardinality(A!AgentsAt(a.at)) < WipLimit[a.at]
        BY <3>5, <3>6
      \* The instance has a Cardinality of its own, with the same definition.
      <4>3. \A S : A!Cardinality(S) = Cardinality(S)
        BY DEF A!Cardinality, Cardinality
      <4> QED BY <3>3, <4>1, <4>2, <4>3, Zenon DEF A!Admit
    <3> QED BY <3>6, <3>7, Zenon DEF A!Next
  <2> QED BY <2>1, <2>2, AdmitsOrShrinks
<1> QED BY <1>1, <1>2, InductiveInvariant, PTL DEF Spec, AdmissionSpec, A!Spec
=============================================================================
