-------------------------- MODULE ReworkLimit_proofs --------------------------
(***************************************************************************)
(* The two counts that end a loop, of reworks and of retries, although     *)
(* both are looked at some awaits before the run starts.                   *)
(*                                                                         *)
(* The only writer of the rework count is the router's run on that ticket, *)
(* and while an evaluator has the router's slot reserved there is none.    *)
(* The retry count has several writers, each in the middle of a longer     *)
(* call, so the second half first tells every step of a run and of an      *)
(* evaluator by the fields of the record it leaves: the lemmas named       *)
(* ...Tells, which Lease_proofs builds on too.                             *)
(***************************************************************************)
EXTENDS Orchestrator_proofs

\* An evaluator that has looked at the rework count and may start the router.
PastLimit(e) == ev[e].pc \in {"waiting", "unpark"} /\ ev[e].slot[1] = Router

\* What it saw is still so.
LimitSeen == \A e \in Evaluators : PastLimit(e) => ~OverReworkLimit(TicketOf(e))

(***************************************************************************)
(* Who writes what.                                                        *)
(***************************************************************************)
\* An evaluator's steps leave the rework counts alone.
LEMMA EvaluatorsDoNotCount ==
  ASSUME NEW e \in Evaluators,
         \/ SweepBegin(e) \/ SweepSearch(e) \/ FlushBegin(e) \/ TakeLock(e)
         \/ EvaluateTicket(e) \/ EvaluateQueues(e) \/ EvaluationFails(e) \/ PassFails(e)
  PROVE  rework' = rework
<1>1. UNCHANGED boardVars => rework' = rework
  BY DEF boardVars
<1>2. CASE SweepBegin(e) \/ SweepSearch(e) \/ FlushBegin(e) \/ TakeLock(e)
           \/ EvaluationFails(e) \/ PassFails(e)
  BY <1>1, <1>2 DEF SweepBegin, SweepSearch, FlushBegin, TakeLock, EvaluationFails, PassFails
<1>3. CASE EvaluateTicket(e)
  BY <1>1, <1>3 DEF EvaluateTicket, Consider, ReadLease, Reclaim, ReclaimBumpRead,
     ReclaimBumpWrite, ReadRetries, ResetRetries, EscalateTicket, ReadRework, ReadWaiting,
     Unpark, WriteLease, WriteRetries, WriteWaiting, AddLabels
<1>4. CASE EvaluateQueues(e)
  BY <1>1, <1>4 DEF EvaluateQueues, EnterQueues, ConsiderQueue, CheckCapacity, LeaveQueues
<1> QED BY <1>2, <1>3, <1>4

\* Nor does a request that gets no answer touch them.
LEMMA InFlightDoesNotCount ==
  ASSUME NEW r, InFlight(r)
  PROVE  rework' = rework
BY DEF InFlight, boardVars, Transition, WriteLease, WriteRetries, WriteWaiting

\* Of a run's steps, only increment_rework writes them.
LEMMA RunsCountInOneStep ==
  ASSUME NEW r \in Runs, RunStep(r)
  PROVE  rework' = rework \/ IncrementRework(r)
<1>1. UNCHANGED boardVars => rework' = rework
  BY DEF boardVars
<1>2. CASE Proceed(r)
  BY <1>1, <1>2 DEF Proceed, ClaimRead, ClaimWrite, Move, Transition, ClearWaiting, ClearRetries, BumpRead,
     BumpWrite, Release, WriteLease, WriteRetries, WriteWaiting
<1>3. CASE Choose(r)
  BY <1>1, <1>3 DEF Choose, BeginClaim, BeginHandoff, BeginEscalate, BeginRelease, BeginFinish,
     BeginCrash, WriteWaiting, AddLabels
<1>4. CASE ClaimFails(r) \/ CallFails(r) \/ Heartbeat(r) \/ BeatRead(r)
  BY <1>1, <1>4, InFlightDoesNotCount DEF ClaimFails, CallFails, Heartbeat, BeatRead, WriteLease
<1> QED BY <1>2, <1>3, <1>4 DEF RunStep

\* Nothing else does: webhooks, humans, time, operators and restarts do not.
LEMMA OnlyRoutersCount ==
  ASSUME [Next]_vars
  PROVE  rework' = rework \/ \E r \in Runs : IncrementRework(r) /\ UNCHANGED orchVars
<1>1. UNCHANGED boardVars => rework' = rework
  BY DEF boardVars
<1>2. CASE \E e \in Evaluators :
             \/ SweepBegin(e) \/ SweepSearch(e) \/ FlushBegin(e) \/ TakeLock(e)
             \/ EvaluateTicket(e) \/ EvaluateQueues(e) \/ EvaluationFails(e) \/ PassFails(e)
  BY <1>2, EvaluatorsDoNotCount
<1>3. CASE \E r \in Runs : RunStep(r) /\ UNCHANGED orchVars
  BY <1>3, RunsCountInOneStep
<1>4. CASE \E b \in beats : BeatLands(b) /\ UNCHANGED <<run, orchVars>>
  BY <1>4 DEF BeatLands
<1>5. CASE \E t \in Tickets : OnStatusChange(t)
  BY <1>5 DEF OnStatusChange
<1>6. CASE Environment
  <2>1. CASE Shutdown
    BY <1>1, <2>1, InFlightDoesNotCount
       DEF Shutdown, BeginStop, Exit, Reborn, Notice, Cancel, ReleaseLeft, WriteLease
  <2>2. CASE ~Shutdown
    BY <1>1, <1>6, <2>2 DEF Environment, Humans, HumanMove, HumanLabel, Expire, WriteLease,
       PauseOrResume, Restart, Reborn
  <2> QED BY <2>1, <2>2
<1>7. CASE UNCHANGED vars
  BY <1>7 DEF vars, boardVars
<1> QED BY <1>2, <1>3, <1>4, <1>5, <1>6, <1>7 DEF Next

(***************************************************************************)
(* The evaluator that starts the router.                                   *)
(***************************************************************************)
\* Considering a ticket leads to its lease or to the next ticket.
LEMMA Considered ==
  ASSUME ev \in [Evaluators -> EvalRecords], NEW e \in Evaluators, Consider(e)
  PROVE  ev'[e].pc \in {"lease", "pick"}
<1>1. ev[e] \in EvalRecords /\ ev[e].pc = "pick"
  BY DEF Consider, InPc
<1>2. CASE \E x, s : Step(e, [ev[e] EXCEPT !.pc = "lease", !.slot = x, !.st = s])
  BY <1>1, <1>2 DEF Step, EvalRecords
<1>3. CASE \E t : Step(e, [ev[e] EXCEPT !.todo = @ \ {t}])
  BY <1>1, <1>3 DEF Step, EvalRecords
<1> QED BY <1>2, <1>3, Zenon DEF Consider

\* A step after which an evaluator is past the check found it past the check of
\* that ticket already, or made the check.
LEMMA ReachesPastLimit ==
  ASSUME IInv, [Next]_vars, NEW e \in Evaluators, PastLimit(e)'
  PROVE  \/ PastLimit(e) /\ ev'[e].slot = ev[e].slot
         \/ ~OverReworkLimit(TicketOf(e)) /\ ev'[e].slot = ev[e].slot /\ rework' = rework
<1>1. ev \in [Evaluators -> EvalRecords] /\ ev[e] \in EvalRecords
  BY DEF IInv, TypeOK
<1>2. ev'[e].pc \in {"waiting", "unpark"} /\ ev'[e].slot[1] = Router
  BY DEF PastLimit
<1>3. CASE ev'[e] = ev[e]
  BY <1>2, <1>3 DEF PastLimit
<1>4. CASE ReadRetries(e)
  <2>1. ev'[e].pc = "waiting" => ev[e].slot[1] # Router
    BY <1>1, <1>4 DEF ReadRetries, Step, EvalRecords
  <2>2. ev'[e].slot = ev[e].slot /\ ev'[e].pc \notin {"unpark"}
    BY <1>1, <1>4 DEF ReadRetries, Step, EvalRecords
  <2> QED BY <1>2, <2>1, <2>2
<1>5. CASE ReadRework(e)
  <2>1. ev'[e].pc = "escalate" \/ ~OverReworkLimit(TicketOf(e))
    BY <1>1, <1>5 DEF ReadRework, Step, EvalRecords
  <2>2. ev'[e].slot = ev[e].slot
    BY <1>1, <1>5 DEF ReadRework, Step, EvalRecords
  <2>3. rework' = rework
    BY <1>5 DEF ReadRework, boardVars
  <2> QED BY <1>2, <2>1, <2>2, <2>3
<1>6. CASE ReadWaiting(e)
  <2>1. ev[e].pc = "waiting"
    BY <1>6 DEF ReadWaiting, InPc
  <2>2. ev'[e].pc = "pick" \/ ev'[e].slot = ev[e].slot
    BY <1>1, <1>6 DEF ReadWaiting, Dispatch, NextTicket, Step, EvalRecords
  <2> QED BY <1>2, <2>1, <2>2 DEF PastLimit
<1>7. CASE \/ SweepBegin(e) \/ SweepSearch(e) \/ FlushBegin(e) \/ TakeLock(e)
           \/ EvaluateQueues(e) \/ EvaluationFails(e) \/ PassFails(e)
           \/ Consider(e) \/ ReadLease(e) \/ Reclaim(e) \/ ReclaimBumpRead(e)
           \/ ReclaimBumpWrite(e) \/ ResetRetries(e) \/ EscalateTicket(e) \/ Unpark(e)
  <2>1. ev'[e].pc \notin {"waiting", "unpark"}
    <3>1. CASE SweepBegin(e) \/ SweepSearch(e) \/ FlushBegin(e) \/ TakeLock(e) \/ PassFails(e)
      BY <1>1, <3>1, IdleType
         DEF SweepBegin, SweepSearch, FlushBegin, TakeLock, PassFails, EndPass, Step, EvalRecords
    <3>2. CASE Consider(e)
      BY <1>1, <3>2, Considered
    <3>a. NextTicket(e) => ev'[e].pc = "pick"
      BY <1>1 DEF NextTicket, Step, EvalRecords
    <3>b. EndPass(e) => ev'[e].pc = "idle"
      BY <1>1, IdleType DEF EndPass, Step
    <3>c. ASSUME NEW x \in {"retries", "reclaim"}, Step(e, [ev[e] EXCEPT !.pc = x])
          PROVE  ev'[e].pc = x
      BY <1>1, <3>c DEF Step, EvalRecords
    <3>3. CASE ReadLease(e)
      BY <3>3, <3>a, <3>c DEF ReadLease
    <3>4. CASE Reclaim(e) \/ ReclaimBumpRead(e) \/ ReclaimBumpWrite(e) \/ ResetRetries(e)
      BY <1>1, <3>4
         DEF Reclaim, ReclaimBumpRead, ReclaimBumpWrite, ResetRetries, Step, EvalRecords
    <3>5. CASE EscalateTicket(e) \/ Unpark(e) \/ EvaluationFails(e)
      BY <3>5, <3>a DEF EscalateTicket, Unpark, EvaluationFails, Dispatch
    <3>6. CASE EnterQueues(e) \/ LeaveQueues(e)
      <4>1. ASSUME NEW qs, NEW sn,
                   Step(e, [ev[e] EXCEPT !.pc = "queues", !.qtodo = qs, !.snap = sn])
            PROVE  ev'[e].pc = "queues"
        BY <1>1, <4>1 DEF Step, EvalRecords
      <4>2. EndPass(e) \/ \E qs, sn :
              Step(e, [ev[e] EXCEPT !.pc = "queues", !.qtodo = qs, !.snap = sn])
        <5>1. CASE LeaveQueues(e)
          BY <5>1 DEF LeaveQueues
        <5>2. CASE EnterQueues(e)
          <6> DEFINE sn == IF e \in Flushes THEN SearchResult ELSE ev[e].snap
          <6>1. \/ EndPass(e)
                \/ Step(e, [ev[e] EXCEPT !.pc = "queues", !.qtodo = QueueRoles, !.snap = sn])
            BY <5>2, Zenon DEF EnterQueues
          <6> QED BY <6>1, Zenon
        <5> QED BY <3>6, <5>1, <5>2
      <4> QED BY <3>b, <4>1, <4>2
    <3>7. \A q : QueueDone(e, q) => ev'[e].pc = "queues"
      BY <1>1 DEF QueueDone, Step, EvalRecords
    <3>8. CASE ConsiderQueue(e) \/ CheckCapacity(e)
      BY <1>1, <3>7, <3>8
         DEF ConsiderQueue, CheckCapacity, SpawnQueue, Step, EvalRecords
    <3> QED BY <1>7, <3>1, <3>2, <3>3, <3>4, <3>5, <3>6, <3>8 DEF EvaluateQueues
  <2> QED BY <1>2, <2>1
<1>8. ASSUME NEW f \in Evaluators, f # e,
             \/ SweepBegin(f) \/ SweepSearch(f) \/ FlushBegin(f) \/ TakeLock(f)
             \/ EvaluateTicket(f) \/ EvaluateQueues(f) \/ EvaluationFails(f) \/ PassFails(f)
      PROVE  ev'[e] = ev[e]
  <2>1. Evaluate(f)
    BY <1>8, PassEvaluates, TicketEvaluates, DispatchEvaluates
       DEF IInv, EvaluateTicket, EvaluateQueues
  <2> QED BY <1>1, <1>8, <2>1 DEF Evaluate
<1>9. CASE Reborn
  <2>1. ev'[e] = Idle
    BY <1>9 DEF Reborn
  <2> QED BY <1>2, <2>1, IdleType
<1>10. CASE UNCHANGED ev
  BY <1>3, <1>10
<1>11. \/ UNCHANGED ev
       \/ Reborn
       \/ \E f \in Evaluators :
             \/ SweepBegin(f) \/ SweepSearch(f) \/ FlushBegin(f) \/ TakeLock(f)
             \/ EvaluateTicket(f) \/ EvaluateQueues(f) \/ EvaluationFails(f) \/ PassFails(f)
  BY DEF Next, Environment, OnStatusChange, PauseOrResume, Restart, Shutdown, BeginStop, Exit,
     Notice, ReleaseLeft, orchVars, vars
<1> QED BY <1>3, <1>4, <1>5, <1>6, <1>7, <1>8, <1>9, <1>10, <1>11 DEF EvaluateTicket

\* Only four steps of an evaluator may start a run.
LEMMA StartersOnly ==
  ASSUME [Next]_vars
  PROVE  \/ \E e \in Evaluators : ReadWaiting(e) \/ Unpark(e) \/ ConsiderQueue(e) \/ CheckCapacity(e)
         \/ run' = run
         \/ \E q \in Runs : RunStep(q) \/ Notice(q)
         \/ Reborn
<1>1. CASE \E e \in Evaluators :
             \/ SweepBegin(e) \/ SweepSearch(e) \/ FlushBegin(e) \/ TakeLock(e)
             \/ EvaluateTicket(e) \/ EvaluateQueues(e) \/ EvaluationFails(e) \/ PassFails(e)
  <2>1. PICK e \in Evaluators :
             \/ SweepBegin(e) \/ SweepSearch(e) \/ FlushBegin(e) \/ TakeLock(e)
             \/ EvaluateTicket(e) \/ EvaluateQueues(e) \/ EvaluationFails(e) \/ PassFails(e)
    BY <1>1
  <2>2. CASE SweepBegin(e) \/ SweepSearch(e) \/ FlushBegin(e) \/ TakeLock(e)
             \/ EvaluationFails(e) \/ PassFails(e)
    BY <2>2 DEF SweepBegin, SweepSearch, FlushBegin, TakeLock, EvaluationFails, Evaluating, PassFails
  <2>3. CASE EvaluateTicket(e)
    BY <2>1, <2>3 DEF EvaluateTicket, Evaluating, Consider, ReadLease, Reclaim, ReclaimBumpRead,
       ReclaimBumpWrite, ReadRetries, ResetRetries, EscalateTicket, ReadRework
  <2>4. CASE EvaluateQueues(e)
    BY <2>1, <2>4 DEF EvaluateQueues, EnterQueues, LeaveQueues
  <2> QED BY <2>1, <2>2, <2>3, <2>4
<1>2. CASE ~\E e \in Evaluators :
             \/ SweepBegin(e) \/ SweepSearch(e) \/ FlushBegin(e) \/ TakeLock(e)
             \/ EvaluateTicket(e) \/ EvaluateQueues(e) \/ EvaluationFails(e) \/ PassFails(e)
  BY <1>2 DEF Next, Environment, Expire, OnStatusChange, PauseOrResume, Restart, Shutdown,
     BeginStop, Exit, ReleaseLeft, vars
<1> QED BY <1>1, <1>2

\* A run of a ticket role that starts was chosen by an evaluator at the end of
\* its checks.
LEMMA TicketStart ==
  ASSUME IInv, [Next]_vars, NEW r \in Runs, Started(r), r[1] \in TicketSlots
  PROVE  \E e \in Evaluators : ev[e].pc \in {"waiting", "unpark"} /\ ev[e].slot = r[1]
<1>1. /\ ev \in [Evaluators -> EvalRecords] /\ run \in [Runs -> RunRecords]
      /\ run'[r] # run[r] /\ ~Live(r) /\ run'[r].pc # "done" /\ r[1] \in TicketSlots
  BY DEF IInv, TypeOK, RunTypeOK, Started, Live
<1>2. ASSUME NEW e \in Evaluators, NEW x \in Slots, NEW s, NEW ts, Spawn(x, s, ts)
      PROVE  r[1] = x
  <2>1. PICK i \in Instances : run' = [run EXCEPT ![<<x, i>>] = NewRun(x, s, ts)]
    BY <1>2 DEF Spawn
  <2>2. r = <<x, i>>
    BY <1>1, <2>1
  <2> QED BY <2>2
<1>3. ASSUME NEW e \in Evaluators, Dispatch(e), ev[e].pc \in {"waiting", "unpark"}
      PROVE  ev[e].pc \in {"waiting", "unpark"} /\ ev[e].slot = r[1]
  <2>1. ev[e].slot \in Slots
    BY <1>3, Static DEF IInv, Reserved, TicketPcs
  <2>2. r[1] = ev[e].slot
    BY <1>1, <1>2, <1>3, <2>1 DEF Dispatch
  <2> QED BY <1>3, <2>2
<1>4. ASSUME NEW e \in Evaluators, NEW q \in QueueRoles, SpawnQueue(e, q)
      PROVE  FALSE
  <2>1. <<q, NoTicket>> \in Slots
    BY DEF QueueSlots, Slots
  <2>2. r[1] = <<q, NoTicket>>
    BY <1>2, <1>4, <2>1 DEF SpawnQueue
  <2> QED BY <1>1, <2>2, PipelineAssumption DEF TicketSlots
<1>5. ASSUME NEW e \in Evaluators, ReadWaiting(e) \/ Unpark(e)
      PROVE  ev[e].pc \in {"waiting", "unpark"} /\ ev[e].slot = r[1]
  <2>1. Dispatch(e) /\ ev[e].pc \in {"waiting", "unpark"}
    BY <1>1, <1>5 DEF ReadWaiting, Unpark, Evaluating, InPc
  <2> QED BY <1>3, <2>1
<1>6. ASSUME NEW e \in Evaluators, ConsiderQueue(e) \/ CheckCapacity(e)
      PROVE  FALSE
  <2>1. \A q \in ev[e].qtodo : q \in QueueRoles
    BY <1>1 DEF EvalRecords
  <2>2. CheckCapacity(e) => ev[e].slot[1] \in QueueRoles
    BY Static DEF CheckCapacity, InPc, IInv, Reserved
  <2>3. \E q \in QueueRoles : SpawnQueue(e, q)
    BY <1>1, <1>6, <2>1, <2>2 DEF ConsiderQueue, CheckCapacity
  <2> QED BY <1>4, <2>3
<1>7. \/ \E e \in Evaluators : ReadWaiting(e) \/ Unpark(e) \/ ConsiderQueue(e) \/ CheckCapacity(e)
      \/ run' = run
      \/ \E q \in Runs : RunStep(q) \/ Notice(q)
      \/ Reborn
  BY StartersOnly
<1>8. ASSUME NEW q \in Runs, RunStep(q) \/ Notice(q)
      PROVE  FALSE
  <2>1. Advance(q) /\ Live(q)
    BY <1>8, RunStepAdvances, CancelAdvances DEF IInv, TypeOK, Notice
  <2>2. \A p \in Runs : p # q => run'[p] = run[p]
    BY <2>1, AdvanceFrame DEF IInv, TypeOK
  <2> QED BY <1>1, <2>1, <2>2
<1>9. ~Reborn
  BY <1>1, DoneRunType DEF Reborn
<1> QED BY <1>1, <1>5, <1>6, <1>7, <1>8, <1>9

(***************************************************************************)
(* The invariant and the theorem.                                          *)
(***************************************************************************)
\* A router that counts a rejection is a live run of its slot, so no evaluator
\* has that slot reserved.
LEMMA CountingIsExclusive ==
  ASSUME IInv, NEW r \in Runs, IncrementRework(r), NEW e \in Evaluators, PastLimit(e)
  PROVE  rework'[TicketOf(e)] = rework[TicketOf(e)]
<1>1. ev[e].slot \in TicketSlots /\ running[ev[e].slot] = NotRunning
  BY DEF PastLimit, IInv, Reserved, TicketPcs, Registered
<1>2. r[1] \in Slots /\ r[2] \in Instances /\ r = <<r[1], r[2]>> /\ r[2] # 0
  BY OwnTickets, RunAssumption
<1>3. Live(r) /\ r[1][1] = Router
  BY DEF IncrementRework, At, Live, RoleOf
<1>4. running[r[1]] = [inst |-> r[2], status |-> run[r].at]
  BY <1>2, <1>3 DEF IInv, LiveRegistered
<1>5. ev[e].slot # r[1]
  BY <1>1, <1>2, <1>4 DEF NotRunning
<1>6. ev[e].slot = <<Router, TicketOf(e)>> /\ TicketOf(e) \in Tickets
  BY <1>1 DEF PastLimit, TicketSlots, TicketOf
<1>7. r[1] = <<Router, OwnTicket(r)>>
  BY <1>2, <1>3 DEF Slots, TicketSlots, QueueSlots, OwnTicket
<1>8. TicketOf(e) # OwnTicket(r)
  BY <1>5, <1>6, <1>7
<1>9. rework' = [rework EXCEPT ![OwnTicket(r)] = @ + 1] /\ rework \in [Tickets -> Nat]
  BY DEF IncrementRework, IInv, TypeOK, BoardTypeOK
<1> QED BY <1>6, <1>8, <1>9

\* What an evaluator saw of the rework count stays so until it is done.
LEMMA LimitSeenStep ==
  ASSUME IInv, LimitSeen, [Next]_vars
  PROVE  LimitSeen'
<1> SUFFICES ASSUME NEW e \in Evaluators, PastLimit(e)'
             PROVE  ~(rework'[ev'[e].slot[2]] > ReworkLimit)
  BY DEF LimitSeen, OverReworkLimit, TicketOf
<1>1. CASE ~OverReworkLimit(TicketOf(e)) /\ ev'[e].slot = ev[e].slot /\ rework' = rework
  BY <1>1 DEF OverReworkLimit, TicketOf
<1>2. CASE PastLimit(e) /\ ev'[e].slot = ev[e].slot
  <2>1. rework'[TicketOf(e)] = rework[TicketOf(e)]
    BY <1>2, OnlyRoutersCount, CountingIsExclusive
  <2>2. ~(rework[TicketOf(e)] > ReworkLimit)
    BY <1>2 DEF LimitSeen, OverReworkLimit
  <2> QED BY <1>2, <2>1, <2>2 DEF TicketOf
<1> QED BY <1>1, <1>2, ReachesPastLimit

\* The loop-breaker: no router starts on a ticket whose rework count exceeds the
\* limit, whatever sweeps, flushes, runs and humans do between the check and
\* the start.
THEOREM RouterLimited == Spec => RouterWithinReworkLimit
<1>1. Init => LimitSeen
  BY IdleType DEF Init, LimitSeen, PastLimit
<1>2. IInv /\ LimitSeen /\ [Next]_vars => LimitSeen'
  BY LimitSeenStep
<1>3. ASSUME IInv, LimitSeen, [Next]_vars, NEW r \in Runs, Started(r), RoleOf(r) = Router
      PROVE  rework[OwnTicket(r)] <= ReworkLimit
  <2>0. r[1] \in TicketSlots
    BY <1>3, OwnTickets, PipelineAssumption DEF IsQueueRun
  <2>1. PICK e \in Evaluators : PastLimit(e) /\ ev[e].slot = r[1]
    BY <1>3, <2>0, TicketStart DEF PastLimit, RoleOf
  <2>2. ~(rework[OwnTicket(r)] > ReworkLimit)
    BY <1>3, <2>1 DEF LimitSeen, OverReworkLimit, TicketOf, OwnTicket
  <2>3. rework[OwnTicket(r)] \in Nat /\ ReworkLimit \in Nat
    BY <1>3, OwnTickets, PipelineAssumption DEF IInv, TypeOK, BoardTypeOK
  <2> QED BY <2>2, <2>3
<1>4. IInv /\ LimitSeen /\ [Next]_vars
        => [\A r \in Runs : Started(r) /\ RoleOf(r) = Router
                            => rework[OwnTicket(r)] <= ReworkLimit]_vars
  BY <1>3
<1> QED BY <1>1, <1>2, <1>4, InductiveInvariant, PTL DEF Spec, RouterWithinReworkLimit

(***************************************************************************)
(* Each step of a run, told by the fields of the record it leaves.         *)
(***************************************************************************)
To(r, pc, op, key, held, cnt) ==
  /\ run'[r].pc = pc /\ run'[r].op = op /\ run'[r].key = key
  /\ run'[r].held = held /\ run'[r].cnt = cnt

Ends(r) == To(r, "done", "none", NoTicket, {}, 0)

LEMMA Became ==
  ASSUME RunTypeOK, NEW r \in Runs, NEW rec, Become(r, rec)
  PROVE  run'[r] = rec
BY DEF RunTypeOK, Become

LEMMA FieldsOf ==
  ASSUME RunTypeOK, NEW r \in Runs
  PROVE  run[r] \in RunRecords
BY DEF RunTypeOK

LEMMA BecameDone ==
  ASSUME RunTypeOK, NEW r \in Runs, Become(r, DoneRun)
  PROVE  Ends(r)
BY Became DEF Ends, To, DoneRun

LEMMA WentTo ==
  ASSUME RunTypeOK, NEW r \in Runs, NEW p, Goto(r, p)
  PROVE  To(r, p, run[r].op, run[r].key, run[r].held, run[r].cnt)
<1>1. run'[r] = [run[r] EXCEPT !.pc = p]
  BY Became DEF Goto
<1> QED BY <1>1, FieldsOf DEF To, RunRecords

LEMMA BackToWork ==
  ASSUME RunTypeOK, NEW r \in Runs, Become(r, Working(run[r]))
  PROVE  To(r, "work", "none", run[r].key, run[r].held, 0)
<1>1. run'[r] = Working(run[r])
  BY Became
<1> QED BY <1>1, FieldsOf DEF To, RunRecords, Working

LEMMA BackToWorkHolding ==
  ASSUME RunTypeOK, NEW r \in Runs, NEW h, Become(r, [Working(run[r]) EXCEPT !.held = h])
  PROVE  To(r, "work", "none", run[r].key, h, 0)
<1>1. run'[r] = [Working(run[r]) EXCEPT !.held = h]
  BY Became
<1> QED BY <1>1, FieldsOf DEF To, RunRecords, Working

LEMMA CallBegun ==
  ASSUME RunTypeOK, NEW r \in Runs, NEW p, NEW o, NEW k, NEW s,
         \/ Become(r, [run[r] EXCEPT !.pc = p, !.op = o, !.key = k])
         \/ Become(r, [run[r] EXCEPT !.pc = p, !.op = o, !.key = k, !.to = s])
  PROVE  To(r, p, o, k, run[r].held, run[r].cnt)
<1>1. \/ run'[r] = [run[r] EXCEPT !.pc = p, !.op = o, !.key = k]
      \/ run'[r] = [run[r] EXCEPT !.pc = p, !.op = o, !.key = k, !.to = s]
  BY Became
<1> QED BY <1>1, FieldsOf DEF To, RunRecords

LEMMA ClaimReadTells ==
  ASSUME RunTypeOK, NEW r \in Runs, ClaimRead(r)
  PROVE  \/ To(r, "writing", run[r].op, run[r].key, run[r].held, run[r].cnt)
         \/ IsQueueRun(r) /\ To(r, "work", "none", run[r].key, run[r].held, 0)
         \/ ~IsQueueRun(r) /\ Ends(r)
<1>1. CASE ~ClaimRefused(r)
  <2>1. Goto(r, "writing")
    BY <1>1 DEF ClaimRead, Goto
  <2> QED BY <2>1, WentTo
<1>2. CASE ClaimRefused(r) /\ IsQueueRun(r)
  BY <1>2, BackToWork DEF ClaimRead
<1>3. CASE ClaimRefused(r) /\ ~IsQueueRun(r)
  BY <1>3, BecameDone DEF ClaimRead
<1> QED BY <1>1, <1>2, <1>3

LEMMA ClaimWriteTells ==
  ASSUME RunTypeOK, NEW r \in Runs, ClaimWrite(r)
  PROVE  To(r, "work", "none", run[r].key, run[r].held \cup {run[r].key}, 0)
<1>1. Working(run[r]).held = run[r].held
  BY WorkingType, FieldsOf
<1>2. Become(r, [Working(run[r]) EXCEPT !.held = run[r].held \cup {run[r].key}])
  BY <1>1 DEF ClaimWrite
<1> QED BY <1>2, BackToWorkHolding

LEMMA ClaimFailsTells ==
  ASSUME RunTypeOK, NEW r \in Runs, ClaimFails(r)
  PROVE  \/ IsQueueRun(r) /\ To(r, "work", "none", run[r].key, run[r].held, 0)
         \/ ~IsQueueRun(r) /\ Ends(r)
BY BackToWork, BecameDone DEF ClaimFails

LEMMA BeginClaimTells ==
  ASSUME RunTypeOK, NEW r \in Runs, BeginClaim(r)
  PROVE  \E k \in Tickets \ run[r].held :
           To(r, "claiming", run[r].op, k, run[r].held, run[r].cnt)
<1>1. PICK k \in run[r].list \ run[r].held :
        Become(r, [run[r] EXCEPT !.pc = "claiming", !.key = k])
  BY DEF BeginClaim
<1>2. run'[r] = [run[r] EXCEPT !.pc = "claiming", !.key = k]
  BY <1>1, Became
<1>3. To(r, "claiming", run[r].op, k, run[r].held, run[r].cnt) /\ k \in Tickets
  BY <1>1, <1>2, FieldsOf DEF To, RunRecords
<1> QED BY <1>1, <1>3

LEMMA BeginHandoffTells ==
  ASSUME RunTypeOK, NEW r \in Runs, BeginHandoff(r)
  PROVE  \E k \in run[r].held : To(r, "move", "step", k, run[r].held, run[r].cnt)
BY CallBegun DEF BeginHandoff

LEMMA MoveTells ==
  ASSUME RunTypeOK, NEW r \in Runs, Move(r)
  PROVE  \/ /\ Transition(run[r].key, run[r].to)
            /\ To(r, "clear", run[r].op, run[r].key, run[r].held, run[r].cnt)
         \/ /\ UNCHANGED boardVars
            /\ To(r, "work", "none", run[r].key, run[r].held, 0)
BY WentTo, BackToWork DEF Move

LEMMA BeginEscalateTells ==
  ASSUME RunTypeOK, NEW r \in Runs, BeginEscalate(r)
  PROVE  \E k \in run[r].held : /\ To(r, "release", "step", k, run[r].held, run[r].cnt)
                                /\ AddLabels(k, {"needs-human"})
BY CallBegun DEF BeginEscalate

LEMMA BeginReleaseTells ==
  ASSUME RunTypeOK, NEW r \in Runs, BeginRelease(r)
  PROVE  \E k \in run[r].held : To(r, "release", "step", k, run[r].held, run[r].cnt)
BY CallBegun DEF BeginRelease

LEMMA BeginFinishTells ==
  ASSUME RunTypeOK, NEW r \in Runs, BeginFinish(r)
  PROVE  \/ run[r].held = {} /\ Ends(r)
         \/ \E k \in run[r].held : To(r, "release", "finish", k, run[r].held, run[r].cnt)
BY CallBegun, BecameDone DEF BeginFinish

LEMMA BeginCrashTells ==
  ASSUME RunTypeOK, NEW r \in Runs, BeginCrash(r)
  PROVE  \/ run[r].held = {} /\ Ends(r)
         \/ \E k \in run[r].held : To(r, "bump", "crash", k, run[r].held, run[r].cnt)
BY CallBegun, BecameDone DEF BeginCrash

LEMMA BumpReadTells ==
  ASSUME RunTypeOK, NEW r \in Runs, BumpRead(r)
  PROVE  To(r, "bumped", run[r].op, run[r].key, run[r].held, retries[run[r].key])
<1>1. run'[r] = [run[r] EXCEPT !.pc = "bumped", !.cnt = retries[run[r].key]]
  BY Became DEF BumpRead
<1> QED BY <1>1, FieldsOf DEF To, RunRecords

LEMMA BumpWriteTells ==
  ASSUME RunTypeOK, NEW r \in Runs, BumpWrite(r)
  PROVE  To(r, "release", run[r].op, run[r].key, run[r].held, 0)
<1>1. run'[r] = [run[r] EXCEPT !.pc = "release", !.cnt = 0]
  BY Became DEF BumpWrite
<1> QED BY <1>1, FieldsOf DEF To, RunRecords

\* The four ways to go on after a release.
LEMMA AfterReleaseTells ==
  ASSUME RunTypeOK, NEW r \in Runs, AfterRelease(r), NEW left,
         left = run[r].held \ {run[r].key}
  PROVE  \/ /\ run[r].op = "step" /\ IsQueueRun(r)
            /\ To(r, "work", "none", run[r].key, left, 0)
         \/ run[r].op = "step" /\ ~IsQueueRun(r) /\ Ends(r)
         \/ run[r].op # "step" /\ left = {} /\ Ends(r)
         \/ /\ run[r].op # "step"
            /\ \E k \in left : \E p \in {"bump", "release"} :
                 /\ To(r, p, run[r].op, k, left, 0)
                 /\ p = "bump" <=> run[r].op = "crash"
<1>1. CASE run[r].op = "step" /\ IsQueueRun(r) /\ Become(r, [Working(run[r]) EXCEPT !.held = left])
  BY <1>1, BackToWorkHolding
<1>2. CASE Become(r, DoneRun) /\ (IF run[r].op = "step" THEN ~IsQueueRun(r) ELSE left = {})
  BY <1>2, BecameDone
<1>3. ASSUME run[r].op # "step", NEW k \in left, NEW p,
             p = IF run[r].op = "crash" THEN "bump" ELSE "release",
             Become(r, [run[r] EXCEPT !.held = left, !.key = k, !.cnt = 0, !.pc = p])
      PROVE  To(r, p, run[r].op, k, left, 0)
  <2>1. run'[r] = [run[r] EXCEPT !.held = left, !.key = k, !.cnt = 0, !.pc = p]
    BY <1>3, Became
  <2> QED BY <2>1, FieldsOf DEF To, RunRecords
<1> QED BY <1>1, <1>2, <1>3 DEF AfterRelease

LEMMA HeartbeatTells ==
  ASSUME RunTypeOK, NEW r \in Runs, Heartbeat(r)
  PROVE  \E t \in run[r].held :
           \/ /\ lease[t].role = RoleOf(r) /\ WriteLease(t, FreshLease(RoleOf(r)))
              /\ UNCHANGED run
           \/ /\ lease[t].role # RoleOf(r) /\ IsQueueRun(r) /\ UNCHANGED boardVars
              /\ To(r, run[r].pc, run[r].op, run[r].key, run[r].held \ {t}, run[r].cnt)
<1>1. ASSUME NEW t, Become(r, [run[r] EXCEPT !.held = @ \ {t}])
      PROVE  To(r, run[r].pc, run[r].op, run[r].key, run[r].held \ {t}, run[r].cnt)
  <2>1. run'[r] = [run[r] EXCEPT !.held = @ \ {t}]
    BY <1>1, Became
  <2> QED BY <2>1, FieldsOf DEF To, RunRecords
<1> QED BY <1>1 DEF Heartbeat

LEMMA CancelTells ==
  ASSUME RunTypeOK, NEW r \in Runs, Cancel(r)
  PROVE  \/ Entered(r) /\ \E k \in run[r].held : To(r, "release", "cancel", k, run[r].held, 0)
         \/ (~Entered(r) \/ run[r].held = {} \/ run[r].op = "crash") /\ Ends(r)
<1>1. ASSUME NEW k, Become(r, [Working(run[r]) EXCEPT !.pc = "release", !.op = "cancel", !.key = k])
      PROVE  To(r, "release", "cancel", k, run[r].held, 0)
  <2>1. run'[r] = [Working(run[r]) EXCEPT !.pc = "release", !.op = "cancel", !.key = k]
    BY <1>1, Became
  <2> QED BY <2>1, FieldsOf DEF To, RunRecords, Working
<1> QED BY <1>1, BecameDone DEF Cancel

(***************************************************************************)
(* What a run holds.                                                       *)
(***************************************************************************)
\* A ticket role's run has no ticket but its own, and holds it only after its
\* claim; a transition is one tool call, a cleanup ends with a release.
Fits(r, pc, op, key, held) ==
  /\ pc = "start" => held = {}
  /\ pc = "claiming" => IsQueueRun(r)
  /\ pc \in {"move", "clear", "reset"} => op = "step"
  /\ op = "crash" => pc \in {"bump", "bumped", "release"}
  /\ op = "cancel" => pc = "release"
  /\ ~IsQueueRun(r) =>
       /\ held \subseteq {OwnTicket(r)}
       /\ pc \notin {"work", "done"} => key = OwnTicket(r)

Own == \A r \in Runs : Fits(r, run[r].pc, run[r].op, run[r].key, run[r].held)

LEMMA ToFits ==
  ASSUME NEW r, NEW pc, NEW op, NEW key, NEW held, NEW cnt,
         To(r, pc, op, key, held, cnt), Fits(r, pc, op, key, held)
  PROVE  Fits(r, run'[r].pc, run'[r].op, run'[r].key, run'[r].held)
BY DEF To, Fits

LEMMA EndsFits ==
  ASSUME NEW r, Ends(r)
  PROVE  Fits(r, run'[r].pc, run'[r].op, run'[r].key, run'[r].held)
BY DEF Ends, To, Fits

LEMMA AfterReleaseFits ==
  ASSUME RunTypeOK, Own, NEW r \in Runs, AfterRelease(r),
         run[r].pc = "release" \/ run[r].op \in {"crash", "cancel"}
  PROVE  Fits(r, run'[r].pc, run'[r].op, run'[r].key, run'[r].held)
<1> DEFINE left == run[r].held \ {run[r].key}
<1>1. Fits(r, run[r].pc, run[r].op, run[r].key, run[r].held)
  BY DEF Own
<1>2. ~IsQueueRun(r) => left = {}
  BY <1>1 DEF Fits
<1> HIDE DEF left
<1>3. left = run[r].held \ {run[r].key}
  BY DEF left
<1>4. CASE IsQueueRun(r) /\ To(r, "work", "none", run[r].key, left, 0)
  BY <1>4, ToFits DEF Fits
<1>5. CASE Ends(r)
  BY <1>5, EndsFits
<1>6. ASSUME NEW k \in left, NEW p \in {"bump", "release"}, To(r, p, run[r].op, k, left, 0),
             p = "bump" <=> run[r].op = "crash", run[r].op # "step"
      PROVE  Fits(r, run'[r].pc, run'[r].op, run'[r].key, run'[r].held)
  <2>1. Fits(r, p, run[r].op, k, left)
    BY <1>2, <1>6 DEF Fits
  <2> QED BY <1>6, <2>1, ToFits
<1> QED BY <1>3, <1>4, <1>5, <1>6, AfterReleaseTells

LEMMA ProceedFits ==
  ASSUME RunTypeOK, Own, NEW r \in Runs, Proceed(r) \/ ClaimFails(r) \/ CallFails(r)
  PROVE  Fits(r, run'[r].pc, run'[r].op, run'[r].key, run'[r].held)
<1>1. Fits(r, run[r].pc, run[r].op, run[r].key, run[r].held)
  BY DEF Own
<1>2. CASE ClaimRead(r)
  BY <1>1, <1>2, ClaimReadTells, ToFits, EndsFits DEF ClaimRead, Fits
<1>3. CASE ClaimWrite(r)
  BY <1>1, <1>3, ClaimWriteTells, ToFits DEF ClaimWrite, At, Fits
<1>4. CASE Move(r)
  <2>1. run[r].pc = "move"
    BY <1>4 DEF Move, At
  <2> QED BY <1>1, <1>4, <2>1, MoveTells, ToFits DEF Fits
<1>5. CASE ClearWaiting(r)
  BY <1>1, <1>5, WentTo, ToFits DEF ClearWaiting, At, Fits
<1>6. CASE ClearRetries(r)
  BY <1>1, <1>6, WentTo, ToFits DEF ClearRetries, At, Fits
<1>7. CASE BumpRead(r)
  <2> DEFINE n == retries[run[r].key]
  <2>1. To(r, "bumped", run[r].op, run[r].key, run[r].held, n)
    BY <1>7, BumpReadTells
  <2>2. Fits(r, "bumped", run[r].op, run[r].key, run[r].held)
    BY <1>1, <1>7 DEF BumpRead, At, Fits
  <2> HIDE DEF n
  <2> QED BY <2>1, <2>2, ToFits
<1>8. CASE BumpWrite(r)
  BY <1>1, <1>8, BumpWriteTells, ToFits DEF BumpWrite, At, Fits
<1>9. CASE Release(r)
  BY <1>9, AfterReleaseFits DEF Release, At
<1>10. CASE ClaimFails(r)
  BY <1>1, <1>10, ClaimFailsTells, ToFits, EndsFits DEF Fits
<1>11. CASE CallFails(r)
  <2>1. CASE run[r].op \in {"crash", "cancel"}
    BY <1>11, <2>1, AfterReleaseFits DEF CallFails
  <2>2. CASE Become(r, Working(run[r]))
    BY <1>1, <2>2, BackToWork, ToFits DEF Fits
  <2> QED BY <1>11, <2>1, <2>2 DEF CallFails
<1> QED BY <1>2, <1>3, <1>4, <1>5, <1>6, <1>7, <1>8, <1>9, <1>10, <1>11 DEF Proceed

LEMMA ChoiceFits ==
  ASSUME RunTypeOK, Own, NEW r \in Runs, Choose(r) \/ Heartbeat(r) \/ BeatRead(r) \/ Cancel(r)
  PROVE  Fits(r, run'[r].pc, run'[r].op, run'[r].key, run'[r].held)
<1>1. Fits(r, run[r].pc, run[r].op, run[r].key, run[r].held)
  BY DEF Own
<1>2. CASE BeginClaim(r)
  <2>1. PICK k \in Tickets \ run[r].held :
          To(r, "claiming", run[r].op, k, run[r].held, run[r].cnt)
    BY <1>2, BeginClaimTells
  <2>2. Fits(r, "claiming", run[r].op, k, run[r].held)
    BY <1>1, <1>2 DEF BeginClaim, At, Fits
  <2> QED BY <2>1, <2>2, ToFits
<1>3. ASSUME NEW k \in run[r].held, NEW p, NEW o, To(r, p, o, k, run[r].held, run[r].cnt),
             \/ p = "move" /\ o = "step"
             \/ p = "release" /\ o \in {"step", "finish"}
             \/ p = "bump" /\ o = "crash"
      PROVE  Fits(r, run'[r].pc, run'[r].op, run'[r].key, run'[r].held)
  <2>1. Fits(r, p, o, k, run[r].held)
    BY <1>1, <1>3 DEF Fits
  <2> QED BY <1>3, <2>1, ToFits
<1>4. CASE BeginHandoff(r)
  BY <1>3, <1>4, BeginHandoffTells
<1>5. CASE BeginEscalate(r)
  BY <1>3, <1>5, BeginEscalateTells
<1>6. CASE BeginRelease(r)
  BY <1>3, <1>6, BeginReleaseTells
<1>7. CASE BeginFinish(r)
  BY <1>3, <1>7, BeginFinishTells, EndsFits
<1>8. CASE BeginCrash(r)
  BY <1>3, <1>8, BeginCrashTells, EndsFits
<1>9. CASE UNCHANGED run
  BY <1>1, <1>9
<1>10. CASE Heartbeat(r)
  <2>1. ASSUME NEW t,
               To(r, run[r].pc, run[r].op, run[r].key, run[r].held \ {t}, run[r].cnt)
        PROVE  Fits(r, run'[r].pc, run'[r].op, run'[r].key, run'[r].held)
    <3>1. Fits(r, run[r].pc, run[r].op, run[r].key, run[r].held \ {t})
      BY <1>1 DEF Fits
    <3> QED BY <2>1, <3>1, ToFits
  <2> QED BY <1>9, <1>10, <2>1, HeartbeatTells
<1>11. CASE Cancel(r)
  <2>1. ASSUME NEW k \in run[r].held, To(r, "release", "cancel", k, run[r].held, 0)
        PROVE  Fits(r, run'[r].pc, run'[r].op, run'[r].key, run'[r].held)
    <3>1. Fits(r, "release", "cancel", k, run[r].held)
      BY <1>1, <2>1 DEF Fits
    <3> QED BY <2>1, <3>1, ToFits
  <2> QED BY <1>11, <2>1, CancelTells, EndsFits
<1> QED BY <1>2, <1>4, <1>5, <1>6, <1>7, <1>8, <1>9, <1>10, <1>11
        DEF Choose, IncrementRework, BeatRead

\* The steps that write the runs: a run's own, a cancellation, a start, and the
\* end of the process.
LEMMA WhoMovesRuns ==
  ASSUME IInv, [Next]_vars
  PROVE  \/ run' = run
         \/ \E r \in Runs : /\ RunStep(r) \/ Notice(r)
                            /\ Advance(r) /\ Live(r)
                            /\ \A q \in Runs : q # r => run'[q] = run[q]
         \/ \E e \in Evaluators : SomeAdmitted(e)
         \/ Reborn
<1>1. TypeOK /\ RunTypeOK /\ BoardTypeOK /\ RunKeys /\ Reserved
  BY DEF IInv, TypeOK
<1>2. ASSUME NEW r \in Runs, RunStep(r) \/ Notice(r)
      PROVE  Advance(r) /\ Live(r) /\ \A q \in Runs : q # r => run'[q] = run[q]
  <2>1. Advance(r) /\ Live(r)
    BY <1>1, <1>2, RunStepAdvances, CancelAdvances DEF Notice
  <2> QED BY <1>1, <2>1, AdvanceFrame
<1> QED BY <1>1, <1>2, StartersOnly, DispatchEvaluates

\* The record of a run that starts.
LEMMA NewRunFits ==
  ASSUME NEW x \in Slots, NEW i \in Instances, NEW s, NEW ts, NEW rec, rec = NewRun(x, s, ts)
  PROVE  /\ rec.held = {} /\ rec.op = "none" /\ rec.cnt = 0 /\ rec.at = s
         /\ rec.pc = IF x[1] \in QueueRoles THEN "work" ELSE "start"
         /\ Fits(<<x, i>>, rec.pc, rec.op, rec.key, rec.held)
BY DEF NewRun, DoneRun, Fits, IsQueueRun, RoleOf, OwnTicket

LEMMA DoneRunFits == \A r : Fits(r, DoneRun.pc, DoneRun.op, DoneRun.key, DoneRun.held)
BY DEF DoneRun, Fits

LEMMA OwnKept ==
  ASSUME IInv, Own, [Next]_vars
  PROVE  Own'
<1>1. run \in [Runs -> RunRecords] /\ RunTypeOK
  BY DEF IInv, TypeOK, RunTypeOK
<1>2. CASE run' = run
  BY <1>2 DEF Own
<1>3. ASSUME NEW r \in Runs, RunStep(r) \/ Notice(r), \A q \in Runs : q # r => run'[q] = run[q]
      PROVE  Own'
  <2>1. Fits(r, run'[r].pc, run'[r].op, run'[r].key, run'[r].held)
    BY <1>1, <1>3, ProceedFits, ChoiceFits DEF RunStep, Notice
  <2> QED BY <1>3, <2>1 DEF Own
<1>4. ASSUME NEW e \in Evaluators, SomeAdmitted(e)
      PROVE  Own'
  <2>1. PICK x \in Slots, i \in Instances, s \in Statuses, ts \in SUBSET Tickets :
          Admits(e, x, i, s, ts)
    BY <1>4 DEF SomeAdmitted
  <2> DEFINE rec == NewRun(x, s, ts)
  <2>2. Fits(<<x, i>>, rec.pc, rec.op, rec.key, rec.held)
    BY NewRunFits
  <2> HIDE DEF rec
  <2>3. run' = [run EXCEPT ![<<x, i>>] = rec]
    BY <2>1 DEF Admits, rec
  <2>4. \A q \in Runs : run'[q] = IF q = <<x, i>> THEN rec ELSE run[q]
    BY <1>1, <2>3
  <2> QED BY <2>2, <2>4 DEF Own
<1>5. CASE Reborn
  <2>1. \A q \in Runs : run'[q] = DoneRun
    BY <1>5 DEF Reborn
  <2> QED BY <2>1, DoneRunFits DEF Own
<1> QED BY <1>2, <1>3, <1>4, <1>5, WhoMovesRuns

LEMMA OwnInitially == Init => Own
BY DoneRunFits DEF Init, RunInit, Own

\* What a run holds is its own, for every pipeline.
THEOREM RunsHoldTheirOwn == Spec => []Own
<1>1. Init => Own
  BY OwnInitially
<1>2. IInv /\ Own /\ [Next]_vars => Own'
  BY OwnKept
<1> QED BY <1>1, <1>2, InductiveInvariant, PTL DEF Spec

(***************************************************************************)
(* Each step of an evaluator, told by the record it leaves.                *)
(***************************************************************************)
\* It stays with the ticket, or goes on to the next one, or is between tickets.
On(e, pc, cnt) ==
  /\ ev'[e].pc = pc /\ ev'[e].cnt = cnt
  /\ ev'[e].slot = ev[e].slot /\ ev'[e].st = ev[e].st
  /\ ev'[e].todo = ev[e].todo /\ ev'[e].snap = ev[e].snap

Nexts(e) ==
  /\ ev'[e].pc = "pick" /\ ev'[e].snap = ev[e].snap
  /\ ev'[e].todo = ev[e].todo \ {TicketOf(e)}

Between(e) ==
  /\ ev'[e].pc \in {"idle", "pick", "queues", "capacity"}
  /\ ev'[e].todo \subseteq ev[e].todo
  /\ ev'[e].todo = {} \/ ev'[e].snap = ev[e].snap

Evaluators0 == ev \in [Evaluators -> EvalRecords]

LEMMA Stepped ==
  ASSUME Evaluators0, NEW e \in Evaluators, NEW rec, Step(e, rec)
  PROVE  ev'[e] = rec /\ ev[e] \in EvalRecords
BY DEF Evaluators0, Step

LEMMA SteppedOn ==
  ASSUME Evaluators0, NEW e \in Evaluators, NEW p, Step(e, [ev[e] EXCEPT !.pc = p])
  PROVE  On(e, p, ev[e].cnt)
<1>1. ev'[e] = [ev[e] EXCEPT !.pc = p] /\ ev[e] \in EvalRecords
  BY Stepped
<1> QED BY <1>1 DEF On, EvalRecords

LEMMA SteppedCounting ==
  ASSUME Evaluators0, NEW e \in Evaluators, NEW p, NEW n,
         Step(e, [ev[e] EXCEPT !.pc = p, !.cnt = n])
  PROVE  On(e, p, n)
<1>1. ev'[e] = [ev[e] EXCEPT !.pc = p, !.cnt = n] /\ ev[e] \in EvalRecords
  BY Stepped
<1> QED BY <1>1 DEF On, EvalRecords

LEMMA NextTells ==
  ASSUME Evaluators0, NEW e \in Evaluators, NextTicket(e)
  PROVE  Nexts(e)
<1>1. ev'[e] = [ev[e] EXCEPT !.pc = "pick", !.slot = NoSlot, !.st = NoStatus, !.cnt = 0,
                  !.todo = @ \ {ev[e].slot[2]}]
      /\ ev[e] \in EvalRecords
  BY Stepped DEF NextTicket
<1> QED BY <1>1 DEF Nexts, EvalRecords, TicketOf

LEMMA EndTells ==
  ASSUME Evaluators0, NEW e \in Evaluators, Step(e, Idle)
  PROVE  ev'[e].pc = "idle" /\ ev'[e].todo = {}
BY Stepped DEF Idle

LEMMA SweepBeginTells ==
  ASSUME Evaluators0, NEW e \in Evaluators, SweepBegin(e)
  PROVE  ev'[e].pc = "search" /\ ev'[e].todo = {}
<1>1. ev'[e] = [Idle EXCEPT !.pc = "search"]
  BY Stepped DEF SweepBegin
<1> QED BY <1>1 DEF Idle

LEMMA SweepSearchTells ==
  ASSUME Evaluators0, NEW e \in Evaluators, SweepSearch(e)
  PROVE  /\ ev'[e].pc = "locking" /\ ev'[e].snap = SearchResult
         /\ ev'[e].todo = {t \in Tickets : status[t] \in AgentStatuses}
<1>1. ev'[e] = [Idle EXCEPT !.pc = "locking", !.snap = SearchResult,
                  !.todo = {t \in Tickets : status[t] \in AgentStatuses}]
  BY Stepped DEF SweepSearch
<1> QED BY <1>1 DEF Idle

LEMMA FlushBeginTells ==
  ASSUME Evaluators0, NEW e \in Evaluators, FlushBegin(e)
  PROVE  ev'[e].pc = "locking"
<1>1. PICK keys \in SUBSET Tickets : Step(e, [Idle EXCEPT !.pc = "locking", !.todo = keys])
  BY DEF FlushBegin
<1>2. ev'[e] = [Idle EXCEPT !.pc = "locking", !.todo = keys]
  BY <1>1, Stepped
<1> QED BY <1>2 DEF Idle

LEMMA TakeLockTells ==
  ASSUME Evaluators0, NEW e \in Evaluators, TakeLock(e)
  PROVE  On(e, "pick", ev[e].cnt)
BY SteppedOn DEF TakeLock

\* A ticket is picked for a role whose slot is free, by the issue at hand.
Picked(e, t) ==
  /\ ev'[e].pc = "lease" /\ ev'[e].slot[2] = t
  /\ t \in ev[e].todo /\ ev'[e].todo = ev[e].todo /\ ev'[e].snap = ev[e].snap
  /\ ev'[e].st = IssueFor(e, t).status
  /\ ev'[e].slot[1] \in TicketRolesFor(IssueFor(e, t).status)
  /\ ~Registered(ev'[e].slot)

LEMMA ConsiderTells ==
  ASSUME Evaluators0, NEW e \in Evaluators, Consider(e)
  PROVE  (\E t \in Tickets : Picked(e, t)) \/ Between(e)
<1>1. PICK t \in ev[e].todo :
       LET issue == IssueFor(e, t)
           roles == {r \in TicketRolesFor(issue.status) : Eligible(r, t, issue)}
       IN \/ \E role \in roles :
               Step(e, [ev[e] EXCEPT !.pc = "lease", !.slot = <<role, t>>, !.st = issue.status])
          \/ roles = {} /\ Step(e, [ev[e] EXCEPT !.todo = @ \ {t}])
  BY DEF Consider
<1>2. ev[e] \in EvalRecords /\ t \in ev[e].todo /\ t \in Tickets /\ ev[e].pc = "pick"
  BY DEF Evaluators0, EvalRecords, Consider, InPc
<1> DEFINE issue == IssueFor(e, t)
<1>3. ASSUME NEW role \in TicketRolesFor(issue.status), Eligible(role, t, issue),
             Step(e, [ev[e] EXCEPT !.pc = "lease", !.slot = <<role, t>>, !.st = issue.status])
      PROVE  Picked(e, t)
  <2>1. ev'[e] = [ev[e] EXCEPT !.pc = "lease", !.slot = <<role, t>>, !.st = issue.status]
    BY <1>3, Stepped
  <2>2. ~Registered(<<role, t>>)
    BY <1>3 DEF Eligible
  <2> HIDE DEF issue
  <2>3. /\ ev'[e].pc = "lease" /\ ev'[e].slot = <<role, t>> /\ ev'[e].st = issue.status
        /\ ev'[e].todo = ev[e].todo /\ ev'[e].snap = ev[e].snap
    BY <1>2, <2>1 DEF EvalRecords
  <2> QED BY <1>2, <1>3, <2>2, <2>3 DEF Picked, issue
<1>4. ASSUME Step(e, [ev[e] EXCEPT !.todo = @ \ {t}])
      PROVE  Between(e)
  <2>1. ev'[e] = [ev[e] EXCEPT !.todo = @ \ {t}]
    BY <1>4, Stepped
  <2> QED BY <1>2, <2>1 DEF Between, EvalRecords
<1> QED BY <1>1, <1>2, <1>3, <1>4

LEMMA ReadLeaseTells ==
  ASSUME Evaluators0, NEW e \in Evaluators, ReadLease(e)
  PROVE  \/ lease[TicketOf(e)] = NoLease /\ On(e, "retries", ev[e].cnt)
         \/ Leased(TicketOf(e)) /\ lease[TicketOf(e)].stale /\ On(e, "reclaim", ev[e].cnt)
         \/ Nexts(e)
BY SteppedOn, NextTells DEF ReadLease, IsStale, Leased

LEMMA ReclaimTells ==
  ASSUME Evaluators0, NEW e \in Evaluators,
         Reclaim(e) \/ ReclaimBumpRead(e) \/ ReclaimBumpWrite(e)
  PROVE  \/ ev[e].pc = "reclaim" /\ \E n : On(e, "bump", n)
         \/ ev[e].pc = "bump" /\ \E n : On(e, "bumped", n)
         \/ ev[e].pc = "bumped" /\ \E n : On(e, "retries", n)
<1>1. CASE Reclaim(e)
  BY <1>1, SteppedOn DEF Reclaim, InPc
<1>2. CASE ReclaimBumpRead(e)
  BY <1>2, SteppedCounting DEF ReclaimBumpRead, InPc
<1>3. CASE ReclaimBumpWrite(e)
  BY <1>3, SteppedCounting DEF ReclaimBumpWrite, InPc
<1> QED BY <1>1, <1>2, <1>3

LEMMA ReadRetriesTells ==
  ASSUME Evaluators0, NEW e \in Evaluators, ReadRetries(e)
  PROVE  \/ OutOfRetries(retries[TicketOf(e)]) /\ On(e, "reset", ev[e].cnt)
         \/ /\ ~OutOfRetries(retries[TicketOf(e)])
            /\ \E p \in {"rework", "waiting"} : On(e, p, ev[e].cnt)
<1>1. CASE OutOfRetries(retries[TicketOf(e)])
  BY <1>1, SteppedOn DEF ReadRetries
<1>2. CASE ~OutOfRetries(retries[TicketOf(e)])
  <2>1. PICK p \in {"rework", "waiting"} : Step(e, [ev[e] EXCEPT !.pc = p])
    BY <1>2 DEF ReadRetries
  <2> QED BY <1>2, <2>1, SteppedOn
<1> QED BY <1>1, <1>2

LEMMA ResetTells ==
  ASSUME Evaluators0, NEW e \in Evaluators, ResetRetries(e)
  PROVE  On(e, "escalate", ev[e].cnt)
BY SteppedOn DEF ResetRetries

LEMMA ReadReworkTells ==
  ASSUME Evaluators0, NEW e \in Evaluators, ReadRework(e)
  PROVE  \E p \in {"escalate", "waiting"} : On(e, p, ev[e].cnt)
<1>1. PICK p \in {"escalate", "waiting"} : Step(e, [ev[e] EXCEPT !.pc = p])
  BY DEF ReadRework
<1> QED BY <1>1, SteppedOn

LEMMA ReadWaitingTells ==
  ASSUME Evaluators0, NEW e \in Evaluators, ReadWaiting(e)
  PROVE  \/ Nexts(e)
         \/ On(e, "unpark", ev[e].cnt) /\ Evaluating
BY SteppedOn, NextTells DEF ReadWaiting, Dispatch

LEMMA NextingTells ==
  ASSUME Evaluators0, NEW e \in Evaluators,
         EscalateTicket(e) \/ Unpark(e) \/ EvaluationFails(e)
  PROVE  Nexts(e)
BY NextTells DEF EscalateTicket, Unpark, Dispatch, EvaluationFails

LEMMA QueuesTell ==
  ASSUME Evaluators0, NEW e \in Evaluators, EvaluateQueues(e) \/ PassFails(e)
  PROVE  Between(e)
<1>1. ev[e] \in EvalRecords
  BY DEF Evaluators0
<1>2. ASSUME Step(e, Idle)
      PROVE  Between(e)
  BY <1>2, EndTells DEF Between
<1>3. ASSUME NEW q, QueueDone(e, q)
      PROVE  Between(e)
  <2>1. ev'[e] = [ev[e] EXCEPT !.pc = "queues", !.slot = NoSlot, !.qtodo = @ \ {q}]
    BY <1>3, Stepped DEF QueueDone
  <2> QED BY <1>1, <2>1 DEF Between, EvalRecords
<1>4. CASE EnterQueues(e)
  <2> DEFINE sn == IF e \in Flushes THEN SearchResult ELSE ev[e].snap
  <2>1. ev[e].todo = {}
    BY <1>4 DEF EnterQueues
  <2>2. \/ EndPass(e)
        \/ Step(e, [ev[e] EXCEPT !.pc = "queues", !.qtodo = QueueRoles, !.snap = sn])
    BY <1>4, Zenon DEF EnterQueues
  <2> HIDE DEF sn
  <2>3. CASE Step(e, [ev[e] EXCEPT !.pc = "queues", !.qtodo = QueueRoles, !.snap = sn])
    <3>1. ev'[e] = [ev[e] EXCEPT !.pc = "queues", !.qtodo = QueueRoles, !.snap = sn]
      BY <2>3, Stepped
    <3> QED BY <1>1, <2>1, <3>1 DEF Between, EvalRecords
  <2> QED BY <1>2, <2>2, <2>3 DEF EndPass
<1>5. CASE ConsiderQueue(e)
  <2>1. ASSUME NEW q, Step(e, [ev[e] EXCEPT !.pc = "capacity", !.slot = <<q, NoTicket>>])
        PROVE  Between(e)
    <3>1. ev'[e] = [ev[e] EXCEPT !.pc = "capacity", !.slot = <<q, NoTicket>>]
      BY <2>1, Stepped
    <3> QED BY <1>1, <3>1 DEF Between, EvalRecords
  <2> QED BY <1>3, <1>5, <2>1 DEF ConsiderQueue, SpawnQueue
<1>6. CASE CheckCapacity(e)
  BY <1>3, <1>6 DEF CheckCapacity, SpawnQueue
<1>7. CASE LeaveQueues(e)
  BY <1>2, <1>7 DEF LeaveQueues, EndPass
<1>8. CASE PassFails(e)
  BY <1>2, <1>8 DEF PassFails, EndPass
<1> QED BY <1>4, <1>5, <1>6, <1>7, <1>8 DEF EvaluateQueues

(***************************************************************************)
(* One retry, then a human.                                                *)
(***************************************************************************)
\* An evaluator that has looked at the retry count and may start a run.
PastBudget(e) == ev[e].pc \in {"rework", "waiting", "unpark"}

\* What it saw is still so.
BudgetSeen == \A e \in Evaluators : PastBudget(e) => ~OutOfRetries(retries[TicketOf(e)])

\* A ticket has at most one slot: no queue role, and one ticket role.
OneRole == QueueRoles = {} /\ \A q1, q2 \in TicketRoles : q1 = q2

EvaluatorStep(e) ==
  \/ SweepBegin(e) \/ SweepSearch(e) \/ FlushBegin(e) \/ TakeLock(e)
  \/ EvaluateTicket(e) \/ EvaluateQueues(e) \/ EvaluationFails(e) \/ PassFails(e)

\* The other evaluators stay where they are.
LEMMA OthersWait ==
  ASSUME IInv, NEW e \in Evaluators, EvaluatorStep(e), NEW f \in Evaluators, f # e
  PROVE  ev'[f] = ev[f]
<1>1. Evaluate(e)
  BY PassEvaluates, TicketEvaluates, DispatchEvaluates
     DEF IInv, TypeOK, EvaluatorStep, EvaluateTicket, EvaluateQueues
<1> QED BY <1>1 DEF Evaluate, IInv, TypeOK

\* The writers of the retry count.
InFlightCounts(r) ==
  \/ retries' = retries
  \/ retries' = [retries EXCEPT ![run[r].key] = 0]
  \/ /\ run[r].pc = "bumped"
     /\ retries' = [retries EXCEPT ![run[r].key] = Bumped(run[r].cnt)]

LEMMA InFlightTells ==
  ASSUME NEW r, InFlight(r)
  PROVE  InFlightCounts(r)
BY DEF InFlight, InFlightCounts, At, boardVars, WriteLease, Transition, WriteWaiting, WriteRetries

LEMMA RunCounts ==
  ASSUME NEW r \in Runs, RunStep(r) \/ Cancel(r)
  PROVE  InFlightCounts(r)
<1>1. UNCHANGED boardVars => retries' = retries
  BY DEF boardVars
<1>2. CASE Proceed(r)
  <2>1. CASE BumpWrite(r) \/ ClearRetries(r)
    BY <2>1 DEF BumpWrite, ClearRetries, At, WriteRetries, InFlightCounts
  <2>2. CASE ~(BumpWrite(r) \/ ClearRetries(r))
    BY <1>1, <1>2, <2>2 DEF Proceed, ClaimRead, ClaimWrite, Move, Transition, ClearWaiting, BumpRead,
       Release, WriteLease, WriteWaiting, InFlightCounts
  <2> QED BY <2>1, <2>2
<1>3. CASE Choose(r)
  BY <1>1, <1>3 DEF Choose, BeginClaim, BeginHandoff, BeginEscalate, BeginRelease, BeginFinish,
     BeginCrash, IncrementRework, WriteWaiting, AddLabels, InFlightCounts
<1>4. CASE Heartbeat(r) \/ BeatRead(r)
  BY <1>1, <1>4 DEF Heartbeat, BeatRead, WriteLease, InFlightCounts
<1>5. CASE ClaimFails(r) \/ CallFails(r) \/ Cancel(r)
  BY <1>5, InFlightTells DEF ClaimFails, CallFails, Cancel
<1> QED BY <1>2, <1>3, <1>4, <1>5 DEF RunStep

LEMMA EvaluatorCounts ==
  ASSUME NEW e \in Evaluators, EvaluatorStep(e)
  PROVE  \/ retries' = retries
         \/ ResetRetries(e) \/ ReclaimBumpWrite(e)
<1>1. UNCHANGED boardVars => retries' = retries
  BY DEF boardVars
<1>2. CASE SweepBegin(e) \/ SweepSearch(e) \/ FlushBegin(e) \/ TakeLock(e)
           \/ EvaluationFails(e) \/ PassFails(e)
  BY <1>1, <1>2 DEF SweepBegin, SweepSearch, FlushBegin, TakeLock, EvaluationFails, PassFails
<1>3. CASE EvaluateTicket(e)
  BY <1>1, <1>3 DEF EvaluateTicket, Consider, ReadLease, Reclaim, ReclaimBumpRead,
     ReadRetries, EscalateTicket, ReadRework, ReadWaiting,
     Unpark, WriteLease, WriteWaiting, AddLabels
<1>4. CASE EvaluateQueues(e)
  BY <1>1, <1>4 DEF EvaluateQueues, EnterQueues, ConsiderQueue, CheckCapacity, LeaveQueues
<1> QED BY <1>2, <1>3, <1>4 DEF EvaluatorStep

\* What else there is: time, humans, webhooks, operators, heartbeats, the end.
Otherwise ==
  \/ \E b \in beats : BeatLands(b) /\ UNCHANGED <<run, orchVars>>
  \/ \E t \in Tickets : OnStatusChange(t)
  \/ Humans /\ UNCHANGED <<run, orchVars>>
  \/ (\E t \in Tickets : Expire(t)) /\ UNCHANGED orchVars
  \/ PauseOrResume
  \/ BeginStop
  \/ \E t \in Tickets : ReleaseLeft(t)
  \/ UNCHANGED vars

LEMMA NextIs ==
  ASSUME [Next]_vars
  PROVE  \/ \E e \in Evaluators : EvaluatorStep(e)
         \/ \E r \in Runs : Free(r) /\ RunStep(r) /\ UNCHANGED orchVars
         \/ \E r \in Runs : Notice(r)
         \/ Otherwise
         \/ Reborn /\ (Restart \/ Exit)
BY DEF Next, EvaluatorStep, Otherwise, Environment, Shutdown, Restart, Exit

LEMMA OtherwiseFrame ==
  ASSUME Otherwise
  PROVE  UNCHANGED <<run, running, lock, ev, restarts>>
BY DEF Otherwise, BeatLands, OnStatusChange, Humans, Expire, PauseOrResume, BeginStop, ReleaseLeft,
   orchVars, vars

LEMMA OtherwiseCounts ==
  ASSUME Otherwise
  PROVE  retries' = retries \/ \E t \in Tickets : retries' = [retries EXCEPT ![t] = 0]
<1>1. UNCHANGED boardVars => retries' = retries
  BY DEF boardVars
<1>2. CASE \E t \in Tickets : OnStatusChange(t)
  BY <1>2 DEF OnStatusChange
<1> QED BY <1>1, <1>2 DEF Otherwise, BeatLands, Humans, HumanMove, HumanLabel, Expire, PauseOrResume,
   BeginStop, ReleaseLeft, WriteLease, vars

LEMMA ReachesPastBudget ==
  ASSUME IInv, NEW e \in Evaluators, EvaluatorStep(e), PastBudget(e)'
  PROVE  /\ ev'[e].slot = ev[e].slot /\ retries' = retries
         /\ PastBudget(e) \/ ~OutOfRetries(retries[TicketOf(e)])
<1>1. Evaluators0
  BY DEF IInv, TypeOK, Evaluators0
<1>2. ev'[e].pc \in {"rework", "waiting", "unpark"}
  BY DEF PastBudget
<1>3. CASE ReadRetries(e)
  BY <1>1, <1>2, <1>3, ReadRetriesTells DEF On, ReadRetries, boardVars
<1>4. CASE ReadRework(e)
  BY <1>1, <1>4, ReadReworkTells DEF On, ReadRework, boardVars, InPc, PastBudget
<1>5. CASE ReadWaiting(e)
  BY <1>1, <1>2, <1>5, ReadWaitingTells DEF On, Nexts, ReadWaiting, boardVars, InPc, PastBudget
<1>6. ~(Consider(e) \/ ReadLease(e) \/ ResetRetries(e))
  BY <1>1, <1>2, ConsiderTells, ReadLeaseTells, ResetTells DEF On, Nexts, Between, Picked
<1>7. ~(Reclaim(e) \/ ReclaimBumpRead(e) \/ ReclaimBumpWrite(e))
  BY <1>1, <1>2, ReclaimTells DEF On
<1>8. ~(EscalateTicket(e) \/ Unpark(e) \/ EvaluationFails(e))
  BY <1>1, <1>2, NextingTells DEF Nexts
<1>9. ~(EvaluateQueues(e) \/ PassFails(e))
  BY <1>1, <1>2, QueuesTell DEF Between
<1>10. ~(SweepBegin(e) \/ SweepSearch(e) \/ FlushBegin(e) \/ TakeLock(e))
  BY <1>1, <1>2, SweepBeginTells, SweepSearchTells, FlushBeginTells, TakeLockTells DEF On
<1> QED BY <1>3, <1>4, <1>5, <1>6, <1>7, <1>8, <1>9, <1>10 DEF EvaluatorStep, EvaluateTicket

\* A run that counts its crash is a live run on its own ticket, whose slot no
\* evaluator has reserved.
LEMMA BumpsElsewhere ==
  ASSUME OneRole, IInv, Own, NEW r \in Runs, run[r].pc = "bumped",
         NEW e \in Evaluators, PastBudget(e)
  PROVE  run[r].key # TicketOf(e)
<1>1. ev[e].slot \in TicketSlots /\ running[ev[e].slot] = NotRunning
  BY DEF PastBudget, IInv, Reserved, TicketPcs, Registered
<1>2. ~IsQueueRun(r) /\ r[1] \in TicketSlots /\ run[r].key = OwnTicket(r)
  BY OwnTickets DEF OneRole, IsQueueRun, Own, Fits
<1>3. running[r[1]] # NotRunning
  <2>1. r[2] \in Instances /\ r[2] # 0 /\ r = <<r[1], r[2]>> /\ r[1] \in Slots
    BY OwnTickets, RunAssumption
  <2>2. Live(<<r[1], r[2]>>)
    BY <2>1 DEF Live
  <2>3. running[r[1]] = [inst |-> r[2], status |-> run[<<r[1], r[2]>>].at]
    BY <2>1, <2>2 DEF IInv, LiveRegistered
  <2> QED BY <2>1, <2>3 DEF NotRunning
<1>4. ev[e].slot[1] = r[1][1]
  BY <1>1, <1>2 DEF OneRole, TicketSlots
<1>5. OwnTicket(r) = TicketOf(e) => ev[e].slot = r[1]
  BY <1>1, <1>2, <1>4 DEF TicketSlots, OwnTicket, TicketOf
<1> QED BY <1>1, <1>2, <1>3, <1>5

LEMMA BudgetSeenKept ==
  ASSUME OneRole, IInv, Own, BudgetSeen, [Next]_vars
  PROVE  BudgetSeen'
<1> SUFFICES ASSUME NEW e \in Evaluators, PastBudget(e)'
             PROVE  ~OutOfRetries(retries'[ev'[e].slot[2]])
  BY DEF BudgetSeen, TicketOf, OutOfRetries
<1> DEFINE t == TicketOf(e)
<1>1. retries \in [Tickets -> Nat] /\ ~OutOfRetries(0)
  BY DEF IInv, TypeOK, BoardTypeOK, OutOfRetries
<1>2. PastBudget(e) => /\ t \in Tickets /\ lock = e /\ ~OutOfRetries(retries[t])
  BY Static DEF PastBudget, IInv, Reserved, InLock, TicketPcs, TicketOf, BudgetSeen
<1>3. ASSUME NEW f \in Evaluators, EvaluatorStep(f)
      PROVE  ~OutOfRetries(retries'[ev'[e].slot[2]])
  <2>1. CASE f = e
    BY <1>3, <2>1, <1>2, ReachesPastBudget DEF TicketOf
  <2>2. CASE f # e
    <3>1. ev'[e] = ev[e] /\ PastBudget(e)
      BY <1>3, <2>2, OthersWait DEF PastBudget
    <3>2. ~(ResetRetries(f) \/ ReclaimBumpWrite(f))
      BY <1>2, <2>2, <3>1
         DEF IInv, Reserved, ResetRetries, ReclaimBumpWrite, InPc, InLock, TicketPcs
    <3>3. retries' = retries
      BY <1>3, <3>2, EvaluatorCounts
    <3> QED BY <1>2, <3>1, <3>3 DEF TicketOf
  <2> QED BY <2>1, <2>2
<1>4. ASSUME UNCHANGED ev, retries'[t] = retries[t] \/ retries'[t] = 0
      PROVE  ~OutOfRetries(retries'[ev'[e].slot[2]])
  <2>1. PastBudget(e)
    BY <1>4 DEF PastBudget
  <2> QED BY <1>1, <1>2, <1>4, <2>1 DEF TicketOf
<1>5. ASSUME NEW r \in Runs, UNCHANGED ev, InFlightCounts(r)
      PROVE  ~OutOfRetries(retries'[ev'[e].slot[2]])
  <2>1. PastBudget(e)
    BY <1>5 DEF PastBudget
  <2>2. run[r].pc = "bumped" => run[r].key # t
    BY <2>1, BumpsElsewhere
  <2>3. retries'[t] = retries[t] \/ retries'[t] = 0
    BY <1>1, <1>2, <1>5, <2>1, <2>2 DEF InFlightCounts
  <2> QED BY <1>4, <1>5, <2>3
<1>6. ASSUME NEW r \in Runs, RunStep(r), UNCHANGED orchVars
      PROVE  ~OutOfRetries(retries'[ev'[e].slot[2]])
  BY <1>5, <1>6, RunCounts DEF orchVars
<1>7. ASSUME NEW r \in Runs, Notice(r)
      PROVE  ~OutOfRetries(retries'[ev'[e].slot[2]])
  BY <1>5, <1>7, RunCounts DEF Notice
<1>8. CASE Otherwise
  <2>1. UNCHANGED ev /\ PastBudget(e)
    BY <1>8, OtherwiseFrame DEF PastBudget
  <2>2. retries'[t] = retries[t] \/ retries'[t] = 0
    BY <1>1, <1>2, <1>8, <2>1, OtherwiseCounts
  <2> QED BY <1>4, <2>1, <2>2
<1>9. ~Reborn
  BY IdleType DEF Reborn, PastBudget
<1> QED BY <1>3, <1>6, <1>7, <1>8, <1>9, NextIs

\* For a ticket that one role works at: what _evaluate_ticket saw of the retry
\* count is still so at its _spawn, so no agent starts above one, whatever fails,
\* restarts and overlaps in between.
THEOREM NoStartAboveCount == OneRole => (Spec => StartsWithinCount)
<1> SUFFICES ASSUME OneRole PROVE Spec => StartsWithinCount
  OBVIOUS
<1>1. Init => BudgetSeen
  BY IdleType DEF Init, BudgetSeen, PastBudget
<1>2. IInv /\ Own /\ BudgetSeen /\ [Next]_vars => BudgetSeen'
  BY BudgetSeenKept
<1>3. ASSUME IInv, BudgetSeen, [Next]_vars, NEW r \in Runs, Started(r), r[1] \in TicketSlots
      PROVE  retries[OwnTicket(r)] <= 1
  <2>1. PICK e \in Evaluators : ev[e].pc \in {"waiting", "unpark"} /\ ev[e].slot = r[1]
    BY <1>3, TicketStart
  <2>2. ~(retries[OwnTicket(r)] > 1)
    BY <1>3, <2>1 DEF BudgetSeen, PastBudget, OutOfRetries, TicketOf, OwnTicket
  <2>3. OwnTicket(r) \in Tickets
    BY <1>3, Static DEF OwnTicket
  <2>4. retries[OwnTicket(r)] \in Nat
    BY <1>3, <2>3 DEF IInv, TypeOK, BoardTypeOK
  <2> QED BY <2>2, <2>4
<1>4. IInv /\ BudgetSeen /\ [Next]_vars
        => [\A r \in Runs : Started(r) /\ r[1] \in TicketSlots
                            => retries[OwnTicket(r)] <= 1]_vars
  BY <1>3
<1> QED BY <1>1, <1>2, <1>4, InductiveInvariant, RunsHoldTheirOwn, PTL
        DEF Spec, StartsWithinCount
=============================================================================
