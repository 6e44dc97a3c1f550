----------------------------- MODULE Lease_proofs -----------------------------
(***************************************************************************)
(* Leases: that each has a holder while the process lives, that a graceful *)
(* stop leaves none behind, that no two runs at work hold the same ticket, *)
(* and, since a lease that has a holder is not reclaimed, that the retry   *)
(* counter stays bounded.                                                  *)
(***************************************************************************)
EXTENDS ReworkLimit_proofs

(***************************************************************************)
(* Whose a lease is, while the calls of runs succeed.                      *)
(***************************************************************************)
\* No call of a run fails for good, and nothing comes between the two of a
\* heartbeat.
Reliable == "run" \notin JiraFails /\ ~BeatsOverlap

\* What a step of a run can do to leases and to what it holds.
Keeps(r) ==
  /\ lease' = lease
  /\ IF run'[r].pc = "done" THEN run[r].held = {} ELSE run'[r].held = run[r].held

Claims(r) ==
  /\ run[r].pc = "writing" /\ run'[r].pc = "work"
  /\ lease' = [lease EXCEPT ![run[r].key] = FreshLease(RoleOf(r))]
  /\ run'[r].held = run[r].held \cup {run[r].key}

Releases(r) ==
  /\ run[r].pc = "release"
  /\ lease' = [lease EXCEPT ![run[r].key] = NoLease]
  /\ IF run'[r].pc = "done" THEN run[r].held \subseteq {run[r].key}
     ELSE run'[r].held = run[r].held \ {run[r].key}

Freshens(r) ==
  /\ UNCHANGED run
  /\ \E t \in run[r].held : /\ lease[t].role = RoleOf(r)
                            /\ lease' = [lease EXCEPT ![t] = FreshLease(RoleOf(r))]

Drops(r) ==
  /\ lease' = lease /\ IsQueueRun(r) /\ run'[r].pc = run[r].pc
  /\ \E t \in run[r].held : lease[t].role # RoleOf(r) /\ run'[r].held = run[r].held \ {t}

LEMMA KeepingTells ==
  ASSUME NEW r, NEW p, p # "done", NEW o, NEW k, NEW n,
         To(r, p, o, k, run[r].held, n), lease' = lease
  PROVE  Keeps(r)
BY DEF To, Keeps

LEMMA EndingTells ==
  ASSUME NEW r, Ends(r), run[r].held = {}, lease' = lease
  PROVE  Keeps(r)
BY DEF Ends, To, Keeps

LEMMA ProceedHolds ==
  ASSUME RunTypeOK, Own, NEW r \in Runs, Proceed(r)
  PROVE  Keeps(r) \/ Claims(r) \/ Releases(r)
<1>1. Fits(r, run[r].pc, run[r].op, run[r].key, run[r].held)
  BY DEF Own
<1>2. UNCHANGED boardVars => lease' = lease
  BY DEF boardVars
<1>3. CASE ClaimRead(r)
  <2>1. Ends(r) /\ ~IsQueueRun(r) => run[r].held = {}
    BY <1>1, <1>3 DEF ClaimRead, Fits
  <2> QED BY <1>2, <1>3, <2>1, ClaimReadTells, KeepingTells, EndingTells DEF ClaimRead
<1>4. CASE ClaimWrite(r)
  BY <1>4, ClaimWriteTells DEF ClaimWrite, At, WriteLease, To, Claims
<1>5. CASE Move(r)
  BY <1>2, <1>5, MoveTells, KeepingTells DEF Transition
<1>6. CASE ClearWaiting(r) \/ ClearRetries(r)
  BY <1>6, WentTo, KeepingTells DEF ClearWaiting, ClearRetries, WriteWaiting, WriteRetries
<1>7. CASE BumpRead(r)
  <2> DEFINE n == retries[run[r].key]
  <2>1. To(r, "bumped", run[r].op, run[r].key, run[r].held, n)
    BY <1>7, BumpReadTells
  <2> HIDE DEF n
  <2> QED BY <1>2, <1>7, <2>1, KeepingTells DEF BumpRead
<1>8. CASE BumpWrite(r)
  BY <1>8, BumpWriteTells, KeepingTells DEF BumpWrite, WriteRetries
<1>9. CASE Release(r)
  <2> DEFINE left == run[r].held \ {run[r].key}
  <2>1. ~IsQueueRun(r) => left = {}
    BY <1>1, <1>9 DEF Fits, Release, At
  <2>2. run[r].pc = "release" /\ lease' = [lease EXCEPT ![run[r].key] = NoLease]
    BY <1>9 DEF Release, At, WriteLease
  <2>3. left = {} => run[r].held \subseteq {run[r].key}
    OBVIOUS
  <2> HIDE DEF left
  <2>4. left = run[r].held \ {run[r].key}
    BY DEF left
  <2>5. \/ run'[r].pc = "done" /\ left = {}
        \/ run'[r].pc # "done" /\ run'[r].held = left
    BY <1>9, <2>1, <2>4, AfterReleaseTells DEF Release, Ends, To
  <2> QED BY <2>2, <2>3, <2>4, <2>5 DEF Releases
<1> QED BY <1>3, <1>4, <1>5, <1>6, <1>7, <1>8, <1>9 DEF Proceed

LEMMA ChoiceHolds ==
  ASSUME RunTypeOK, NEW r \in Runs, Choose(r)
  PROVE  Keeps(r)
<1>1. UNCHANGED boardVars => lease' = lease
  BY DEF boardVars
<1>2. run[r].pc = "work"
  BY DEF Choose, BeginClaim, BeginHandoff, BeginEscalate, BeginRelease, BeginFinish,
     IncrementRework, BeginCrash, At
<1>3. CASE BeginClaim(r)
  BY <1>1, <1>3, BeginClaimTells, KeepingTells DEF BeginClaim
<1>4. CASE BeginHandoff(r)
  BY <1>1, <1>4, BeginHandoffTells, KeepingTells DEF BeginHandoff
<1>5. CASE BeginEscalate(r)
  BY <1>5, BeginEscalateTells, KeepingTells DEF AddLabels
<1>6. CASE BeginRelease(r)
  BY <1>1, <1>6, BeginReleaseTells, KeepingTells DEF BeginRelease
<1>7. CASE BeginFinish(r)
  <2>1. lease' = lease
    BY <1>1, <1>7 DEF BeginFinish, WriteWaiting
  <2> QED BY <1>7, <2>1, BeginFinishTells, KeepingTells, EndingTells
<1>8. CASE IncrementRework(r)
  BY <1>2, <1>8 DEF IncrementRework, Keeps
<1>9. CASE BeginCrash(r)
  BY <1>1, <1>9, BeginCrashTells, KeepingTells, EndingTells DEF BeginCrash
<1> QED BY <1>3, <1>4, <1>5, <1>6, <1>7, <1>8, <1>9 DEF Choose

LEMMA RunHolds ==
  ASSUME Reliable, RunTypeOK, Own, NEW r \in Runs, RunStep(r)
  PROVE  Keeps(r) \/ Claims(r) \/ Releases(r) \/ Freshens(r) \/ Drops(r)
<1>1. CASE Heartbeat(r)
  BY <1>1, HeartbeatTells DEF WriteLease, boardVars, To, Freshens, Drops
<1>2. ~ClaimFails(r) /\ ~CallFails(r) /\ ~BeatRead(r)
  BY DEF Reliable, ClaimFails, CallFails, BeatRead
<1> QED BY <1>1, <1>2, ProceedHolds, ChoiceHolds DEF RunStep

(***************************************************************************)
(* Until the process ends, a lease has a holder.                           *)
(***************************************************************************)
\* A live run of the role that the lease names.
Holds(r, t) == Live(r) /\ t \in run[r].held /\ RoleOf(r) = lease[t].role

FirstLife == restarts = 0 /\ ~stop.on

LeasesHeld == FirstLife => \A t \in Tickets : Leased(t) => \E r \in Runs : Holds(r, t)

\* Nothing is told to stop unless the process is stopping.
StopsInOrder == ~stop.on => stop.told = {} /\ stop.left = {}

NoBeats == beats = {}

LEMMA BeatsTell ==
  ASSUME NEW r, RunStep(r) \/ Cancel(r), ~BeatsOverlap
  PROVE  beats' = beats
<1>1. UNCHANGED boardVars => beats' = beats
  BY DEF boardVars
<1>2. CASE Proceed(r)
  BY <1>1, <1>2 DEF Proceed, ClaimRead, ClaimWrite, Move, Transition, ClearWaiting, ClearRetries,
     BumpRead, BumpWrite, Release, WriteLease, WriteRetries, WriteWaiting
<1>3. CASE Choose(r)
  BY <1>1, <1>3 DEF Choose, BeginClaim, BeginHandoff, BeginEscalate, BeginRelease, BeginFinish,
     BeginCrash, IncrementRework, WriteWaiting, AddLabels
<1>4. CASE Heartbeat(r) \/ BeatRead(r)
  BY <1>1, <1>4 DEF Heartbeat, BeatRead, WriteLease
<1>5. InFlight(r) => beats' = beats
  BY DEF InFlight, boardVars, Transition, WriteLease, WriteRetries, WriteWaiting
<1> QED BY <1>2, <1>3, <1>4, <1>5 DEF RunStep, ClaimFails, CallFails, Cancel

LEMMA EvaluatorBeats ==
  ASSUME NEW e \in Evaluators, EvaluatorStep(e)
  PROVE  beats' = beats
<1>1. UNCHANGED boardVars => beats' = beats
  BY DEF boardVars
<1>2. CASE SweepBegin(e) \/ SweepSearch(e) \/ FlushBegin(e) \/ TakeLock(e)
           \/ EvaluationFails(e) \/ PassFails(e)
  BY <1>1, <1>2 DEF SweepBegin, SweepSearch, FlushBegin, TakeLock, EvaluationFails, PassFails
<1>3. CASE EvaluateTicket(e)
  BY <1>1, <1>3 DEF EvaluateTicket, Consider, ReadLease, Reclaim, ReclaimBumpRead, ReclaimBumpWrite,
     ReadRetries, ResetRetries, EscalateTicket, ReadRework, ReadWaiting,
     Unpark, WriteLease, WriteRetries, WriteWaiting, AddLabels
<1>4. CASE EvaluateQueues(e)
  BY <1>1, <1>4 DEF EvaluateQueues, EnterQueues, ConsiderQueue, CheckCapacity, LeaveQueues
<1> QED BY <1>2, <1>3, <1>4 DEF EvaluatorStep

LEMMA NoBeatsKept ==
  ASSUME ~BeatsOverlap, NoBeats, [Next]_vars
  PROVE  NoBeats'
<1>1. UNCHANGED boardVars => beats' = beats
  BY DEF boardVars
<1>2. CASE Otherwise
  BY <1>1, <1>2 DEF NoBeats, Otherwise, OnStatusChange, Humans, HumanMove, HumanLabel, Expire,
     PauseOrResume, BeginStop, ReleaseLeft, WriteLease, vars
<1>3. CASE Reborn
  BY <1>1, <1>3 DEF NoBeats, Reborn
<1> QED BY <1>2, <1>3, NextIs, EvaluatorBeats, BeatsTell DEF NoBeats, Notice

LEMMA StopsInOrderKept ==
  ASSUME IInv, StopsInOrder, [Next]_vars
  PROVE  StopsInOrder'
<1>1. stop \in StopRecords
  BY DEF IInv, TypeOK
<1>2. CASE \E e \in Evaluators : EvaluatorStep(e)
  <2>1. stop' = stop
    BY <1>2, PassEvaluates, TicketEvaluates, DispatchEvaluates
       DEF IInv, TypeOK, EvaluatorStep, EvaluateTicket, EvaluateQueues
  <2> QED BY <2>1 DEF StopsInOrder
<1>3. CASE UNCHANGED stop
  BY <1>3 DEF StopsInOrder
<1>4. CASE \E r \in Runs : Notice(r)
  BY <1>1, <1>4 DEF Notice, StopsInOrder, StopRecords
<1>5. CASE \E t \in Tickets : ReleaseLeft(t)
  BY <1>1, <1>5 DEF ReleaseLeft, StopsInOrder, StopRecords
<1>6. CASE BeginStop
  BY <1>6 DEF BeginStop, StopsInOrder
<1>7. CASE Reborn
  BY <1>7 DEF Reborn, StopsInOrder, NotStopping
<1>8. CASE Otherwise /\ ~BeginStop /\ ~\E t \in Tickets : ReleaseLeft(t)
  <2>1. stop' = stop
    BY <1>8 DEF Otherwise, OnStatusChange, PauseOrResume, orchVars, vars
  <2> QED BY <1>3, <2>1
<1> QED BY <1>2, <1>3, <1>4, <1>5, <1>6, <1>7, <1>8, NextIs DEF orchVars

\* A step of a run, of one that has its lease from this process.
LEMMA RunKeepsHolder ==
  ASSUME Reliable, RunTypeOK, BoardTypeOK, RunKeys, Own, NEW r \in Runs, RunStep(r),
         \A q \in Runs : q # r => run'[q] = run[q],
         NEW t \in Tickets, Leased(t)', Leased(t) => \E q \in Runs : Holds(q, t)
  PROVE  \E q \in Runs : Holds(q, t)'
<1>1. lease \in [Tickets -> Leases] /\ RoleOf(r) # NoRole
  BY OwnTickets, PipelineAssumption DEF BoardTypeOK
<1>2. CASE Claims(r) /\ t = run[r].key
  <2>1. lease'[t] = FreshLease(RoleOf(r)) /\ t \in run'[r].held /\ run'[r].pc = "work"
    BY <1>1, <1>2 DEF Claims
  <2>2. Holds(r, t)'
    BY <2>1 DEF Holds, Live, FreshLease
  <2> QED BY <2>2
<1>3. ~(Releases(r) /\ t = run[r].key)
  BY <1>1 DEF Releases, Leased
<1>4. \/ lease'[t] = lease[t]
      \/ lease[t].role = RoleOf(r) /\ lease'[t] = FreshLease(RoleOf(r))
      \/ Claims(r) /\ t = run[r].key
  BY <1>1, <1>3, RunHolds DEF Keeps, Claims, Releases, Freshens, Drops
<1>5. CASE ~(Claims(r) /\ t = run[r].key)
  <2>1. Leased(t) /\ lease'[t].role = lease[t].role
    <3>1. CASE lease'[t] = lease[t]
      BY <3>1 DEF Leased
    <3>2. CASE lease[t].role = RoleOf(r) /\ lease'[t] = FreshLease(RoleOf(r))
      BY <1>1, <3>2 DEF Leased, FreshLease, NoLease
    <3> QED BY <1>4, <1>5, <3>1, <3>2
  <2>2. PICK q \in Runs : Holds(q, t)
    BY <2>1
  <2>3. CASE q # r
    BY <2>1, <2>2, <2>3 DEF Holds, Live
  <2>4. CASE q = r
    <3>1. run[r].pc # "done" /\ t \in run[r].held /\ RoleOf(r) = lease[t].role
      BY <2>2, <2>4 DEF Holds, Live
    <3>2. run'[r].pc # "done" /\ t \in run'[r].held
      BY <1>3, <1>5, <3>1, RunHolds DEF Keeps, Claims, Releases, Freshens, Drops
    <3> QED BY <2>1, <3>1, <3>2 DEF Holds, Live
  <2> QED BY <2>3, <2>4
<1> QED BY <1>2, <1>5

\* An evaluator takes leases away, it gives none; and it leaves runs alone.
LEMMA EvaluatorLeases ==
  ASSUME NEW e \in Evaluators, EvaluatorStep(e)
  PROVE  lease' = lease \/ (Reclaim(e) /\ lease' = [lease EXCEPT ![TicketOf(e)] = NoLease])
<1>1. UNCHANGED boardVars => lease' = lease
  BY DEF boardVars
<1>2. CASE SweepBegin(e) \/ SweepSearch(e) \/ FlushBegin(e) \/ TakeLock(e)
           \/ EvaluationFails(e) \/ PassFails(e)
  BY <1>1, <1>2 DEF SweepBegin, SweepSearch, FlushBegin, TakeLock, EvaluationFails, PassFails
<1>3. CASE EvaluateTicket(e)
  BY <1>1, <1>3 DEF EvaluateTicket, Consider, ReadLease, Reclaim, ReclaimBumpRead, ReclaimBumpWrite,
     ReadRetries, ResetRetries, EscalateTicket, ReadRework, ReadWaiting,
     Unpark, WriteLease, WriteRetries, WriteWaiting, AddLabels
<1>4. CASE EvaluateQueues(e)
  BY <1>1, <1>4 DEF EvaluateQueues, EnterQueues, ConsiderQueue, CheckCapacity, LeaveQueues
<1> QED BY <1>2, <1>3, <1>4 DEF EvaluatorStep

LEMMA EvaluatorRuns ==
  ASSUME IInv, NEW e \in Evaluators, EvaluatorStep(e)
  PROVE  /\ UNCHANGED <<paused, stop, restarts>>
         /\ run' = run \/ SomeAdmitted(e)
BY PassEvaluates, TicketEvaluates, DispatchEvaluates
   DEF IInv, TypeOK, EvaluatorStep, EvaluateTicket, EvaluateQueues

LEMMA AdmissionsAreNew ==
  ASSUME IInv, NEW e \in Evaluators, SomeAdmitted(e)
  PROVE  \A q \in Runs : Live(q) => run'[q] = run[q]
<1>1. PICK x \in Slots, i \in Instances, s \in Statuses, ts \in SUBSET Tickets :
        Admits(e, x, i, s, ts)
  BY DEF SomeAdmitted
<1> DEFINE rec == NewRun(x, s, ts)
<1>2. run' = [run EXCEPT ![<<x, i>>] = rec] /\ running[x] = NotRunning
  BY <1>1 DEF Admits, Registered
<1>3. ~Live(<<x, i>>)
  <2>1. SUFFICES ASSUME Live(<<x, i>>) PROVE FALSE
    OBVIOUS
  <2>2. running[x] = [inst |-> i, status |-> run[<<x, i>>].at]
    BY <2>1 DEF IInv, LiveRegistered
  <2>3. i = 0
    BY <1>2, <2>2 DEF NotRunning
  <2> QED BY <2>3, RunAssumption
<1> HIDE DEF rec
<1> QED BY <1>2, <1>3 DEF IInv, TypeOK, RunTypeOK

LEMMA LeasesHeldKept ==
  ASSUME Reliable, IInv, Own, NoBeats, StopsInOrder, LeasesHeld, [Next]_vars
  PROVE  LeasesHeld'
<1> SUFFICES ASSUME FirstLife', NEW t \in Tickets, Leased(t)'
             PROVE  \E q \in Runs : Holds(q, t)'
  BY DEF LeasesHeld
<1>1. TypeOK /\ RunTypeOK /\ BoardTypeOK /\ RunKeys /\ lease \in [Tickets -> Leases]
  BY DEF IInv, TypeOK, BoardTypeOK
<1>2. ASSUME FirstLife, \A q \in Runs : Live(q) => run'[q] = run[q],
             Leased(t), lease'[t].role = lease[t].role
      PROVE  \E q \in Runs : Holds(q, t)'
  <2>1. PICK q \in Runs : Holds(q, t)
    BY <1>2 DEF LeasesHeld
  <2>2. Holds(q, t)'
    BY <1>2, <2>1 DEF Holds, Live
  <2> QED BY <2>2
<1>3. ASSUME NEW e \in Evaluators, EvaluatorStep(e)
      PROVE  \E q \in Runs : Holds(q, t)'
  <2>1. FirstLife
    BY <1>3, EvaluatorRuns DEF FirstLife
  <2>2. \A q \in Runs : Live(q) => run'[q] = run[q]
    BY <1>3, EvaluatorRuns, AdmissionsAreNew
  <2>3. lease'[t] = lease[t]
    BY <1>1, <1>3, EvaluatorLeases DEF Leased
  <2> QED BY <1>2, <2>1, <2>2, <2>3 DEF Leased
<1>4. ASSUME NEW r \in Runs, RunStep(r), UNCHANGED orchVars
      PROVE  \E q \in Runs : Holds(q, t)'
  <2>1. FirstLife
    BY <1>4 DEF FirstLife, orchVars
  <2>2. \A q \in Runs : q # r => run'[q] = run[q]
    BY <1>1, <1>4, RunStepAdvances, AdvanceFrame
  <2> QED BY <1>1, <1>4, <2>1, <2>2, RunKeepsHolder DEF LeasesHeld
<1>5. ASSUME NEW r \in Runs, Notice(r)
      PROVE  FALSE
  BY <1>5 DEF Notice, StopsInOrder, FirstLife, IInv, TypeOK, StopRecords
<1>6. CASE Otherwise
  <2>1. FirstLife
    <3>1. stop' = stop \/ stop'.on \/ \E u \in Tickets : stop' = [stop EXCEPT !.left = @ \ {u}]
      BY <1>6 DEF Otherwise, OnStatusChange, PauseOrResume, BeginStop, ReleaseLeft, orchVars, vars
    <3>2. stop'.on = stop.on
      BY <3>1 DEF FirstLife, IInv, TypeOK, StopRecords
    <3> QED BY <1>6, <3>2, OtherwiseFrame DEF FirstLife
  <2>2. lease' = lease \/ \E u \in Tickets : Expire(u)
    BY <1>6, <2>1 DEF Otherwise, NoBeats, OnStatusChange, Humans, HumanMove, HumanLabel,
       PauseOrResume, BeginStop, ReleaseLeft, FirstLife, StopsInOrder, boardVars, vars
  <2>3. Leased(t) /\ lease'[t].role = lease[t].role
    <3>1. CASE \E u \in Tickets : Expire(u)
      <4>1. PICK u \in Tickets : lease' = [lease EXCEPT ![u] = [lease[u] EXCEPT !.stale = TRUE]]
                                 /\ lease[u] # NoLease
        BY <3>1 DEF Expire, Active, WriteLease
      <4>2. lease[u] \in Leases
        BY <1>1
      <4> QED BY <1>1, <4>1, <4>2 DEF Leased, Leases
    <3> QED BY <2>2, <3>1 DEF Leased
  <2> QED BY <1>2, <1>6, <2>1, <2>3, OtherwiseFrame
<1>7. ~Reborn
  BY DEF Reborn, FirstLife, IInv, TypeOK
<1> QED BY <1>3, <1>4, <1>5, <1>6, <1>7, NextIs


\* The three facts the two theorems below share, and how they come about.
Orderly == LeasesHeld /\ StopsInOrder /\ NoBeats

LEMMA OrderlyInitially == Init => Orderly
BY DEF Init, BoardInit, Orderly, LeasesHeld, Leased, StopsInOrder, NotStopping, NoBeats

LEMMA OrderlyKept ==
  ASSUME Reliable, IInv, Own, Orderly, [Next]_vars
  PROVE  Orderly'
BY LeasesHeldKept, StopsInOrderKept, NoBeatsKept DEF Orderly, Reliable

\* A process that nobody kills or stops has only its first life.
LEMMA FirstLifeKept ==
  ASSUME Exits = {}, IInv, StopsInOrder, FirstLife, [Next]_vars
  PROVE  FirstLife'
<1>1. ~(Restart \/ Exit \/ BeginStop)
  BY DEF Restart, Exit, BeginStop, FirstLife
<1>2. stop.told = {} /\ stop.left = {}
  BY DEF StopsInOrder, FirstLife
<1>3. CASE Otherwise
  <2>1. stop' = stop /\ restarts' = restarts
    BY <1>1, <1>2, <1>3 DEF Otherwise, OnStatusChange, PauseOrResume, ReleaseLeft, orchVars, vars
  <2> QED BY <2>1 DEF FirstLife
<1>4. CASE \E r \in Runs : Notice(r)
  BY <1>2, <1>4 DEF Notice
<1> QED BY <1>1, <1>3, <1>4, NextIs, EvaluatorRuns DEF FirstLife, orchVars

\* No run leaves a lease behind, however it ends: the inductive form says that a
\* live run of the lease's own role holds the ticket.
THEOREM LeasesHaveHolders == Reliable /\ Exits = {} => (Spec => []LeaseHasHolder)
<1> SUFFICES ASSUME Reliable, Exits = {} PROVE Spec => []LeaseHasHolder
  OBVIOUS
<1>1. Init => Orderly /\ FirstLife
  BY OrderlyInitially DEF Init, FirstLife, NotStopping
<1>2. IInv /\ Own /\ Orderly /\ FirstLife /\ [Next]_vars => Orderly' /\ FirstLife'
  BY OrderlyKept, FirstLifeKept DEF Orderly
<1>3. Orderly /\ FirstLife => LeaseHasHolder
  BY DEF Orderly, LeasesHeld, LeaseHasHolder, Holds
<1> QED BY <1>1, <1>2, <1>3, InductiveInvariant, RunsHoldTheirOwn, PTL DEF Spec

(***************************************************************************)
(* A graceful stop leaves no lease behind.                                 *)
(***************************************************************************)
\* Whoever is still live was told, and what is leased is stop's to release.
Calm ==
  stop.on /\ stop.calm =>
    /\ \A e \in Evaluators : InPc(e, "idle")
    /\ \A t \in Tickets : Leased(t) => t \in stop.left
    /\ \A r \in Runs : Live(r) => r \in stop.told \/ run[r].op = "cancel"
    /\ \A r \in stop.told : OwnTicket(r) \in stop.left

LEMMA IdleStays ==
  ASSUME Flushes = {}, stop.on, NEW e \in Evaluators, InPc(e, "idle")
  PROVE  ~EvaluatorStep(e)
<1>1. ~(SweepBegin(e) \/ SweepSearch(e) \/ FlushBegin(e) \/ TakeLock(e))
  BY DEF SweepBegin, SweepSearch, FlushBegin, TakeLock, InPc
<1>2. ~(EvaluationFails(e) \/ PassFails(e) \/ EvaluateQueues(e))
  BY DEF EvaluationFails, PassFails, TicketPcs, EvaluateQueues, EnterQueues, ConsiderQueue,
     CheckCapacity, LeaveQueues, InPc
<1>3. ~EvaluateTicket(e)
  BY DEF EvaluateTicket, Consider, ReadLease, Reclaim, ReclaimBumpRead, ReclaimBumpWrite,
     ReadRetries, ResetRetries, EscalateTicket, ReadRework, ReadWaiting, Unpark, InPc
<1> QED BY <1>1, <1>2, <1>3 DEF EvaluatorStep

\* Live runs are the ones `running` names, so stop tells them all.
LEMMA RegisteredToStop ==
  ASSUME IInv, QueueRoles = {}, NEW r \in Runs, Live(r)
  PROVE  running[r[1]].inst = r[2] /\ OwnTicket(r) \in TicketsRunning
<1>1. ~IsQueueRun(r) /\ r[1] \in TicketSlots /\ OwnTicket(r) \in Tickets
  BY OwnTickets DEF IsQueueRun
<1>2. r[2] \in Instances /\ r[2] # 0 /\ r = <<r[1], r[2]>> /\ r[1] \in Slots
  BY OwnTickets, RunAssumption
<1>3. Live(<<r[1], r[2]>>)
  BY <1>2 DEF Live
<1>4. running[r[1]] = [inst |-> r[2], status |-> run[<<r[1], r[2]>>].at]
  BY <1>2, <1>3 DEF IInv, LiveRegistered
<1>5. running[r[1]].inst = r[2] /\ Registered(r[1])
  BY <1>2, <1>4 DEF NotRunning, Registered
<1> QED BY <1>1, <1>5 DEF TicketsRunning, OwnTicket

LEMMA CalmBegins ==
  ASSUME QueueRoles = {}, MaxRestarts <= 1, IInv, Own, LeasesHeld, BeginStop
  PROVE  Calm'
<1>1. FirstLife
  BY OrchestratorAssumption DEF BeginStop, FirstLife, IInv, TypeOK
<1>2. /\ stop'.told = {r \in Runs : Live(r) /\ running[r[1]].inst = r[2]}
      /\ stop'.left = TicketsRunning
      /\ stop'.calm => \A e \in Evaluators : InPc(e, "idle")
      /\ run' = run /\ ev' = ev /\ lease' = lease
  BY DEF BeginStop, boardVars
<1>3. ASSUME NEW t \in Tickets, Leased(t)
      PROVE  t \in TicketsRunning
  <2>1. PICK r \in Runs : Holds(r, t)
    BY <1>1, <1>3 DEF LeasesHeld
  <2>2. Live(r) /\ t = OwnTicket(r)
    BY <2>1 DEF Holds, Own, Fits, IsQueueRun
  <2> QED BY <2>2, RegisteredToStop
<1>4. \A r \in Runs : Live(r) => r \in stop'.told
  BY <1>2, RegisteredToStop
<1>5. \A r \in stop'.told : OwnTicket(r) \in TicketsRunning
  BY <1>2, RegisteredToStop
<1> QED BY <1>2, <1>3, <1>4, <1>5 DEF Calm, InPc, Leased, Live


\* A run that is being cancelled gives its ticket back and does nothing else.
LEMMA CancelledTells ==
  ASSUME Reliable, QueueRoles = {}, RunTypeOK, Own, NEW r \in Runs, RunStep(r),
         run[r].op = "cancel"
  PROVE  run'[r].pc = "done" \/ run'[r].op = "cancel"
<1>1. run[r].pc = "release" /\ ~IsQueueRun(r)
  BY DEF Own, Fits, IsQueueRun
<1>2. CASE Release(r)
  <2> DEFINE left == run[r].held \ {run[r].key}
  <2>1. left = run[r].held \ {run[r].key}
    OBVIOUS
  <2> HIDE DEF left
  <2> QED BY <1>2, <2>1, AfterReleaseTells DEF Release, Ends, To
<1>3. CASE Heartbeat(r)
  BY <1>1, <1>3, HeartbeatTells
<1>4. ~ClaimFails(r) /\ ~CallFails(r) /\ ~BeatRead(r)
  BY DEF Reliable, ClaimFails, CallFails, BeatRead
<1>5. ~Choose(r)
  BY <1>1 DEF Choose, BeginClaim, BeginHandoff, BeginEscalate, BeginRelease, BeginFinish,
     IncrementRework, BeginCrash, At
<1>6. Proceed(r) => Release(r)
  BY <1>1 DEF Proceed, ClaimRead, ClaimWrite, Move, ClearWaiting, ClearRetries, BumpRead,
     BumpWrite, At
<1> QED BY <1>2, <1>3, <1>4, <1>5, <1>6 DEF RunStep

\* The leases a step of a run may write: for a run past its claim, none on a
\* ticket that has none.
LEMMA NoLeaseFromCancelled ==
  ASSUME Reliable, RunTypeOK, BoardTypeOK, Own, NEW r \in Runs, RunStep(r),
         run[r].pc # "writing", NEW t \in Tickets, Leased(t)'
  PROVE  Leased(t)
<1>1. lease \in [Tickets -> Leases] /\ RoleOf(r) # NoRole
  BY OwnTickets, PipelineAssumption DEF BoardTypeOK
<1>2. CASE Freshens(r)
  <2>1. PICK u \in run[r].held : /\ lease[u].role = RoleOf(r)
                                 /\ lease' = [lease EXCEPT ![u] = FreshLease(RoleOf(r))]
    BY <1>2 DEF Freshens
  <2>2. u = t => lease[t] # NoLease
    BY <1>1, <2>1 DEF NoLease
  <2>3. u # t => lease'[t] = lease[t]
    BY <1>1, <2>1
  <2> QED BY <2>2, <2>3 DEF Leased
<1>3. CASE Keeps(r) \/ Releases(r) \/ Drops(r)
  BY <1>1, <1>3 DEF Keeps, Releases, Drops, Leased
<1> QED BY <1>2, <1>3, RunHolds DEF Claims

\* A cancelled request may still claim the ticket of its own run, no other.
LEMMA InFlightLeases ==
  ASSUME BoardTypeOK, NEW r \in Runs, InFlight(r), NEW t \in Tickets, Leased(t)'
  PROVE  Leased(t) \/ (t = run[r].key /\ run[r].pc = "writing")
BY DEF InFlight, BoardTypeOK, Leased, At, boardVars, WriteLease, Transition, WriteWaiting,
   WriteRetries

LEMMA OtherwiseLeases ==
  ASSUME BoardTypeOK, NoBeats, Otherwise, NEW t \in Tickets, Leased(t)'
  PROVE  /\ Leased(t)
         /\ \A u \in Tickets : ReleaseLeft(u) /\ "run" \notin JiraFails => t # u
<1>1. (\E u \in Tickets : Expire(u)) => Leased(t)
  BY DEF Expire, Active, WriteLease, BoardTypeOK, Leased
<1>2. (\E u \in Tickets : ReleaseLeft(u)) => Leased(t)
  BY DEF ReleaseLeft, WriteLease, BoardTypeOK, Leased, boardVars
<1>3. lease' = lease => Leased(t)
  BY DEF Leased
<1>4. lease' = lease \/ (\E u \in Tickets : Expire(u)) \/ (\E u \in Tickets : ReleaseLeft(u))
  BY DEF Otherwise, NoBeats, OnStatusChange, Humans, HumanMove, HumanLabel,
     PauseOrResume, BeginStop, boardVars, vars
<1>5. \A u \in Tickets : ReleaseLeft(u) /\ "run" \notin JiraFails => t # u
  BY DEF ReleaseLeft, WriteLease, BoardTypeOK, Leased
<1> QED BY <1>1, <1>2, <1>3, <1>4, <1>5

StopsCleanly ==
  Reliable /\ QueueRoles = {} /\ Flushes = {} /\ "kill" \notin Exits /\ MaxRestarts <= 1

LEMMA CalmKept ==
  ASSUME StopsCleanly, IInv, Own, Orderly, Calm, [Next]_vars
  PROVE  Calm'
<1>1. TypeOK /\ RunTypeOK /\ BoardTypeOK /\ RunKeys /\ stop \in StopRecords
  BY DEF IInv, TypeOK
<1>2. ASSUME NEW e \in Evaluators, EvaluatorStep(e)
      PROVE  Calm'
  <2>1. stop' = stop
    BY <1>2, EvaluatorRuns
  <2>2. ~(stop.on /\ stop.calm)
    BY <1>2, IdleStays DEF Calm, StopsCleanly
  <2> QED BY <2>1, <2>2 DEF Calm
<1>3. ASSUME NEW r \in Runs, Free(r), RunStep(r), UNCHANGED orchVars, stop.on, stop.calm
      PROVE  Calm'
  <2>1. Live(r) /\ \A q \in Runs : q # r => run'[q] = run[q]
    BY <1>1, <1>3, RunStepAdvances, AdvanceFrame
  <2>2. run[r].op = "cancel" /\ run[r].pc = "release"
    BY <1>3, <2>1 DEF Free, Calm, Own, Fits
  <2>3. run'[r].pc = "done" \/ run'[r].op = "cancel"
    BY <1>1, <1>3, <2>2, CancelledTells DEF StopsCleanly
  <2>4. \A t \in Tickets : Leased(t)' => Leased(t)
    BY <1>1, <1>3, <2>2, NoLeaseFromCancelled DEF StopsCleanly
  <2>5. stop' = stop /\ ev' = ev
    BY <1>3 DEF orchVars
  <2>6. \A q \in Runs : Live(q)' => q \in stop.told \/ run'[q].op = "cancel"
    BY <1>3, <2>1, <2>3 DEF Calm, Live
  <2> QED BY <1>3, <2>4, <2>5, <2>6 DEF Calm, InPc
<1>4. ASSUME NEW r \in Runs, Notice(r), stop.on, stop.calm
      PROVE  Calm'
  <2>1. Live(r) /\ Cancel(r) /\ InFlight(r) /\ r \in stop.told /\ ev' = ev
    BY <1>4 DEF Notice, Cancel
  <2>2. \A q \in Runs : q # r => run'[q] = run[q]
    BY <1>1, <2>1, CancelAdvances, AdvanceFrame
  <2>3. run'[r].pc = "done" \/ run'[r].op = "cancel"
    BY <1>1, <2>1, CancelTells DEF Ends, To
  <2>4. stop'.on /\ stop'.calm /\ stop'.left = stop.left /\ stop'.told = stop.told \ {r}
    BY <1>1, <1>4 DEF Notice, StopRecords
  <2>5. run[r].pc = "writing" => run[r].key = OwnTicket(r)
    BY DEF Own, Fits, IsQueueRun, StopsCleanly
  <2>6. \A t \in Tickets : Leased(t)' => t \in stop.left
    BY <1>1, <1>4, <2>1, <2>5, InFlightLeases DEF Calm
  <2>7. \A q \in Runs : Live(q)' => q \in stop'.told \/ run'[q].op = "cancel"
    BY <1>4, <2>2, <2>3, <2>4 DEF Calm, Live
  <2> QED BY <1>4, <2>1, <2>4, <2>6, <2>7 DEF Calm, InPc
<1>5. CASE BeginStop
  BY <1>5, CalmBegins DEF StopsCleanly, Orderly
<1>6. CASE Otherwise /\ ~BeginStop
  <2>1. UNCHANGED <<run, ev>>
    BY <1>6, OtherwiseFrame
  <2>2. \A t \in Tickets : Leased(t)' => Leased(t)
    BY <1>1, <1>6, OtherwiseLeases DEF Orderly
  <2>3. CASE \E u \in Tickets : ReleaseLeft(u)
    <3>1. PICK u \in Tickets : ReleaseLeft(u)
      BY <2>3
    <3>2. /\ stop'.on = stop.on /\ stop'.calm = stop.calm /\ stop'.told = {} /\ stop.told = {}
          /\ stop'.left = stop.left \ {u}
      BY <1>1, <3>1 DEF ReleaseLeft, StopRecords
    <3>3. \A t \in Tickets : Leased(t)' => t # u
      BY <1>1, <1>6, <3>1, OtherwiseLeases DEF Orderly, StopsCleanly, Reliable
    <3> QED BY <2>1, <2>2, <3>2, <3>3 DEF Calm, InPc, Live
  <2>4. CASE stop' = stop
    BY <2>1, <2>2, <2>4 DEF Calm, InPc, Live
  <2>5. stop' = stop \/ \E u \in Tickets : ReleaseLeft(u)
    BY <1>6 DEF Otherwise, OnStatusChange, PauseOrResume, orchVars, vars
  <2> QED BY <2>3, <2>4, <2>5
<1>7. CASE Reborn
  BY <1>7 DEF Reborn, Calm, NotStopping
<1>8. CASE UNCHANGED stop /\ ~(stop.on /\ stop.calm)
  BY <1>8 DEF Calm
<1>9. \A r \in Runs : Notice(r) => stop.on /\ stop'.on = stop.on /\ stop'.calm = stop.calm
  BY <1>1 DEF Notice, StopRecords, Orderly, StopsInOrder
<1>10. \A r \in Runs : Notice(r) => Calm'
  BY <1>4, <1>9 DEF Calm
<1> QED BY <1>2, <1>3, <1>5, <1>6, <1>7, <1>8, <1>10, NextIs DEF orchVars

\* A graceful stop with no pass in progress leaves no lease behind, wherever
\* the runs were when they were told, for any tickets, roles and limits.
THEOREM StopLeavesNoLease == StopsCleanly => (Spec => CleanStop)
<1> SUFFICES ASSUME StopsCleanly PROVE Spec => CleanStop
  OBVIOUS
<1>1. Init => Orderly /\ Calm
  BY OrderlyInitially DEF Init, Calm, NotStopping
<1>2. IInv /\ Own /\ Orderly /\ Calm /\ [Next]_vars => Orderly' /\ Calm'
  BY OrderlyKept, CalmKept DEF StopsCleanly
<1>3. ASSUME IInv, Calm, [Next]_vars, stop.on, stop.calm, ~stop'.on
      PROVE  \A t \in Tickets : ~Leased(t)
  <2>1. stop \in StopRecords
    BY <1>3 DEF IInv, TypeOK
  <2>2. ~\E e \in Evaluators : EvaluatorStep(e)
    BY <1>3, EvaluatorRuns
  <2>3. ~\E r \in Runs : Notice(r)
    BY <1>3, <2>1 DEF Notice, StopRecords
  <2>4. ~Otherwise
    BY <1>3, <2>1 DEF Otherwise, OnStatusChange, PauseOrResume, BeginStop, ReleaseLeft,
       StopRecords, orchVars, vars
  <2>5. Exit
    BY <1>3, <2>2, <2>3, <2>4, NextIs DEF orchVars, StopsCleanly, Restart
  <2> QED BY <1>3, <2>5 DEF Exit, Calm
<1>4. IInv /\ Calm /\ [Next]_vars
        => [stop.on /\ stop.calm /\ ~stop'.on => \A t \in Tickets : ~Leased(t)]_vars
  BY <1>3
<1> QED BY <1>1, <1>2, <1>4, InductiveInvariant, RunsHoldTheirOwn, PTL DEF Spec, CleanStop

(***************************************************************************)
(* No two runs at work hold the same ticket.                               *)
(***************************************************************************)
\* One sweep at a time and no flush beside it, no queue roles, nobody but the
\* agents moving tickets, no heartbeat lost and no call of a run failing: what
\* a run then has to fear is the order in which the others take their steps.
Undisturbed ==
  /\ \A e1, e2 \in Sweeps : e1 = e2
  /\ Flushes = {} /\ QueueRoles = {} /\ HumanStatuses = {}
  /\ Reliable /\ ~HeartbeatsFail

Contends(r) == Live(r) /\ run[r].op # "cancel"

\* It has not claimed its ticket yet.
Early(r) == run[r].pc \in {"start", "writing"}

\* It has not moved its ticket, and has not given up on it either.
Unmoved(r) ==
  run[r].pc \in {"start", "writing", "work", "move", "bump", "bumped"} \/ run[r].op = "crash"

\* The way of a ticket role's run: what it is after a step, by what it was.
Course(r) ==
  /\ Contends(r)' => Contends(r)
  /\ Contends(r)' /\ Early(r)' => Early(r)
  /\ Contends(r)' /\ Unmoved(r)' => Unmoved(r)

LEMMA TicketRun ==
  ASSUME QueueRoles = {}, NEW r \in Runs
  PROVE  /\ ~IsQueueRun(r) /\ r[1] \in TicketSlots /\ OwnTicket(r) \in Tickets
         /\ RoleOf(r) \in TicketRoles /\ r[1] = <<RoleOf(r), OwnTicket(r)>>
<1>1. ~IsQueueRun(r)
  BY DEF IsQueueRun
<1>2. r[1] \in TicketSlots
  BY <1>1, OwnTickets
<1> QED BY <1>1, <1>2 DEF TicketSlots, OwnTicket, RoleOf

LEMMA CourseTold ==
  ASSUME NEW r, NEW p, NEW o, NEW k, NEW h, NEW n, To(r, p, o, k, h, n),
         o # "cancel" => Contends(r),
         o # "cancel" /\ p \in {"start", "writing"} => Early(r),
         \/ o = "cancel"
         \/ p \notin {"start", "writing", "work", "move", "bump", "bumped"} /\ o # "crash"
         \/ Unmoved(r)
  PROVE  Course(r)
BY DEF To, Course, Contends, Early, Unmoved, Live

LEMMA CourseEnds ==
  ASSUME NEW r, Ends(r)
  PROVE  Course(r)
BY DEF Ends, To, Course, Contends, Live

\* A ticket role's release is its last step.
LEMMA ReleaseEnds ==
  ASSUME QueueRoles = {}, RunTypeOK, Own, NEW r \in Runs, Release(r)
  PROVE  Ends(r)
<1> DEFINE left == run[r].held \ {run[r].key}
<1>1. left = {}
  BY DEF Release, At, Own, Fits, IsQueueRun
<1>2. left = run[r].held \ {run[r].key}
  OBVIOUS
<1> HIDE DEF left
<1> QED BY <1>1, <1>2, AfterReleaseTells DEF Release, IsQueueRun

LEMMA ProceedCourse ==
  ASSUME QueueRoles = {}, RunTypeOK, Own, NEW r \in Runs, Proceed(r)
  PROVE  Course(r)
<1>1. Fits(r, run[r].pc, run[r].op, run[r].key, run[r].held) /\ ~IsQueueRun(r)
  BY TicketRun DEF Own
<1>2. run[r].pc # "release" => Contends(r) \/ ~Live(r)
  BY <1>1 DEF Fits, Contends
<1>3. CASE ClaimRead(r)
  <2>1. run[r].pc = "start"
    BY <1>1, <1>3 DEF ClaimRead, Fits
  <2>2. Contends(r) /\ Early(r) /\ Unmoved(r)
    BY <1>2, <2>1 DEF Live, Early, Unmoved
  <2> QED BY <1>1, <1>3, <2>2, ClaimReadTells, CourseTold, CourseEnds
<1>4. CASE ClaimWrite(r)
  <2>1. run[r].pc = "writing"
    BY <1>4 DEF ClaimWrite, At
  <2>2. Contends(r) /\ Unmoved(r)
    BY <1>2, <2>1 DEF Live, Unmoved
  <2> QED BY <1>4, <2>2, ClaimWriteTells, CourseTold
<1>5. CASE Move(r)
  <2>1. run[r].pc = "move" /\ run[r].op = "step"
    BY <1>1, <1>5 DEF Move, At, Fits
  <2>2. Contends(r) /\ Unmoved(r)
    BY <1>2, <2>1 DEF Live, Unmoved
  <2> QED BY <1>5, <2>1, <2>2, MoveTells, CourseTold
<1>6. ASSUME ClearWaiting(r) \/ ClearRetries(r)
      PROVE  Course(r)
  <2>1. run[r].pc \in {"clear", "reset"} /\ run[r].op = "step"
    BY <1>1, <1>6 DEF ClearWaiting, ClearRetries, At, Fits
  <2>2. Contends(r)
    BY <1>2, <2>1 DEF Live
  <2>3. \E p \in {"reset", "release"} : To(r, p, run[r].op, run[r].key, run[r].held, run[r].cnt)
    BY <1>6, WentTo DEF ClearWaiting, ClearRetries
  <2> QED BY <2>1, <2>2, <2>3, CourseTold
<1>7. CASE BumpRead(r)
  <2>1. run[r].pc = "bump"
    BY <1>7 DEF BumpRead, At
  <2>2. Contends(r) /\ Unmoved(r)
    BY <1>2, <2>1 DEF Live, Unmoved
  <2> DEFINE n == retries[run[r].key]
  <2>3. To(r, "bumped", run[r].op, run[r].key, run[r].held, n)
    BY <1>7, BumpReadTells
  <2> HIDE DEF n
  <2> QED BY <2>2, <2>3, CourseTold
<1>8. CASE BumpWrite(r)
  <2>1. run[r].pc = "bumped"
    BY <1>8 DEF BumpWrite, At
  <2>2. Contends(r) /\ Unmoved(r)
    BY <1>2, <2>1 DEF Live, Unmoved
  <2> QED BY <1>8, <2>2, BumpWriteTells, CourseTold
<1>9. CASE Release(r)
  BY <1>9, ReleaseEnds, CourseEnds
<1> QED BY <1>3, <1>4, <1>5, <1>6, <1>7, <1>8, <1>9 DEF Proceed

LEMMA ChoiceCourse ==
  ASSUME QueueRoles = {}, RunTypeOK, Own, NEW r \in Runs, Choose(r)
  PROVE  Course(r)
<1>1. run[r].pc = "work"
  BY DEF Choose, BeginClaim, BeginHandoff, BeginEscalate, BeginRelease, BeginFinish,
     IncrementRework, BeginCrash, At
<1>2. Contends(r) /\ Unmoved(r) /\ ~IsQueueRun(r)
  BY <1>1, TicketRun DEF Own, Fits, Contends, Live, Unmoved
<1>3. ASSUME NEW k, NEW p, NEW o, p \notin {"start", "writing"},
             To(r, p, o, k, run[r].held, run[r].cnt)
      PROVE  Course(r)
  BY <1>2, <1>3, CourseTold
<1>4. CASE BeginHandoff(r)
  BY <1>3, <1>4, BeginHandoffTells
<1>5. CASE BeginEscalate(r)
  BY <1>3, <1>5, BeginEscalateTells
<1>6. CASE BeginFinish(r)
  BY <1>3, <1>6, BeginFinishTells, CourseEnds
<1>7. CASE BeginCrash(r)
  BY <1>3, <1>7, BeginCrashTells, CourseEnds
<1>8. CASE IncrementRework(r)
  BY <1>8 DEF IncrementRework, Course, Contends, Early, Unmoved, Live
<1>9. ~BeginClaim(r) /\ ~BeginRelease(r)
  BY <1>2 DEF BeginClaim, BeginRelease
<1> QED BY <1>4, <1>5, <1>6, <1>7, <1>8, <1>9 DEF Choose

LEMMA RunCourse ==
  ASSUME Undisturbed, RunTypeOK, Own, NEW r \in Runs, RunStep(r) \/ Notice(r)
  PROVE  Course(r)
<1>1. CASE Heartbeat(r)
  <2>1. UNCHANGED run
    BY <1>1, TicketRun, HeartbeatTells DEF Undisturbed
  <2> QED BY <2>1 DEF Course, Contends, Early, Unmoved, Live
<1>2. CASE Notice(r)
  BY <1>2, CancelTells DEF Notice, Ends, To, Course, Contends, Live
<1>3. ~ClaimFails(r) /\ ~CallFails(r) /\ ~BeatRead(r)
  BY DEF Undisturbed, Reliable, ClaimFails, CallFails, BeatRead
<1> QED BY <1>1, <1>2, <1>3, ProceedCourse, ChoiceCourse DEF RunStep, Undisturbed

\* Only a hand-off moves a ticket, and its run is past it then.
LEMMA WhoMoves ==
  ASSUME Undisturbed, RunTypeOK, Own, NEW r \in Runs, RunStep(r) \/ Notice(r)
  PROVE  \/ status' = status
         \/ /\ run[r].pc = "move" /\ run[r].op = "step"
            /\ \E s : status' = [status EXCEPT ![OwnTicket(r)] = s]
            /\ ~(Contends(r)' /\ Unmoved(r)')
<1>1. UNCHANGED boardVars => status' = status
  BY DEF boardVars
<1>2. Fits(r, run[r].pc, run[r].op, run[r].key, run[r].held) /\ ~IsQueueRun(r)
  BY TicketRun DEF Own, Undisturbed
<1>3. CASE Move(r)
  <2>1. run[r].pc = "move" /\ run[r].op = "step" /\ run[r].key = OwnTicket(r)
    BY <1>2, <1>3 DEF Move, At, Fits
  <2>2. CASE Transition(run[r].key, run[r].to)
             /\ To(r, "clear", run[r].op, run[r].key, run[r].held, run[r].cnt)
    BY <2>1, <2>2 DEF Transition, To, Unmoved
  <2> QED BY <1>1, <1>3, <2>2, MoveTells
<1>4. CASE Notice(r)
  <2>1. ~Contends(r)'
    BY <1>4, CancelTells DEF Notice, Ends, To, Contends, Live
  <2>2. status' = status \/ (At(r, "move") /\ Transition(run[r].key, run[r].to))
    BY <1>1, <1>4 DEF Notice, Cancel, InFlight, WriteLease, WriteWaiting, WriteRetries
  <2>3. At(r, "move") => run[r].op = "step" /\ run[r].key = OwnTicket(r)
    BY <1>2 DEF Fits, At
  <2> QED BY <2>1, <2>2, <2>3 DEF At, Transition
<1>5. CASE Proceed(r) /\ ~Move(r)
  BY <1>1, <1>5 DEF Proceed, ClaimRead, ClaimWrite, ClearWaiting, ClearRetries, BumpRead,
     BumpWrite, Release, WriteLease, WriteRetries, WriteWaiting
<1>6. CASE Choose(r)
  BY <1>1, <1>6 DEF Choose, BeginClaim, BeginHandoff, BeginEscalate, BeginRelease, BeginFinish,
     BeginCrash, IncrementRework, WriteWaiting, AddLabels
<1>7. CASE Heartbeat(r)
  BY <1>1, <1>7 DEF Heartbeat, WriteLease
<1>8. ~ClaimFails(r) /\ ~CallFails(r) /\ ~BeatRead(r)
  BY DEF Undisturbed, Reliable, ClaimFails, CallFails, BeatRead
<1> QED BY <1>3, <1>4, <1>5, <1>6, <1>7, <1>8 DEF RunStep

\* The ticket is claimed: the run holds it and its lease is good.
Claimed(r) ==
  run[r].held = {OwnTicket(r)} /\ lease[OwnTicket(r)] = FreshLease(RoleOf(r))

\* A run writes no lease but that of its own ticket.
LEMMA LeaseOfOwn ==
  ASSUME Undisturbed, RunTypeOK, Own, NEW r \in Runs, RunStep(r) \/ Notice(r)
  PROVE  lease' = lease \/ \E l : lease' = [lease EXCEPT ![OwnTicket(r)] = l]
<1>1. Fits(r, run[r].pc, run[r].op, run[r].key, run[r].held) /\ ~IsQueueRun(r)
  BY TicketRun DEF Own, Undisturbed
<1>2. run[r].pc \in {"writing", "release"} => run[r].key = OwnTicket(r)
  BY <1>1 DEF Fits
<1>3. CASE RunStep(r)
  <2>1. CASE Keeps(r) \/ Drops(r)
    BY <2>1 DEF Keeps, Drops
  <2>2. CASE Claims(r) \/ Releases(r)
    BY <1>2, <2>2 DEF Claims, Releases
  <2>3. CASE Freshens(r)
    BY <1>1, <2>3 DEF Freshens, Fits
  <2> QED BY <1>3, <2>1, <2>2, <2>3, RunHolds DEF Undisturbed
<1>4. CASE Notice(r)
  <2>1. InFlight(r)
    BY <1>4 DEF Notice, Cancel
  <2> QED BY <1>2, <2>1 DEF InFlight, At, boardVars, WriteLease, Transition, WriteWaiting, WriteRetries
<1> QED BY <1>3, <1>4

LEMMA ClaimedKept ==
  ASSUME Undisturbed, RunTypeOK, BoardTypeOK, Own, NEW r \in Runs, RunStep(r),
         Contends(r)', ~Early(r)', Early(r) \/ Claimed(r)
  PROVE  Claimed(r)'
<1>1. Fits(r, run[r].pc, run[r].op, run[r].key, run[r].held) /\ ~IsQueueRun(r)
  BY TicketRun DEF Own, Undisturbed
<1>2. lease \in [Tickets -> Leases] /\ OwnTicket(r) \in Tickets
  BY TicketRun DEF BoardTypeOK, Undisturbed
<1>3. run'[r].pc \notin {"start", "writing", "done"}
  BY DEF Contends, Live, Early
<1>4. CASE Heartbeat(r)
  <2>1. UNCHANGED run /\ \E t \in run[r].held : WriteLease(t, FreshLease(RoleOf(r)))
    BY <1>1, <1>4, HeartbeatTells
  <2>2. Claimed(r)
    BY <1>3, <2>1 DEF Early
  <2> QED BY <1>2, <2>1, <2>2 DEF Claimed, WriteLease
<1>5. CASE Release(r)
  BY <1>3, <1>5, ReleaseEnds DEF Undisturbed, Ends, To
<1>6. CASE RunStep(r) /\ ~Heartbeat(r) /\ ~Release(r)
  <2>1. Proceed(r) \/ Choose(r)
    BY <1>6 DEF RunStep, Undisturbed, Reliable, ClaimFails, CallFails, BeatRead
  <2>2. run[r].pc = "release" => FALSE
    BY <1>6, <2>1 DEF Proceed, Choose, BeginClaim, BeginHandoff, BeginEscalate, BeginRelease,
       BeginFinish, IncrementRework, BeginCrash, ClaimRead, ClaimWrite, Move, ClearWaiting,
       ClearRetries, BumpRead, BumpWrite, At
  <2>3. Keeps(r) \/ Claims(r)
    BY <2>1, <2>2, ProceedHolds, ChoiceHolds DEF Releases
  <2>4. CASE Claims(r)
    <3>1. run[r].key = OwnTicket(r) /\ run[r].held \subseteq {OwnTicket(r)}
      BY <1>1, <2>4 DEF Claims, Fits
    <3> QED BY <1>2, <2>4, <3>1 DEF Claims, Claimed
  <2>5. CASE Keeps(r) /\ ~Early(r)
    BY <1>3, <2>5 DEF Keeps, Claimed
  <2>6. CASE Early(r)
    <3>1. ClaimRead(r) \/ ClaimWrite(r)
      BY <2>1, <2>6 DEF Early, Proceed, Choose, BeginClaim, BeginHandoff, BeginEscalate,
         BeginRelease, BeginFinish, IncrementRework, BeginCrash, Move, ClearWaiting,
         ClearRetries, BumpRead, BumpWrite, Release, At
    <3>2. ~ClaimRead(r)
      BY <1>1, <1>3, ClaimReadTells DEF Ends, To
    <3>3. /\ lease'[OwnTicket(r)] = FreshLease(RoleOf(r))
          /\ run'[r].held = run[r].held \cup {OwnTicket(r)}
      BY <1>1, <1>2, <3>1, <3>2, ClaimWriteTells DEF ClaimWrite, WriteLease, At, To, Fits
    <3> QED BY <1>1, <3>3 DEF Claimed, Fits
  <2> QED BY <2>3, <2>4, <2>5, <2>6
<1> QED BY <1>4, <1>5, <1>6

(***************************************************************************)
(* The one evaluator.                                                      *)
(***************************************************************************)
\* It starts r, which was not live, and is done with the ticket.
Begins(e, r) ==
  /\ ev[e].pc \in {"waiting", "unpark"} /\ Nexts(e)
  /\ r[1] = ev[e].slot /\ ~Live(r)
  /\ To(r, "start", "none", TicketOf(e), {}, 0) /\ run'[r].at = ev[e].st
  /\ \A q \in Runs : q # r => run'[q] = run[q]
  /\ \A x \in Slots : running'[x] # NotRunning \/ running'[x] = running[x]

LEMMA DispatchBegins ==
  ASSUME Undisturbed, IInv, NEW e \in Evaluators, Dispatch(e),
         ev[e].pc \in {"waiting", "unpark"}
  PROVE  UNCHANGED <<run, running>> \/ \E r \in Runs : Begins(e, r)
<1>1. CASE UNCHANGED <<run, running>>
  BY <1>1
<1>2. CASE Spawn(ev[e].slot, ev[e].st, {})
  <2> DEFINE x == ev[e].slot
             rec == NewRun(x, ev[e].st, {})
  <2>1. PICK i \in Instances :
          /\ ~Live(<<x, i>>)
          /\ run' = [run EXCEPT ![<<x, i>>] = rec]
          /\ running' = [running EXCEPT ![x] = [inst |-> i, status |-> ev[e].st]]
    BY <1>2 DEF Spawn
  <2>2. x \in TicketSlots /\ x \in Slots /\ x[1] \notin QueueRoles /\ x[2] = TicketOf(e)
    BY Static DEF IInv, Reserved, TicketPcs, Undisturbed, TicketOf
  <2>3. /\ rec.pc = "start" /\ rec.op = "none" /\ rec.key = TicketOf(e) /\ rec.held = {}
        /\ rec.cnt = 0 /\ rec.at = ev[e].st
    BY <2>2 DEF NewRun, DoneRun
  <2> DEFINE r == <<x, i>>
  <2>4. r \in Runs /\ r[1] = x
    BY <2>2 DEF Runs
  <2>5. Nexts(e)
    BY NextTells DEF Dispatch, Evaluators0, IInv, TypeOK
  <2>6. [inst |-> i, status |-> ev[e].st] # NotRunning
    BY RunAssumption DEF NotRunning
  <2>7. \A y \in Slots : running'[y] # NotRunning \/ running'[y] = running[y]
    BY <2>1, <2>2, <2>6 DEF IInv, TypeOK
  <2> HIDE DEF rec
  <2>8. run'[r] = rec /\ \A q \in Runs : q # r => run'[q] = run[q]
    BY <2>1, <2>4 DEF IInv, TypeOK, RunTypeOK
  <2>9. Begins(e, r)
    BY <2>1, <2>3, <2>4, <2>5, <2>7, <2>8 DEF Begins, To
  <2> QED BY <2>4, <2>9
<1> QED BY <1>1, <1>2 DEF Dispatch

LEMMA EvaluatorStarts ==
  ASSUME Undisturbed, IInv, NEW e \in Evaluators, EvaluatorStep(e)
  PROVE  \/ run' = run /\ (SweepBegin(e) \/ running' = running)
         \/ \E r \in Runs : Begins(e, r)
<1>1. TypeOK /\ Reserved
  BY DEF IInv
<1>2. e \notin Flushes
  BY DEF Undisturbed
<1>3. CASE ReadWaiting(e)
  BY <1>3, DispatchBegins DEF ReadWaiting, InPc, Evaluating
<1>4. CASE Unpark(e)
  BY <1>4, DispatchBegins DEF Unpark, InPc
<1>5. CASE EvaluateTicket(e) /\ ~ReadWaiting(e) /\ ~Unpark(e)
  BY <1>1, <1>5, TicketEvaluates DEF EvaluateTicket
<1>6. CASE EvaluationFails(e)
  BY <1>1, <1>6, TicketEvaluates
<1>7. CASE SweepBegin(e) \/ SweepSearch(e) \/ FlushBegin(e) \/ TakeLock(e) \/ PassFails(e)
  BY <1>2, <1>7 DEF SweepBegin, SweepSearch, FlushBegin, TakeLock, PassFails
<1>8. CASE EnterQueues(e) \/ LeaveQueues(e)
  BY <1>8 DEF EnterQueues, LeaveQueues
<1>9. ~ConsiderQueue(e)
  BY DEF ConsiderQueue, Undisturbed, IInv, TypeOK, EvalRecords
<1>10. ~CheckCapacity(e)
  BY DEF CheckCapacity, InPc, IInv, Reserved, Undisturbed, QueueSlots
<1> QED BY <1>3, <1>4, <1>5, <1>6, <1>7, <1>8, <1>9, <1>10 DEF EvaluatorStep, EvaluateQueues

\* It stays with its ticket: from the lease that is good or stale on.
Follows(e) ==
  /\ ev'[e].slot = ev[e].slot /\ ev'[e].st = ev[e].st
  /\ ev'[e].todo = ev[e].todo /\ ev'[e].snap = ev[e].snap
  /\ ev'[e].pc \in {"pick"} \cup (TicketPcs \ {"lease"})
  /\ ev'[e].pc \in TicketPcs => ev[e].pc \in TicketPcs
  /\ ev[e].pc = "lease" =>
       \/ ev'[e].pc = "retries" /\ ~Leased(TicketOf(e))
       \/ ev'[e].pc = "reclaim" /\ Leased(TicketOf(e)) /\ lease[TicketOf(e)].stale
  /\ ev'[e].pc \in {"reclaim", "bump", "bumped"} => ev[e].pc \in {"lease", "reclaim", "bump"}

Searched(e) ==
  /\ ev[e].pc = "search" /\ ev'[e].pc = "locking" /\ ev'[e].snap = SearchResult
  /\ ev'[e].todo = {t \in Tickets : status[t] \in AgentStatuses}

LEMMA PassTells ==
  ASSUME Undisturbed, Evaluators0, NEW e \in Evaluators, EvaluatorStep(e)
  PROVE  \/ SweepBegin(e) /\ ev'[e].pc = "search" /\ ev'[e].todo = {}
         \/ Searched(e)
         \/ \E t \in Tickets : Picked(e, t)
         \/ Follows(e)
         \/ Nexts(e)
         \/ Between(e)
<1>1. e \notin Flushes
  BY DEF Undisturbed
<1>2. CASE SweepBegin(e) \/ SweepSearch(e) \/ FlushBegin(e)
  BY <1>1, <1>2, SweepBeginTells, SweepSearchTells DEF SweepSearch, FlushBegin, InPc, Searched
<1>3. CASE TakeLock(e)
  BY <1>3, TakeLockTells DEF TakeLock, InPc, On, Follows, TicketPcs
<1>4. CASE Consider(e)
  BY <1>4, ConsiderTells
<1>5. CASE ReadLease(e)
  BY <1>5, ReadLeaseTells DEF ReadLease, InPc, On, Follows, TicketPcs, Leased
<1>6. CASE Reclaim(e) \/ ReclaimBumpRead(e) \/ ReclaimBumpWrite(e)
  BY <1>6, ReclaimTells DEF On, Follows, TicketPcs
<1>7. CASE ReadRetries(e)
  BY <1>7, ReadRetriesTells DEF ReadRetries, InPc, On, Follows, TicketPcs
<1>8. CASE ResetRetries(e)
  BY <1>8, ResetTells DEF ResetRetries, InPc, On, Follows, TicketPcs
<1>9. CASE ReadRework(e)
  BY <1>9, ReadReworkTells DEF ReadRework, InPc, On, Follows, TicketPcs
<1>10. CASE ReadWaiting(e)
  BY <1>10, ReadWaitingTells DEF ReadWaiting, InPc, On, Follows, TicketPcs
<1>11. CASE EscalateTicket(e) \/ Unpark(e) \/ EvaluationFails(e)
  BY <1>11, NextingTells
<1>12. CASE EvaluateQueues(e) \/ PassFails(e)
  BY <1>12, QueuesTell
<1> QED BY <1>2, <1>3, <1>4, <1>5, <1>6, <1>7, <1>8, <1>9, <1>10, <1>11, <1>12
        DEF EvaluatorStep, EvaluateTicket

\* It moves no ticket.
LEMMA EvaluatorStatus ==
  ASSUME NEW e \in Evaluators, EvaluatorStep(e)
  PROVE  status' = status
<1>1. UNCHANGED boardVars => status' = status
  BY DEF boardVars
<1>2. CASE SweepBegin(e) \/ SweepSearch(e) \/ FlushBegin(e) \/ TakeLock(e)
           \/ EvaluationFails(e) \/ PassFails(e)
  BY <1>1, <1>2 DEF SweepBegin, SweepSearch, FlushBegin, TakeLock, EvaluationFails, PassFails
<1>3. CASE EvaluateTicket(e)
  BY <1>1, <1>3 DEF EvaluateTicket, Consider, ReadLease, Reclaim, ReclaimBumpRead, ReclaimBumpWrite,
     ReadRetries, ResetRetries, EscalateTicket, ReadRework, ReadWaiting,
     Unpark, WriteLease, WriteRetries, WriteWaiting, AddLabels
<1>4. CASE EvaluateQueues(e)
  BY <1>1, <1>4 DEF EvaluateQueues, EnterQueues, ConsiderQueue, CheckCapacity, LeaveQueues
<1> QED BY <1>2, <1>3, <1>4 DEF EvaluatorStep

LEMMA OneEvaluator ==
  ASSUME Undisturbed, NEW e \in Evaluators
  PROVE  e \in Sweeps /\ \A f \in Evaluators : f = e
BY DEF Undisturbed, Evaluators

(***************************************************************************)
(* The inductive invariant: what the evaluator has seen of a ticket is     *)
(* still so when it acts on it, since a run that is at work on the ticket  *)
(* keeps its slot registered, its status still, or its lease good.         *)
(***************************************************************************)
AtWatched == \A r \in Runs : Live(r) => run[r].at \in Watches[RoleOf(r)]

\* The evaluation goes by the snapshot, for a role of the status it shows.
Chosen ==
  \A e \in Evaluators : ev[e].pc \in TicketPcs =>
    /\ TicketOf(e) \in ev[e].todo
    /\ ev[e].st = ev[e].snap[TicketOf(e)].status
    /\ ev[e].slot[1] \in TicketRolesFor(ev[e].st)

Taken(t, s) == \E q \in TicketRolesFor(s) : Registered(<<q, t>>)

\* The snapshot is right, or who moved the ticket is still in `running`.
Snapped ==
  \A e \in Evaluators : \A t \in ev[e].todo :
    ev[e].snap[t].status = status[t] \/ Taken(t, ev[e].snap[t].status)

AtStatus == \A r \in Runs : Contends(r) /\ Unmoved(r) => status[OwnTicket(r)] = run[r].at

OneContender ==
  \A r1, r2 \in Runs :
    Contends(r1) /\ Contends(r2) /\ OwnTicket(r1) = OwnTicket(r2) => r1 = r2

\* The evaluator may yet look at the ticket.
Ahead(t) == \E e \in Evaluators : ev[e].pc = "search" \/ t \in ev[e].todo

OneLive ==
  \A r1, r2 \in Runs :
    Live(r1) /\ Live(r2) /\ OwnTicket(r1) = OwnTicket(r2) /\ Ahead(OwnTicket(r1)) => r1 = r2

\* Who is at work on a ticket that is still to be looked at was at work when
\* the stop began.
ToldAhead ==
  \A r \in Runs : stop.on /\ Contends(r) /\ Ahead(OwnTicket(r)) => r \in stop.told

ClaimsHold ==
  \A r \in Runs : Contends(r) /\ ~Early(r) /\ (~stop.on \/ Ahead(OwnTicket(r))) => Claimed(r)

\* Past its look at the lease, the evaluator is alone with the ticket.
SeenFree ==
  \A e \in Evaluators : \A r \in Runs :
    ev[e].pc \in TicketPcs \ {"lease"} /\ Contends(r) => OwnTicket(r) # TicketOf(e)

NoneCancelled == ~stop.on => \A r \in Runs : Live(r) => Contends(r)

Alone ==
  /\ AtWatched /\ Chosen /\ Snapped /\ AtStatus /\ OneContender
  /\ OneLive /\ ToldAhead /\ ClaimsHold /\ SeenFree /\ NoneCancelled

(***************************************************************************)
(* What it says of one state.                                              *)
(***************************************************************************)
LEMMA RunRegistered ==
  ASSUME QueueRoles = {}, IInv, AtWatched, NEW r \in Runs, Live(r)
  PROVE  /\ Registered(<<RoleOf(r), OwnTicket(r)>>) /\ run[r].at \in Statuses
         /\ RoleOf(r) \in TicketRolesFor(run[r].at)
<1>1. r[1] \in Slots /\ r[2] \in Instances /\ r[2] # 0 /\ r = <<r[1], r[2]>>
  BY OwnTickets, RunAssumption
<1>2. Live(<<r[1], r[2]>>)
  BY <1>1 DEF Live
<1>3. running[r[1]] = [inst |-> r[2], status |-> run[<<r[1], r[2]>>].at]
      /\ run[<<r[1], r[2]>>].at \in Statuses
  BY <1>1, <1>2 DEF IInv, LiveRegistered
<1>4. Registered(r[1])
  BY <1>1, <1>3 DEF Registered, NotRunning
<1>5. RoleOf(r) \in TicketRoles /\ r[1] = <<RoleOf(r), OwnTicket(r)>>
  BY TicketRun
<1> QED BY <1>1, <1>3, <1>4, <1>5 DEF AtWatched, TicketRolesFor

LEMMA OneRoleEach ==
  ASSUME NEW s \in Statuses, NEW q1 \in TicketRolesFor(s), NEW q2 \in TicketRolesFor(s)
  PROVE  q1 = q2
BY ConfigAssumption DEF ValidConfig

\* The status the evaluator goes by is the ticket's own.
LEMMA StatusSeen ==
  ASSUME IInv, Chosen, Snapped, NEW e \in Evaluators, ev[e].pc \in TicketPcs
  PROVE  /\ ev[e].st = status[TicketOf(e)] /\ ~Taken(TicketOf(e), ev[e].st)
         /\ ev[e].st \in Statuses /\ ev[e].slot[1] \in TicketRolesFor(ev[e].st)
<1>1. /\ TicketOf(e) \in ev[e].todo /\ ev[e].slot[1] \in TicketRolesFor(ev[e].st)
      /\ ev[e].st = ev[e].snap[TicketOf(e)].status
  BY DEF Chosen
<1>2. ev[e].slot \in TicketSlots /\ ~Registered(ev[e].slot) /\ ev[e].st \in Statuses
  BY DEF IInv, Reserved
<1>3. ev[e].slot = <<ev[e].slot[1], TicketOf(e)>>
  BY <1>2 DEF TicketSlots, TicketOf
<1>4. ~Taken(TicketOf(e), ev[e].st)
  BY <1>1, <1>2, <1>3, OneRoleEach DEF Taken
<1> QED BY <1>1, <1>2, <1>4 DEF Snapped

\* So no run is at work on the ticket that has not moved it.
LEMMA NotBesideUnmoved ==
  ASSUME QueueRoles = {}, IInv, AtWatched, Chosen, Snapped, AtStatus,
         NEW e \in Evaluators, ev[e].pc \in TicketPcs, NEW r \in Runs, Contends(r), Unmoved(r)
  PROVE  OwnTicket(r) # TicketOf(e)
<1>1. SUFFICES ASSUME OwnTicket(r) = TicketOf(e) PROVE FALSE
  OBVIOUS
<1>2. run[r].at = ev[e].st
  BY <1>1, StatusSeen DEF AtStatus
<1>3. Taken(TicketOf(e), ev[e].st)
  BY <1>1, <1>2, RunRegistered DEF Taken, Contends
<1> QED BY <1>3, StatusSeen

\* Nor one that has, once the lease was looked at and found to be nobody's.
LEMMA LeaseSeen ==
  ASSUME QueueRoles = {}, IInv, Alone, NEW e \in Evaluators, ev[e].pc = "lease",
         NEW r \in Runs, Contends(r), OwnTicket(r) = TicketOf(e)
  PROVE  Leased(TicketOf(e)) /\ ~lease[TicketOf(e)].stale
<1>1. ~Early(r)
  BY NotBesideUnmoved DEF Alone, TicketPcs, Early, Unmoved
<1>2. Ahead(OwnTicket(r))
  BY DEF Alone, Chosen, TicketPcs, Ahead
<1>3. Claimed(r)
  BY <1>1, <1>2 DEF Alone, ClaimsHold
<1>4. RoleOf(r) # NoRole
  BY OwnTickets, PipelineAssumption
<1> QED BY <1>3, <1>4 DEF Claimed, Leased, FreshLease, NoLease

(***************************************************************************)
(* It is kept by the evaluator.                                            *)
(***************************************************************************)
\* Everything that is known before a step of the one evaluator.
Before == Undisturbed /\ IInv /\ Own /\ Orderly /\ Alone

LEMMA AheadTells ==
  ASSUME Undisturbed, Evaluators0, NEW e \in Evaluators, EvaluatorStep(e), ~SweepBegin(e),
         NEW t \in Tickets, Ahead(t)'
  PROVE  Ahead(t)
<1>1. ev'[e].pc = "search" \/ t \in ev'[e].todo
  BY OneEvaluator DEF Ahead
<1>2. ev'[e].pc # "search" /\ (t \in ev'[e].todo => ev[e].pc = "search" \/ t \in ev[e].todo)
  BY PassTells DEF Searched, Picked, Follows, Nexts, Between, TicketPcs
<1> QED BY <1>1, <1>2 DEF Ahead

\* With a start the evaluator is done with that ticket.
LEMMA BegunBehind ==
  ASSUME Undisturbed, NEW e \in Evaluators, NEW r, Begins(e, r)
  PROVE  ~Ahead(OwnTicket(r))' /\ OwnTicket(r) = TicketOf(e)
<1>1. ev'[e].pc = "pick" /\ TicketOf(e) \notin ev'[e].todo /\ OwnTicket(r) = TicketOf(e)
  BY DEF Begins, Nexts, TicketOf, OwnTicket
<1>2. \A f \in Evaluators : ev'[f].pc # "search" /\ TicketOf(e) \notin ev'[f].todo
  BY <1>1, OneEvaluator
<1> QED BY <1>1, <1>2 DEF Ahead

LEMMA EvaluatorKeepsRuns ==
  ASSUME Before, NEW e \in Evaluators, EvaluatorStep(e)
  PROVE  AtWatched' /\ AtStatus' /\ OneContender' /\ NoneCancelled'
<1>1. /\ Undisturbed /\ IInv /\ AtWatched /\ AtStatus /\ OneContender /\ NoneCancelled
      /\ Chosen /\ Snapped /\ SeenFree
  BY DEF Before, Alone
<1>2. status' = status /\ stop' = stop
  BY <1>1, EvaluatorStatus, EvaluatorRuns
<1>3. CASE run' = run
  BY <1>1, <1>2, <1>3 DEF AtWatched, AtStatus, OneContender, NoneCancelled, Contends, Live, Unmoved
<1>4. ASSUME NEW r \in Runs, Begins(e, r)
      PROVE  AtWatched' /\ AtStatus' /\ OneContender' /\ NoneCancelled'
  <2>1. /\ run'[r].pc = "start" /\ run'[r].op = "none" /\ run'[r].at = ev[e].st
        /\ \A q \in Runs : q # r => run'[q] = run[q]
        /\ ev[e].pc \in TicketPcs \ {"lease"} /\ RoleOf(r) = ev[e].slot[1]
        /\ OwnTicket(r) = TicketOf(e)
    BY <1>4 DEF Begins, To, TicketPcs, RoleOf, OwnTicket, TicketOf
  <2>2. ev[e].st = status[TicketOf(e)] /\ ev[e].slot[1] \in TicketRolesFor(ev[e].st)
    BY <1>1, <2>1, StatusSeen
  <2>3. AtWatched'
    BY <1>1, <2>1, <2>2 DEF AtWatched, Live, TicketRolesFor
  <2>4. AtStatus'
    BY <1>1, <1>2, <2>1, <2>2 DEF AtStatus, Contends, Live, Unmoved
  <2>5. \A q \in Runs : q # r /\ Contends(q)' => Contends(q) /\ OwnTicket(q) # OwnTicket(r)
    BY <1>1, <2>1 DEF Contends, Live, SeenFree
  <2>6. OneContender'
    BY <1>1, <2>5 DEF OneContender
  <2>7. NoneCancelled'
    BY <1>1, <1>2, <2>1 DEF NoneCancelled, Contends, Live
  <2> QED BY <2>3, <2>4, <2>6, <2>7
<1> QED BY <1>1, <1>3, <1>4, EvaluatorStarts

LEMMA EvaluatorKeepsSnapshot ==
  ASSUME Before, NEW e \in Evaluators, EvaluatorStep(e)
  PROVE  Chosen' /\ Snapped'
<1>1. Undisturbed /\ IInv /\ Chosen /\ Snapped /\ Evaluators0 /\ status \in [Tickets -> Statuses]
  BY DEF Before, Alone, IInv, TypeOK, BoardTypeOK, Evaluators0
<1>2. \A f \in Evaluators : f = e /\ f \in Sweeps
  BY <1>1, OneEvaluator
<1>3. status' = status
  BY EvaluatorStatus
<1>4. \/ ev'[e].todo = {} /\ ev'[e].pc \notin TicketPcs
      \/ Searched(e)
      \/ (\E t \in Tickets : Picked(e, t)) \/ Follows(e) \/ Nexts(e) \/ Between(e)
  BY <1>1, PassTells DEF TicketPcs
<1>5. Chosen'
  <2>1. SUFFICES ASSUME ev'[e].pc \in TicketPcs
                 PROVE  /\ ev'[e].slot[2] \in ev'[e].todo
                        /\ ev'[e].st = ev'[e].snap[ev'[e].slot[2]].status
                        /\ ev'[e].slot[1] \in TicketRolesFor(ev'[e].st)
    BY <1>2 DEF Chosen, TicketOf, TicketRolesFor
  <2>2. CASE \E t \in Tickets : Picked(e, t)
    BY <1>2, <2>2 DEF Picked, IssueFor
  <2>3. CASE Follows(e)
    BY <1>1, <2>1, <2>3 DEF Follows, Chosen, TicketOf
  <2> QED BY <1>4, <2>1, <2>2, <2>3 DEF Searched, Nexts, Between, TicketPcs
<1>6. Snapped'
  <2>1. SUFFICES ASSUME NEW t \in ev'[e].todo
                 PROVE  \/ ev'[e].snap[t].status = status[t]
                        \/ \E q \in TicketRolesFor(ev'[e].snap[t].status) :
                             running'[<<q, t>>] # NotRunning
    BY <1>2, <1>3 DEF Snapped, Taken, Registered, TicketRolesFor
  <2>2. CASE Searched(e)
    <3>1. t \in Tickets /\ status[t] \in AgentStatuses /\ ev'[e].snap = SearchResult
      BY <2>1, <2>2 DEF Searched
    <3>2. SearchResult[t] = Issue(t)
      BY <3>1 DEF SearchResult
    <3> QED BY <3>1, <3>2 DEF Issue
  <2>3. CASE ~Searched(e)
    <3>1. t \in ev[e].todo /\ ev'[e].snap = ev[e].snap
      BY <1>4, <2>1, <2>3 DEF Picked, Follows, Nexts, Between
    <3>2. t \in Tickets
      BY <1>1, <3>1 DEF Evaluators0, EvalRecords
    <3>3. ~SweepBegin(e)
      BY <1>1, <2>1, SweepBeginTells
    <3>4. \A x \in Slots : running'[x] = running[x] \/ running'[x] # NotRunning
      BY <1>1, <3>3, EvaluatorStarts DEF Begins
    <3>5. \A q \in TicketRolesFor(ev[e].snap[t].status) : <<q, t>> \in Slots
      BY <3>2 DEF TicketRolesFor, Slots, TicketSlots
    <3>6. Taken(t, ev[e].snap[t].status) =>
            \E q \in TicketRolesFor(ev[e].snap[t].status) : running'[<<q, t>>] # NotRunning
      BY <3>4, <3>5 DEF Taken, Registered
    <3>7. ev[e].snap[t].status = status[t] \/ Taken(t, ev[e].snap[t].status)
      BY <1>1, <3>1 DEF Snapped
    <3> QED BY <3>1, <3>6, <3>7
  <2> QED BY <2>2, <2>3
<1> QED BY <1>5, <1>6

LEMMA EvaluatorKeepsLive ==
  ASSUME Before, NEW e \in Evaluators, EvaluatorStep(e)
  PROVE  OneLive' /\ ToldAhead' /\ ClaimsHold'
<1>1. /\ Undisturbed /\ IInv /\ OneLive /\ ToldAhead /\ ClaimsHold /\ OneContender
      /\ NoneCancelled /\ SeenFree /\ Evaluators0 /\ lease \in [Tickets -> Leases]
  BY DEF Before, Alone, IInv, TypeOK, BoardTypeOK, Evaluators0
<1>2. stop' = stop
  BY <1>1, EvaluatorRuns
<1>3. \A q \in Runs : OwnTicket(q) \in Tickets
  BY <1>1, TicketRun DEF Undisturbed
<1>4. \A q \in Runs : Contends(q) => lease'[OwnTicket(q)] = lease[OwnTicket(q)]
  <2>1. lease' = lease \/ (Reclaim(e) /\ lease' = [lease EXCEPT ![TicketOf(e)] = NoLease])
    BY EvaluatorLeases
  <2>2. Reclaim(e) => ev[e].pc \in TicketPcs \ {"lease"}
    BY DEF Reclaim, InPc, TicketPcs
  <2> QED BY <1>1, <1>3, <2>1, <2>2 DEF SeenFree
<1>5. CASE SweepBegin(e)
  <2>1. run' = run /\ ~stop.on
    BY <1>5 DEF SweepBegin
  <2> QED BY <1>1, <1>2, <1>3, <1>4, <2>1 DEF OneLive, ToldAhead, ClaimsHold, OneContender,
      NoneCancelled, Contends, Live, Early, Claimed
<1>6. CASE run' = run /\ ~SweepBegin(e)
  <2>1. \A t \in Tickets : Ahead(t)' => Ahead(t)
    BY <1>1, <1>6, AheadTells
  <2> QED BY <1>1, <1>2, <1>3, <1>4, <1>6, <2>1 DEF OneLive, ToldAhead, ClaimsHold,
      Contends, Live, Early, Claimed
<1>7. ASSUME NEW r \in Runs, Begins(e, r)
      PROVE  OneLive' /\ ToldAhead' /\ ClaimsHold'
  <2>1. ~SweepBegin(e)
    BY <1>7 DEF Begins, SweepBegin, InPc
  <2>2. \A t \in Tickets : Ahead(t)' => Ahead(t)
    BY <1>1, <2>1, AheadTells
  <2>3. ~Ahead(OwnTicket(r))' /\ (\A q \in Runs : q # r => run'[q] = run[q])
        /\ run'[r].pc = "start"
    BY <1>1, <1>7, BegunBehind DEF Begins, To
  <2>4. OneLive'
    BY <1>1, <1>3, <2>2, <2>3 DEF OneLive, Live
  <2>5. ToldAhead'
    BY <1>1, <1>2, <1>3, <2>2, <2>3 DEF ToldAhead, Contends, Live
  <2>6. ClaimsHold'
    BY <1>1, <1>2, <1>3, <1>4, <2>2, <2>3 DEF ClaimsHold, Contends, Live, Early, Claimed
  <2> QED BY <2>4, <2>5, <2>6
<1> QED BY <1>1, <1>5, <1>6, <1>7, EvaluatorStarts

LEMMA EvaluatorKeepsSeen ==
  ASSUME Before, NEW e \in Evaluators, EvaluatorStep(e)
  PROVE  SeenFree'
<1>1. Undisturbed /\ IInv /\ SeenFree /\ Evaluators0 /\ QueueRoles = {} /\ Alone
  BY DEF Before, Alone, IInv, TypeOK, Evaluators0, Undisturbed
<1>2. SUFFICES ASSUME ev'[e].pc \in TicketPcs \ {"lease"}, NEW r \in Runs, Contends(r)'
               PROVE  OwnTicket(r) # ev'[e].slot[2]
  BY <1>1, OneEvaluator DEF SeenFree, TicketOf
<1>3. Follows(e)
  BY <1>1, <1>2, PassTells DEF TicketPcs, Searched, Picked, Nexts, Between
<1>4. run' = run
  BY <1>1, <1>2, EvaluatorStarts DEF Begins, Nexts, TicketPcs
<1>5. Contends(r) /\ ev'[e].slot[2] = TicketOf(e) /\ ev[e].pc \in TicketPcs
  BY <1>2, <1>3, <1>4 DEF Contends, Live, Follows, TicketOf
<1>6. CASE ev[e].pc = "lease"
  BY <1>1, <1>3, <1>5, <1>6, LeaseSeen DEF Follows
<1> QED BY <1>1, <1>5, <1>6 DEF SeenFree

(***************************************************************************)
(* It is kept by the runs.                                                 *)
(***************************************************************************)
Acts(r) == (RunStep(r) /\ UNCHANGED orchVars) \/ Notice(r)

LEMMA ActsFrame ==
  ASSUME Before, NEW r \in Runs, Acts(r)
  PROVE  /\ Live(r) /\ \A q \in Runs : q # r => run'[q] = run[q]
         /\ run'[r].pc = "done" \/ run'[r].at = run[r].at
         /\ UNCHANGED <<ev, running, lock, restarts>> /\ stop'.on = stop.on
<1>1. TypeOK /\ RunTypeOK /\ BoardTypeOK /\ RunKeys /\ stop \in StopRecords
  BY DEF Before, IInv, TypeOK
<1>2. Advance(r) /\ Live(r)
  BY <1>1, RunStepAdvances, CancelAdvances DEF Acts, Notice
<1>3. \A q \in Runs : q # r => run'[q] = run[q]
  BY <1>1, <1>2, AdvanceFrame
<1>4. UNCHANGED <<ev, running, lock, restarts>> /\ stop'.on = stop.on
  BY <1>1 DEF Acts, Notice, orchVars, StopRecords
<1> QED BY <1>2, <1>3, <1>4 DEF Advance

\* A run is cancelled only by a stop.
LEMMA NotCancelledYet ==
  ASSUME RunTypeOK, NEW r \in Runs, QueueRoles = {}, Own, RunStep(r), "run" \notin JiraFails,
         ~BeatsOverlap, run'[r].op = "cancel"
  PROVE  run[r].op = "cancel"
<1>1. ASSUME NEW p, NEW o, NEW k, NEW h, NEW n, To(r, p, o, k, h, n), o = run[r].op \/ o # "cancel"
      PROVE  run[r].op = "cancel"
  BY <1>1 DEF To
<1>2. ~Ends(r)
  BY DEF Ends, To
<1>3. CASE Proceed(r)
  <2>1. CASE BumpRead(r)
    <3> DEFINE m == retries[run[r].key]
    <3>1. To(r, "bumped", run[r].op, run[r].key, run[r].held, m)
      BY <2>1, BumpReadTells
    <3> HIDE DEF m
    <3> QED BY <1>1, <3>1
  <2>2. CASE ClaimWrite(r)
    <3> DEFINE g == run[r].held \cup {run[r].key}
    <3>1. To(r, "work", "none", run[r].key, g, 0)
      BY <2>2, ClaimWriteTells
    <3> HIDE DEF g
    <3> QED BY <1>1, <3>1
  <2>3. CASE ClaimRead(r) \/ Move(r) \/ BumpWrite(r)
    BY <1>1, <1>2, <2>3, ClaimReadTells, MoveTells, BumpWriteTells
  <2>4. CASE ClearWaiting(r) \/ ClearRetries(r)
    BY <1>1, <2>4, WentTo DEF ClearWaiting, ClearRetries
  <2>5. ~Release(r)
    BY <1>2, ReleaseEnds
  <2> QED BY <1>3, <2>1, <2>2, <2>3, <2>4, <2>5 DEF Proceed
<1>4. CASE Choose(r)
  <2>1. CASE IncrementRework(r)
    BY <2>1 DEF IncrementRework
  <2>2. CASE BeginHandoff(r) \/ BeginEscalate(r)
    BY <1>1, <2>2, BeginHandoffTells, BeginEscalateTells
  <2>3. CASE BeginFinish(r) \/ BeginCrash(r)
    BY <1>1, <1>2, <2>3, BeginFinishTells, BeginCrashTells
  <2>4. ~BeginClaim(r) /\ ~BeginRelease(r)
    BY DEF BeginClaim, BeginRelease, IsQueueRun
  <2> QED BY <1>4, <2>1, <2>2, <2>3, <2>4 DEF Choose
<1>5. CASE Heartbeat(r)
  BY <1>5, TicketRun, HeartbeatTells
<1> QED BY <1>3, <1>4, <1>5 DEF RunStep, ClaimFails, CallFails, BeatRead

LEMMA RunKeepsRuns ==
  ASSUME Before, NEW r \in Runs, Acts(r)
  PROVE  AtWatched' /\ AtStatus' /\ OneContender' /\ NoneCancelled' /\ SeenFree' /\ OneLive'
<1>1. /\ Undisturbed /\ RunTypeOK /\ Own /\ AtWatched /\ AtStatus /\ OneContender
      /\ NoneCancelled /\ SeenFree /\ OneLive /\ StopsInOrder /\ status \in [Tickets -> Statuses]
  BY DEF Before, Alone, Orderly, IInv, TypeOK, BoardTypeOK
<1>2. /\ Live(r) /\ \A q \in Runs : q # r => run'[q] = run[q]
      /\ run'[r].pc = "done" \/ run'[r].at = run[r].at
      /\ ev' = ev /\ stop'.on = stop.on
  BY ActsFrame
<1>3. Course(r)
  BY <1>1, RunCourse DEF Acts
<1>4. \A q \in Runs : (Live(q)' => Live(q)) /\ (Contends(q)' => Contends(q))
  BY <1>2, <1>3 DEF Course, Contends, Live
<1>5. AtWatched'
  BY <1>1, <1>2 DEF AtWatched, Live
<1>6. AtStatus'
  <2>1. SUFFICES ASSUME NEW q \in Runs, Contends(q)', Unmoved(q)'
                 PROVE  status'[OwnTicket(q)] = run'[q].at
    BY DEF AtStatus
  <2>2. Contends(q) /\ Unmoved(q) /\ run'[q].at = run[q].at
    BY <1>2, <1>3, <1>4, <2>1 DEF Course, Contends, Live, Unmoved
  <2>3. status'[OwnTicket(q)] = status[OwnTicket(q)]
    <3>1. CASE status' = status
      BY <3>1
    <3>2. CASE /\ run[r].pc = "move" /\ run[r].op = "step"
               /\ \E s : status' = [status EXCEPT ![OwnTicket(r)] = s]
               /\ ~(Contends(r)' /\ Unmoved(r)')
      <4>1. q # r /\ Contends(r)
        BY <1>2, <2>1, <3>2 DEF Contends
      <4>2. OwnTicket(q) # OwnTicket(r)
        BY <1>1, <2>2, <4>1 DEF OneContender
      <4>3. OwnTicket(q) \in Tickets
        BY <1>1, TicketRun DEF Undisturbed
      <4> QED BY <1>1, <3>2, <4>2, <4>3
    <3> QED BY <1>1, <3>1, <3>2, WhoMoves DEF Acts
  <2> QED BY <1>1, <2>2, <2>3 DEF AtStatus
<1>7. OneContender'
  BY <1>1, <1>4 DEF OneContender
<1>8. NoneCancelled'
  <2>1. SUFFICES ASSUME ~stop.on, NEW q \in Runs, Live(q)'
                 PROVE  Contends(q)'
    BY <1>2 DEF NoneCancelled
  <2>2. RunStep(r)
    BY <1>1, <2>1 DEF Acts, Notice, StopsInOrder
  <2>3. run[q].op # "cancel"
    BY <1>1, <1>4, <2>1 DEF NoneCancelled, Contends
  <2>4. CASE q = r
    BY <1>1, <2>1, <2>2, <2>3, <2>4, NotCancelledYet DEF Undisturbed, Reliable, Contends
  <2> QED BY <1>2, <2>1, <2>3, <2>4 DEF Contends
<1>9. SeenFree'
  BY <1>1, <1>2, <1>4 DEF SeenFree, TicketOf
<1>10. OneLive'
  BY <1>1, <1>2, <1>4 DEF OneLive, Ahead
<1> QED BY <1>5, <1>6, <1>7, <1>8, <1>9, <1>10

LEMMA RunKeepsSnapshot ==
  ASSUME Before, NEW r \in Runs, Acts(r)
  PROVE  Chosen' /\ Snapped'
<1>1. /\ Undisturbed /\ RunTypeOK /\ IInv /\ Own /\ Chosen /\ Snapped /\ AtWatched /\ AtStatus
      /\ status \in [Tickets -> Statuses]
  BY DEF Before, Alone, Orderly, IInv, TypeOK, BoardTypeOK
<1>2. Live(r) /\ ev' = ev /\ running' = running
  BY ActsFrame
<1>3. Chosen'
  BY <1>1, <1>2 DEF Chosen, TicketOf
<1>4. CASE status' = status
  BY <1>1, <1>2, <1>3, <1>4 DEF Snapped, Taken, Registered
<1>5. ASSUME run[r].pc = "move", run[r].op = "step",
             NEW s, status' = [status EXCEPT ![OwnTicket(r)] = s]
      PROVE  Snapped'
  <2>1. SUFFICES ASSUME NEW e \in Evaluators, NEW t \in ev[e].todo
                 PROVE  \/ ev[e].snap[t].status = status'[t]
                        \/ \E q \in TicketRolesFor(ev[e].snap[t].status) : Registered(<<q, t>>)
    BY <1>2 DEF Snapped, Taken, Registered
  <2>2. CASE t = OwnTicket(r) /\ ev[e].snap[t].status = status[t]
    <3>1. status[t] = run[r].at
      BY <1>1, <1>2, <1>5, <2>2 DEF AtStatus, Contends, Unmoved
    <3>2. RoleOf(r) \in TicketRolesFor(ev[e].snap[t].status) /\ Registered(<<RoleOf(r), t>>)
      BY <1>1, <1>2, <2>2, <3>1, RunRegistered DEF Undisturbed
    <3> QED BY <3>2
  <2>3. CASE t # OwnTicket(r)
    <3>1. status'[t] = status[t]
      BY <1>1, <1>5, <2>3
    <3> QED BY <1>1, <3>1 DEF Snapped, Taken
  <2> QED BY <1>1, <2>2, <2>3 DEF Snapped, Taken
<1> QED BY <1>1, <1>3, <1>4, <1>5, WhoMoves DEF Acts

LEMMA RunKeepsLeases ==
  ASSUME Before, NEW r \in Runs, Acts(r)
  PROVE  ToldAhead' /\ ClaimsHold'
<1>1. /\ Undisturbed /\ RunTypeOK /\ BoardTypeOK /\ Own /\ OneContender /\ OneLive /\ NoneCancelled
      /\ ToldAhead /\ ClaimsHold /\ stop \in StopRecords /\ lease \in [Tickets -> Leases]
  BY DEF Before, Alone, Orderly, IInv, TypeOK, BoardTypeOK
<1>2. /\ Live(r) /\ \A q \in Runs : q # r => run'[q] = run[q]
      /\ ev' = ev /\ stop'.on = stop.on
  BY ActsFrame
<1>3. Course(r)
  BY <1>1, RunCourse DEF Acts
<1>4. \A q \in Runs : Contends(q)' => Contends(q)
  BY <1>2, <1>3 DEF Course, Contends, Live
<1>5. Notice(r) => ~Contends(r)'
  BY <1>1, CancelTells DEF Notice, Ends, To, Contends, Live
<1>6. ToldAhead'
  <2>1. \A q \in Runs : Contends(q)' /\ q \in stop.told => q \in stop'.told
    BY <1>1, <1>5 DEF Acts, Notice, orchVars, StopRecords
  <2> QED BY <1>1, <1>2, <1>4, <2>1 DEF ToldAhead, Ahead
<1>7. ClaimsHold'
  <2>1. SUFFICES ASSUME NEW q \in Runs, Contends(q)', ~Early(q)',
                        ~stop.on \/ Ahead(OwnTicket(q))
                 PROVE  Claimed(q)'
    BY <1>2 DEF ClaimsHold, Ahead
  <2>2. CASE q = r
    <3>1. RunStep(r)
      BY <1>5, <2>1, <2>2 DEF Acts
    <3>2. Early(r) \/ Claimed(r)
      BY <1>1, <1>4, <2>1, <2>2 DEF ClaimsHold
    <3> QED BY <1>1, <2>1, <2>2, <3>1, <3>2, ClaimedKept
  <2>3. CASE q # r
    <3>1. OwnTicket(q) # OwnTicket(r)
      <4>1. SUFFICES ASSUME OwnTicket(q) = OwnTicket(r) PROVE FALSE
        OBVIOUS
      <4>2. CASE ~stop.on
        BY <1>1, <1>2, <1>4, <2>1, <2>3, <4>1, <4>2 DEF NoneCancelled, OneContender
      <4>3. CASE Ahead(OwnTicket(q))
        BY <1>1, <1>2, <1>4, <2>1, <2>3, <4>1, <4>3 DEF OneLive, Contends
      <4> QED BY <2>1, <4>2, <4>3
    <3>2. Claimed(q) /\ OwnTicket(q) \in Tickets
      BY <1>1, <1>2, <1>4, <2>1, <2>3, TicketRun DEF ClaimsHold, Early, Undisturbed
    <3>3. lease'[OwnTicket(q)] = lease[OwnTicket(q)]
      BY <1>1, <3>1, <3>2, LeaseOfOwn DEF Acts
    <3> QED BY <1>2, <2>3, <3>2, <3>3 DEF Claimed
  <2> QED BY <2>2, <2>3
<1> QED BY <1>6, <1>7

(***************************************************************************)
(* It is kept by everything else.                                          *)
(***************************************************************************)
LEMMA OtherwiseMovesNothing ==
  ASSUME Undisturbed, NoBeats, Otherwise
  PROVE  /\ status' = status
         /\ \/ lease' = lease
            \/ \E t \in Tickets : Expire(t)
            \/ \E t \in Tickets : ReleaseLeft(t)
         /\ stop' = stop \/ BeginStop \/ \E t \in Tickets : ReleaseLeft(t)
<1>1. status' = status
  BY DEF Otherwise, OnStatusChange, Humans, HumanMove, HumanLabel, Undisturbed, NoBeats,
     PauseOrResume, BeginStop, ReleaseLeft, Expire, WriteLease, boardVars, vars
<1>2. \/ lease' = lease
      \/ \E t \in Tickets : Expire(t)
      \/ \E t \in Tickets : ReleaseLeft(t)
  BY DEF Otherwise, NoBeats, OnStatusChange, Humans, HumanMove, HumanLabel,
     PauseOrResume, BeginStop, boardVars, vars
<1>3. stop' = stop \/ BeginStop \/ \E t \in Tickets : ReleaseLeft(t)
  BY DEF Otherwise, OnStatusChange, PauseOrResume, orchVars, vars
<1> QED BY <1>1, <1>2, <1>3

LEMMA OtherwiseKeeps ==
  ASSUME Before, Otherwise
  PROVE  Alone'
<1>1. /\ Undisturbed /\ IInv /\ Own /\ Alone /\ NoBeats /\ StopsInOrder /\ stop \in StopRecords
      /\ lease \in [Tickets -> Leases]
  BY DEF Before, Orderly, IInv, TypeOK, BoardTypeOK
<1>2. UNCHANGED <<run, running, ev, status>>
  BY <1>1, OtherwiseFrame, OtherwiseMovesNothing
<1>3. AtWatched' /\ Chosen' /\ Snapped' /\ AtStatus' /\ OneContender' /\ OneLive' /\ SeenFree'
  <2>1. AtWatched' /\ AtStatus' /\ OneContender'
    BY <1>1, <1>2 DEF Alone, AtWatched, AtStatus, OneContender, Contends, Live, Unmoved
  <2>2. Chosen' /\ Snapped'
    BY <1>1, <1>2 DEF Alone, Chosen, Snapped, Taken, Registered, TicketOf
  <2>3. OneLive' /\ SeenFree'
    BY <1>1, <1>2 DEF Alone, OneLive, SeenFree, Ahead, Contends, Live, TicketOf
  <2> QED BY <2>1, <2>2, <2>3
<1>4. \A t \in Tickets : ReleaseLeft(t) =>
        /\ stop.on /\ stop'.on /\ stop.told = {} /\ stop'.told = {}
        /\ lease' = [lease EXCEPT ![t] = NoLease]
  BY <1>1 DEF ReleaseLeft, StopsInOrder, StopRecords, WriteLease, Undisturbed, Reliable
<1>5. stop'.on \/ ~stop.on
  BY <1>1, <1>2, <1>4, OtherwiseMovesNothing DEF BeginStop
<1>6. NoneCancelled'
  BY <1>1, <1>2, <1>5 DEF Alone, NoneCancelled, Contends, Live
<1>7. ToldAhead'
  <2>1. CASE stop' = stop
    BY <1>1, <1>2, <2>1 DEF Alone, ToldAhead, Contends, Live, Ahead
  <2>2. CASE BeginStop
    <3>1. \A r \in Runs : Live(r) => r \in stop'.told
      BY <1>1, <2>2, RegisteredToStop DEF BeginStop, Undisturbed
    <3> QED BY <1>2, <3>1 DEF ToldAhead, Contends, Live
  <2>3. CASE \E t \in Tickets : ReleaseLeft(t)
    BY <1>1, <1>2, <1>4, <2>3 DEF Alone, ToldAhead, Contends, Live, Ahead
  <2> QED BY <1>1, <2>1, <2>2, <2>3, OtherwiseMovesNothing
<1>8. ClaimsHold'
  <2>1. SUFFICES ASSUME NEW r \in Runs, Contends(r), ~Early(r),
                        ~stop'.on \/ Ahead(OwnTicket(r))
                 PROVE  Claimed(r)'
    BY <1>2 DEF ClaimsHold, Contends, Live, Early, Ahead
  <2>2. Claimed(r) /\ OwnTicket(r) \in Tickets
    BY <1>1, <1>5, <2>1, TicketRun DEF Alone, ClaimsHold, Undisturbed
  <2>3. ASSUME NEW t \in Tickets, Expire(t)
        PROVE  t # OwnTicket(r)
    BY <1>1, <2>1, <2>2, <2>3 DEF Expire, Beats, Claimed, FreshLease, Contends, Undisturbed
  <2>4. ASSUME NEW t \in Tickets, ReleaseLeft(t)
        PROVE  FALSE
    BY <1>1, <1>4, <2>1, <2>4 DEF Alone, ToldAhead
  <2>5. lease'[OwnTicket(r)] = lease[OwnTicket(r)]
    BY <1>1, <2>2, <2>3, <2>4, OtherwiseMovesNothing DEF Expire, WriteLease
  <2> QED BY <1>2, <2>2, <2>5 DEF Claimed
<1> QED BY <1>3, <1>6, <1>7, <1>8 DEF Alone

\* Where nothing runs, every part holds.
LEMMA AloneAtRest ==
  ASSUME \A r \in Runs : run[r] = DoneRun, \A e \in Evaluators : ev[e] = Idle
  PROVE  Alone
<1>1. \A r \in Runs : ~Live(r) /\ ~Contends(r)
  BY DEF Live, Contends, DoneRun
<1>2. \A e \in Evaluators : ev[e].pc \notin TicketPcs /\ ev[e].todo = {}
  BY DEF Idle, TicketPcs
<1> QED BY <1>1, <1>2 DEF Alone, AtWatched, Chosen, Snapped, AtStatus, OneContender, OneLive,
        ToldAhead, ClaimsHold, SeenFree, NoneCancelled

LEMMA AloneKept ==
  ASSUME Before, [Next]_vars
  PROVE  Alone'
<1>1. CASE \E e \in Evaluators : EvaluatorStep(e)
  BY <1>1, EvaluatorKeepsRuns, EvaluatorKeepsSnapshot, EvaluatorKeepsLive, EvaluatorKeepsSeen
     DEF Alone
<1>2. CASE \E r \in Runs : Acts(r)
  BY <1>2, RunKeepsRuns, RunKeepsSnapshot, RunKeepsLeases DEF Alone
<1>3. CASE Otherwise
  BY <1>3, OtherwiseKeeps
<1>4. CASE Reborn
  <2>1. (\A r \in Runs : run'[r] = DoneRun) /\ (\A e \in Evaluators : ev'[e] = Idle)
    BY <1>4 DEF Reborn
  <2>2. \A r \in Runs : run'[r].pc = "done"
    BY <2>1 DEF DoneRun
  <2>3. \A e \in Evaluators : ev'[e].pc \notin TicketPcs /\ ev'[e].todo = {}
    BY <2>1 DEF Idle, TicketPcs
  <2> QED BY <2>2, <2>3 DEF Alone, AtWatched, Chosen, Snapped, AtStatus, OneContender, OneLive,
          ToldAhead, ClaimsHold, SeenFree, NoneCancelled, Live, Contends
<1> QED BY <1>1, <1>2, <1>3, <1>4, NextIs DEF Acts

\* No two runs at work hold the same ticket, for any tickets, ticket roles,
\* workflow, limits and labels: whatever the snapshot a sweep goes by says, and
\* whether it is stopped, killed, paused or fails in the middle.
THEOREM NoTwoHold == Undisturbed => (Spec => []ExclusiveHold)
<1> SUFFICES ASSUME Undisturbed PROVE Spec => []ExclusiveHold
  OBVIOUS
<1>1. Init => Orderly /\ Alone
  <2>1. Init => Orderly
    BY OrderlyInitially
  <2>2. Init => Alone
    BY AloneAtRest DEF Init, RunInit
  <2> QED BY <2>1, <2>2
<1>2. IInv /\ Own /\ Orderly /\ Alone /\ [Next]_vars => Orderly' /\ Alone'
  BY OrderlyKept, AloneKept DEF Undisturbed, Before
<1>3. Own /\ Alone => ExclusiveHold
  <2>1. ASSUME Own, Alone, NEW r1 \in Runs, NEW r2 \in Runs, Contends(r1), Contends(r2), r1 # r2
        PROVE  run[r1].held \cap run[r2].held = {}
    <3>1. OwnTicket(r1) # OwnTicket(r2)
      BY <2>1 DEF Alone, OneContender
    <3>2. run[r1].held \subseteq {OwnTicket(r1)} /\ run[r2].held \subseteq {OwnTicket(r2)}
      BY <2>1, TicketRun DEF Own, Fits, Undisturbed
    <3> QED BY <3>1, <3>2
  <2> QED BY <2>1 DEF ExclusiveHold, Contends
<1> QED BY <1>1, <1>2, <1>3, InductiveInvariant, RunsHoldTheirOwn, PTL DEF Spec

(***************************************************************************)
(* The retry counter stays at two or below in the first life of a process. *)
(***************************************************************************)
\* A lease that a cancelled run has left: its role is still in `running`, which
\* nobody forgets during a stop, and nobody is at work on the ticket.
Orphan(t) ==
  /\ stop.on /\ Taken(t, status[t])
  /\ \A r \in Runs : Contends(r) => OwnTicket(r) # t

LeaseKnown ==
  restarts = 0 => \A t \in Tickets : Leased(t) =>
    (~lease[t].stale /\ \E r \in Runs : Holds(r, t)) \/ Orphan(t)

\* So there is nothing to reclaim.
NoReclaim == restarts = 0 => \A e \in Evaluators : ev[e].pc \notin {"reclaim", "bump", "bumped"}

\* Who may still count a failure has at most one behind it.
Budgeted ==
  restarts = 0 =>
    /\ \A t \in Tickets : retries[t] <= 2
    /\ \A r \in Runs : Contends(r) /\ run[r].pc # "release"
                         => retries[OwnTicket(r)] <= 1 /\ run[r].cnt <= 1
    /\ \A e \in Evaluators : PastBudget(e) => retries[TicketOf(e)] <= 1

Counted == LeaseKnown /\ NoReclaim /\ Budgeted

\* An evaluator does not look at an orphan.
LEMMA NotAnOrphan ==
  ASSUME IInv, Alone, NEW e \in Evaluators, ev[e].pc \in TicketPcs
  PROVE  ~Orphan(TicketOf(e))
BY StatusSeen DEF Alone, Orphan

LEMMA EvaluatorKeepsLeaseKnown ==
  ASSUME Before, LeaseKnown, NoReclaim, NEW e \in Evaluators, EvaluatorStep(e)
  PROVE  LeaseKnown' /\ NoReclaim'
<1>1. /\ Undisturbed /\ IInv /\ Alone /\ Evaluators0
  BY DEF Before, IInv, TypeOK, Evaluators0
<1>2. UNCHANGED <<stop, restarts, status>>
  BY <1>1, EvaluatorRuns, EvaluatorStatus
<1>3. ASSUME restarts = 0
      PROVE  lease' = lease
  BY <1>3, EvaluatorLeases DEF Reclaim, InPc, NoReclaim
<1>4. \A q \in Runs : Live(q) => run'[q] = run[q]
  BY <1>1, EvaluatorRuns, AdmissionsAreNew
<1>5. ASSUME NEW t \in Tickets, Orphan(t)
      PROVE  Orphan(t)'
  <2>1. ~SweepBegin(e)
    BY <1>5 DEF Orphan, SweepBegin
  <2>2. \A x \in Slots : running'[x] = running[x] \/ running'[x] # NotRunning
    BY <1>1, <2>1, EvaluatorStarts DEF Begins
  <2>3. \A q \in TicketRolesFor(status[t]) : <<q, t>> \in Slots
    BY DEF TicketRolesFor, Slots, TicketSlots
  <2>4. Taken(t, status[t])'
    BY <1>2, <1>5, <2>2, <2>3 DEF Orphan, Taken, Registered, TicketRolesFor
  <2>5. ASSUME NEW q \in Runs, Contends(q)', OwnTicket(q) = t
        PROVE  FALSE
    <3>1. CASE run' = run
      BY <1>5, <2>5, <3>1 DEF Orphan, Contends, Live
    <3>2. ASSUME NEW r \in Runs, Begins(e, r)
          PROVE  FALSE
      <4>1. CASE q = r
        <5>1. TicketOf(e) = t /\ ev[e].pc \in TicketPcs
          BY <1>1, <2>5, <3>2, <4>1, BegunBehind DEF Begins, TicketPcs
        <5> QED BY <1>1, <1>5, <5>1, NotAnOrphan
      <4>2. CASE q # r
        BY <1>5, <2>5, <3>2, <4>2 DEF Begins, Orphan, Contends, Live
      <4> QED BY <4>1, <4>2
    <3> QED BY <1>1, <3>1, <3>2, EvaluatorStarts
  <2> QED BY <1>2, <1>5, <2>4, <2>5 DEF Orphan
<1>6. LeaseKnown'
  <2>1. SUFFICES ASSUME restarts = 0, NEW t \in Tickets, Leased(t)'
                 PROVE  (~lease'[t].stale /\ \E r \in Runs : Holds(r, t)') \/ Orphan(t)'
    BY <1>2 DEF LeaseKnown
  <2>2. Leased(t) /\ lease' = lease
    BY <1>3, <2>1 DEF Leased
  <2>3. \A r \in Runs : Holds(r, t) => Holds(r, t)'
    BY <1>4, <2>2 DEF Holds, Live
  <2> QED BY <1>5, <2>1, <2>2, <2>3 DEF LeaseKnown
<1>7. NoReclaim'
  <2>1. SUFFICES ASSUME restarts = 0, ev'[e].pc \in {"reclaim", "bump", "bumped"}
                 PROVE  FALSE
    BY <1>1, <1>2, OneEvaluator DEF NoReclaim
  <2>2. Follows(e)
    BY <1>1, <2>1, PassTells DEF Searched, Picked, Nexts, Between
  <2>3. /\ ev[e].pc = "lease" /\ Leased(TicketOf(e)) /\ lease[TicketOf(e)].stale
    BY <2>1, <2>2 DEF Follows, NoReclaim
  <2>4. TicketOf(e) \in Tickets
    BY <1>1, <2>3, Static DEF IInv, Reserved, TicketPcs, TicketOf
  <2>5. ~Orphan(TicketOf(e))
    BY <1>1, <2>3, NotAnOrphan DEF TicketPcs
  <2> QED BY <2>1, <2>3, <2>4, <2>5 DEF LeaseKnown
<1> QED BY <1>6, <1>7

LEMMA OrphanStays ==
  ASSUME Before, NEW r \in Runs, Acts(r), NEW t \in Tickets, Orphan(t)
  PROVE  Orphan(t)'
<1>1. Undisturbed /\ RunTypeOK /\ Own /\ status \in [Tickets -> Statuses]
  BY DEF Before, IInv, TypeOK, BoardTypeOK
<1>2. /\ \A q \in Runs : q # r => run'[q] = run[q]
      /\ running' = running /\ stop'.on = stop.on /\ Live(r)
  BY ActsFrame
<1>3. \A q \in Runs : Contends(q)' => Contends(q)
  BY <1>1, <1>2, RunCourse DEF Acts, Course, Contends, Live
<1>4. status'[t] = status[t]
  BY <1>1, <1>2, WhoMoves DEF Acts, Orphan, Contends
<1> QED BY <1>2, <1>3, <1>4 DEF Orphan, Taken, Registered

\* A claim or a crash cleanup that is cancelled may leave one.
LEMMA OrphanMade ==
  ASSUME Before, NEW r \in Runs, Notice(r), run[r].pc = "writing" \/ run[r].op = "crash"
  PROVE  Orphan(OwnTicket(r))'
<1>1. /\ Undisturbed /\ IInv /\ RunTypeOK /\ Own /\ Alone /\ StopsInOrder
  BY DEF Before, Orderly, IInv, TypeOK
<1>2. /\ \A q \in Runs : q # r => run'[q] = run[q]
      /\ running' = running /\ stop'.on = stop.on /\ Live(r)
  BY ActsFrame DEF Acts
<1>3. Contends(r) /\ Unmoved(r) /\ run[r].pc # "move"
  BY <1>1, <1>2 DEF Contends, Unmoved, Own, Fits
<1>4. status' = status
  BY <1>1, <1>3, WhoMoves
<1>5. Taken(OwnTicket(r), status[OwnTicket(r)])
  BY <1>1, <1>2, <1>3, RunRegistered DEF Alone, AtStatus, Taken, Undisturbed
<1>6. stop.on
  BY <1>1 DEF Notice, StopsInOrder
<1>7. ~Contends(r)'
  BY <1>1, CancelTells DEF Notice, Ends, To, Contends, Live
<1>8. \A q \in Runs : Contends(q)' => Contends(q) /\ q # r
  BY <1>2, <1>7 DEF Contends, Live
<1>9. \A q \in Runs : Contends(q)' => OwnTicket(q) # OwnTicket(r)
  BY <1>1, <1>3, <1>8 DEF Alone, OneContender
<1> QED BY <1>2, <1>4, <1>5, <1>6, <1>9 DEF Orphan, Taken, Registered

LEMMA RunKeepsLeaseKnown ==
  ASSUME Before, LeaseKnown, NEW r \in Runs, Acts(r)
  PROVE  LeaseKnown'
<1>1. /\ Undisturbed /\ IInv /\ RunTypeOK /\ BoardTypeOK /\ RunKeys /\ Own /\ Alone
      /\ lease \in [Tickets -> Leases] /\ Reliable
  BY DEF Before, IInv, TypeOK, BoardTypeOK, Undisturbed
<1>2. /\ \A q \in Runs : q # r => run'[q] = run[q]
      /\ restarts' = restarts /\ Live(r)
  BY ActsFrame
<1>3. SUFFICES ASSUME restarts = 0, NEW t \in Tickets, Leased(t)', ~Orphan(t)
               PROVE  (~lease'[t].stale /\ \E q \in Runs : Holds(q, t)') \/ Orphan(t)'
  BY <1>2, OrphanStays DEF LeaseKnown
<1>4. Leased(t) => ~lease[t].stale /\ \E q \in Runs : Holds(q, t)
  BY <1>3 DEF LeaseKnown
<1>5. CASE RunStep(r)
  <2>1. \E q \in Runs : Holds(q, t)'
    BY <1>1, <1>2, <1>3, <1>4, <1>5, RunKeepsHolder
  <2>2. lease'[t] = lease[t] \/ lease'[t] = FreshLease(RoleOf(r)) \/ lease'[t] = NoLease
    BY <1>1, <1>5, RunHolds DEF Keeps, Claims, Releases, Freshens, Drops
  <2>3. ~lease'[t].stale
    BY <1>3, <1>4, <2>2 DEF Leased, FreshLease
  <2> QED BY <2>1, <2>3
<1>6. CASE Notice(r)
  <2>1. CASE t = OwnTicket(r) /\ (run[r].pc = "writing" \/ run[r].op = "crash")
    BY <1>6, <2>1, OrphanMade
  <2>2. CASE ~(t = OwnTicket(r) /\ (run[r].pc = "writing" \/ run[r].op = "crash"))
    <3>1. Fits(r, run[r].pc, run[r].op, run[r].key, run[r].held) /\ ~IsQueueRun(r)
      BY <1>1, TicketRun DEF Own, Undisturbed
    <3>2. lease'[t] = lease[t]
      <4>1. lease' = lease \/ \E l : lease' = [lease EXCEPT ![run[r].key] = l]
                                      /\ (run[r].pc = "writing" \/ l = NoLease)
        BY <1>6 DEF Notice, Cancel, InFlight, At, boardVars, WriteLease, Transition, WriteWaiting,
           WriteRetries
      <4>2. run[r].pc = "writing" => run[r].key # t
        BY <2>2, <3>1 DEF Fits
      <4> QED BY <1>1, <1>3, <4>1, <4>2 DEF Leased
    <3>3. PICK q \in Runs : Holds(q, t)
      BY <1>3, <1>4, <3>2 DEF Leased
    <3>4. ~lease'[t].stale
      BY <1>3, <1>4, <3>2 DEF Leased
    <3>5. Holds(q, t)'
      <4>1. CASE q # r
        BY <1>2, <3>2, <3>3, <4>1 DEF Holds, Live
      <4>2. CASE q = r
        <5>1. t \in run[r].held /\ t = OwnTicket(r) /\ RoleOf(r) = lease[t].role
          BY <3>1, <3>3, <4>2 DEF Holds, Fits
        <5>2. Entered(r) /\ run[r].held # {} /\ run[r].op # "crash"
          BY <2>2, <3>1, <5>1 DEF Entered, At, Fits
        <5>3. run'[r].pc = "release" /\ run'[r].held = run[r].held
          BY <1>1, <1>6, <5>2, CancelTells DEF Notice, To
        <5> QED BY <3>2, <4>2, <5>1, <5>3 DEF Holds, Live
      <4> QED BY <4>1, <4>2
    <3> QED BY <3>4, <3>5
  <2> QED BY <2>1, <2>2
<1> QED BY <1>5, <1>6 DEF Acts

LEMMA OtherwiseKeepsLeaseKnown ==
  ASSUME Before, LeaseKnown, Otherwise
  PROVE  LeaseKnown'
<1>1. /\ Undisturbed /\ IInv /\ NoBeats /\ StopsInOrder /\ stop \in StopRecords
      /\ lease \in [Tickets -> Leases]
  BY DEF Before, Orderly, IInv, TypeOK, BoardTypeOK
<1>2. UNCHANGED <<run, running, ev, status, restarts>>
  BY <1>1, OtherwiseFrame, OtherwiseMovesNothing
<1>3. \A t \in Tickets : ReleaseLeft(t) =>
        stop'.on = stop.on /\ lease' = [lease EXCEPT ![t] = NoLease]
  BY <1>1 DEF ReleaseLeft, StopRecords, WriteLease, Undisturbed, Reliable
<1>4. stop.on => stop'.on
  BY <1>1, <1>3, OtherwiseMovesNothing DEF BeginStop
<1>5. SUFFICES ASSUME restarts = 0, NEW t \in Tickets, Leased(t)'
               PROVE  (~lease'[t].stale /\ \E r \in Runs : Holds(r, t)') \/ Orphan(t)'
  BY <1>2 DEF LeaseKnown
<1>6. CASE Orphan(t)
  BY <1>2, <1>4, <1>6 DEF Orphan, Taken, Registered, Contends, Live
<1>7. CASE ~Orphan(t)
  <2>1. ASSUME Leased(t), lease'[t] = lease[t]
        PROVE  ~lease'[t].stale /\ \E r \in Runs : Holds(r, t)'
    BY <1>2, <1>5, <1>7, <2>1 DEF LeaseKnown, Holds, Live
  <2>2. ASSUME NEW u \in Tickets, Expire(u)
        PROVE  Leased(t) /\ lease'[t] = lease[t]
    <3>1. lease[u] # NoLease /\ lease' = [lease EXCEPT ![u] = [lease[u] EXCEPT !.stale = TRUE]]
      BY <2>2 DEF Expire, Active, WriteLease
    <3>2. Leased(t)
      BY <1>1, <1>5, <3>1 DEF Leased
    <3>3. PICK r \in Runs : Holds(r, t)
      BY <1>5, <1>7, <3>2 DEF LeaseKnown
    <3>4. u # t
      BY <1>1, <2>2, <3>3 DEF Expire, Beats, Holds, Undisturbed
    <3> QED BY <1>1, <3>1, <3>2, <3>4
  <2>3. ASSUME NEW u \in Tickets, ReleaseLeft(u)
        PROVE  Leased(t) /\ lease'[t] = lease[t]
    BY <1>1, <1>3, <1>5, <2>3 DEF Leased
  <2>4. Leased(t) /\ lease'[t] = lease[t]
    BY <1>1, <1>5, <2>2, <2>3, OtherwiseMovesNothing DEF Leased
  <2> QED BY <2>1, <2>4
<1> QED BY <1>6, <1>7

\* What a run that may still count a failure goes by.
LEMMA RunReads ==
  ASSUME Undisturbed, RunTypeOK, Own, NEW r \in Runs, RunStep(r) \/ Notice(r),
         Contends(r)', run'[r].pc # "release"
  PROVE  /\ Contends(r) /\ run[r].pc # "release"
         /\ run'[r].cnt \in {0, run[r].cnt, retries[OwnTicket(r)]}
<1>1. Fits(r, run[r].pc, run[r].op, run[r].key, run[r].held) /\ ~IsQueueRun(r)
  BY TicketRun DEF Own, Undisturbed
<1>2. ~Ends(r) /\ run'[r].op # "cancel" /\ Contends(r)
  BY RunCourse DEF Contends, Live, Ends, To, Course
<1>3. ASSUME NEW p, NEW o, NEW k, NEW h, NEW n, To(r, p, o, k, h, n),
             n \in {0, run[r].cnt, retries[OwnTicket(r)]}
      PROVE  run'[r].cnt \in {0, run[r].cnt, retries[OwnTicket(r)]}
  BY <1>3 DEF To
<1>4. CASE Proceed(r)
  <2>1. CASE BumpRead(r)
    <3> DEFINE m == retries[run[r].key]
    <3>1. To(r, "bumped", run[r].op, run[r].key, run[r].held, m)
      BY <2>1, BumpReadTells
    <3>2. run[r].key = OwnTicket(r) /\ run[r].pc = "bump"
      BY <1>1, <2>1 DEF BumpRead, At, Fits
    <3>3. m = retries[OwnTicket(r)]
      BY <3>2
    <3> HIDE DEF m
    <3> QED BY <1>2, <1>3, <3>1, <3>2, <3>3
  <2>2. CASE ClaimWrite(r)
    <3> DEFINE g == run[r].held \cup {run[r].key}
    <3>1. To(r, "work", "none", run[r].key, g, 0) /\ run[r].pc = "writing"
      BY <2>2, ClaimWriteTells DEF ClaimWrite, At
    <3> HIDE DEF g
    <3> QED BY <1>2, <1>3, <3>1
  <2>3. CASE ClaimRead(r) \/ Move(r)
    <3>1. run[r].pc \in {"start", "claiming", "move"}
      BY <2>3 DEF ClaimRead, Move, At
    <3> QED BY <1>1, <1>2, <1>3, <2>3, <3>1, ClaimReadTells, MoveTells
  <2>4. CASE ClearWaiting(r) \/ ClearRetries(r)
    <3>1. run[r].pc \in {"clear", "reset"}
      BY <2>4 DEF ClearWaiting, ClearRetries, At
    <3>2. \E p : To(r, p, run[r].op, run[r].key, run[r].held, run[r].cnt)
      BY <2>4, WentTo DEF ClearWaiting, ClearRetries
    <3> QED BY <1>2, <1>3, <3>1, <3>2
  <2>5. ~BumpWrite(r)
    BY BumpWriteTells DEF To
  <2>6. ~Release(r)
    BY <1>2, ReleaseEnds DEF Undisturbed
  <2> QED BY <1>4, <2>1, <2>2, <2>3, <2>4, <2>5, <2>6 DEF Proceed
<1>5. CASE Choose(r)
  <2>1. run[r].pc = "work"
    BY <1>5 DEF Choose, BeginClaim, BeginHandoff, BeginEscalate, BeginRelease, BeginFinish,
       IncrementRework, BeginCrash, At
  <2>2. CASE IncrementRework(r)
    BY <1>2, <2>1, <2>2 DEF IncrementRework
  <2>3. CASE BeginHandoff(r) \/ BeginCrash(r)
    BY <1>2, <1>3, <2>1, <2>3, BeginHandoffTells, BeginCrashTells
  <2>4. ~BeginEscalate(r) /\ ~BeginFinish(r)
    BY <1>2, BeginEscalateTells, BeginFinishTells DEF To
  <2>5. ~BeginClaim(r) /\ ~BeginRelease(r)
    BY <1>1 DEF BeginClaim, BeginRelease
  <2> QED BY <1>5, <2>2, <2>3, <2>4, <2>5 DEF Choose
<1>6. CASE Heartbeat(r)
  <2>1. UNCHANGED run
    BY <1>1, <1>6, HeartbeatTells
  <2> QED BY <1>2, <2>1
<1>7. ~Notice(r)
  BY <1>2, CancelTells DEF Notice, To
<1> QED BY <1>4, <1>5, <1>6, <1>7 DEF RunStep, Undisturbed, Reliable, ClaimFails, CallFails, BeatRead

\* Who writes a count is past it then.
LEMMA RunCountsOnce ==
  ASSUME Undisturbed, RunTypeOK, BoardTypeOK, Own, NEW r \in Runs, RunStep(r) \/ Notice(r)
  PROVE  \/ \A t \in Tickets : retries'[t] = retries[t] \/ retries'[t] = 0
         \/ /\ run[r].pc = "bumped" /\ Contends(r)
            /\ retries' = [retries EXCEPT ![OwnTicket(r)] = Bumped(run[r].cnt)]
            /\ Contends(r)' => run'[r].pc = "release"
<1>1. Fits(r, run[r].pc, run[r].op, run[r].key, run[r].held) /\ ~IsQueueRun(r)
  BY TicketRun DEF Own, Undisturbed
<1>2. InFlightCounts(r)
  BY RunCounts DEF Notice
<1>3. CASE /\ run[r].pc = "bumped" /\ ~Heartbeat(r)
           /\ retries' = [retries EXCEPT ![run[r].key] = Bumped(run[r].cnt)]
  <2>1. Contends(r) /\ run[r].key = OwnTicket(r)
    BY <1>1, <1>3 DEF Fits, Contends, Live
  <2>2. Contends(r)' => run'[r].pc = "release"
    <3>1. CASE RunStep(r)
      <4>1. BumpWrite(r)
        BY <1>3, <3>1 DEF RunStep, Proceed, Choose, BeginClaim, BeginHandoff, BeginEscalate,
           BeginRelease, BeginFinish, IncrementRework, BeginCrash, ClaimRead, ClaimWrite, Move,
           ClearWaiting, ClearRetries, BumpRead, Release, At, Undisturbed, Reliable, ClaimFails,
           CallFails, BeatRead
      <4> QED BY <4>1, BumpWriteTells DEF To
    <3>2. CASE Notice(r)
      BY <3>2, CancelTells DEF Notice, Ends, To, Contends, Live
    <3> QED BY <3>1, <3>2
  <2> QED BY <1>3, <2>1, <2>2
<1>4. CASE retries' = retries \/ retries' = [retries EXCEPT ![run[r].key] = 0]
  <2>1. \A t \in Tickets : retries'[t] = retries[t] \/ retries'[t] = 0
    BY <1>4 DEF BoardTypeOK
  <2> QED BY <2>1
<1>5. CASE Heartbeat(r)
  BY <1>4, <1>5, HeartbeatTells DEF WriteLease, boardVars
<1> QED BY <1>2, <1>3, <1>4, <1>5 DEF InFlightCounts

LEMMA EvaluatorKeepsBudget ==
  ASSUME Before, NoReclaim, Budgeted, NEW e \in Evaluators, EvaluatorStep(e)
  PROVE  Budgeted'
<1>1. /\ Undisturbed /\ IInv /\ Alone /\ Evaluators0 /\ retries \in [Tickets -> Nat]
  BY DEF Before, IInv, TypeOK, BoardTypeOK, Evaluators0
<1>2. restarts' = restarts
  BY <1>1, EvaluatorRuns
<1>3. SUFFICES ASSUME restarts = 0 PROVE Budgeted'
  BY <1>2 DEF Budgeted
<1>4. retries' = retries \/ retries' = [retries EXCEPT ![TicketOf(e)] = 0]
  BY <1>3, EvaluatorCounts DEF NoReclaim, ReclaimBumpWrite, ResetRetries, InPc, WriteRetries
<1>5. \A t \in Tickets : retries'[t] = retries[t] \/ retries'[t] = 0
  BY <1>1, <1>4
<1>6. \A t \in Tickets : retries'[t] <= 2
  BY <1>3, <1>5 DEF Budgeted
<1>7. ASSUME NEW t \in Tickets, retries[t] <= 1
      PROVE  retries'[t] <= 1
  BY <1>5, <1>7
<1>8. ASSUME NEW r \in Runs, Contends(r)', run'[r].pc # "release"
      PROVE  retries'[OwnTicket(r)] <= 1 /\ run'[r].cnt <= 1
  <2>1. OwnTicket(r) \in Tickets
    BY <1>1, TicketRun DEF Undisturbed
  <2>2. CASE run'[r] = run[r]
    BY <1>3, <1>7, <1>8, <2>1, <2>2 DEF Budgeted, Contends, Live
  <2>3. CASE Begins(e, r)
    <3>1. PastBudget(e) /\ OwnTicket(r) = TicketOf(e) /\ run'[r].cnt = 0
      BY <2>3 DEF Begins, To, PastBudget, TicketOf, OwnTicket
    <3>2. retries[OwnTicket(r)] <= 1
      BY <1>3, <3>1 DEF Budgeted
    <3> QED BY <1>7, <2>1, <3>1, <3>2
  <2>4. ASSUME NEW q \in Runs, Begins(e, q), q # r
        PROVE  run'[r] = run[r]
    BY <2>4 DEF Begins
  <2>5. run'[r] = run[r] \/ Begins(e, r)
    BY <1>1, <2>4, EvaluatorStarts
  <2> QED BY <2>2, <2>3, <2>5
<1>9. ASSUME NEW f \in Evaluators, PastBudget(f)'
      PROVE  retries'[ev'[f].slot[2]] <= 1
  <2>1. f = e /\ PastBudget(e)'
    BY <1>1, <1>9, OneEvaluator
  <2>2. /\ ev'[e].slot = ev[e].slot /\ retries' = retries
        /\ PastBudget(e) \/ ~OutOfRetries(retries[TicketOf(e)])
    BY <1>1, <2>1, ReachesPastBudget
  <2>3. ev[e].pc \in TicketPcs
    <3>1. ev'[e].pc \in {"rework", "waiting", "unpark"}
      BY <2>1 DEF PastBudget
    <3> QED BY <1>1, <3>1, PassTells DEF Searched, Picked, Follows, Nexts, Between, TicketPcs
  <2>4. TicketOf(e) \in Tickets
    BY <1>1, <2>3, Static DEF IInv, Reserved, TicketOf
  <2>5. retries[TicketOf(e)] <= 1
    BY <1>1, <1>3, <2>2, <2>4 DEF Budgeted, OutOfRetries
  <2> QED BY <2>1, <2>2, <2>5 DEF TicketOf
<1> QED BY <1>6, <1>8, <1>9 DEF Budgeted, TicketOf

LEMMA RunKeepsBudget ==
  ASSUME Before, Budgeted, NEW r \in Runs, Acts(r)
  PROVE  Budgeted'
<1>1. /\ Undisturbed /\ IInv /\ RunTypeOK /\ BoardTypeOK /\ Own /\ Alone
      /\ retries \in [Tickets -> Nat] /\ (RunStep(r) \/ Notice(r))
  BY DEF Before, IInv, TypeOK, BoardTypeOK, Acts
<1>2. /\ \A q \in Runs : q # r => run'[q] = run[q]
      /\ restarts' = restarts /\ ev' = ev
  BY ActsFrame
<1>3. SUFFICES ASSUME restarts = 0 PROVE Budgeted'
  BY <1>2 DEF Budgeted
<1>4. \A q \in Runs : OwnTicket(q) \in Tickets
  BY <1>1, TicketRun DEF Undisturbed
<1>5. \A e \in Evaluators : PastBudget(e)' => PastBudget(e) /\ TicketOf(e) \in Tickets
  BY <1>1, <1>2, Static DEF PastBudget, IInv, Reserved, TicketPcs, TicketOf
<1>6. ASSUME NEW q \in Runs, Contends(q)', run'[q].pc # "release"
      PROVE  Contends(q) /\ run[q].pc # "release" /\ run'[q].cnt <= 1
  <2>1. CASE q # r
    BY <1>2, <1>3, <1>6, <2>1 DEF Budgeted, Contends, Live
  <2>2. CASE q = r
    <3>1. /\ Contends(r) /\ run[r].pc # "release"
          /\ run'[r].cnt \in {0, run[r].cnt, retries[OwnTicket(r)]}
      BY <1>1, <1>6, <2>2, RunReads
    <3> QED BY <1>3, <2>2, <3>1 DEF Budgeted
  <2> QED BY <2>1, <2>2
<1>7. CASE \A t \in Tickets : retries'[t] = retries[t] \/ retries'[t] = 0
  <2>1. \A t \in Tickets : retries[t] <= 1 => retries'[t] <= 1
    BY <1>7
  <2>2. \A t \in Tickets : retries'[t] <= 2
    BY <1>3, <1>7 DEF Budgeted
  <2>3. \A q \in Runs : Contends(q)' /\ run'[q].pc # "release" => retries'[OwnTicket(q)] <= 1
    BY <1>3, <1>4, <1>6, <2>1 DEF Budgeted
  <2>4. \A e \in Evaluators : PastBudget(e)' => retries'[TicketOf(e)] <= 1
    BY <1>3, <1>5, <2>1 DEF Budgeted
  <2> QED BY <1>2, <1>6, <2>2, <2>3, <2>4 DEF Budgeted, TicketOf
<1>8. CASE /\ run[r].pc = "bumped" /\ Contends(r)
           /\ retries' = [retries EXCEPT ![OwnTicket(r)] = Bumped(run[r].cnt)]
           /\ Contends(r)' => run'[r].pc = "release"
  <2>1. run[r].cnt <= 1 /\ run[r].cnt \in Nat
    BY <1>1, <1>3, <1>8, FieldsOf DEF Budgeted, RunRecords
  <2>2. Bumped(run[r].cnt) <= 2
    BY <2>1 DEF Bumped
  <2>3. \A t \in Tickets : retries'[t] <= 2
    BY <1>1, <1>3, <1>8, <2>2 DEF Budgeted
  <2>4. ASSUME NEW q \in Runs, Contends(q)', run'[q].pc # "release"
        PROVE  retries'[OwnTicket(q)] <= 1
    <3>1. q # r /\ Contends(q) /\ run[q].pc # "release"
      BY <1>6, <1>8, <2>4
    <3>2. OwnTicket(q) # OwnTicket(r)
      BY <1>1, <1>8, <3>1 DEF Alone, OneContender
    <3>3. retries'[OwnTicket(q)] = retries[OwnTicket(q)]
      BY <1>1, <1>4, <1>8, <3>2
    <3> QED BY <1>3, <3>1, <3>3 DEF Budgeted
  <2>5. ASSUME NEW e \in Evaluators, PastBudget(e)'
        PROVE  retries'[TicketOf(e)] <= 1
    <3>1. PastBudget(e) /\ TicketOf(e) \in Tickets
      BY <1>5, <2>5
    <3>2. OwnTicket(r) # TicketOf(e)
      BY <1>1, <1>8, <3>1 DEF Alone, SeenFree, PastBudget, TicketPcs
    <3>3. retries'[TicketOf(e)] = retries[TicketOf(e)]
      BY <1>1, <1>8, <3>1, <3>2
    <3> QED BY <1>3, <3>1, <3>3 DEF Budgeted
  <2> QED BY <1>2, <1>6, <2>3, <2>4, <2>5 DEF Budgeted, TicketOf
<1> QED BY <1>1, <1>7, <1>8, RunCountsOnce

LEMMA OtherwiseKeepsBudget ==
  ASSUME Before, Budgeted, Otherwise
  PROVE  Budgeted'
<1>1. /\ Undisturbed /\ IInv /\ retries \in [Tickets -> Nat]
  BY DEF Before, IInv, TypeOK, BoardTypeOK
<1>2. UNCHANGED <<run, ev, restarts>>
  BY OtherwiseFrame
<1>3. \A t \in Tickets : retries'[t] = retries[t] \/ retries'[t] = 0
  BY <1>1, OtherwiseCounts
<1>4. \A t \in Tickets : /\ retries[t] <= 1 => retries'[t] <= 1
                         /\ retries[t] <= 2 => retries'[t] <= 2
  BY <1>3
<1>5. \A q \in Runs : OwnTicket(q) \in Tickets
  BY <1>1, TicketRun DEF Undisturbed
<1>6. \A e \in Evaluators : PastBudget(e) => TicketOf(e) \in Tickets
  BY <1>1, Static DEF PastBudget, IInv, Reserved, TicketPcs, TicketOf
<1> QED BY <1>2, <1>4, <1>5, <1>6 DEF Budgeted, Contends, Live, PastBudget, TicketOf

LEMMA CountedKept ==
  ASSUME Before, Counted, [Next]_vars
  PROVE  Counted'
<1>1. CASE \E e \in Evaluators : EvaluatorStep(e)
  BY <1>1, EvaluatorKeepsLeaseKnown, EvaluatorKeepsBudget DEF Counted
<1>2. CASE \E r \in Runs : Acts(r)
  <2>1. PICK r \in Runs : Acts(r)
    BY <1>2
  <2>2. NoReclaim'
    BY <2>1, ActsFrame DEF Counted, NoReclaim
  <2> QED BY <2>1, <2>2, RunKeepsLeaseKnown, RunKeepsBudget DEF Counted
<1>3. CASE Otherwise
  <2>1. NoReclaim'
    BY <1>3, OtherwiseFrame DEF Counted, NoReclaim
  <2> QED BY <1>3, <2>1, OtherwiseKeepsLeaseKnown, OtherwiseKeepsBudget DEF Counted
<1>4. CASE Reborn
  <2>1. restarts' # 0
    BY <1>4 DEF Before, IInv, TypeOK, Reborn
  <2> QED BY <2>1 DEF Counted, LeaseKnown, NoReclaim, Budgeted
<1> QED BY <1>1, <1>2, <1>3, <1>4, NextIs DEF Acts

\* The retry counter stays at two or below in the first life of the process, for
\* any tickets, ticket roles, workflow and labels, stops and failing passes
\* included: the bump of a failed run, the escalation's reset and the next start
\* come in that order.
THEOREM RetriesStayBounded == Undisturbed => (Spec => []RetriesBounded)
<1> SUFFICES ASSUME Undisturbed PROVE Spec => []RetriesBounded
  OBVIOUS
<1>1. Init => Orderly /\ Alone /\ Counted
  <2>1. Init => Orderly
    BY OrderlyInitially
  <2>2. Init => Alone
    BY AloneAtRest DEF Init, RunInit
  <2>3. Init => Counted
    BY IdleType DEF Init, BoardInit, RunInit, DoneRun, Idle, Counted, LeaseKnown, NoReclaim,
       Budgeted, Leased, PastBudget, Contends, Live
  <2> QED BY <2>1, <2>2, <2>3
<1>2. IInv /\ Own /\ Orderly /\ Alone /\ Counted /\ [Next]_vars => Orderly' /\ Alone' /\ Counted'
  BY OrderlyKept, AloneKept, CountedKept DEF Undisturbed, Before
<1>3. Counted => RetriesBounded
  <2>1. Counted => Budgeted
    BY DEF Counted
  <2>2. ASSUME Budgeted, restarts = 0, NEW t \in Tickets
        PROVE  retries[t] <= 2
    BY <2>2 DEF Budgeted
  <2> QED BY <2>1, <2>2, Zenon DEF RetriesBounded
<1> QED BY <1>1, <1>2, <1>3, InductiveInvariant, RunsHoldTheirOwn, PTL DEF Spec
=============================================================================
