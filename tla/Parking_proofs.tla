--------------------------- MODULE Parking_proofs --------------------------
(***************************************************************************)
(* Theorems about Parking, for every set of sweeps and flushes and every   *)
(* bound on failures: one evaluation of the ticket at a time, and none     *)
(* while its role is at work; no reply that the marker hides; and one      *)
(* retry, then a human.                                                    *)
(***************************************************************************)
EXTENDS Parking, TLAPS

\* The ticket's stamps, now and in the eyes of a new marker, are stamps.
LEMMA StampTypes ==
  /\ Now \in Stamps /\ Old \in Stamps
  /\ \A s \in Stamps : Seen(s) \in Stamps /\ [s EXCEPT !.second = FALSE] \in Stamps
  /\ Idle \in EvalRecords
BY DEF Now, Old, Stamps, Seen, Idle, EvalRecords, EvalPcs

\* What a failure does to the bound on failures.
LEMMA FailsType ==
  ASSUME TypeOK, Fails
  PROVE  failures' \in 0 .. MaxFailures
BY ParkingAssumption DEF TypeOK, Fails

\* The count of retries stays where it is told apart.
LEMMA CountedType ==
  ASSUME TypeOK, Counted
  PROVE  retries' \in 0 .. 2 /\ (retries' = 2 \/ retries' = retries + 1)
BY DEF TypeOK, Counted

\* A step of the run, a crash, a failed release: the evaluators stay where they
\* are, and no run leaves "idle".
LEMMA RunKeeps ==
  ASSUME IInv, Proceed \/ Crash \/ ReleaseFails
  PROVE  IInv'
<1> USE DEF IInv, board, others, history
<1>1. TypeOK'
  <2>1. CASE Claim
    BY <2>1, StampTypes DEF Claim, Edited, TypeOK, RunPcs
  <2>2. CASE ReadTicket
    BY <2>2 DEF ReadTicket, TypeOK, RunPcs
  <2>3. CASE Park
    <3>1. ev' \in [Evaluators -> EvalRecords]
      BY <2>3, StampTypes DEF Park, TypeOK, EvalRecords
    <3> QED BY <2>3, <3>1, StampTypes DEF Park, TypeOK, RunPcs
  <2>4. CASE Unlease
    BY <2>4 DEF Unlease, TypeOK, RunPcs
  <2>5. CASE Unlabel
    BY <2>5, StampTypes DEF Unlabel, ReleaseEdits, Edited, TypeOK, RunPcs
  <2>6. CASE Crash
    <3>1. failures' \in 0 .. MaxFailures /\ strikes' \in Nat
      BY <2>6, FailsType DEF Crash, TypeOK
    <3>2. retries' \in 0 .. 2 /\ run' \in RunPcs /\ uncounted' \in BOOLEAN
      BY <2>6, CountedType DEF Crash, TypeOK, RunPcs
    <3> QED BY <2>6, <3>1, <3>2 DEF Crash, TypeOK
  <2>7. CASE ReleaseFails
    BY <2>7, FailsType DEF ReleaseFails, TypeOK, RunPcs
  <2> QED BY <2>1, <2>2, <2>3, <2>4, <2>5, <2>6, <2>7 DEF Proceed
<1>2. run # "idle"
  BY DEF Proceed, Claim, ReadTicket, Park, Unlease, Unlabel, Crash, ReleaseFails, HasReleased
<1>3. \A e \in Evaluators : ev'[e].pc = ev[e].pc
  <2>1. CASE Park
    BY <2>1 DEF Park, TypeOK, EvalRecords
  <2>2. CASE ~Park
    BY <2>2 DEF Proceed, Claim, ReadTicket, Unlease, Unlabel, Crash, ReleaseFails
  <2> QED BY <2>1, <2>2
<1>4. Alone'
  BY <1>2, <1>3 DEF Alone
<1> QED BY <1>1, <1>4

\* What an evaluator becomes in a step of its own, told by its new record.
LEMMA StepType ==
  ASSUME TypeOK, NEW e \in Evaluators, NEW rec \in EvalRecords, Step(e, rec)
  PROVE  /\ ev' \in [Evaluators -> EvalRecords]
         /\ ev'[e] = rec
         /\ \A d \in Evaluators \ {e} : ev'[d] = ev[d]
BY DEF TypeOK, Step

\* The same for a step to another await with what it knows.
LEMMA GotoType ==
  ASSUME TypeOK, NEW e \in Evaluators, NEW pc \in EvalPcs, Goto(e, pc)
  PROVE  /\ ev' \in [Evaluators -> EvalRecords]
         /\ ev'[e].pc = pc
         /\ \A d \in Evaluators \ {e} : ev'[d] = ev[d]
<1>1. [ev[e] EXCEPT !.pc = pc] \in EvalRecords /\ [ev[e] EXCEPT !.pc = pc].pc = pc
  BY DEF TypeOK, EvalRecords
<1>2. Step(e, [ev[e] EXCEPT !.pc = pc])
  BY DEF Goto
<1> QED BY <1>1, <1>2, StepType

\* Waiting for the lock, and taking it: whoever takes it finds nobody in it,
\* and the role not at work.
LEMMA TakeLockKeeps ==
  ASSUME IInv, NEW e \in Evaluators, Begin(e) \/ TakeLock(e)
  PROVE  IInv'
<1> USE DEF IInv, board, others, history
<1>1. ev[e] \in EvalRecords /\ stamp \in Stamps /\ frozen \in BOOLEAN
  BY DEF TypeOK
<1>2. CASE Begin(e)
  <2> DEFINE rec == IF e \in Sweeps THEN [pc |-> "locking", stamp |-> stamp, frozen |-> frozen]
                    ELSE [Idle EXCEPT !.pc = "locking"]
  <2>1. rec \in EvalRecords /\ rec.pc \notin InLock /\ Step(e, rec)
    BY <1>1, <1>2, StampTypes DEF Begin, EvalRecords, EvalPcs, InLock, Idle
  <2> HIDE DEF rec
  <2>2. /\ ev' \in [Evaluators -> EvalRecords] /\ ev'[e].pc \notin InLock
        /\ \A d \in Evaluators \ {e} : ev'[d] = ev[d]
    BY <2>1, StepType
  <2>3. UNCHANGED <<board, run, others, failures, history>>
    BY <1>2 DEF Begin
  <2>4. TypeOK'
    BY <2>2, <2>3 DEF TypeOK
  <2>5. Alone'
    BY <2>2, <2>3 DEF Alone
  <2> QED BY <2>4, <2>5
<1>3. CASE TakeLock(e)
  <2> DEFINE rec == IF closed \/ IssueFor(e).frozen \/ run # "idle" THEN Idle
                    ELSE [IssueFor(e) EXCEPT !.pc = "lease"]
  <2>1. IssueFor(e) \in EvalRecords
    BY <1>1 DEF IssueFor, EvalRecords
  <2>2. rec \in EvalRecords /\ (rec.pc \in InLock => run = "idle") /\ Step(e, rec)
    BY <2>1, <1>3, StampTypes DEF TakeLock, EvalRecords, EvalPcs, InLock, Idle
  <2> HIDE DEF rec
  <2>3. /\ ev' \in [Evaluators -> EvalRecords] /\ (ev'[e].pc \in InLock => run = "idle")
        /\ \A d \in Evaluators \ {e} : ev'[d] = ev[d]
    BY <2>2, StepType
  <2>4. /\ UNCHANGED <<board, run, others, failures, history>>
        /\ \A d \in Evaluators : ev[d].pc \notin InLock
    BY <1>3 DEF TakeLock, LockFree
  <2>5. TypeOK'
    BY <2>3, <2>4 DEF TypeOK
  <2>6. Alone'
    BY <2>3, <2>4 DEF Alone
  <2> QED BY <2>5, <2>6
<1> QED BY <1>2, <1>3

\* The awaits of _evaluate_ticket: the run is dispatched in the step in which
\* the evaluation leaves the lock.
LEMMA EvaluateKeeps ==
  ASSUME IInv, NEW e \in Evaluators, Evaluate(e) \/ EvaluationFails(e)
  PROVE  IInv'
<1> USE DEF IInv, board, others, history
<1>1. ev[e].pc \in InLock
  BY DEF Evaluate, ReadLease, Reclaim, Relabel, BumpReclaimed, ReadRetries, ResetRetries,
         Escalate, ReadWaiting, Unpark, EvaluationFails, InPc, InLock, EvalPcs
<1>2. run = "idle" /\ \A d \in Evaluators \ {e} : ev[d].pc \notin InLock
  BY <1>1 DEF Alone
<1>3. ASSUME NEW pc \in EvalPcs, Goto(e, pc), UNCHANGED run
      PROVE  ev' \in [Evaluators -> EvalRecords] /\ Alone'
  <2>1. /\ ev' \in [Evaluators -> EvalRecords]
        /\ \A d \in Evaluators \ {e} : ev'[d] = ev[d]
    BY <1>3, GotoType
  <2> QED BY <1>2, <1>3, <2>1 DEF Alone
<1>4. ASSUME Step(e, Idle)
      PROVE  ev' \in [Evaluators -> EvalRecords] /\ Alone'
  <2>1. /\ ev' \in [Evaluators -> EvalRecords] /\ ev'[e] = Idle
        /\ \A d \in Evaluators \ {e} : ev'[d] = ev[d]
    BY <1>4, StepType, StampTypes
  <2> QED BY <1>2, <2>1 DEF Alone, Idle, InLock
<1>5. CASE ReadLease(e)
  <2>1. ev' \in [Evaluators -> EvalRecords] /\ Alone'
    BY <1>3, <1>4, <1>5 DEF ReadLease, EvalPcs
  <2> QED BY <1>5, <2>1 DEF ReadLease, TypeOK
<1>6. CASE Reclaim(e) \/ Relabel(e) \/ ResetRetries(e)
  <2>1. ev' \in [Evaluators -> EvalRecords] /\ Alone'
    BY <1>3, <1>6 DEF Reclaim, Relabel, ResetRetries, EvalPcs
  <2>2. CASE Reclaim(e)
    BY <2>1, <2>2 DEF Reclaim, TypeOK
  <2>3. CASE Relabel(e)
    BY <2>1, <2>3, StampTypes DEF Relabel, Edited, TypeOK
  <2>4. CASE ResetRetries(e)
    BY <2>1, <2>4 DEF ResetRetries, TypeOK
  <2> QED BY <1>6, <2>2, <2>3, <2>4
<1>7. CASE BumpReclaimed(e)
  <2>1. ev' \in [Evaluators -> EvalRecords] /\ Alone'
    BY <1>3, <1>7 DEF BumpReclaimed, EvalPcs
  <2> QED BY <1>7, <2>1, CountedType DEF BumpReclaimed, TypeOK
<1>8. CASE ReadRetries(e)
  <2>1. \E pc \in EvalPcs : Goto(e, pc)
    BY <1>8 DEF ReadRetries, EvalPcs
  <2>2. ev' \in [Evaluators -> EvalRecords] /\ Alone'
    BY <1>3, <1>8, <2>1 DEF ReadRetries
  <2> QED BY <1>8, <2>2 DEF ReadRetries, TypeOK
<1>9. CASE Escalate(e)
  <2>1. ev' \in [Evaluators -> EvalRecords] /\ Alone'
    BY <1>4, <1>9 DEF Escalate
  <2> QED BY <1>9, <2>1, StampTypes DEF Escalate, Edited, TypeOK
<1>10. CASE ReadWaiting(e)
  <2>1. ev' \in [Evaluators -> EvalRecords] /\ Alone'
    BY <1>3, <1>4, <1>10 DEF ReadWaiting, Dispatch, EvalPcs
  <2> QED BY <1>10, <2>1 DEF ReadWaiting, Dispatch, TypeOK, RunPcs
<1>11. CASE Unpark(e)
  <2>1. ev' \in [Evaluators -> EvalRecords] /\ Alone'
    BY <1>4, <1>11 DEF Unpark, Dispatch
  <2> QED BY <1>11, <2>1 DEF Unpark, Dispatch, TypeOK, RunPcs
<1>12. CASE EvaluationFails(e)
  <2>1. ev' \in [Evaluators -> EvalRecords] /\ Alone'
    BY <1>4, <1>12 DEF EvaluationFails
  <2>2. unlabelled' \in BOOLEAN /\ uncounted' \in BOOLEAN
    BY <1>12 DEF EvaluationFails, TypeOK
  <2> QED BY <1>12, <2>1, <2>2, FailsType DEF EvaluationFails, TypeOK
<1> QED BY <1>5, <1>6, <1>7, <1>8, <1>9, <1>10, <1>11, <1>12 DEF Evaluate

\* Clocks, humans, other tickets and the supervisor move no evaluator into the
\* lock.
LEMMA OutsideKeeps ==
  ASSUME IInv, NextSecond \/ WakeTime \/ Expire \/ HumanActs \/ OthersAct \/ Restart
  PROVE  IInv'
<1> USE DEF IInv, board, others, history
<1>1. CASE NextSecond
  <2>1. /\ ev' \in [Evaluators -> EvalRecords]
        /\ \A e \in Evaluators : ev'[e].pc = ev[e].pc
    BY <1>1 DEF NextSecond, TypeOK, EvalRecords, Stamps
  <2>2. stamp' \in Stamps
    BY <1>1, StampTypes DEF NextSecond, TypeOK
  <2> QED BY <1>1, <2>1, <2>2 DEF NextSecond, TypeOK, Alone
<1>2. CASE WakeTime
  BY <1>2 DEF WakeTime, TypeOK, Alone
<1>3. CASE Expire
  BY <1>3 DEF Expire, TypeOK, Alone
<1>4. CASE HumanActs
  BY <1>4, StampTypes DEF HumanActs, Edited, TypeOK, Alone
<1>5. CASE OthersAct
  BY <1>5 DEF OthersAct, TypeOK, Alone
<1>6. CASE Restart
  <2>1. ev' \in [Evaluators -> EvalRecords] /\ \A e \in Evaluators : ev'[e].pc \notin InLock
    BY <1>6, StampTypes DEF Restart, Idle, InLock
  <2>2. failures' \in 0 .. MaxFailures /\ strikes' \in Nat
    BY <1>6, FailsType DEF Restart, TypeOK
  <2>3. UNCHANGED <<board, others, unheard>> /\ run' = "idle"
    BY <1>6 DEF Restart
  <2>4. unlabelled' \in BOOLEAN /\ uncounted' \in BOOLEAN
    BY <1>6 DEF Restart
  <2> QED BY <2>1, <2>2, <2>3, <2>4 DEF TypeOK, RunPcs, Alone
<1> QED BY <1>1, <1>2, <1>3, <1>4, <1>5, <1>6

\* The lock of the orchestrator and its `running` set together make every
\* evaluation of a waiting ticket exclusive: no other evaluation and no run
\* stands between its reading of the marker and its deletion
\* (orchestrator._evaluate_ticket).
THEOREM EvaluationAlone == Spec => []IInv
<1>1. ASSUME Init PROVE IInv
  <2>1. ev \in [Evaluators -> EvalRecords] /\ \A e \in Evaluators : ev[e].pc \notin InLock
    BY <1>1, StampTypes DEF Init, Idle, InLock
  <2>2. failures \in 0 .. MaxFailures
    BY <1>1, ParkingAssumption DEF Init
  <2>3. stamp \in Stamps
    BY <1>1, StampTypes DEF Init
  <2>4. retries \in 0 .. 2 /\ strikes \in Nat /\ lease \in {"none", "held", "stale"} /\ run \in RunPcs
    BY <1>1 DEF Init, RunPcs
  <2>5. /\ marker \in BOOLEAN /\ due \in BOOLEAN /\ frozen \in BOOLEAN
        /\ closed \in BOOLEAN /\ full \in BOOLEAN
        /\ unheard \in BOOLEAN /\ unlabelled \in BOOLEAN /\ uncounted \in BOOLEAN
    BY <1>1, Zenon DEF Init
  <2>6. TypeOK
    BY <2>1, <2>2, <2>3, <2>4, <2>5 DEF TypeOK
  <2> QED BY <2>1, <2>6 DEF IInv, Alone
<1>2. IInv /\ [Next]_vars => IInv'
  <2> SUFFICES ASSUME IInv, [Next]_vars PROVE IInv'
    OBVIOUS
  <2>1. CASE UNCHANGED vars
    BY <2>1 DEF vars, board, others, history, IInv, TypeOK, Alone
  <2>2. CASE Next
    BY <2>2, RunKeeps, TakeLockKeeps, EvaluateKeeps, OutsideKeeps DEF Next
  <2> QED BY <2>1, <2>2
<1> QED BY <1>1, <1>2, PTL DEF Spec

(***************************************************************************)
(* No reply is out of sight.                                               *)
(***************************************************************************)
\* From its claim to its release a run has the lease.  A reply to a parked ticket
\* shows, or the release that makes it show is still to come: the run's own, or
\* the reclaim of the lease a dead run has left.
Sighted ==
  /\ run \in {"claim", "read"} => ~marker
  /\ run \in HasLease => lease = "held" \/ unlabelled
  /\ unheard /\ marker =>
       \/ stamp.fresh \/ unlabelled \/ lease # "none"
       \/ run \in {"unlease", "abort", "unlabel", "aborted"}
       \/ \E e \in Evaluators : InPc(e, "relabel")

LEMMA EditShows == Edited => stamp'.fresh
BY DEF Edited, Now

LEMMA RunKeepsSight ==
  ASSUME IInv, Sighted, Proceed \/ Crash \/ ReleaseFails
  PROVE  Sighted'
<1> USE DEF board, others, history, HasLease, HasReleased
<1>1. \A e \in Evaluators : ev'[e].pc = ev[e].pc
  <2>1. CASE Park
    BY <2>1 DEF Park, IInv, TypeOK, EvalRecords
  <2>2. CASE ~Park
    BY <2>2 DEF Proceed, Claim, ReadTicket, Unlease, Unlabel, Crash, ReleaseFails
  <2> QED BY <2>1, <2>2
<1>2. CASE Claim
  BY <1>2, EditShows DEF Claim, Sighted
<1>3. CASE ReadTicket
  BY <1>3 DEF ReadTicket, Sighted
<1>4. CASE Park
  BY <1>4 DEF Park, Sighted
<1>5. CASE Unlease
  BY <1>5 DEF Unlease, Sighted
<1>6. CASE Unlabel
  BY <1>6, EditShows DEF Unlabel, ReleaseEdits, Sighted
<1>7. CASE Crash
  BY <1>1, <1>7 DEF Crash, Sighted, InPc
<1>8. CASE ReleaseFails
  BY <1>1, <1>8 DEF ReleaseFails, Sighted, InPc
<1> QED BY <1>2, <1>3, <1>4, <1>5, <1>6, <1>7, <1>8 DEF Proceed

LEMMA EvaluateKeepsSight ==
  ASSUME IInv, Sighted, NEW e \in Evaluators,
         Begin(e) \/ TakeLock(e) \/ Evaluate(e) \/ EvaluationFails(e)
  PROVE  Sighted'
<1> USE DEF board, others, history
<1>1. \A d \in Evaluators \ {e} : ev'[d] = ev[d]
  BY DEF Begin, TakeLock, Evaluate, ReadLease, Reclaim, Relabel, BumpReclaimed, ReadRetries,
         ResetRetries, Escalate, ReadWaiting, Unpark, Dispatch, EvaluationFails, Goto, Step,
         IInv, TypeOK
<1>2. ~InPc(e, "relabel") => \A d \in Evaluators : InPc(d, "relabel") => InPc(d, "relabel")'
  BY <1>1 DEF InPc
<1>3. CASE \/ Begin(e) \/ TakeLock(e) \/ ReadLease(e) \/ ReadRetries(e)
           \/ BumpReclaimed(e) \/ ResetRetries(e)
  <2>1. ~InPc(e, "relabel")
    BY <1>3 DEF Begin, TakeLock, ReadLease, ReadRetries, BumpReclaimed, ResetRetries, InPc
  <2>2. UNCHANGED <<stamp, marker, lease, run, unheard, unlabelled>>
    BY <1>3 DEF Begin, TakeLock, ReadLease, ReadRetries, BumpReclaimed, ResetRetries
  <2> QED BY <1>2, <2>1, <2>2 DEF Sighted
<1>4. CASE Reclaim(e)
  <2>1. run = "idle"
    BY <1>4 DEF IInv, Alone, Reclaim, InPc, InLock, EvalPcs
  <2>2. InPc(e, "relabel")'
    BY <1>4, GotoType DEF Reclaim, IInv, InPc, EvalPcs
  <2> QED BY <1>4, <2>1, <2>2 DEF Reclaim, Sighted, HasLease
<1>5. CASE Relabel(e) \/ Escalate(e)
  <2>1. run = "idle" /\ run' = run
    BY <1>5 DEF IInv, Alone, Relabel, Escalate, InPc, InLock, EvalPcs
  <2> QED BY <1>5, <2>1, EditShows DEF Relabel, Escalate, Sighted, HasLease
<1>6. CASE ReadWaiting(e)
  <2>1. ~InPc(e, "relabel")
    BY <1>6 DEF ReadWaiting, InPc
  <2>2. /\ UNCHANGED <<stamp, marker, lease, unheard, unlabelled>>
        /\ run' = run \/ (run' = "claim" /\ ~marker)
    BY <1>6 DEF ReadWaiting, Dispatch
  <2> QED BY <1>2, <2>1, <2>2 DEF Sighted, HasLease
<1>7. CASE Unpark(e)
  BY <1>7 DEF Unpark, Dispatch, Sighted, HasLease
<1>8. CASE EvaluationFails(e)
  BY <1>2, <1>8 DEF EvaluationFails, Sighted
<1> QED BY <1>3, <1>4, <1>5, <1>6, <1>7, <1>8 DEF Evaluate

LEMMA OutsideKeepsSight ==
  ASSUME IInv, Sighted, NextSecond \/ WakeTime \/ Expire \/ HumanActs \/ OthersAct \/ Restart
  PROVE  Sighted'
<1> USE DEF board, others, history, HasLease, HasReleased
<1>1. CASE NextSecond
  <2>1. stamp'.fresh = stamp.fresh
    BY <1>1 DEF NextSecond, IInv, TypeOK, Stamps
  <2>2. \A e \in Evaluators : ev'[e].pc = ev[e].pc
    BY <1>1 DEF NextSecond, IInv, TypeOK, EvalRecords
  <2> QED BY <1>1, <2>1, <2>2 DEF NextSecond, Sighted, InPc
<1>2. CASE WakeTime
  BY <1>2 DEF WakeTime, Sighted, InPc
<1>3. CASE Expire
  BY <1>3 DEF Expire, Sighted, InPc
<1>4. CASE HumanActs
  BY <1>4, EditShows DEF HumanActs, Sighted
<1>5. CASE OthersAct
  BY <1>5 DEF OthersAct, Sighted, InPc
<1>6. CASE Restart
  BY <1>6 DEF Restart, Sighted
<1> QED BY <1>1, <1>2, <1>3, <1>4, <1>5, <1>6

\* The safety behind HumanHeard, for any sweeps, flushes and failures: a reply to
\* a parked ticket shows in `updated` as soon as the release of whoever parked
\* it is done (tools._finish_run, LeaseManager.release and reclaim).
THEOREM NoReplyHidden == Spec => []ReplyInSight
<1>1. Init => Sighted
  BY DEF Init, Sighted, HasLease
<1>2. IInv /\ Sighted /\ [Next]_vars => Sighted'
  <2> SUFFICES ASSUME IInv, Sighted, [Next]_vars PROVE Sighted'
    OBVIOUS
  <2>1. CASE UNCHANGED vars
    BY <2>1 DEF vars, board, others, history, Sighted, InPc
  <2>2. CASE Next
    BY <2>2, RunKeepsSight, EvaluateKeepsSight, OutsideKeepsSight DEF Next
  <2> QED BY <2>1, <2>2
<1>3. Sighted => ReplyInSight
  BY DEF Sighted, ReplyInSight
<1> QED BY <1>1, <1>2, <1>3, EvaluationAlone, PTL DEF Spec

(***************************************************************************)
(* One retry, then a human.                                                *)
(***************************************************************************)
\* A failure that the reclaim of a lost run's lease is still to count.
Outstanding ==
  /\ run = "idle"
  /\ lease # "none" \/ \E e \in Evaluators : ev[e].pc \in {"relabel", "bump"}

\* The count covers the runs that failed, but for one outstanding, until it says
\* two, and then until the human is called.  Whoever is past its check holds a
\* ticket with at most one.
Tallied ==
  /\ \/ uncounted \/ retries = 2 \/ \E e \in Evaluators : InPc(e, "escalate")
     \/ strikes <= IF Outstanding THEN retries + 1 ELSE retries
  /\ \A e \in Evaluators :
       /\ ev[e].pc \in InLock \ {"lease", "reclaim"} => lease = "none"
       /\ ev[e].pc \in {"breaker", "waiting", "unpark"} => strikes <= 1 \/ uncounted

LEMMA OneMore == \A m, n \in Nat : m <= n => m <= n + 1
OBVIOUS

\* Beside a run nobody evaluates, so only the run itself writes the count.
LEMMA RunKeepsTally ==
  ASSUME IInv, Tallied, Proceed \/ Crash \/ ReleaseFails
  PROVE  Tallied'
<1> USE DEF board, others, history
<1>1. \A e \in Evaluators : ev'[e].pc = ev[e].pc
  <2>1. CASE Park
    BY <2>1 DEF Park, IInv, TypeOK, EvalRecords
  <2>2. CASE ~Park
    BY <2>2 DEF Proceed, Claim, ReadTicket, Unlease, Unlabel, Crash, ReleaseFails
  <2> QED BY <2>1, <2>2
<1>2. run # "idle"
  BY DEF Proceed, Claim, ReadTicket, Park, Unlease, Unlabel, Crash, ReleaseFails, HasReleased
<1>3. \A e \in Evaluators : ev'[e].pc \notin InLock
  BY <1>1, <1>2 DEF IInv, Alone
<1>4. uncounted \/ retries = 2 \/ strikes <= retries
  BY <1>1, <1>2, <1>3 DEF Tallied, Outstanding, InPc, InLock, EvalPcs
<1>5. retries \in 0 .. 2 /\ strikes \in Nat
  BY DEF IInv, TypeOK
<1>6. uncounted' \/ retries' = 2 \/ strikes' <= retries'
  <2>1. CASE Crash
    BY <1>4, <1>5, <2>1 DEF Crash, Counted
  <2>2. CASE ~Crash
    BY <1>4, <2>2 DEF Proceed, Claim, ReadTicket, Park, Unlease, Unlabel, ReleaseFails
  <2> QED BY <2>1, <2>2
<1>7. retries' \in Nat /\ strikes' \in Nat
  <2>1. IInv'
    BY RunKeeps
  <2> QED BY <2>1 DEF IInv, TypeOK
<1>8. strikes' <= retries'
        => strikes' <= IF Outstanding' THEN retries' + 1 ELSE retries'
  <2>1. strikes' <= retries' => strikes' <= retries' + 1
    BY <1>7, OneMore
  <2> QED BY <2>1, Zenon
<1>9. \A e \in Evaluators :
        /\ ev'[e].pc \in InLock \ {"lease", "reclaim"} => lease' = "none"
        /\ ev'[e].pc \in {"breaker", "waiting", "unpark"} => strikes' <= 1 \/ uncounted'
  BY <1>3 DEF InLock, EvalPcs
<1> QED BY <1>6, <1>8, <1>9 DEF Tallied

\* An evaluation counts a lost run before it looks at the count, and calls a
\* human after it has reset it.
LEMMA EvaluateKeepsTally ==
  ASSUME IInv, Tallied, NEW e \in Evaluators, Evaluate(e) \/ EvaluationFails(e)
  PROVE  Tallied'
<1> USE DEF board, others, history
<1>1. ev[e].pc \in InLock
  BY DEF Evaluate, ReadLease, Reclaim, Relabel, BumpReclaimed, ReadRetries, ResetRetries,
         Escalate, ReadWaiting, Unpark, EvaluationFails, InPc, InLock, EvalPcs
<1>2. run = "idle" /\ \A d \in Evaluators \ {e} : ev[d].pc \notin InLock
  BY <1>1 DEF IInv, Alone
<1>3. \A d \in Evaluators \ {e} : ev'[d] = ev[d]
  BY DEF Evaluate, ReadLease, Reclaim, Relabel, BumpReclaimed, ReadRetries,
         ResetRetries, Escalate, ReadWaiting, Unpark, Dispatch, EvaluationFails, Goto, Step,
         IInv, TypeOK
<1>4. \A d \in Evaluators \ {e} : ev'[d].pc \notin InLock
  BY <1>2, <1>3
<1>5. retries \in 0 .. 2 /\ strikes \in Nat /\ uncounted \in BOOLEAN
  BY DEF IInv, TypeOK
<1>6. \/ uncounted \/ retries = 2 \/ InPc(e, "escalate")
      \/ strikes <= IF lease # "none" \/ ev[e].pc \in {"relabel", "bump"} THEN retries + 1 ELSE retries
  BY <1>2, <1>5 DEF Tallied, Outstanding, InPc, InLock, EvalPcs
<1>7. /\ ev[e].pc \in InLock \ {"lease", "reclaim"} => lease = "none"
      /\ ev[e].pc \in {"breaker", "waiting", "unpark"} => strikes <= 1 \/ uncounted
  BY DEF Tallied
\* What is to be shown of the state in which e has made its step.
<1>8. ASSUME \/ uncounted' \/ retries' = 2 \/ InPc(e, "escalate")'
             \/ strikes' <= retries'
             \/ /\ run' = "idle" /\ strikes' <= retries' + 1
                /\ lease' # "none" \/ ev'[e].pc \in {"relabel", "bump"},
             ev'[e].pc \in InLock \ {"lease", "reclaim"} => lease' = "none",
             ev'[e].pc \in {"breaker", "waiting", "unpark"} => strikes' <= 1 \/ uncounted',
             retries' \in Nat, strikes' \in Nat
      PROVE  Tallied'
  <2>1. \A d \in Evaluators :
          /\ ev'[d].pc \in InLock \ {"lease", "reclaim"} => lease' = "none"
          /\ ev'[d].pc \in {"breaker", "waiting", "unpark"} => strikes' <= 1 \/ uncounted'
    BY <1>4, <1>8 DEF InLock, EvalPcs
  <2>2. \/ uncounted' \/ retries' = 2 \/ \E d \in Evaluators : InPc(d, "escalate")'
        \/ strikes' <= IF Outstanding' THEN retries' + 1 ELSE retries'
    <3>1. CASE strikes' <= retries'
      <4>1. strikes' <= retries' + 1
        BY <1>8, <3>1, OneMore
      <4> QED BY <3>1, <4>1, Zenon
    <3>2. CASE /\ run' = "idle" /\ strikes' <= retries' + 1
               /\ lease' # "none" \/ ev'[e].pc \in {"relabel", "bump"}
      <4>1. Outstanding'
        BY <3>2 DEF Outstanding
      <4> QED BY <3>2, <4>1
    <3> QED BY <1>8, <3>1, <3>2
  <2> QED BY <2>1, <2>2 DEF Tallied
<1>9. retries' \in Nat /\ strikes' \in Nat
  <2>1. IInv'
    BY EvaluateKeeps
  <2> QED BY <2>1 DEF IInv, TypeOK
<1>10. ASSUME NEW pc \in EvalPcs, Goto(e, pc) PROVE ev'[e].pc = pc
  BY <1>10, GotoType DEF IInv
<1>11. ASSUME Step(e, Idle) PROVE ev'[e].pc = "idle"
  BY <1>11, StepType, StampTypes DEF IInv, Idle
<1>12. CASE ReadLease(e)
  <2>1. /\ ev'[e].pc \in {"idle", "reclaim", "retries"} /\ (ev'[e].pc = "retries" => lease = "none")
        /\ ev[e].pc = "lease"
    BY <1>10, <1>11, <1>12 DEF ReadLease, InPc, EvalPcs
  <2> QED BY <1>2, <1>6, <1>8, <1>9, <1>12, <2>1 DEF ReadLease, InPc, InLock
<1>13. CASE Reclaim(e)
  <2>1. ev'[e].pc = "relabel" /\ ev[e].pc = "reclaim"
    BY <1>10, <1>13 DEF Reclaim, InPc, EvalPcs
  <2> QED BY <1>2, <1>5, <1>6, <1>8, <1>9, <1>13, <2>1 DEF Reclaim, InPc
<1>14. CASE Relabel(e)
  <2>1. ev'[e].pc = "bump" /\ ev[e].pc = "relabel"
    BY <1>10, <1>14 DEF Relabel, InPc, EvalPcs
  <2> QED BY <1>2, <1>6, <1>7, <1>8, <1>9, <1>14, <2>1 DEF Relabel, InPc, InLock, EvalPcs
<1>15. CASE BumpReclaimed(e)
  <2>1. ev'[e].pc = "retries" /\ ev[e].pc = "bump"
    BY <1>10, <1>15 DEF BumpReclaimed, InPc, EvalPcs
  <2>2. uncounted' \/ retries' = 2 \/ strikes' <= retries'
    BY <1>5, <1>6, <1>15, <2>1 DEF BumpReclaimed, Counted, InPc
  <2>3. lease' = "none"
    BY <1>7, <1>15, <2>1 DEF BumpReclaimed, InLock, EvalPcs
  <2> QED BY <1>8, <1>9, <2>1, <2>2, <2>3
<1>16. CASE ReadRetries(e)
  <2>1. ev[e].pc = "retries" /\ lease = "none" /\ UNCHANGED <<lease, retries, strikes, uncounted>>
    BY <1>7, <1>16 DEF ReadRetries, InPc, InLock, EvalPcs
  <2>2. uncounted \/ retries = 2 \/ strikes <= retries
    BY <1>6, <2>1 DEF InPc
  <2>3. \/ ev'[e].pc = "reset"
        \/ retries <= 1 /\ ev'[e].pc \in {"breaker", "waiting"}
    BY <1>5, <1>10, <1>16 DEF ReadRetries, OutOfRetries, EvalPcs
  <2> QED BY <1>5, <1>8, <1>9, <2>1, <2>2, <2>3
<1>17. CASE ResetRetries(e)
  <2>1. ev'[e].pc = "escalate" /\ ev[e].pc = "reset"
    BY <1>10, <1>17 DEF ResetRetries, InPc, EvalPcs
  <2> QED BY <1>7, <1>8, <1>9, <1>17, <2>1 DEF ResetRetries, InPc, InLock, EvalPcs
<1>18. CASE Escalate(e)
  <2>1. ev'[e].pc = "idle"
    BY <1>11, <1>18 DEF Escalate
  <2> QED BY <1>8, <1>9, <1>18, <2>1 DEF Escalate, InLock
<1>19. CASE ReadWaiting(e)
  <2>1. ev[e].pc = "waiting" /\ lease = "none" /\ UNCHANGED <<lease, retries, strikes, uncounted>>
    BY <1>7, <1>19 DEF ReadWaiting, InPc, InLock, EvalPcs
  <2>2. ev'[e].pc \in {"idle", "unpark"}
    BY <1>10, <1>11, <1>19 DEF ReadWaiting, Dispatch, EvalPcs
  <2>3. uncounted \/ retries = 2 \/ strikes <= retries
    BY <1>6, <2>1 DEF InPc
  <2> QED BY <1>7, <1>8, <1>9, <2>1, <2>2, <2>3
<1>20. CASE Unpark(e)
  <2>1. ev[e].pc = "unpark" /\ lease = "none" /\ UNCHANGED <<lease, retries, strikes, uncounted>>
    BY <1>7, <1>20 DEF Unpark, InPc, InLock, EvalPcs
  <2>2. ev'[e].pc = "idle"
    BY <1>11, <1>20 DEF Unpark, Dispatch
  <2>3. uncounted \/ retries = 2 \/ strikes <= retries
    BY <1>6, <2>1 DEF InPc
  <2> QED BY <1>8, <1>9, <2>1, <2>2, <2>3 DEF InLock
<1>21. CASE EvaluationFails(e)
  <2>1. ev'[e].pc = "idle" /\ run' = "idle" /\ UNCHANGED <<lease, retries, strikes>>
    BY <1>2, <1>11, <1>21 DEF EvaluationFails
  <2>2. uncounted' = (uncounted \/ ev[e].pc \in {"relabel", "bump", "escalate"})
    BY <1>21 DEF EvaluationFails, Unrecorded
  <2>3. \/ uncounted' \/ retries = 2 \/ strikes <= retries
        \/ lease # "none" /\ strikes <= retries + 1
    BY <1>6, <2>2 DEF InPc
  <2> QED BY <1>8, <1>9, <2>1, <2>3 DEF InLock
<1> QED BY <1>12, <1>13, <1>14, <1>15, <1>16, <1>17, <1>18, <1>19, <1>20, <1>21 DEF Evaluate

\* Who comes to the lock counts nothing; a process that dies leaves the lease of
\* the run that dies with it.
LEMMA OutsideKeepsTally ==
  ASSUME IInv, Tallied,
         \/ \E e \in Evaluators : Begin(e) \/ TakeLock(e)
         \/ NextSecond \/ WakeTime \/ Expire \/ HumanActs \/ OthersAct \/ Restart
  PROVE  Tallied'
<1> USE DEF board, others, history
<1>1. ASSUME UNCHANGED <<lease, retries, run, strikes, uncounted>>,
             \A d \in Evaluators : ev'[d].pc = ev[d].pc \/ (/\ ev[d].pc \notin InLock
                                                             /\ ev'[d].pc \in {"idle", "locking", "lease"})
      PROVE  Tallied'
  <2>1. \A d \in Evaluators : \A pc \in InLock \ {"lease"} : (ev'[d].pc = pc) <=> (ev[d].pc = pc)
    BY <1>1 DEF InLock, EvalPcs
  <2>2. Outstanding' <=> Outstanding
    BY <1>1, <2>1 DEF Outstanding, InLock, EvalPcs
  <2>3. \A d \in Evaluators : InPc(d, "escalate")' <=> InPc(d, "escalate")
    BY <2>1 DEF InPc, InLock, EvalPcs
  <2>4. \A d \in Evaluators :
          /\ ev'[d].pc \in InLock \ {"lease", "reclaim"} => ev[d].pc \in InLock \ {"lease", "reclaim"}
          /\ ev'[d].pc \in {"breaker", "waiting", "unpark"} => ev[d].pc \in {"breaker", "waiting", "unpark"}
    BY <2>1 DEF InLock, EvalPcs
  <2> QED BY <1>1, <2>2, <2>3, <2>4 DEF Tallied
<1>2. ASSUME NEW e \in Evaluators, Begin(e) \/ TakeLock(e) PROVE Tallied'
  <2>1. \A d \in Evaluators \ {e} : ev'[d] = ev[d]
    BY <1>2 DEF Begin, TakeLock, Step, IInv, TypeOK
  <2>2. ev[e].pc \notin InLock /\ UNCHANGED <<lease, retries, run, strikes, uncounted>>
    BY <1>2 DEF Begin, TakeLock, InPc, InLock
  <2>3. ev'[e].pc \in {"idle", "locking", "lease"}
    <3>1. CASE Begin(e)
      <4> DEFINE rec == IF e \in Sweeps THEN [pc |-> "locking", stamp |-> stamp, frozen |-> frozen]
                        ELSE [Idle EXCEPT !.pc = "locking"]
      <4>1. rec \in EvalRecords /\ rec.pc = "locking"
        BY StampTypes DEF IInv, TypeOK, Idle, EvalRecords, EvalPcs
      <4>2. Step(e, rec)
        BY <3>1 DEF Begin
      <4> HIDE DEF rec
      <4> QED BY <4>1, <4>2, StepType DEF IInv
    <3>2. CASE TakeLock(e)
      <4> DEFINE rec == IF closed \/ IssueFor(e).frozen \/ run # "idle" THEN Idle
                        ELSE [IssueFor(e) EXCEPT !.pc = "lease"]
      <4>1. IssueFor(e) \in EvalRecords
        BY DEF IInv, TypeOK, IssueFor, EvalRecords
      <4>2. rec \in EvalRecords /\ rec.pc \in {"idle", "lease"}
        BY <4>1, StampTypes DEF Idle, EvalRecords, EvalPcs
      <4>3. Step(e, rec)
        BY <3>2 DEF TakeLock
      <4> HIDE DEF rec
      <4> QED BY <4>2, <4>3, StepType DEF IInv
    <3> QED BY <1>2, <3>1, <3>2
  <2> QED BY <1>1, <2>1, <2>2, <2>3
<1>3. CASE NextSecond
  <2>1. \A e \in Evaluators : ev'[e].pc = ev[e].pc
    BY <1>3 DEF NextSecond, IInv, TypeOK, EvalRecords
  <2> QED BY <1>1, <1>3, <2>1 DEF NextSecond
<1>4. CASE WakeTime \/ HumanActs \/ OthersAct
  BY <1>1, <1>4 DEF WakeTime, HumanActs, OthersAct
<1>5. CASE Expire
  <2>1. \A e \in Evaluators : ev[e].pc \notin InLock \ {"lease", "reclaim"}
    BY <1>5 DEF Expire, Tallied
  <2> QED BY <1>5, <2>1 DEF Expire, Tallied, Outstanding, InPc, InLock, EvalPcs
<1>6. CASE Restart
  <2>1. \A e \in Evaluators : ev'[e].pc = "idle"
    BY <1>6 DEF Restart, Idle
  <2>2. retries \in 0 .. 2 /\ strikes \in Nat /\ UNCHANGED <<lease, retries>> /\ run' = "idle"
    BY <1>6 DEF Restart, IInv, TypeOK
  <2>3. uncounted' = (uncounted \/ \E e \in Evaluators : ev[e].pc \in {"relabel", "bump", "escalate"})
    BY <1>6 DEF Restart, Unrecorded
  <2>4. strikes' = IF run # "idle" /\ lease = "held" THEN strikes + 1 ELSE strikes
    BY <1>6 DEF Restart
  <2>5. \/ uncounted' \/ retries = 2
        \/ strikes <= IF run = "idle" /\ lease # "none" THEN retries + 1 ELSE retries
    BY <2>3 DEF Tallied, Outstanding, InPc
  <2>6. \/ uncounted' \/ retries = 2
        \/ strikes' <= IF lease # "none" THEN retries + 1 ELSE retries
    BY <2>2, <2>4, <2>5
  <2>7. Outstanding' <=> lease # "none"
    BY <2>1, <2>2 DEF Outstanding
  <2> QED BY <2>1, <2>2, <2>6, <2>7 DEF Tallied, InLock
<1> QED BY <1>2, <1>3, <1>4, <1>5, <1>6

\* After two failed runs none starts before sentinel has called a human, for any
\* sweeps, flushes and failures - unless one of them kept a failed run from being
\* counted, or the call from being made (_evaluate_ticket, _bump_retries).
THEOREM HumanAfterTwoFailures == Spec => OneRetryThenAHuman
<1>1. Init => Tallied
  BY DEF Init, Tallied, Outstanding, Idle, InLock
<1>2. IInv /\ Tallied /\ [Next]_vars => Tallied'
  <2> SUFFICES ASSUME IInv, Tallied, [Next]_vars PROVE Tallied'
    OBVIOUS
  <2>1. CASE UNCHANGED vars
    BY <2>1 DEF vars, board, others, history, Tallied, Outstanding, InPc
  <2>2. CASE Next
    BY <2>2, RunKeepsTally, EvaluateKeepsTally, OutsideKeepsTally DEF Next
  <2> QED BY <2>1, <2>2
<1>3. IInv /\ Tallied /\ [Next]_vars
        => [run = "idle" /\ run' = "claim" => strikes <= 1 \/ uncounted]_vars
  <2> SUFFICES ASSUME IInv, Tallied, Next, run = "idle", run' = "claim"
               PROVE  strikes <= 1 \/ uncounted
    OBVIOUS
  <2>1. PICK e \in Evaluators : ReadWaiting(e) \/ Unpark(e)
    BY DEF Next, Proceed, Claim, ReadTicket, Park, Unlease, Unlabel, Crash, ReleaseFails, HasReleased,
           Begin, TakeLock, Evaluate, ReadLease, Reclaim, Relabel, BumpReclaimed, ReadRetries,
           ResetRetries, Escalate, EvaluationFails, NextSecond, WakeTime, Expire, HumanActs,
           OthersAct, Restart
  <2>2. ev[e].pc \in {"waiting", "unpark"}
    BY <2>1 DEF ReadWaiting, Unpark, InPc
  <2> QED BY <2>2 DEF Tallied
<1> QED BY <1>1, <1>2, <1>3, EvaluationAlone, PTL DEF Spec, OneRetryThenAHuman
=============================================================================
