--------------------------- MODULE Breakers_proofs --------------------------
(***************************************************************************)
(* Theorems about Breakers, for every budget, threshold, set of sweeps,    *)
(* agents and keys: its inductive invariant, that no key of a webhook is   *)
(* stranded, and who may lift a pause.                                     *)
(***************************************************************************)
EXTENDS Breakers, TLAPS

\* A counter that stops at its limit stays within it.
LEMMA UpToType ==
  ASSUME NEW limit \in Nat, NEW n \in 0 .. limit
  PROVE  UpTo(n, limit) \in 0 .. limit
BY DEF UpTo

\* Neither outcome of a call takes a counter out of its range.
LEMMA ChatTypes ==
  ASSUME TypeOK, ChatWorks \/ ChatFails
  PROVE  /\ failures' \in 0 .. DegradedAfter /\ old' \in BOOLEAN
         /\ tokens' \in 0 .. Budget /\ spent' \in 0 .. Budget
<1>1. 0 \in 0 .. DegradedAfter /\ Window \in 0 .. Budget
  BY BreakersAssumption DEF TypeOK, Window
<1>2. UpTo(Window, Budget) \in 0 .. Budget /\ UpTo(spent, Budget) \in 0 .. Budget
      /\ UpTo(failures, DegradedAfter) \in 0 .. DegradedAfter
  BY <1>1, UpToType, BreakersAssumption DEF TypeOK
<1>3. CASE ChatWorks
  BY <1>1, <1>2, <1>3 DEF ChatWorks, TypeOK
<1>4. CASE ChatFails
  BY <1>2, <1>4 DEF ChatFails, TypeOK
<1> QED BY <1>3, <1>4

\* The part of IInv about the next state that types, the flag and the keys
\* make: the flag agrees with its file unless the disk failed, and the flush task goes idle only when it
\* leaves no key behind.
Keeps ==
  /\ TypeOK'
  /\ FlagOnDisk'
  /\ pending' # {} => pass'[Flush] # "idle"

\* Moving a pass to another point keeps the table of passes well typed.
LEMMA GotoType ==
  ASSUME TypeOK, NEW e \in Passes, NEW pc \in PassPcs, Goto(e, pc)
  PROVE  /\ pass' \in [Passes -> PassPcs]
         /\ pass'[e] = pc
         /\ \A d \in Passes \ {e} : pass'[d] = pass[d]
BY DEF TypeOK, Goto

\* The start of a pass: the budget may pause, and the gate may move.
LEMMA StartKeeps ==
  ASSUME IInv, NEW e \in Passes, StartPass(e)
  PROVE  /\ paused' \in BOOLEAN /\ file' \in Files /\ unsaved' \in BOOLEAN /\ gated' \in BOOLEAN
         /\ failures' \in 0 .. DegradedAfter /\ old' \in BOOLEAN /\ up' \in BOOLEAN
         /\ tokens' \in 0 .. Budget /\ spent' \in 0 .. Budget
         /\ calling' \subseteq Agents /\ restarts' \in Nat /\ over' \subseteq Passes
         /\ FlagOnDisk' /\ (paused => paused')
         /\ pass' \in [Passes -> PassPcs] /\ pass'[e] # "idle"
         /\ \A d \in Passes \ {e} : pass'[d] = pass[d]
<1>1. Window \in 0 .. Budget
  BY BreakersAssumption DEF IInv, TypeOK, Window
<1>2. \E pc \in {"pausing", "alert", "probe", "lifted", "board"} : Goto(e, pc)
  BY DEF StartPass, CheckGate
<1>3. /\ pass' \in [Passes -> PassPcs] /\ pass'[e] # "idle"
      /\ \A d \in Passes \ {e} : pass'[d] = pass[d]
  BY <1>2, GotoType DEF IInv, PassPcs
<1>4. gated' \in BOOLEAN
  BY DEF StartPass, CheckGate, IInv, TypeOK
<1>5. /\ paused' \in BOOLEAN /\ file' \in Files /\ unsaved' \in BOOLEAN
      /\ FlagOnDisk' /\ (paused => paused')
  BY DEF StartPass, SetPause, IInv, TypeOK, FlagOnDisk, Files
<1>6. tokens' \in 0 .. Budget /\ old' \in BOOLEAN
  BY <1>1 DEF StartPass, IInv, TypeOK
<1>7. over' \subseteq Passes
  BY DEF StartPass, IInv, TypeOK
<1> QED BY <1>3, <1>4, <1>5, <1>6, <1>7 DEF StartPass, IInv, TypeOK

\* The steps of a pass after its start.
LEMMA PassKeeps ==
  ASSUME IInv, NEW e \in Passes, PassStep(e)
  PROVE  Keeps /\ (paused => paused')
<1>1. TypeOK /\ FlagOnDisk /\ (pending # {} => pass[Flush] # "idle") /\ Flush \in Passes
  BY DEF IInv, NoKeyStranded, InPass, Passes
<1>2. CASE BeginSweep(e)
  <2>1. e # Flush
    BY <1>2, BreakersAssumption DEF BeginSweep
  <2> QED BY <1>1, <1>2, <2>1, StartKeeps DEF BeginSweep, Keeps, TypeOK
<1>3. CASE Paused(e)
  <2>1. \E pc \in {"alert", "probe", "lifted", "board"} : Goto(e, pc)
    BY <1>3 DEF Paused, CheckGate
  <2>2. pass' \in [Passes -> PassPcs] /\ pass'[e] # "idle" /\ \A d \in Passes \ {e} : pass'[d] = pass[d]
    BY <1>1, <2>1, GotoType DEF PassPcs
  <2>3. gated' \in BOOLEAN
    BY <1>3 DEF Paused, CheckGate
  <2> QED BY <1>1, <1>3, <2>2, <2>3 DEF Paused, Keeps, TypeOK, FlagOnDisk
<1>4. CASE Probe(e)
  <2>1. \E pc \in {"lifted", "board"} : Goto(e, pc)
    BY <1>4 DEF Probe
  <2>2. pass' \in [Passes -> PassPcs] /\ pass'[e] # "idle" /\ \A d \in Passes \ {e} : pass'[d] = pass[d]
    BY <1>1, <2>1, GotoType DEF PassPcs
  <2>3. gated' \in BOOLEAN
    BY <1>1, <1>4 DEF Probe, TypeOK
  <2> QED BY <1>1, <1>4, <2>2, <2>3, ChatTypes DEF Probe, Keeps, TypeOK, FlagOnDisk
<1>5. CASE Alerted(e) \/ Lifted(e) \/ CheckFlags(e)
  <2>1. \E pc \in {"probe", "board", "ticket"} : Goto(e, pc)
    BY <1>5 DEF Alerted, Lifted, CheckFlags
  <2>2. pass' \in [Passes -> PassPcs] /\ pass'[e] # "idle" /\ \A d \in Passes \ {e} : pass'[d] = pass[d]
    BY <1>1, <2>1, GotoType DEF PassPcs
  <2> QED BY <1>1, <1>5, <2>2 DEF Alerted, Lifted, CheckFlags, Keeps, TypeOK, FlagOnDisk
<1>6. CASE Dispatch(e)
  <2>1. pass' \in [Passes -> PassPcs] /\ pass'[e] # "idle" /\ \A d \in Passes \ {e} : pass'[d] = pass[d]
    BY <1>1, <1>6, GotoType DEF Dispatch, PassPcs
  <2>2. calling' \subseteq Agents
    BY <1>1, <1>6 DEF Dispatch, TypeOK
  <2> QED BY <1>1, <1>6, <2>1, <2>2 DEF Dispatch, Keeps, TypeOK, FlagOnDisk
<1>7. CASE EndPass(e)
  <2>1. AfterPass(e) \in PassPcs /\ (e = Flush /\ pending # {} => AfterPass(e) # "idle")
    BY DEF AfterPass, PassPcs
  <2>2. pass' \in [Passes -> PassPcs] /\ pass'[e] = AfterPass(e)
        /\ \A d \in Passes \ {e} : pass'[d] = pass[d]
    BY <1>1, <1>7, <2>1, GotoType DEF EndPass
  <2> QED BY <1>1, <1>7, <2>1, <2>2 DEF EndPass, Keeps, TypeOK, FlagOnDisk
<1> QED BY <1>2, <1>3, <1>4, <1>5, <1>6, <1>7 DEF PassStep

\* Webhooks, and the flush task that takes their keys.
LEMMA FlushKeeps ==
  ASSUME IInv, HandleWebhook \/ TakePending
  PROVE  Keeps /\ (paused => paused')
<1>1. TypeOK /\ FlagOnDisk /\ (pending # {} => pass[Flush] # "idle") /\ Flush \in Passes
  BY DEF IInv, NoKeyStranded, InPass, Passes
<1>2. CASE HandleWebhook
  <2>1. pass' \in [Passes -> PassPcs] /\ pass'[Flush] # "idle"
    BY <1>1, <1>2, GotoType DEF HandleWebhook, InPass, PassPcs, TypeOK
  <2> QED BY <1>1, <1>2, <2>1 DEF HandleWebhook, Keeps, TypeOK, FlagOnDisk
<1>3. CASE TakePending /\ pending = {}
  <2>1. pass' \in [Passes -> PassPcs]
    BY <1>1, <1>3, GotoType DEF TakePending, PassPcs
  <2> QED BY <1>1, <1>3, <2>1 DEF TakePending, Keeps, TypeOK, FlagOnDisk
<1>4. CASE TakePending /\ pending # {}
  BY <1>1, <1>4, StartKeeps DEF TakePending, Keeps, TypeOK
<1> QED BY <1>2, <1>3, <1>4

\* The steps that may lift a pause: a resume, or a restart whose pause the disk
\* has lost.
LiftsPause == Resume \/ (Restart /\ unsaved) \/ KilledPausing

\* Operators, agents, the backend, the calendar and the process.
LEMMA OutsideKeeps ==
  ASSUME IInv,
         \/ OperatorPause \/ Resume \/ BackendChanges \/ Midnight \/ Restart \/ KilledPausing
         \/ \E a \in Agents : AgentCall(a)
  PROVE  Keeps /\ (paused => paused' \/ LiftsPause)
<1>1. TypeOK /\ FlagOnDisk /\ (pending # {} => pass[Flush] # "idle") /\ Flush \in Passes
  BY DEF IInv, NoKeyStranded, InPass, Passes
<1>2. CASE OperatorPause
  BY <1>1, <1>2 DEF OperatorPause, SetPause, Keeps, TypeOK, FlagOnDisk, Files
<1>3. CASE Resume
  BY <1>1, <1>3 DEF Resume, Keeps, TypeOK, FlagOnDisk, Files, LiftsPause
<1>4. CASE BackendChanges
  BY <1>1, <1>4 DEF BackendChanges, Keeps, TypeOK, FlagOnDisk
<1>5. CASE Midnight
  BY <1>1, <1>5, BreakersAssumption DEF Midnight, Keeps, TypeOK, FlagOnDisk
<1>6. ASSUME NEW f \in Files, Reborn(f)
      PROVE  Keeps /\ (paused' <=> f = "paused")
  <2>1. pass' \in [Passes -> PassPcs] /\ pending' = {} /\ calling' = {} /\ over' = {}
    BY <1>6 DEF Reborn, PassPcs
  <2>2. failures' \in 0 .. DegradedAfter /\ tokens' \in 0 .. Budget /\ spent' \in 0 .. Budget
        /\ restarts' \in Nat
    BY <1>1, <1>6, BreakersAssumption DEF Reborn, TypeOK
  <2>3. /\ paused' = (f = "paused") /\ file' = f /\ unsaved' = FALSE
        /\ gated' = FALSE /\ old' = FALSE /\ up' = up
    BY <1>6, Zenon DEF Reborn, LoadPauseState
  <2> QED BY <1>1, <1>6, <2>1, <2>2, <2>3 DEF Keeps, TypeOK, FlagOnDisk
<1>8. CASE Restart
  <2>1. file \in Files /\ Keeps /\ (paused' <=> file = "paused")
    BY <1>1, <1>6, <1>8 DEF Restart, TypeOK
  <2> QED BY <1>1, <1>8, <2>1 DEF FlagOnDisk, LiftsPause
<1>9. CASE KilledPausing
  BY <1>6, <1>9 DEF KilledPausing, Files, LiftsPause
<1>7. CASE \E a \in Agents : AgentCall(a)
  <2>1. PICK a \in Agents : AgentCall(a)
    BY <1>7
  <2>2. calling' \subseteq Agents
    BY <1>1, <2>1 DEF AgentCall, TypeOK
  <2>3. ChatWorks \/ ChatFails
    BY <2>1 DEF AgentCall
  <2>4. UNCHANGED <<paused, file, unsaved, gated, up, pending, pass, restarts, over>>
    BY <2>1 DEF AgentCall
  <2> QED BY <1>1, <2>2, <2>3, <2>4, ChatTypes DEF Keeps, TypeOK, FlagOnDisk
<1> QED BY <1>2, <1>3, <1>4, <1>5, <1>7, <1>8, <1>9

\* Types, flag and keys stay as they should, and who lifts a pause.
LEMMA StepKeeps ==
  ASSUME IInv, [Next]_vars
  PROVE  /\ (TypeOK /\ FlagOnDisk /\ NoKeyStranded)'
         /\ paused => paused' \/ LiftsPause
<1>1. CASE \E e \in Passes : PassStep(e)
  BY <1>1, PassKeeps DEF Keeps, IInv, FlagOnDisk, NoKeyStranded, InPass
<1>2. CASE HandleWebhook \/ TakePending
  BY <1>2, FlushKeeps DEF Keeps, IInv, FlagOnDisk, NoKeyStranded, InPass
<1>3. CASE \/ OperatorPause \/ Resume \/ BackendChanges \/ Midnight \/ Restart \/ KilledPausing
           \/ \E a \in Agents : AgentCall(a)
  BY <1>3, OutsideKeeps DEF Keeps, IInv, FlagOnDisk, NoKeyStranded, InPass
<1>4. CASE UNCHANGED vars
  BY <1>4 DEF vars, IInv, TypeOK, FlagOnDisk, NoKeyStranded, InPass
<1> QED BY <1>1, <1>2, <1>3, <1>4 DEF Next

\* The window is rolled by calls and by the budget check, to the same total.
LEMMA WindowKeeps ==
  ASSUME IInv, [Next]_vars
  PROVE  WindowHonest'
<1>1. Window = spent /\ TypeOK
  BY DEF IInv, WindowHonest
<1>2. CASE UNCHANGED <<tokens, old, spent>>
  BY <1>1, <1>2 DEF WindowHonest, Window
<1>3. CASE ChatWorks
  BY <1>1, <1>3 DEF ChatWorks, WindowHonest, Window
<1>4. CASE ChatFails
  BY <1>1, <1>4 DEF ChatFails, WindowHonest, Window
<1>5. CASE \E e \in Passes : StartPass(e)
  BY <1>1, <1>5 DEF StartPass, WindowHonest, Window
<1>6. CASE Midnight
  BY <1>6 DEF Midnight, WindowHonest, Window
<1>7. CASE Restart \/ KilledPausing
  BY <1>7 DEF Restart, KilledPausing, Reborn, WindowHonest, Window
<1>8. CASE \E e \in Passes : PassStep(e)
  <2>1. PICK e \in Passes : PassStep(e)
    BY <1>8
  <2>2. CASE BeginSweep(e)
    BY <1>5, <2>2 DEF BeginSweep
  <2>3. CASE Probe(e)
    BY <1>3, <1>4, <2>3 DEF Probe
  <2> QED BY <1>2, <2>1, <2>2, <2>3
          DEF PassStep, Paused, Alerted, Lifted, CheckFlags, Dispatch, EndPass
<1>9. CASE TakePending
  <2>1. StartPass(Flush) \/ UNCHANGED <<tokens, old, spent>>
    BY <1>9 DEF TakePending
  <2> QED BY <1>2, <1>5, <2>1 DEF Passes
<1>10. CASE HandleWebhook \/ OperatorPause \/ Resume \/ BackendChanges \/ UNCHANGED vars
  BY <1>2, <1>10 DEF HandleWebhook, OperatorPause, Resume, BackendChanges, vars
<1>11. CASE \E a \in Agents : AgentCall(a)
  BY <1>3, <1>4, <1>11 DEF AgentCall
<1> QED BY <1>6, <1>7, <1>8, <1>9, <1>10, <1>11 DEF Next

\* A pass over budget finds the pipeline paused at its start or pauses it, and
\* the check of the flags stops it as long as nobody resumes.
LEMMA OverKeeps ==
  ASSUME IInv, [Next]_vars
  PROVE  OverBudget'
<1>1. TypeOK /\ Window = spent /\ (over # {} => paused) /\ \A e \in over : pass[e] # "ticket"
  BY DEF IInv, WindowHonest, OverBudget, InPass
<1>2. paused => paused' \/ LiftsPause
  BY StepKeeps
<1>3. CASE over' = {}
  BY <1>3 DEF OverBudget
<1>4. CASE over' = over /\ (paused => paused') /\ \A e \in over : pass'[e] # "ticket"
  BY <1>1, <1>4 DEF OverBudget, InPass
<1>5. CASE over' = over /\ pass' = pass /\ (paused => paused')
  BY <1>1, <1>4, <1>5
<1>6. ASSUME NEW e \in Passes, StartPass(e)
      PROVE  OverBudget'
  <2>1. /\ paused => paused' /\ \A d \in Passes \ {e} : pass'[d] = pass[d]
    BY <1>6, StartKeeps
  <2>2. \E pc \in {"pausing", "alert", "probe", "lifted", "board"} : Goto(e, pc)
    BY <1>6 DEF StartPass, CheckGate
  <2>3. pass'[e] # "ticket"
    BY <1>1, <2>2, GotoType DEF PassPcs
  <2>4. over \subseteq Passes /\ over' \subseteq over \cup {e}
    BY <1>1, <1>6 DEF StartPass, TypeOK
  <2>5. e \in over' => paused'
    <3>1. SUFFICES ASSUME e \in over' PROVE paused'
      OBVIOUS
    <3>2. Budget > 0 /\ spent >= Budget
      BY <1>6, <3>1 DEF StartPass
    <3>3. CASE paused
      BY <2>1, <3>3
    <3>4. CASE ~paused
      BY <1>1, <1>6, <3>2, <3>4 DEF StartPass, BudgetBlown, SetPause
    <3> QED BY <3>3, <3>4
  <2>6. over' # {} => paused'
    BY <1>1, <2>1, <2>4, <2>5
  <2>7. \A d \in over' : pass'[d] # "ticket"
    BY <1>1, <2>1, <2>3, <2>4
  <2> QED BY <2>6, <2>7 DEF OverBudget, InPass
<1>7. CASE \E e \in Passes : PassStep(e)
  <2>1. PICK e \in Passes : PassStep(e)
    BY <1>7
  <2>2. CASE BeginSweep(e)
    BY <1>6, <2>2 DEF BeginSweep
  <2>3. CASE CheckFlags(e)
    <3>1. over = {}
      BY <1>1, <2>3 DEF CheckFlags, Closed
    <3> QED BY <1>3, <2>3, <3>1 DEF CheckFlags
  <2>4. CASE Paused(e) \/ Alerted(e) \/ Probe(e) \/ Lifted(e) \/ Dispatch(e) \/ EndPass(e)
    <3>1. \E pc \in PassPcs \ {"ticket"} : Goto(e, pc)
      BY <2>4 DEF Paused, CheckGate, Alerted, Probe, Lifted, Dispatch, EndPass, AfterPass, PassPcs
    <3>2. pass'[e] # "ticket" /\ \A d \in Passes \ {e} : pass'[d] = pass[d]
      BY <1>1, <3>1, GotoType
    <3>3. over' = over /\ paused' = paused
      BY <2>4 DEF Paused, Alerted, Probe, Lifted, Dispatch, EndPass
    <3>4. \A d \in over : pass'[d] # "ticket"
      BY <1>1, <3>2 DEF TypeOK
    <3> QED BY <1>4, <3>3, <3>4
  <2> QED BY <2>1, <2>2, <2>3, <2>4 DEF PassStep
<1>8. CASE TakePending
  <2>1. CASE pending = {}
    <3>1. Goto(Flush, "idle") /\ over' = over /\ paused' = paused
      BY <1>8, <2>1 DEF TakePending
    <3>2. pass'[Flush] # "ticket" /\ \A d \in Passes \ {Flush} : pass'[d] = pass[d]
      BY <1>1, <3>1, GotoType DEF Passes, PassPcs
    <3> QED BY <1>1, <1>4, <3>1, <3>2 DEF TypeOK
  <2>2. CASE pending # {}
    BY <1>6, <1>8, <2>2 DEF TakePending, Passes
  <2> QED BY <2>1, <2>2
<1>9. CASE HandleWebhook
  <2>1. over' = over /\ paused' = paused
    BY <1>9 DEF HandleWebhook
  <2>2. \A d \in Passes : pass'[d] = pass[d] \/ pass'[d] = "debounce"
    BY <1>1, <1>9, GotoType DEF HandleWebhook, Passes, PassPcs
  <2> QED BY <1>1, <1>4, <2>1, <2>2 DEF TypeOK
<1>10. CASE OperatorPause \/ BackendChanges \/ UNCHANGED vars \/ \E a \in Agents : AgentCall(a)
  BY <1>1, <1>5, <1>10 DEF OperatorPause, SetPause, BackendChanges, vars, AgentCall
<1>11. CASE Resume \/ Midnight \/ Restart \/ KilledPausing
  BY <1>3, <1>11 DEF Resume, Midnight, Restart, KilledPausing, Reborn
<1> QED BY <1>7, <1>8, <1>9, <1>10, <1>11 DEF Next

\* A fresh service with an open gate and no pause satisfies the invariant.
LEMMA InitInv == Init => IInv
<1>1. SUFFICES ASSUME Init PROVE IInv
  OBVIOUS
<1>2. pass \in [Passes -> PassPcs]
  BY <1>1 DEF Init, PassPcs
<1>3. failures \in 0 .. DegradedAfter /\ tokens \in 0 .. Budget /\ spent \in 0 .. Budget
      /\ restarts \in Nat
  BY <1>1, BreakersAssumption DEF Init
<1>4. /\ paused = FALSE /\ file = "none" /\ unsaved = FALSE
      /\ gated = FALSE /\ old = FALSE /\ up \in BOOLEAN
  BY <1>1, Zenon DEF Init
<1>5. pending = {} /\ calling = {} /\ over = {}
  BY <1>1 DEF Init
<1>6. WindowHonest /\ OverBudget
  BY <1>1, <1>5 DEF Init, WindowHonest, Window, OverBudget
<1> QED BY <1>2, <1>3, <1>4, <1>5, <1>6 DEF IInv, TypeOK, FlagOnDisk, Files, NoKeyStranded

\* In every reachable state the flag and its file agree unless the last write or
\* removal of the file failed (pause, resume, _load_pause_state), no key is without its
\* task, the window is today's, and passes over budget are held back.
THEOREM InductiveInvariant == Spec => []IInv
<1>1. Init => IInv
  BY InitInv
<1>2. IInv /\ [Next]_vars => IInv'
  BY StepKeeps, WindowKeeps, OverKeeps DEF IInv
<1> QED BY <1>1, <1>2, PTL DEF Spec

\* A key noted by handle_webhook always has a flush task that will take it.
THEOREM KeysServed == Spec => []NoKeyStranded
<1>1. IInv => NoKeyStranded
  BY DEF IInv
<1> QED BY <1>1, InductiveInvariant, PTL

\* Only /resume lifts a pause: no pass and no midnight does, and a restart only
\* if the write of pause.json failed or the kill cut it short (_load_pause_state).
THEOREM PauseLiftedByResume == Spec => PauseSticks
<1>1. IInv /\ [Next]_vars
        => [paused /\ ~paused' => Resume \/ (Restart /\ unsaved) \/ KilledPausing]_vars
  BY StepKeeps DEF LiftsPause
<1> QED BY <1>1, InductiveInvariant, PTL DEF Spec, PauseSticks

\* The budget pauses the pipeline only for what was used today.
THEOREM BudgetPausesForToday == Spec => BudgetPauseIsDue
<1>1. ASSUME IInv, NEW e \in Passes, StartPass(e), ~paused, paused'
      PROVE  spent >= Budget
  BY <1>1 DEF StartPass, BudgetBlown, IInv, WindowHonest
<1>2. IInv /\ [Next]_vars
        => [\A e \in Passes : StartPass(e) /\ ~paused /\ paused' => spent >= Budget]_vars
  BY <1>1
<1> QED BY <1>2, InductiveInvariant, PTL DEF Spec, BudgetPauseIsDue

\* A pass that began with the budget spent dispatches nobody.
THEOREM NoDispatchOverBudget == Spec => BudgetStopsDispatch
<1>1. IInv /\ [Next]_vars => [\A e \in over : Dispatch(e) => calling' = calling]_vars
  BY DEF IInv, OverBudget, Dispatch
<1> QED BY <1>1, InductiveInvariant, PTL DEF Spec, BudgetStopsDispatch
=============================================================================
