--------------------------- MODULE MCOrchestrator ---------------------------
(***************************************************************************)
(* Instances of Orchestrator for TLC.  Each cfg picks one of the small     *)
(* pipelines defined here; all are cut out of config/pipeline.yml.         *)
(***************************************************************************)
EXTENDS Orchestrator, TLC

CONSTANTS t1, t2

\* One stage, whose agents never hand off.
StageStatuses == {"In Progress"}
StageWatches == "07" :> {"In Progress"}
StageRequired == "07" :> {}
StageWorkflow == "In Progress" :> {}

\* Two stages: the implementer, the reviewer, and back.
ReviewStatuses == {"In Progress", "Tech Review"}
ReviewWatches == ("07" :> {"In Progress"}) @@ ("08" :> {"Tech Review"})
ReviewRequired == [r \in {"07", "08"} |-> {}]
ReviewWorkflow == ("In Progress" :> {"Tech Review"}) @@ ("Tech Review" :> {"In Progress"})

\* The planner's queue in front of the implementer's status, whose role is kept
\* out of the instance by a label nobody sets.
QueueStatuses == {"To Do", "In Progress"}
QueueWatches == ("06" :> {"To Do"}) @@ ("07" :> {"In Progress"})
QueueRequired == "07" :> {"activate"}
QueueCapacity == "06" :> "capacity"
QueueWorkflow == ("To Do" :> {"In Progress"}) @@ ("In Progress" :> {})

\* Release and deployment queues alone.
BatchStatuses == {"Client Review Accepted", "Internal Review Accepted"}
BatchWatches ==
  ("09" :> {"Internal Review Accepted"}) @@ ("12" :> {"Client Review Accepted"})
BatchCondition == ("09" :> "interval") @@ ("12" :> "window")
BatchWorkflow ==
  ("Internal Review Accepted" :> {"Client Review Accepted"})
  @@ ("Client Review Accepted" :> {})

\* Review, rework and back.
ReworkStages == {"Tech Review", "Rework"}
ReworkWatches == ("08" :> {"Tech Review"}) @@ ("13" :> {"Rework"})
ReworkRequired == ("08" :> {}) @@ ("13" :> {})
ReworkWorkflow == ("Tech Review" :> {"Rework"}) @@ ("Rework" :> {"Tech Review"})

\* Intake, where humans move tickets back to; its activate label is taken as set.
IntakeStatuses == {"New", "Business Requirements"}
IntakeWatches == "02" :> {"New"}
IntakeRequired == "02" :> {}
IntakeWorkflow == ("New" :> {"Business Requirements"}) @@ ("Business Requirements" :> {})

\* Every role of these pipelines watches one status.
OnlyStatus == [r \in Roles |-> CHOOSE s \in Watches[r] : TRUE]

NoFunction == [x \in {} |-> x]
LimitOne == "In Progress" :> 1

Symmetry == Permutations({t1, t2})
=============================================================================
