SPECIFICATION Spec
CONSTANTS
  t1 = t1
  t2 = t2
  NoTicket = NoTicket
  NoRole = NoRole
  NoStatus = NoStatus
  Nobody = Nobody
  Tickets = {t1, t2}
  Statuses <- StageStatuses
  TicketRoles = {"07"}
  QueueRoles = {}
  Router = "13"
  Watches <- StageWatches
  Required <- StageRequired
  Condition <- NoFunction
  Anchor <- OnlyStatus
  Limited = {"In Progress"}
  WipLimit <- LimitOne
  InProgress = "In Progress"
  ReworkLimit = 1
  Workflow <- StageWorkflow
  InitialStatuses = {"In Progress"}
  HumanStatuses = {}
  HumanLabels = {}
  MaxRetries = 4
  MaxRework = 2
  Instances = {1, 2}
  JiraFails = {"pass", "run"}
  HeartbeatsFail = FALSE
  BeatsOverlap = FALSE
  Sweeps = {"sweep"}
  Flushes = {"flush"}
  OperatorPauses = FALSE
  PayloadsMiss = FALSE
  Exits = {"kill"}
  MaxRestarts = 1
INVARIANTS
  TypeOK
  IInv
  WipRespected
PROPERTIES
  AdmissionSpec
  StartsWithinCount
