SPECIFICATION Spec
CONSTANTS
  t1 = t1
  t2 = t2
  NoTicket = NoTicket
  NoRole = NoRole
  NoStatus = NoStatus
  Nobody = Nobody
  Tickets = {t1}
  Statuses <- ReworkStages
  TicketRoles = {"08", "13"}
  QueueRoles = {}
  Router = "13"
  Watches <- ReworkWatches
  Required <- ReworkRequired
  Condition <- NoFunction
  Anchor <- OnlyStatus
  Limited = {}
  WipLimit <- NoFunction
  InProgress = "In Progress"
  ReworkLimit = 1
  Workflow <- ReworkWorkflow
  InitialStatuses = {"Tech Review"}
  HumanStatuses = {}
  HumanLabels = {"needs-human"}
  MaxRetries = 4
  MaxRework = 2
  Instances = {1, 2}
  JiraFails = {}
  HeartbeatsFail = FALSE
  BeatsOverlap = FALSE
  Sweeps = {"sweep"}
  Flushes = {}
  OperatorPauses = FALSE
  PayloadsMiss = TRUE
  Exits = {"stop"}
  MaxRestarts = 1
INVARIANTS
  ExclusiveHold
  RetriesBounded
PROPERTIES
  RouterWithinReworkLimit
  CleanStop
