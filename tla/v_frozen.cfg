SPECIFICATION Spec
CONSTANTS
  t1 = t1
  t2 = t2
  NoTicket = NoTicket
  NoRole = NoRole
  NoStatus = NoStatus
  Nobody = Nobody
  Tickets = {t1}
  Statuses <- StageStatuses
  TicketRoles = {"07"}
  QueueRoles = {}
  Router = "13"
  Watches <- StageWatches
  Required <- StageRequired
  Condition <- NoFunction
  Anchor <- OnlyStatus
  Limited = {}
  WipLimit <- NoFunction
  InProgress = "In Progress"
  ReworkLimit = 1
  Workflow <- StageWorkflow
  InitialStatuses = {"In Progress"}
  HumanStatuses = {}
  HumanLabels = {}
  MaxRetries = 4
  MaxRework = 2
  Instances = {1, 2}
  JiraFails = {}
  HeartbeatsFail = FALSE
  BeatsOverlap = FALSE
  Sweeps = {"sweep"}
  Flushes = {"flush"}
  OperatorPauses = FALSE
  PayloadsMiss = FALSE
  Exits = {}
  MaxRestarts = 0
PROPERTIES
  NoDispatchOnFrozen
