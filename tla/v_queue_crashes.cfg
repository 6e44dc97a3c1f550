SPECIFICATION FairSpec
CONSTANTS
  t1 = t1
  t2 = t2
  NoTicket = NoTicket
  NoRole = NoRole
  NoStatus = NoStatus
  Nobody = Nobody
  Tickets = {t1}
  Statuses <- BatchStatuses
  TicketRoles = {}
  QueueRoles = {"09", "12"}
  Router = "13"
  Watches <- BatchWatches
  Required <- NoFunction
  Condition <- BatchCondition
  Anchor <- OnlyStatus
  Limited = {}
  WipLimit <- NoFunction
  InProgress = "In Progress"
  ReworkLimit = 1
  Workflow <- BatchWorkflow
  InitialStatuses = {"Internal Review Accepted"}
  HumanStatuses = {}
  HumanLabels = {}
  MaxRetries = 4
  MaxRework = 2
  Instances = {1, 2}
  JiraFails = {}
  HeartbeatsFail = FALSE
  BeatsOverlap = FALSE
  Sweeps = {"sweep"}
  Flushes = {}
  OperatorPauses = FALSE
  PayloadsMiss = FALSE
  Exits = {}
  MaxRestarts = 0
PROPERTIES
  CrashLoopEscalates
