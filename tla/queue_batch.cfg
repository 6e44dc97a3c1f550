SPECIFICATION Spec
CONSTANTS
  t1 = t1
  t2 = t2
  NoTicket = NoTicket
  NoRole = NoRole
  NoStatus = NoStatus
  Nobody = Nobody
  Tickets = {t1, t2}
  Statuses <- QueueStatuses
  TicketRoles = {"07"}
  QueueRoles = {"06"}
  Router = "13"
  Watches <- QueueWatches
  Required <- QueueRequired
  Condition <- QueueCapacity
  Anchor <- OnlyStatus
  Limited = {"In Progress"}
  WipLimit <- LimitOne
  InProgress = "In Progress"
  ReworkLimit = 1
  Workflow <- QueueWorkflow
  InitialStatuses = {"To Do"}
  HumanStatuses = {}
  HumanLabels = {}
  MaxRetries = 4
  MaxRework = 2
  Instances = {1, 2}
  JiraFails = {"pass"}
  HeartbeatsFail = FALSE
  BeatsOverlap = FALSE
  Sweeps = {"sweep"}
  Flushes = {"flush"}
  OperatorPauses = FALSE
  PayloadsMiss = FALSE
  Exits = {}
  MaxRestarts = 0
INVARIANTS
  SingleRun
  LeaseHasHolder
SYMMETRY Symmetry
