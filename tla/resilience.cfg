SPECIFICATION FairSpec
CONSTANTS
  t1 = t1
  t2 = t2
  NoTicket = NoTicket
  NoRole = NoRole
  NoStatus = NoStatus
  Nobody = Nobody
  Tickets = {t1}
  Statuses <- IntakeStatuses
  TicketRoles = {"02"}
  QueueRoles = {}
  Router = "13"
  Watches <- IntakeWatches
  Required <- IntakeRequired
  Condition <- NoFunction
  Anchor <- OnlyStatus
  Limited = {}
  WipLimit <- NoFunction
  InProgress = "In Progress"
  ReworkLimit = 1
  Workflow <- IntakeWorkflow
  InitialStatuses = {"New"}
  HumanStatuses = {"New"}
  HumanLabels = {"needs-human"}
  MaxRetries = 4
  MaxRework = 2
  Instances = {1, 2}
  JiraFails = {}
  HeartbeatsFail = TRUE
  BeatsOverlap = TRUE
  Sweeps = {"sweep"}
  Flushes = {"flush"}
  OperatorPauses = TRUE
  PayloadsMiss = FALSE
  Exits = {"kill"}
  MaxRestarts = 1
PROPERTIES
  StartsWithinCount
  NothingStuck
  StaleLeaseReclaimed
  CrashLoopEscalates
  PauseDrains
