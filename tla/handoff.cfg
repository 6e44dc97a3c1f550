SPECIFICATION Spec
CONSTANTS
  Statuses <- LoopStatuses
  Workflow <- LoopWorkflow
  ReworkStatus = "Rework"
  Start = "Tech Review"
  NoStatus = NoStatus
  Summaries <- Fenced
  Dumps <- PlainDumps
  Recent = 3
  PageSize = 5
  MaxRetries = 1
  MaxComments = 6
  MaxMoves = 3
  MaxFaults = 2
INVARIANTS
  TypeOK
  PayloadBeforeMove
  OnlyUnseenFlagged
  NoPhantomBounces
  LeavesWhereItSaid
