SPECIFICATION Spec
CONSTANTS
  Backups = 2
  MaxBytes = 3
  LineSizes = {1, 2}
  Limit = 4
  Readers = {"cli"}
  MaxRecords = 6
  MaxFaults = 2
INVARIANTS
  TypeOK
  QueryChronological
  OnlyOlderDropped
  GenerationsBounded
