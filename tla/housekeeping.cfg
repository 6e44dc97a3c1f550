SPECIFICATION FairSpec
CONSTANTS
  Roles = {"07"}
  Tickets = {"SENT-1"}
  Sweeps = {"sweep"}
  Flushes = {"flush"}
  Hours = 1
  MaxTime = 2
  MaxRestarts = 1
  Nobody = Nobody
  NoTicket = NoTicket
INVARIANTS
  TypeOK
  NeverYanked
  OneReminderPerWindow
PROPERTIES
  QuotaHolds
