SPECIFICATION Spec
CONSTANTS
  Sweeps = {"sweep"}
  Flushes = {"flush"}
  MaxFailures = 0
PROPERTIES
  ParkedUntilActivity
