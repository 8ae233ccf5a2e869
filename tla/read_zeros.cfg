SPECIFICATION ReadSpec
CONSTANTS
  Devices = {d1}
  TransientRetryCount = 2
  MaxFailures = 4
  OtherHolders = FALSE
INVARIANTS
  ReadsMeasurements
