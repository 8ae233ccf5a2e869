CONSTANTS
  Devices = {d1}
  TransientRetryCount <- MCRetryCount
SPECIFICATION Spec
INVARIANTS
  BareBusyMeansBusyTwice
