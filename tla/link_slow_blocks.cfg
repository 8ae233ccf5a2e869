CONSTANTS
  Devices = {d1}
  TransientRetryCount <- MCRetryCount
  NumBlocks = 15
  RequestTimeout = 1
  Budget = 3
  Faults = {}
  MaxFaults = 0
SPECIFICATION LinkSpec
INVARIANTS
  BudgetCoversSlowBlocks
