CONSTANTS
  Devices = {d1, d2}
  TransientRetryCount <- MCRetryCount
  NumBlocks = 2
  RequestTimeout = 1
  Budget = 3
  Faults <- AnyFault
  MaxFaults = 2
SPECIFICATION FairLinkSpec
PROPERTIES
  ImplementsRetry
  StuckLinkReplaced
