CONSTANTS
  Devices = {d1, d2}
  TransientRetryCount <- MCRetryCount
  NumBlocks = 2
  RequestTimeout = 1
  Budget = 5
  Faults <- AnyFault
  MaxFaults = 3
SPECIFICATION PollingLinkSpec
INVARIANTS
  LinkTypeOK
  QueueIsTheAttempts
  CleanPollDelivers
PROPERTIES
  HealsItself
