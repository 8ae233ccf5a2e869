CONSTANTS
  Devices = {d1, d2, d3}
  TransientRetryCount <- MCRetryCount
  NumBlocks = 1
  RequestTimeout = 1
  Budget = 3
  Faults = {"stuck"}
  MaxFaults = 1
SPECIFICATION PollingLinkSpec
PROPERTIES
  StuckLinkReplaced
