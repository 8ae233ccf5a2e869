CONSTANTS
  Devices = {d1, d2}
  TransientRetryCount <- MCRetryCount
SPECIFICATION FairSpec
INVARIANTS
  TypeOK
  RetriesOnlyTheCurable
  DropsOnlyWhenExhausted
  ExhaustionReplacesLink
PROPERTIES
  PromiseKeptFair
  PollEnds
