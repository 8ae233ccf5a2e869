SPECIFICATION ReadSpec
CONSTANTS
  Devices = {d1, d2}
  TransientRetryCount = 1
  MaxFailures = 2
  OtherHolders = TRUE
CONSTRAINT FewFailures
SYMMETRY Symmetric
INVARIANTS
  ReadTypeOK
  UndisturbedReadIsLive
  AnswersAreOfThisCall
