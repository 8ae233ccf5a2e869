CONSTANTS
  Settings = {s1, s2}
  MaxHush = 6
  Silences = {4, 5, 6}
  MaxFaults = 2
  Words <- MCWords
  CrossChecked = {2}
  MaxTimeouts = 2
  Singles = 1
  Inputs = 1
  Plans <- MCPlans
SPECIFICATION Spec
INVARIANTS
  HardwareTypeOK
  EveryCandidateOnce
  StatusIsTheDevices
  ProbesAfterLiveness
  BadRunsBounded
  ShortSilenceSurvived
  CleanExitRestores
  NothingChangedIsTrue
  EveryJobRecorded
  TableDecodedAsStored
PROPERTIES
  EveryRunEnds
