SPECIFICATION Spec
CONSTANTS
  Profiles <- MCProfiles
  MaxGap = 5
INVARIANTS
  RegTypeOK
  PollStaysReadable
  FieldsReadable
  ReadsStayClose
  SettingsNotBridged
  RangesAreGenerated
CHECK_DEADLOCK FALSE
