CONSTANTS
  Callers = {c1, c2}
  Registers = {"soc"}
  Words <- MCWords
  Ranged = {"soc"}
  Flagged = {}
  Bounds <- MCBounds
  Table <- MCTable
  ReadBackAttempts = 3
  Lag = 3
SPECIFICATION Spec
SYMMETRY Symmetry
INVARIANTS
  TypeOK
  SuccessWasTaken
  TakenIsSeen
PROPERTIES
  SettingsChangeAsDeclared
