SPECIFICATION FairSpec
CONSTANTS
  c1 = c1
  c2 = c2
  Calls = {c1, c2}
  Arms = {a1}
  Plans = {p1}
  NoPlan = NoPlan
  NoCall = NoCall
  ToolsOf <- LiveTools
  MaxRecovery = 1
PROPERTIES
  EveryCallAnswered
  LossCloses
CHECK_DEADLOCK FALSE
