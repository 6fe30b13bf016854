SPECIFICATION Spec
CONSTANTS
  c1 = c1
  c2 = c2
  Calls = {c1, c2}
  Arms = {a1}
  Plans = {p1}
  NoPlan = NoPlan
  NoCall = NoCall
  ToolsOf <- FinishTools
  MaxRecovery = 1
SYMMETRY Symmetric
PROPERTIES
  SuccessMeansSettled
CHECK_DEADLOCK FALSE
