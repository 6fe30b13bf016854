SPECIFICATION Spec
CONSTANTS
  c1 = c1
  c2 = c2
  Calls = {c1, c2}
  Arms = {a1}
  Plans = {p1}
  NoPlan = NoPlan
  NoCall = NoCall
  ToolsOf <- TaskTools
  MaxRecovery = 1
INVARIANTS
  TypeOK
  HeldIsAccounted
  UncertainIsStopped
  InterruptionOwesRecovery
  EvidenceIsGenuine
PROPERTIES
  SuccessIsSound
  MotionHasAuthority
  InterruptedChangesNothing
  ImagePrecedesAnswer
CHECK_DEADLOCK FALSE
