SPECIFICATION FairSpec
CONSTANTS
  r1 = r1
  r2 = r2
  wrist = wrist
  table = table
  Arms = {left}
  Cameras = {wrist, table}
  Wrist = {wrist}
  Planes = {table}
  ArmOf <- OneArm
  Requests = {r1, r2}
  Budgets <- Instances
  MaxTime = 5
  HistoryLength = 3
  MaxGap = 1
  StateAge = 2
  CameraAge = 2
  Skew = 1
  Dwell = 1
  Timeout = 3
  Margin = 1
  BufferSize = 2
  Tolerance = 2
INVARIANTS
  PendingIsReachable
PROPERTIES
  EvidenceIsCurrent
  WristWasStill
  SettledMeansStill
  EveryCaptureEnds
CHECK_DEADLOCK FALSE
