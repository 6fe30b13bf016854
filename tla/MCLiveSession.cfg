SPECIFICATION FairSpec
CONSTANTS
  b1 = b1
  b2 = b2
  Batches = {b1, b2}
  BlockingTools = {"pick"}
  CameraTools = {"pick"}
  Instances <- SmallInstances
INVARIANTS
  FlagMeansTool
  ClosedIsQuiet
PROPERTIES
  SitIsWanted
  TextFollowsFrame
  LossIsHandled
CHECK_DEADLOCK FALSE
