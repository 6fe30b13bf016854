SPECIFICATION Spec
CONSTANTS
  b1 = b1
  b2 = b2
  Batches = {b1, b2}
  BlockingTools = {"pick"}
  CameraTools = {"pick"}
  Instances <- SitInstances
INVARIANTS
  SitPerRequest
CHECK_DEADLOCK FALSE
