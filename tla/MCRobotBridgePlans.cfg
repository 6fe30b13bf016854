SPECIFICATION Spec
CONSTANTS
  Arms = {a1, a2}
  Plans = {p1, p2, p3}
  Tasks = {t1, t2, t3}
  NoPlan = NoPlan
  MaxPlans = 2
  MaxGen = 2
  Replies = {"confirmed", "refused", "unknown", "malformed"}
SYMMETRY Symmetric
INVARIANTS TypeOK OneMotion HeldExclusive GripAccounted FreeMeansQuiet NewestStopGates AllStoppedMeansQuiet
PROPERTIES StopCoversGroup ImplementsAuthority
