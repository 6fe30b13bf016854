CONSTANTS
  Arms = {left, right, third}
  Calls = {c1, c2, c3}
  SequenceIds = {s1, s2}
  NoSequence = NoSequence
  MaxSteps = 3
  SeenMax = 1
  MaxEpoch = 3
SPECIFICATION Spec
SYMMETRY Symmetric
INVARIANTS Bookkeeping StopCoversMotion
PROPERTIES StepsInOrder HooksAreExclusive InterruptedFails
