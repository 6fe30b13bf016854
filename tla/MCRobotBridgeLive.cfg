SPECIFICATION FairSpec
CONSTANTS
  Arms = {a1, a2}
  Plans = {p1}
  Tasks = {t1, t2}
  NoPlan = NoPlan
  MaxPlans = 1
  MaxGen = 2
  Replies = {"confirmed", "refused", "unknown", "malformed"}
PROPERTIES
  EveryRequestAnswered
