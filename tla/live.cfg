SPECIFICATION LiveSpec
CONSTANTS
  Users = {u1}
  Branches = {b1}
  Nowhere = Nowhere
  LineIds = {l1, l2}
  Keys = {k1}
  NoKey = NoKey
  Payers = {p1, p2}
  Shoppers = {s1}
  PerUserLimit = 1
  Couriers = {c1, c2}
  Nobody = Nobody
  Pumps = {m1, m2}
  Web = {w1, w2}
  Sweepers = {}
  MaxOffers = 3
  DeskTargets = {"ready"}
  FormStatuses = {}
  MaxCrashes = 1
INVARIANTS
  CouponWithinLimits
PROPERTIES
  CheckoutsEnd
  ReadyGetsTask
  SingleWinner
