SPECIFICATION Spec
CONSTANTS
  Users = {u1}
  Branches = {b1, b2}
  Nowhere = Nowhere
  LineIds = {l1, l2}
  Keys = {k1}
  NoKey = NoKey
  Payers = {p1}
  Shoppers = {s1}
  OtherWriters = {}
  MaxRedemptions = 1
  PerUserLimit = 1
  MaxOrders = 1
INVARIANTS
  OrderServedByItsBranch
