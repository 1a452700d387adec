SPECIFICATION Spec
CONSTANTS
  Users = {u1, u2}
  Branches = {b1}
  Nowhere = Nowhere
  LineIds = {l1, l2}
  Keys = {k1}
  NoKey = NoKey
  Payers = {p1, p2}
  Shoppers = {s1}
  OtherWriters = {"put", "form"}
  MaxRedemptions = 1
  PerUserLimit = 2
  MaxOrders = 2
SYMMETRY CheckoutSymmetry
INVARIANTS
  TypeOK
  OneOrderPerKey
  CouponWithinLimits
