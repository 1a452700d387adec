SPECIFICATION KitchenSpec
CONSTANTS
  Couriers = {c1, c2}
  Nobody = Nobody
  Pumps = {p1}
  Sweepers = {s1}
  Web = {w1}
  MaxOffers = 6
  DeskTargets = {"ready", "picked"}
  FormStatuses = {"picked"}
  MaxCrashes = 1
SYMMETRY CourierSymmetry
INVARIANTS
  TypeOK
  CourierBehindProgress
  TripMatchesOrder
  OneAccepted
