SPECIFICATION Spec
CONSTANTS
  Couriers = {c1, c2}
  Nobody = Nobody
  Pumps = {p1}
  Sweepers = {s1}
  Web = {w1}
  MaxOffers = 6
  DeskTargets = {"ready"}
  FormStatuses = {}
  MaxCrashes = 0
PROPERTIES
  SingleWinner
