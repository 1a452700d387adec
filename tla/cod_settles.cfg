SPECIFICATION FairSpec
CONSTANTS
  Sales = {o1, o2}
  Pumps = {p1, p2}
  Web = {}
  Nobody = Nobody
  EventIds = {e1}
  MaxCrashes = 0
PROPERTIES
  CodSettles
