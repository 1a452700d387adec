SPECIFICATION Spec
CONSTANTS
  Sales = {o1}
  Pumps = {p1, p2}
  Web = {}
  Nobody = Nobody
  EventIds = {e1}
  MaxCrashes = 0
INVARIANTS
  CaptureOnce
