SPECIFICATION Spec
CONSTANTS
  Orders = {o1}
  Workers = {w1, w2}
  NoWorker = NoWorker
  ForcedTargets = {"cancelled_platform"}
  FormStatuses = {}
  MaxEvents = 4
  MaxEdits = 0
INVARIANTS
  LegalHistory
