SPECIFICATION Spec
CONSTANTS
  Orders = {o1}
  Workers = {w1}
  NoWorker = NoWorker
  ForcedTargets = {"cancelled_platform"}
  FormStatuses = {"delivered"}
  MaxEvents = 2
  MaxEdits = 1
INVARIANTS
  EveryMutationAudited
