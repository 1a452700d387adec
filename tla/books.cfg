SPECIFICATION BooksSpec
CONSTANTS
  Orders = {o1}
  Workers = {w1, w2}
  NoWorker = NoWorker
  ForcedTargets = {"refund_pending"}
  FormStatuses = {"ready", "delivered"}
  MaxEvents = 4
  MaxEdits = 1
  LongHistory = 7
  Sales = {s1, s2}
  Pumps = {p1}
  Web = {v1}
  Nobody = Nobody
  EventIds = {e1, e2}
  MaxCrashes = 1
SYMMETRY BooksSymmetry
INVARIANTS
  BooksTypeOK
  NoSeqCollision
  AuditMatchesRow
  OutboxMirrorsAudit
  StampsFollowStatus
  BooksMatchPayment
  InvoicesDense
  CapturesBounded
PROPERTIES
  ExtendsAVersion
