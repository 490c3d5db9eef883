CONSTANTS
  Requests = {r1, r2}
  None = None
  Operations = {"authorize", "cancel", "execute", "refund", "webhook", "operator", "resolve"}
  OffRamp = "auto"
  Payment = "auto"
  Events = {e1, e2}
  Genuine = {e1}
  Kept = {"full", "short", "failed"}
  MaxFaults = 1
  MaxReviews = 1
SPECIFICATION Spec
SYMMETRY Symmetry
INVARIANTS
  EngineInv
  AuditPath
  BroadcastsAuthorized
  BooksFollowTrail
  PaidOutOnlyIfFunded
  CompletedMeansPaid
  NotPaidAndRefunded
CHECK_DEADLOCK FALSE
