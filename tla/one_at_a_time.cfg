CONSTANTS
  Requests = {r1}
  None = None
  Operations = {"authorize", "cancel", "execute", "refund", "webhook", "operator", "resolve"}
  OffRamp = "manual"
  Payment = "manual"
  Events = {e1}
  Genuine = {}
  Kept = {"full", "short"}
  MaxFaults = 2
  MaxReviews = 2
SPECIFICATION FairSpec
INVARIANTS
  PostedOnce
  RebroadcastOnlyByReview
  CheapEndsSentNothing
  ReconcilerQuiet
  RefiledOnlyAfterFaults
PROPERTIES
  ImplementsLifecycle
  ReportsStand
  OperatorHeals
CHECK_DEADLOCK FALSE
