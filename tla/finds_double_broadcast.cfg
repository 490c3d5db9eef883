CONSTANTS
  Requests = {r1, r2}
  None = None
  Operations = {"authorize", "execute"}
  OffRamp = "auto"
  Payment = "auto"
  Events = {e1}
  Genuine = {e1}
  Kept = {}
  MaxFaults = 0
  MaxReviews = 0
SPECIFICATION Spec
INVARIANT RebroadcastOnlyByReview
CHECK_DEADLOCK FALSE
