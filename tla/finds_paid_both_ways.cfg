CONSTANTS
  Requests = {r1, r2}
  None = None
  Operations = {"execute", "webhook", "resolve", "refund"}
  OffRamp = "auto"
  Payment = "auto"
  Events = {e1}
  Genuine = {e1}
  Kept = {}
  MaxFaults = 0
  MaxReviews = 1
SPECIFICATION AuthorizedSpec
INVARIANT NeverPaidBothWays
CHECK_DEADLOCK FALSE
