CONSTANTS
  Requests = {r1, r2}
  None = None
  Operations = {"execute", "webhook"}
  OffRamp = "auto"
  Payment = "auto"
  Events = {e1}
  Genuine = {e1}
  Kept = {}
  MaxFaults = 0
  MaxReviews = 0
SPECIFICATION AuthorizedSpec
INVARIANT PostedOnce
CHECK_DEADLOCK FALSE
