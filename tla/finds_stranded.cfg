CONSTANTS
  Requests = {r1}
  None = None
  Operations = {"execute"}
  OffRamp = "auto"
  Payment = "auto"
  Events = {e1}
  Genuine = {e1}
  Kept = {}
  MaxFaults = 1
  MaxReviews = 0
SPECIFICATION FairAuthorizedSpec
PROPERTIES
  NeverSimplyStopped
CHECK_DEADLOCK FALSE
