CONSTANTS
  MaxCalls = 2
  InView <- Printed
  Codes <- Printed
  Amounts = {5}
  MaxPayments = 1
SPECIFICATION Spec
INVARIANT ShowsOneMerchant
CHECK_DEADLOCK FALSE
