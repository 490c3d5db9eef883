CONSTANTS
  MaxCalls = 2
  InView <- Printed
  Codes <- AllCodes
  Amounts = {5}
  MaxPayments = 1
SPECIFICATION Spec
INVARIANTS
  ScanInv
  AmountOfItsCode
  OneMerchantUnlessOverlapped
  OneCallUnlessOverlapped
  FieldsSpellPayload
  DamageRefused
CHECK_DEADLOCK FALSE
