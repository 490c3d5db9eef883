CONSTANTS
  Decimals = 2
  Micro = 100
  FullBps = 10
  SpreadBps = 1
  FeeMicros = 60
  Calls = {c1, c2}
  Keys = {k1, k2}
  NoRow = NoRow
  Amounts = {7, 20, 21}
  Refs = {1, 300}
  MaxPayment = 20
  MaxDaily = 30
  Day = 2
  MaxClock = 2
  MaxCalls = 4
  MaxFaults = 1
SPECIFICATION Spec
SYMMETRY Symmetry
INVARIANTS
  QuoteInv
  DailyCapOvershoot
  QuotesAreEnough
  AmountsReadBack
  QuotesPerKey
PROPERTIES
  AnswersStand
CHECK_DEADLOCK FALSE
