CONSTANTS
  Requests = {r1, r2}
  Micro = 10
  FullBps = 100
  SpreadBps = 5
  FeeMicros = 2
  Fiats = {27}
  Refs = {130, 160}
  Reports = {26, 31}
  Costs = {24}
  FeeIdr = 3
  DefaultCost = 1
  MaxTasks = 1
SYMMETRY Symmetry
SPECIFICATION Spec
INVARIANTS
  BooksInv
  MoneyAccounted
  OnlyOverchargeRefused
  LossTakesTwoConversions
  SpreadTellsSurplus
  IncomeExceedsSurplusByFee
CHECK_DEADLOCK FALSE
