SPECIFICATION ScreenSpec
CONSTANTS
  a = a
  b = b
  r1 = r1
  r2 = r2
  Units = {a, b, n}
  Founders = {a, b}
  Origin <- BeneathB
  Requests = {r1, r2, r3}
  Scenarios <- ServerOrScreen
  NoUnit = NoUnit
  Filters = {"all", "active", "inactive"}
INVARIANTS RegisterTypeOK Acyclic HistoryIsGapless DeadlocksAreParental
CHECK_DEADLOCK FALSE
