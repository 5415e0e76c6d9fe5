SPECIFICATION ScreensSpec
CONSTANTS
  t1 = t1
  Users = {u1}
  NoUser = NoUser
  Tabs = {t1}
  Loops <- Engines
  Scenarios <- FewCases
  x1 = x1
  x2 = x2
  Ids = {x1, x2}
  Ops = {1, 2}
  Contents = {blank, c1}
  Blank = blank
  Malformed = {blank}
  MaxLogins = 1
  MaxVersion = 2
INVARIANT ConfirmedIsSubmitted
CHECK_DEADLOCK FALSE
