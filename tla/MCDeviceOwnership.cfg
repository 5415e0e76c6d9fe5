SPECIFICATION Spec
CONSTANTS
  t1 = t1
  t2 = t2
  c1 = c1
  c2 = c2
  Users = {u1, u2}
  NoUser = NoUser
  Tabs = {t1, t2}
  Loops <- Engines
  Scenarios <- OnePage
  Ids = {x1}
  Ops = {1}
  Contents = {blank, c1, c2}
  Blank = blank
  Malformed = {blank}
  MaxLogins = 2
  MaxVersion = 2
INVARIANT SynchronizedByOwner
CHECK_DEADLOCK FALSE
SYMMETRY ContentSymmetry
