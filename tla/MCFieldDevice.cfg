SPECIFICATION Spec
CONSTANTS
  t1 = t1
  t2 = t2
  c1 = c1
  c2 = c2
  Users = {u1}
  NoUser = NoUser
  Tabs = {t1, t2}
  Loops <- Engines
  Scenarios <- OneOrTwoPages
  Ids = {x1}
  Ops = {1, 2}
  Contents = {blank, c1, c2}
  Blank = blank
  Malformed = {blank}
  MaxLogins = 1
  MaxVersion = 2
INVARIANTS TypeOK ConfirmedIsRecorded SyncedIsRecorded WaitingIsAccounted 
CHECK_DEADLOCK FALSE
SYMMETRY ContentSymmetry
