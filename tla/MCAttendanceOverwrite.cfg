SPECIFICATION Spec
CONSTANTS
  w1 = w1
  w2 = w2
  present = present
  absent = absent
  u1 = u1
  s1 = s1
  s2 = s2
  o1 = o1
  o2 = o2
  d1 = d1
  r1 = r1
  r2 = r2
  Users = {u1, u2}
  Workers = {w1}
  Leavers = {w1}
  Marks = {present, absent}
  Unmarked = Unmarked
  Unlisted = Unlisted
  Dates = {d1}
  OnlineIds = {s1}
  DeviceIds = {x1}
  Ops = {o1}
  PayloadVersions = {1}
  RosterInputs <- OneWorkerRosters
  Requests = {r1, r2, r3}
  NoUser = NoUser
  NoOp = NoOp
  NoRequest = NoRequest
SYMMETRY Symmetry
CHECK_DEADLOCK FALSE
PROPERTIES NothingOverwritten
