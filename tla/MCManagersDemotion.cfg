SPECIFICATION Spec
CONSTANTS
  Users = {m1, m2, m3}
  Founders = {m1, m2}
  Requests = {r1, r2}
  Operations = {"create", "role", "disable", "password"}
  RequestedRoles = {"supervisor", "worker"}
  NoUser = NoUser
SYMMETRY Symmetry
CHECK_DEADLOCK FALSE
INVARIANTS TypeOK FinalActiveManager
