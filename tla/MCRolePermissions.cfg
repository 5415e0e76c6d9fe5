SPECIFICATION Spec
CONSTANTS
  Users = {m1, m2}
  Founders = {m1, m2}
  Requests = {r1, r2}
  Operations = {"role"}
  RequestedRoles = {"manager", "supervisor", "worker"}
  NoUser = NoUser
SYMMETRY Symmetry
CHECK_DEADLOCK FALSE
INVARIANTS RolePermissionsAgree
