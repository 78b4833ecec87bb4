SPECIFICATION Spec
CONSTANTS
  Users = {u1, u2}
  Requests = {r1, r2}
  MaxCalls = 4
SYMMETRY Symmetry
INVARIANTS
  AdminRemains
PROPERTIES
  SuperAdminProtected
CHECK_DEADLOCK FALSE
