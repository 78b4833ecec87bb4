\* Two weeks, one SUGO seat and one RESERBA, three teachers; two calls overlap.
SPECIFICATION Spec
CONSTANTS
  Weeks = {1, 2}
  Teachers = {1, 2, 3}
  SugoSeats = 1
  ReserbaSeats = 1
  Barred = {}
  Requests = {r1, r2}
  Workloads <- MCWorkloads
  Seatings <- MCSeatings
  MaxCalls = 3
  MaxEvents = 1
SYMMETRY Symmetry
INVARIANTS
  SeatsHold
PROPERTIES
  LockedWeeksKept
  
CHECK_DEADLOCK FALSE
