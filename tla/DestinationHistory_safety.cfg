SPECIFICATION Spec
CONSTANTS
  Teachers = {t1, t2}
  Dakos = {d1, d2}
  NoDako = NoDako
  Duties = {DESTINADO, KATUWANG}
  Requests = {r1, r2}
  MaxCalls = 2
SYMMETRY Symmetry
INVARIANTS
  TablesAgree
PROPERTIES
  DisplacesOwnSlotOnly
CHECK_DEADLOCK FALSE
