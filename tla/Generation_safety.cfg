SPECIFICATION SpecGeneration
CONSTANTS
  Teachers = {1, 2, 3}
  Dakos = {1, 2}
  Masters <- MCMasters
  Encodings <- MCEncodings
  MaxWeeks = 2
  MaxWrites = 4
INVARIANTS
  EarlierSlotsChooseFirst
  PlanFits
  UnservedFirst
  Deterministic
CHECK_DEADLOCK FALSE
