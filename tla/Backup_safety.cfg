SPECIFICATION SpecScreen
CONSTANTS
  Calls = {c1, c2}
  Operator = "operator"
  Other = "other"
  Picked = "elsewhere"
  MaxSecond = 2
  MaxInputs = 3
SYMMETRY CallsAreAlike
INVARIANTS
  RestoreIsSafe
  OneAtATime
PROPERTIES
  UsesAreDeliberate
CHECK_DEADLOCK FALSE
