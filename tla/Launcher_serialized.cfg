\* Two launches at the same moment.
SPECIFICATION SpecLauncher
CONSTANTS
  Launchers = {l1, l2}
  Patient = l1
  PgPorts = {1, 2}
  AppPorts = {1, 2, 3}
  Files = 1
  MaxStarts = 1
  MaxFaults = 2
INVARIANTS
  Serialized
