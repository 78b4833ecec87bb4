\* Sessions and status changes; backoff; creation; recovery: one workload each.
SPECIFICATION Spec
CONSTANTS
  Users = {ana}
  Ips = {ip1}
  Requests = {r1, r2}
  Workloads <- MCWorkloads
  MaxCalls = 4
  MaxClock = 4
  MaxDelay = 3
  PruneAfter = 3
  MaxAttempts = 2
  MaxSends = 2
  MaxSendsPerIp = 3
  Hour = 3
  Cooldown = 1
  Ttl = 2
SYMMETRY Symmetry
INVARIANTS
  SessionsEnd
  GuessingIsLimited
PROPERTIES
  PasswordKept
CHECK_DEADLOCK FALSE
