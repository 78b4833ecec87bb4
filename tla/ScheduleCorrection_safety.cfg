\* Two requests in flight, two users, three transactions, and a clock that runs on.
SPECIFICATION FairSpec
CONSTANTS
  ana = ana
  sol = sol
  Users = {ana, sol}
  Requests = {r1, r2}
  Ttl = 2
  MaxClock = 3
  RolesOf <- RolesOfUsers
INVARIANTS
  TypeOK
  LocksProtectChecks
  
PROPERTIES
  
  ImplementsGate
  Progress
\* The clock of the instance is bounded, so that it stops.
CHECK_DEADLOCK FALSE
