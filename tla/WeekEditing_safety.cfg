\* Hand edits, generation, backfill, absences, availability, week creation.
SPECIFICATION Spec
CONSTANTS
  sol = sol
  eli = eli
  Users = {sol, eli}
  Requests = {r1, r2}
  RolesOf <- MCRolesOf
  Workloads <- MCWorkloads
  Saves <- MCSaves
  Batches <- MCBatches
  t1 = t1
  t2 = t2
  t3 = t3
  d1 = d1
  Teachers = {t1, t2, t3}
  MasterInactive = {t3}
  FilipinoTeachers = {t3}
  AbsentLast = {}
  BeforeOath = {}
  Dakos = {d1}
  EnglishDakos = {d1}
  Types = {"SUGO", "RESERBA"}
  Ttl = 2
  MaxCalls = 2
SYMMETRY Symmetry
INVARIANTS
  AllOrNothing
  RulesHold

  
CHECK_DEADLOCK FALSE
