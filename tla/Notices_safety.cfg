\* The eve and the day of three anniversaries; the timer, one request and one bell.
SPECIFICATION SpecBell
CONSTANTS
  Subjects <- MCSubjects
  Users = {admin, encoder}
  Admins = {admin}
  FirstDay <- MCFirstDay
  LastDay <- MCLastDay
  MaxScans = 1
  MaxEvents = 2
  Viewer = admin
  MaxLoads = 3
  MaxMarks = 2
INVARIANTS
  NoticesAreExact
  NothingLooksRead
PROPERTIES
  DueIsNoted
CHECK_DEADLOCK FALSE
