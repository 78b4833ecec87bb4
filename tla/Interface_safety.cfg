\* Up to seven buttons on the schedule page, eight clicks in the dialogs of a cell, four
\* scrolls, and five or six inputs on the other pages.
\* Eleven years day by day, forms of up to 71 dakos and slips with short and with long
\* values, reports of up to 70 rows a section, and two changes while a paper is made.
SPECIFICATION Spec
CONSTANTS
  Rows = {"a", "b"}
  Taken = {"b"}
  Staff = {"ana", "ben"}
  Fit <- MCFit
  MaxPresses = 7
  Cells = {"c1", "c2"}
  Heirs = {"ana"}
  Tracks = {"top", "sugo", "reserba"}
  Bar = "top"
  Content <- MCContent
  MaxClicks = 8
  MaxScrolls = 4
  Weeks = {1, 2}
  Texts = {"x", "y"}
  Selects = {"o"}
  Encoded = {"ana", "ben"}
  MaxInputs = 5
  Accounts = {"ana", "ben"}
  Forms = {"p", "q"}
  MaxMoves = 6
  Seats = {"s1", "r1"}
  Names = {"ana", "ben"}
  Buttons = {"create", "another"}
  MarkedButtons = {"another"}
  MaxActs = 6
  IsoWeeks = {1, 2}
  Emails = {"a", "b"}
  Records = {"h1", "h2"}
  MaxTaps = 6
  FirstYear = 2018
  LastYear = 2028
  Dates <- MCDates
  DakoCounts = {1, 10, 11, 12, 14, 15, 30, 38, 39, 60, 62, 70, 71}
  ReservistCounts = {0, 1, 5, 6, 14}
  TextWidths = {2000, 9000, 20000, 40000}
  RowCounts <- MCRowCounts
  Dakos = {1, 2}
  Teachers = {"ana", "ben", "cora", "dan", "eva"}
  Plans <- MCPlans
  Rosters <- MCRosters
  MaxEdits = 2
INVARIANTS
  
  
  CalendarIsRight
  SheetsHold
  PapersAreTruthful
PROPERTIES
  DraftsKept
  
CHECK_DEADLOCK FALSE
