-------------------------------- MODULE CalendarWalk --------------------------------
(***************************************************************************)
(* The reference for Calendar: somebody crosses off the days one by one,   *)
(* knowing only how many days a month has and that a week begins on a      *)
(* Monday and belongs to the year of the 4th of January in it.  Whatever   *)
(* the application computes from a date must agree.                        *)
(***************************************************************************)
EXTENDS Calendar, FiniteSets

CONSTANTS
  FirstYear, LastYear,  \* bound: the years walked through
  Dates                 \* dates whose anniversaries are kept, as [m, d]

\* A walk begins on a first of January that is a Monday, in a year that Date.UTC takes as it is.
ASSUME WalkAssumption ==
  /\ FirstYear \in Nat /\ LastYear \in Nat /\ FirstYear > 99
  /\ FromMonday(DateUTC(FirstYear, 1, 1)) = 0
  /\ \A date \in Dates : date.m \in 1..12 /\ date.d \in 1..31

VARIABLES
  today,     \* [y, m, d]
  weekday,   \* 0 is Monday
  isoWeek,   \* [year, week]
  dayNumber  \* the Date of today

walkVars == <<today, weekday, isoWeek, dayNumber>>

MonthLength(y, m) ==
  CASE m \in {4, 6, 9, 11} -> 30
    [] m = 2 -> IF IsLeap(y) THEN 29 ELSE 28
    [] OTHER -> 31

InitWalk ==
  /\ today = [y |-> FirstYear, m |-> 1, d |-> 1]
  /\ weekday = 0
  /\ isoWeek = [year |-> FirstYear, week |-> 1]
  /\ dayNumber = DateUTC(FirstYear, 1, 1)

Tomorrow(t) ==
  CASE t.d < MonthLength(t.y, t.m) -> [t EXCEPT !.d = @ + 1]
    [] t.d = MonthLength(t.y, t.m) /\ t.m < 12 -> [t EXCEPT !.d = 1, !.m = @ + 1]
    [] OTHER -> [y |-> t.y + 1, m |-> 1, d |-> 1]

\* The 4th of January is among the seven days that begin with t.
HoldsFourth(t) == (t.m = 1 /\ t.d <= 4) \/ (t.m = 12 /\ t.d >= 29)

NextWalk ==
  /\ today.y <= LastYear
  /\ today' = Tomorrow(today)
  /\ weekday' = (weekday + 1) % 7
  /\ isoWeek' = IF weekday' # 0 THEN isoWeek
                ELSE IF HoldsFourth(today') THEN [year |-> isoWeek.year + 1, week |-> 1]
                ELSE [isoWeek EXCEPT !.week = @ + 1]
  /\ dayNumber' = dayNumber + 1

SpecWalk == InitWalk /\ [][NextWalk]_walkVars

-----------------------------------------------------------------------------
(* Properties *)

\* Every date has the ISO week that counting gives it, a week lies in the seven days
\* its number stands for, the year has room for it, and the weeks beside it are its
\* neighbours, across the end of a year of 52 or 53 weeks as well.
WeeksAgree ==
  LET w == IsoWeek(dayNumber) IN
  /\ w = isoWeek
  /\ dayNumber \in IsoWeekStart(w.year, w.week)..IsoWeekEnd(w.year, w.week)
  /\ w.week \in 1..IsoWeeksInYear(w.year)
  /\ AdjacentWeek(w.year, w.week, 1) = IsoWeek(dayNumber + 7)
  /\ AdjacentWeek(w.year, w.week, -1) = IsoWeek(dayNumber - 7)

\* The weeks of a month are those with a day in it, each once and in order.
MonthsCovered ==
  LET weeks == MonthWeeks(today.y, today.m)
      Touches(w) == \E n \in IsoWeekStart(w.year, w.week)..IsoWeekEnd(w.year, w.week) :
                      YearOf(n) = today.y /\ MonthOf(n) = today.m
  IN /\ \E i \in DOMAIN weeks : weeks[i] = isoWeek
     /\ \A i \in DOMAIN weeks : Touches(weeks[i])
     /\ \A i \in DOMAIN weeks \ {1} : weeks[i] = AdjacentWeek(weeks[i - 1].year, weeks[i - 1].week, 1)

\* Today is kept as the anniversary of a date: a 29th of February on the 28th when
\* there is no 29th.
Kept(date, t) ==
  \/ t.m = date.m /\ t.d = date.d
  \/ t.m = date.m /\ date.d > MonthLength(t.y, t.m) /\ t.d = MonthLength(t.y, t.m)

\* No anniversary is passed over or kept twice, and each has its eve: the day is
\* TODAY exactly when it is kept, and ONE_DAY_BEFORE exactly when tomorrow is.
AnniversariesKept ==
  \A date \in Dates :
    /\ (Stage(date, dayNumber) = "TODAY") = Kept(date, today)
    /\ (Stage(date, dayNumber) = "ONE_DAY_BEFORE") = Kept(date, Tomorrow(today))
    /\ NextAnniversary(date, dayNumber) - dayNumber \in 0..366

\* Oaths kept on the same day are in one group, dated that day, and the monthly page
\* shows the group of today.
GroupsTogether ==
  LET groups == AnniversaryGroups(Dates, dayNumber)
      kept == {o \in Dates : Kept(o, today)}
  IN /\ \A o \in Dates : Cardinality({g \in groups : o \in g.oaths}) = 1
     /\ kept # {} => [date |-> dayNumber, oaths |-> kept] \in GroupsOfMonth(Dates, today.m, dayNumber)
=============================================================================
