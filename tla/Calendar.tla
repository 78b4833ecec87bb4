---------------------------------- MODULE Calendar ----------------------------------
(***************************************************************************)
(* The calendar arithmetic of the application: ISO weeks (lib/iso-week.ts),*)
(* the weeks of a month (magtuturo.service.ts) and the anniversaries of    *)
(* dates and their stages (lib/anniversary.ts), all in UTC.                *)
(*                                                                         *)
(* A Date at midnight is the number of its day; day 1 is Monday, the first *)
(* of January of the year 1.  A stored date is a record [y, m, d].         *)
(***************************************************************************)
EXTENDS Integers, Sequences

-----------------------------------------------------------------------------
(* Date of the language *)

IsLeap(y) == y % 4 = 0 /\ (y % 100 # 0 \/ y % 400 = 0)

\* The days before the first of January of the year y.
DaysBefore(y) == 365 * (y - 1) + (y - 1) \div 4 - (y - 1) \div 100 + (y - 1) \div 400

CommonMonths == <<0, 31, 59, 90, 120, 151, 181, 212, 243, 273, 304, 334>>
DaysBeforeMonth(y, m) == CommonMonths[m] + (IF m > 2 /\ IsLeap(y) THEN 1 ELSE 0)

\* Date.UTC: months and days beyond their range carry over.
DateUTC(y, m, d) ==
  LET year == y + (m - 1) \div 12
      month == 1 + ((m - 1) % 12)
  IN DaysBefore(year) + DaysBeforeMonth(year, month) + d

YearOf(n) == CHOOSE y \in (n \div 366)..(n \div 365 + 1) : DaysBefore(y) < n /\ n <= DaysBefore(y + 1)
MonthOf(n) ==
  LET y == YearOf(n) IN
  CHOOSE m \in 1..12 : DateUTC(y, m, 0) < n /\ n <= DateUTC(y, m + 1, 0)
DayOf(n) == n - DateUTC(YearOf(n), MonthOf(n), 0)

FromMonday(n) == (n - 1) % 7      \* (getUTCDay() + 6) % 7

-----------------------------------------------------------------------------
(* lib/iso-week.ts *)

WeekOneMonday(y) == LET jan4 == DateUTC(y, 1, 4) IN jan4 - FromMonday(jan4)

\* Mutant: the year of the date, not of the Thursday of its week.
IsoWeek_OwnYear(n) ==
  LET thursday == n - FromMonday(n) + 3 IN
  [year |-> YearOf(n), week |-> (thursday - WeekOneMonday(YearOf(n)) + 3) \div 7 + 1]

\* isoWeek: Math.round of a Thursday's distance from a Monday, in weeks.
IsoWeek(n) ==
  LET thursday == n - FromMonday(n) + 3
      year == YearOf(thursday)
  IN [year |-> year, week |-> (2 * (thursday - WeekOneMonday(year)) + 7) \div 14 + 1]

IsoWeekStart(y, w) == WeekOneMonday(y) + 7 * (w - 1)
IsoWeekEnd(y, w) == IsoWeekStart(y, w) + 6
IsoWeeksInYear(y) == IsoWeek(DateUTC(y, 12, 28)).week

\* adjacentWeek: a week later or earlier, by its start date.
AdjacentWeek(y, w, offset) == IsoWeek(IsoWeekStart(y, w) + 7 * offset)

\* Mutant: the first Monday of the month, not the Monday of its first week.
MonthWeeks_FirstMonday(y, m) ==
  LET first == DateUTC(y, m, 1)
      monday == first + ((7 - FromMonday(first)) % 7)
      last == DateUTC(y, m + 1, 0)
  IN [i \in 1..((last - monday) \div 7 + 1) |-> IsoWeek(monday + 7 * (i - 1))]

\* weeksOverlappingMonth
MonthWeeks(y, m) ==
  LET first == DateUTC(y, m, 1)
      monday == first - FromMonday(first)
      last == DateUTC(y, m + 1, 0)
  IN [i \in 1..((last - monday) \div 7 + 1) |-> IsoWeek(monday + 7 * (i - 1))]

-----------------------------------------------------------------------------
(* lib/anniversary.ts *)

\* Mutant: the 29th of February carries over to March.
AnniversaryIn_CarriesOver(date, y) == DateUTC(y, date.m, date.d)

\* The occurrence in year y: the 29th of February falls on the 28th.
AnniversaryIn(date, y) ==
  LET n == DateUTC(y, date.m, date.d) IN
  IF MonthOf(n) = date.m THEN n ELSE DateUTC(y, date.m + 1, 0)

\* Mutant: an anniversary of this year, although it has passed.
NextAnniversary_ThisYear(date, now) == AnniversaryIn(date, YearOf(now))

NextAnniversary(date, now) ==
  LET ann == AnniversaryIn(date, YearOf(now)) IN
  IF ann < now THEN AnniversaryIn(date, YearOf(now) + 1) ELSE ann

\* setUTCMonth(m - 1): a day the month before does not have carries over.
MonthEarlier(n) == DateUTC(YearOf(n), MonthOf(n) - 1, DayOf(n))

\* Mutant: the day before is part of the approach.
Stage_NoDayBefore(date, now) ==
  LET ann == NextAnniversary(date, now) IN
  CASE ann = now -> "TODAY"
    [] MonthEarlier(ann) = now -> "ONE_MONTH_BEFORE"
    [] OTHER -> IF ann - now <= 30 THEN "APPROACHING" ELSE "NONE"

\* anniversaryStage
Stage(date, now) ==
  LET ann == NextAnniversary(date, now) IN
  CASE ann = now -> "TODAY"
    [] ann - now = 1 -> "ONE_DAY_BEFORE"
    [] MonthEarlier(ann) = now -> "ONE_MONTH_BEFORE"
    [] OTHER -> IF ann - now <= 30 THEN "APPROACHING" ELSE "NONE"

\* listAnniversaryGroups: the oaths with the same day and month, under the date of
\* the next occurrence of one of them.
AnniversaryGroups(oaths, now) ==
  LET Row(o, ann) == [oath |-> o, date |-> ann, key |-> <<MonthOf(ann), DayOf(ann)>>]
      rows == {Row(o, NextAnniversary(o, now)) : o \in oaths}
  IN {[date |-> r.date, oaths |-> {q.oath : q \in {p \in rows : p.key = r.key}}] : r \in rows}

\* celebrationsReport: the groups of a month, whatever their year.
GroupsOfMonth(oaths, month, now) == {g \in AnniversaryGroups(oaths, now) : MonthOf(g.date) = month}

\* calculateAge and elapsedSince
Age(birthday, now) ==
  YearOf(now) - birthday.y
    - (IF MonthOf(now) < birthday.m \/ (MonthOf(now) = birthday.m /\ DayOf(now) < birthday.d)
       THEN 1 ELSE 0)

Elapsed(date, now) ==
  LET months == 12 * (YearOf(now) - date.y) + (MonthOf(now) - date.m)
                  - (IF DayOf(now) < date.d THEN 1 ELSE 0)
  IN [years |-> months \div 12, months |-> months % 12]
=============================================================================
