---------------------------------- MODULE Interface ----------------------------------
(***************************************************************************)
(* What people see of the application: the pages that keep state of their   *)
(* own in the browser, the papers that are printed, and the calendar they   *)
(* are printed by.  The parts do not touch each other: a behaviour follows  *)
(* one of them and leaves the others as they are.                           *)
(***************************************************************************)
EXTENDS ScheduleScreen, AnnualScreen, AvailabilityScreen, UsersScreen, FormScreens,
        RequestScreens, CalendarWalk, FormLayout, ReportPdf, WeekPapers

VARIABLE scene

Pages == {"schedule", "cells", "scrolling", "availability", "users", "forms", "requests"}
Papers == {"calendar", "layout", "report", "papers"}

pageVars ==
  <<scheduleVars, annualVars, availScreenVars, usersVars, formScreenVars, requestVars>>
officeVars == <<walkVars, layoutVars, reportVars, paperVars>>
interfaceVars == <<scene, pageVars, officeVars>>

\* A page that is not open looks as if it had just been loaded; a walk through the
\* calendar has one beginning.
Init ==
  /\ scene \in Pages \union Papers
  /\ IF scene = "schedule" THEN ScheduleInit ELSE ScheduleIdle
  /\ DialogFresh
  /\ \E week \in IF scene = "scrolling" THEN 0..1 ELSE {0} : Opened(week)
  /\ AvailScreenInit /\ UsersInit /\ FormsInit
  /\ IF scene = "requests" THEN RequestsInit ELSE RequestsIdle
  /\ InitWalk
  /\ IF scene = "layout" THEN LayoutInit ELSE LayoutIdle
  /\ IF scene = "report" THEN ReportInit ELSE ReportIdle
  /\ IF scene = "papers" THEN PapersInit ELSE PapersIdle

Still(a, b, c, d, e) == UNCHANGED <<scene, officeVars, a, b, c, d, e>>
Office(a, b, c) == UNCHANGED <<scene, pageVars, a, b, c>>

Next ==
  \/ /\ scene = "schedule" /\ ScheduleNext
     /\ Still(annualVars, availScreenVars, usersVars, formScreenVars, requestVars)
  \/ /\ scene = "cells" /\ DialogNext /\ UNCHANGED scrollVars
     /\ Still(scheduleVars, availScreenVars, usersVars, formScreenVars, requestVars)
  \/ /\ scene = "scrolling" /\ ScrollNext /\ UNCHANGED dialogVars
     /\ Still(scheduleVars, availScreenVars, usersVars, formScreenVars, requestVars)
  \/ /\ scene = "availability" /\ AvailScreenNext
     /\ Still(scheduleVars, annualVars, usersVars, formScreenVars, requestVars)
  \/ /\ scene = "users" /\ UsersNext
     /\ Still(scheduleVars, annualVars, availScreenVars, formScreenVars, requestVars)
  \/ /\ scene = "forms" /\ FormsNext
     /\ Still(scheduleVars, annualVars, availScreenVars, usersVars, requestVars)
  \/ /\ scene = "requests" /\ RequestsNext
     /\ Still(scheduleVars, annualVars, availScreenVars, usersVars, formScreenVars)
  \/ scene = "calendar" /\ NextWalk /\ Office(layoutVars, reportVars, paperVars)
  \/ scene = "layout" /\ LayoutNext /\ Office(walkVars, reportVars, paperVars)
  \/ scene = "report" /\ ReportNext /\ Office(walkVars, layoutVars, paperVars)
  \/ scene = "papers" /\ PapersNext /\ Office(walkVars, layoutVars, reportVars)

Spec == Init /\ [][Next]_interfaceVars

-----------------------------------------------------------------------------
(* Properties *)

\* What a page sends was chosen, typed and confirmed in the dialog of the very slot, cell,
\* window, account, seat or button it is sent for, although answers come late, dialogs
\* close and open in between and fields outlive them.
SendsWhatWasChosen ==
  /\ AppliedAsPicked /\ WindowsAreDeliberate /\ OwnCellOnly
  /\ ChangesAreForTheirRow /\ AnswersOwnDialog /\ SubmitsAsConfirmed
  /\ TicketIsForEmail /\ CorrectionClosesItsOwn

\* What a page shows is so: a generation under way, the password an account was made with,
\* the list filtered by what was asked for last, and the tables at one position.
ShowsWhatIs ==
  /\ OneGeneration /\ NoticeIsForSelection /\ ShownPasswordWorks
  /\ FilterSettles /\ RestsWhereScrolled

\* ISO weeks, the weeks of a month, the anniversaries with their eves and the groups of
\* a month agree with the days crossed off one by one (iso-week.ts, anniversary.ts).
CalendarIsRight ==
  scene = "calendar" => WeeksAgree /\ MonthsCovered /\ AnniversariesKept /\ GroupsTogether

\* The form fits its page exactly when it says so, gives way as it promises, and the two
\* copies of a slip are alike (weekly-suguan-pdf and suguan-slip-pdf services).
SheetsHold ==
  scene = "layout" => FitIsForeseen /\ PitchGivesWay /\ BorderIsStraight /\ CopiesAreAlike

\* Every page of a report has its head, every row its column header and every heading its
\* table (renderReportPdf).
PagesHold ==
  /\ [](PagesAreHeaded /\ RowsAreHeaded)
  /\ HeadingsStay

\* Put together from several reads while the week changes, a form and a report still tell
\* nothing that never was, and miss nothing that stayed; reports over the same rows agree.
PapersAreTruthful ==
  scene = "papers" =>
    FormIsTruthful /\ SlipsMatchForm /\ PastDakosStay /\ ReportIsTruthful /\ ReportsAgree
=============================================================================
