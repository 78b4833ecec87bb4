---------------------------------- MODULE ReportPdf ----------------------------------
(***************************************************************************)
(* The renderer every report PDF shares: tables of any length flow over    *)
(* pages that begin with the same head, and the column header is repeated  *)
(* on every page.                                                          *)
(*                                                                         *)
(* The pen is walked from text to text.  PDFKit starts a page of its own,  *)
(* without the head, when a line does not fit above the bottom margin: the *)
(* renderer has to turn the page first.  Lengths are in ten-thousandths of *)
(* a point; a line of Helvetica is 1.156 (bold: 1.19) times its font size. *)
(***************************************************************************)
EXTENDS Naturals, Sequences

CONSTANTS
  RowCounts   \* bound: rows of a section

ASSUME ReportAssumption == RowCounts \subseteq Nat

VARIABLES
  report,   \* the options handed to the renderer
  section,  \* the section being printed
  left,     \* its rows still to be printed
  pen,      \* [y, line, headed, bare]
  part      \* "sections", "rows", "footnote" or "done"

reportVars == <<report, section, left, pen, part>>

\* Of the pen: its height y, the height of a line in the current font; headed: the column
\* header of the section stands on this page; bare: the pages PDFKit has turned by itself.
Pen(height, line, headed, bare) == [y |-> height, line |-> line, headed |-> headed, bare |-> bare]

-----------------------------------------------------------------------------
(* The options of each report *)

Options(orientation, subtitle, meta, headings, footnote) ==
  [landscape |-> orientation = "landscape", subtitle |-> subtitle, meta |-> meta,
   headings |-> headings, footnote |-> footnote]

Plain == <<FALSE>>
Portrait == "portrait"
Landscape == "landscape"

SourceSummaryPdf == Options(Portrait, TRUE, 1, Plain, TRUE)
AnnualPdf == Options(Landscape, TRUE, 2, Plain, TRUE)
\* a week that is not started has no summary
WeeklyPdf(started) == Options(Portrait, TRUE, IF started THEN 1 ELSE 0, <<TRUE, TRUE, TRUE>>, TRUE)
TeacherHistoryPdf(found) == Options(Landscape, TRUE, IF found THEN 4 ELSE 3, Plain, TRUE)
DakoHistoryPdf == Options(Portrait, TRUE, 4, Plain, TRUE)
CelebrationsPdf == Options(Portrait, TRUE, 2, <<TRUE, TRUE>>, FALSE)
\* the line of selected fields may take two lines; more than nine columns lie landscape
MasterlistPdf(fields) ==
  Options(IF fields > 9 THEN Landscape ELSE Portrait, TRUE, IF fields > 7 THEN 4 ELSE 3, Plain, TRUE)

ReportPdfs ==
  {SourceSummaryPdf, AnnualPdf, DakoHistoryPdf, CelebrationsPdf}
    \union {WeeklyPdf(started) : started \in BOOLEAN}
    \union {TeacherHistoryPdf(found) : found \in BOOLEAN}
    \union {MasterlistPdf(fields) : fields \in {6, 9, 10}}

-----------------------------------------------------------------------------
(* PDFKit *)

Regular(tenths) == tenths * 1156      \* of a font size in tenths
Bold(tenths) == tenths * 1190

Margin == 400000
PageHeight(r) == IF r.landscape THEN 6120000 ELSE 7920000
MaxY(r) == PageHeight(r) - Margin

\* doc.text: the line wrapper turns the page when the line does not fit.
Text(r, p, line) ==
  IF p.y + line > MaxY(r)
  THEN Pen(Margin + line, line, FALSE, p.bare + 1)
  ELSE Pen(p.y + line, line, p.headed, p.bare)

MoveDown(p, tenths) == Pen(p.y + (p.line * tenths) \div 10, p.line, p.headed, p.bare)

-----------------------------------------------------------------------------
(* The renderer *)

HeaderBand == 260000
RowHeight == 160000
Limit(r) == PageHeight(r) - Margin - 180000

\* No report has more than four lines of them.
MetaLines(r, p, n, line) ==
  LET Line(i, q) == IF i <= n THEN Text(r, q, line) ELSE q
  IN Line(4, Line(3, Line(2, Line(1, p))))

\* head, on a fresh page
Headed(r) ==
  LET fresh == Pen(Margin, Bold(80), FALSE, 0)
      name == MoveDown(Text(r, fresh, Bold(80)), 2)
      title == Text(r, name, Bold(160))
      subtitle == IF r.subtitle THEN Text(r, title, Regular(100)) ELSE title
  IN MoveDown(MetaLines(r, subtitle, r.meta, Regular(90)), 4)

\* Mutant: the page is left to PDFKit.
EnsureRoom_Never(r, p, needed) == p

\* addPage and head
FreshPage(r, p) == LET top == Headed(r) IN Pen(top.y, top.line, FALSE, p.bare + top.bare)

EnsureRoom(r, p, needed) == IF p.y + needed > Limit(r) THEN FreshPage(r, p) ELSE p

\* Mutant: room for the heading alone.
SectionRoom_Heading == 320000

SectionRoom == 600000
FootnoteRoom == 280000

DrawHeader(p) == Pen(p.y + HeaderBand, Bold(85), TRUE, p.bare)

Heading(r, p) ==
  MoveDown(Text(r, MoveDown(p, 3), Bold(110)), 2)

NoReport == [landscape |-> FALSE, subtitle |-> FALSE, meta |-> 0, headings |-> <<>>, footnote |-> FALSE]

ReportIdle ==
  /\ report = NoReport /\ section = 0 /\ left = 0 /\ part = "done"
  /\ pen = Pen(0, 0, FALSE, 0)

ReportInit ==
  /\ report \in ReportPdfs
  /\ section = 0 /\ left = 0 /\ part = "sections"
  /\ pen = Headed(report)

\* The sections of a week that is not started have no rows.
RowsIn(r) == IF r = WeeklyPdf(FALSE) THEN {0} ELSE RowCounts

\* A section of n rows is begun: its heading, and its column header or, with no rows, a
\* message in its place.
BeginSection ==
  /\ part = "sections" /\ section < Len(report.headings)
  /\ section' = section + 1
  /\ \E n \in RowsIn(report) :
       LET room == EnsureRoom(report, pen, SectionRoom)
           start == Pen(room.y, room.line, FALSE, room.bare)
           named == IF report.headings[section'] THEN Heading(report, start) ELSE start
           message == MoveDown(Text(report, named, Regular(90)), 4)
       IN /\ left' = n
          /\ pen' = IF n = 0 THEN message
                    ELSE DrawHeader(EnsureRoom(report, named, HeaderBand + RowHeight))
          /\ part' = IF n = 0 THEN "sections" ELSE "rows"
  /\ UNCHANGED report

\* Mutant: a new page continues the table without its header.
NewPage_Continues(r, p) == FreshPage(r, p)

NewPage(r, p) == DrawHeader(FreshPage(r, p))

\* A row is printed, on a new page under a new column header when it does not fit.
PrintRow ==
  /\ part = "rows" /\ left > 0
  /\ left' = left - 1
  /\ LET p == IF pen.y + RowHeight > Limit(report) THEN NewPage(report, pen) ELSE pen
     IN pen' = Pen(p.y + RowHeight, Regular(85), p.headed, p.bare)
  /\ UNCHANGED <<report, section, part>>

EndSection ==
  /\ part = "rows" /\ left = 0
  /\ pen' = MoveDown(pen, 6)
  /\ part' = "sections"
  /\ UNCHANGED <<report, section, left>>

Footnote ==
  /\ part = "sections" /\ section = Len(report.headings)
  /\ part' = "done"
  /\ pen' = IF report.footnote
            THEN Text(report, EnsureRoom(report, pen, FootnoteRoom), Regular(80))
            ELSE pen
  /\ UNCHANGED <<report, section, left>>

ReportNext == BeginSection \/ PrintRow \/ EndSection \/ Footnote
ReportSpec == ReportInit /\ [][ReportNext]_reportVars

-----------------------------------------------------------------------------
(* Properties *)

\* No page is turned by PDFKit: every page of a report begins with its head.
PagesAreHeaded == pen.bare = 0

\* Every row stands under a column header on its own page, above the space kept free
\* for the page number.
RowsAreHeaded ==
  part = "rows" => pen.headed /\ pen.y <= Limit(report)

\* The heading of a section is the last thing on a page only where between 60 and 60.83
\* points are left of it: 60 are kept free, while the heading, the column header and a row
\* take up to 60.83.  Otherwise the table it names begins below it.
HeadingsStay ==
  [][ /\ section' # section /\ left' > 0 /\ report.headings[section']
      => LET room == EnsureRoom(report, pen, SectionRoom)
         IN \/ pen'.y = Heading(report, room).y + HeaderBand
            \/ room.y + 600000 <= Limit(report) /\ Limit(report) < room.y + 608300 ]_reportVars
=============================================================================
