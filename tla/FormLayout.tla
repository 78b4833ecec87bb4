--------------------------------- MODULE FormLayout ---------------------------------
(***************************************************************************)
(* The two printed sheets of a week: the Suguan form, one table that has   *)
(* to stay on one page whatever the number of dakos, and the Patotoo slip  *)
(* pages after it, each with the same slip in both halves.                 *)
(*                                                                         *)
(* The drawing is walked row by row, as the code does it with a pen of     *)
(* explicit coordinates.  Lengths of the form are in hundredths of a point *)
(* and those of a slip in thousandths.                                     *)
(***************************************************************************)
EXTENDS Naturals, Sequences

CONSTANTS
  DakoCounts,       \* bound: numbers of dakos of a form
  ReservistCounts,  \* bound: numbers of rows with a RESERBA II teacher
  TextWidths        \* bound: widths of a value of a slip, in thousandths of its font size

ASSUME LayoutAssumption ==
  /\ DakoCounts \subseteq Nat
  /\ ReservistCounts \subseteq Nat
  /\ TextWidths \subseteq Nat

VARIABLES
  form,   \* [dakos, reservists, pitch]: what is printed, and the height of a body row
  todo,   \* the rows of the table still to be drawn
  y,      \* the bottom of what is drawn
  right,  \* where the last row ended
  fit,    \* the value being fitted: [key, width, size], or the size it was given
  slip    \* [copy, todo, marks]: the copies of a slip

layoutVars == <<form, todo, y, right, fit, slip>>

\* No row has more than eight cells.
Sum(s) ==
  LET Width(i) == IF i <= Len(s) THEN s[i] ELSE 0
  IN Width(1) + Width(2) + Width(3) + Width(4) + Width(5) + Width(6) + Width(7) + Width(8)

Larger(a, b) == IF a > b THEN a ELSE b
Smaller(a, b) == IF a < b THEN a ELSE b

-----------------------------------------------------------------------------
(* Page 1 *)

Table == [left |-> 1750, width |-> 56160, top |-> 5430, bottom |-> 87210, height |-> 81780]
MetaRow == 2623
HeadingBand == 2760
HeaderRow == [A |-> 1620, B |-> 1620, C |-> 1440, D |-> 1440]
Spacer == 1200
SigSpace == 4259
SigRole == 1443
BodyRow == 1620
RowFloor == 400
CMinRows == 5
FooterTop == 90860 - 790   \* the baseline of the revision line less its ascender

MetaCells == <<8160, 4980, 6230, 10020, 7520, 7050, 7220, 4980>>
ABColumns == <<8160, 4980, 16250, 13385, 13385>>
DColumns == <<8160, 21230, 14570, 12200>>
SigCells == <<31140 - Table.left, Table.left + Table.width - 31140>>
\* Mutant: C keeps the column the form no longer has.
Columns_WithPagtupad == [A |-> ABColumns, B |-> ABColumns, C |-> Append(ABColumns, 7050), D |-> DColumns]

Columns == [A |-> ABColumns, B |-> ABColumns, C |-> ABColumns, D |-> DColumns]

\* C prints only when a RESERBA II teacher exists, and then has five rows at least;
\* D has four SUGO rows, a blank row and two RESERBA rows.
PrintsC(f) == f.reservists > 0
RowsOf(f, s) ==
  CASE s \in {"A", "B"} -> f.dakos
    [] s = "C" -> Larger(f.reservists, CMinRows)
    [] s = "D" -> 4 + 1 + 2

\* Mutant: the blank row of D is not counted.
BodyRowCount_NoBlank(f) ==
  2 * f.dakos + (IF PrintsC(f) THEN Larger(f.reservists, CMinRows) ELSE 0) + 4 + 2

BodyRowCount(f) ==
  2 * f.dakos + (IF PrintsC(f) THEN Larger(f.reservists, CMinRows) ELSE 0) + 4 + 1 + 2

FixedHeight(f) ==
  MetaRow + HeadingBand * (IF PrintsC(f) THEN 4 ELSE 3) + HeaderRow.A * 2
    + HeaderRow.C * (IF PrintsC(f) THEN 2 ELSE 1) + Spacer + SigSpace + SigRole

\* Math.floor(share * 100) in floating point: a share that is a whole number of
\* hundredths may come out one lower.
Floors(a, n) == {a \div n} \union (IF a % n = 0 THEN {(a \div n) - 1} ELSE {})

\* Mutant: the share is rounded to the nearest hundredth.
Pitches_Rounded(f) ==
  LET room == Table.height - FixedHeight(f)
      n == Larger(BodyRowCount(f), 1)
  IN {Larger(RowFloor, Smaller(BodyRow, (room + n \div 2) \div n))}

Pitches(f) ==
  {Larger(RowFloor, Smaller(BodyRow, h)) :
     h \in Floors(Table.height - FixedHeight(f), Larger(BodyRowCount(f), 1))}

\* fitsAvailableHeight
Fits(f) == FixedHeight(f) + BodyRowCount(f) * f.pitch <= Table.height + 1

DrawnSection(f, s) ==
  <<[of |-> s, part |-> "heading", height |-> HeadingBand, widths |-> Columns[s]],
    [of |-> s, part |-> "header", height |-> HeaderRow[s], widths |-> Columns[s]]>>
  \o [i \in 1..RowsOf(f, s) |-> [of |-> s, part |-> "row", height |-> f.pitch, widths |-> Columns[s]]]

Band(part, height, widths) == <<[of |-> "form", part |-> part, height |-> height, widths |-> widths]>>

\* drawMetadata, drawSection for each section, the spacer and drawSignatureSection
Drawing(f) ==
  Band("meta", MetaRow, MetaCells)
  \o DrawnSection(f, "A") \o DrawnSection(f, "B")
  \o (IF PrintsC(f) THEN DrawnSection(f, "C") ELSE <<>>)
  \o DrawnSection(f, "D")
  \o Band("spacer", Spacer, <<Table.width>>)
  \o Band("signing", SigSpace, SigCells)
  \o Band("role", SigRole, SigCells)

\* The line a cell's text stands on, from the top of its row: the font size is 10.
Baseline(height) == (height + 718) \div 2

NoForm == [dakos |-> 0, reservists |-> 1, pitch |-> 0]   \* no week has more reservists than dakos

FormInit ==
  /\ form \in {[dakos |-> n, reservists |-> c, pitch |-> 0] : n \in DakoCounts,
                                                            c \in ReservistCounts}
  /\ form.reservists <= form.dakos
  /\ todo = <<>> /\ y = 0 /\ right = 0

\* buildPrintedForm
BuildForm ==
  /\ form # NoForm
  /\ form.pitch = 0
  /\ \E h \in Pitches(form) : form' = [form EXCEPT !.pitch = h]
  /\ todo' = Drawing(form')
  /\ y' = Table.top
  /\ right' = Table.left + Table.width
  /\ UNCHANGED <<fit, slip>>

\* drawRow
DrawRow ==
  /\ todo # <<>>
  /\ y' = y + Head(todo).height
  /\ right' = Table.left + Sum(Head(todo).widths)
  /\ todo' = Tail(todo)
  /\ UNCHANGED <<form, fit, slip>>

-----------------------------------------------------------------------------
(* The slip pages *)

\* Reference coordinates are scaled from the width 531.4 to 612 - 2 * 31.9.
Scaled(x) == (x * 5482) \div 5314
HalfHeight == 468000
CopyHeight == Scaled(340890)
\* Mutant: the second copy begins where the first one ends.
CopyTop_Stacked(copy) == copy * CopyHeight + (HalfHeight - CopyHeight) \div 2

CopyTop(copy) == copy * HalfHeight + (HalfHeight - CopyHeight) \div 2
SlipY(ref, copy) == CopyTop(copy) + Scaled(ref - 24210)

MinTextSize == 6000
FitStep == 250
Hundredths(x) == ((x + 5) \div 10) * 10   \* Number(x.toFixed(2))

\* The size a value begins with, and the room its cell leaves it.
Cell(left, rightEdge, inset) == Scaled(rightEdge - left) - Scaled(inset + 2500)
Fields ==
  [pangalan  |-> [size |-> 15570, room |-> Cell(31300, 262380, 3300)],
   dako      |-> [size |-> 14000, room |-> Cell(31300, 152150, 0)],
   weekYear  |-> [size |-> 17300, room |-> Cell(444650, 562300, 0)],
   petsa     |-> [size |-> 14000, room |-> Cell(152150, 262380, 0)],
   oras      |-> [size |-> 14000, room |-> Cell(262380, 354430, 0)],
   gampaning |-> [size |-> 14000, room |-> Cell(444650, 562300, 0)],
   ministro  |-> [size |-> 9515,  room |-> (562700 - 415550) - Scaled(2500)]]

TooWide(f, size) == f.width * size > Fields[f.key].room * 1000

NoFit == [key |-> "none", width |-> 0, size |-> 0]
NoSlip == [copy |-> 0, todo |-> <<>>, marks |-> [c \in 0..1 |-> <<>>], oversize |-> FALSE]

\* What is drawn of a copy, by its height on the reference: the seal, the title, the
\* frame and the field band ...
UpperMarks == <<24210, 83160, 41800, 72400, 89130, 135530, 103630, 129420>>
\* ... and the headers, the data row, the declaration, the signing line and the footer.
LowerMarks == <<180950, 163630, 153420, 173830, 154420, 170020, 247550, 219250, 267850,
                283080, 298470, 259050, 310580, 354780, 346670, 348670, 363080>>

SlipInit ==
  /\ slip = NoSlip
  /\ fit \in {[key |-> k, width |-> w, size |-> Fields[k].size] : k \in DOMAIN Fields, w \in TextWidths}

\* The loop of fitSingleLine.
Shrink ==
  /\ fit # NoFit
  /\ slip.todo = <<>> /\ slip.marks = NoSlip.marks
  /\ fit.size > MinTextSize
  /\ TooWide(fit, fit.size)
  /\ fit' = [fit EXCEPT !.size = Larger(MinTextSize, Hundredths(@ - FitStep))]
  /\ UNCHANGED <<form, todo, y, right, slip>>

\* The value has its size, or is reported: the page is added and the first copy begun.
AddPage ==
  /\ fit # NoFit
  /\ slip.todo = <<>> /\ slip.marks = NoSlip.marks
  /\ fit.size <= MinTextSize \/ ~TooWide(fit, fit.size)
  /\ slip' = [slip EXCEPT !.todo = UpperMarks \o LowerMarks,
                          !.oversize = fit.size <= MinTextSize /\ TooWide(fit, MinTextSize)]
  /\ UNCHANGED <<form, todo, y, right, fit>>

\* drawSlipCopy, mark by mark; the second copy reuses the sizes of the first.
DrawMark ==
  /\ slip.todo # <<>>
  /\ slip' = [slip EXCEPT
       !.marks[slip.copy] = Append(@, [at |-> SlipY(Head(slip.todo), slip.copy), size |-> fit.size]),
       !.todo = Tail(@)]
  /\ UNCHANGED <<form, todo, y, right, fit>>

SecondCopy ==
  /\ slip.todo = <<>> /\ slip.marks # NoSlip.marks /\ slip.copy = 0
  /\ slip' = [slip EXCEPT !.copy = 1, !.todo = UpperMarks \o LowerMarks]
  /\ UNCHANGED <<form, todo, y, right, fit>>

-----------------------------------------------------------------------------

FormIdle == form = NoForm /\ todo = <<>> /\ y = 0 /\ right = 0
SlipIdle == fit = NoFit /\ slip = NoSlip
LayoutIdle == FormIdle /\ SlipIdle
LayoutInit == (FormInit /\ SlipIdle) \/ (FormIdle /\ SlipInit)
LayoutNext == BuildForm \/ DrawRow \/ Shrink \/ AddPage \/ DrawMark \/ SecondCopy
LayoutSpec == LayoutInit /\ [][LayoutNext]_layoutVars

-----------------------------------------------------------------------------
(* Properties *)

\* The form promises that its table fits exactly when what is drawn does: the heights
\* added up beforehand are those of the rows the pen goes through.
FitIsForeseen ==
  form.pitch # 0 /\ todo = <<>> => (Fits(form) <=> y <= Table.bottom + 1)

\* Rows are as tall as the reference's unless the week is too dense, and never so dense
\* in a lokal of up to 60 dakos that the table leaves the page or its revision line is
\* overprinted.
PitchGivesWay ==
  form.pitch # 0 =>
    /\ FixedHeight(form) + BodyRowCount(form) * BodyRow <= Table.height => form.pitch >= BodyRow - 1
    /\ form.dakos <= 60 /\ form.reservists <= 5 => y <= Table.bottom + 1 /\ y < FooterTop
    /\ form.dakos <= 30 /\ form.reservists <= 5 => Baseline(form.pitch) <= form.pitch

\* Every row of every section closes on the right border.
BorderIsStraight == form.pitch # 0 => right = Table.left + Table.width

\* The ORIGINAL and the DUPLICATE are the same slip half a page apart, each inside its
\* half, and every value stays inside its cell unless it was reported.
CopiesAreAlike ==
  LET original == slip.marks[0]
      duplicate == slip.marks[1]
  IN /\ \A i \in DOMAIN original : original[i].at \in 0..HalfHeight
     /\ \A i \in DOMAIN duplicate :
          /\ duplicate[i].at \in HalfHeight..(2 * HalfHeight)
          /\ duplicate[i] = [original[i] EXCEPT !.at = @ + HalfHeight]
     /\ original # <<>> => slip.oversize \/ ~TooWide(fit, fit.size)
=============================================================================
