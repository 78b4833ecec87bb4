--------------------------------- MODULE WeekPapers ---------------------------------
(***************************************************************************)
(* What is printed of a week: the Suguan form with its Patotoo slips and   *)
(* the weekly report, each put together from several statements outside a  *)
(* transaction, and the annual tables and the source summary, one          *)
(* statement each.  Meanwhile the schedule is edited, dakos are disabled   *)
(* and enabled, and the week is published or not.                          *)
(*                                                                         *)
(* The plans a week goes through are given: every committed edit leaves    *)
(* one of them, and the unique indexes hold in each.                       *)
(***************************************************************************)
EXTENDS Naturals, FiniteSets, Sequences, SequencesExt

CONSTANTS
  Dakos,         \* numbered in the order of their codes
  Teachers,
  Plans,         \* bound: what the assignments of the week may be
  Rosters,       \* bound: what the Magtuturo records of the week may be
  MaxEdits       \* bound: changes while a document is made

Types == {"SUGO", "RESERBA", "RESERBA_II"}
Sources == {"AUTO", "MANUAL", "OVERRIDE", "HISTORICAL"}
Nobody == "nobody"

ASSUME PapersAssumption ==
  /\ Dakos \subseteq Nat /\ IsFiniteSet(Dakos)
  /\ Nobody \notin Teachers
  /\ \A plan \in Plans : IsFiniteSet(plan) /\ \A r \in plan :
       /\ r.dako \in Dakos /\ r.type \in Types /\ r.teacher \in Teachers /\ r.source \in Sources
       /\ \A q \in plan \ {r} : q.teacher # r.teacher /\ (q.dako # r.dako \/ q.type # r.type)

VARIABLES
  weekStatus,
  activeDakos, \* dakos with status ACTIVE
  rows,        \* the assignments of the week
  roster,      \* the Magtuturo records: [mag, seat, teacher]
  historical,  \* the week is before go-live
  closedLater, \* dakos that were disabled after the end of the week
  edits,
  phase,       \* of the request for a document
  vm,          \* what it has read
  paper,       \* what it has made
  steady,      \* history: [rows, active], those that stayed since the request began
  seen         \* history: all assignments there were since

paperVars == <<weekStatus, activeDakos, rows, roster, historical, closedLater, edits,
               phase, vm, paper, steady, seen>>
worldVars == <<weekStatus, activeDakos, rows, roster, historical, closedLater, edits>>

NothingRead == [status |-> "none", dakos |-> {}, got |-> {}, rows |-> {}, mag |-> {},
                plan |-> [s \in {} |-> Nobody]]
NoPaper == [kind |-> "none"]

PapersInit ==
  /\ weekStatus \in {"DRAFT", "PUBLISHED"}
  /\ activeDakos = Dakos
  /\ rows \in Plans
  /\ roster \in Rosters
  /\ historical \in BOOLEAN
  /\ closedLater \in SUBSET Dakos
  /\ edits = 0
  /\ phase = "idle" /\ vm = NothingRead /\ paper = NoPaper
  /\ steady = [rows |-> rows, active |-> activeDakos] /\ seen = rows

PapersIdle ==
  /\ weekStatus = "none" /\ activeDakos = {} /\ rows = {} /\ roster = {} /\ historical = FALSE
  /\ closedLater = {} /\ edits = 0 /\ phase = "done" /\ vm = NothingRead /\ paper = NoPaper
  /\ steady = [rows |-> {}, active |-> {}] /\ seen = {}

-----------------------------------------------------------------------------
(* The others *)

Change ==
  /\ phase \notin {"idle", "done"}
  /\ edits < MaxEdits
  /\ edits' = edits + 1
  /\ UNCHANGED <<historical, closedLater, phase, vm, paper>>

\* An edit, a generation or a clear commits.
EditPlan ==
  /\ Change
  /\ rows' \in Plans \ {rows}
  /\ steady' = [steady EXCEPT !.rows = @ \intersect rows']
  /\ seen' = seen \union rows'
  /\ UNCHANGED <<weekStatus, activeDakos, roster>>

EditRoster ==
  /\ Change
  /\ roster' \in Rosters \ {roster}
  /\ UNCHANGED <<weekStatus, activeDakos, rows, steady, seen>>

\* setDakoStatus
SetDakoStatus ==
  /\ Change
  /\ \E d \in Dakos : activeDakos' = IF d \in activeDakos THEN activeDakos \ {d} ELSE activeDakos \union {d}
  /\ steady' = [steady EXCEPT !.active = @ \intersect activeDakos']
  /\ UNCHANGED <<weekStatus, rows, roster, seen>>

SetWeekStatus ==
  /\ Change
  /\ weekStatus' \in {"DRAFT", "PUBLISHED"} \ {weekStatus}
  /\ UNCHANGED <<activeDakos, rows, roster, steady, seen>>

-----------------------------------------------------------------------------
(* The form *)

Begin(next) ==
  /\ phase = "idle"
  /\ phase' = next
  /\ vm' = [NothingRead EXCEPT !.status = weekStatus]
  /\ UNCHANGED <<worldVars, paper, steady, seen>>

\* The week row is read first; then the dakos and the assignments, over two connections.
BeginForm == Begin("form")

\* Mutant: a statement for each section.
Statement_BySection(got) == {{t} : t \in Types \ got}

\* listAssignmentsForWeek: one statement reads the rows of all sections.
Statement(got) == {Types}

ReadRows ==
  /\ phase \in {"form", "report"} /\ ~(Types \subseteq vm.got)
  /\ \E types \in Statement(vm.got) :
       vm' = [vm EXCEPT !.got = @ \union types, !.rows = @ \union {r \in rows : r.type \in types}]
  /\ UNCHANGED <<worldVars, phase, paper, steady, seen>>

\* Mutant: the dakos of today.
Applicable_Active == activeDakos

\* A dako that is not ACTIVE was there in a week before go-live if it is recorded that
\* it was disabled later.
Applicable == activeDakos \union (IF historical THEN closedLater ELSE {})

ReadDakos ==
  /\ phase = "form" /\ "dakos" \notin vm.got
  /\ vm' = [vm EXCEPT !.got = @ \union {"dakos"}, !.dakos = Applicable]
  /\ UNCHANGED <<worldVars, phase, paper, steady, seen>>

\* A set of numbers in its order.
InOrder(S) == CHOOSE q \in SetToSeqs(S) : \A i, j \in DOMAIN q : i < j => q[i] < q[j]

\* The rows of a section: every dako in order, with its teacher or nobody.
Lines(read, type) ==
  LET order == InOrder(read.dakos)
      Who(d) == {r.teacher : r \in {q \in read.rows : q.dako = d /\ q.type = type}}
  IN [i \in DOMAIN order |->
        [dako |-> order[i], who |-> IF Who(order[i]) = {} THEN Nobody ELSE CHOOSE t \in Who(order[i]) : TRUE]]

Named(lines) ==
  LET at == InOrder({i \in DOMAIN lines : lines[i].who # Nobody})
  IN [i \in DOMAIN at |-> lines[at[i]]]

\* Seats 1 to 4 are SUGO and 5 and 6 RESERBA; the gaps of a kind close up.
SeatLines(mag) ==
  LET Of(kind) == SetToSortSeq({m \in mag : m.mag = kind}, LAMBDA a, b : a.seat < b.seat)
      Line(seq, i) == IF i \in DOMAIN seq THEN seq[i].teacher ELSE Nobody
  IN [i \in 1..6 |-> IF i <= 4 THEN Line(Of("SUGO"), i) ELSE Line(Of("RESERBA"), i - 4)]

\* buildWeeklySuguanViewModel, when everything is read.
ViewModel(read) ==
  [a |-> Lines(read, "SUGO"), b |-> Lines(read, "RESERBA"), c |-> Named(Lines(read, "RESERBA_II")),
   d |-> SeatLines(read.mag), draft |-> read.status = "DRAFT"]

Slip(line, type) == [dako |-> line.dako, who |-> line.who, type |-> type]

\* buildSuguanSlips
Slips(form) ==
  LET Of(lines, type) == [i \in DOMAIN Named(lines) |-> Slip(Named(lines)[i], type)]
  IN Of(form.a, "SUGO") \o Of(form.b, "RESERBA") \o Of(form.c, "RESERBA_II")

\* Mutant: the slips are looked up when they are printed.
SlipSource_Again(read) == [read EXCEPT !.rows = rows]

\* The slips come from what page 1 was made of.
SlipSource(read) == read

\* The Magtuturo records are read last, and the document is rendered from what was read.
PrintForm ==
  /\ phase = "form" /\ vm.got = Types \union {"dakos"}
  /\ vm' = [vm EXCEPT !.mag = roster]
  /\ paper' = [kind |-> "form", form |-> ViewModel(vm'), slips |-> Slips(ViewModel(SlipSource(vm')))]
  /\ phase' = "done"
  /\ UNCHANGED <<worldVars, steady, seen>>

-----------------------------------------------------------------------------
(* The weekly report *)

BeginReport == Begin("report")

\* previewSchedule: a proposal for every slot of an ACTIVE dako, with a teacher or with
\* a reason for none; or it fails, and the report goes without.
Proposals ==
  {[s \in activeDakos \X Types |-> t] : t \in {Nobody} \union Teachers} \union {[s \in {} |-> Nobody]}

ReportSlot(read, s) ==
  LET hit == {r \in read.rows : <<r.dako, r.type>> = s}
  IN [slot |-> s,
      who |-> IF hit = {} THEN Nobody ELSE (CHOOSE r \in hit : TRUE).teacher,
      source |-> IF hit = {} THEN "none" ELSE (CHOOSE r \in hit : TRUE).source,
      planned |-> hit = {} /\ s \in DOMAIN read.plan /\ read.plan[s] # Nobody]

\* Mutant: only the slots of the plan.
ReportSlots_OfPlan(read) == DOMAIN read.plan

\* The slots of the plan and those of the rows it leaves out.
ReportSlots(read) == DOMAIN read.plan \union {<<r.dako, r.type>> : r \in read.rows}

WeeklyReport(read) ==
  LET all == {ReportSlot(read, s) : s \in ReportSlots(read)}
      assigned == {x \in all : x.who # Nobody}
  IN [slots |-> all,
      assigned |-> Cardinality(assigned),
      unassigned |-> Cardinality(all) - Cardinality(assigned),
      bySource |-> [q \in Sources |-> Cardinality({x \in assigned : x.source = q})]]

PrintReport ==
  /\ phase = "report" /\ vm.got = Types
  /\ \E plan \in Proposals : vm' = [vm EXCEPT !.plan = plan]
  /\ paper' = [kind |-> "report", report |-> WeeklyReport(vm')]
  /\ phase' = "done"
  /\ UNCHANGED <<worldVars, steady, seen>>

-----------------------------------------------------------------------------
(* Reports of one statement *)

OfSources(count) == count["AUTO"] + count["MANUAL"] + count["OVERRIDE"] + count["HISTORICAL"]
OfTypes(count) == count["SUGO"] + count["RESERBA"] + count["RESERBA_II"]

\* annualTypeReport, of the weeks there are: this one.
AnnualReport(type) ==
  LET of == {r \in rows : r.type = type}
      bySource == [q \in Sources |-> Cardinality({r \in of : r.source = q})]
  IN [rows |-> of, bySource |-> bySource,
      total |-> OfSources(bySource),
      dakos |-> {r.dako : r \in of}]

\* Mutant: what was recorded in a backfill is counted with what was entered by hand.
SourceSummary_Remapped ==
  LET Of(r) == IF r.source = "HISTORICAL" THEN "MANUAL" ELSE r.source
      bySource == [q \in Sources |-> Cardinality({r \in rows : Of(r) = q})]
  IN [bySource |-> bySource, total |-> Cardinality(rows)]

\* sourceSummaryReport
SourceSummary ==
  LET crossTab == [q \in Sources |-> [t \in Types |-> Cardinality({r \in rows : r.source = q /\ r.type = t})]]
      bySource == [q \in Sources |-> OfTypes(crossTab[q])]
  IN [crossTab |-> crossTab, bySource |-> bySource, total |-> OfSources(bySource)]

\* buildAnnualSchedule: the dakos met in the rows, each in all three tables.
AnnualSchedule ==
  LET met == {r.dako : r \in rows}
      Cell(d, type) ==
        LET hit == {r \in rows : r.dako = d /\ r.type = type}
        IN IF hit = {} THEN Nobody ELSE (CHOOSE r \in hit : TRUE).teacher
  IN [type \in Types |-> [d \in met |-> Cell(d, type)]]

\* teacherAssignmentReport and dakoAssignmentReport
TeacherHistory(t) == {r \in rows : r.teacher = t}
DakoHistory(d) == {r \in rows : r.dako = d}

PapersNext ==
  \/ EditPlan \/ EditRoster \/ SetDakoStatus \/ SetWeekStatus
  \/ BeginForm \/ ReadRows \/ ReadDakos \/ PrintForm
  \/ BeginReport \/ PrintReport

PapersSpec == PapersInit /\ [][PapersNext]_paperVars

-----------------------------------------------------------------------------
(* Properties *)

Assigned(form) == Range(Slips(form))

\* Whatever changes while the form is made, nobody stands on it twice, it shows every
\* assignment that stayed all the time at a dako that stayed ACTIVE, and none that
\* never was.
FormIsTruthful ==
  paper.kind = "form" =>
    LET shown == Assigned(paper.form) IN
    /\ \A x \in shown : \A z \in shown \ {x} : x.who # z.who
    /\ \A r \in steady.rows :
         r.dako \in steady.active => [dako |-> r.dako, who |-> r.teacher, type |-> r.type] \in shown
    /\ \A x \in shown : \E r \in seen : r.dako = x.dako /\ r.teacher = x.who /\ r.type = x.type

\* Every slip acknowledges a line of the page before it, once and in its order.
SlipsMatchForm ==
  paper.kind = "form" =>
    /\ paper.slips = Slips(paper.form)
    /\ \A i, j \in DOMAIN paper.slips : i # j => paper.slips[i].who # paper.slips[j].who

\* A dako that closed after a week of before go-live is still on the form of that week.
PastDakosStay ==
  paper.kind = "form" /\ historical =>
    closedLater \subseteq {paper.form.a[i].dako : i \in DOMAIN paper.form.a}

\* The weekly report counts every slot once, names whoever is assigned and nobody who is
\* only proposed, and misses no assignment, though the plan it is merged with is
\* computed later.
ReportIsTruthful ==
  paper.kind = "report" =>
    LET slots == paper.report.slots IN
    /\ Cardinality({x.slot : x \in slots}) = Cardinality(slots)
    /\ \A r \in vm.rows : \E x \in slots : x.slot = <<r.dako, r.type>> /\ x.who = r.teacher
    /\ \A x \in slots : x.who # Nobody =>
         \E r \in seen : x.slot = <<r.dako, r.type>> /\ x.who = r.teacher
    /\ paper.report.assigned = Cardinality(vm.rows)
    /\ OfSources(paper.report.bySource) = paper.report.assigned

\* The reports over the same assignments tell the same: by type, by source, by teacher,
\* by dako and cell by cell.
ReportsAgree ==
  /\ SourceSummary.total = OfTypes([t \in Types |-> AnnualReport(t).total])
  /\ \A q \in Sources :
       SourceSummary.bySource[q] = OfTypes([t \in Types |-> AnnualReport(t).bySource[q]])
  /\ \A r \in rows :
       /\ AnnualSchedule[r.type][r.dako] = r.teacher
       /\ TeacherHistory(r.teacher) = {r}
       /\ r \in DakoHistory(r.dako)
  /\ \A type \in Types :
       Cardinality({d \in DOMAIN AnnualSchedule[type] : AnnualSchedule[type][d] # Nobody})
         = AnnualReport(type).total
=============================================================================
