-------------------------- MODULE DestinationHistory --------------------------
(***************************************************************************)
(* Where every teacher is posted: the destination periods, and the two     *)
(* columns of the teacher row that mirror the open one.  Code:             *)
(* destination-history.service.ts and its callers in teacher.service.ts.   *)
(*                                                                         *)
(* A request is one READ COMMITTED transaction: a list of statements,      *)
(* known once its reads are done.  A transaction sees its own writes on    *)
(* top of what is committed, and a row it wrote is locked until it ends.   *)
(* An UPDATE picks its rows from what is committed when it starts, waits   *)
(* for their locks, and updates those that still satisfy its WHERE.        *)
(***************************************************************************)
EXTENDS Naturals, Sequences, FiniteSets, Functions, TLC

CONSTANTS
  Teachers,
  Dakos,
  NoDako,      \* NULL in teachers.current_destination_id
  Duties,      \* the duties at a dako: DESTINADO and KATUWANG
  Requests,    \* transactions that may be in flight at the same time
  MaxCalls     \* bound: requests that ever start

ASSUME NoDakoAssumption == NoDako \notin Dakos
ASSUME TeachersAssumption == IsFiniteSet(Teachers)
ASSUME DutiesAssumption == "NONE" \notin Duties
ASSUME CallsAssumption == MaxCalls \in Nat

VARIABLES
  teachers,     \* committed rows: current destination and duty of each teacher
  periods,      \* committed rows of destination_history, by id
  draft,        \* the periods each transaction wrote, by id
  teacherDraft, \* the teacher row it wrote: a set of at most one row
  call,         \* what it was asked for; period is the open period it read
  seen,         \* the teacher row it read
  todo,         \* its remaining statements
  candidates,   \* rows the UPDATE it is executing waits for
  calls,        \* requests that have started
  disturbed     \* history: the teachers on whom two transactions worked at
                \* once, or whose open period was corrected

dbVars == <<teachers, periods>>
ownVars == <<draft, teacherDraft>>
vars == <<dbVars, ownVars, call, seen, todo, candidates, calls, disturbed>>
ghostVars == <<calls, disturbed>>

DutyValues == Duties \union {"NONE"}   \* "NONE" stands for NULL
Ids == 1..(Cardinality(Teachers) + MaxCalls)

PeriodRows == [teacher : Teachers, dako : Dakos, duty : DutyValues, open : BOOLEAN]
TeacherRows == [current : Dakos \union {NoDako}, duty : DutyValues]

NoCall == [kind |-> "NONE"]
InFlight(p) == call[p] # NoCall
Others(p) == Requests \ {p}

\* Row versions over the table they replace rows of.
Over(rows, table) ==
  [i \in DOMAIN rows \union DOMAIN table |-> IF i \in DOMAIN rows THEN rows[i] ELSE table[i]]

\* What transaction p sees of the two tables.
PeriodsOf(p) == Over(draft[p], periods)
TeacherOf(p) == CHOOSE r \in teacherDraft[p] \union {teachers[call[p].teacher]} :
                  teacherDraft[p] # {} => r \in teacherDraft[p]

-----------------------------------------------------------------------------
(* The partial unique indexes: one open period per teacher and one per     *)
(* (dako, duty), an unlabelled period filling the slot ''.                 *)

Clash(r, s) ==
  /\ r.open /\ s.open
  /\ r.teacher = s.teacher \/ (r.dako = s.dako /\ r.duty = s.duty)

\* The key of new row version i is in, or is leaving, the index by a
\* transaction that has not ended.
IndexWaits(p, i, r) ==
  \E q \in Others(p) : \E j \in DOMAIN draft[q] \ {i} :
    \/ Clash(r, draft[q][j])
    \/ j \in DOMAIN periods /\ Clash(r, periods[j])

IndexViolated(p, i, r) ==
  \E j \in DOMAIN PeriodsOf(p) \ {i} : Clash(r, PeriodsOf(p)[j])

-----------------------------------------------------------------------------
End(p) ==
  /\ call' = [call EXCEPT ![p] = NoCall]
  /\ todo' = [todo EXCEPT ![p] = << >>]
  /\ draft' = [draft EXCEPT ![p] = << >>]
  /\ teacherDraft' = [teacherDraft EXCEPT ![p] = {}]
  /\ seen' = [seen EXCEPT ![p] = {}]
  /\ candidates' = [candidates EXCEPT ![p] = {}]

Rollback(p) == End(p) /\ UNCHANGED <<dbVars, ghostVars>>

\* Statement is done; rows are what it wrote to destination_history.
WritePeriods(p, rows) ==
  /\ \A i \in DOMAIN rows : ~IndexWaits(p, i, rows[i])
  /\ \/ /\ \E i \in DOMAIN rows : IndexViolated(p, i, rows[i])
        /\ Rollback(p)
     \/ /\ \A i \in DOMAIN rows : ~IndexViolated(p, i, rows[i])
        /\ draft' = [draft EXCEPT ![p] = Over(rows, draft[p])]
        /\ todo' = [todo EXCEPT ![p] = Tail(todo[p])]
        /\ candidates' = [candidates EXCEPT ![p] = {}]
        /\ UNCHANGED <<dbVars, teacherDraft, call, seen, ghostVars>>

At(p, s) == todo[p] # << >> /\ Head(todo[p]) = s
AtOneOf(p, S) == \E s \in S : At(p, s)

-----------------------------------------------------------------------------
(* The statements that read *)

\* closeDakoSlot
SlotPlan(duty) ==
  IF duty = "NONE" THEN <<"closeSlot">> ELSE <<"closeSlot", "closeUnlabelled">>

\* The teacher stays at the dako: only the duty changes, in the open period.
InPlace(t, open, c) == t.current = c.dako /\ open # {}

\* assignDestination, once the teacher row and the open period are read.
AssignPlan(t, open, c) ==
  IF InPlace(t, open, c)
  THEN IF \E o \in open : o.duty = c.duty
       THEN << >>
       ELSE SlotPlan(c.duty) \o <<"relabel", "setDuty">>
  ELSE (IF t.current # NoDako THEN <<"closeOwn">> ELSE << >>)
       \o SlotPlan(c.duty) \o <<"insert", "mirror">>

\* Mutant: updateTeacher does not call syncOpenPeriodDuty.
EditPlan_NoSync(prior, c) ==
  (IF c.dako \notin {NoDako, prior.current} THEN <<"readTeacher", "readOpen">> ELSE << >>)
  \o (IF c.duty = "NONE" THEN << >> ELSE <<"setDuty">>)

\* updateTeacher: the fields the form left out are NoDako and "NONE".
EditPlan(prior, c) ==
  (IF c.dako \notin {NoDako, prior.current} THEN <<"readTeacher", "readOpen">>
   ELSE IF c.duty \notin {"NONE", prior.duty} THEN <<"syncDuty">>
   ELSE << >>)
  \o (IF c.duty = "NONE" THEN << >> ELSE <<"setDuty">>)

ReadPrior(p) ==
  /\ At(p, "readPrior")
  /\ todo' = [todo EXCEPT ![p] = EditPlan(TeacherOf(p), call[p])]
  /\ call' = [call EXCEPT ![p].duty = IF @ = "NONE" THEN TeacherOf(p).duty ELSE @]
  /\ UNCHANGED <<dbVars, ownVars, seen, candidates, ghostVars>>

ReadTeacher(p) ==
  /\ At(p, "readTeacher")
  /\ seen' = [seen EXCEPT ![p] = {TeacherOf(p)}]
  /\ todo' = [todo EXCEPT ![p] = Tail(@)]
  /\ UNCHANGED <<dbVars, ownVars, call, candidates, ghostVars>>

OpenOf(p) == {i \in DOMAIN PeriodsOf(p) : /\ PeriodsOf(p)[i].teacher = call[p].teacher
                                          /\ PeriodsOf(p)[i].open}

ReadOpen(p) ==
  /\ At(p, "readOpen")
  /\ \E t \in seen[p] :
       LET open == {PeriodsOf(p)[i] : i \in OpenOf(p)} IN
       /\ todo' = [todo EXCEPT ![p] = AssignPlan(t, open, call[p]) \o Tail(@)]
       /\ call' = [call EXCEPT ![p].period =
                     IF InPlace(t, open, call[p]) THEN CHOOSE i \in OpenOf(p) : TRUE ELSE 0]
  /\ seen' = [seen EXCEPT ![p] = {}]
  /\ UNCHANGED <<dbVars, ownVars, candidates, ghostVars>>

-----------------------------------------------------------------------------
(* The statements that write periods *)

UpdateStatements == {"closeOwn", "closeSlot", "closeUnlabelled", "relabel",
                     "syncDuty", "correct", "correctEnd"}

\* Mutant: a dako has one slot, as before migration 0013.
InSlot_AnyDuty(r, c) == r.dako = c.dako

InSlot(r, c) == r.dako = c.dako /\ r.duty = c.duty

\* The WHERE of the statement.  closeSlot spares the period that is being
\* relabelled (0 if there is none), closeUnlabelled spares none.
Where(p, i) ==
  LET r == PeriodsOf(p)[i]
      c == call[p]
  IN CASE AtOneOf(p, {"closeOwn", "syncDuty"}) -> r.open /\ r.teacher = c.teacher
       [] At(p, "closeSlot") -> r.open /\ InSlot(r, c) /\ i # c.period
       [] At(p, "closeUnlabelled") -> r.open /\ r.dako = c.dako /\ r.duty = "NONE"
       [] OTHER -> i = c.period

\* The SET of the statement.
Updated(p, r) ==
  IF AtOneOf(p, {"relabel", "syncDuty", "correct"})
  THEN [r EXCEPT !.duty = call[p].duty]
  ELSE [r EXCEPT !.open = FALSE]

Matching(p) == {i \in DOMAIN PeriodsOf(p) : Where(p, i)}

RowsLocked(p, S) == \E q \in Others(p) : S \intersect DOMAIN draft[q] # {}

\* Rows picked when the statement began are updated if they still match.
WriteMatching(p, S) ==
  /\ ~RowsLocked(p, S)
  /\ WritePeriods(p, [i \in S \intersect Matching(p) |-> Updated(p, PeriodsOf(p)[i])])

Update(p) ==
  /\ AtOneOf(p, UpdateStatements)
  /\ candidates[p] = {}
  /\ WriteMatching(p, Matching(p))

WaitForRows(p) ==
  /\ AtOneOf(p, UpdateStatements)
  /\ candidates[p] = {}
  /\ RowsLocked(p, Matching(p))
  /\ candidates' = [candidates EXCEPT ![p] = Matching(p)]
  /\ UNCHANGED <<dbVars, ownVars, call, seen, todo, ghostVars>>

UpdateAfterWait(p) ==
  /\ candidates[p] # {}
  /\ WriteMatching(p, candidates[p])

Insert(p) ==
  /\ At(p, "insert")
  /\ LET used == DOMAIN periods \union UNION {DOMAIN draft[q] : q \in Requests} IN
     \E new \in Ids \ used :
       /\ \A j \in Ids : j < new => j \in used
       /\ WritePeriods(p, [i \in {new} |-> [teacher |-> call[p].teacher, dako |-> call[p].dako,
                                           duty |-> call[p].duty, open |-> TRUE]])

-----------------------------------------------------------------------------
(* The statements that write the teacher row *)

TeacherStatements == {"mirror", "setDuty", "setCurrent"}

UpdateTeacher(p) ==
  /\ AtOneOf(p, TeacherStatements)
  /\ \A q \in Others(p) :
       InFlight(q) /\ teacherDraft[q] # {} => call[q].teacher # call[p].teacher
  /\ LET r == TeacherOf(p) IN
     teacherDraft' = [teacherDraft EXCEPT ![p] =
       {[current |-> IF At(p, "setDuty") THEN r.current ELSE call[p].dako,
         duty    |-> IF At(p, "setCurrent") THEN r.duty ELSE call[p].duty]}]
  /\ todo' = [todo EXCEPT ![p] = Tail(@)]
  /\ UNCHANGED <<dbVars, draft, call, seen, candidates, ghostVars>>

Commit(p) ==
  /\ InFlight(p)
  /\ todo[p] = << >>
  /\ periods' = PeriodsOf(p)
  /\ teachers' = [teachers EXCEPT ![call[p].teacher] = TeacherOf(p)]
  /\ End(p)
  /\ UNCHANGED ghostVars

\* A statement fails, or PostgreSQL breaks a deadlock.
Fail(p) == InFlight(p) /\ Rollback(p)

-----------------------------------------------------------------------------
(* The calls *)

Running == {p \in Requests : InFlight(p)}

Start(p, c, statements) ==
  /\ ~InFlight(p)
  /\ calls < MaxCalls
  /\ calls' = calls + 1
  /\ call' = [call EXCEPT ![p] = c]
  /\ todo' = [todo EXCEPT ![p] = statements]
  /\ disturbed' = disturbed \union
       {t \in {c.teacher} : \/ \E q \in Running : call[q].teacher = t
                            \/ c.kind = "CORRECT" /\ periods[c.period].open}
  /\ UNCHANGED <<dbVars, ownVars, seen, candidates>>

Call(kind, t, d, u, i) ==
  [kind |-> kind, teacher |-> t, dako |-> d, duty |-> u, period |-> i]

\* changeCurrentDestination to a dako, which needs a duty.
Assign(p, t, d, u) ==
  Start(p, Call("ASSIGN", t, d, u, 0), <<"readTeacher", "readOpen", "setCurrent">>)

\* Mutant: a null destination is assigned like any other.
Clear_Assigns(p, t) ==
  Start(p, Call("CLEAR", t, NoDako, "NONE", 0), <<"readTeacher", "readOpen", "setCurrent">>)

\* changeCurrentDestination to null
Clear(p, t) ==
  Start(p, Call("CLEAR", t, NoDako, "NONE", 0), <<"closeOwn", "setCurrent">>)

\* updateTeacher
Edit(p, t, d, u) ==
  Start(p, Call("EDIT", t, d, u, 0), <<"readPrior">>)

\* correctPeriod: another duty, or an end date.
Correct(p, i, u) ==
  Start(p, Call("CORRECT", periods[i].teacher, NoDako, u, i), <<"correct">>)

CorrectEnd(p, i) ==
  Start(p, Call("CORRECT", periods[i].teacher, NoDako, "NONE", i), <<"correctEnd">>)

Step(p) ==
  \/ ReadPrior(p) \/ ReadTeacher(p) \/ ReadOpen(p)
  \/ Update(p) \/ WaitForRows(p) \/ UpdateAfterWait(p) \/ Insert(p) \/ UpdateTeacher(p)
  \/ Commit(p)

Next ==
  \E p \in Requests :
    \/ Step(p) \/ Fail(p)
    \/ \E t \in Teachers :
         \/ Clear(p, t)
         \/ \E d \in Dakos, u \in Duties : Assign(p, t, d, u)
         \/ \E d \in Dakos \union {NoDako}, u \in DutyValues :
              /\ d # NoDako \/ u # "NONE"
              /\ Edit(p, t, d, u)
    \/ \E i \in DOMAIN periods :
         \/ CorrectEnd(p, i)
         \/ \E u \in DutyValues : Correct(p, i, u)

\* Any table that earlier requests, one at a time, can have left: a teacher with
\* a destination may have lost the period to another (or, before migration 0005,
\* never had one), and periods from before 0013 can be unlabelled.
Init ==
  /\ teachers \in [Teachers -> TeacherRows]
  /\ \E held \in SUBSET {t \in Teachers : teachers[t].current # NoDako} :
       \E id \in Bijection(held, 1..Cardinality(held)) :
         /\ \A t, s \in held : teachers[t] = teachers[s] => t = s
         /\ periods = [i \in 1..Cardinality(held) |->
              LET t == CHOOSE s \in held : id[s] = i
              IN [teacher |-> t, dako |-> teachers[t].current,
                  duty |-> teachers[t].duty, open |-> TRUE]]
  /\ draft = [p \in Requests |-> << >>]
  /\ teacherDraft = [p \in Requests |-> {}]
  /\ call = [p \in Requests |-> NoCall]
  /\ seen = [p \in Requests |-> {}]
  /\ todo = [p \in Requests |-> << >>]
  /\ candidates = [p \in Requests |-> {}]
  /\ calls = 0
  /\ disturbed = {}

Spec == Init /\ [][Next]_vars

-----------------------------------------------------------------------------
(* Properties *)

\* The variables hold rows of their tables; ids of periods are never invented.
TypeOK ==
  /\ teachers \in [Teachers -> TeacherRows]
  /\ DOMAIN periods \subseteq Ids
  /\ \A i \in DOMAIN periods : periods[i] \in PeriodRows
  /\ \A p \in Requests :
       /\ DOMAIN draft[p] \subseteq Ids
       /\ \A i \in DOMAIN draft[p] : draft[p][i] \in PeriodRows
       /\ teacherDraft[p] \subseteq TeacherRows /\ seen[p] \subseteq TeacherRows
       /\ candidates[p] \subseteq DOMAIN PeriodsOf(p)
       /\ ~InFlight(p) => todo[p] = << >>

\* teachers.current_destination_id and teachers.duty mirror the open period
\* (destination-history.service.ts:21) for every teacher whose own requests
\* never overlapped and whose periods nobody corrected, however many requests
\* displace the teacher from outside.
RelationshipMirrored ==
  \A i \in DOMAIN periods :
    LET r == periods[i] IN
    r.open /\ r.teacher \notin disturbed =>
      teachers[r.teacher] = [current |-> r.dako, duty |-> r.duty]

Commits(p) == InFlight(p) /\ ~InFlight(p)' /\ dbVars' # dbVars

\* A request ends the period of another teacher only in the slot it fills: the
\* same dako, and the same duty or none; a Destinado never displaces a Katuwang.
DisplacesOwnSlotOnly ==
  [][\A p \in Requests : Commits(p) =>
       \A i \in DOMAIN periods :
         periods[i].open /\ ~periods'[i].open /\ periods[i].teacher # call[p].teacher
           => /\ periods[i].dako = call[p].dako
              /\ periods[i].duty \in {call[p].duty, "NONE"}]_vars

\* The tables hold what the schema allows, and the mirror columns what the periods say
\* (destination-history.service.ts:21), between any two requests.
TablesAgree == TypeOK /\ RelationshipMirrored
=============================================================================
