-------------------------------- MODULE WeekEditing --------------------------------
(***************************************************************************)
(* The assignments of one week, edited by requests that overlap: by hand   *)
(* (assignment.service.ts), by a generation (scheduling.service.ts) or by  *)
(* the backfill of a week before go-live (historical.service.ts), together *)
(* with the availability they read and write; and the creation of the row  *)
(* of the week itself (week.service.ts).                                   *)
(*                                                                         *)
(* The gate of a FINALIZED or PUBLISHED week is the subject of             *)
(* ScheduleCorrection: here the schedule is changed while the week is      *)
(* DRAFT.  Which teachers a generation prefers is that of Generation: here *)
(* it may insert any rows that its context allows.                         *)
(***************************************************************************)
EXTENDS Availability

CONSTANTS
  Dakos, Types,   \* the dakos are ACTIVE
  Batches,       \* slots and teachers a backfill may be asked to record
  EnglishDakos, FilipinoTeachers,
  AbsentLast,    \* teachers ABSENT in the week before
  BeforeOath     \* teachers whose oath is after this week

Slots == Dakos \X Types

ASSUME BatchesAssumption == Batches \subseteq SUBSET (Slots \X Teachers)

VARIABLES
  weekRow,     \* the row of weeks exists
  creating,    \* createWeek that has inserted it and not committed, or NoRequest
  historical,  \* the week is before the go-live of scheduling
  rows,        \* the assignments of the week
  log,         \* audit rows of generations and clears
  failed       \* history: getOrCreateWeek found no row at all

editVars == <<weekRow, creating, historical, rows, log, failed>>
vars == <<weekVars, availVars, requestVars, editVars>>
tableVars == <<weekRow, creating, historical, log, failed>>

\* id: the call and the slot it was inserted for; born: its first source.
Row(id, s, t, source) == [id |-> <<id, s>>, slot |-> s, teacher |-> t, source |-> source,
                          born |-> source]

ById(id) == {r \in rows : r.id = id}

\* The unique indexes (week, dako, type) and (week, teacher).
Free(s, t, others) == \A r \in others : r.slot # s /\ r.teacher # t

-----------------------------------------------------------------------------
(* Rules *)

Speaks(t, d) == d \in EnglishDakos => t \notin FilipinoTeachers

\* violatedRulesFor; a connection of its own reads the week before.
Violated(t, s, except) ==
  (IF t \in MasterInactive THEN {"TEACHER_INACTIVE_MASTER"} ELSE {})
  \union (CASE avail[t] = "NONE" -> {"NOT_ENCODED"} [] avail[t] = "ABSENT" -> {"WEEKLY_ABSENT"}
            [] avail[t] = "INACTIVE" -> {"WEEKLY_INACTIVE"} [] OTHER -> {})
  \union (IF t \in BeforeOath THEN {"OATH_DATE_NOT_REACHED"} ELSE {})
  \union (IF t \in AbsentLast THEN {"PREVIOUS_WEEK_ABSENT"} ELSE {})
  \union (IF Speaks(t, s[1]) THEN {} ELSE {"LANGUAGE_MISMATCH"})
  \union (IF \E r \in rows : r.teacher = t /\ r.id # except
          THEN {"ALREADY_ASSIGNED_THIS_WEEK"} ELSE {})

Absolute == {"LANGUAGE_MISMATCH", "OATH_DATE_NOT_REACHED"}

CanOverride(u) == RolesOf[u] \intersect {"ADMIN", "SUPER_ADMIN"} # {}

\* An absolute rule stops everybody, another one whoever may not override.
Permitted(u, violated) ==
  violated \intersect Absolute = {} /\ (violated # {} => CanOverride(u))

Immovable == {r.teacher : r \in {q \in rows : q.source # "AUTO"}}

\* eligibilityCheck in the context of the engine.
Eligible(t, d) ==
  /\ t \notin Immovable
  /\ t \in ActiveTeachers
  /\ avail[t] = "AVAILABLE"
  /\ t \notin AbsentLast /\ t \notin BeforeOath
  /\ Speaks(t, d)

\* Mutant: the teachers of AUTO rows are not passed over.
Candidates_NotBusy(r) == {t \in Teachers \ {r.teacher} : Eligible(t, r.slot[1])}

\* listEligibleReplacements; listSlotCandidates has the same for the slot of a row.
Candidates(r) ==
  {t \in Teachers \ {r.teacher} :
     Eligible(t, r.slot[1]) /\ ~\E q \in rows : q.teacher = t /\ q.teacher # r.teacher}

-----------------------------------------------------------------------------
Init ==
  /\ InitAvailability
  /\ weekRow = ("RESOLVE" \notin work)
  /\ creating = NoRequest
  /\ historical = ("RECORD" \in work)
  /\ rows \in IF work \intersect {"CREATE", "REPLACE"} = {} THEN {{}}
              ELSE {{}} \union {{Row(0, s, t, IF "RECORD" \in work THEN "HISTORICAL" ELSE "AUTO")} :
                                s \in Slots, t \in {u \in ActiveTeachers \ BeforeOath :
                                                    \A d \in Dakos : Speaks(u, d)}}
  /\ log = {}
  /\ failed = FALSE

\* assertScheduleCorrectable.
Open == weekStatus = "DRAFT"

-----------------------------------------------------------------------------
(* createAssignment *)

\* One who may override is not stopped by the status of the teacher.
Create(p, u, s, t) ==
  /\ Open
  /\ t \in MasterInactive => CanOverride(u)
  /\ Speaks(t, s[1])
  /\ Begin(p, [op |-> "CREATE", id |-> clock + 1, slot |-> s, teacher |-> t], "insert")
  /\ UNCHANGED <<weekVars, availVars, editVars>>

\* The INSERT shares the key of the week: it waits for a FOR UPDATE.  The two
\* checks before it find what the unique indexes would.
Insert(p) ==
  /\ pc[p] = "insert"
  /\ weekLock = NoRequest
  /\ IF Free(call[p].slot, call[p].teacher, rows)
     THEN /\ rows' = rows \union {Row(call[p].id, call[p].slot, call[p].teacher, "MANUAL")}
          /\ Commit(p)
     ELSE Abort(p) /\ UNCHANGED rows
  /\ UNCHANGED <<weekVars, tableVars>>

-----------------------------------------------------------------------------
(* What is done to a row that was read: changeAssignment, clearAssignment,  *)
(* replaceAbsentTeacher, correctHistoricalAssignment                        *)

\* assertCanWriteAssignments has no SUPER_ADMIN.
MayWriteCells(u) == RolesOf[u] \intersect {"ADMIN", "SCHEDULER"} # {}

Absent(t) == <<[teacher |-> t, status |-> "ABSENT"]>>

Edit(p, u, r, op, s, t, absent, label) ==
  /\ Begin(p, [op |-> op, id |-> clock + 1, user |-> u, row |-> r, slot |-> s, teacher |-> t,
               week |-> weekStatus, todo |-> absent, saw |-> "NONE"], label)
  /\ UNCHANGED <<weekVars, availVars, editVars>>

\* The teacher, the type, or both; "rules" reads what violatedRulesFor reads.
Change(p, u, r, s, t) ==
  /\ Open
  /\ s[1] = r.slot[1]
  /\ Edit(p, u, r, "CHANGE", s, t, <<>>, IF t = r.teacher THEN "update" ELSE "rules")

Clear(p, u, r, absent) ==
  /\ Open
  /\ MayWriteCells(u)
  /\ absent => r.teacher \in ActiveTeachers
  /\ Edit(p, u, r, "CLEAR", r.slot, r.teacher, IF absent THEN Absent(r.teacher) ELSE <<>>,
          IF absent THEN "look" ELSE "delete")

Replace(p, u, r, t) ==
  /\ Open
  /\ MayWriteCells(u)
  /\ t # r.teacher
  /\ r.teacher \in ActiveTeachers
  /\ Edit(p, u, r, "REPLACE", r.slot, t, Absent(r.teacher), "look")

\* Mutant: the language is checked only if the type is changed as well.
CorrectHistorical_NoLanguage(p, u, r, s, t) ==
  /\ "ADMIN" \in RolesOf[u]
  /\ r.source = "HISTORICAL" /\ historical
  /\ s[1] = r.slot[1]
  /\ s # r.slot => Speaks(t, s[1])
  /\ Edit(p, u, r, "HCORRECT", s, t, <<>>, "update")

CorrectHistorical(p, u, r, s, t) ==
  /\ "ADMIN" \in RolesOf[u]
  /\ r.source = "HISTORICAL" /\ historical
  /\ s[1] = r.slot[1]
  /\ (s # r.slot \/ t # r.teacher) => Speaks(t, s[1])
  /\ Edit(p, u, r, "HCORRECT", s, t, <<>>, "update")

\* The absence is written; the request goes on.
Marked(p) ==
  /\ pc[p] = "look"
  /\ call[p].todo = <<>>
  /\ call[p].op \in {"CLEAR", "REPLACE"}
  /\ Goto(p, IF call[p].op = "CLEAR" THEN "delete" ELSE "rules")
  /\ UNCHANGED <<weekVars, availVars, editVars>>

CheckRules(p) ==
  /\ pc[p] = "rules"
  /\ LET c == call[p]
         violated == Violated(c.teacher, c.slot, c.row.id)
     IN IF Permitted(c.user, violated)
        THEN Know(p, [op |-> c.op, id |-> c.id, user |-> c.user, row |-> c.row, slot |-> c.slot,
                      teacher |-> c.teacher, source |-> IF violated = {} THEN "MANUAL" ELSE "OVERRIDE",
                      week |-> c.week, todo |-> <<>>, saw |-> c.saw], "update")
             /\ UNCHANGED availVars
        ELSE Abort(p)
  /\ UNCHANGED <<weekVars, editVars>>

\* A change makes the row OVERRIDE, a correction leaves it HISTORICAL.
Source(c) == CASE c.op = "CHANGE" -> "OVERRIDE" [] c.op = "HCORRECT" -> "HISTORICAL"
               [] OTHER -> c.source

\* Columns an UPDATE sets: a change leaves a type or a teacher alone that was not
\* given; a correction writes both, as it read them.
Updated(r, c) ==
  [r EXCEPT !.source = Source(c),
            !.slot = IF c.op = "CHANGE" /\ c.slot = c.row.slot THEN @ ELSE c.slot,
            !.teacher = IF c.op = "CHANGE" /\ c.teacher = c.row.teacher THEN @ ELSE c.teacher]

\* By id.  A row that is gone is no error: the audit row is written all the same.
Update(p) ==
  /\ pc[p] = "update"
  /\ LET old == ById(call[p].row.id)
         new == {Updated(r, call[p]) : r \in old}
     IN IF \A r \in new : Free(r.slot, r.teacher, rows \ old)
        THEN rows' = (rows \ old) \union new /\ Commit(p)
        ELSE Abort(p) /\ UNCHANGED rows
  /\ UNCHANGED <<weekVars, tableVars>>

\* The audit row has the assignment as it was read; gone: what is deleted.
Delete(p) ==
  /\ pc[p] = "delete"
  /\ rows' = rows \ ById(call[p].row.id)
  /\ log' = log \union {[op |-> "CLEAR", old |-> {call[p].row}, gone |-> ById(call[p].row.id),
                         absent |-> call[p].teacher \in DOMAIN pending[p]]}
  /\ Commit(p)
  /\ UNCHANGED <<weekVars, weekRow, creating, historical, failed>>

-----------------------------------------------------------------------------
(* generateSchedule *)

\* The route asks for the availability of the week before it calls the service.
Generate(p) ==
  /\ ~historical
  /\ Missing = 0
  /\ Begin(p, [op |-> "GENERATE", id |-> clock + 1], "lock")
  /\ UNCHANGED <<weekVars, availVars, editVars>>

\* Mutant: a plain SELECT.
LockOrRead_Plain(p) ==
  /\ pc[p] = "lock"
  /\ Goto(p, "locked")
  /\ UNCHANGED <<weekVars, availVars>>

LockOrRead(p) == LockWeek(p)

\* Reads the AUTO rows, for the snapshot.
Snapshot(p) ==
  /\ pc[p] = "locked"
  /\ call[p].op = "GENERATE"
  /\ IF Open
     THEN /\ Know(p, [op |-> "GENERATE", id |-> call[p].id,
                      auto |-> {r \in rows : r.source = "AUTO"}], "context")
          /\ UNCHANGED availVars
     ELSE Abort(p)
  /\ UNCHANGED <<weekVars, editVars>>

\* buildSchedulingContext: what is kept, and who may be placed where.
Context(p) ==
  /\ pc[p] = "context"
  /\ LET taken == {r.slot : r \in {q \in rows : q.source # "AUTO"}} IN
       Know(p, [op |-> "GENERATE", id |-> call[p].id, auto |-> call[p].auto,
                pairs |-> {x \in (Slots \ taken) \X Teachers : Eligible(x[2], x[1][1])}], "replace")
  /\ UNCHANGED <<weekVars, availVars, editVars>>

Plans(pairs) ==
  {P \in SUBSET pairs : \A x, y \in P : x # y => x[1] # y[1] /\ x[2] # y[2]}

\* Mutant: the rows of the snapshot are deleted by id.
DeletedBy_Id(c) == {r \in rows : \E a \in c.auto : a.id = r.id}

\* DELETE ... WHERE source = AUTO, if there was such a row to delete.
DeletedBy(c) == IF c.auto = {} THEN {} ELSE {r \in rows : r.source = "AUTO"}

\* DELETE, INSERT and COMMIT; an index may refuse the rows.
ReplaceAuto(p) ==
  /\ pc[p] = "replace"
  /\ LET c == call[p]
         kept == rows \ DeletedBy(c)
     IN \E plan \in Plans(c.pairs) :
          LET new == {Row(c.id, x[1], x[2], "AUTO") : x \in plan} IN
          IF \A r \in new, q \in kept : r.slot # q.slot /\ r.teacher # q.teacher
          THEN /\ rows' = kept \union new
               /\ log' = log \union {[op |-> "GENERATE", old |-> c.auto, gone |-> DeletedBy(c),
                                      absent |-> FALSE]}
               /\ Commit(p)
          ELSE Abort(p) /\ UNCHANGED <<rows, log>>
  /\ UNCHANGED <<weekVars, weekRow, creating, historical, failed>>

-----------------------------------------------------------------------------
(* recordHistoricalAssignments *)

Record(p, batch) ==
  /\ historical
  /\ Begin(p, [op |-> "RECORD", id |-> clock + 1, batch |-> batch], "lock")
  /\ UNCHANGED <<weekVars, availVars, editVars>>

CheckUnmixed(p) ==
  /\ pc[p] = "locked"
  /\ call[p].op = "RECORD"
  /\ IF \E r \in rows : r.source # "HISTORICAL"
     THEN Abort(p)
     ELSE Goto(p, "record") /\ UNCHANGED availVars
  /\ UNCHANGED <<weekVars, editVars>>

\* All the rows of the batch, or none.
InsertBatch(p) ==
  /\ pc[p] = "record"
  /\ LET batch == call[p].batch IN
     IF /\ \A x \in batch : Speaks(x[2], x[1][1]) /\ Free(x[1], x[2], rows)
        /\ \A x, y \in batch : x # y => x[1] # y[1] /\ x[2] # y[2]
     THEN /\ rows' = rows \union {Row(call[p].id, x[1], x[2], "HISTORICAL") : x \in batch}
          /\ Commit(p)
     ELSE Abort(p) /\ UNCHANGED rows
  /\ UNCHANGED <<weekVars, tableVars>>

-----------------------------------------------------------------------------
(* createWeek, a transaction, and getOrCreateWeek, which is none *)

CreateWeek(p) ==
  /\ ~weekRow
  /\ Begin(p, [op |-> "CREATE_WEEK", id |-> clock + 1], "week_insert")
  /\ UNCHANGED <<weekVars, availVars, editVars>>

\* The unique index on (year, week) makes an INSERT wait for another one.
InsertWeek(p) ==
  /\ pc[p] = "week_insert"
  /\ creating = NoRequest
  /\ IF weekRow
     THEN Abort(p) /\ UNCHANGED creating
     ELSE creating' = p /\ Goto(p, "week_commit") /\ UNCHANGED availVars
  /\ UNCHANGED <<weekVars, weekRow, historical, rows, log, failed>>

CommitWeek(p) ==
  /\ pc[p] = "week_commit"
  /\ weekRow' = TRUE
  /\ creating' = NoRequest
  /\ Commit(p)
  /\ UNCHANGED <<weekVars, historical, rows, log, failed>>

Resolve(p) ==
  /\ ~weekRow
  /\ Begin(p, [op |-> "RESOLVE", id |-> clock + 1], "resolve")
  /\ UNCHANGED <<weekVars, availVars, editVars>>

\* ON CONFLICT DO NOTHING; nothing returned means that the row is there now.
ResolveInsert(p) ==
  /\ pc[p] = "resolve"
  /\ creating = NoRequest
  /\ weekRow' = TRUE
  /\ IF weekRow THEN Goto(p, "again") /\ UNCHANGED availVars ELSE Commit(p)
  /\ UNCHANGED <<weekVars, creating, historical, rows, log, failed>>

\* Mutant: an empty RETURNING is the end.
ResolveAgain_None(p) ==
  /\ pc[p] = "again"
  /\ failed' = TRUE
  /\ Abort(p)
  /\ UNCHANGED <<weekVars, weekRow, creating, historical, rows, log>>

ResolveAgain(p) ==
  /\ pc[p] = "again"
  /\ IF weekRow THEN Commit(p) /\ UNCHANGED failed ELSE Abort(p) /\ failed' = TRUE
  /\ UNCHANGED <<weekVars, weekRow, creating, historical, rows, log>>

-----------------------------------------------------------------------------
Step(p) ==
  \/ Insert(p) \/ Marked(p) \/ CheckRules(p) \/ Update(p) \/ Delete(p)
  \/ Snapshot(p) \/ Context(p) \/ ReplaceAuto(p)
  \/ CheckUnmixed(p) \/ InsertBatch(p)
  \/ CreateWeek(p) \/ InsertWeek(p) \/ CommitWeek(p)
  \/ Resolve(p) \/ ResolveInsert(p) \/ ResolveAgain(p)

Call(p, u) ==
  \/ \E s \in Slots, t \in Teachers : Create(p, u, s, t)
  \/ \E r \in rows, t \in Teachers : Replace(p, u, r, t)
  \/ \E r \in rows, s \in Slots, t \in Teachers :
       Change(p, u, r, s, t) \/ CorrectHistorical(p, u, r, s, t)
  \/ \E r \in rows, absent \in BOOLEAN : Clear(p, u, r, absent)

\* The requests of Availability, with the locks of this module.
Elsewhere ==
  \/ NextAvailability /\ \A p \in Requests : pc[p] = "lock" => pc'[p] # "locked"
  \/ \E p \in Requests : LockOrRead(p)

Next ==
  \/ \E p \in Requests : 
       \/ Step(p) \/ Generate(p)
       \/ \E batch \in Batches : Record(p, batch)
       \/ \E u \in Users : Call(p, u)
  \/ /\ Elsewhere
     /\ creating' = IF creating # NoRequest /\ pc'[creating] = "idle" THEN NoRequest ELSE creating
     /\ UNCHANGED <<weekRow, historical, rows, log, failed>>

Spec == Init /\ [][Next]_vars

-----------------------------------------------------------------------------
(* Properties *)

\* The variables hold rows of their tables; a lock belongs to a request in flight.
TypeOK ==
  /\ avail \in [Teachers -> Encoded \union {"NONE"}]
  /\ \A r \in rows : r.slot \in Slots /\ r.teacher \in Teachers
  /\ \A r, q \in rows : r # q => r.id # q.id /\ r.slot # q.slot /\ r.teacher # q.teacher
  /\ \A l \in {weekLock, creating} : l = NoRequest \/ InFlight(l)
  /\ \A p \in Requests : DOMAIN pending[p] # {} => InFlight(p)

\* "MANUAL/OVERRIDE assignments and their teachers are preserved"
\* (scheduling.service.ts:281), also those that were made while the generation ran ...
HandEditsSurvive ==
  [][\A p \in Requests : Commits(p) /\ call[p].op = "GENERATE" =>
       {r \in rows : r.source # "AUTO"} \subseteq rows']_<<rows, done>>

\* ... and what a regeneration deletes is in its audit snapshot, as it was.
DeletedIsSnapshotted ==
  \A e \in log : e.op = "GENERATE" => e.gone \subseteq e.old

\* A backfill commits only into a week whose other rows were all recorded by a
\* backfill, however its check overlaps with normal assignments.
BackfillUnmixed ==
  [][\A p \in Requests : Commits(p) /\ call[p].op = "RECORD" =>
       \A r \in rows' : r.born = "HISTORICAL"]_<<rows, done>>

\* No path of the five leads to a FILIPINO teacher in an ENGLISH dako.
LanguageRule == \A r \in rows : Speaks(r.teacher, r.slot[1])

\* What the dialogs offer is what the services accept: a listed replacement
\* violates no rule, and the readiness shown for the year is that of the gate.
ListsAgree ==
  /\ \A r \in rows : \A t \in Teachers \ {r.teacher} :
       t \in Candidates(r) <=> Violated(t, r.slot, r.id) = {}
  /\ AnnualMissing = Missing
  /\ \A t \in Teachers :
       t \in Listed(EffectiveStatus(t)) \/ (t \in Listed("INACTIVE_MASTER") /\ t \in MasterInactive)
         \/ (t \in Listed("INACTIVE_WEEKLY") /\ EffectiveStatus(t) = "INACTIVE")

\* Whoever asks for a week gets one: "week could not be created" never happens.
ResolveSucceeds == ~failed

\* Each of the ways to write a row keeps the rules of the others, what the dialogs list is
\* what the services accept, and the log can give back what a generation took away.
RulesHold == TypeOK /\ LanguageRule /\ ListsAgree /\ ResolveSucceeds /\ DeletedIsSnapshotted

\* No request undoes what another has settled: an encoded status, the lock of a published
\* week, an edit by hand, a week that has normal assignments.
EditsRespected == FillsBlanks /\ PublishedLocked /\ HandEditsSurvive /\ BackfillUnmixed
=============================================================================
