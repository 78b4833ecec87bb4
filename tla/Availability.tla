------------------------------- MODULE Availability -------------------------------
(***************************************************************************)
(* The weekly availability of one week: bulk saves, "fill blanks", the     *)
(* correction window of a PUBLISHED week.  Code: availability.service.ts.  *)
(*                                                                         *)
(* A request is a process and a statement a step, as in                    *)
(* ScheduleCorrection.  What a transaction has written is pending, and     *)
(* locks the row, until it commits; its last statement and its COMMIT are  *)
(* one step.  A save that names one teacher is upsertAvailability.         *)
(***************************************************************************)
EXTENDS Integers, FiniteSets, Sequences

CONSTANTS
  Teachers,
  MasterInactive,  \* teachers whose master status is INACTIVE
  Users,
  RolesOf,         \* roleCodes of every account
  Requests,        \* request handlers that may be in flight at the same time
  Workloads,       \* sets of operations; a behaviour uses the operations of one
  Saves,           \* rows a bulk save may be asked for, in the order of the client
  Ttl,             \* PNK_AVAILABILITY_CORRECTION_TTL_MS
  MaxCalls         \* bound: calls that ever start; the clock counts them

VARIABLES
  work,        \* operations of this behaviour
  weekStatus,  \* weeks.status
  weekLock,    \* request that holds the week FOR UPDATE, or NoRequest
  avail,       \* teacher_availability; NONE: there is no row
  by,          \* history: the call that wrote the row, 0 at first
  done,        \* history: calls that have committed
  grants,      \* audit rows of the correction actions
  clock,       \* calls so far: the instant of the next one
  pc, call,    \* next statement of each request, and what it knows
  pending      \* availability it has written and not committed

weekVars == <<weekStatus, grants>>
availVars == <<avail, by>>
requestVars == <<work, weekLock, clock, pc, call, pending, done>>

NoRequest == "none"
NoCall == [op |-> "NONE"]
Encoded == {"AVAILABLE", "ABSENT", "INACTIVE"}
ActiveTeachers == Teachers \ MasterInactive
InFlight(p) == pc[p] # "idle"
Nothing == [t \in {} |-> "NONE"]

\* Rows of a request body.
Entries == [teacher : Teachers, status : Encoded]

ASSUME AvailabilityAssumption ==
  /\ IsFiniteSet(Teachers) /\ MasterInactive \subseteq Teachers
  /\ NoRequest \notin Requests
  /\ Saves \subseteq Seq(Entries)
  /\ Ttl \in Nat /\ MaxCalls \in Nat

InitAvailability ==
  /\ work \in Workloads
  /\ weekStatus = "DRAFT"
  /\ weekLock = NoRequest
  /\ avail \in IF "FILL" \in work THEN [Teachers -> {"NONE", "ABSENT"}]
                                  ELSE {[t \in Teachers |-> "AVAILABLE"]}
  /\ by = [t \in Teachers |-> 0]
  /\ done = {0}
  /\ grants = {}
  /\ clock = 0
  /\ pc = [p \in Requests |-> "idle"]
  /\ call = [p \in Requests |-> NoCall]
  /\ pending = [p \in Requests |-> Nothing]

Begin(p, c, label) ==
  /\ ~InFlight(p)
  /\ c.op \in work
  /\ clock < MaxCalls
  /\ clock' = clock + 1
  /\ call' = [call EXCEPT ![p] = c]
  /\ pc' = [pc EXCEPT ![p] = label]
  /\ UNCHANGED <<work, weekLock, pending, done>>

Goto(p, label) ==
  /\ pc' = [pc EXCEPT ![p] = label]
  /\ UNCHANGED <<work, weekLock, clock, call, pending, done>>

Know(p, c, label) ==
  /\ call' = [call EXCEPT ![p] = c]
  /\ pc' = [pc EXCEPT ![p] = label]
  /\ UNCHANGED <<work, weekLock, clock, pending, done>>

End(p) ==
  /\ pc' = [pc EXCEPT ![p] = "idle"]
  /\ call' = [call EXCEPT ![p] = NoCall]
  /\ pending' = [pending EXCEPT ![p] = Nothing]
  /\ weekLock' = IF weekLock = p THEN NoRequest ELSE weekLock
  /\ UNCHANGED <<work, clock>>

Abort(p) == End(p) /\ UNCHANGED <<done, avail, by>>

\* COMMIT: what is pending becomes visible.
Commit(p) ==
  /\ End(p)
  /\ done' = done \union {call[p].id}
  /\ avail' = [t \in Teachers |-> IF t \in DOMAIN pending[p] THEN pending[p][t] ELSE avail[t]]
  /\ by' = [t \in Teachers |-> IF t \in DOMAIN pending[p] THEN call[p].id ELSE by[t]]

\* SELECT ... FOR UPDATE of the week.
LockWeek(p) ==
  /\ pc[p] = "lock"
  /\ weekLock = NoRequest
  /\ weekLock' = p
  /\ pc' = [pc EXCEPT ![p] = "locked"]
  /\ UNCHANGED <<work, clock, call, pending, done, weekVars, availVars>>

-----------------------------------------------------------------------------
(* The correction window of a PUBLISHED week *)

Newest(g) == g \in grants /\ \A h \in grants : h.at <= g.at

\* activeCorrection, decided by PostgreSQL's clock.
Active(g) == Newest(g) /\ g.action = "UNLOCKED" /\ clock - g.at < Ttl

\* Mutant: whoever asks, an open window is enough.
Editable_AnyHolder(status, u) ==
  status = "PUBLISHED" => \E g \in grants : Active(g)

\* assertAvailabilityEditable; status is that of the week row that was read.
Editable(status, u) ==
  status = "PUBLISHED" => \E g \in grants : Active(g) /\ g.user = u

Correction(p, u, op) ==
  /\ "SUPER_ADMIN" \in RolesOf[u]
  /\ Begin(p, [op |-> op, id |-> clock + 1, user |-> u], "lock")
  /\ UNCHANGED <<weekVars, availVars>>

\* Both are refused unless the window is closed, or open; a begin wants the week
\* PUBLISHED.  created_at is the instant at which the transaction began.
Correct(p) ==
  /\ pc[p] = "locked"
  /\ call[p].op \in {"BEGIN", "END"}
  /\ LET open == \E g \in grants : Active(g)
         refused == IF call[p].op = "BEGIN" THEN open \/ weekStatus # "PUBLISHED" ELSE ~open
     IN IF refused
        THEN Abort(p) /\ UNCHANGED grants
        ELSE /\ Commit(p)
             /\ grants' = grants \union
                  {[action |-> IF call[p].op = "BEGIN" THEN "UNLOCKED" ELSE "ENDED",
                    user |-> call[p].user, at |-> call[p].id]}
  /\ UNCHANGED weekStatus

\* setWeekStatus; its races are the subject of ScheduleCorrection.
Publish ==
  /\ "PUBLISH" \in work
  /\ weekStatus # "PUBLISHED"
  /\ weekLock = NoRequest
  /\ weekStatus' = "PUBLISHED"
  /\ UNCHANGED <<grants, availVars, requestVars>>

-----------------------------------------------------------------------------
(* applyAvailabilityUpsert, for the rows of call[p].todo one after the other *)

\* The checks and the look at the existing row.  A row that has the value
\* already is passed over.
Look(p) ==
  /\ pc[p] = "look"
  /\ call[p].todo # <<>>
  /\ LET row == Head(call[p].todo) IN
     IF (row.teacher \in MasterInactive /\ row.status # "INACTIVE")
          \/ ~Editable(call[p].week, call[p].user)
     THEN Abort(p)
     ELSE /\ IF avail[row.teacher] = row.status
             THEN Know(p, [call[p] EXCEPT !.todo = Tail(@)], "look")
             ELSE Know(p, [call[p] EXCEPT !.saw = avail[row.teacher]], "put")
          /\ UNCHANGED availVars
  /\ UNCHANGED weekVars

\* Nobody else has written the row and not committed yet.
RowFree(p, t) == \A q \in Requests \ {p} : t \notin DOMAIN pending[q]

\* Mutant: the write goes over a connection of its own.
Put_OwnConnection(p) ==
  /\ pc[p] = "put"
  /\ LET row == Head(call[p].todo) IN
       /\ RowFree(p, row.teacher)
       /\ avail' = [avail EXCEPT ![row.teacher] = row.status]
       /\ by' = [by EXCEPT ![row.teacher] = call[p].id]
  /\ Know(p, [call[p] EXCEPT !.todo = Tail(@)], "look")
  /\ UNCHANGED weekVars

\* UPDATE of the row that was seen, by id, or INSERT, which the unique index on
\* (teacher, week) refuses if there is one by now.
Put(p) ==
  /\ pc[p] = "put"
  /\ LET row == Head(call[p].todo) IN
       /\ RowFree(p, row.teacher)
       /\ IF call[p].saw = "NONE" /\ avail[row.teacher] # "NONE"
          THEN Abort(p)
          ELSE /\ pending' = [pending EXCEPT ![p] =
                     [t \in DOMAIN @ \union {row.teacher} |->
                        IF t = row.teacher THEN row.status ELSE @[t]]]
               /\ call' = [call EXCEPT ![p].todo = Tail(@)]
               /\ pc' = [pc EXCEPT ![p] = "look"]
               /\ UNCHANGED <<work, weekLock, clock, done, availVars>>
  /\ UNCHANGED weekVars

\* The rows are written: COMMIT, unless the request goes on.
Saved(p) ==
  /\ pc[p] = "look"
  /\ call[p].todo = <<>>
  /\ call[p].op \in {"SAVE", "FILL"}
  /\ Commit(p)
  /\ UNCHANGED weekVars

Rows(order, status) == [i \in DOMAIN order |-> [teacher |-> order[i], status |-> status]]

\* Sequences without repetition of the elements of S.
Orders(S) == {f \in [1..Cardinality(S) -> S] : \A i, j \in DOMAIN f : f[i] = f[j] => i = j}

\* bulkSetAvailability
Save(p, u, rows) ==
  /\ Editable(weekStatus, u)
  /\ Begin(p, [op |-> "SAVE", id |-> clock + 1, user |-> u, week |-> weekStatus,
               todo |-> rows, saw |-> "NONE"], "look")
  /\ UNCHANGED <<weekVars, availVars>>

\* Mutant: every active teacher, whether there is a row or not.
Blanks_All == ActiveTeachers

Blanks == {t \in ActiveTeachers : avail[t] = "NONE"}

\* fillBlanksAsAvailable; blank: the teachers without a row when it looked.
Fill(p, u) ==
  /\ Editable(weekStatus, u)
  /\ \E order \in Orders(Blanks) :
       Begin(p, [op |-> "FILL", id |-> clock + 1, user |-> u, week |-> weekStatus,
                 todo |-> Rows(order, "AVAILABLE"), saw |-> "NONE",
                 blank |-> {t \in Teachers : avail[t] = "NONE"}], "look")
  /\ UNCHANGED <<weekVars, availVars>>

-----------------------------------------------------------------------------
(* What is read *)

EffectiveStatus(t) ==
  IF t \in MasterInactive THEN "INACTIVE"
  ELSE IF avail[t] = "NONE" THEN "NOT_ENCODED" ELSE avail[t]

\* The rows listWeeklyAvailability returns for a filter.
Listed(filter) ==
  CASE filter = "INACTIVE_MASTER" -> MasterInactive
    [] filter = "INACTIVE_WEEKLY" -> {t \in ActiveTeachers : avail[t] = "INACTIVE"}
    [] filter = "NOT_ENCODED" -> Blanks
    [] OTHER -> {t \in ActiveTeachers : avail[t] = filter}

\* assertGenerationAvailability: teachers whose row is missing.
Missing == Cardinality({t \in ActiveTeachers : avail[t] = "NONE"})

\* getAnnualAvailabilityReadiness, by subtraction.
AnnualMissing ==
  LET encoded == Cardinality({t \in ActiveTeachers : avail[t] # "NONE"})
      total == Cardinality(ActiveTeachers)
  IN IF encoded > total THEN 0 ELSE total - encoded

-----------------------------------------------------------------------------
\* A statement fails, or PostgreSQL chooses the request as the victim of a
\* deadlock: the transaction is rolled back.
Fail(p) ==
  /\ InFlight(p)
  /\ Abort(p)
  /\ UNCHANGED weekVars

NextAvailability ==
  \/ \E p \in Requests :
       \/ \E u \in Users :
            \/ \E rows \in Saves : Save(p, u, rows)
            \/ Fill(p, u)
            \/ \E op \in {"BEGIN", "END"} : Correction(p, u, op)
       \/ LockWeek(p) \/ Correct(p)
       \/ Look(p) \/ Put(p) \/ Saved(p)
       \/ Fail(p)
  \/ Publish

-----------------------------------------------------------------------------
(* Properties *)

Commits(p) == InFlight(p) /\ done' = done \union {call[p].id} /\ call[p].id \notin done

\* An absence is recorded with the change it belongs to, and a save with all its
\* rows (assignment.service.ts:434): every row was written by a call that committed.
AllOrNothing == \A t \in Teachers : by[t] \in done

\* "Never overwrites existing records" (availability.service.ts:682): what a fill
\* changes had no row when it looked.
FillsBlanks ==
  [][\A p \in Requests : Commits(p) /\ call[p].op = "FILL" =>
       \A t \in Teachers : avail[t] # (avail')[t] => t \in call[p].blank]_<<avail, done>>

\* The availability of a PUBLISHED week changes only by a request that was in
\* flight when it was published, or by one of a SUPER_ADMIN who had opened a correction.
PublishedLocked ==
  [][\A p \in Requests : Commits(p) /\ avail' # avail /\ weekStatus = "PUBLISHED" =>
       \/ call[p].week # "PUBLISHED"
       \/ \E g \in grants : g.action = "UNLOCKED" /\ g.user = call[p].user]_<<avail, done>>
=============================================================================
