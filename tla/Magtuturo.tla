--------------------------------- MODULE Magtuturo ---------------------------------
(***************************************************************************)
(* The weekly roster of the class teachers (magtuturo.service.ts): it is   *)
(* generated week by week or for all the weeks of a month, and edited seat *)
(* by seat.                                                                *)
(*                                                                         *)
(* Every operation on a week locks its row (FOR UPDATE) before it looks at *)
(* the seats; availability, the assignments of the week and the roster of  *)
(* the week before are read without a lock.  The checks of a transaction   *)
(* and its COMMIT are one step, but for a generation, which decides in one *)
(* and saves in another.                                                   *)
(***************************************************************************)
EXTENDS Integers, FiniteSets, SequencesExt

CONSTANTS
  Weeks,      \* numbers, in the order of the calendar
  Teachers,   \* numbers: their order is that of the ids
  SugoSeats, ReserbaSeats,   \* MAG_SEATS
  Barred,     \* teachers whose master status or oath excludes them
  Requests,   \* request handlers that may be in flight at the same time
  Workloads,  \* sets of operations; a behaviour uses the operations of one
  Seatings,   \* who may be assigned by hand: records [teacher, type, seat]
  MaxCalls,   \* bound: calls that ever start; they are the clock
  MaxEvents   \* bound: changes of availability and assignments

ASSUME MagtuturoAssumption ==
  /\ Weeks \subseteq Nat /\ Teachers \subseteq Nat /\ IsFiniteSet(Teachers)
  /\ SugoSeats \in Nat /\ ReserbaSeats \in Nat
  /\ Seatings \subseteq [teacher : Teachers, type : {"SUGO", "RESERBA"}, seat : Nat]
  /\ MaxCalls \in Nat /\ MaxEvents \in Nat

VARIABLES
  work,     \* operations of this behaviour
  status,   \* weeks.status; NONE: there is no row
  weekly,   \* teacher_availability of every week
  english,  \* teachers assigned to an ENGLISH dako in the week
  roster,   \* magtuturo_assignments
  lock,     \* request that holds the row of the week, or NoRequest
  pc, call, clock, events

inputs == <<weekly, english, events>>
vars == <<work, status, weekly, english, roster, lock, pc, call, clock, events>>

NoRequest == "none"
ASSUME RequestsAssumption == NoRequest \notin Requests
NoCall == [op |-> "NONE"]
Types == {"SUGO", "RESERBA"}
Seats(type) == 1..(IF type = "SUGO" THEN SugoSeats ELSE ReserbaSeats)
Of(w) == {r \in roster : r.week = w}
Taken(S, type) == {r.seat : r \in {q \in S : q.type = type}}
Seated(S) == {r.teacher : r \in S}

Seat(w, type, seat, t, source, at) ==
  [week |-> w, type |-> type, seat |-> seat, teacher |-> t, source |-> source, at |-> at]

-----------------------------------------------------------------------------
(* Rules *)

\* magtuturoViolations finds none; ABSENT is no violation.
Eligible(w, t) ==
  /\ t \notin Barred
  /\ weekly[w][t] \in {"AVAILABLE", "ABSENT"}
  /\ t \notin english[w]

\* The rows of the latest earlier week that has a row in weeks.
Previous(w) ==
  LET earlier == {v \in Weeks : v < w /\ status[v] # "NONE"} IN
  {r \in roster : r.week \in earlier /\ \A v \in earlier : v <= r.week}

\* An absent SUGO stays SUGO, a RESERBA who is not absent becomes SUGO.
Continues(w, r) ==
  /\ Eligible(w, r.teacher)
  /\ (r.type = "SUGO") = (weekly[w][r.teacher] = "ABSENT")

Count(t) == Cardinality({r \in roster : r.teacher = t})
LastSeat(t) == LET S == {r.at : r \in {q \in roster : q.teacher = t}} IN
               IF S = {} THEN 0 ELSE CHOOSE n \in S : \A m \in S : m <= n

\* A set as the list that sort() makes of it.
InOrder(S, Before(_, _)) ==
  CHOOSE q \in SetToSeqs(S) : \A i, j \in DOMAIN q : i < j => Before(q[i], q[j])

\* Mutant: the one who was seated last comes first.
RotatesBefore_Reversed(t, u) ==
  \/ Count(t) < Count(u)
  \/ Count(t) = Count(u) /\ LastSeat(t) > LastSeat(u)
  \/ Count(t) = Count(u) /\ LastSeat(t) = LastSeat(u) /\ t < u

\* compareMagtuturoRotation
RotatesBefore(t, u) ==
  \/ Count(t) < Count(u)
  \/ Count(t) = Count(u) /\ LastSeat(t) < LastSeat(u)
  \/ Count(t) = Count(u) /\ LastSeat(t) = LastSeat(u) /\ t < u

\* compareRoleSeat
RoleSeatBefore(r, q) ==
  \/ r.type = "SUGO" /\ q.type = "RESERBA"
  \/ r.type = q.type /\ r.seat < q.seat

-----------------------------------------------------------------------------
(* The decision of a generation *)

Manual(w) == {r \in Of(w) : r.source # "AUTO"}

\* Teachers continuity puts into a SUGO seat, who have no manual seat yet.
Required(w) ==
  {r \in Previous(w) : Continues(w, r) /\ r.teacher \notin Seated(Manual(w))}

\* Why a generation changes nothing.
Refused(w) ==
  \/ \E r \in Manual(w) : ~Eligible(w, r.teacher)
  \/ \E r \in Previous(w) : Continues(w, r) /\ \E m \in Manual(w) :
                              m.teacher = r.teacher /\ m.type = "RESERBA"
  \/ Cardinality(Seated(Required(w))) > SugoSeats - Cardinality(Taken(Manual(w), "SUGO"))

\* Mutant: whoever continues takes part in the rotation as well.
Pool_Everybody(w) == {t \in Teachers : Eligible(w, t) /\ t \notin Seated(Manual(w))}

Pool(w) ==
  {t \in Teachers : Eligible(w, t) /\ t \notin Seated(Manual(w)) \union Seated(Required(w))}

\* Who sits down, in this order: those who continue, then the rotation.
Queue(w) ==
  LET required == InOrder(Required(w), LAMBDA r, q : RoleSeatBefore(r, q)) IN
  [i \in DOMAIN required |-> required[i].teacher]
    \o InOrder(Pool(w), LAMBDA t, u : RotatesBefore(t, u))

FreeSeats(w, type) ==
  InOrder(Seats(type) \ Taken(Manual(w), type), LAMBDA m, n : m < n)

\* fillSeatHoles and the two rotations: the queue fills the holes, SUGO first.
Decision(w, at) ==
  LET sugo == FreeSeats(w, "SUGO")
      reserba == FreeSeats(w, "RESERBA")
      queue == Queue(w)
  IN {Seat(w, "SUGO", sugo[i], queue[i], "AUTO", at) : i \in DOMAIN sugo \intersect DOMAIN queue}
     \union {Seat(w, "RESERBA", reserba[i], queue[i + Len(sugo)], "AUTO", at) :
               i \in {j \in DOMAIN reserba : j + Len(sugo) <= Len(queue)}}

-----------------------------------------------------------------------------
Init ==
  /\ work \in Workloads
  /\ status \in [Weeks -> IF "MONTH" \in work THEN {"NONE", "DRAFT"} ELSE {"DRAFT"}]
  /\ weekly = [w \in Weeks |-> [t \in Teachers |-> "AVAILABLE"]]
  /\ english = [w \in Weeks |-> {}]
  /\ roster = {}
  /\ lock = [w \in Weeks |-> NoRequest]
  /\ pc = [p \in Requests |-> "idle"]
  /\ call = [p \in Requests |-> NoCall]
  /\ clock = 0
  /\ events = 0

Begin(p, c, label) ==
  /\ pc[p] = "idle"
  /\ c.op \in work
  /\ clock < MaxCalls
  /\ clock' = clock + 1
  /\ call' = [call EXCEPT ![p] = c]
  /\ pc' = [pc EXCEPT ![p] = label]
  /\ UNCHANGED <<work, status, roster, lock, inputs>>

\* Mutant: the row of the week is read without a lock.
Lock_PlainSelect(p) ==
  /\ pc[p] = "lock" /\ status[call[p].week] # "NONE"
  /\ pc' = [pc EXCEPT ![p] = "locked"]
  /\ UNCHANGED <<work, status, roster, lock, call, clock, inputs>>

\* SELECT ... FOR UPDATE of the week; a week that does not exist is an error.
Lock(p) ==
  /\ pc[p] = "lock"
  /\ LET w == call[p].week IN
       /\ status[w] # "NONE"
       /\ lock[w] = NoRequest
       /\ lock' = [lock EXCEPT ![w] = p]
  /\ pc' = [pc EXCEPT ![p] = "locked"]
  /\ UNCHANGED <<work, status, roster, call, clock, inputs>>

Unlock(p) == lock' = [w \in Weeks |-> IF lock[w] = p THEN NoRequest ELSE lock[w]]

\* The transaction ends; a month goes on with its next week.
Done(p) ==
  /\ Unlock(p)
  /\ IF call[p].op = "MONTH" /\ call[p].todo # {}
     THEN /\ call' = [call EXCEPT ![p] = [op |-> "MONTH", todo |-> call[p].todo]]
          /\ pc' = [pc EXCEPT ![p] = "month"]
     ELSE /\ call' = [call EXCEPT ![p] = NoCall]
          /\ pc' = [pc EXCEPT ![p] = "idle"]
  /\ UNCHANGED <<work, clock, inputs>>

-----------------------------------------------------------------------------
(* generateMagtuturoWeekInTransaction *)

Generate(p, w) == Begin(p, [op |-> "GENERATE", week |-> w], "lock")

\* A month fills a week only if it is empty.
Decide(p) ==
  /\ pc[p] = "locked"
  /\ call[p].op \in {"GENERATE", "MONTH"}
  /\ LET w == call[p].week IN
     IF \/ status[w] # "DRAFT"
        \/ call[p].op = "MONTH" /\ Of(w) # {}
        \/ Refused(w)
     THEN Done(p)
     ELSE /\ call' = [call EXCEPT ![p] = [op |-> call[p].op, week |-> w, seats |-> Decision(w, clock),
                                          todo |-> IF call[p].op = "MONTH" THEN call[p].todo ELSE {}]]
          /\ pc' = [pc EXCEPT ![p] = "delete"]
          /\ UNCHANGED <<work, lock, clock, inputs>>
  /\ UNCHANGED <<status, roster>>

\* DELETE of the AUTO rows; nothing is visible before the COMMIT.
DeleteAuto(p) ==
  /\ pc[p] = "delete"
  /\ LET seats == call[p].seats
         conflict == \/ Cardinality(Seated(seats)) # Cardinality(seats)
                     \/ Seated(seats) \intersect Seated(Manual(call[p].week)) # {}
     IN /\ roster' = (roster \ {r \in Of(call[p].week) : r.source = "AUTO"})
                       \union (IF conflict THEN {} ELSE seats)
        /\ Done(p)
  /\ UNCHANGED status

-----------------------------------------------------------------------------
(* generateMagtuturoMonth *)

Month(p) == Begin(p, [op |-> "MONTH", todo |-> Weeks], "month")

\* ensureWeekInTransaction of the first week that is left, and the look at its
\* status and its seats outside a transaction.
MonthWeek(p) ==
  /\ pc[p] = "month"
  /\ \E w \in call[p].todo :
       /\ \A v \in call[p].todo : w <= v
       /\ status' = [status EXCEPT ![w] = IF @ = "NONE" THEN "DRAFT" ELSE @]
       /\ LET rest == call[p].todo \ {w} IN
          IF status'[w] # "DRAFT" \/ Of(w) # {}
          THEN /\ call' = [call EXCEPT ![p] = IF rest = {} THEN NoCall ELSE [@ EXCEPT !.todo = rest]]
               /\ pc' = [pc EXCEPT ![p] = IF rest = {} THEN "idle" ELSE "month"]
          ELSE /\ call' = [call EXCEPT ![p] = [op |-> "MONTH", week |-> w, todo |-> rest]]
               /\ pc' = [pc EXCEPT ![p] = "lock"]
  /\ UNCHANGED <<work, roster, lock, clock, inputs>>

-----------------------------------------------------------------------------
(* assignMagtuturo and clearMagtuturo *)

\* seat 0: the first that is free.
Assign(p, w, s) ==
  Begin(p, [op |-> "ASSIGN", week |-> w, teacher |-> s.teacher, type |-> s.type, seat |-> s.seat],
        "lock")

SeatFor(w, type, seat) ==
  LET free == Seats(type) \ Taken(Of(w), type) IN
  IF seat # 0 \/ free = {} THEN seat ELSE CHOOSE n \in free : \A m \in free : n <= m

\* Mutant: the seat the teacher has already is not looked for.
Assignable_Twice(w, t, type, seat) ==
  status[w] # "PUBLISHED" /\ Eligible(w, t) /\ seat \in Seats(type)

Assignable(w, t, type, seat) ==
  /\ status[w] # "PUBLISHED"
  /\ Eligible(w, t)
  /\ seat \in Seats(type)
  /\ ~\E r \in Of(w) : r.teacher = t /\ <<r.type, r.seat>> # <<type, seat>>

\* Whoever had the seat loses it; the teacher who has it keeps the row.
SaveSeat(p) ==
  /\ pc[p] = "locked"
  /\ call[p].op = "ASSIGN"
  /\ LET w == call[p].week
         t == call[p].teacher
         type == call[p].type
         seat == SeatFor(w, type, call[p].seat)
         current == {r \in Of(w) : r.type = type /\ r.seat = seat}
     IN roster' = IF Assignable(w, t, type, seat) /\ t \notin Seated(current)
                  THEN (roster \ current) \union {Seat(w, type, seat, t, "MANUAL", clock)}
                  ELSE roster
  /\ Done(p)
  /\ UNCHANGED status

Clear(p, w, type, seat) ==
  Begin(p, [op |-> "CLEAR", week |-> w, type |-> type, seat |-> seat], "lock")

ClearSeat(p) ==
  /\ pc[p] = "locked"
  /\ call[p].op = "CLEAR"
  /\ roster' = IF status[call[p].week] = "PUBLISHED" THEN roster
               ELSE {r \in roster : <<r.week, r.type, r.seat>> #
                                    <<call[p].week, call[p].type, call[p].seat>>}
  /\ Done(p)
  /\ UNCHANGED status

\* Mutant: the list is that of the eligible.
Offered_Eligible(w) == {t \in Teachers : Eligible(w, t)}

\* magtuturoEligibility: whom the screen offers for a seat.
Offered(w) == {t \in Teachers : Eligible(w, t) /\ t \notin Seated(Of(w))}

-----------------------------------------------------------------------------
(* The rest of the system *)

\* A statement fails and the transaction is rolled back; a month ends with it.
Fail(p) ==
  /\ pc[p] # "idle"
  /\ Unlock(p)
  /\ call' = [call EXCEPT ![p] = NoCall]
  /\ pc' = [pc EXCEPT ![p] = "idle"]
  /\ UNCHANGED <<work, status, roster, clock, inputs>>

\* setWeekStatus updates the row of the week and waits for its lock; its own races
\* are those of ScheduleCorrection.
SetStatus(w) ==
  /\ "STATUS" \in work
  /\ lock[w] = NoRequest
  /\ \E s \in CASE status[w] = "DRAFT" -> {"FINALIZED"}
               [] status[w] = "FINALIZED" -> {"PUBLISHED", "DRAFT"}
               [] OTHER -> {} :
       status' = [status EXCEPT ![w] = s]
  /\ UNCHANGED <<work, roster, lock, pc, call, clock, inputs>>

\* Availability is encoded, and teachers are assigned to ENGLISH dakos and from them.
Change(w, t) ==
  /\ events < MaxEvents
  /\ events' = events + 1
  /\ \/ \E s \in {"AVAILABLE", "ABSENT", "INACTIVE"} \ {weekly[w][t]} :
          weekly' = [weekly EXCEPT ![w][t] = s] /\ UNCHANGED english
     \/ english' = [english EXCEPT ![w] = IF t \in @ THEN @ \ {t} ELSE @ \union {t}]
        /\ UNCHANGED weekly
  /\ UNCHANGED <<work, status, roster, lock, pc, call, clock>>

Next ==
  \/ \E p \in Requests :
       \/ \E w \in Weeks :
            \/ Generate(p, w)
            \/ \E s \in Seatings : Assign(p, w, s)
            \/ \E type \in Types : \E seat \in Seats(type) : Clear(p, w, type, seat)
       \/ Month(p) \/ MonthWeek(p)
       \/ Lock(p) \/ Decide(p) \/ DeleteAuto(p) \/ SaveSeat(p) \/ ClearSeat(p)
       \/ Fail(p)
  \/ \E w \in Weeks : SetStatus(w) \/ \E t \in Teachers : Change(w, t)

Spec == Init /\ [][Next]_vars

-----------------------------------------------------------------------------
(* Properties *)

Decides(p) == pc[p] = "locked" /\ pc'[p] = "delete"

\* A seat has one teacher and a teacher one seat in a week, although two ways of
\* generating and the edits by hand overlap: no unique index is ever needed.
OneSeatEach ==
  \A r, q \in roster : r # q /\ r.week = q.week =>
    r.teacher # q.teacher /\ <<r.type, r.seat>> # <<q.type, q.seat>>

\* "No assignments changed" (magtuturo.service.ts:360): once the AUTO rows are
\* deleted, the conflict that would commit the deletion alone cannot arise.
NothingLost ==
  \A p \in Requests : pc[p] = "delete" =>
    /\ Cardinality(Seated(call[p].seats)) = Cardinality(call[p].seats)
    /\ Seated(call[p].seats) \intersect Seated(Manual(call[p].week)) = {}

\* The roster of a PUBLISHED week stays as it is, and a month touches no week
\* that has seats, whatever happens between their checks and their writes.
LockedWeeksKept ==
  [][\A w \in Weeks :
       /\ status[w] = "PUBLISHED" => Of(w) = Of(w)'
       /\ \A p \in Requests :
            pc[p] = "delete" /\ call[p].op = "MONTH" /\ call[p].week = w /\ pc'[p] # "delete" =>
              Of(w) = {} \/ Of(w)' = Of(w)]_<<status, roster, pc>>

\* 21.4 and 21.5: who continues is SUGO in the week that was generated; and 21.2: no
\* teacher the rotation passed over has fewer seats than one it seated, or as many
\* and all longer ago.
RosterRules ==
  [][\A p \in Requests : Decides(p) =>
       LET w == call[p].week
           seats == (call')[p].seats \union Manual(w)
       IN /\ \A r \in Previous(w) : Continues(w, r) =>
               \E s \in seats : s.teacher = r.teacher /\ s.type = "SUGO"
          /\ \A s \in (call')[p].seats : \A t \in Teachers :
               Eligible(w, t) /\ t \notin Seated(seats) =>
                 \/ \E r \in Previous(w) : r.teacher = s.teacher
                 \/ Count(s.teacher) < Count(t)
                 \/ Count(s.teacher) = Count(t) /\ LastSeat(s.teacher) <= LastSeat(t)]_pc

\* Whom the screen offers is accepted for every seat that is free.
OffersHold ==
  \A w \in Weeks : status[w] = "DRAFT" => \A t \in Offered(w), type \in Types :
    LET seat == SeatFor(w, type, 0) IN seat # 0 => Assignable(w, t, type, seat)

\* The roster stays a roster: one seat each, none lost by the deletion a generation begins
\* with, and none offered that would be refused.
SeatsHold == OneSeatEach /\ NothingLost /\ OffersHold
=============================================================================
