------------------------------ MODULE Generation ------------------------------
(***************************************************************************)
(* The generation of the schedule, week after week.  Code: allocate in     *)
(* scheduling/scoring.ts, planDutyAssignments in scheduling/duty.ts, the   *)
(* hard rules in scheduling/eligibility.ts, and the two transactions of    *)
(* scheduling.service.ts that save a plan.                                 *)
(*                                                                         *)
(* A generation reads everything first and then decides one slot after     *)
(* the other; each decision is a step.  What administrators do to the      *)
(* week by hand happens between generations: the row lock of the week and  *)
(* the overlap of transactions are the subject of ScheduleCorrection.      *)
(***************************************************************************)
EXTENDS Integers, FiniteSets

CONSTANTS
  Teachers,    \* numbers: their order is the order of the teacher codes
  Dakos,       \* numbers: their order is the order of the dako codes
  Masters,     \* master data to choose from
  Encodings,   \* weekly availabilities to choose from
  MaxWeeks,    \* bound: weeks that are scheduled
  MaxWrites    \* bound: writes to assignments

Types == {"SUGO", "RESERBA", "RESERBA_II"}
DutyModes == {"ASSIGN_DESTINADO", "ASSIGN_KATUWANG"}
Modes == {"AUTO"} \union DutyModes
Encoded == {"AVAILABLE", "ABSENT", "INACTIVE"}   \* encoded for all: the generation gate

\* Teachers ACTIVE and ENGLISH, dakos ACTIVE (enabled), ENGLISH and isPriority,
\* and for every teacher the destination (0: none), the duty and the first week
\* after the oath.
MasterData ==
  [active : SUBSET Teachers, english : SUBSET Teachers,
   enabled : SUBSET Dakos, englishDakos : SUBSET Dakos, priority : SUBSET Dakos,
   destination : [Teachers -> Dakos \union {0}],
   duty : [Teachers -> {"DESTINADO", "KATUWANG", "NONE"}],
   oath : [Teachers -> Nat]]

ASSUME TeachersAssumption == IsFiniteSet(Teachers) /\ Teachers \subseteq Nat
ASSUME DakosAssumption == IsFiniteSet(Dakos) /\ Dakos \subseteq Nat \ {0}
ASSUME MastersAssumption == Masters \subseteq MasterData
ASSUME EncodingsAssumption == Encodings \subseteq [Teachers -> Encoded]
ASSUME BoundsAssumption == MaxWeeks \in Nat /\ MaxWrites \in Nat

VARIABLES
  master,        \* tables teachers and dako
  week,          \* the week being scheduled
  availability,  \* teacher_availability of this week
  absentLast,    \* teachers who were ABSENT last week
  rows,          \* table assignments
  writes,        \* writes so far; assigned_at of the next one
  mode,          \* the generation in progress, or "NONE"
  todo,          \* slots it has not decided
  plan           \* rows it is going to insert

calendar == <<week, availability, absentLast>>
engine == <<mode, todo, plan>>
generationVars == <<master, calendar, rows, writes, engine>>

Row(t, s, src, m) ==
  [week |-> week, dako |-> s[1], type |-> s[2], teacher |-> t,
   source |-> src, mode |-> m, at |-> writes]

Slot(r) == <<r.dako, r.type>>
ThisWeek == {r \in rows : r.week = week}
Handmade == {r \in ThisWeek : r.source # "AUTO"}
Immovable == {r.teacher : r \in Handmade}
Occupied == {Slot(r) : r \in Handmade}

-----------------------------------------------------------------------------
(* Hard rules *)

Speaks(t, d) == d \in master.englishDakos => t \in master.english

\* evaluateCandidate finds no violated rule.
MayServe(t, d) ==
  /\ t \notin Immovable
  /\ t \in master.active
  /\ d \in master.enabled
  /\ availability[t] = "AVAILABLE"
  /\ t \notin absentLast
  /\ week >= master.oath[t]
  /\ Speaks(t, d)

-----------------------------------------------------------------------------
(* Slots, and the order in which they are decided *)

Roster(d) == {t \in Teachers : master.destination[t] = d /\ master.duty[t] # "NONE"}

\* Mutant: the roster of teachers without a destination counts as well.
SlotsOf_Grouped(m) ==
  IF m = "AUTO"
  THEN (master.enabled \X Types) \ Occupied
  ELSE ({master.destination[t] : t \in {u \in Teachers : master.duty[u] # "NONE"}} \X Types)
       \ Occupied

SlotsOf(m) ==
  IF m = "AUTO"
  THEN (master.enabled \X Types) \ Occupied
  ELSE ({d \in Dakos : Roster(d) # {}} \X Types) \ Occupied

Rank(s) == CASE s[2] = "SUGO" -> 1 [] s[2] = "RESERBA" -> 2 [] OTHER -> 3

\* Within a pass: SUGO by code, the others with the priority dakos first.
PassBefore(s, r) ==
  IF Rank(s) = 1 \/ (s[1] \in master.priority <=> r[1] \in master.priority)
  THEN s[1] < r[1]
  ELSE s[1] \in master.priority

Before(s, r) ==
  IF mode = "AUTO"
  THEN Rank(s) < Rank(r) \/ (Rank(s) = Rank(r) /\ PassBefore(s, r))
  ELSE s[1] < r[1] \/ (s[1] = r[1] /\ Rank(s) < Rank(r))

-----------------------------------------------------------------------------
(* Fairness: the smaller key comes first, place by place *)

Count(S) == Cardinality(S)
Bit(b) == IF b THEN 1 ELSE 0

\* buildSchedulingContext counts the rows of all weeks, those of this week that
\* the generation is about to replace included.
RowsOf(t) == {r \in rows : r.teacher = t}
LastWeekDakos(t) == {r.dako : r \in {q \in RowsOf(t) : q.week = week - 1}}

\* Mutant: no final tie-break.
CandidateKey_NoCode(t, s) ==
  << Count({r \in RowsOf(t) : Slot(r) = s}), Count(RowsOf(t)),
     Bit(master.destination[t] # s[1]) >>

CandidateKey(t, s) ==
  << Count({r \in RowsOf(t) : Slot(r) = s}),
     Count(RowsOf(t)),
     Count({r \in RowsOf(t) : r.dako = s[1]}),
     Count({r \in RowsOf(t) : r.type = s[2]}),
     Bit(s[1] \in LastWeekDakos(t)),
     Bit(LastWeekDakos(t) # {}),
     Bit(master.destination[t] # s[1]),
     t >>

PicksOf(t, d) == {r \in RowsOf(t) : r.dako = d /\ r.mode = mode}
Latest(S) == IF S = {} THEN 0 ELSE CHOOSE n \in {r.at : r \in S} : \A r \in S : r.at <= n

\* Mutant: the most recent pick before the number of picks.
RotationKey_RecencyFirst(t, s) ==
  << Latest({r \in RowsOf(t) : r.dako = s[1]}),
     Count({r \in PicksOf(t, s[1]) : r.type = s[2]}),
     Count(PicksOf(t, s[1])),
     Latest(PicksOf(t, s[1])),
     t >>

RotationKey(t, s) ==
  << Count({r \in PicksOf(t, s[1]) : r.type = s[2]}),
     Count(PicksOf(t, s[1])),
     Latest(PicksOf(t, s[1])),
     Latest({r \in RowsOf(t) : r.dako = s[1]}),
     t >>

Smaller(a, b) ==
  \E i \in DOMAIN a : a[i] < b[i] /\ \A j \in 1..(i - 1) : a[j] = b[j]

Precedes(t, u, s) ==
  IF mode = "AUTO" THEN Smaller(CandidateKey(t, s), CandidateKey(u, s))
                   ELSE Smaller(RotationKey(t, s), RotationKey(u, s))

-----------------------------------------------------------------------------
(* A generation *)

\* The duty a slot asks for.
DutyOf(s) ==
  CASE Rank(s) = 1 -> IF mode = "ASSIGN_KATUWANG" THEN "KATUWANG" ELSE "DESTINADO"
    [] Rank(s) = 2 -> IF mode = "ASSIGN_KATUWANG" THEN "DESTINADO" ELSE "KATUWANG"
    [] OTHER -> "KATUWANG"

\* The teacher may fill the slot, if still free.
Suits(t, s) ==
  /\ MayServe(t, s[1])
  /\ mode \in DutyModes => t \in Roster(s[1]) /\ master.duty[t] = DutyOf(s)

\* Mutant: a duty plan forgets whom it picked for another dako.
Used_SameDako(s) == {p.teacher : p \in {q \in plan : q.dako = s[1]}}

Used(s) == {p.teacher : p \in plan}

Candidates(s) == {t \in Teachers \ Used(s) : Suits(t, s)}

Begin(m) ==
  /\ mode = "NONE"
  /\ writes < MaxWrites
  /\ mode' = m
  /\ todo' = SlotsOf(m)
  /\ plan' = {}
  /\ UNCHANGED <<master, calendar, rows, writes>>

\* Mutant: all slots of a dako before the next dako.
IsNext_DakoByDako(s) ==
  s \in todo /\ \A r \in todo \ {s} : s[1] < r[1] \/ (s[1] = r[1] /\ Rank(s) < Rank(r))

IsNext(s) == s \in todo /\ \A r \in todo \ {s} : Before(s, r)

Fill(s) ==
  /\ IsNext(s)
  /\ \E t \in Candidates(s) :
       /\ \A u \in Candidates(s) \ {t} : Precedes(t, u, s)
       /\ plan' = plan \union {Row(t, s, "AUTO", IF mode = "AUTO" THEN "NONE" ELSE mode)}
  /\ todo' = todo \ {s}
  /\ UNCHANGED <<master, calendar, rows, writes, mode>>

LeaveEmpty(s) ==
  /\ IsNext(s)
  /\ Candidates(s) = {}
  /\ todo' = todo \ {s}
  /\ UNCHANGED <<master, calendar, rows, writes, mode, plan>>

\* AUTO rows the generation deletes: all of the week, or those of the dakos with
\* a slot in the duty plan.
Replaced ==
  {r \in ThisWeek : /\ r.source = "AUTO"
                    /\ mode \in DutyModes => r.dako \in {s[1] : s \in SlotsOf(mode)}}

Kept == ThisWeek \ Replaced

\* The unique indexes on (week, dako, type) and (week, teacher) of assignments.
Distinct(S) ==
  \A p, q \in S : p # q /\ p.week = q.week => Slot(p) # Slot(q) /\ p.teacher # q.teacher

\* generateSchedule passes over a teacher it has seen or may not move.
Inserted ==
  {p \in plan : mode = "AUTO" =>
     /\ p.teacher \notin Immovable
     /\ \A q \in plan : q # p /\ q.teacher = p.teacher => Before(Slot(p), Slot(q))}

\* An index that is violated rolls the whole generation back.
Save ==
  /\ mode # "NONE"
  /\ todo = {}
  /\ IF Distinct(Kept \union Inserted)
     THEN rows' = (rows \ Replaced) \union Inserted /\ writes' = writes + 1
     ELSE UNCHANGED <<rows, writes>>
  /\ mode' = "NONE"
  /\ plan' = {}
  /\ UNCHANGED <<master, calendar, todo>>

-----------------------------------------------------------------------------
(* What is done to the week by hand.  A rule an administrator may override *)
(* is no guard; MANUAL stands for MANUAL and OVERRIDE.                     *)

Write(new) ==
  /\ mode = "NONE"
  /\ writes < MaxWrites
  /\ Distinct(new)
  /\ rows' = new
  /\ writes' = writes + 1
  /\ UNCHANGED <<master, week, absentLast, engine>>

\* NON_OVERRIDEABLE_RULES
Admissible(t, d) ==
  d \in master.enabled /\ week >= master.oath[t] /\ Speaks(t, d)

\* createAssignment; it has no rule about the oath.
Place(t, s) ==
  /\ s[1] \in master.enabled
  /\ Speaks(t, s[1])
  /\ Write(rows \union {Row(t, s, "MANUAL", "NONE")})
  /\ UNCHANGED availability

Given(r, t, ty) == [r EXCEPT !.teacher = t, !.type = ty, !.source = "MANUAL"]

\* changeAssignment with a teacher: the rules are those of the new teacher.
Change(r, t, ty) ==
  /\ Admissible(t, r.dako)
  /\ Write((rows \ {r}) \union {Given(r, t, ty)})
  /\ UNCHANGED availability

\* changeAssignment without: no rule is looked at.
Retype(r, ty) ==
  /\ Write((rows \ {r}) \union {Given(r, r.teacher, ty)})
  /\ UNCHANGED availability

MarkAbsent(t) ==
  /\ t \in master.active
  /\ availability' = [availability EXCEPT ![t] = "ABSENT"]

\* replaceAbsentTeacher
Replace(r, t) ==
  /\ t # r.teacher
  /\ Admissible(t, r.dako)
  /\ Write((rows \ {r}) \union {Given(r, t, r.type)})
  /\ MarkAbsent(r.teacher)

\* clearAssignment: CHANGE_OF_SUGUAN, and TEACHER_ABSENT
Clear(r) == Write(rows \ {r}) /\ UNCHANGED availability
ClearAbsent(r) == Write(rows \ {r}) /\ MarkAbsent(r.teacher)

NextWeek ==
  /\ mode = "NONE"
  /\ week < MaxWeeks
  /\ week' = week + 1
  /\ absentLast' = {t \in Teachers : availability[t] = "ABSENT"}
  /\ availability' \in Encodings
  /\ UNCHANGED <<master, rows, writes, engine>>

Generate ==
  \/ \E m \in Modes : Begin(m)
  \/ \E s \in todo : Fill(s) \/ LeaveEmpty(s)
  \/ Save

Edit ==
  \/ \E t \in Teachers, s \in Dakos \X Types : Place(t, s)
  \/ \E r \in ThisWeek :
       \/ Clear(r) \/ ClearAbsent(r)
       \/ \E t \in Teachers : Replace(r, t)
       \/ \E ty \in Types : Retype(r, ty) \/ \E t \in Teachers : Change(r, t, ty)

NextGeneration == Generate \/ Edit \/ NextWeek

InitGeneration ==
  /\ master \in Masters
  /\ week = 1
  /\ availability \in Encodings
  /\ absentLast = {}
  /\ rows = {}
  /\ writes = 1
  /\ mode = "NONE"
  /\ todo = {}
  /\ plan = {}

SpecGeneration == InitGeneration /\ [][NextGeneration]_generationVars

-----------------------------------------------------------------------------
(* Properties *)

Assignments ==
  [week : Nat, dako : Dakos, type : Types, teacher : Teachers,
   source : {"AUTO", "MANUAL"}, mode : DutyModes \union {"NONE"}, at : Nat]

\* The variables hold rows of their tables, and a plan exists only during a
\* generation.
GenerationTyped ==
  /\ master \in Masters
  /\ week \in Nat /\ writes \in Nat
  /\ availability \in [Teachers -> Encoded]
  /\ absentLast \subseteq Teachers
  /\ rows \subseteq Assignments
  /\ mode \in Modes \union {"NONE"}
  /\ todo \subseteq Dakos \X Types
  /\ plan \subseteq Assignments
  /\ mode = "NONE" => todo = {} /\ plan = {}

Decided == SlotsOf(mode) \ todo

\* docs/api.md:108: SUGO and RESERBA are filled before RESERBA_II, which draws only
\* from the leftover pool, and priority dakos choose before the others: nobody
\* serves in a slot who would have been a better choice for an earlier one.
EarlierSlotsChooseFirst ==
  mode # "NONE" =>
    \A p \in plan, s \in Decided :
      Before(s, Slot(p)) /\ Suits(p.teacher, s) =>
        \E q \in plan : Slot(q) = s /\ Precedes(q.teacher, p.teacher, s)

\* A plan of allocate is saved whole: it fits the rows that stay, so neither the
\* guard of generateSchedule nor a unique index ever drops a row of it.
PlanFits ==
  mode = "AUTO" => Distinct(Kept \union plan) /\ Inserted = plan

\* scheduling/duty.ts:18: "nobody serves twice while another eligible Katuwang is unserved",
\* for either duty: who was picked before fills a slot only if all who suit it
\* and never were picked at the dako serve there already.
UnservedFirst ==
  mode \in DutyModes =>
    \A p \in plan : PicksOf(p.teacher, p.dako) # {} =>
      \A u \in Teachers :
        Suits(u, Slot(p)) /\ PicksOf(u, p.dako) = {} =>
          \E q \in plan : q.teacher = u /\ Before(Slot(q), Slot(p))

\* scheduling/scoring.ts:7, "generation is fully deterministic": one slot is the
\* next, and one of its candidates is the first.
Deterministic ==
  todo # {} =>
    \E s \in todo :
      /\ IsNext(s)
      /\ \A r \in todo \ {s} : ~IsNext(r)
      /\ Candidates(s) # {} =>
           Cardinality({t \in Candidates(s) :
                         \A u \in Candidates(s) \ {t} : Precedes(t, u, s)}) = 1
=============================================================================
