------------------------------ MODULE WeekEditingProofs ------------------------------
(***************************************************************************)
(* Proofs about the week that is edited, generated, filled and corrected   *)
(* at once (WeekEditing over Availability), for any teachers, slots,       *)
(* batches, requests, calls and faults.                                    *)
(*                                                                         *)
(* A step is one of five things to the requests (Begun, Moved, Ended,      *)
(* Committed, Rested; lemma Steps), and each of them keeps the invariant.  *)
(* Before a commit the tables do not change, so what has to be shown of a  *)
(* step on its way is only what its request has read, locked and written   *)
(* (Good).  A commit has to fit the rows that are there by then: deletions *)
(* and updates take the rows they find, insertions fail on a key that is   *)
(* taken (RowsOk, Evolves).  What the others know survives it (GoodStays): *)
(* the ids of rows are not used again, a row may change its teacher and    *)
(* its source but not its dako and its origin, and nobody inserts while    *)
(* another request has the lock of the week.                               *)
(***************************************************************************)
EXTENDS WeekEditing, FiniteSetTheorems, TLAPS

-----------------------------------------------------------------------------
(* The tables *)

Sources == {"AUTO", "MANUAL", "OVERRIDE", "HISTORICAL"}

Assignments == [id : Nat \X Slots, slot : Slots, teacher : Teachers, source : Sources, born : Sources]

\* What R, the rows of the week, always are when D are the calls that have
\* committed: rows of calls that committed, alone in their slot and with their
\* teacher, in a language the teacher speaks; only the backfill makes a HISTORICAL one.
RowsOk(R, D) ==
  /\ R \subseteq Assignments
  /\ \A r \in R : /\ r.id[1] \in D
                  /\ Speaks(r.teacher, r.slot[1])
                  /\ r.source = "HISTORICAL" => r.born = "HISTORICAL"
  /\ \A r, q \in R : r # q => r.id # q.id /\ r.slot # q.slot /\ r.teacher # q.teacher

\* From R to S: a row stays as it is, or a hand changes it, or a call of F inserts it.
Evolves(R, S, F) ==
  \A s \in S :
    \/ s \in R
    \/ s.id[1] \in F
    \/ \E r \in R : r.id = s.id /\ r.born = s.born /\ r.slot[1] = s.slot[1] /\ s.source # "AUTO"

-----------------------------------------------------------------------------
(* The requests *)

Held == {"locked", "context", "replace", "record"}

Creates == [op : {"CREATE"}, id : Nat, slot : Slots, teacher : Teachers]

EditOps == {"CHANGE", "CLEAR", "REPLACE", "HCORRECT"}

Edits ==
  [op : EditOps, id : Nat, user : Users, row : Assignments, slot : Slots, teacher : Teachers,
   week : {"DRAFT", "PUBLISHED"}, todo : Seq(Entries), saw : Encoded \union {"NONE"}]

\* An edit whose rules were checked.
Ruled ==
  [op : {"CHANGE", "REPLACE"}, id : Nat, user : Users, row : Assignments, slot : Slots,
   teacher : Teachers, source : {"MANUAL", "OVERRIDE"}, week : {"DRAFT", "PUBLISHED"},
   todo : Seq(Entries), saw : Encoded \union {"NONE"}]

Savings ==
  [op : {"SAVE"}, id : Nat, user : Users, week : {"DRAFT", "PUBLISHED"}, todo : Seq(Entries),
   saw : Encoded \union {"NONE"}]

Fillings ==
  [op : {"FILL"}, id : Nat, user : Users, week : {"DRAFT", "PUBLISHED"}, todo : Seq(Entries),
   saw : Encoded \union {"NONE"}, blank : SUBSET Teachers]

Corrections == [op : {"BEGIN", "END"}, id : Nat, user : Users]
Generations == [op : {"GENERATE"}, id : Nat]
Snapshots == [op : {"GENERATE"}, id : Nat, auto : SUBSET Assignments]
Contexts == [op : {"GENERATE"}, id : Nat, auto : SUBSET Assignments,
             pairs : SUBSET (Slots \X Teachers)]
Records == [op : {"RECORD"}, id : Nat, batch : Batches]
Creations == [op : {"CREATE_WEEK"}, id : Nat]
Resolutions == [op : {"RESOLVE"}, id : Nat]

Writers == Savings \union Fillings \union {e \in Edits : e.op \in {"CLEAR", "REPLACE"}}

\* The calls that may be at a place.
At(l) ==
  CASE l = "idle" -> {NoCall}
    [] l = "insert" -> Creates
    [] l = "look" -> Writers
    [] l = "put" -> {c \in Writers : c.todo # <<>>}
    [] l = "rules" -> {e \in Edits : e.op \in {"CHANGE", "REPLACE"}}
    [] l = "update" -> {e \in Edits : e.op \in {"CHANGE", "HCORRECT"}} \union Ruled
    [] l = "delete" -> {e \in Edits : e.op = "CLEAR"}
    [] l \in {"lock", "locked"} -> Corrections \union Generations \union Records
    [] l = "context" -> Snapshots
    [] l = "replace" -> Contexts
    [] l = "record" -> Records
    [] l \in {"week_insert", "week_commit"} -> Creations
    [] l \in {"resolve", "again"} -> Resolutions
    [] OTHER -> {}

\* The row an edit has read may have changed since, but not its dako and its origin.
Linked(c, R, D) ==
  /\ c.row.id[1] \in D
  /\ c.slot[1] = c.row.slot[1]
  /\ \A r \in R : r.id = c.row.id => r.born = c.row.born /\ r.slot[1] = c.row.slot[1]

\* What a request knows is still true of the rows R.
Sound(l, c, R, D) ==
  /\ l \in {"insert", "update"} => Speaks(c.teacher, c.slot[1])
  /\ c.op \in EditOps => Linked(c, R, D)
  /\ l = "update" /\ c.op = "HCORRECT" => c.row.born = "HISTORICAL"
  /\ l \in {"context", "replace"} => {r \in R : r.source = "AUTO"} \subseteq c.auto
  /\ l = "replace" => \A x \in c.pairs : Speaks(x[2], x[1][1])
  /\ l = "record" => \A r \in R : r.born = "HISTORICAL"

\* The week was not PUBLISHED when it was read, or its user had opened a correction.
Unlocked(c, G) == c.week = "PUBLISHED" => \E g \in G : g.action = "UNLOCKED" /\ g.user = c.user

\* What a request has written and not committed.
Banks(l, c, P, G) ==
  /\ DOMAIN P \subseteq Teachers
  /\ \A t \in DOMAIN P : P[t] \in Encoded
  /\ DOMAIN P # {} => c.op \in {"SAVE", "FILL", "CLEAR", "REPLACE"} /\ Unlocked(c, G)
  /\ l = "put" => Unlocked(c, G)
  /\ c.op = "FILL" => /\ DOMAIN P \subseteq c.blank
                      /\ \A i \in DOMAIN c.todo : c.todo[i].teacher \in c.blank

Good(l, c, P, R, D, G) == c \in At(l) /\ Sound(l, c, R, D) /\ Banks(l, c, P, G)

-----------------------------------------------------------------------------
(* The inductive invariant *)

Typed ==
  /\ DOMAIN pc = Requests /\ DOMAIN call = Requests /\ DOMAIN pending = Requests
  /\ avail \in [Teachers -> Encoded \union {"NONE"}]
  /\ weekStatus \in {"DRAFT", "PUBLISHED"}
  /\ clock \in Nat

\* A call is known by its number.
IdsInv ==
  /\ \A n \in done : n \in 0..clock
  /\ \A p \in Requests : InFlight(p) => call[p].id \in 1..clock /\ call[p].id \notin done
  /\ \A p, q \in Requests : InFlight(p) /\ InFlight(q) /\ call[p].id = call[q].id => p = q

LocksInv ==
  /\ weekLock \in Requests \union {NoRequest}
  /\ creating \in Requests \union {NoRequest}
  /\ \A p \in Requests : /\ weekLock = p <=> pc[p] \in Held
                         /\ creating = p <=> pc[p] = "week_commit"

CallsInv == \A p \in Requests : Good(pc[p], call[p], pending[p], rows, done, grants)

WeekInv ==
  /\ ResolveSucceeds
  /\ \A p \in Requests : pc[p] = "again" => weekRow

RecordInv == AllOrNothing /\ RowsOk(rows, done) /\ DeletedIsSnapshotted

WeekEditingInv == Typed /\ IdsInv /\ LocksInv /\ CallsInv /\ WeekInv /\ RecordInv

-----------------------------------------------------------------------------
(* What a step is to the requests *)

\* The request p is at l now, and knows c; the others are where they were.
Turned(p, l, c, P) ==
  /\ DOMAIN pc' = Requests /\ DOMAIN call' = Requests /\ DOMAIN pending' = Requests
  /\ pc'[p] = l /\ call'[p] = c /\ pending'[p] = P
  /\ \A q \in Requests \ {p} : pc'[q] = pc[q] /\ call'[q] = call[q] /\ pending'[q] = pending[q]

\* The tables are what they were.
TablesStay == UNCHANGED <<weekStatus, grants, avail, by, done, rows, log>>

\* The row of the week stays, and who looks again finds it.
RowStays(l) ==
  /\ weekRow => weekRow'
  /\ l = "again" => weekRow'
  /\ failed' => failed

StartPlaces == {"look", "insert", "update", "rules", "delete", "lock", "week_insert", "resolve"}

Begun(p) == \E l \in StartPlaces : \E c :
  /\ ~InFlight(p)
  /\ Turned(p, l, c, pending[p]) /\ Good(l, c, pending[p], rows, done, grants)
  /\ c.id = clock + 1 /\ clock' = clock + 1
  /\ weekLock' = weekLock /\ creating' = creating
  /\ TablesStay /\ RowStays(l)

\* It takes a lock, or it does not.
Locking(p, l) ==
  /\ \/ weekLock' = weekLock /\ (l \in Held <=> pc[p] \in Held)
     \/ weekLock = NoRequest /\ weekLock' = p /\ l \in Held
  /\ \/ creating' = creating /\ l # "week_commit" /\ pc[p] # "week_commit"
     \/ creating = NoRequest /\ creating' = p /\ l = "week_commit"

Moved(p) == \E l, c, P :
  /\ InFlight(p) /\ l # "idle"
  /\ Turned(p, l, c, P) /\ Good(l, c, P, rows, done, grants)
  /\ c.id = call[p].id /\ clock' = clock
  /\ Locking(p, l)
  /\ TablesStay /\ RowStays(l)

\* It ends, and its locks are free.
Over(p) ==
  /\ InFlight(p)
  /\ Turned(p, "idle", NoCall, Nothing) /\ clock' = clock
  /\ weekLock' = (IF weekLock = p THEN NoRequest ELSE weekLock)
  /\ creating' = (IF creating = p THEN NoRequest ELSE creating)

Ended(p) == Over(p) /\ TablesStay /\ RowStays("idle")

\* Whoever inserts rows of its own had to find the week unlocked, or locked it.
Inserting(p) == IF weekLock \in {p, NoRequest} THEN {call[p].id} ELSE {}

Committed(p) ==
  /\ Over(p)
  /\ weekStatus' = weekStatus /\ grants \subseteq grants'
  /\ done' = done \union {call[p].id}
  /\ avail' = [t \in Teachers |-> IF t \in DOMAIN pending[p] THEN pending[p][t] ELSE avail[t]]
  /\ by' = [t \in Teachers |-> IF t \in DOMAIN pending[p] THEN call[p].id ELSE by[t]]
  /\ RowsOk(rows', done') /\ Evolves(rows, rows', Inserting(p))
  /\ DeletedIsSnapshotted => DeletedIsSnapshotted'
  /\ call[p].op = "GENERATE" => {r \in rows : r.source # "AUTO"} \subseteq rows'
  /\ call[p].op = "RECORD" => \A r \in rows' : r.born = "HISTORICAL"
  /\ RowStays("idle")

\* The week is published, or nothing happens.
Rested ==
  /\ pc' = pc /\ call' = call /\ pending' = pending
  /\ weekStatus' \in {weekStatus, "PUBLISHED"}
  /\ UNCHANGED <<clock, weekLock, creating, grants, avail, by, done, rows, log>>
  /\ RowStays("idle")

LEMMA BeginTurns ==
  ASSUME Typed, NEW p \in Requests, NEW c, NEW l, Begin(p, c, l)
  PROVE  /\ ~InFlight(p) /\ Turned(p, l, c, pending[p])
         /\ clock' = clock + 1 /\ weekLock' = weekLock /\ done' = done
BY DEF Typed, Begin, Turned

LEMMA GotoTurns ==
  ASSUME Typed, NEW p \in Requests, NEW l, Goto(p, l)
  PROVE  /\ Turned(p, l, call[p], pending[p])
         /\ clock' = clock /\ weekLock' = weekLock /\ done' = done
BY DEF Typed, Goto, Turned

LEMMA KnowTurns ==
  ASSUME Typed, NEW p \in Requests, NEW c, NEW l, Know(p, c, l)
  PROVE  /\ Turned(p, l, c, pending[p])
         /\ clock' = clock /\ weekLock' = weekLock /\ done' = done
BY DEF Typed, Know, Turned

LEMMA EndTurns ==
  ASSUME Typed, NEW p \in Requests, End(p)
  PROVE  /\ Turned(p, "idle", NoCall, Nothing) /\ clock' = clock
         /\ weekLock' = IF weekLock = p THEN NoRequest ELSE weekLock
BY DEF Typed, End, Turned

\* Where a request is that may not be idle.
LEMMA InFlightAt ==
  ASSUME NEW p, pc[p] # "idle"
  PROVE  InFlight(p)
BY DEF InFlight

\* A lock that is not p's stays with its holder when p ends.
LEMMA CreatingOnEnd ==
  ASSUME Typed, LocksInv, NEW p \in Requests, Turned(p, "idle", NoCall, Nothing),
         creating' = IF creating # NoRequest /\ pc'[creating] = "idle" THEN NoRequest ELSE creating
  PROVE  creating' = IF creating = p THEN NoRequest ELSE creating
BY AvailabilityAssumption DEF Typed, LocksInv, Turned

LEMMA CreatingOnMove ==
  ASSUME Typed, LocksInv, NEW p \in Requests, NEW l, NEW c, NEW P, Turned(p, l, c, P), l # "idle",
         creating' = IF creating # NoRequest /\ pc'[creating] = "idle" THEN NoRequest ELSE creating
  PROVE  creating' = creating
BY AvailabilityAssumption DEF Typed, LocksInv, Turned

\* The same rows are an evolution, whatever may be inserted.
LEMMA NothingEvolves ==
  ASSUME NEW R, NEW S, NEW F, S \subseteq R
  PROVE  Evolves(R, S, F)
BY DEF Evolves

\* What a request knows stays true when the tables evolve, unless it holds the week
\* and another inserts.
LEMMA GoodStays ==
  ASSUME NEW l, NEW c, NEW P, NEW R, NEW D, NEW G, NEW S, NEW E, NEW H, NEW F,
         Good(l, c, P, R, D, G), D \subseteq E, G \subseteq H, Evolves(R, S, F),
         F \intersect D = {}, l \in Held => F = {}
  PROVE  Good(l, c, P, S, E, H)
<1>1. Banks(l, c, P, H)
  BY DEF Good, Banks, Unlocked
<1>2. ASSUME c.op \in EditOps PROVE Linked(c, S, E)
  <2>1. Linked(c, R, D)
    BY <1>2 DEF Good, Sound
  <2>2. ASSUME NEW s \in S, s.id = c.row.id
        PROVE  s.born = c.row.born /\ s.slot[1] = c.row.slot[1]
    BY <2>1, <2>2 DEF Linked, Evolves
  <2> QED BY <2>1, <2>2 DEF Linked
<1>3. ASSUME l \in {"context", "replace"} PROVE {s \in S : s.source = "AUTO"} \subseteq c.auto
  BY <1>3 DEF Good, Sound, Evolves, Held
<1>4. ASSUME l = "record" PROVE \A s \in S : s.born = "HISTORICAL"
  BY <1>4 DEF Good, Sound, Evolves, Held
<1> QED BY <1>1, <1>2, <1>3, <1>4 DEF Good, Sound

-----------------------------------------------------------------------------
(* The requests begin *)

\* What a request of Availability leaves alone, but for the lock of a new week.
Apart ==
  /\ creating' = (IF creating # NoRequest /\ pc'[creating] = "idle" THEN NoRequest ELSE creating)
  /\ UNCHANGED <<weekRow, rows, log, failed>>

LEMMA IdleHasNothing ==
  ASSUME CallsInv, NEW p \in Requests, ~InFlight(p)
  PROVE  DOMAIN pending[p] = {} /\ pc[p] = "idle"
<1>1. pc[p] = "idle"
  BY DEF InFlight
<1>2. call[p] = NoCall
  BY <1>1 DEF CallsInv, Good, At
<1> QED BY <1>1, <1>2 DEF CallsInv, Good, Banks, NoCall

\* A call that is sound begins.
LEMMA CallBegins ==
  ASSUME Typed, CallsInv, NEW p \in Requests, NEW c, NEW l \in StartPlaces, Begin(p, c, l),
         c \in At(l), Sound(l, c, rows, done), c.id = clock + 1,
         c.op = "FILL" => \A i \in DOMAIN c.todo : c.todo[i].teacher \in c.blank,
         creating' = creating, TablesStay, weekRow' = weekRow, failed' = failed
  PROVE  Begun(p)
<1>1. /\ ~InFlight(p) /\ Turned(p, l, c, pending[p])
      /\ clock' = clock + 1 /\ weekLock' = weekLock
  BY BeginTurns
<1>2. DOMAIN pending[p] = {}
  BY <1>1, IdleHasNothing
<1>3. l # "put" /\ l # "again"
  BY DEF StartPlaces
<1>4. Good(l, c, pending[p], rows, done, grants)
  BY <1>2, <1>3 DEF Good, Banks
<1>5. RowStays(l)
  BY <1>3 DEF RowStays
<1> QED BY <1>1, <1>4, <1>5 DEF Begun

\* In Availability, too.
LEMMA ApartBegins ==
  ASSUME Typed, LocksInv, CallsInv, NEW p \in Requests, NEW c, NEW l \in StartPlaces, Begin(p, c, l),
         c \in At(l), Sound(l, c, rows, done), c.id = clock + 1,
         c.op = "FILL" => \A i \in DOMAIN c.todo : c.todo[i].teacher \in c.blank,
         Apart, UNCHANGED <<weekVars, availVars>>
  PROVE  Begun(p)
<1>1. Turned(p, l, c, pending[p]) /\ done' = done
  BY BeginTurns
<1>2. l # "idle"
  BY DEF StartPlaces
<1>3. creating' = creating
  BY <1>1, <1>2, CreatingOnMove DEF Apart
<1>4. TablesStay
  BY <1>1 DEF Apart, TablesStay, weekVars, availVars
<1> QED BY <1>3, <1>4, CallBegins DEF Apart

LEMMA SaveBegins ==
  ASSUME Typed, LocksInv, CallsInv, Apart,
         NEW p \in Requests, NEW u \in Users, NEW todo \in Saves, Save(p, u, todo)
  PROVE  Begun(p)
<1> DEFINE c == [op |-> "SAVE", id |-> clock + 1, user |-> u, week |-> weekStatus,
                 todo |-> todo, saw |-> "NONE"]
<1>1. Begin(p, c, "look") /\ UNCHANGED <<weekVars, availVars>>
  BY DEF Save
<1>2. c \in Savings
  BY AvailabilityAssumption DEF Savings, Typed
<1>3. c \in At("look")
  BY <1>2 DEF At, Writers
<1>4. Sound("look", c, rows, done) /\ c.id = clock + 1 /\ c.op # "FILL" /\ "look" \in StartPlaces
  BY DEF Sound, EditOps, StartPlaces
<1> HIDE DEF c
<1> QED BY <1>1, <1>3, <1>4, ApartBegins

LEMMA FillBegins ==
  ASSUME Typed, LocksInv, CallsInv, Apart, NEW p \in Requests, NEW u \in Users, Fill(p, u)
  PROVE  Begun(p)
<1>1. PICK order \in Orders(Blanks) :
        Begin(p, [op |-> "FILL", id |-> clock + 1, user |-> u, week |-> weekStatus,
                  todo |-> Rows(order, "AVAILABLE"), saw |-> "NONE",
                  blank |-> {t \in Teachers : avail[t] = "NONE"}], "look")
  BY DEF Fill
<1> DEFINE c == [op |-> "FILL", id |-> clock + 1, user |-> u, week |-> weekStatus,
                 todo |-> Rows(order, "AVAILABLE"), saw |-> "NONE",
                 blank |-> {t \in Teachers : avail[t] = "NONE"}]
           n == Cardinality(Blanks)
<1>2. n \in Nat
  <2>1. Blanks \subseteq Teachers
    BY DEF Blanks, ActiveTeachers
  <2> QED BY <2>1, FS_Subset, FS_CardinalityType, AvailabilityAssumption
<1>3. order \in [1..n -> Blanks]
  BY DEF Orders
<1>4. \A i \in 1..n : order[i] \in Teachers /\ avail[order[i]] = "NONE"
  BY <1>3 DEF Blanks, ActiveTeachers
<1>5. Rows(order, "AVAILABLE") = [i \in 1..n |-> [teacher |-> order[i], status |-> "AVAILABLE"]]
  BY <1>3 DEF Rows
<1> HIDE DEF n
<1>6. \A i \in 1..n : [teacher |-> order[i], status |-> "AVAILABLE"] \in Entries
  BY <1>4 DEF Entries, Encoded
<1>7. Rows(order, "AVAILABLE") \in [1..n -> Entries]
  BY <1>5, <1>6
<1>8. Rows(order, "AVAILABLE") \in Seq(Entries)
  BY <1>2, <1>7
<1>9. c \in Fillings
  BY <1>8 DEF Fillings, Typed
<1>10. c \in At("look")
  BY <1>9 DEF At, Writers
<1>11. \A i \in DOMAIN c.todo : c.todo[i].teacher \in c.blank
  <2>1. c.todo = Rows(order, "AVAILABLE") /\ c.blank = {t \in Teachers : avail[t] = "NONE"}
    OBVIOUS
  <2> HIDE DEF c
  <2>2. DOMAIN c.todo = 1..n /\ \A i \in 1..n : c.todo[i].teacher = order[i]
    <3>1. c.todo = [i \in 1..n |-> [teacher |-> order[i], status |-> "AVAILABLE"]]
      BY <1>5, <2>1
    <3> QED BY <3>1
  <2> QED BY <1>4, <2>1, <2>2
<1>12. Sound("look", c, rows, done) /\ c.id = clock + 1 /\ "look" \in StartPlaces
  BY DEF Sound, EditOps, StartPlaces
<1>13. Begin(p, c, "look") /\ UNCHANGED <<weekVars, availVars>>
  BY <1>1 DEF Fill
<1> HIDE DEF c
<1> QED BY <1>10, <1>11, <1>12, <1>13, ApartBegins

LEMMA CorrectionBegins ==
  ASSUME Typed, LocksInv, CallsInv, Apart,
         NEW p \in Requests, NEW u \in Users, NEW op \in {"BEGIN", "END"}, Correction(p, u, op)
  PROVE  Begun(p)
<1> DEFINE c == [op |-> op, id |-> clock + 1, user |-> u]
<1>1. Begin(p, c, "lock") /\ UNCHANGED <<weekVars, availVars>>
  BY DEF Correction
<1>2. c \in At("lock")
  BY DEF At, Corrections, Typed
<1>3. Sound("lock", c, rows, done) /\ c.id = clock + 1 /\ c.op # "FILL" /\ "lock" \in StartPlaces
  BY DEF Sound, EditOps, StartPlaces
<1> HIDE DEF c
<1> QED BY <1>1, <1>2, <1>3, ApartBegins

\* The requests that begin in this module.
LEMMA HereBegins ==
  ASSUME Typed, CallsInv, NEW p \in Requests, NEW c, NEW l \in StartPlaces, Begin(p, c, l),
         c \in At(l), Sound(l, c, rows, done), c.id = clock + 1, c.op # "FILL",
         UNCHANGED <<weekVars, availVars, editVars>>
  PROVE  Begun(p)
<1>1. done' = done
  BY BeginTurns
<1>2. TablesStay /\ creating' = creating /\ weekRow' = weekRow /\ failed' = failed
  BY <1>1 DEF TablesStay, weekVars, availVars, editVars
<1> QED BY <1>2, CallBegins

LEMMA CreateBegins ==
  ASSUME Typed, CallsInv, NEW p \in Requests, NEW u \in Users, NEW s \in Slots, NEW t \in Teachers,
         Create(p, u, s, t)
  PROVE  Begun(p)
<1> DEFINE c == [op |-> "CREATE", id |-> clock + 1, slot |-> s, teacher |-> t]
<1>1. Begin(p, c, "insert") /\ Speaks(t, s[1]) /\ UNCHANGED <<weekVars, availVars, editVars>>
  BY DEF Create
<1>2. c \in At("insert")
  BY DEF At, Creates, Typed
<1>3. Sound("insert", c, rows, done) /\ c.id = clock + 1 /\ c.op # "FILL" /\ "insert" \in StartPlaces
  BY <1>1 DEF Sound, EditOps, StartPlaces
<1> HIDE DEF c
<1> QED BY <1>1, <1>2, <1>3, HereBegins

LEMMA ShortCallsBegin ==
  ASSUME Typed, CallsInv, NEW p \in Requests,
         \/ Generate(p)
         \/ \E batch \in Batches : Record(p, batch)
         \/ CreateWeek(p)
         \/ Resolve(p)
  PROVE  Begun(p)
<1>1. CASE Generate(p)
  <2> DEFINE c == [op |-> "GENERATE", id |-> clock + 1]
  <2>1. Begin(p, c, "lock") /\ UNCHANGED <<weekVars, availVars, editVars>>
    BY <1>1 DEF Generate
  <2>2. c \in At("lock") /\ Sound("lock", c, rows, done) /\ "lock" \in StartPlaces
    BY DEF At, Generations, Typed, Sound, EditOps, StartPlaces
  <2> QED BY <2>1, <2>2, HereBegins
<1>2. CASE \E batch \in Batches : Record(p, batch)
  <2>1. PICK batch \in Batches : Record(p, batch)
    BY <1>2
  <2> DEFINE c == [op |-> "RECORD", id |-> clock + 1, batch |-> batch]
  <2>2. Begin(p, c, "lock") /\ UNCHANGED <<weekVars, availVars, editVars>>
    BY <2>1 DEF Record
  <2>3. c \in At("lock") /\ Sound("lock", c, rows, done) /\ "lock" \in StartPlaces
    BY DEF At, Records, Typed, Sound, EditOps, StartPlaces
  <2> QED BY <2>2, <2>3, HereBegins
<1>3. CASE CreateWeek(p)
  <2> DEFINE c == [op |-> "CREATE_WEEK", id |-> clock + 1]
  <2>1. Begin(p, c, "week_insert") /\ UNCHANGED <<weekVars, availVars, editVars>>
    BY <1>3 DEF CreateWeek
  <2>2. c \in At("week_insert") /\ Sound("week_insert", c, rows, done) /\ "week_insert" \in StartPlaces
    BY DEF At, Creations, Typed, Sound, EditOps, StartPlaces
  <2> QED BY <2>1, <2>2, HereBegins
<1>4. CASE Resolve(p)
  <2> DEFINE c == [op |-> "RESOLVE", id |-> clock + 1]
  <2>1. Begin(p, c, "resolve") /\ UNCHANGED <<weekVars, availVars, editVars>>
    BY <1>4 DEF Resolve
  <2>2. c \in At("resolve") /\ Sound("resolve", c, rows, done) /\ "resolve" \in StartPlaces
    BY DEF At, Resolutions, Typed, Sound, EditOps, StartPlaces
  <2> QED BY <2>1, <2>2, HereBegins
<1> QED BY <1>1, <1>2, <1>3, <1>4

\* The edits of a row begin with a row of the table.
LEMMA EditBegins ==
  ASSUME Typed, CallsInv, RecordInv, NEW p \in Requests, NEW u \in Users, NEW r \in rows,
         NEW op \in EditOps, NEW s \in Slots, NEW t \in Teachers, NEW absent \in Seq(Entries),
         NEW l \in StartPlaces, Edit(p, u, r, op, s, t, absent, l), s[1] = r.slot[1],
         l = "update" => Speaks(t, s[1]),
         op = "HCORRECT" => r.source = "HISTORICAL",
         \/ l = "look" /\ op \in {"CLEAR", "REPLACE"}
         \/ l = "rules" /\ op = "CHANGE"
         \/ l = "update" /\ op \in {"CHANGE", "HCORRECT"}
         \/ l = "delete" /\ op = "CLEAR"
  PROVE  Begun(p)
<1> DEFINE c == [op |-> op, id |-> clock + 1, user |-> u, row |-> r, slot |-> s, teacher |-> t,
                 week |-> weekStatus, todo |-> absent, saw |-> "NONE"]
<1>1. Begin(p, c, l) /\ UNCHANGED <<weekVars, availVars, editVars>>
  BY DEF Edit
<1>2. r \in Assignments
  BY DEF RecordInv, RowsOk
<1>3. c \in Edits
  BY <1>2 DEF Edits, Typed
<1>4. c \in At(l)
  BY <1>3 DEF At, Writers
<1>5. Linked(c, rows, done)
  BY DEF Linked, RecordInv, RowsOk
<1>6. c.row.born = "HISTORICAL" \/ c.op # "HCORRECT"
  BY DEF RecordInv, RowsOk
<1>7. Sound(l, c, rows, done)
  BY <1>5, <1>6 DEF Sound
<1>8. c.id = clock + 1 /\ c.op # "FILL"
  BY DEF EditOps
<1> HIDE DEF c
<1> QED BY <1>1, <1>4, <1>7, <1>8, HereBegins

LEMMA AbsentIsEntry ==
  ASSUME NEW t \in Teachers
  PROVE  Absent(t) \in Seq(Entries) /\ <<>> \in Seq(Entries)
<1>1. [teacher |-> t, status |-> "ABSENT"] \in Entries
  BY DEF Entries, Encoded
<1> QED BY <1>1 DEF Absent

LEMMA EditsBegin ==
  ASSUME Typed, CallsInv, RecordInv, NEW p \in Requests, NEW u \in Users, Call(p, u)
  PROVE  Begun(p)
<1>0. \A r \in rows : r.teacher \in Teachers /\ r.slot \in Slots /\ Speaks(r.teacher, r.slot[1])
  BY DEF RecordInv, RowsOk, Assignments
<1>1. CASE \E s \in Slots, t \in Teachers : Create(p, u, s, t)
  BY <1>1, CreateBegins
<1>2. CASE \E r \in rows, t \in Teachers : Replace(p, u, r, t)
  <2>1. PICK r \in rows, t \in Teachers : Replace(p, u, r, t)
    BY <1>2
  <2>2. Edit(p, u, r, "REPLACE", r.slot, t, Absent(r.teacher), "look")
    BY <2>1 DEF Replace
  <2>3. Absent(r.teacher) \in Seq(Entries)
    BY <1>0, AbsentIsEntry
  <2>4. "REPLACE" \in EditOps /\ "look" \in StartPlaces
    BY DEF EditOps, StartPlaces
  <2> QED BY <1>0, <2>2, <2>3, <2>4, EditBegins
<1>3. CASE \E r \in rows, s \in Slots, t \in Teachers : Change(p, u, r, s, t)
  <2>1. PICK r \in rows, s \in Slots, t \in Teachers : Change(p, u, r, s, t)
    BY <1>3
  <2> DEFINE l == IF t = r.teacher THEN "update" ELSE "rules"
  <2>2. s[1] = r.slot[1] /\ Edit(p, u, r, "CHANGE", s, t, <<>>, l)
    BY <2>1 DEF Change
  <2>3. "CHANGE" \in EditOps /\ l \in StartPlaces /\ <<>> \in Seq(Entries)
    BY DEF EditOps, StartPlaces
  <2>4. l = "update" => Speaks(t, s[1])
    BY <1>0, <2>2
  <2>5. l = "rules" \/ l = "update"
    OBVIOUS
  <2> HIDE DEF l
  <2> QED BY <2>2, <2>3, <2>4, <2>5, EditBegins
<1>4. CASE \E r \in rows, s \in Slots, t \in Teachers : CorrectHistorical(p, u, r, s, t)
  <2>1. PICK r \in rows, s \in Slots, t \in Teachers : CorrectHistorical(p, u, r, s, t)
    BY <1>4
  <2>2. /\ s[1] = r.slot[1] /\ Edit(p, u, r, "HCORRECT", s, t, <<>>, "update")
        /\ r.source = "HISTORICAL"
        /\ (s # r.slot \/ t # r.teacher) => Speaks(t, s[1])
    BY <2>1 DEF CorrectHistorical
  <2>3. "HCORRECT" \in EditOps /\ "update" \in StartPlaces /\ <<>> \in Seq(Entries)
    BY DEF EditOps, StartPlaces
  <2>4. Speaks(t, s[1])
    BY <1>0, <2>2
  <2> QED BY <2>2, <2>3, <2>4, EditBegins
<1>5. CASE \E r \in rows, absent \in BOOLEAN : Clear(p, u, r, absent)
  <2>1. PICK r \in rows, absent \in BOOLEAN : Clear(p, u, r, absent)
    BY <1>5
  <2> DEFINE l == IF absent THEN "look" ELSE "delete"
             todo == IF absent THEN Absent(r.teacher) ELSE <<>>
  <2>2. Edit(p, u, r, "CLEAR", r.slot, r.teacher, todo, l)
    BY <2>1 DEF Clear
  <2>3. "CLEAR" \in EditOps /\ l \in StartPlaces /\ todo \in Seq(Entries)
    BY <1>0, AbsentIsEntry DEF EditOps, StartPlaces
  <2>4. l = "look" \/ l = "delete"
    OBVIOUS
  <2> HIDE DEF l, todo
  <2> QED BY <1>0, <2>2, <2>3, <2>4, EditBegins
<1> QED BY <1>1, <1>2, <1>3, <1>4, <1>5 DEF Call

-----------------------------------------------------------------------------
(* The requests go on *)

\* A request that takes no lock.
LEMMA CallMoves ==
  ASSUME Typed, LocksInv, CallsInv, NEW p \in Requests, NEW l, NEW c, NEW P, InFlight(p),
         Turned(p, l, c, P), l \notin {"idle", "again", "week_commit"}, pc[p] # "week_commit",
         Good(l, c, P, rows, done, grants), c.id = call[p].id,
         clock' = clock, weekLock' = weekLock, creating' = creating, l \in Held <=> pc[p] \in Held,
         TablesStay, weekRow' = weekRow, failed' = failed
  PROVE  Moved(p)
<1>1. Locking(p, l)
  BY DEF Locking
<1>2. RowStays(l)
  BY DEF RowStays
<1> QED BY <1>1, <1>2 DEF Moved

LEMMA LockMoves ==
  ASSUME Typed, LocksInv, CallsInv, NEW p \in Requests, LockWeek(p), Apart
  PROVE  Moved(p)
<1>1. /\ pc[p] = "lock" /\ weekLock = NoRequest /\ weekLock' = p
      /\ UNCHANGED <<work, clock, call, pending, done, weekVars, availVars>>
  BY DEF LockWeek
<1>2. Turned(p, "locked", call[p], pending[p])
  BY <1>1 DEF LockWeek, Turned, Typed
<1>3. creating' = creating
  BY <1>2, CreatingOnMove DEF Apart
<1>4. Good("lock", call[p], pending[p], rows, done, grants)
  BY <1>1 DEF CallsInv
<1>5. Good("locked", call[p], pending[p], rows, done, grants)
  BY <1>4 DEF Good, At, Sound, Banks
<1>6. Locking(p, "locked")
  BY <1>1, <1>3 DEF Locking, Held
<1>7. TablesStay /\ RowStays("locked") /\ InFlight(p)
  BY <1>1 DEF TablesStay, RowStays, Apart, weekVars, availVars, InFlight
<1> QED BY <1>1, <1>2, <1>5, <1>6, <1>7 DEF Moved

\* One entry less to write.
LEMMA Shorter ==
  ASSUME NEW c \in Writers, c.todo # <<>>, NEW d, d = [c EXCEPT !.todo = Tail(@)]
  PROVE  /\ d \in Writers /\ d.op = c.op /\ d.id = c.id /\ d.user = c.user /\ d.week = c.week
         /\ c.op \in EditOps => d.row = c.row /\ d.slot = c.slot
         /\ c.op = "FILL" => d.blank = c.blank
         /\ Head(c.todo) \in Entries
         /\ \A i \in DOMAIN d.todo : i + 1 \in DOMAIN c.todo /\ d.todo[i] = c.todo[i + 1]
         /\ 1 \in DOMAIN c.todo /\ c.todo[1] = Head(c.todo)
<1>1. c.todo \in Seq(Entries)
  BY DEF Writers, Savings, Fillings, Edits
<1>2. /\ Tail(c.todo) \in Seq(Entries) /\ Head(c.todo) \in Entries
      /\ 1 \in DOMAIN c.todo /\ c.todo[1] = Head(c.todo)
      /\ \A i \in DOMAIN Tail(c.todo) : i + 1 \in DOMAIN c.todo /\ Tail(c.todo)[i] = c.todo[i + 1]
  BY <1>1
<1>3. CASE c \in Savings
  BY <1>2, <1>3 DEF Savings, Writers, EditOps
<1>4. CASE c \in Fillings
  BY <1>2, <1>4 DEF Fillings, Writers, EditOps
<1>5. CASE c \in Edits /\ c.op \in {"CLEAR", "REPLACE"}
  BY <1>2, <1>5 DEF Edits, Writers, EditOps
<1> QED BY <1>3, <1>4, <1>5 DEF Writers

\* The status that was seen.
LEMMA Seeing ==
  ASSUME NEW c \in Writers, NEW v \in Encoded \union {"NONE"}, NEW d, d = [c EXCEPT !.saw = v]
  PROVE  /\ d \in Writers /\ d.op = c.op /\ d.id = c.id /\ d.user = c.user /\ d.week = c.week
         /\ c.op \in EditOps => d.row = c.row /\ d.slot = c.slot
         /\ c.op = "FILL" => d.blank = c.blank
         /\ d.todo = c.todo
<1>3. CASE c \in Savings
  BY <1>3 DEF Savings, Writers, EditOps
<1>4. CASE c \in Fillings
  BY <1>4 DEF Fillings, Writers, EditOps
<1>5. CASE c \in Edits /\ c.op \in {"CLEAR", "REPLACE"}
  BY <1>5 DEF Edits, Writers, EditOps
<1> QED BY <1>3, <1>4, <1>5 DEF Writers

\* A writer at "look" or "put".
LEMMA WriterAt ==
  ASSUME CallsInv, NEW p \in Requests, pc[p] \in {"look", "put"}
  PROVE  /\ call[p] \in Writers /\ InFlight(p) /\ pc[p] \notin Held
         /\ pc[p] # "week_commit"
         /\ pc[p] = "put" => call[p].todo # <<>>
         /\ call[p].op \in EditOps => Linked(call[p], rows, done)
         /\ Banks(pc[p], call[p], pending[p], grants)
BY DEF CallsInv, Good, At, Sound, Held, InFlight

LEMMA LookMoves ==
  ASSUME Typed, LocksInv, CallsInv, NEW p \in Requests, Look(p), Apart
  PROVE  Moved(p) \/ Abort(p)
<1> DEFINE c == call[p]
           e == Head(c.todo)
<1>1. pc[p] = "look" /\ c.todo # <<>> /\ UNCHANGED weekVars
  BY DEF Look
<1>2. /\ c \in Writers /\ InFlight(p) /\ pc[p] \notin Held
      /\ c.op \in EditOps => Linked(c, rows, done)
      /\ Banks("look", c, pending[p], grants)
  BY <1>1, WriterAt
<1>3. ASSUME NEW d, NEW l \in {"look", "put"}, Know(p, d, l), UNCHANGED availVars,
             Good(l, d, pending[p], rows, done, grants), d.id = c.id
      PROVE  Moved(p)
  <2>1. /\ Turned(p, l, d, pending[p])
        /\ clock' = clock /\ weekLock' = weekLock /\ done' = done
    BY <1>3, KnowTurns
  <2>2. creating' = creating
    BY <1>3, <2>1, CreatingOnMove DEF Apart
  <2>3. TablesStay /\ weekRow' = weekRow /\ failed' = failed
    BY <1>1, <1>3, <2>1 DEF TablesStay, Apart, weekVars, availVars
  <2>4. l \notin {"idle", "again", "week_commit"} /\ pc[p] # "week_commit" /\ (l \in Held <=> pc[p] \in Held)
    BY <1>1, <1>3 DEF Held
  <2> QED BY <1>2, <1>3, <2>1, <2>2, <2>3, <2>4, CallMoves
<1>4. CASE Know(p, [call[p] EXCEPT !.todo = Tail(@)], "look") /\ UNCHANGED availVars
  <2> DEFINE d == [c EXCEPT !.todo = Tail(@)]
  <2>1. /\ d \in Writers /\ d.op = c.op /\ d.id = c.id /\ d.user = c.user /\ d.week = c.week
        /\ c.op \in EditOps => d.row = c.row /\ d.slot = c.slot
        /\ c.op = "FILL" => d.blank = c.blank
        /\ \A i \in DOMAIN d.todo : i + 1 \in DOMAIN c.todo /\ d.todo[i] = c.todo[i + 1]
    BY <1>1, <1>2, Shorter
  <2> HIDE DEF d
  <2>2. Banks("look", d, pending[p], grants)
    BY <1>2, <2>1 DEF Banks, Unlocked
  <2>3. Sound("look", d, rows, done)
    BY <1>2, <2>1 DEF Sound, Linked
  <2>4. Good("look", d, pending[p], rows, done, grants)
    BY <2>1, <2>2, <2>3 DEF Good, At
  <2> QED BY <1>3, <1>4, <2>1, <2>4 DEF d
<1>5. CASE /\ Editable(c.week, c.user)
           /\ Know(p, [call[p] EXCEPT !.saw = avail[e.teacher]], "put") /\ UNCHANGED availVars
  <2>0. avail[e.teacher] \in Encoded \union {"NONE"}
    <3>1. e \in Entries
      BY <1>1, <1>2, Shorter
    <3> QED BY <3>1 DEF Entries, Typed
  <2> DEFINE d == [c EXCEPT !.saw = avail[e.teacher]]
  <2>1. /\ d \in Writers /\ d.op = c.op /\ d.id = c.id /\ d.user = c.user /\ d.week = c.week
        /\ c.op \in EditOps => d.row = c.row /\ d.slot = c.slot
        /\ c.op = "FILL" => d.blank = c.blank
        /\ d.todo = c.todo
    BY <1>2, <2>0, Seeing
  <2> HIDE DEF d
  <2>2. Unlocked(d, grants)
    BY <1>5, <2>1 DEF Unlocked, Editable, Active
  <2>3. Banks("put", d, pending[p], grants)
    BY <1>2, <2>1, <2>2 DEF Banks
  <2>4. Sound("put", d, rows, done)
    BY <1>2, <2>1 DEF Sound, Linked
  <2>5. Good("put", d, pending[p], rows, done, grants)
    BY <1>1, <2>1, <2>3, <2>4 DEF Good, At
  <2> QED BY <1>3, <1>5, <2>1, <2>5 DEF d
<1> QED BY <1>4, <1>5 DEF Look

LEMMA PutMoves ==
  ASSUME Typed, LocksInv, CallsInv, NEW p \in Requests, Put(p), Apart
  PROVE  Moved(p) \/ Abort(p)
<1> DEFINE c == call[p]
           e == Head(c.todo)
           d == [c EXCEPT !.todo = Tail(@)]
           P == pending[p]
           Q == [t \in DOMAIN P \union {e.teacher} |-> IF t = e.teacher THEN e.status ELSE P[t]]
<1>1. pc[p] = "put" /\ UNCHANGED weekVars
  BY DEF Put
<1>2. /\ c \in Writers /\ InFlight(p) /\ pc[p] \notin Held /\ c.todo # <<>>
      /\ c.op \in EditOps => Linked(c, rows, done)
      /\ Banks("put", c, P, grants)
  BY <1>1, WriterAt
<1>3. /\ d \in Writers /\ d.op = c.op /\ d.id = c.id /\ d.user = c.user /\ d.week = c.week
      /\ c.op \in EditOps => d.row = c.row /\ d.slot = c.slot
      /\ c.op = "FILL" => d.blank = c.blank
      /\ e \in Entries
      /\ \A i \in DOMAIN d.todo : i + 1 \in DOMAIN c.todo /\ d.todo[i] = c.todo[i + 1]
      /\ 1 \in DOMAIN c.todo /\ c.todo[1] = e
  BY <1>2, Shorter
<1>4. CASE Abort(p)
  BY <1>4
<1>5. CASE /\ pending' = [pending EXCEPT ![p] = Q]
           /\ call' = [call EXCEPT ![p] = d]
           /\ pc' = [pc EXCEPT ![p] = "look"]
           /\ UNCHANGED <<work, weekLock, clock, done, availVars>>
  <2>0. e.teacher \in Teachers /\ e.status \in Encoded
    BY <1>3 DEF Entries
  <2> HIDE DEF d, e, c
  <2>1. Turned(p, "look", d, Q)
    BY <1>5 DEF Turned, Typed
  <2>2. creating' = creating
    BY <2>1, CreatingOnMove DEF Apart
  <2>3. TablesStay /\ weekRow' = weekRow /\ failed' = failed
    BY <1>1, <1>5 DEF TablesStay, Apart, weekVars, availVars
  <2>4. c.op \in {"SAVE", "FILL", "CLEAR", "REPLACE"}
    BY <1>2 DEF Writers, Savings, Fillings, Edits
  <2>5. DOMAIN Q = DOMAIN P \union {e.teacher} /\ \A t \in DOMAIN Q : Q[t] \in Encoded
    BY <1>2, <2>0 DEF Banks
  <2>6. c.op = "FILL" => e.teacher \in c.blank
    BY <1>2, <1>3 DEF Banks
  <2> HIDE DEF P, Q
  <2>7. Banks("look", d, Q, grants)
    BY <1>2, <1>3, <2>0, <2>4, <2>5, <2>6 DEF Banks, Unlocked
  <2>8. Sound("look", d, rows, done)
    BY <1>2, <1>3 DEF Sound, Linked
  <2>9. Good("look", d, Q, rows, done, grants)
    BY <1>3, <2>7, <2>8 DEF Good, At
  <2>10. "look" \notin Held /\ clock' = clock /\ weekLock' = weekLock /\ d.id = call[p].id
    BY <1>3, <1>5 DEF Held, c
  <2> QED BY <1>1, <1>2, <2>1, <2>2, <2>3, <2>9, <2>10, CallMoves
<1> QED
  <2>1. UNCHANGED weekVars /\ (Abort(p) \/
        (/\ pending' = [pending EXCEPT ![p] = Q]
         /\ call' = [call EXCEPT ![p] = d]
         /\ pc' = [pc EXCEPT ![p] = "look"]
         /\ UNCHANGED <<work, weekLock, clock, done, availVars>>))
    BY DEF Put, Typed
  <2> QED BY <1>4, <1>5, <2>1

LEMMA MarkedMoves ==
  ASSUME Typed, LocksInv, CallsInv, NEW p \in Requests, Marked(p)
  PROVE  Moved(p)
<1> DEFINE c == call[p]
           l == IF c.op = "CLEAR" THEN "delete" ELSE "rules"
<1>1. /\ pc[p] = "look" /\ c.op \in {"CLEAR", "REPLACE"} /\ Goto(p, l)
      /\ UNCHANGED <<weekVars, availVars, editVars>>
  BY DEF Marked
<1>2. /\ c \in Writers /\ InFlight(p) /\ pc[p] \notin Held
      /\ c.op \in EditOps => Linked(c, rows, done)
      /\ Banks("look", c, pending[p], grants)
  BY <1>1, WriterAt
<1>3. c \in Edits
  BY <1>1, <1>2 DEF Writers, Savings, Fillings
<1>4. l \in {"delete", "rules"}
  OBVIOUS
<1>5. c \in At(l)
  BY <1>1, <1>3 DEF At
<1> HIDE DEF l
<1>6. Good(l, c, pending[p], rows, done, grants)
  BY <1>2, <1>4, <1>5 DEF Good, Sound, Banks
<1>7. Turned(p, l, c, pending[p]) /\ clock' = clock /\ weekLock' = weekLock /\ done' = done
  BY <1>1, GotoTurns
<1>8. l \notin {"idle", "again", "week_commit"} /\ pc[p] # "week_commit" /\ (l \in Held <=> pc[p] \in Held)
  BY <1>1, <1>4 DEF Held
<1>9. TablesStay /\ creating' = creating /\ weekRow' = weekRow /\ failed' = failed
  BY <1>1, <1>7 DEF TablesStay, weekVars, availVars, editVars
<1> QED BY <1>2, <1>6, <1>7, <1>8, <1>9, CallMoves

\* Whose rules were checked, speaks the language.
LEMMA PermittedSpeaks ==
  ASSUME NEW u, NEW t, NEW s, NEW id, Permitted(u, Violated(t, s, id))
  PROVE  Speaks(t, s[1])
<1>1. ~Speaks(t, s[1]) => "LANGUAGE_MISMATCH" \in Violated(t, s, id)
  BY DEF Violated
<1> QED BY <1>1 DEF Permitted, Absolute

LEMMA RulesMove ==
  ASSUME Typed, LocksInv, CallsInv, NEW p \in Requests, CheckRules(p)
  PROVE  Moved(p) \/ (Abort(p) /\ UNCHANGED <<weekVars, editVars>>)
<1> DEFINE c == call[p]
           violated == Violated(c.teacher, c.slot, c.row.id)
           d == [op |-> c.op, id |-> c.id, user |-> c.user, row |-> c.row, slot |-> c.slot,
                 teacher |-> c.teacher, source |-> IF violated = {} THEN "MANUAL" ELSE "OVERRIDE",
                 week |-> c.week, todo |-> <<>>, saw |-> c.saw]
<1>1. pc[p] = "rules" /\ UNCHANGED <<weekVars, editVars>>
  BY DEF CheckRules
<1>2. CASE ~Permitted(c.user, violated)
  BY <1>2 DEF CheckRules
<1>3. CASE Permitted(c.user, violated)
  <2>1. Know(p, d, "update") /\ UNCHANGED availVars
    BY <1>3 DEF CheckRules
  <2>2. /\ c \in Edits /\ c.op \in {"CHANGE", "REPLACE"} /\ InFlight(p)
        /\ Linked(c, rows, done) /\ Banks("rules", c, pending[p], grants)
    BY <1>1 DEF CallsInv, Good, At, Sound, EditOps, InFlight
  <2>3. Speaks(c.teacher, c.slot[1])
    BY <1>3, PermittedSpeaks
  <2>4. d \in Ruled
    BY <2>2 DEF Ruled, Edits
  <2>5. d.op = c.op /\ d.id = c.id /\ d.user = c.user /\ d.row = c.row /\ d.slot = c.slot
        /\ d.teacher = c.teacher /\ d.week = c.week
    OBVIOUS
  <2> HIDE DEF d
  <2>6. Sound("update", d, rows, done)
    BY <2>2, <2>3, <2>5 DEF Sound, Linked
  <2>7. Banks("update", d, pending[p], grants)
    BY <2>2, <2>5 DEF Banks, Unlocked
  <2>8. d \in At("update")
    BY <2>4 DEF At
  <2>9. Good("update", d, pending[p], rows, done, grants)
    BY <2>6, <2>7, <2>8 DEF Good
  <2>10. Turned(p, "update", d, pending[p]) /\ clock' = clock /\ weekLock' = weekLock /\ done' = done
    BY <2>1, KnowTurns
  <2>11. pc[p] # "week_commit" /\ ("update" \in Held <=> pc[p] \in Held)
    BY <1>1 DEF Held
  <2>12. TablesStay /\ creating' = creating /\ weekRow' = weekRow /\ failed' = failed
    BY <1>1, <2>1, <2>10 DEF TablesStay, weekVars, availVars, editVars
  <2> QED BY <2>2, <2>5, <2>9, <2>10, <2>11, <2>12, CallMoves
<1> QED BY <1>2, <1>3

\* A request that has the week locked goes on with it.
LEMMA HolderMoves ==
  ASSUME Typed, LocksInv, CallsInv, NEW p \in Requests, pc[p] \in Held, NEW l \in Held, NEW c,
         Turned(p, l, c, pending[p]), Good(l, c, pending[p], rows, done, grants), c.id = call[p].id,
         clock' = clock, weekLock' = weekLock, done' = done,
         UNCHANGED <<weekVars, availVars, editVars>>
  PROVE  Moved(p)
<1>1. InFlight(p) /\ l \notin {"idle", "again", "week_commit"} /\ pc[p] # "week_commit"
  BY DEF Held, InFlight
<1>2. TablesStay /\ creating' = creating /\ weekRow' = weekRow /\ failed' = failed
  BY DEF TablesStay, weekVars, availVars, editVars
<1> QED BY <1>1, <1>2, CallMoves

LEMMA SnapshotMoves ==
  ASSUME Typed, LocksInv, CallsInv, RecordInv, NEW p \in Requests, Snapshot(p)
  PROVE  Moved(p) \/ (Abort(p) /\ UNCHANGED <<weekVars, editVars>>)
<1> DEFINE c == call[p]
           d == [op |-> "GENERATE", id |-> c.id, auto |-> {r \in rows : r.source = "AUTO"}]
<1>1. pc[p] = "locked" /\ c.op = "GENERATE" /\ UNCHANGED <<weekVars, editVars>>
  BY DEF Snapshot
<1>2. CASE ~Open
  BY <1>2 DEF Snapshot
<1>3. CASE Open
  <2>1. Know(p, d, "context") /\ UNCHANGED availVars
    BY <1>3 DEF Snapshot
  <2>2. c \in Generations /\ Banks("locked", c, pending[p], grants)
    BY <1>1 DEF CallsInv, Good, At, Corrections, Records
  <2>3. rows \subseteq Assignments
    BY DEF RecordInv, RowsOk
  <2>4. d \in At("context") /\ d.id = c.id
    BY <2>2, <2>3 DEF At, Snapshots, Generations
  <2>5. Sound("context", d, rows, done)
    BY DEF Sound, EditOps
  <2>6. Banks("context", d, pending[p], grants)
    BY <1>1, <2>2 DEF Banks
  <2> HIDE DEF d
  <2>7. Turned(p, "context", d, pending[p]) /\ clock' = clock /\ weekLock' = weekLock /\ done' = done
    BY <2>1, KnowTurns
  <2>8. Good("context", d, pending[p], rows, done, grants)
    BY <2>4, <2>5, <2>6 DEF Good
  <2>9. pc[p] \in Held /\ "context" \in Held
    BY <1>1 DEF Held
  <2> QED BY <1>1, <2>1, <2>4, <2>7, <2>8, <2>9, HolderMoves
<1> QED BY <1>2, <1>3

LEMMA ContextMoves ==
  ASSUME Typed, LocksInv, CallsInv, NEW p \in Requests, Context(p)
  PROVE  Moved(p)
<1> DEFINE c == call[p]
           taken == {r.slot : r \in {q \in rows : q.source # "AUTO"}}
           pairs == {x \in (Slots \ taken) \X Teachers : Eligible(x[2], x[1][1])}
           d == [op |-> "GENERATE", id |-> c.id, auto |-> c.auto, pairs |-> pairs]
<1>1. pc[p] = "context" /\ Know(p, d, "replace") /\ UNCHANGED <<weekVars, availVars, editVars>>
  BY DEF Context
<1>2. /\ c \in Snapshots /\ Banks("context", c, pending[p], grants)
      /\ {r \in rows : r.source = "AUTO"} \subseteq c.auto
  BY <1>1 DEF CallsInv, Good, At, Sound
<1>3. pairs \in SUBSET (Slots \X Teachers) /\ \A x \in pairs : Speaks(x[2], x[1][1])
  BY DEF Eligible
<1> HIDE DEF pairs
<1>4. d \in At("replace") /\ d.id = c.id
  BY <1>2, <1>3 DEF At, Contexts, Snapshots
<1>5. Sound("replace", d, rows, done)
  BY <1>2, <1>3 DEF Sound, EditOps
<1>6. c.op = "GENERATE"
  BY <1>2 DEF Snapshots
<1>7. Banks("replace", d, pending[p], grants)
  BY <1>2, <1>6 DEF Banks
<1> HIDE DEF d
<1>8. Turned(p, "replace", d, pending[p]) /\ clock' = clock /\ weekLock' = weekLock /\ done' = done
  BY <1>1, KnowTurns
<1>9. Good("replace", d, pending[p], rows, done, grants)
  BY <1>4, <1>5, <1>7 DEF Good
<1>10. pc[p] \in Held /\ "replace" \in Held
  BY <1>1 DEF Held
<1> QED BY <1>1, <1>4, <1>8, <1>9, <1>10, HolderMoves

LEMMA UnmixedMoves ==
  ASSUME Typed, LocksInv, CallsInv, RecordInv, NEW p \in Requests, CheckUnmixed(p)
  PROVE  Moved(p) \/ (Abort(p) /\ UNCHANGED <<weekVars, editVars>>)
<1> DEFINE c == call[p]
<1>1. pc[p] = "locked" /\ c.op = "RECORD" /\ UNCHANGED <<weekVars, editVars>>
  BY DEF CheckUnmixed
<1>2. CASE \E r \in rows : r.source # "HISTORICAL"
  BY <1>2 DEF CheckUnmixed
<1>3. CASE \A r \in rows : r.source = "HISTORICAL"
  <2>1. Goto(p, "record") /\ UNCHANGED availVars
    BY <1>3 DEF CheckUnmixed
  <2>2. c \in Records /\ Banks("locked", c, pending[p], grants)
    BY <1>1 DEF CallsInv, Good, At, Corrections, Generations
  <2>3. \A r \in rows : r.born = "HISTORICAL"
    BY <1>3 DEF RecordInv, RowsOk
  <2>4. Good("record", c, pending[p], rows, done, grants)
    BY <1>1, <2>2, <2>3 DEF Good, At, Sound, EditOps, Banks
  <2>5. Turned(p, "record", c, pending[p]) /\ clock' = clock /\ weekLock' = weekLock /\ done' = done
    BY <2>1, GotoTurns
  <2>6. pc[p] \in Held /\ "record" \in Held
    BY <1>1 DEF Held
  <2> QED BY <1>1, <2>1, <2>4, <2>5, <2>6, HolderMoves
<1> QED BY <1>2, <1>3

LEMMA InsertWeekMoves ==
  ASSUME Typed, LocksInv, CallsInv, NEW p \in Requests, InsertWeek(p)
  PROVE  Moved(p) \/ (Abort(p) /\ UNCHANGED <<weekVars, editVars>>)
<1>1. pc[p] = "week_insert" /\ creating = NoRequest
      /\ UNCHANGED <<weekVars, weekRow, historical, rows, log, failed>>
  BY DEF InsertWeek
<1>2. CASE weekRow
  BY <1>1, <1>2 DEF InsertWeek, editVars
<1>3. CASE ~weekRow
  <2>1. creating' = p /\ Goto(p, "week_commit") /\ UNCHANGED availVars
    BY <1>3 DEF InsertWeek
  <2>2. Turned(p, "week_commit", call[p], pending[p])
        /\ clock' = clock /\ weekLock' = weekLock /\ done' = done
    BY <2>1, GotoTurns
  <2>3. Good("week_insert", call[p], pending[p], rows, done, grants)
    BY <1>1 DEF CallsInv
  <2>4. Good("week_commit", call[p], pending[p], rows, done, grants)
    BY <2>3 DEF Good, At, Sound, Banks
  <2>5. Locking(p, "week_commit")
    BY <1>1, <2>1, <2>2 DEF Locking, Held
  <2>6. TablesStay /\ RowStays("week_commit") /\ InFlight(p)
    BY <1>1, <2>1, <2>2 DEF TablesStay, RowStays, weekVars, availVars, InFlight
  <2> QED BY <2>2, <2>4, <2>5, <2>6 DEF Moved
<1> QED BY <1>2, <1>3

-----------------------------------------------------------------------------
(* The requests end *)

LEMMA AbortEnds ==
  ASSUME Typed, LocksInv, NEW p \in Requests, InFlight(p), Abort(p), UNCHANGED <<weekVars, rows, log>>,
         weekRow => weekRow', failed' => failed,
         \/ creating' = IF creating = p THEN NoRequest ELSE creating
         \/ Apart
         \/ creating' = creating /\ pc[p] # "week_commit"
  PROVE  Ended(p)
<1>1. /\ Turned(p, "idle", NoCall, Nothing) /\ clock' = clock
      /\ weekLock' = IF weekLock = p THEN NoRequest ELSE weekLock
  BY EndTurns DEF Abort
<1>2. creating' = IF creating = p THEN NoRequest ELSE creating
  <2>1. CASE Apart
    BY <1>1, <2>1, CreatingOnEnd DEF Apart
  <2>2. CASE creating' = creating /\ pc[p] # "week_commit"
    BY <2>2 DEF LocksInv
  <2> QED BY <2>1, <2>2
<1>3. TablesStay /\ RowStays("idle")
  BY DEF Abort, TablesStay, RowStays, weekVars
<1> QED BY <1>1, <1>2, <1>3 DEF Ended, Over

LEMMA AbortEndsHere ==
  ASSUME Typed, LocksInv, NEW p \in Requests, InFlight(p), pc[p] # "week_commit", Abort(p),
         UNCHANGED <<weekVars, editVars>>
  PROVE  Ended(p)
<1>1. UNCHANGED <<weekVars, rows, log>> /\ weekRow' = weekRow /\ failed' = failed /\ creating' = creating
  BY DEF editVars
<1> QED BY <1>1, AbortEnds

\* A commit that leaves the assignments alone.
LEMMA PlainCommits ==
  ASSUME Typed, LocksInv, RecordInv, NEW p \in Requests, InFlight(p), Commit(p),
         weekStatus' = weekStatus, grants \subseteq grants', UNCHANGED <<rows, log>>,
         call[p].op \notin {"GENERATE", "RECORD"},
         weekRow => weekRow', failed' => failed,
         \/ creating' = IF creating = p THEN NoRequest ELSE creating
         \/ Apart
         \/ creating' = creating /\ pc[p] # "week_commit"
  PROVE  Committed(p)
<1>1. /\ Turned(p, "idle", NoCall, Nothing) /\ clock' = clock
      /\ weekLock' = IF weekLock = p THEN NoRequest ELSE weekLock
  BY EndTurns DEF Commit
<1>2. creating' = IF creating = p THEN NoRequest ELSE creating
  <2>1. CASE Apart
    BY <1>1, <2>1, CreatingOnEnd DEF Apart
  <2>2. CASE creating' = creating /\ pc[p] # "week_commit"
    BY <2>2 DEF LocksInv
  <2> QED BY <2>1, <2>2
<1>3. RowsOk(rows', done')
  BY DEF RecordInv, RowsOk, Commit
<1>4. Evolves(rows, rows', Inserting(p))
  BY NothingEvolves
<1>5. DeletedIsSnapshotted => DeletedIsSnapshotted'
  BY DEF DeletedIsSnapshotted
<1>6. RowStays("idle")
  BY DEF RowStays
<1>7. Over(p)
  BY <1>1, <1>2 DEF Over
<1> QED BY <1>3, <1>4, <1>5, <1>6, <1>7 DEF Committed, Commit

\* Fewer rows are as good, and so are more calls.
LEMMA FewerRows ==
  ASSUME NEW R, NEW D, NEW S, NEW E, RowsOk(R, D), S \subseteq R, D \subseteq E
  PROVE  RowsOk(S, E)
BY DEF RowsOk

\* The rows N of the call n join the rows R.
LEMMA RowsJoin ==
  ASSUME NEW R, NEW D, NEW N, NEW n, RowsOk(R, D), n \notin D, N \subseteq Assignments,
         \A x \in N : /\ x.id = <<n, x.slot>> /\ Speaks(x.teacher, x.slot[1])
                      /\ x.source = "HISTORICAL" => x.born = "HISTORICAL",
         \A x \in N, q \in R : x.slot # q.slot /\ x.teacher # q.teacher,
         \A x, y \in N : x # y => x.slot # y.slot /\ x.teacher # y.teacher
  PROVE  RowsOk(R \union N, D \union {n}) /\ Evolves(R, R \union N, {n})
<1>1. \A x \in N : x.id[1] = n
  OBVIOUS
<1>2. \A x \in N, q \in R : x.id # q.id
  BY <1>1 DEF RowsOk
<1>3. \A x, y \in N : x # y => x.id # y.id
  OBVIOUS
<1>4. \A r, q \in R \union N : r # q => r.id # q.id /\ r.slot # q.slot /\ r.teacher # q.teacher
  BY <1>2, <1>3 DEF RowsOk
<1>5. \A r \in R \union N : /\ r.id[1] \in D \union {n}
                            /\ Speaks(r.teacher, r.slot[1])
                            /\ r.source = "HISTORICAL" => r.born = "HISTORICAL"
  BY <1>1 DEF RowsOk
<1>6. Evolves(R, R \union N, {n})
  BY <1>1 DEF Evolves
<1> QED BY <1>4, <1>5, <1>6 DEF RowsOk

LEMMA NewRow ==
  ASSUME NEW n \in Nat, NEW s \in Slots, NEW t \in Teachers, NEW source \in Sources
  PROVE  /\ Row(n, s, t, source) \in Assignments
         /\ Row(n, s, t, source).id = <<n, s>> /\ Row(n, s, t, source).slot = s
         /\ Row(n, s, t, source).teacher = t
         /\ Row(n, s, t, source).source = source /\ Row(n, s, t, source).born = source
BY DEF Row, Assignments

\* A commit of this module.
LEMMA RowCommits ==
  ASSUME Typed, LocksInv, NEW p \in Requests, InFlight(p), pc[p] # "week_commit", Commit(p),
         UNCHANGED <<weekVars, weekRow, creating, failed>>,
         RowsOk(rows', done'), Evolves(rows, rows', Inserting(p)),
         DeletedIsSnapshotted => DeletedIsSnapshotted',
         call[p].op = "GENERATE" => {r \in rows : r.source # "AUTO"} \subseteq rows',
         call[p].op = "RECORD" => \A r \in rows' : r.born = "HISTORICAL"
  PROVE  Committed(p)
<1>1. /\ Turned(p, "idle", NoCall, Nothing) /\ clock' = clock
      /\ weekLock' = IF weekLock = p THEN NoRequest ELSE weekLock
  BY EndTurns DEF Commit
<1>2. Over(p)
  BY <1>1 DEF Over, LocksInv
<1>3. weekStatus' = weekStatus /\ grants \subseteq grants' /\ RowStays("idle")
  BY DEF weekVars, RowStays
<1> QED BY <1>2, <1>3 DEF Committed, Commit

\* What is known of a request in flight.
LEMMA CallAt ==
  ASSUME CallsInv, NEW p \in Requests
  PROVE  call[p] \in At(pc[p]) /\ Sound(pc[p], call[p], rows, done)
BY DEF CallsInv, Good

LEMMA InsertCommits ==
  ASSUME Typed, IdsInv, LocksInv, CallsInv, RecordInv, NEW p \in Requests, Insert(p)
  PROVE  Committed(p) \/ Ended(p)
<1> DEFINE c == call[p]
           x == Row(c.id, c.slot, c.teacher, "MANUAL")
<1>1. pc[p] = "insert" /\ weekLock = NoRequest /\ UNCHANGED <<weekVars, tableVars>> /\ InFlight(p)
  BY DEF Insert, InFlight
<1>2. c \in Creates /\ Speaks(c.teacher, c.slot[1])
  BY <1>1, CallAt DEF At, Sound
<1>3. /\ x \in Assignments /\ x.id = <<c.id, x.slot>> /\ x.slot = c.slot /\ x.teacher = c.teacher
      /\ x.source = "MANUAL"
  BY <1>2, NewRow DEF Creates, Sources
<1>4. CASE ~Free(c.slot, c.teacher, rows)
  <2>1. Abort(p) /\ UNCHANGED rows
    BY <1>4 DEF Insert
  <2>2. UNCHANGED <<weekVars, editVars>>
    BY <1>1, <2>1 DEF tableVars, editVars
  <2> QED BY <1>1, <2>1, <2>2, AbortEndsHere
<1>5. CASE Free(c.slot, c.teacher, rows)
  <2>1. rows' = rows \union {x} /\ Commit(p)
    BY <1>5 DEF Insert
  <2>2. \A q \in rows : q.slot # c.slot /\ q.teacher # c.teacher
    BY <1>5 DEF Free
  <2>3. RowsOk(rows, done) /\ c.id \notin done
    BY <1>1 DEF RecordInv, IdsInv
  <2> HIDE DEF x
  <2>4. RowsOk(rows \union {x}, done \union {c.id}) /\ Evolves(rows, rows \union {x}, {c.id})
    BY <1>2, <1>3, <2>2, <2>3, RowsJoin
  <2>5. Inserting(p) = {c.id}
    BY <1>1 DEF Inserting
  <2>6. done' = done \union {c.id}
    BY <2>1 DEF Commit
  <2>7. c.op = "CREATE"
    BY <1>2 DEF Creates
  <2>8. DeletedIsSnapshotted => DeletedIsSnapshotted'
    BY <1>1 DEF DeletedIsSnapshotted, tableVars
  <2>9. UNCHANGED <<weekVars, weekRow, creating, failed>>
    BY <1>1 DEF tableVars
  <2> QED BY <1>1, <2>1, <2>4, <2>5, <2>6, <2>7, <2>8, <2>9, RowCommits
<1> QED BY <1>4, <1>5

\* What an UPDATE makes of the row.
LEMMA UpdatedRow ==
  ASSUME NEW R, NEW D, RowsOk(R, D), NEW r \in R, NEW c \in At("update"), Sound("update", c, R, D),
         r.id = c.row.id, NEW x, x = Updated(r, c)
  PROVE  /\ x \in Assignments /\ x.id = r.id /\ x.born = r.born /\ x.slot[1] = r.slot[1]
         /\ x.source # "AUTO"
         /\ x.source = "HISTORICAL" => x.born = "HISTORICAL"
         /\ Speaks(x.teacher, x.slot[1])
<1>1. r \in Assignments /\ Speaks(r.teacher, r.slot[1])
  BY DEF RowsOk
<1>2. /\ c.op \in {"CHANGE", "HCORRECT", "REPLACE"} /\ c.slot \in Slots /\ c.teacher \in Teachers
      /\ c.op = "REPLACE" => c.source \in {"MANUAL", "OVERRIDE"}
  BY DEF At, Edits, Ruled
<1>3. /\ Speaks(c.teacher, c.slot[1]) /\ c.slot[1] = r.slot[1]
      /\ c.op = "HCORRECT" => r.born = "HISTORICAL"
  BY <1>2 DEF Sound, Linked, EditOps
<1>4. Source(c) \in {"MANUAL", "OVERRIDE", "HISTORICAL"} /\ (Source(c) = "HISTORICAL" => c.op = "HCORRECT")
  BY <1>2 DEF Source
<1>5. /\ x.id = r.id /\ x.born = r.born /\ x.source = Source(c)
      /\ x.slot = IF c.op = "CHANGE" /\ c.slot = c.row.slot THEN r.slot ELSE c.slot
      /\ x.teacher = IF c.op = "CHANGE" /\ c.teacher = c.row.teacher THEN r.teacher ELSE c.teacher
      /\ x = [id |-> x.id, slot |-> x.slot, teacher |-> x.teacher, source |-> x.source, born |-> x.born]
  BY <1>1 DEF Updated, Assignments
<1>6. x \in Assignments
  BY <1>1, <1>2, <1>4, <1>5 DEF Assignments, Sources
<1> QED BY <1>1, <1>3, <1>4, <1>5, <1>6

LEMMA UpdateCommits ==
  ASSUME Typed, IdsInv, LocksInv, CallsInv, RecordInv, NEW p \in Requests, Update(p)
  PROVE  Committed(p) \/ Ended(p)
<1> DEFINE c == call[p]
           old == ById(c.row.id)
           new == {Updated(r, c) : r \in old}
<1>1. pc[p] = "update" /\ UNCHANGED <<weekVars, tableVars>> /\ InFlight(p)
  BY DEF Update, InFlight
<1>2. c \in At("update") /\ Sound("update", c, rows, done) /\ RowsOk(rows, done)
  BY <1>1, CallAt DEF RecordInv
<1>3. CASE ~\A r \in new : Free(r.slot, r.teacher, rows \ old)
  <2>1. Abort(p) /\ UNCHANGED rows
    BY <1>3 DEF Update
  <2>2. UNCHANGED <<weekVars, editVars>>
    BY <1>1, <2>1 DEF tableVars, editVars
  <2> QED BY <1>1, <2>1, <2>2, AbortEndsHere
<1>4. CASE \A r \in new : Free(r.slot, r.teacher, rows \ old)
  <2>1. rows' = (rows \ old) \union new /\ Commit(p)
    BY <1>4 DEF Update
  <2>2. done' = done \union {c.id}
    BY <2>1 DEF Commit
  <2>3. old \subseteq rows /\ \A r \in rows : r \in old <=> r.id = c.row.id
    BY DEF ById
  <2>4. \A x \in new : \E r \in old :
          /\ x \in Assignments /\ x.id = r.id /\ x.born = r.born /\ x.slot[1] = r.slot[1]
          /\ x.source # "AUTO" /\ (x.source = "HISTORICAL" => x.born = "HISTORICAL")
          /\ Speaks(x.teacher, x.slot[1])
    <3>1. TAKE x \in new
    <3>2. PICK r \in old : x = Updated(r, c)
      OBVIOUS
    <3>3. r \in rows /\ r.id = c.row.id
      BY <2>3
    <3> HIDE DEF c, old, new
    <3>4. /\ x \in Assignments /\ x.id = r.id /\ x.born = r.born /\ x.slot[1] = r.slot[1]
          /\ x.source # "AUTO" /\ (x.source = "HISTORICAL" => x.born = "HISTORICAL")
          /\ Speaks(x.teacher, x.slot[1])
      BY <1>2, <3>2, <3>3, UpdatedRow
    <3> QED BY <3>2, <3>4
  <2>5. \A r, q \in old : r = q
    BY <1>2, <2>3 DEF RowsOk
  <2>6. \A x, y \in new : x = y
    BY <2>5
  <2>7. \A x \in new, q \in rows \ old : x.id # q.id /\ x.slot # q.slot /\ x.teacher # q.teacher
    <3> HIDE DEF old, new, c
    <3> QED BY <1>4, <2>3, <2>4 DEF Free
  <2> HIDE DEF c, old, new
  <2>8. RowsOk(rows', done')
    <3>1. rows' \subseteq Assignments
      BY <1>2, <2>1, <2>4 DEF RowsOk
    <3>2. \A r \in rows' : /\ r.id[1] \in done'
                           /\ Speaks(r.teacher, r.slot[1])
                           /\ r.source = "HISTORICAL" => r.born = "HISTORICAL"
      BY <1>2, <2>1, <2>2, <2>3, <2>4 DEF RowsOk
    <3>3. \A r, q \in rows' : r # q => r.id # q.id /\ r.slot # q.slot /\ r.teacher # q.teacher
      BY <1>2, <2>1, <2>6, <2>7 DEF RowsOk
    <3> QED BY <3>1, <3>2, <3>3 DEF RowsOk
  <2>9. Evolves(rows, rows', Inserting(p))
    BY <2>1, <2>3, <2>4 DEF Evolves
  <2>10. c.op \notin {"GENERATE", "RECORD"}
    BY <1>2 DEF At, Edits, Ruled
  <2>11. DeletedIsSnapshotted => DeletedIsSnapshotted'
    BY <1>1 DEF DeletedIsSnapshotted, tableVars
  <2>12. UNCHANGED <<weekVars, weekRow, creating, failed>>
    BY <1>1 DEF tableVars
  <2> QED BY <1>1, <2>1, <2>8, <2>9, <2>10, <2>11, <2>12, RowCommits DEF c
<1> QED BY <1>3, <1>4

LEMMA DeleteCommits ==
  ASSUME Typed, IdsInv, LocksInv, CallsInv, RecordInv, NEW p \in Requests, Delete(p)
  PROVE  Committed(p)
<1> DEFINE e == [op |-> "CLEAR", old |-> {call[p].row}, gone |-> ById(call[p].row.id),
                 absent |-> call[p].teacher \in DOMAIN pending[p]]
<1>1. /\ pc[p] = "delete" /\ InFlight(p) /\ Commit(p) /\ rows' \subseteq rows
      /\ log' = log \union {e} /\ UNCHANGED <<weekVars, weekRow, creating, historical, failed>>
  BY DEF Delete, InFlight
<1>2. call[p].op = "CLEAR"
  BY <1>1, CallAt DEF At
<1>3. RowsOk(rows', done')
  <2>1. done \subseteq done'
    BY <1>1 DEF Commit
  <2> QED BY <1>1, <2>1, FewerRows DEF RecordInv
<1>4. Evolves(rows, rows', Inserting(p))
  BY <1>1, NothingEvolves
<1>5. DeletedIsSnapshotted => DeletedIsSnapshotted'
  <2>1. e.op = "CLEAR"
    OBVIOUS
  <2> HIDE DEF e
  <2> QED BY <1>1, <2>1 DEF DeletedIsSnapshotted
<1> QED BY <1>1, <1>2, <1>3, <1>4, <1>5, RowCommits

LEMMA ReplaceCommits ==
  ASSUME Typed, IdsInv, LocksInv, CallsInv, RecordInv, NEW p \in Requests, ReplaceAuto(p)
  PROVE  Committed(p) \/ Ended(p)
<1> DEFINE c == call[p]
           gone == DeletedBy(c)
           kept == rows \ gone
           New(plan) == {Row(c.id, x[1], x[2], "AUTO") : x \in plan}
           e == [op |-> "GENERATE", old |-> c.auto, gone |-> gone, absent |-> FALSE]
<1>1. pc[p] = "replace" /\ UNCHANGED <<weekVars, weekRow, creating, historical, failed>> /\ InFlight(p)
  BY DEF ReplaceAuto, InFlight
<1>2. PICK plan \in Plans(c.pairs) :
        IF \A r \in New(plan), q \in kept : r.slot # q.slot /\ r.teacher # q.teacher
        THEN rows' = kept \union New(plan) /\ log' = log \union {e} /\ Commit(p)
        ELSE Abort(p) /\ UNCHANGED <<rows, log>>
  BY DEF ReplaceAuto
<1>3. /\ c \in Contexts /\ {r \in rows : r.source = "AUTO"} \subseteq c.auto
      /\ \A x \in c.pairs : Speaks(x[2], x[1][1])
  BY <1>1, CallAt DEF At, Sound
<1>4. CASE ~\A r \in New(plan), q \in kept : r.slot # q.slot /\ r.teacher # q.teacher
  <2>1. Abort(p) /\ UNCHANGED <<rows, log>>
    BY <1>2, <1>4
  <2>2. UNCHANGED <<weekVars, editVars>>
    BY <1>1, <2>1 DEF editVars
  <2> QED BY <1>1, <2>1, <2>2, AbortEndsHere
<1>5. CASE \A r \in New(plan), q \in kept : r.slot # q.slot /\ r.teacher # q.teacher
  <2> DEFINE N == New(plan)
  <2>1. rows' = kept \union N /\ log' = log \union {e} /\ Commit(p)
    BY <1>2, <1>5
  <2>2. /\ \A x \in plan : x \in c.pairs /\ x[1] \in Slots /\ x[2] \in Teachers
        /\ \A x, y \in plan : x # y => x[1] # y[1] /\ x[2] # y[2]
    BY <1>3 DEF Plans, Contexts
  <2>3. \A r \in N : \E x \in plan : r = Row(c.id, x[1], x[2], "AUTO")
    OBVIOUS
  <2>4. gone \subseteq {r \in rows : r.source = "AUTO"}
    BY DEF DeletedBy
  <2>5. RowsOk(rows, done) /\ c.id \notin done /\ c.id \in Nat
    BY <1>1, <1>3 DEF RecordInv, IdsInv, Contexts
  <2> HIDE DEF gone, New, N
  <2>6. RowsOk(kept, done)
    BY <2>5, FewerRows
  <2>7. \A r \in N : \E x \in plan :
          /\ r = Row(c.id, x[1], x[2], "AUTO")
          /\ r \in Assignments /\ r.id = <<c.id, r.slot>> /\ r.slot = x[1] /\ r.teacher = x[2]
          /\ r.source = "AUTO" /\ Speaks(x[2], x[1][1])
    <3>1. TAKE r \in N
    <3>2. PICK x \in plan : r = Row(c.id, x[1], x[2], "AUTO")
      BY <2>3
    <3>3. c.id \in Nat /\ x[1] \in Slots /\ x[2] \in Teachers /\ "AUTO" \in Sources
      BY <2>2, <2>5 DEF Sources
    <3>4. Speaks(x[2], x[1][1])
      BY <1>3, <2>2
    <3> QED BY <3>2, <3>3, <3>4, NewRow
  <2>8. \A r, q \in N : r # q => r.slot # q.slot /\ r.teacher # q.teacher
    <3>1. SUFFICES ASSUME NEW r \in N, NEW q \in N, r # q
                   PROVE  r.slot # q.slot /\ r.teacher # q.teacher
      OBVIOUS
    <3>2. PICK x \in plan : r = Row(c.id, x[1], x[2], "AUTO") /\ r.slot = x[1] /\ r.teacher = x[2]
      BY <2>7
    <3>3. PICK y \in plan : q = Row(c.id, y[1], y[2], "AUTO") /\ q.slot = y[1] /\ q.teacher = y[2]
      BY <2>7
    <3>4. x # y
      BY <3>1, <3>2, <3>3
    <3> QED BY <2>2, <3>2, <3>3, <3>4
  <2>9. \A r \in N : /\ r \in Assignments /\ r.id = <<c.id, r.slot>> /\ Speaks(r.teacher, r.slot[1])
                     /\ r.source = "AUTO"
    BY <2>7
  <2>10. RowsOk(kept \union N, done \union {c.id}) /\ Evolves(kept, kept \union N, {c.id})
    BY <1>5, <2>5, <2>6, <2>8, <2>9, RowsJoin DEF N
  <2>11. Inserting(p) = {c.id}
    BY <1>1 DEF Inserting, LocksInv, Held
  <2>12. Evolves(rows, rows', Inserting(p))
    BY <2>1, <2>10, <2>11 DEF Evolves
  <2>13. RowsOk(rows', done')
    BY <2>1, <2>10 DEF Commit
  <2>14. {r \in rows : r.source # "AUTO"} \subseteq rows'
    BY <2>1, <2>4
  <2>15. DeletedIsSnapshotted => DeletedIsSnapshotted'
    <3>1. e.gone \subseteq e.old
      BY <1>3, <2>4
    <3> HIDE DEF e
    <3> QED BY <2>1, <3>1 DEF DeletedIsSnapshotted
  <2>16. c.op = "GENERATE"
    BY <1>3 DEF Contexts
  <2> QED BY <1>1, <2>1, <2>12, <2>13, <2>14, <2>15, <2>16, RowCommits
<1> QED BY <1>4, <1>5

LEMMA BatchCommits ==
  ASSUME Typed, IdsInv, LocksInv, CallsInv, RecordInv, NEW p \in Requests, InsertBatch(p)
  PROVE  Committed(p) \/ Ended(p)
<1> DEFINE c == call[p]
           batch == c.batch
           N == {Row(c.id, x[1], x[2], "HISTORICAL") : x \in batch}
           fits == /\ \A x \in batch : Speaks(x[2], x[1][1]) /\ Free(x[1], x[2], rows)
                   /\ \A x, y \in batch : x # y => x[1] # y[1] /\ x[2] # y[2]
<1>1. pc[p] = "record" /\ UNCHANGED <<weekVars, tableVars>> /\ InFlight(p)
  BY DEF InsertBatch, InFlight
<1>2. c \in Records /\ \A r \in rows : r.born = "HISTORICAL"
  BY <1>1, CallAt DEF At, Sound
<1>3. CASE ~fits
  <2>1. Abort(p) /\ UNCHANGED rows
    BY <1>3 DEF InsertBatch
  <2>2. UNCHANGED <<weekVars, editVars>>
    BY <1>1, <2>1 DEF tableVars, editVars
  <2> QED BY <1>1, <2>1, <2>2, AbortEndsHere
<1>4. CASE fits
  <2>1. rows' = rows \union N /\ Commit(p)
    BY <1>4 DEF InsertBatch
  <2>2. \A x \in batch : x[1] \in Slots /\ x[2] \in Teachers
    BY <1>2, BatchesAssumption DEF Records
  <2>3. RowsOk(rows, done) /\ c.id \notin done /\ c.id \in Nat
    BY <1>1, <1>2 DEF RecordInv, IdsInv, Records
  <2>5. \A r \in N : \E x \in batch : r = Row(c.id, x[1], x[2], "HISTORICAL")
    OBVIOUS
  <2> HIDE DEF N
  <2>6. \A r \in N : \E x \in batch :
          /\ r = Row(c.id, x[1], x[2], "HISTORICAL")
          /\ r \in Assignments /\ r.id = <<c.id, r.slot>> /\ r.slot = x[1] /\ r.teacher = x[2]
          /\ r.born = "HISTORICAL"
    <3>1. TAKE r \in N
    <3>2. PICK x \in batch : r = Row(c.id, x[1], x[2], "HISTORICAL")
      BY <2>5
    <3>3. c.id \in Nat /\ x[1] \in Slots /\ x[2] \in Teachers /\ "HISTORICAL" \in Sources
      BY <2>2, <2>3 DEF Sources
    <3> QED BY <3>2, <3>3, NewRow
  <2>7. \A r \in N : /\ r \in Assignments /\ r.id = <<c.id, r.slot>> /\ Speaks(r.teacher, r.slot[1])
                     /\ r.born = "HISTORICAL"
    BY <1>4, <2>6
  <2>8. \A r \in N, q \in rows : r.slot # q.slot /\ r.teacher # q.teacher
    BY <1>4, <2>6 DEF Free
  <2>9. \A r, q \in N : r # q => r.slot # q.slot /\ r.teacher # q.teacher
    <3>1. SUFFICES ASSUME NEW r \in N, NEW q \in N, r # q
                   PROVE  r.slot # q.slot /\ r.teacher # q.teacher
      OBVIOUS
    <3>2. PICK x \in batch : r = Row(c.id, x[1], x[2], "HISTORICAL") /\ r.slot = x[1] /\ r.teacher = x[2]
      BY <2>6
    <3>3. PICK y \in batch : q = Row(c.id, y[1], y[2], "HISTORICAL") /\ q.slot = y[1] /\ q.teacher = y[2]
      BY <2>6
    <3>4. x # y
      BY <3>1, <3>2, <3>3
    <3> QED BY <1>4, <3>2, <3>3, <3>4
  <2>10. RowsOk(rows \union N, done \union {c.id}) /\ Evolves(rows, rows \union N, {c.id})
    BY <2>3, <2>7, <2>8, <2>9, RowsJoin
  <2>11. Inserting(p) = {c.id}
    BY <1>1 DEF Inserting, LocksInv, Held
  <2>12. RowsOk(rows', done')
    BY <2>1, <2>10 DEF Commit
  <2>13. \A r \in rows' : r.born = "HISTORICAL"
    BY <1>2, <2>1, <2>7
  <2>14. DeletedIsSnapshotted => DeletedIsSnapshotted'
    BY <1>1 DEF DeletedIsSnapshotted, tableVars
  <2>15. UNCHANGED <<weekVars, weekRow, creating, failed>>
    BY <1>1 DEF tableVars
  <2>16. c.op = "RECORD"
    BY <1>2 DEF Records
  <2> QED BY <1>1, <2>1, <2>10, <2>11, <2>12, <2>13, <2>14, <2>15, <2>16, RowCommits
<1> QED BY <1>3, <1>4

LEMMA SavedCommits ==
  ASSUME Typed, LocksInv, CallsInv, RecordInv, NEW p \in Requests, Saved(p), Apart
  PROVE  Committed(p)
<1>1. InFlight(p) /\ Commit(p) /\ UNCHANGED weekVars /\ call[p].op \in {"SAVE", "FILL"}
  BY DEF Saved, InFlight
<1>2. weekStatus' = weekStatus /\ grants \subseteq grants'
  BY <1>1 DEF weekVars
<1> QED BY <1>1, <1>2, PlainCommits DEF Apart

LEMMA CorrectEnds ==
  ASSUME Typed, LocksInv, CallsInv, RecordInv, NEW p \in Requests, Correct(p), Apart
  PROVE  Committed(p) \/ Ended(p)
<1>1. InFlight(p) /\ call[p].op \in {"BEGIN", "END"} /\ weekStatus' = weekStatus
  BY DEF Correct, InFlight
<1>2. CASE Abort(p) /\ UNCHANGED grants
  BY <1>1, <1>2, AbortEnds DEF Apart, weekVars
<1>3. CASE Commit(p) /\ grants \subseteq grants'
  BY <1>1, <1>3, PlainCommits DEF Apart
<1> QED BY <1>2, <1>3 DEF Correct

LEMMA FailEnds ==
  ASSUME Typed, LocksInv, NEW p \in Requests, Fail(p), Apart
  PROVE  Ended(p)
<1>1. InFlight(p) /\ Abort(p) /\ UNCHANGED weekVars
  BY DEF Fail
<1> QED BY <1>1, AbortEnds DEF Apart

LEMMA PublishRests ==
  ASSUME Typed, LocksInv, Publish, Apart
  PROVE  Rested
<1>1. /\ weekStatus' = "PUBLISHED"
      /\ UNCHANGED <<grants, avail, by, work, weekLock, clock, pc, call, pending, done>>
  BY DEF Publish, availVars, requestVars
<1>2. creating' = creating
  BY <1>1, AvailabilityAssumption DEF Apart, LocksInv, Typed
<1> QED BY <1>1, <1>2 DEF Rested, Apart, RowStays

LEMMA WeekEnds ==
  ASSUME Typed, LocksInv, CallsInv, RecordInv, WeekInv, NEW p \in Requests,
         CommitWeek(p) \/ ResolveInsert(p) \/ ResolveAgain(p)
  PROVE  Committed(p) \/ Ended(p) \/ Moved(p)
<1>1. CASE CommitWeek(p)
  <2>1. /\ pc[p] = "week_commit" /\ InFlight(p) /\ Commit(p) /\ weekRow' = TRUE /\ creating' = NoRequest
        /\ UNCHANGED <<weekVars, historical, rows, log, failed>>
    BY <1>1 DEF CommitWeek, InFlight
  <2>2. creating = p
    BY <2>1 DEF LocksInv
  <2>3. call[p].op = "CREATE_WEEK"
    BY <2>1, CallAt DEF At, Creations
  <2>4. weekStatus' = weekStatus /\ grants \subseteq grants'
    BY <2>1 DEF weekVars
  <2> QED BY <2>1, <2>2, <2>3, <2>4, PlainCommits
<1>2. CASE ResolveInsert(p)
  <2>1. /\ pc[p] = "resolve" /\ InFlight(p) /\ weekRow' = TRUE
        /\ UNCHANGED <<weekVars, creating, historical, rows, log, failed>>
    BY <1>2 DEF ResolveInsert, InFlight
  <2>2. call[p].op = "RESOLVE"
    BY <2>1, CallAt DEF At, Resolutions
  <2>3. weekStatus' = weekStatus /\ grants \subseteq grants'
    BY <2>1 DEF weekVars
  <2>4. CASE Commit(p)
    BY <2>1, <2>2, <2>3, <2>4, PlainCommits
  <2>5. CASE Goto(p, "again") /\ UNCHANGED availVars
    <3>1. Turned(p, "again", call[p], pending[p])
          /\ clock' = clock /\ weekLock' = weekLock /\ done' = done
      BY <2>5, GotoTurns
    <3>2. Good("resolve", call[p], pending[p], rows, done, grants)
      BY <2>1 DEF CallsInv
    <3>3. Good("again", call[p], pending[p], rows, done, grants)
      BY <3>2 DEF Good, At, Sound, Banks
    <3>4. Locking(p, "again")
      BY <2>1, <3>1 DEF Locking, Held
    <3>5. TablesStay /\ RowStays("again")
      BY <2>1, <2>5, <3>1 DEF TablesStay, RowStays, weekVars, availVars
    <3> QED BY <2>1, <3>1, <3>3, <3>4, <3>5 DEF Moved
  <2> QED BY <1>2, <2>4, <2>5 DEF ResolveInsert
<1>3. CASE ResolveAgain(p)
  <2>1. /\ pc[p] = "again" /\ InFlight(p)
        /\ UNCHANGED <<weekVars, weekRow, creating, historical, rows, log>>
    BY <1>3 DEF ResolveAgain, InFlight
  <2>2. call[p].op = "RESOLVE"
    BY <2>1, CallAt DEF At, Resolutions
  <2>3. weekRow
    BY <2>1 DEF WeekInv
  <2>4. Commit(p) /\ UNCHANGED failed
    BY <1>3, <2>3 DEF ResolveAgain
  <2>5. weekStatus' = weekStatus /\ grants \subseteq grants'
    BY <2>1 DEF weekVars
  <2> QED BY <2>1, <2>2, <2>4, <2>5, PlainCommits
<1> QED BY <1>1, <1>2, <1>3

\* Every step is one of these.
LEMMA Steps ==
  ASSUME WeekEditingInv, [Next]_vars
  PROVE  Rested \/ \E p \in Requests : Begun(p) \/ Moved(p) \/ Ended(p) \/ Committed(p)
<1> USE DEF WeekEditingInv
<1>1. CASE UNCHANGED vars
  BY <1>1 DEF vars, weekVars, availVars, requestVars, editVars, Rested, RowStays
<1>2. ASSUME NEW p \in Requests, Step(p)
      PROVE  Begun(p) \/ Moved(p) \/ Ended(p) \/ Committed(p)
  <2>1. CASE Insert(p)
    BY <2>1, InsertCommits
  <2>2. CASE Marked(p)
    BY <2>2, MarkedMoves
  <2>3. CASE CheckRules(p) \/ Snapshot(p) \/ CheckUnmixed(p) \/ InsertWeek(p)
    <3>1. Moved(p) \/ (Abort(p) /\ UNCHANGED <<weekVars, editVars>>)
      BY <2>3, RulesMove, SnapshotMoves, UnmixedMoves, InsertWeekMoves
    <3>2. InFlight(p) /\ pc[p] # "week_commit"
      BY <2>3 DEF CheckRules, Snapshot, CheckUnmixed, InsertWeek, InFlight
    <3> QED BY <3>1, <3>2, AbortEndsHere
  <2>4. CASE Update(p)
    BY <2>4, UpdateCommits
  <2>5. CASE Delete(p)
    BY <2>5, DeleteCommits
  <2>6. CASE Context(p)
    BY <2>6, ContextMoves
  <2>7. CASE ReplaceAuto(p)
    BY <2>7, ReplaceCommits
  <2>8. CASE InsertBatch(p)
    BY <2>8, BatchCommits
  <2>9. CASE CreateWeek(p) \/ Resolve(p)
    BY <2>9, ShortCallsBegin
  <2>10. CASE CommitWeek(p) \/ ResolveInsert(p) \/ ResolveAgain(p)
    BY <2>10, WeekEnds
  <2> QED BY <1>2, <2>1, <2>2, <2>3, <2>4, <2>5, <2>6, <2>7, <2>8, <2>9, <2>10 DEF Step
<1>3. ASSUME NEW p \in Requests,
             Generate(p) \/ (\E batch \in Batches : Record(p, batch)) \/ \E u \in Users : Call(p, u)
      PROVE  Begun(p)
  BY <1>3, ShortCallsBegin, EditsBegin
<1>4. CASE /\ Elsewhere
           /\ creating' = IF creating # NoRequest /\ pc'[creating] = "idle" THEN NoRequest ELSE creating
           /\ UNCHANGED <<weekRow, historical, rows, log, failed>>
  <2>1. Apart
    BY <1>4 DEF Apart
  <2>2. ASSUME NEW p \in Requests, LockWeek(p)
        PROVE  Moved(p)
    BY <2>1, <2>2, LockMoves
  <2>3. ASSUME NEW p \in Requests, NEW u \in Users,
               \/ \E todo \in Saves : Save(p, u, todo)
               \/ Fill(p, u)
               \/ \E op \in {"BEGIN", "END"} : Correction(p, u, op)
        PROVE  Begun(p)
    BY <2>1, <2>3, SaveBegins, FillBegins, CorrectionBegins
  <2>4. ASSUME NEW p \in Requests, Look(p) \/ Put(p)
        PROVE  Moved(p) \/ Ended(p)
    <3>1. Moved(p) \/ Abort(p)
      BY <2>1, <2>4, LookMoves, PutMoves
    <3>2. InFlight(p) /\ UNCHANGED weekVars
      BY <2>4 DEF Look, Put, InFlight
    <3> QED BY <2>1, <3>1, <3>2, AbortEnds DEF Apart
  <2>5. ASSUME NEW p \in Requests, Correct(p) \/ Saved(p) \/ Fail(p)
        PROVE  Ended(p) \/ Committed(p)
    BY <2>1, <2>5, CorrectEnds, SavedCommits, FailEnds
  <2>6. CASE NextAvailability
    <3>1. CASE Publish
      BY <2>1, <3>1, PublishRests
    <3> QED BY <2>2, <2>3, <2>4, <2>5, <2>6, <3>1 DEF NextAvailability
  <2>7. CASE \E p \in Requests : LockOrRead(p)
    BY <2>2, <2>7 DEF LockOrRead
  <2> QED BY <1>4, <2>6, <2>7 DEF Elsewhere
<1> QED BY <1>1, <1>2, <1>3, <1>4 DEF Next

-----------------------------------------------------------------------------
(* The invariant is inductive *)

LEMMA InitInv ==
  ASSUME Init
  PROVE  WeekEditingInv
<1> USE DEF Init, InitAvailability
<1>1. Typed
  BY DEF Typed, Encoded
<1>2. \A p \in Requests : pc[p] = "idle" /\ ~InFlight(p)
  BY DEF InFlight
<1>3. IdsInv
  BY <1>2 DEF IdsInv
<1>4. LocksInv
  BY <1>2, AvailabilityAssumption DEF LocksInv, Held
<1>5. ASSUME NEW r \in rows
      PROVE  /\ rows = {r}
             /\ r \in Assignments /\ r.id[1] \in done /\ Speaks(r.teacher, r.slot[1])
             /\ r.source = "HISTORICAL" => r.born = "HISTORICAL"
  <2>1. PICK s \in Slots, t \in {u \in ActiveTeachers \ BeforeOath : \A d \in Dakos : Speaks(u, d)} :
          rows = {Row(0, s, t, IF "RECORD" \in work THEN "HISTORICAL" ELSE "AUTO")}
    BY <1>5
  <2>2. PICK source \in Sources : source = IF "RECORD" \in work THEN "HISTORICAL" ELSE "AUTO"
    BY DEF Sources
  <2>3. r = Row(0, s, t, source) /\ rows = {r}
    BY <1>5, <2>1, <2>2
  <2>4. t \in Teachers /\ s[1] \in Dakos /\ Speaks(t, s[1]) /\ 0 \in Nat
    BY DEF ActiveTeachers, Slots
  <2>5. /\ r \in Assignments /\ r.id = <<0, s>> /\ r.slot = s /\ r.teacher = t
        /\ r.source = source /\ r.born = source
    <3>1. /\ Row(0, s, t, source) \in Assignments /\ Row(0, s, t, source).id = <<0, s>>
          /\ Row(0, s, t, source).slot = s /\ Row(0, s, t, source).teacher = t
          /\ Row(0, s, t, source).source = source /\ Row(0, s, t, source).born = source
      BY <2>4, NewRow
    <3> QED BY <2>3, <3>1, Zenon
  <2> QED BY <2>3, <2>4, <2>5
<1>6. RowsOk(rows, done)
  BY <1>5 DEF RowsOk
<1>7. AllOrNothing /\ DeletedIsSnapshotted /\ WeekInv
  BY <1>2 DEF AllOrNothing, DeletedIsSnapshotted, WeekInv, ResolveSucceeds
<1>8. CallsInv
  <2>1. SUFFICES ASSUME NEW p \in Requests
                 PROVE  Good(pc[p], call[p], pending[p], rows, done, grants)
    BY DEF CallsInv
  <2>2. pc[p] = "idle" /\ call[p] = NoCall /\ pending[p] = Nothing
    OBVIOUS
  <2>3. NoCall \in At("idle") /\ NoCall.op = "NONE" /\ DOMAIN Nothing = {}
    BY DEF At, NoCall, Nothing
  <2>4. Sound("idle", NoCall, rows, done)
    BY <2>3 DEF Sound, EditOps
  <2>5. Banks("idle", NoCall, Nothing, grants)
    BY <2>3 DEF Banks
  <2> QED BY <2>2, <2>3, <2>4, <2>5 DEF Good
<1> QED BY <1>1, <1>3, <1>4, <1>6, <1>7, <1>8 DEF WeekEditingInv, RecordInv

\* An idle request is good whatever the tables.
LEMMA IdleIsGood ==
  ASSUME NEW R, NEW D, NEW G
  PROVE  Good("idle", NoCall, Nothing, R, D, G)
<1>1. NoCall \in At("idle") /\ NoCall.op = "NONE" /\ DOMAIN Nothing = {}
  BY DEF At, NoCall, Nothing
<1> QED BY <1>1 DEF Good, Sound, Banks, EditOps

LEMMA RestKeeps ==
  ASSUME WeekEditingInv, Rested
  PROVE  WeekEditingInv'
<1> USE DEF WeekEditingInv, Rested
<1>1. Typed'
  BY DEF Typed
<1>2. IdsInv'
  BY DEF IdsInv, InFlight
<1>3. LocksInv'
  BY DEF LocksInv
<1>4. CallsInv'
  BY DEF CallsInv
<1>5. WeekInv'
  BY DEF WeekInv, RowStays, ResolveSucceeds
<1>6. RecordInv'
  BY DEF RecordInv, AllOrNothing, DeletedIsSnapshotted
<1> QED BY <1>1, <1>2, <1>3, <1>4, <1>5, <1>6

\* A request that is there now has a number of its own.
LEMMA IdsOfTurned ==
  ASSUME IdsInv, clock \in Nat, NEW p \in Requests, NEW l, NEW c, NEW P, Turned(p, l, c, P), l # "idle",
         done' = done,
         \/ ~InFlight(p) /\ c.id = clock + 1 /\ clock' = clock + 1
         \/ InFlight(p) /\ c.id = call[p].id /\ clock' = clock
  PROVE  IdsInv'
<1>1. /\ clock' \in Nat /\ clock <= clock' /\ c.id \in 1..clock' /\ c.id \notin done
      /\ \A q \in Requests \ {p} : InFlight(q) => call[q].id # c.id
  BY DEF IdsInv
<1>2. \A n \in done' : n \in 0..clock'
  BY <1>1 DEF IdsInv
<1>3. InFlight(p)' /\ (call[p].id)' = c.id
  BY DEF Turned, InFlight
<1>4. \A q \in Requests \ {p} : (InFlight(q)' <=> InFlight(q)) /\ (call[q].id)' = call[q].id
  BY DEF Turned, InFlight
<1>5. \A q \in Requests : InFlight(q)' => (call[q].id)' \in 1..clock' /\ (call[q].id)' \notin done'
  BY <1>1, <1>3, <1>4 DEF IdsInv
<1>6. \A q, r \in Requests : InFlight(q)' /\ InFlight(r)' /\ (call[q].id)' = (call[r].id)' => q = r
  BY <1>1, <1>3, <1>4 DEF IdsInv
<1> QED BY <1>2, <1>5, <1>6 DEF IdsInv

\* ... and one that ends takes its number with it.
LEMMA IdsOfOver ==
  ASSUME IdsInv, clock \in Nat, NEW p \in Requests, Over(p),
         done' = done \/ done' = done \union {call[p].id}
  PROVE  IdsInv'
<1>1. Turned(p, "idle", NoCall, Nothing) /\ clock' = clock /\ InFlight(p)
  BY DEF Over
<1>2. ~InFlight(p)'
  BY <1>1 DEF Turned, InFlight
<1>3. \A q \in Requests \ {p} : (InFlight(q)' <=> InFlight(q)) /\ (call[q].id)' = call[q].id
  BY <1>1 DEF Turned, InFlight
<1>4. \A n \in done' : n \in 0..clock'
  BY <1>1 DEF IdsInv
<1>5. \A q \in Requests : InFlight(q)' => (call[q].id)' \in 1..clock' /\ (call[q].id)' \notin done'
  BY <1>1, <1>2, <1>3 DEF IdsInv
<1>6. \A q, r \in Requests : InFlight(q)' /\ InFlight(r)' /\ (call[q].id)' = (call[r].id)' => q = r
  BY <1>2, <1>3 DEF IdsInv
<1> QED BY <1>4, <1>5, <1>6 DEF IdsInv

LEMMA BeginKeeps ==
  ASSUME WeekEditingInv, NEW p \in Requests, Begun(p)
  PROVE  WeekEditingInv'
<1> USE DEF WeekEditingInv
<1>1. PICK l \in StartPlaces : \E c :
        /\ ~InFlight(p)
        /\ Turned(p, l, c, pending[p]) /\ Good(l, c, pending[p], rows, done, grants)
        /\ c.id = clock + 1 /\ clock' = clock + 1
        /\ weekLock' = weekLock /\ creating' = creating
        /\ TablesStay /\ RowStays(l)
  BY DEF Begun
<1>2. PICK c :
        /\ ~InFlight(p)
        /\ Turned(p, l, c, pending[p]) /\ Good(l, c, pending[p], rows, done, grants)
        /\ c.id = clock + 1 /\ clock' = clock + 1
        /\ weekLock' = weekLock /\ creating' = creating
        /\ TablesStay /\ RowStays(l)
  BY <1>1
<1>3. l \notin Held /\ l # "week_commit" /\ l # "idle"
  BY DEF StartPlaces, Held
<1>4. Typed'
  BY <1>2 DEF Typed, Turned, TablesStay
<1>5. IdsInv'
  BY <1>2, <1>3, IdsOfTurned DEF Typed, TablesStay
<1>6. pc[p] = "idle"
  BY <1>2 DEF InFlight
<1>7. LocksInv'
  <2>1. ASSUME NEW q \in Requests
        PROVE  (weekLock' = q <=> pc'[q] \in Held) /\ (creating' = q <=> pc'[q] = "week_commit")
    BY <1>2, <1>3, <1>6 DEF LocksInv, Turned, Held
  <2> QED BY <1>2, <2>1 DEF LocksInv
<1>8. CallsInv'
  BY <1>2 DEF CallsInv, Turned, TablesStay
<1>9. WeekInv'
  BY <1>2 DEF WeekInv, Turned, RowStays, ResolveSucceeds
<1>10. RecordInv'
  BY <1>2 DEF RecordInv, AllOrNothing, DeletedIsSnapshotted, TablesStay
<1> QED BY <1>4, <1>5, <1>7, <1>8, <1>9, <1>10

LEMMA MoveKeeps ==
  ASSUME WeekEditingInv, NEW p \in Requests, Moved(p)
  PROVE  WeekEditingInv'
<1> USE DEF WeekEditingInv
<1>1. PICK l : \E c, P :
        /\ InFlight(p) /\ l # "idle"
        /\ Turned(p, l, c, P) /\ Good(l, c, P, rows, done, grants)
        /\ c.id = call[p].id /\ clock' = clock
        /\ Locking(p, l)
        /\ TablesStay /\ RowStays(l)
  BY DEF Moved
<1>2. PICK c, P :
        /\ InFlight(p) /\ l # "idle"
        /\ Turned(p, l, c, P) /\ Good(l, c, P, rows, done, grants)
        /\ c.id = call[p].id /\ clock' = clock
        /\ Locking(p, l)
        /\ TablesStay /\ RowStays(l)
  BY <1>1
<1>3. Typed'
  BY <1>2 DEF Typed, Turned, TablesStay
<1>4. IdsInv'
  BY <1>2, IdsOfTurned DEF Typed, TablesStay
<1>5. LocksInv'
  <2>1. ASSUME NEW q \in Requests
        PROVE  (weekLock' = q <=> pc'[q] \in Held)
    BY <1>2, <2>1, AvailabilityAssumption DEF LocksInv, Turned, Locking
  <2>2. ASSUME NEW q \in Requests
        PROVE  (creating' = q <=> pc'[q] = "week_commit")
    BY <1>2, <2>2, AvailabilityAssumption DEF LocksInv, Turned, Locking
  <2>3. weekLock' \in Requests \union {NoRequest} /\ creating' \in Requests \union {NoRequest}
    BY <1>2 DEF LocksInv, Locking
  <2> QED BY <2>1, <2>2, <2>3 DEF LocksInv
<1>6. CallsInv'
  BY <1>2 DEF CallsInv, Turned, TablesStay
<1>7. WeekInv'
  BY <1>2 DEF WeekInv, Turned, RowStays, ResolveSucceeds
<1>8. RecordInv'
  BY <1>2 DEF RecordInv, AllOrNothing, DeletedIsSnapshotted, TablesStay
<1> QED BY <1>3, <1>4, <1>5, <1>6, <1>7, <1>8

\* The locks of one that ends are free.
LEMMA LocksOfOver ==
  ASSUME LocksInv, NEW p \in Requests, Over(p)
  PROVE  LocksInv'
<1>1. "idle" \notin Held
  BY DEF Held
<1>2. ASSUME NEW q \in Requests
      PROVE  (weekLock' = q <=> pc'[q] \in Held) /\ (creating' = q <=> pc'[q] = "week_commit")
  BY <1>1, AvailabilityAssumption DEF LocksInv, Over, Turned
<1>3. weekLock' \in Requests \union {NoRequest} /\ creating' \in Requests \union {NoRequest}
  BY DEF LocksInv, Over
<1> QED BY <1>2, <1>3 DEF LocksInv

LEMMA EndKeeps ==
  ASSUME WeekEditingInv, NEW p \in Requests, Ended(p)
  PROVE  WeekEditingInv'
<1> USE DEF WeekEditingInv
<1>1. Over(p) /\ TablesStay /\ RowStays("idle") /\ Turned(p, "idle", NoCall, Nothing)
  BY DEF Ended, Over
<1>2. Typed'
  BY <1>1 DEF Typed, Turned, TablesStay, Over
<1>3. IdsInv' /\ LocksInv'
  BY <1>1, IdsOfOver, LocksOfOver DEF Typed, TablesStay
<1>4. CallsInv'
  BY <1>1, IdleIsGood DEF CallsInv, Turned, TablesStay
<1>5. WeekInv'
  BY <1>1 DEF WeekInv, Turned, RowStays, ResolveSucceeds
<1>6. RecordInv'
  BY <1>1 DEF RecordInv, AllOrNothing, DeletedIsSnapshotted, TablesStay
<1> QED BY <1>2, <1>3, <1>4, <1>5, <1>6

LEMMA CommitKeeps ==
  ASSUME WeekEditingInv, NEW p \in Requests, Committed(p)
  PROVE  WeekEditingInv'
<1> USE DEF WeekEditingInv
<1>1. /\ Over(p) /\ Turned(p, "idle", NoCall, Nothing) /\ InFlight(p) /\ clock' = clock
      /\ weekStatus' = weekStatus /\ grants \subseteq grants'
      /\ done' = done \union {call[p].id}
      /\ avail' = [t \in Teachers |-> IF t \in DOMAIN pending[p] THEN pending[p][t] ELSE avail[t]]
      /\ by' = [t \in Teachers |-> IF t \in DOMAIN pending[p] THEN call[p].id ELSE by[t]]
      /\ RowsOk(rows', done') /\ Evolves(rows, rows', Inserting(p))
      /\ DeletedIsSnapshotted'
      /\ RowStays("idle")
  BY DEF Committed, Over, RecordInv
<1>2. Typed'
  <2>1. \A t \in DOMAIN pending[p] : pending[p][t] \in Encoded
    BY DEF CallsInv, Good, Banks
  <2>2. avail' \in [Teachers -> Encoded \union {"NONE"}]
    BY <1>1, <2>1 DEF Typed
  <2> QED BY <1>1, <2>2 DEF Typed, Turned
<1>3. IdsInv' /\ LocksInv'
  BY <1>1, IdsOfOver, LocksOfOver DEF Typed
<1>4. CallsInv'
  <2>1. ASSUME NEW q \in Requests \ {p}
        PROVE  Good(pc[q], call[q], pending[q], rows', done', grants')
    <3>1. Good(pc[q], call[q], pending[q], rows, done, grants)
      BY DEF CallsInv
    <3>2. Inserting(p) \intersect done = {}
      BY <1>1 DEF Inserting, IdsInv
    <3>3. pc[q] \in Held => Inserting(p) = {}
      BY AvailabilityAssumption DEF Inserting, LocksInv
    <3>4. done \subseteq done'
      BY <1>1
    <3> QED BY <1>1, <3>1, <3>2, <3>3, <3>4, GoodStays
  <2> QED BY <1>1, <2>1, IdleIsGood DEF CallsInv, Turned
<1>5. WeekInv'
  BY <1>1 DEF WeekInv, Turned, RowStays, ResolveSucceeds
<1>6. AllOrNothing'
  BY <1>1 DEF RecordInv, AllOrNothing
<1> QED BY <1>1, <1>2, <1>3, <1>4, <1>5, <1>6 DEF RecordInv

\* Types, ids, locks, what every request knows and what the tables keep: the
\* inductive invariant of the overlapping edits of a week.
THEOREM WeekEditingInvariant == Spec => []WeekEditingInv
<1>1. Init => WeekEditingInv
  BY InitInv
<1>2. WeekEditingInv /\ [Next]_vars => WeekEditingInv'
  BY Steps, RestKeeps, BeginKeeps, MoveKeeps, EndKeeps, CommitKeeps
<1> QED BY <1>1, <1>2, PTL DEF Spec

-----------------------------------------------------------------------------
(* What the dialogs offer *)

\* Who is no candidate for the row r violates a rule, and the other way round.
LEMMA CandidatesAgree ==
  ASSUME Typed, RowsOk(rows, done), NEW r \in rows, NEW t \in Teachers \ {r.teacher}
  PROVE  t \in Candidates(r) <=> Violated(t, r.slot, r.id) = {}
<1>1. avail[t] \in {"NONE", "ABSENT", "INACTIVE", "AVAILABLE"}
  BY DEF Typed, Encoded
<1>2. (\E q \in rows : q.teacher = t) <=> (\E q \in rows : q.teacher = t /\ q.id # r.id)
  BY DEF RowsOk
<1>3. t \in Candidates(r) <=>
        /\ t \notin MasterInactive /\ avail[t] = "AVAILABLE" /\ t \notin AbsentLast
        /\ t \notin BeforeOath /\ Speaks(t, r.slot[1]) /\ ~\E q \in rows : q.teacher = t
  BY DEF Candidates, Eligible, Immovable, ActiveTeachers
<1>4. Violated(t, r.slot, r.id) = {} <=>
        /\ t \notin MasterInactive /\ avail[t] = "AVAILABLE" /\ t \notin BeforeOath
        /\ t \notin AbsentLast /\ Speaks(t, r.slot[1])
        /\ ~\E q \in rows : q.teacher = t /\ q.id # r.id
  <2>1. ASSUME Violated(t, r.slot, r.id) = {}
        PROVE  /\ t \notin MasterInactive /\ avail[t] = "AVAILABLE" /\ t \notin BeforeOath
               /\ t \notin AbsentLast /\ Speaks(t, r.slot[1])
               /\ ~\E q \in rows : q.teacher = t /\ q.id # r.id
    <3>1. /\ "TEACHER_INACTIVE_MASTER" \notin Violated(t, r.slot, r.id)
          /\ "NOT_ENCODED" \notin Violated(t, r.slot, r.id)
          /\ "WEEKLY_ABSENT" \notin Violated(t, r.slot, r.id)
          /\ "WEEKLY_INACTIVE" \notin Violated(t, r.slot, r.id)
          /\ "OATH_DATE_NOT_REACHED" \notin Violated(t, r.slot, r.id)
          /\ "PREVIOUS_WEEK_ABSENT" \notin Violated(t, r.slot, r.id)
          /\ "LANGUAGE_MISMATCH" \notin Violated(t, r.slot, r.id)
          /\ "ALREADY_ASSIGNED_THIS_WEEK" \notin Violated(t, r.slot, r.id)
      BY <2>1
    <3> QED BY <1>1, <3>1 DEF Violated
  <2>2. ASSUME /\ t \notin MasterInactive /\ avail[t] = "AVAILABLE" /\ t \notin BeforeOath
               /\ t \notin AbsentLast /\ Speaks(t, r.slot[1])
               /\ ~\E q \in rows : q.teacher = t /\ q.id # r.id
        PROVE  Violated(t, r.slot, r.id) = {}
    BY <2>2 DEF Violated
  <2> QED BY <2>1, <2>2
<1> QED BY <1>2, <1>3, <1>4

\* What the year counts by subtraction is what the gate of the generation counts.
LEMMA CountsAgree ==
  ASSUME Typed
  PROVE  AnnualMissing = Missing
<1> DEFINE A == {t \in ActiveTeachers : avail[t] # "NONE"}
           B == {t \in ActiveTeachers : avail[t] = "NONE"}
<1>1. ActiveTeachers \subseteq Teachers
  BY DEF ActiveTeachers
<1>2. IsFiniteSet(A) /\ IsFiniteSet(B)
  BY <1>1, FS_Subset, AvailabilityAssumption
<1>3. A \union B = ActiveTeachers /\ A \intersect B = {}
  OBVIOUS
<1>4. Cardinality(A \union B) = Cardinality(A) + Cardinality(B) - Cardinality(A \intersect B)
  BY <1>2, FS_Union
<1>5. Cardinality(A \intersect B) = 0
  BY <1>3, FS_EmptySet
<1>6. Cardinality(A) \in Nat /\ Cardinality(B) \in Nat
  BY <1>2, FS_CardinalityType
<1>7. Cardinality(ActiveTeachers) = Cardinality(A) + Cardinality(B)
  <2> HIDE DEF A, B
  <2>1. Cardinality(ActiveTeachers) = Cardinality(A \union B)
    BY <1>3, Zenon
  <2> QED BY <1>4, <1>5, <1>6, <2>1
<1>8. Missing = Cardinality(B)
  BY DEF Missing
<1>9. AnnualMissing = IF Cardinality(A) > Cardinality(ActiveTeachers) THEN 0
                      ELSE Cardinality(ActiveTeachers) - Cardinality(A)
  BY DEF AnnualMissing
<1> HIDE DEF A, B
<1> QED BY <1>6, <1>7, <1>8, <1>9

\* Nobody is missing from the lists.
LEMMA EverybodyIsListed ==
  ASSUME Typed, NEW t \in Teachers
  PROVE  \/ t \in Listed(EffectiveStatus(t))
         \/ t \in Listed("INACTIVE_MASTER") /\ t \in MasterInactive
         \/ t \in Listed("INACTIVE_WEEKLY") /\ EffectiveStatus(t) = "INACTIVE"
<1>1. avail[t] \in {"NONE", "ABSENT", "INACTIVE", "AVAILABLE"}
  BY DEF Typed, Encoded
<1>2. CASE t \in MasterInactive
  BY <1>2 DEF Listed
<1>3. CASE t \notin MasterInactive /\ avail[t] = "NONE"
  BY <1>3 DEF Listed, EffectiveStatus, Blanks, ActiveTeachers
<1>4. CASE t \notin MasterInactive /\ avail[t] \in {"ABSENT", "INACTIVE", "AVAILABLE"}
  BY <1>4 DEF Listed, EffectiveStatus, ActiveTeachers
<1> QED BY <1>1, <1>2, <1>3, <1>4

\* A save writes all its rows or none, and an absence is there with the change it
\* belongs to, whoever interferes (availability.service.ts, assignment.service.ts).
THEOREM SavesAreWhole == Spec => []AllOrNothing
<1>1. WeekEditingInv => AllOrNothing
  BY DEF WeekEditingInv, RecordInv
<1> QED BY <1>1, WeekEditingInvariant, PTL

\* However hand edits, generations, backfills, corrections and saves overlap, the
\* week keeps its unique indexes and the language rule, what the dialogs list is what the
\* services accept, a week that is asked for is there, and the audit row of a
\* regeneration holds all that it deleted.
THEOREM WeekRulesAreKept == Spec => []RulesHold
<1>1. WeekEditingInv => RulesHold
  <2>1. SUFFICES ASSUME WeekEditingInv PROVE RulesHold
    OBVIOUS
  <2> USE <2>1 DEF WeekEditingInv
  <2>2. TypeOK
    <3>1. \A l \in {weekLock, creating} : l = NoRequest \/ InFlight(l)
      BY DEF LocksInv, InFlight, Held
    <3>2. \A p \in Requests : DOMAIN pending[p] # {} => InFlight(p)
      BY IdleHasNothing
    <3>3. \A r \in rows : r.slot \in Slots /\ r.teacher \in Teachers
      BY DEF RecordInv, RowsOk, Assignments
    <3>4. \A r, q \in rows : r # q => r.id # q.id /\ r.slot # q.slot /\ r.teacher # q.teacher
      BY DEF RecordInv, RowsOk
    <3> QED BY <3>1, <3>2, <3>3, <3>4 DEF TypeOK, Typed
  <2>3. LanguageRule
    BY DEF LanguageRule, RecordInv, RowsOk
  <2>4. ListsAgree
    BY CandidatesAgree, CountsAgree, EverybodyIsListed DEF ListsAgree, RecordInv
  <2> QED BY <2>2, <2>3, <2>4 DEF RulesHold, WeekInv, RecordInv
<1> QED BY <1>1, WeekEditingInvariant, PTL

-----------------------------------------------------------------------------
(* What a commit may do *)

\* A call that commits is the one whose step it is.
LEMMA WhoCommits ==
  ASSUME WeekEditingInv, [Next]_vars, NEW p \in Requests, Commits(p)
  PROVE  Committed(p)
<1> USE DEF WeekEditingInv
<1>1. InFlight(p) /\ done' = done \union {call[p].id} /\ call[p].id \notin done
  BY DEF Commits
<1>2. done' # done
  BY <1>1
<1>3. ~Rested /\ \A q \in Requests : ~Begun(q) /\ ~Moved(q) /\ ~Ended(q)
  BY <1>2 DEF Rested, Begun, Moved, Ended, TablesStay
<1>4. PICK q \in Requests : Committed(q)
  BY <1>3, Steps
<1>5. InFlight(q) /\ done' = done \union {call[q].id} /\ call[q].id \notin done
  BY <1>4 DEF Committed, Over, IdsInv
<1>6. p = q
  BY <1>1, <1>5 DEF IdsInv
<1> QED BY <1>4, <1>6

\* Nothing that a request has settled is undone by another: a fill touches no row
\* that was there, the availability of a published week changes by a correction only, a
\* generation leaves the edits by hand, a backfill commits into a week of its own.
THEOREM SettledIsRespected == Spec => EditsRespected
<1>1. ASSUME WeekEditingInv, [Next]_vars, NEW p \in Requests, Commits(p)
      PROVE  /\ call[p].op = "FILL" =>
                  \A t \in Teachers : avail[t] # (avail')[t] => t \in call[p].blank
             /\ avail' # avail /\ weekStatus = "PUBLISHED" =>
                  \/ call[p].week # "PUBLISHED"
                  \/ \E g \in grants : g.action = "UNLOCKED" /\ g.user = call[p].user
             /\ call[p].op = "GENERATE" => {r \in rows : r.source # "AUTO"} \subseteq rows'
             /\ call[p].op = "RECORD" => \A r \in rows' : r.born = "HISTORICAL"
  <2>1. Committed(p)
    BY <1>1, WhoCommits
  <2>2. avail' = [t \in Teachers |-> IF t \in DOMAIN pending[p] THEN pending[p][t] ELSE avail[t]]
    BY <2>1 DEF Committed
  <2>3. Banks(pc[p], call[p], pending[p], grants)
    BY <1>1 DEF WeekEditingInv, CallsInv, Good
  <2>4. call[p].op = "FILL" => \A t \in Teachers : avail[t] # (avail')[t] => t \in call[p].blank
    BY <2>2, <2>3 DEF Banks
  <2>5. ASSUME avail' # avail PROVE DOMAIN pending[p] # {}
    <3>1. avail = [t \in Teachers |-> avail[t]]
      BY <1>1 DEF WeekEditingInv, Typed
    <3> QED BY <2>2, <2>5, <3>1
  <2>6. avail' # avail => Unlocked(call[p], grants)
    BY <2>3, <2>5 DEF Banks
  <2> QED BY <2>1, <2>4, <2>6 DEF Committed, Unlocked
<1>2. WeekEditingInv /\ [Next]_vars =>
        [\A p \in Requests : Commits(p) /\ call[p].op = "FILL" =>
           \A t \in Teachers : avail[t] # (avail')[t] => t \in call[p].blank]_<<avail, done>>
  BY <1>1
<1>3. WeekEditingInv /\ [Next]_vars =>
        [\A p \in Requests : Commits(p) /\ avail' # avail /\ weekStatus = "PUBLISHED" =>
           \/ call[p].week # "PUBLISHED"
           \/ \E g \in grants : g.action = "UNLOCKED" /\ g.user = call[p].user]_<<avail, done>>
  BY <1>1
<1>4. WeekEditingInv /\ [Next]_vars =>
        [\A p \in Requests : Commits(p) /\ call[p].op = "GENERATE" =>
           {r \in rows : r.source # "AUTO"} \subseteq rows']_<<rows, done>>
  BY <1>1
<1>5. WeekEditingInv /\ [Next]_vars =>
        [\A p \in Requests : Commits(p) /\ call[p].op = "RECORD" =>
           \A r \in rows' : r.born = "HISTORICAL"]_<<rows, done>>
  BY <1>1
<1>6. Spec => FillsBlanks
  BY <1>2, WeekEditingInvariant, PTL DEF Spec, FillsBlanks
<1>7. Spec => PublishedLocked
  BY <1>3, WeekEditingInvariant, PTL DEF Spec, PublishedLocked
<1>8. Spec => HandEditsSurvive
  BY <1>4, WeekEditingInvariant, PTL DEF Spec, HandEditsSurvive
<1>9. Spec => BackfillUnmixed
  BY <1>5, WeekEditingInvariant, PTL DEF Spec, BackfillUnmixed
<1> QED BY <1>6, <1>7, <1>8, <1>9, PTL DEF EditsRespected
=====
