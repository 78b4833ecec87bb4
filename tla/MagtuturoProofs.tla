----------------------------- MODULE MagtuturoProofs -----------------------------
(***************************************************************************)
(* Proofs about Magtuturo, for any weeks, teachers, seats and requests:    *)
(* the row of a week protects what a generation decided until it has       *)
(* saved, and a published week keeps its roster.                           *)
(*                                                                         *)
(* The argument: the seats of a week and its status are changed only by    *)
(* the request that has locked its row (LocksHeld), so that what a         *)
(* generation found before it decided is still so when it saves (Deciding).*)
(* The seats it decided are then still free and their teachers still not   *)
(* seated by hand (CallPlaced), so a seat keeps one teacher and a teacher  *)
(* one seat (OneSeatEach).  What the decision is, is found from the order  *)
(* of three finite sets: a strict order of a finite set has a list, the    *)
(* place of an element in it being the number of those before it.          *)
(***************************************************************************)
EXTENDS Magtuturo, FiniteSetTheorems, FunctionTheorems, SequenceTheorems,
        WellFoundedInduction, TLAPS

-----------------------------------------------------------------------------
(* Types *)

Places == {"idle", "month", "lock", "locked", "delete"}

CallTyped(p) ==
  /\ pc[p] = "month" => call[p] \in [op : {"MONTH"}, todo : SUBSET Weeks]
  /\ pc[p] \in {"lock", "locked", "delete"} =>
       /\ call[p].week \in Weeks
       /\ call[p].op = "MONTH" => call[p].todo \subseteq Weeks
  /\ pc[p] = "delete" => \A s \in call[p].seats : s.week = call[p].week

Typed ==
  /\ DOMAIN status = Weeks /\ DOMAIN lock = Weeks
  /\ DOMAIN pc = Requests /\ DOMAIN call = Requests
  /\ \A p \in Requests : CallTyped(p)

LocksHeld ==
  \A p \in Requests : pc[p] \in {"locked", "delete"} => lock[call[p].week] = p

\* What a generation found when it decided.
Deciding ==
  \A p \in Requests : pc[p] = "delete" =>
    /\ status[call[p].week] = "DRAFT"
    /\ call[p].op = "MONTH" => Of(call[p].week) = {}

RosterInv == Typed /\ LocksHeld /\ Deciding

-----------------------------------------------------------------------------
(* Kinds of steps *)

\* Only p moves, to a place where it relies on nothing.
Moves(p) ==
  /\ DOMAIN pc' = Requests /\ DOMAIN call' = Requests /\ DOMAIN lock' = Weeks
  /\ \A q \in Requests \ {p} : pc'[q] = pc[q] /\ call'[q] = call[q]
  /\ pc'[p] \notin {"locked", "delete"}
  /\ CallTyped(p)'
  /\ \A w \in Weeks : lock[w] # p => lock'[w] = lock[w]

\* The rows of a week, and its status, are changed by the request that has its row.
Owned(p) ==
  /\ DOMAIN status' = Weeks
  /\ \A w \in Weeks : lock[w] # p => Of(w)' = Of(w)
  /\ \A w \in Weeks : status'[w] = status[w] \/ status[w] = "NONE"

LEMMA MovesKeepsInv ==
  ASSUME RosterInv, NEW p \in Requests, Moves(p), Owned(p)
  PROVE  RosterInv'
<1>1. ASSUME NEW q \in Requests \ {p} PROVE CallTyped(q)'
  BY <1>1 DEF RosterInv, Typed, Moves, CallTyped
<1>2. Typed'
  BY <1>1 DEF RosterInv, Typed, Moves, Owned
<1>3. ASSUME NEW q \in Requests, pc'[q] \in {"locked", "delete"}
      PROVE  /\ q # p /\ call'[q] = call[q] /\ pc'[q] = pc[q]
             /\ call[q].week \in Weeks
             /\ lock[call[q].week] = q /\ lock'[call[q].week] = q
  BY <1>3 DEF RosterInv, Typed, CallTyped, LocksHeld, Moves
<1>4. LocksHeld'
  BY <1>3 DEF LocksHeld
<1>5. Deciding'
  <2> SUFFICES ASSUME NEW q \in Requests, pc'[q] = "delete",
                      NEW w \in Weeks, w = call[q].week
               PROVE  /\ status'[w] = "DRAFT"
                      /\ call[q].op = "MONTH" => Of(w)' = {}
    BY <1>3 DEF Deciding, Of
  <2>1. lock[w] # p
    BY <1>3
  <2>2. /\ status[w] = "DRAFT"
        /\ call[q].op = "MONTH" => Of(w) = {}
    BY <1>3 DEF RosterInv, Deciding
  <2> QED BY <2>1, <2>2 DEF Owned
<1> QED BY <1>2, <1>4, <1>5 DEF RosterInv

LEMMA DoneMoves ==
  ASSUME RosterInv, NEW p \in Requests, pc[p] \in {"locked", "delete"}, Done(p)
  PROVE  Moves(p)
<1>1. lock' = [w \in Weeks |-> IF lock[w] = p THEN NoRequest ELSE lock[w]]
  BY DEF Done, Unlock
<1>2. CASE call[p].op = "MONTH" /\ call[p].todo # {}
  <2>1. /\ call' = [call EXCEPT ![p] = [op |-> "MONTH", todo |-> call[p].todo]]
        /\ pc' = [pc EXCEPT ![p] = "month"]
    BY <1>2 DEF Done
  <2>2. call[p].todo \subseteq Weeks
    BY <1>2 DEF RosterInv, Typed, CallTyped
  <2> QED BY <1>1, <2>1, <2>2 DEF Moves, CallTyped, RosterInv, Typed
<1>3. CASE ~(call[p].op = "MONTH" /\ call[p].todo # {})
  <2>1. /\ call' = [call EXCEPT ![p] = NoCall]
        /\ pc' = [pc EXCEPT ![p] = "idle"]
    BY <1>3 DEF Done
  <2> QED BY <1>1, <2>1 DEF Moves, CallTyped, RosterInv, Typed
<1> QED BY <1>2, <1>3

-----------------------------------------------------------------------------
(* Steps *)

LEMMA BeginKeepsInv ==
  ASSUME RosterInv, NEW p \in Requests, NEW c, NEW label,
         Begin(p, c, label),
         \/ label = "month" /\ c \in [op : {"MONTH"}, todo : SUBSET Weeks]
         \/ label = "lock" /\ c.week \in Weeks /\ c.op # "MONTH"
  PROVE  RosterInv'
<1>1. /\ call' = [call EXCEPT ![p] = c] /\ pc' = [pc EXCEPT ![p] = label]
      /\ UNCHANGED <<status, roster, lock>>
  BY DEF Begin
<1>2. Moves(p)
  BY <1>1 DEF RosterInv, Typed, Moves, CallTyped
<1>3. Owned(p)
  BY <1>1 DEF RosterInv, Typed, Owned, Of
<1> QED BY <1>2, <1>3, MovesKeepsInv

LEMMA MonthWeekKeepsInv ==
  ASSUME RosterInv, NEW p \in Requests, MonthWeek(p)
  PROVE  RosterInv'
<1>1. pc[p] = "month" /\ call[p] \in [op : {"MONTH"}, todo : SUBSET Weeks]
      /\ UNCHANGED <<roster, lock>>
  BY DEF MonthWeek, RosterInv, Typed, CallTyped
<1>2. PICK w \in call[p].todo :
        /\ status' = [status EXCEPT ![w] = IF @ = "NONE" THEN "DRAFT" ELSE @]
        /\ \/ /\ call' = [call EXCEPT ![p] = IF call[p].todo \ {w} = {} THEN NoCall
                                             ELSE [@ EXCEPT !.todo = call[p].todo \ {w}]]
              /\ pc' = [pc EXCEPT ![p] = IF call[p].todo \ {w} = {} THEN "idle" ELSE "month"]
           \/ /\ call' = [call EXCEPT ![p] = [op |-> "MONTH", week |-> w,
                                              todo |-> call[p].todo \ {w}]]
              /\ pc' = [pc EXCEPT ![p] = "lock"]
  BY DEF MonthWeek
<1>3. w \in Weeks /\ call[p].todo \ {w} \subseteq Weeks
  BY <1>1, <1>2
<1>4. Owned(p)
  BY <1>1, <1>2, <1>3 DEF RosterInv, Typed, Owned, Of
<1>5. Moves(p)
  <2>1. CASE /\ call' = [call EXCEPT ![p] = IF call[p].todo \ {w} = {} THEN NoCall
                                            ELSE [@ EXCEPT !.todo = call[p].todo \ {w}]]
             /\ pc' = [pc EXCEPT ![p] = IF call[p].todo \ {w} = {} THEN "idle" ELSE "month"]
    <3>1. [call[p] EXCEPT !.todo = call[p].todo \ {w}] \in [op : {"MONTH"}, todo : SUBSET Weeks]
      BY <1>1, <1>3
    <3> QED BY <1>1, <2>1, <3>1 DEF RosterInv, Typed, Moves, CallTyped
  <2>2. CASE /\ call' = [call EXCEPT ![p] = [op |-> "MONTH", week |-> w,
                                             todo |-> call[p].todo \ {w}]]
             /\ pc' = [pc EXCEPT ![p] = "lock"]
    BY <1>1, <1>3, <2>2 DEF RosterInv, Typed, Moves, CallTyped
  <2> QED BY <1>2, <2>1, <2>2
<1> QED BY <1>4, <1>5, MovesKeepsInv

\* A request that has the row of its week, or takes it, and changes no table.
LEMMA HoldsKeepsInv ==
  ASSUME RosterInv, NEW p \in Requests, NEW w \in Weeks,
         UNCHANGED <<status, roster>>,
         DOMAIN pc' = Requests, DOMAIN call' = Requests,
         \A q \in Requests \ {p} : pc'[q] = pc[q] /\ call'[q] = call[q],
         pc'[p] \in {"locked", "delete"}, CallTyped(p)', call'[p].week = w,
         DOMAIN lock' = Weeks, lock'[w] = p, \A v \in Weeks \ {w} : lock'[v] = lock[v],
         lock[w] \in {NoRequest, p},
         pc'[p] = "delete" => /\ status[w] = "DRAFT"
                              /\ call'[p].op = "MONTH" => Of(w) = {}
  PROVE  RosterInv'
<1>1. ASSUME NEW q \in Requests \ {p} PROVE CallTyped(q)'
  BY <1>1 DEF RosterInv, Typed, CallTyped
<1>2. Typed'
  BY <1>1 DEF RosterInv, Typed
<1>3. LocksHeld'
  BY RequestsAssumption DEF RosterInv, Typed, CallTyped, LocksHeld
<1>4. Deciding'
  <2> SUFFICES ASSUME NEW q \in Requests, pc'[q] = "delete"
               PROVE  /\ status[call'[q].week] = "DRAFT"
                      /\ call'[q].op = "MONTH" => {r \in roster : r.week = call'[q].week} = {}
    BY DEF Deciding, Of
  <2> QED BY DEF RosterInv, Deciding, Of
<1> QED BY <1>2, <1>3, <1>4 DEF RosterInv

LEMMA LockKeepsInv ==
  ASSUME RosterInv, NEW p \in Requests, Lock(p)
  PROVE  RosterInv'
<1>1. PICK w \in Weeks : w = call[p].week
  BY DEF Lock, RosterInv, Typed, CallTyped
<1>2. /\ lock[w] = NoRequest /\ lock' = [lock EXCEPT ![w] = p]
      /\ pc[p] = "lock" /\ pc' = [pc EXCEPT ![p] = "locked"]
      /\ UNCHANGED <<status, roster, call>>
  BY <1>1 DEF Lock
<1>3. CallTyped(p)'
  BY <1>2 DEF RosterInv, Typed, CallTyped
<1> QED BY <1>1, <1>2, <1>3, HoldsKeepsInv DEF RosterInv, Typed

LEMMA DecisionOfWeek == ASSUME NEW w, NEW at PROVE \A s \in Decision(w, at) : s.week = w
BY DEF Decision, Seat

LEMMA DecideKeepsInv ==
  ASSUME RosterInv, NEW p \in Requests, Decide(p)
  PROVE  RosterInv'
<1>1. PICK w \in Weeks : w = call[p].week
  BY DEF Decide, RosterInv, Typed, CallTyped
<1>2. pc[p] = "locked" /\ UNCHANGED <<status, roster>>
  BY DEF Decide
<1>3. CASE Done(p)
  <2>1. Owned(p)
    BY <1>2 DEF RosterInv, Typed, Owned, Of
  <2> QED BY <1>2, <1>3, <2>1, DoneMoves, MovesKeepsInv
<1>4. CASE ~Done(p)
  <2> DEFINE c == [op |-> call[p].op, week |-> w, seats |-> Decision(w, clock),
                   todo |-> IF call[p].op = "MONTH" THEN call[p].todo ELSE {}]
  <2>1. /\ status[w] = "DRAFT"
        /\ call[p].op = "MONTH" => Of(w) = {}
        /\ call' = [call EXCEPT ![p] = c]
        /\ pc' = [pc EXCEPT ![p] = "delete"]
        /\ UNCHANGED lock
    BY <1>1, <1>4 DEF Decide
  <2>2. lock[w] = p
    BY <1>1, <1>2 DEF RosterInv, Typed, LocksHeld
  <2>3. /\ c.week = w /\ c.op = call[p].op
        /\ \A s \in c.seats : s.week = w
        /\ call[p].op = "MONTH" => c.todo = call[p].todo
    BY DecisionOfWeek
  <2> HIDE DEF c
  <2>4. call'[p] = c /\ pc'[p] = "delete"
    BY <2>1 DEF RosterInv, Typed
  <2>5. CallTyped(p)'
    BY <1>2, <2>3, <2>4 DEF RosterInv, Typed, CallTyped
  <2> QED BY <1>2, <2>1, <2>2, <2>3, <2>4, <2>5, HoldsKeepsInv DEF RosterInv, Typed
<1> QED BY <1>3, <1>4

\* What a request saves is in the week whose row it has.
LEMMA SavesInItsWeek ==
  ASSUME RosterInv, NEW p \in Requests, DeleteAuto(p) \/ SaveSeat(p) \/ ClearSeat(p)
  PROVE  /\ pc[p] \in {"locked", "delete"} /\ Done(p) /\ UNCHANGED status
         /\ call[p].week \in Weeks
         /\ \A w \in Weeks : w # call[p].week => Of(w)' = Of(w)
         /\ status[call[p].week] = "PUBLISHED" => roster' = roster
<1>0. PICK v \in Weeks : v = call[p].week
  BY DEF DeleteAuto, SaveSeat, ClearSeat, RosterInv, Typed, CallTyped
<1>1. CASE DeleteAuto(p)
  <2>1. \A r \in roster' : r.week # v => r \in roster
    BY <1>0, <1>1 DEF DeleteAuto, RosterInv, Typed, CallTyped
  <2>2. \A r \in roster : r.week # v => r \in roster'
    BY <1>0, <1>1 DEF DeleteAuto, Of
  <2>3. status[v] # "PUBLISHED"
    BY <1>0, <1>1 DEF DeleteAuto, RosterInv, Deciding
  <2> QED BY <1>0, <1>1, <2>1, <2>2, <2>3 DEF DeleteAuto, Of
<1>2. CASE SaveSeat(p)
  <2> DEFINE t == call[p].teacher
             type == call[p].type
             seat == SeatFor(v, type, call[p].seat)
             current == {r \in Of(v) : r.type = type /\ r.seat = seat}
  <2>1. roster' = IF Assignable(v, t, type, seat) /\ t \notin Seated(current)
                  THEN (roster \ current) \union {Seat(v, type, seat, t, "MANUAL", clock)}
                  ELSE roster
    BY <1>0, <1>2 DEF SaveSeat
  <2> HIDE DEF t, type, seat
  <2>2. Seat(v, type, seat, t, "MANUAL", clock).week = v
    BY DEF Seat
  <2>3. \A r : r.week # v => (r \in roster' <=> r \in roster)
    BY <2>1, <2>2 DEF Of
  <2>4. status[v] = "PUBLISHED" => roster' = roster
    BY <2>1 DEF Assignable
  <2> QED BY <1>0, <1>2, <2>3, <2>4 DEF SaveSeat, Of
<1>3. CASE ClearSeat(p)
  <2>1. \A r : r.week # v => (r \in roster' <=> r \in roster)
    BY <1>0, <1>3 DEF ClearSeat
  <2> QED BY <1>0, <1>3, <2>1 DEF ClearSeat, Of
<1> QED BY <1>1, <1>2, <1>3

LEMMA SaveKeepsInv ==
  ASSUME RosterInv, NEW p \in Requests, DeleteAuto(p) \/ SaveSeat(p) \/ ClearSeat(p)
  PROVE  RosterInv'
<1>1. lock[call[p].week] = p
  BY SavesInItsWeek DEF RosterInv, LocksHeld
<1>2. Owned(p)
  BY <1>1, SavesInItsWeek DEF RosterInv, Typed, Owned
<1> QED BY <1>2, SavesInItsWeek, DoneMoves, MovesKeepsInv

LEMMA FailKeepsInv ==
  ASSUME RosterInv, NEW p \in Requests, Fail(p)
  PROVE  RosterInv'
<1>1. Moves(p)
  BY DEF Fail, Unlock, RosterInv, Typed, Moves, CallTyped
<1>2. Owned(p)
  BY DEF Fail, RosterInv, Typed, Owned, Of
<1> QED BY <1>1, <1>2, MovesKeepsInv

LEMMA SetStatusKeepsInv ==
  ASSUME RosterInv, NEW w \in Weeks, SetStatus(w)
  PROVE  RosterInv'
<1>1. PICK s : /\ status' = [status EXCEPT ![w] = s] /\ lock[w] = NoRequest
               /\ UNCHANGED <<roster, lock, pc, call>>
  BY DEF SetStatus
<1>2. Typed' /\ LocksHeld'
  BY <1>1 DEF RosterInv, Typed, CallTyped, LocksHeld
<1>3. ASSUME NEW q \in Requests, pc[q] = "delete" PROVE call[q].week # w
  BY <1>1, <1>3, RequestsAssumption DEF RosterInv, LocksHeld
<1>4. Deciding'
  BY <1>1, <1>3 DEF RosterInv, Typed, CallTyped, Deciding, Of
<1> QED BY <1>2, <1>4 DEF RosterInv

LEMMA QuietKeepsInv ==
  ASSUME RosterInv, UNCHANGED <<status, roster, lock, pc, call>>
  PROVE  RosterInv'
BY DEF RosterInv, Typed, CallTyped, LocksHeld, Deciding, Of

LEMMA RosterInvNext == RosterInv /\ [Next]_vars => RosterInv'
<1> SUFFICES ASSUME RosterInv, [Next]_vars PROVE RosterInv'
  OBVIOUS
<1>1. ASSUME NEW p \in Requests, NEW w \in Weeks, Generate(p, w) PROVE RosterInv'
  BY <1>1, BeginKeepsInv DEF Generate
<1>2. ASSUME NEW p \in Requests, NEW w \in Weeks, NEW s, Assign(p, w, s) PROVE RosterInv'
  BY <1>2, BeginKeepsInv DEF Assign
<1>3. ASSUME NEW p \in Requests, NEW w \in Weeks, NEW type, NEW seat, Clear(p, w, type, seat)
      PROVE RosterInv'
  BY <1>3, BeginKeepsInv DEF Clear
<1>4. ASSUME NEW p \in Requests, Month(p) PROVE RosterInv'
  BY <1>4, BeginKeepsInv DEF Month
<1>5. ASSUME NEW p \in Requests, MonthWeek(p) \/ Lock(p) \/ Decide(p) \/ Fail(p)
      PROVE RosterInv'
  BY <1>5, MonthWeekKeepsInv, LockKeepsInv, DecideKeepsInv, FailKeepsInv
<1>6. ASSUME NEW p \in Requests, DeleteAuto(p) \/ SaveSeat(p) \/ ClearSeat(p) PROVE RosterInv'
  BY <1>6, SaveKeepsInv
<1>7. ASSUME NEW w \in Weeks, SetStatus(w) PROVE RosterInv'
  BY <1>7, SetStatusKeepsInv
<1>8. ASSUME NEW w \in Weeks, NEW t \in Teachers, Change(w, t) PROVE RosterInv'
  BY <1>8, QuietKeepsInv DEF Change
<1>9. CASE UNCHANGED vars
  BY <1>9, QuietKeepsInv DEF vars
<1> QED BY <1>1, <1>2, <1>3, <1>4, <1>5, <1>6, <1>7, <1>8, <1>9 DEF Next

\* The roster of a published week stays as it is, and a month leaves seats alone that others
\* have filled, whatever overlaps between a check and its write
\* (generateMagtuturoWeekInTransaction, assignMagtuturo, clearMagtuturo).
THEOREM LockedWeeksAreKept == Spec => LockedWeeksKept
<1>1. Init => RosterInv
  BY DEF Init, RosterInv, Typed, CallTyped, LocksHeld, Deciding
<1>2. RosterInv /\ [Next]_vars =>
        [\A w \in Weeks :
           /\ status[w] = "PUBLISHED" => Of(w) = Of(w)'
           /\ \A p \in Requests :
                pc[p] = "delete" /\ call[p].op = "MONTH" /\ call[p].week = w /\ pc'[p] # "delete" =>
                  Of(w) = {} \/ Of(w)' = Of(w)]_<<status, roster, pc>>
  <2> SUFFICES ASSUME RosterInv, [Next]_vars, NEW w \in Weeks
               PROVE  /\ status[w] = "PUBLISHED" => Of(w) = Of(w)'
                      /\ \A p \in Requests :
                           pc[p] = "delete" /\ call[p].op = "MONTH" /\ call[p].week = w => Of(w) = {}
    OBVIOUS
  <2>1. \A p \in Requests :
          pc[p] = "delete" /\ call[p].op = "MONTH" /\ call[p].week = w => Of(w) = {}
    BY DEF RosterInv, Deciding
  <2>2. ASSUME NEW p \in Requests, DeleteAuto(p) \/ SaveSeat(p) \/ ClearSeat(p),
               status[w] = "PUBLISHED"
        PROVE  Of(w) = Of(w)'
    <3>1. CASE w = call[p].week
      BY <2>2, <3>1, SavesInItsWeek DEF Of
    <3>2. CASE w # call[p].week
      BY <2>2, <3>2, SavesInItsWeek
    <3> QED BY <3>1, <3>2
  <2>3. CASE UNCHANGED roster
    BY <2>3, <2>1 DEF Of
  <2>4. (\E p \in Requests : DeleteAuto(p) \/ SaveSeat(p) \/ ClearSeat(p)) \/ UNCHANGED roster
    BY DEF Next, vars, Generate, Assign, Clear, Month, Begin, MonthWeek, Lock, Decide, Fail,
           SetStatus, Change
  <2> QED BY <2>1, <2>2, <2>3, <2>4
<1> QED BY <1>1, <1>2, RosterInvNext, PTL DEF Spec, LockedWeeksKept

-----------------------------------------------------------------------------
(* Ordered lists of finite sets *)

LEMMA LeastOfNaturals ==
  ASSUME NEW S, S \subseteq Nat, S # {}
  PROVE  \E n \in S : \A m \in S : n <= m
<1>1. PICK n \in S : \A m \in S : ~(<<m, n>> \in OpToRel(<, Nat))
  BY WFMin, NatLessThanWellFounded, Zenon
<1>2. \A m \in S : ~(m < n)
  BY <1>1 DEF OpToRel
<1> QED BY <1>2

StrictOrder(S, R) ==
  /\ \A x \in S : <<x, x>> \notin R
  /\ \A x, y \in S : x # y => <<x, y>> \in R \/ <<y, x>> \in R
  /\ \A x, y, z \in S : <<x, y>> \in R /\ <<y, z>> \in R => <<x, z>> \in R

LEMMA OrderedSeqExists ==
  ASSUME NEW S, IsFiniteSet(S), NEW R, StrictOrder(S, R)
  PROVE  \E q \in SetToSeqs(S) : \A i, j \in DOMAIN q : i < j => <<q[i], q[j]>> \in R
<1> DEFINE n == Cardinality(S)
           Below(x) == {y \in S : <<y, x>> \in R}
           rank == [x \in S |-> Cardinality(Below(x)) + 1]
<1>1. n \in Nat
  BY FS_CardinalityType
<1>2. ASSUME NEW x \in S PROVE IsFiniteSet(Below(x)) /\ Cardinality(Below(x)) \in 0..(n - 1)
  <2>1. IsFiniteSet(S \ {x}) /\ Cardinality(S \ {x}) = n - 1
    BY FS_RemoveElement
  <2>2. Below(x) \subseteq S \ {x}
    BY DEF StrictOrder
  <2>3. IsFiniteSet(Below(x)) /\ Cardinality(Below(x)) <= Cardinality(S \ {x})
    BY <2>1, <2>2, FS_Subset
  <2>4. Cardinality(Below(x)) \in Nat
    BY <2>3, FS_CardinalityType
  <2> QED BY <1>1, <2>1, <2>3, <2>4
<1>3. ASSUME NEW x \in S, NEW y \in S, <<x, y>> \in R PROVE Cardinality(Below(x)) < Cardinality(Below(y))
  <2>1. IsFiniteSet(Below(x) \union {x}) /\ Cardinality(Below(x) \union {x}) = Cardinality(Below(x)) + 1
    BY <1>2, FS_AddElement DEF StrictOrder
  <2>2. Below(x) \union {x} \subseteq Below(y)
    BY <1>3 DEF StrictOrder
  <2>3. Cardinality(Below(x) \union {x}) <= Cardinality(Below(y))
    BY <1>2, <2>2, FS_Subset
  <2> HIDE DEF n, Below
  <2> QED BY <1>1, <1>2, <2>1, <2>3
<1> HIDE DEF Below
<1>4. rank \in [S -> 1..n]
  BY <1>1, <1>2
<1>5. \A x, y \in S : <<x, y>> \in R => rank[x] < rank[y]
  BY <1>1, <1>2, <1>3
<1> HIDE DEF rank
<1>6. \A x, y \in S : rank[x] = rank[y] => x = y
  <2>1. \A x \in S : rank[x] \in Int
    BY <1>1, <1>4
  <2>2. \A x, y \in S : <<x, y>> \in R => rank[x] # rank[y]
    BY <1>5, <2>1
  <2> QED BY <2>2 DEF StrictOrder
<1> HIDE DEF n
<1>7. rank \in Injection(S, 1..n)
  BY <1>4, <1>6, Fun_IsInj
<1>8. IsFiniteSet(1..n) /\ Cardinality(1..n) = n
  BY <1>1, FS_Interval
<1>9. rank \in Surjection(S, 1..n)
  BY <1>7, <1>8, FS_Injection DEF n
<1>10. \A i \in 1..n : \E x \in S : rank[x] = i
  BY <1>4, <1>9 DEF Surjection
<1> DEFINE q == [i \in 1..n |-> CHOOSE x \in S : rank[x] = i]
<1>11. q \in [1..n -> S] /\ \A i \in 1..n : rank[q[i]] = i
  BY <1>10
<1> HIDE DEF q
<1>12. \A i, j \in 1..n : i # j => q[i] # q[j]
  BY <1>11
<1>13. q \in SetToSeqs(S)
  BY <1>11, <1>12 DEF SetToSeqs, n
<1>14. ASSUME NEW i \in 1..n, NEW j \in 1..n, i < j PROVE <<q[i], q[j]>> \in R
  <2>1. q[i] \in S /\ q[j] \in S /\ q[i] # q[j]
    BY <1>11, <1>12, <1>14
  <2>2. <<q[j], q[i]>> \notin R
    BY <1>1, <1>5, <1>11, <1>14, <2>1
  <2> QED BY <2>1, <2>2 DEF StrictOrder
<1>15. DOMAIN q = 1..n
  BY <1>11
<1> QED BY <1>13, <1>14, <1>15

\* What InOrder gives.
Sorted(S, R, q) ==
  /\ IsFiniteSet(S) /\ q \in [1..Cardinality(S) -> S]
  /\ \A i, j \in DOMAIN q : i # j => q[i] # q[j]
  /\ \A x \in S : \E i \in DOMAIN q : q[i] = x
  /\ \A i, j \in DOMAIN q : i < j => <<q[i], q[j]>> \in R

LEMMA SeqsAreOnto ==
  ASSUME NEW S, IsFiniteSet(S), NEW q \in SetToSeqs(S)
  PROVE  /\ q \in [1..Cardinality(S) -> S]
         /\ \A i, j \in DOMAIN q : i # j => q[i] # q[j]
         /\ \A x \in S : \E i \in DOMAIN q : q[i] = x
<1> DEFINE n == Cardinality(S)
<1>1. n \in Nat
  BY FS_CardinalityType
<1>2. q \in [1..n -> S] /\ \A i, j \in 1..n : i # j => q[i] # q[j]
  BY DEF SetToSeqs
<1> HIDE DEF n
<1>3. q \in Injection(1..n, S)
  BY <1>2, Fun_IsInj
<1>4. Cardinality(1..n) = Cardinality(S)
  BY <1>1, FS_Interval DEF n
<1>5. q \in Surjection(1..n, S)
  BY <1>3, <1>4, FS_Injection
<1>6. DOMAIN q = 1..n /\ \A x \in S : \E i \in 1..n : q[i] = x
  BY <1>2, <1>5 DEF Surjection
<1> QED BY <1>2, <1>6 DEF n

LEMMA SortedIf ==
  ASSUME NEW S, IsFiniteSet(S), NEW R, NEW q \in SetToSeqs(S),
         \A i, j \in DOMAIN q : q[i] \in S /\ q[j] \in S /\ i < j => <<q[i], q[j]>> \in R
  PROVE  Sorted(S, R, q)
<1>1. /\ q \in [1..Cardinality(S) -> S]
      /\ \A i, j \in DOMAIN q : i # j => q[i] # q[j]
      /\ \A x \in S : \E i \in DOMAIN q : q[i] = x
  BY SeqsAreOnto
<1>2. \A i \in DOMAIN q : q[i] \in S
  BY <1>1
<1> QED BY <1>1, <1>2 DEF Sorted

LEMMA Joined ==
  ASSUME NEW T, NEW n \in Nat, NEW m \in Nat, NEW a \in [1..n -> T], NEW b \in [1..m -> T]
  PROVE  /\ a \o b \in [1..(n + m) -> T] /\ Len(a \o b) = n + m
         /\ \A i \in 1..n : (a \o b)[i] = a[i]
         /\ \A i \in 1..m : (a \o b)[n + i] = b[i]
<1>1. a \in Seq(T) /\ Len(a) = n /\ b \in Seq(T) /\ Len(b) = m
  BY SeqDef, LenProperties
<1>2. /\ a \o b \in Seq(T) /\ Len(a \o b) = n + m
      /\ \A i \in 1..(n + m) : (a \o b)[i] = IF i <= n THEN a[i] ELSE b[i - n]
  BY <1>1, ConcatProperties
<1>3. a \o b \in [1..(n + m) -> T]
  BY <1>2, LenProperties
<1> QED BY <1>2, <1>3

-----------------------------------------------------------------------------
(* Rows *)

Rows == [week : Weeks, type : Types, seat : Nat, teacher : Teachers, source : {"AUTO", "MANUAL"},
         at : Nat]

OneEach(S) ==
  \A r, q \in S : r # q /\ r.week = q.week =>
    r.teacher # q.teacher /\ <<r.type, r.seat>> # <<q.type, q.seat>>

Placed(w, S) == IsFiniteSet(S) /\ S \subseteq Rows /\ (\A r \in S : r.week = w) /\ OneEach(S)

RosterTyped == IsFiniteSet(roster) /\ roster \subseteq Rows /\ clock \in Nat

\* What a request was given, and what it decided next to the seats given by hand.
CallPlaced(p) ==
  /\ pc[p] \in {"lock", "locked"} /\ call[p].op = "ASSIGN" =>
       call[p].teacher \in Teachers /\ call[p].type \in Types /\ call[p].seat \in Nat
  /\ pc[p] = "delete" =>
       /\ Placed(call[p].week, call[p].seats \union Manual(call[p].week))
       /\ \A r \in call[p].seats : r.source = "AUTO"

SeatInv ==
  /\ RosterInv
  /\ RosterTyped
  /\ OneSeatEach
  /\ \A p \in Requests : CallPlaced(p)

-----------------------------------------------------------------------------
(* Lists *)

LEMMA RowFields ==
  \A r \in Rows : /\ r.week \in Nat /\ r.week \in Weeks /\ r.type \in Types /\ r.seat \in Nat
                  /\ r.teacher \in Teachers /\ r.at \in Nat
BY MagtuturoAssumption DEF Rows, Types

LEMMA Finite ==
  ASSUME RosterTyped, NEW w
  PROVE  /\ IsFiniteSet(Manual(w)) /\ Manual(w) \subseteq Rows /\ Manual(w) \subseteq roster
         /\ IsFiniteSet(Previous(w)) /\ Previous(w) \subseteq Rows /\ Previous(w) \subseteq roster
BY FS_Subset DEF RosterTyped, Manual, Of, Previous

LEMMA ImageIsFinite ==
  ASSUME NEW S, IsFiniteSet(S), NEW T, NEW f \in [S -> T], \A t \in T : \E s \in S : f[s] = t
  PROVE  IsFiniteSet(T) /\ Cardinality(T) <= Cardinality(S)
BY Fun_IsSurj, FS_Surjection

LEMMA CountIsNat == ASSUME RosterTyped, NEW t PROVE Count(t) \in Nat
BY FS_Subset, FS_CardinalityType DEF RosterTyped, Count

LEMMA GreatestOfNaturals ==
  ASSUME NEW S, S \subseteq Nat, S # {}, IsFiniteSet(S)
  PROVE  \E n \in S : \A m \in S : m <= n
<1> DEFINE R == {z \in S \X S : z[1] > z[2]}
<1>1. StrictOrder(S, R)
  BY DEF StrictOrder
<1>2. PICK q \in SetToSeqs(S) : \A i, j \in DOMAIN q : i < j => <<q[i], q[j]>> \in R
  BY <1>1, OrderedSeqExists
<1>3. Cardinality(S) \in Nat /\ Cardinality(S) # 0
  BY FS_CardinalityType, FS_EmptySet
<1>4. q \in [1..Cardinality(S) -> S] /\ \A x \in S : \E i \in DOMAIN q : q[i] = x
  BY SeqsAreOnto
<1>5. q[1] \in S
  BY <1>3, SeqsAreOnto
<1>6. \A i \in DOMAIN q : q[i] \in S /\ q[i] <= q[1]
  <2> SUFFICES ASSUME NEW i \in DOMAIN q PROVE q[i] \in S /\ q[i] <= q[1]
    OBVIOUS
  <2>1. q[i] \in S /\ q[i] \in Nat /\ q[1] \in Nat
    BY <1>4, <1>5
  <2>2. i = 1 \/ (1 \in DOMAIN q /\ 1 < i)
    BY <1>3, <1>4
  <2>3. i = 1 \/ q[1] > q[i]
    BY <1>2, <2>2
  <2> QED BY <2>1, <2>3
<1> QED BY <1>4, <1>5, <1>6

LEMMA LastSeatIsNat == ASSUME RosterTyped, NEW t PROVE LastSeat(t) \in Nat
<1> DEFINE X == {q \in roster : q.teacher = t}
           S == {r.at : r \in X}
<1>1. IsFiniteSet(X) /\ X \subseteq Rows
  BY FS_Subset DEF RosterTyped
<1>2. S \subseteq Nat
  BY <1>1 DEF Rows
<1>3. IsFiniteSet(S)
  <2> DEFINE f == [r \in X |-> r.at]
  <2>1. f \in [X -> S] /\ \A n \in S : \E r \in X : f[r] = n
    OBVIOUS
  <2> HIDE DEF f, X, S
  <2> QED BY <1>1, <2>1, ImageIsFinite
<1>4. CASE S = {}
  BY <1>4 DEF LastSeat
<1>5. CASE S # {}
  <2>1. \E n \in S : \A m \in S : m <= n
    BY <1>2, <1>3, <1>5, GreatestOfNaturals
  <2>2. LastSeat(t) = CHOOSE n \in S : \A m \in S : m <= n
    BY <1>5 DEF LastSeat
  <2> QED BY <1>2, <2>1, <2>2
<1> QED BY <1>4, <1>5

-----------------------------------------------------------------------------
(* The decision of a generation *)

LEMMA SeatsAreNumbers ==
  ASSUME NEW type
  PROVE  Seats(type) \subseteq Nat /\ IsFiniteSet(Seats(type)) /\ 0 \notin Seats(type)
BY MagtuturoAssumption, FS_Interval DEF Seats

LEMMA FreeSeatsSorted ==
  ASSUME NEW w, NEW type
  PROVE  LET S == Seats(type) \ Taken(Manual(w), type) IN
         Sorted(S, {z \in S \X S : z[1] < z[2]}, FreeSeats(w, type))
<1> DEFINE S == Seats(type) \ Taken(Manual(w), type)
           R == {z \in S \X S : z[1] < z[2]}
           q == FreeSeats(w, type)
<1>1. S \subseteq Nat /\ IsFiniteSet(S)
  BY SeatsAreNumbers, FS_Subset
<1>2. q = CHOOSE s \in SetToSeqs(S) : \A i, j \in DOMAIN s : i < j => s[i] < s[j]
  BY DEF FreeSeats, InOrder
<1> HIDE DEF S, q
<1>3. StrictOrder(S, R)
  BY <1>1 DEF StrictOrder
<1>4. \E s \in SetToSeqs(S) : \A i, j \in DOMAIN s : i < j => <<s[i], s[j]>> \in R
  BY <1>1, <1>3, OrderedSeqExists
<1>5. \E s \in SetToSeqs(S) : \A i, j \in DOMAIN s : i < j => s[i] < s[j]
  BY <1>4
<1>6. q \in SetToSeqs(S) /\ \A i, j \in DOMAIN q : i < j => q[i] < q[j]
  BY <1>2, <1>5
<1>7. Sorted(S, R, q)
  BY <1>1, <1>6, SortedIf
<1> QED BY <1>7 DEF S, q

LEMMA RequiredRows ==
  ASSUME SeatInv, NEW w
  PROVE  /\ IsFiniteSet(Required(w)) /\ Required(w) \subseteq Rows
         /\ \A r, q \in Required(w) :
              r # q => r.teacher # q.teacher /\ <<r.type, r.seat>> # <<q.type, q.seat>>
<1>1. Required(w) \subseteq Previous(w)
  BY DEF Required
<1>2. IsFiniteSet(Required(w)) /\ Required(w) \subseteq Rows /\ Required(w) \subseteq roster
  BY <1>1, Finite, FS_Subset DEF SeatInv
<1>3. \A r, q \in Previous(w) : r.week = q.week
  <2> SUFFICES ASSUME NEW r \in Previous(w), NEW q \in Previous(w) PROVE r.week = q.week
    OBVIOUS
  <2>1. r.week <= q.week /\ q.week <= r.week
    BY DEF Previous
  <2>2. r.week \in Nat /\ q.week \in Nat
    BY Finite, RowFields DEF SeatInv
  <2> QED BY <2>1, <2>2
<1> QED BY <1>1, <1>2, <1>3 DEF SeatInv, OneSeatEach

\* The required rows, in the order of compareRoleSeat.
RequiredSeq(w) == InOrder(Required(w), LAMBDA r, q : RoleSeatBefore(r, q))
PoolSeq(w) == InOrder(Pool(w), LAMBDA t, u : RotatesBefore(t, u))

LEMMA RequiredSorted ==
  ASSUME SeatInv, NEW w
  PROVE  Sorted(Required(w), {z \in Required(w) \X Required(w) : RoleSeatBefore(z[1], z[2])},
                RequiredSeq(w))
<1> DEFINE S == Required(w)
           R == {z \in S \X S : RoleSeatBefore(z[1], z[2])}
           q == RequiredSeq(w)
<1>1. IsFiniteSet(S) /\ \A r \in S : r.type \in {"SUGO", "RESERBA"} /\ r.seat \in Nat
  BY RequiredRows, RowFields DEF Types
<1>2. \A r, s \in S : r # s => r.type # s.type \/ r.seat # s.seat
  BY RequiredRows
<1>3. q = CHOOSE s \in SetToSeqs(S) : \A i, j \in DOMAIN s : i < j => RoleSeatBefore(s[i], s[j])
  BY DEF RequiredSeq, InOrder
<1> HIDE DEF S, q
<1>4. StrictOrder(S, R)
  BY <1>1, <1>2 DEF StrictOrder, RoleSeatBefore
<1>5. \E s \in SetToSeqs(S) : \A i, j \in DOMAIN s : i < j => <<s[i], s[j]>> \in R
  BY <1>1, <1>4, OrderedSeqExists
<1>6. \E s \in SetToSeqs(S) : \A i, j \in DOMAIN s : i < j => RoleSeatBefore(s[i], s[j])
  BY <1>5
<1>7. q \in SetToSeqs(S) /\ \A i, j \in DOMAIN q : i < j => RoleSeatBefore(q[i], q[j])
  BY <1>3, <1>6
<1>8. Sorted(S, R, q)
  BY <1>1, <1>7, SortedIf
<1> QED BY <1>8 DEF S, q

LEMMA PoolSorted ==
  ASSUME SeatInv, NEW w
  PROVE  Sorted(Pool(w), {z \in Pool(w) \X Pool(w) : RotatesBefore(z[1], z[2])}, PoolSeq(w))
<1> DEFINE S == Pool(w)
           R == {z \in S \X S : RotatesBefore(z[1], z[2])}
           q == PoolSeq(w)
<1>1. IsFiniteSet(S) /\ S \subseteq Nat
  BY MagtuturoAssumption, FS_Subset DEF Pool
<1>2. \A t \in S : Count(t) \in Nat /\ LastSeat(t) \in Nat
  BY CountIsNat, LastSeatIsNat DEF SeatInv
<1>3. q = CHOOSE s \in SetToSeqs(S) : \A i, j \in DOMAIN s : i < j => RotatesBefore(s[i], s[j])
  BY DEF PoolSeq, InOrder
<1> HIDE DEF S, q
<1>4. StrictOrder(S, R)
  BY <1>1, <1>2 DEF StrictOrder, RotatesBefore
<1>5. \E s \in SetToSeqs(S) : \A i, j \in DOMAIN s : i < j => <<s[i], s[j]>> \in R
  BY <1>1, <1>4, OrderedSeqExists
<1>6. \E s \in SetToSeqs(S) : \A i, j \in DOMAIN s : i < j => RotatesBefore(s[i], s[j])
  BY <1>5
<1>7. q \in SetToSeqs(S) /\ \A i, j \in DOMAIN q : i < j => RotatesBefore(q[i], q[j])
  BY <1>3, <1>6
<1>8. Sorted(S, R, q)
  BY <1>1, <1>7, SortedIf
<1> QED BY <1>8 DEF S, q

\* Who sits down: nobody twice, nobody who has a seat by hand; first those who continue,
\* then the pool.
LEMMA QueueIs ==
  ASSUME SeatInv, NEW w, NEW n, n = Cardinality(Required(w)), NEW m, m = Cardinality(Pool(w))
  PROVE  /\ n \in Nat /\ m \in Nat
         /\ RequiredSeq(w) \in [1..n -> Required(w)] /\ PoolSeq(w) \in [1..m -> Pool(w)]
         /\ Queue(w) \in [1..(n + m) -> Teachers] /\ Len(Queue(w)) = n + m
         /\ \A i \in 1..n : Queue(w)[i] = RequiredSeq(w)[i].teacher
         /\ \A i \in 1..m : Queue(w)[n + i] = PoolSeq(w)[i]
<1> DEFINE rs == RequiredSeq(w)
           a == [i \in DOMAIN rs |-> rs[i].teacher]
           b == PoolSeq(w)
<1>1. n \in Nat /\ rs \in [1..n -> Required(w)]
  BY RequiredSorted, FS_CardinalityType DEF Sorted
<1>2. m \in Nat /\ b \in [1..m -> Pool(w)]
  BY PoolSorted, FS_CardinalityType DEF Sorted
<1>3. b \in [1..m -> Teachers]
  BY <1>2 DEF Pool
<1>4. a \in [1..n -> Teachers] /\ \A i \in 1..n : a[i] = rs[i].teacher
  BY <1>1, RequiredRows, RowFields
<1>5. Queue(w) = a \o b
  BY DEF Queue, RequiredSeq, PoolSeq
<1> HIDE DEF a, b, rs
<1>6. /\ a \o b \in [1..(n + m) -> Teachers] /\ Len(a \o b) = n + m
      /\ \A i \in 1..n : (a \o b)[i] = a[i]
      /\ \A i \in 1..m : (a \o b)[n + i] = b[i]
  <2>1. n \in Nat /\ m \in Nat /\ a \in [1..n -> Teachers] /\ b \in [1..m -> Teachers]
    BY <1>1, <1>2, <1>3, <1>4
  <2>2. Len(a \o b) = n + m
    BY <2>1, Joined
  <2>5. a \o b \in [1..(n + m) -> Teachers]
    BY <2>1, Joined, Zenon
  <2>3. \A i \in 1..n : (a \o b)[i] = a[i]
    BY <2>1, Joined
  <2>4. \A i \in 1..m : (a \o b)[n + i] = b[i]
    BY <2>1, Joined
  <2> QED BY <2>2, <2>3, <2>4, <2>5
<1> QED BY <1>1, <1>2, <1>4, <1>5, <1>6 DEF b, rs

LEMMA QueueOnce ==
  ASSUME SeatInv, NEW w
  PROVE  /\ \A i \in DOMAIN Queue(w) : Queue(w)[i] \in Teachers \ Seated(Manual(w))
         /\ \A i, j \in DOMAIN Queue(w) : i # j => Queue(w)[i] # Queue(w)[j]
<1> DEFINE n == Cardinality(Required(w))
           m == Cardinality(Pool(w))
           rs == RequiredSeq(w)
           b == PoolSeq(w)
           queue == Queue(w)
<1>1. /\ n \in Nat /\ m \in Nat
      /\ rs \in [1..n -> Required(w)] /\ b \in [1..m -> Pool(w)]
      /\ queue \in [1..(n + m) -> Teachers]
      /\ \A i \in 1..n : queue[i] = rs[i].teacher
      /\ \A i \in 1..m : queue[n + i] = b[i]
  BY QueueIs
<1>2. \A i, j \in 1..n : i # j => rs[i] # rs[j]
  <2>1. \A i, j \in DOMAIN rs : i # j => rs[i] # rs[j]
    BY RequiredSorted, Zenon DEF Sorted
  <2> QED BY <1>1, <2>1
<1>3. \A i, j \in 1..m : i # j => b[i] # b[j]
  <2>1. \A i, j \in DOMAIN b : i # j => b[i] # b[j]
    BY PoolSorted, Zenon DEF Sorted
  <2> QED BY <1>1, <2>1
<1>4. \A r \in Required(w) : r.teacher \in Teachers \ Seated(Manual(w))
                             /\ r.teacher \in Seated(Required(w))
  BY RequiredRows, RowFields DEF Required, Seated
<1>5. \A t \in Pool(w) : t \in Teachers /\ t \notin Seated(Manual(w)) /\ t \notin Seated(Required(w))
  BY DEF Pool
<1>6. \A r, q \in Required(w) : r # q => r.teacher # q.teacher
  BY RequiredRows
<1> HIDE DEF n, m, rs, b, queue
<1>7. ASSUME NEW i \in 1..(n + m), i > n PROVE i - n \in 1..m /\ queue[i] = b[i - n]
  <2>1. i - n \in 1..m /\ n + (i - n) = i
    BY <1>1, <1>7
  <2> QED BY <1>1, <2>1
<1>8. ASSUME NEW i \in 1..(n + m), i <= n PROVE i \in 1..n /\ queue[i] = rs[i].teacher
  BY <1>1, <1>8
<1>9. ASSUME NEW i \in 1..(n + m) PROVE queue[i] \in Teachers \ Seated(Manual(w))
  BY <1>1, <1>4, <1>5, <1>7, <1>8
<1>10. ASSUME NEW i \in 1..(n + m), NEW j \in 1..(n + m), i # j PROVE queue[i] # queue[j]
  <2>1. CASE i <= n /\ j <= n
    BY <1>1, <1>2, <1>6, <1>8, <1>10, <2>1
  <2>2. CASE i > n /\ j > n
    BY <1>1, <1>3, <1>7, <1>10, <2>2
  <2>3. CASE i <= n /\ j > n
    BY <1>1, <1>4, <1>5, <1>7, <1>8, <2>3
  <2>4. CASE i > n /\ j <= n
    BY <1>1, <1>4, <1>5, <1>7, <1>8, <2>4
  <2> QED BY <1>1, <2>1, <2>2, <2>3, <2>4
<1>11. DOMAIN queue = 1..(n + m)
  BY <1>1
<1> QED BY <1>9, <1>10, <1>11 DEF queue

LEMMA FreeSeatsOnce ==
  ASSUME NEW w, NEW type
  PROVE  LET q == FreeSeats(w, type) IN
         /\ Len(q) \in Nat /\ DOMAIN q = 1..Len(q)
         /\ Len(q) = Cardinality(Seats(type) \ Taken(Manual(w), type))
         /\ \A i \in DOMAIN q : q[i] \in Nat /\ q[i] \notin Taken(Manual(w), type)
         /\ \A i, j \in DOMAIN q : i # j => q[i] # q[j]
<1> DEFINE S == Seats(type) \ Taken(Manual(w), type)
           q == FreeSeats(w, type)
<1>1. /\ IsFiniteSet(S) /\ q \in [1..Cardinality(S) -> S]
      /\ \A i, j \in DOMAIN q : i # j => q[i] # q[j]
  <2>1. Sorted(S, {z \in S \X S : z[1] < z[2]}, q)
    BY FreeSeatsSorted
  <2> HIDE DEF S, q
  <2> QED BY <2>1, Zenon DEF Sorted
<1>2. Cardinality(S) \in Nat
  BY <1>1, FS_CardinalityType
<1>3. \A n \in S : n \in Nat /\ n \notin Taken(Manual(w), type)
  BY SeatsAreNumbers
<1> HIDE DEF S, q
<1>4. q \in Seq(S) /\ Len(q) = Cardinality(S)
  BY <1>1, <1>2, SeqDef, LenProperties
<1> QED BY <1>1, <1>2, <1>3, <1>4 DEF S, q

\* A row of the decision: the seat it fills and its place in the queue.
Fills(w, at, r, type, i, k) ==
  /\ r = Seat(w, type, FreeSeats(w, type)[i], Queue(w)[k], "AUTO", at)
  /\ i \in DOMAIN FreeSeats(w, type) /\ k \in DOMAIN Queue(w)
  /\ k = IF type = "SUGO" THEN i ELSE i + Len(FreeSeats(w, "SUGO"))

LEMMA DecisionFills ==
  ASSUME SeatInv, NEW w, NEW at, NEW r \in Decision(w, at)
  PROVE  \E type \in Types : \E i \in Nat, k \in Nat : Fills(w, at, r, type, i, k)
<1> DEFINE sugo == FreeSeats(w, "SUGO")
           reserba == FreeSeats(w, "RESERBA")
           queue == Queue(w)
<1>1. /\ Len(sugo) \in Nat /\ DOMAIN sugo = 1..Len(sugo)
      /\ DOMAIN reserba = 1..Len(reserba) /\ Len(reserba) \in Nat
  BY FreeSeatsOnce
<1>2. Len(queue) \in Nat /\ DOMAIN queue = 1..Len(queue)
  BY QueueIs
<1> HIDE DEF sugo, reserba, queue
<1>3. \/ \E i \in DOMAIN sugo \intersect DOMAIN queue :
           r = Seat(w, "SUGO", sugo[i], queue[i], "AUTO", at)
      \/ \E i \in {j \in DOMAIN reserba : j + Len(sugo) <= Len(queue)} :
           r = Seat(w, "RESERBA", reserba[i], queue[i + Len(sugo)], "AUTO", at)
  BY DEF Decision, sugo, reserba, queue
<1>4. CASE \E i \in DOMAIN sugo \intersect DOMAIN queue :
             r = Seat(w, "SUGO", sugo[i], queue[i], "AUTO", at)
  <2>1. PICK i \in DOMAIN sugo \intersect DOMAIN queue :
               r = Seat(w, "SUGO", sugo[i], queue[i], "AUTO", at)
    BY <1>4
  <2>2. i \in Nat
    BY <1>1
  <2>3. Fills(w, at, r, "SUGO", i, i)
    BY <2>1 DEF Fills, sugo, queue
  <2> QED BY <2>2, <2>3 DEF Types
<1>5. CASE \E i \in {j \in DOMAIN reserba : j + Len(sugo) <= Len(queue)} :
             r = Seat(w, "RESERBA", reserba[i], queue[i + Len(sugo)], "AUTO", at)
  <2>1. PICK i \in DOMAIN reserba : /\ i + Len(sugo) <= Len(queue)
                                    /\ r = Seat(w, "RESERBA", reserba[i], queue[i + Len(sugo)], "AUTO", at)
    BY <1>5
  <2>2. i \in Nat /\ i + Len(sugo) \in Nat /\ i + Len(sugo) \in DOMAIN queue
    BY <1>1, <1>2, <2>1
  <2>3. Fills(w, at, r, "RESERBA", i, i + Len(sugo))
    BY <2>1, <2>2 DEF Fills, sugo, reserba, queue
  <2> QED BY <2>2, <2>3 DEF Types
<1> QED BY <1>3, <1>4, <1>5

LEMMA FillsRow ==
  ASSUME SeatInv, NEW w \in Weeks, NEW at \in Nat, NEW r, NEW type \in Types, NEW i \in Nat,
         NEW k \in Nat, Fills(w, at, r, type, i, k)
  PROVE  /\ r \in Rows /\ r.week = w /\ r.source = "AUTO" /\ r.type = type
         /\ r.seat = FreeSeats(w, type)[i] /\ r.seat \notin Taken(Manual(w), type)
         /\ r.teacher = Queue(w)[k] /\ r.teacher \notin Seated(Manual(w))
<1>1. FreeSeats(w, type)[i] \in Nat /\ FreeSeats(w, type)[i] \notin Taken(Manual(w), type)
  BY FreeSeatsOnce DEF Fills
<1>2. Queue(w)[k] \in Teachers /\ Queue(w)[k] \notin Seated(Manual(w))
  BY QueueOnce DEF Fills
<1> DEFINE n == FreeSeats(w, type)[i]
           t == Queue(w)[k]
<1>3. r = Seat(w, type, n, t, "AUTO", at)
  BY DEF Fills
<1> HIDE DEF n, t
<1>4. Seat(w, type, n, t, "AUTO", at) \in Rows
  BY <1>1, <1>2 DEF Seat, Rows, Types, n, t
<1>5. r.week = w /\ r.source = "AUTO" /\ r.type = type /\ r.seat = n /\ r.teacher = t
  BY <1>3 DEF Seat
<1> QED BY <1>1, <1>2, <1>3, <1>4, <1>5 DEF n, t

LEMMA DecisionFinite ==
  ASSUME SeatInv, NEW w, NEW at
  PROVE  IsFiniteSet(Decision(w, at))
<1> DEFINE sugo == FreeSeats(w, "SUGO")
           reserba == FreeSeats(w, "RESERBA")
           queue == Queue(w)
           I == DOMAIN sugo \intersect DOMAIN queue
           J == {j \in DOMAIN reserba : j + Len(sugo) <= Len(queue)}
           f == [i \in I |-> Seat(w, "SUGO", sugo[i], queue[i], "AUTO", at)]
           g == [i \in J |-> Seat(w, "RESERBA", reserba[i], queue[i + Len(sugo)], "AUTO", at)]
           A == {f[i] : i \in I}
           B == {g[i] : i \in J}
<1>1. IsFiniteSet(DOMAIN sugo) /\ IsFiniteSet(DOMAIN reserba)
  <2>1. /\ Len(sugo) \in Nat /\ DOMAIN sugo = 1..Len(sugo)
        /\ Len(reserba) \in Nat /\ DOMAIN reserba = 1..Len(reserba)
    BY FreeSeatsOnce
  <2> HIDE DEF sugo, reserba
  <2>2. IsFiniteSet(1..Len(sugo)) /\ IsFiniteSet(1..Len(reserba))
    BY <2>1, FS_Interval
  <2> QED BY <2>1, <2>2
<1>2. IsFiniteSet(I) /\ IsFiniteSet(J)
  BY <1>1, FS_Subset
<1>3. Decision(w, at) = A \union B
  BY DEF Decision
<1>4. f \in [I -> A] /\ \A r \in A : \E i \in I : f[i] = r
  OBVIOUS
<1>5. g \in [J -> B] /\ \A r \in B : \E i \in J : g[i] = r
  OBVIOUS
<1> HIDE DEF I, J, f, g, A, B
<1>6. IsFiniteSet(A) /\ IsFiniteSet(B)
  BY <1>2, <1>4, <1>5, ImageIsFinite
<1> QED BY <1>3, <1>6, FS_Union

\* What a generation decides, next to the seats given by hand.
LEMMA DecisionPlaced ==
  ASSUME SeatInv, NEW w \in Weeks, NEW at \in Nat
  PROVE  /\ Placed(w, Decision(w, at) \union Manual(w))
         /\ \A r \in Decision(w, at) : r.source = "AUTO"
<1> DEFINE D == Decision(w, at)
           M == Manual(w)
<1>1. ASSUME NEW r \in D, NEW q \in D, r # q
      PROVE  r.teacher # q.teacher /\ <<r.type, r.seat>> # <<q.type, q.seat>>
  <2>1. PICK x \in Types, i \in Nat, k \in Nat : Fills(w, at, r, x, i, k)
    BY DecisionFills
  <2>2. PICK y \in Types, j \in Nat, l \in Nat : Fills(w, at, q, y, j, l)
    BY DecisionFills
  <2>3. /\ r.type = x /\ r.seat = FreeSeats(w, x)[i] /\ r.teacher = Queue(w)[k]
        /\ q.type = y /\ q.seat = FreeSeats(w, y)[j] /\ q.teacher = Queue(w)[l]
    BY <2>1, <2>2, FillsRow
  <2>4. x # y \/ i # j
    BY <1>1, <2>1, <2>2 DEF Fills
  <2>5. k # l
    <3>1. Len(FreeSeats(w, "SUGO")) \in Nat /\ DOMAIN FreeSeats(w, "SUGO") = 1..Len(FreeSeats(w, "SUGO"))
      BY FreeSeatsOnce
    <3>2. i \in DOMAIN FreeSeats(w, x) /\ j \in DOMAIN FreeSeats(w, y)
      BY <2>1, <2>2 DEF Fills
    <3>3. i >= 1 /\ j >= 1
      BY <3>2, FreeSeatsOnce
    <3>4. /\ k = IF x = "SUGO" THEN i ELSE i + Len(FreeSeats(w, "SUGO"))
          /\ l = IF y = "SUGO" THEN j ELSE j + Len(FreeSeats(w, "SUGO"))
      BY <2>1, <2>2 DEF Fills
    <3>5. x = "SUGO" => i <= Len(FreeSeats(w, "SUGO"))
      BY <3>1, <3>2
    <3>6. y = "SUGO" => j <= Len(FreeSeats(w, "SUGO"))
      BY <3>1, <3>2
    <3> DEFINE L == Len(FreeSeats(w, "SUGO"))
    <3> HIDE DEF L
    <3>7. x \in {"SUGO", "RESERBA"} /\ y \in {"SUGO", "RESERBA"}
      BY DEF Types
    <3> QED BY <2>4, <3>1, <3>3, <3>4, <3>5, <3>6, <3>7 DEF L
  <2>6. r.teacher # q.teacher
    BY <2>1, <2>2, <2>3, <2>5, QueueOnce DEF Fills
  <2>7. x = y => r.seat # q.seat
    <3>1. i \in DOMAIN FreeSeats(w, x) /\ j \in DOMAIN FreeSeats(w, y)
      BY <2>1, <2>2 DEF Fills
    <3>2. \A a, b \in DOMAIN FreeSeats(w, x) : a # b => FreeSeats(w, x)[a] # FreeSeats(w, x)[b]
      BY FreeSeatsOnce
    <3> QED BY <2>3, <2>4, <3>1, <3>2
  <2> QED BY <2>3, <2>6, <2>7
<1>2. ASSUME NEW r \in D
      PROVE  /\ r \in Rows /\ r.week = w /\ r.source = "AUTO"
             /\ \A q \in M : r.teacher # q.teacher /\ <<r.type, r.seat>> # <<q.type, q.seat>>
  <2>1. PICK x \in Types, i \in Nat, k \in Nat : Fills(w, at, r, x, i, k)
    BY DecisionFills
  <2>2. /\ r \in Rows /\ r.week = w /\ r.source = "AUTO" /\ r.type = x
        /\ r.seat \notin Taken(M, x) /\ r.teacher \notin Seated(M)
    BY <2>1, FillsRow
  <2> QED BY <2>2 DEF Taken, Seated
<1>3. IsFiniteSet(M) /\ M \subseteq Rows /\ M \subseteq roster /\ \A q \in M : q.week = w
  BY Finite DEF SeatInv, Manual, Of
<1>4. IsFiniteSet(D \union M)
  BY <1>3, DecisionFinite, FS_Union
<1> HIDE DEF D, M
<1>5. OneEach(D \union M)
  <2> SUFFICES ASSUME NEW r \in D \union M, NEW q \in D \union M, r # q
               PROVE  r.teacher # q.teacher /\ <<r.type, r.seat>> # <<q.type, q.seat>>
    BY DEF OneEach
  <2>1. CASE r \in M /\ q \in M
    BY <1>3, <2>1 DEF SeatInv, OneSeatEach
  <2>2. CASE r \in D /\ q \in D
    BY <1>1, <2>2
  <2>3. CASE r \in D /\ q \in M
    BY <1>2, <2>3
  <2>4. CASE r \in M /\ q \in D
    BY <1>2, <2>4
  <2> QED BY <2>1, <2>2, <2>3, <2>4
<1> QED BY <1>2, <1>3, <1>4, <1>5 DEF Placed, D, M

-----------------------------------------------------------------------------
(* Steps *)

LEMMA OneEachIs == OneSeatEach <=> OneEach(roster)
BY DEF OneSeatEach, OneEach

\* What a step of p has to leave as it is for the others, and what it has to bring about.
LEMMA KeepsSeats ==
  ASSUME SeatInv, RosterInv', RosterTyped', OneSeatEach', NEW p \in Requests,
         \A q \in Requests \ {p} : pc'[q] = pc[q] /\ call'[q] = call[q],
         \A w \in Weeks : lock[w] # p => Of(w)' = Of(w),
         CallPlaced(p)'
  PROVE  SeatInv'
<1>1. ASSUME NEW q \in Requests \ {p} PROVE CallPlaced(q)'
  <2>1. CallPlaced(q) /\ pc'[q] = pc[q] /\ call'[q] = call[q]
    BY DEF SeatInv
  <2>2. CASE pc[q] = "delete"
    <3>1. PICK w \in Weeks : w = call[q].week
      BY <2>2 DEF SeatInv, RosterInv, Typed, CallTyped
    <3>2. lock[w] = q
      BY <2>2, <3>1 DEF SeatInv, RosterInv, LocksHeld
    <3>3. Of(w)' = Of(w)
      BY <3>1, <3>2
    <3>4. Manual(w)' = Manual(w)
      BY <3>3 DEF Manual
    <3>5. Manual(call[q].week)' = Manual(call[q].week)
      BY <3>1, <3>4, <2>1 DEF Manual, Of
    <3> DEFINE S == call[q].seats \union Manual(call[q].week)
    <3>6. (call[q].seats \union Manual(call[q].week))' = S
      BY <2>1, <3>5
    <3>7. Placed(w, S) /\ \A r \in call[q].seats : r.source = "AUTO"
      BY <2>1, <2>2, <3>1 DEF CallPlaced
    <3>8. Placed(w, S)' <=> Placed(w, S)
      BY <3>6 DEF Placed, OneEach
    <3> QED BY <2>1, <2>2, <3>1, <3>6, <3>7, <3>8 DEF CallPlaced, Placed, OneEach
  <2>3. CASE pc[q] # "delete"
    BY <2>1, <2>3 DEF CallPlaced
  <2> QED BY <2>2, <2>3
<1> QED BY <1>1 DEF SeatInv

LEMMA QuietKeepsSeats ==
  ASSUME SeatInv, RosterInv', UNCHANGED roster, clock' \in Nat, NEW p \in Requests,
         \A q \in Requests \ {p} : pc'[q] = pc[q] /\ call'[q] = call[q],
         CallPlaced(p)'
  PROVE  SeatInv'
<1>1. RosterTyped' /\ OneSeatEach'
  BY DEF SeatInv, RosterTyped, OneSeatEach
<1>2. \A w \in Weeks : Of(w)' = Of(w)
  BY DEF Of
<1> QED BY <1>1, <1>2, KeepsSeats

\* A request that has come to an end, or to the next week of its month, relies on nothing.
LEMMA RestsKeepsSeats ==
  ASSUME SeatInv, RosterInv', RosterTyped', OneSeatEach', NEW p \in Requests, Moves(p), Owned(p),
         pc'[p] # "lock"
  PROVE  SeatInv'
BY KeepsSeats DEF Moves, Owned, CallPlaced

LEMMA DoneRests ==
  ASSUME SeatInv, NEW p \in Requests, Done(p)
  PROVE  pc'[p] # "lock" /\ clock' = clock
BY DEF Done, SeatInv, RosterInv, Typed

LEMMA BeginKeepsSeats ==
  ASSUME SeatInv, RosterInv', NEW p \in Requests, NEW c, NEW label, label # "delete",
         Begin(p, c, label),
         c.op = "ASSIGN" => c.teacher \in Teachers /\ c.type \in Types /\ c.seat \in Nat
  PROVE  SeatInv'
<1>1. /\ call' = [call EXCEPT ![p] = c] /\ pc' = [pc EXCEPT ![p] = label]
      /\ UNCHANGED roster /\ clock' = clock + 1
  BY DEF Begin
<1>2. CallPlaced(p)' /\ \A q \in Requests \ {p} : pc'[q] = pc[q] /\ call'[q] = call[q]
  BY <1>1 DEF SeatInv, RosterInv, Typed, CallPlaced
<1>3. clock' \in Nat
  BY <1>1 DEF SeatInv, RosterTyped
<1> QED BY <1>1, <1>2, <1>3, QuietKeepsSeats

LEMMA MonthWeekKeepsSeats ==
  ASSUME SeatInv, RosterInv', NEW p \in Requests, MonthWeek(p)
  PROVE  SeatInv'
<1>1. /\ UNCHANGED <<roster, clock>>
      /\ \/ \E x : call' = [call EXCEPT ![p] = x] /\ pc' = [pc EXCEPT ![p] = "month"]
         \/ \E x : call' = [call EXCEPT ![p] = x] /\ pc' = [pc EXCEPT ![p] = "idle"]
         \/ \E w, rest : /\ call' = [call EXCEPT ![p] = [op |-> "MONTH", week |-> w, todo |-> rest]]
                         /\ pc' = [pc EXCEPT ![p] = "lock"]
  BY DEF MonthWeek
<1>2. CallPlaced(p)' /\ \A q \in Requests \ {p} : pc'[q] = pc[q] /\ call'[q] = call[q]
  BY <1>1 DEF SeatInv, RosterInv, Typed, CallPlaced
<1>3. clock' \in Nat
  BY <1>1 DEF SeatInv, RosterTyped
<1> QED BY <1>1, <1>2, <1>3, QuietKeepsSeats

LEMMA LockKeepsSeats ==
  ASSUME SeatInv, RosterInv', NEW p \in Requests, Lock(p)
  PROVE  SeatInv'
<1>1. /\ UNCHANGED <<roster, clock, call>>
      /\ pc[p] = "lock" /\ pc' = [pc EXCEPT ![p] = "locked"]
  BY DEF Lock
<1>2. CallPlaced(p)' /\ \A q \in Requests \ {p} : pc'[q] = pc[q] /\ call'[q] = call[q]
  BY <1>1 DEF SeatInv, RosterInv, Typed, CallPlaced
<1>3. clock' \in Nat
  BY <1>1 DEF SeatInv, RosterTyped
<1> QED BY <1>1, <1>2, <1>3, QuietKeepsSeats

LEMMA FailKeepsSeats ==
  ASSUME SeatInv, RosterInv', NEW p \in Requests, Fail(p)
  PROVE  SeatInv'
<1>1. /\ UNCHANGED <<roster, clock>>
      /\ call' = [call EXCEPT ![p] = NoCall] /\ pc' = [pc EXCEPT ![p] = "idle"]
  BY DEF Fail
<1>2. CallPlaced(p)' /\ \A q \in Requests \ {p} : pc'[q] = pc[q] /\ call'[q] = call[q]
  BY <1>1 DEF SeatInv, RosterInv, Typed, CallPlaced
<1>3. clock' \in Nat
  BY <1>1 DEF SeatInv, RosterTyped
<1> QED BY <1>1, <1>2, <1>3, QuietKeepsSeats

\* The week of a decision, and what was decided.
Decided(p, w) ==
  /\ w \in Weeks /\ w = call[p].week
  /\ pc[p] = "locked" /\ pc'[p] = "delete"
  /\ call[p].op = "GENERATE" \/ call[p].op = "MONTH"
  /\ ~Refused(w)
  /\ call'[p].week = w /\ call'[p].seats = Decision(w, clock)
  /\ \A q \in Requests \ {p} : pc'[q] = pc[q] /\ call'[q] = call[q]
  /\ UNCHANGED <<roster, clock>>

LEMMA DecideDecides ==
  ASSUME SeatInv, NEW p \in Requests, Decide(p)
  PROVE  Done(p) \/ \E w \in Weeks : Decided(p, w)
<1>1. PICK w \in Weeks : w = call[p].week
  BY DEF Decide, SeatInv, RosterInv, Typed, CallTyped
<1> SUFFICES ASSUME ~Done(p) PROVE Decided(p, w)
  OBVIOUS
<1> DEFINE c == [op |-> call[p].op, week |-> w, seats |-> Decision(w, clock),
                 todo |-> IF call[p].op = "MONTH" THEN call[p].todo ELSE {}]
<1>2. /\ ~Refused(w)
      /\ call' = [call EXCEPT ![p] = c] /\ pc' = [pc EXCEPT ![p] = "delete"]
      /\ UNCHANGED <<roster, clock>>
      /\ pc[p] = "locked" /\ call[p].op \in {"GENERATE", "MONTH"}
  BY <1>1 DEF Decide, inputs
<1>3. c.week = w /\ c.seats = Decision(w, clock)
  OBVIOUS
<1> HIDE DEF c
<1> QED BY <1>1, <1>2, <1>3 DEF Decided, SeatInv, RosterInv, Typed

LEMMA DecideKeepsSeats ==
  ASSUME SeatInv, RosterInv', NEW p \in Requests, Decide(p)
  PROVE  SeatInv'
<1>1. CASE Done(p)
  <2>1. pc[p] \in {"locked", "delete"} /\ UNCHANGED <<status, roster>>
    BY DEF Decide
  <2>2. Moves(p)
    BY <1>1, <2>1, DoneMoves DEF SeatInv
  <2>3. CallPlaced(p)'
    BY <1>1, <2>2, DoneRests DEF CallPlaced, Moves
  <2>4. clock' \in Nat
    BY <1>1, DoneRests DEF SeatInv, RosterTyped
  <2> QED BY <2>1, <2>2, <2>3, <2>4, QuietKeepsSeats DEF Moves
<1>2. CASE \E w \in Weeks : Decided(p, w)
  <2>1. PICK w \in Weeks : Decided(p, w)
    BY <1>2
  <2>2. clock \in Nat
    BY DEF SeatInv, RosterTyped
  <2>3. Placed(w, Decision(w, clock) \union Manual(w))
    BY <2>2, DecisionPlaced
  <2>3a. \A r \in Decision(w, clock) : r.source = "AUTO"
    BY <2>2, DecisionPlaced
  <2>4. Manual(w)' = Manual(w)
    BY <2>1 DEF Decided, Manual, Of
  <2>5. Manual(call[p].week)' = Manual(w)
    BY <2>1, <2>4 DEF Decided, Manual, Of
  <2>6. CallPlaced(p)'
    BY <2>1, <2>3, <2>3a, <2>5 DEF CallPlaced, Decided, Placed, OneEach
  <2> QED BY <2>1, <2>2, <2>6, QuietKeepsSeats DEF Decided
<1> QED BY <1>1, <1>2, DecideDecides

\* What a generation saves is what it decided next to the seats given by hand.
LEMMA NothingIsLost == ASSUME SeatInv PROVE NothingLost
<1> SUFFICES ASSUME NEW p \in Requests, pc[p] = "delete"
             PROVE  /\ Cardinality(Seated(call[p].seats)) = Cardinality(call[p].seats)
                    /\ Seated(call[p].seats) \intersect Seated(Manual(call[p].week)) = {}
  BY DEF NothingLost
<1> DEFINE D == call[p].seats
           M == Manual(call[p].week)
           f == [r \in D |-> r.teacher]
<1>1. Placed(call[p].week, D \union M) /\ \A r \in D : r.source = "AUTO"
  BY DEF SeatInv, CallPlaced
<1>2. \A r \in M : r.source # "AUTO"
  BY DEF Manual
<1> HIDE DEF D, M
<1>3. /\ IsFiniteSet(D \union M)
      /\ \A r, q \in D \union M : r.week = q.week
      /\ \A r, q \in D \union M : r # q => r.teacher # q.teacher
  BY <1>1 DEF Placed, OneEach
<1>4. Seated(D) \intersect Seated(M) = {}
  BY <1>1, <1>2, <1>3 DEF Seated
<1>5. IsFiniteSet(D)
  BY <1>3, FS_Subset
<1>6. f \in [D -> Seated(D)] /\ \A t \in Seated(D) : \E r \in D : f[r] = t
  BY DEF Seated
<1>7. \A r, q \in D : f[r] = f[q] => r = q
  BY <1>3
<1> HIDE DEF f
<1>8. f \in Bijection(D, Seated(D))
  BY <1>6, <1>7, Fun_IsBij
<1>9. Cardinality(Seated(D)) = Cardinality(D)
  BY <1>5, <1>8, FS_Bijection DEF ExistsBijection
<1> QED BY <1>4, <1>9 DEF D, M

LEMMA DeleteKeepsSeats ==
  ASSUME SeatInv, RosterInv', NEW p \in Requests, DeleteAuto(p)
  PROVE  SeatInv'
<1>1. PICK w \in Weeks : w = call[p].week
  BY DEF DeleteAuto, SeatInv, RosterInv, Typed, CallTyped
<1> DEFINE D == call[p].seats
           M == Manual(w)
           rest == {r \in roster : r.week # w}
<1>2. roster' = rest \union (D \union M)
  BY <1>1, NothingIsLost DEF DeleteAuto, NothingLost, Manual, Of
<1>3. Placed(w, D \union M)
  BY <1>1 DEF DeleteAuto, SeatInv, CallPlaced
<1>4. IsFiniteSet(rest) /\ rest \subseteq roster /\ \A r \in rest : r.week # w
  BY FS_Subset DEF SeatInv, RosterTyped
<1> HIDE DEF D, M, rest
<1>5. IsFiniteSet(roster') /\ roster' \subseteq Rows
  BY <1>2, <1>3, <1>4, FS_Union DEF Placed, SeatInv, RosterTyped
<1>6. OneSeatEach'
  BY <1>2, <1>3, <1>4 DEF Placed, OneEach, OneSeatEach, SeatInv
<1>7. Owned(p)
  BY SavesInItsWeek DEF SeatInv, RosterInv, LocksHeld, Owned, Typed
<1>8. Moves(p)
  BY SavesInItsWeek, DoneMoves DEF SeatInv
<1>9. pc'[p] # "lock" /\ RosterTyped'
  BY <1>5, SavesInItsWeek, DoneRests DEF RosterTyped, SeatInv
<1> QED BY <1>6, <1>7, <1>8, <1>9, RestsKeepsSeats

LEMMA SeatForIs ==
  ASSUME NEW w, NEW type, NEW seat
  PROVE  LET n == SeatFor(w, type, seat) IN n = seat \/ n \in Seats(type) \ Taken(Of(w), type)
<1> DEFINE free == Seats(type) \ Taken(Of(w), type)
<1>1. free \subseteq Nat
  BY SeatsAreNumbers
<1>2. free # {} => \E n \in free : \A m \in free : n <= m
  BY <1>1, LeastOfNaturals
<1> QED BY <1>2 DEF SeatFor

LEMMA SaveKeepsSeats ==
  ASSUME SeatInv, RosterInv', NEW p \in Requests, SaveSeat(p)
  PROVE  SeatInv'
<1>1. PICK w \in Weeks : w = call[p].week
  BY DEF SaveSeat, SeatInv, RosterInv, Typed, CallTyped
<1> DEFINE t == call[p].teacher
           type == call[p].type
           seat == SeatFor(w, type, call[p].seat)
           current == {r \in Of(w) : r.type = type /\ r.seat = seat}
           new == Seat(w, type, seat, t, "MANUAL", clock)
<1>2. roster' = IF Assignable(w, t, type, seat) /\ t \notin Seated(current)
                THEN (roster \ current) \union {new} ELSE roster
  BY <1>1 DEF SaveSeat
<1>3. t \in Teachers /\ type \in Types /\ clock \in Nat /\ pc[p] = "locked"
  BY DEF SaveSeat, SeatInv, CallPlaced, RosterTyped
<1> HIDE DEF t, type, seat
<1>4. /\ OneSeatEach' /\ IsFiniteSet(roster') /\ roster' \subseteq Rows
  <2>1. CASE ~(Assignable(w, t, type, seat) /\ t \notin Seated(current))
    <3>1. roster' = roster
      BY <1>2, <2>1
    <3> QED BY <3>1 DEF SeatInv, RosterTyped, OneSeatEach
  <2>2. CASE Assignable(w, t, type, seat) /\ t \notin Seated(current)
    <3>1. roster' = (roster \ current) \union {new}
      BY <1>2, <2>2
    <3>2. seat \in Nat
      BY <2>2, SeatsAreNumbers DEF Assignable
    <3>3. new \in Rows
      BY <1>3, <3>2 DEF Seat, Rows, Types
    <3>4. /\ new.week = w /\ new.type = type /\ new.seat = seat /\ new.teacher = t
      BY DEF Seat
    <3> HIDE DEF new
    <3>5. ASSUME NEW r \in roster \ current, r.week = w
          PROVE  r.teacher # t /\ <<r.type, r.seat>> # <<type, seat>>
      BY <2>2, <3>5 DEF Assignable, Of
    <3>6. \A r \in roster \ current, q \in roster \ current : r # q /\ r.week = q.week =>
             r.teacher # q.teacher /\ <<r.type, r.seat>> # <<q.type, q.seat>>
      BY DEF SeatInv, OneSeatEach
    <3> HIDE DEF current
    <3>7. OneSeatEach'
      BY <3>1, <3>4, <3>5, <3>6 DEF OneSeatEach
    <3>8. IsFiniteSet(roster \ current)
      BY FS_Subset DEF SeatInv, RosterTyped
    <3>9. IsFiniteSet(roster')
      BY <3>1, <3>8, FS_AddElement
    <3> QED BY <3>1, <3>3, <3>7, <3>9 DEF SeatInv, RosterTyped
  <2> QED BY <2>1, <2>2
<1>5. Owned(p)
  BY SavesInItsWeek DEF SeatInv, RosterInv, LocksHeld, Owned, Typed
<1>6. Moves(p)
  BY SavesInItsWeek, DoneMoves DEF SeatInv
<1>7. pc'[p] # "lock" /\ RosterTyped'
  BY <1>4, SavesInItsWeek, DoneRests DEF RosterTyped, SeatInv
<1> QED BY <1>4, <1>5, <1>6, <1>7, RestsKeepsSeats

LEMMA ClearKeepsSeats ==
  ASSUME SeatInv, RosterInv', NEW p \in Requests, ClearSeat(p)
  PROVE  SeatInv'
<1>1. roster' \subseteq roster
  BY DEF ClearSeat
<1>2. OneSeatEach' /\ IsFiniteSet(roster') /\ roster' \subseteq Rows
  BY <1>1, FS_Subset DEF SeatInv, RosterTyped, OneSeatEach
<1>3. Owned(p)
  BY SavesInItsWeek DEF SeatInv, RosterInv, LocksHeld, Owned, Typed
<1>4. Moves(p)
  BY SavesInItsWeek, DoneMoves DEF SeatInv
<1>5. pc'[p] # "lock" /\ RosterTyped'
  BY <1>2, SavesInItsWeek, DoneRests DEF RosterTyped, SeatInv
<1> QED BY <1>2, <1>3, <1>4, <1>5, RestsKeepsSeats

LEMMA StillKeepsSeats ==
  ASSUME SeatInv, RosterInv', UNCHANGED <<roster, pc, call, clock>>
  PROVE  SeatInv'
<1>1. \A w : Manual(w)' = Manual(w)
  BY DEF Manual, Of
<1>2. ASSUME NEW p \in Requests PROVE CallPlaced(p)'
  <2>1. CallPlaced(p)
    BY DEF SeatInv
  <2>2. Manual(call[p].week)' = Manual(call[p].week)
    BY DEF Manual, Of
  <2> QED BY <2>1, <2>2 DEF CallPlaced, Placed, OneEach
<1> QED BY <1>2 DEF SeatInv, RosterTyped, OneSeatEach

LEMMA SeatInvNext == SeatInv /\ [Next]_vars => SeatInv'
<1> SUFFICES ASSUME SeatInv, [Next]_vars PROVE SeatInv'
  OBVIOUS
<1>0. RosterInv'
  BY RosterInvNext DEF SeatInv
<1>1. ASSUME NEW p \in Requests, NEW w \in Weeks, Generate(p, w) PROVE SeatInv'
  BY <1>0, <1>1, BeginKeepsSeats DEF Generate
<1>2. ASSUME NEW p \in Requests, NEW w \in Weeks, NEW s \in Seatings, Assign(p, w, s) PROVE SeatInv'
  <2>1. s.teacher \in Teachers /\ s.type \in Types /\ s.seat \in Nat
    BY MagtuturoAssumption DEF Types
  <2> QED BY <1>0, <1>2, <2>1, BeginKeepsSeats DEF Assign
<1>3. ASSUME NEW p \in Requests, NEW w \in Weeks, NEW type, NEW seat, Clear(p, w, type, seat)
      PROVE SeatInv'
  BY <1>0, <1>3, BeginKeepsSeats DEF Clear
<1>4. ASSUME NEW p \in Requests, Month(p) PROVE SeatInv'
  BY <1>0, <1>4, BeginKeepsSeats DEF Month
<1>5. ASSUME NEW p \in Requests, MonthWeek(p) \/ Lock(p) \/ Decide(p) \/ Fail(p)
      PROVE SeatInv'
  BY <1>0, <1>5, MonthWeekKeepsSeats, LockKeepsSeats, DecideKeepsSeats, FailKeepsSeats
<1>6. ASSUME NEW p \in Requests, DeleteAuto(p) \/ SaveSeat(p) \/ ClearSeat(p) PROVE SeatInv'
  BY <1>0, <1>6, DeleteKeepsSeats, SaveKeepsSeats, ClearKeepsSeats
<1>7. ASSUME NEW w \in Weeks, SetStatus(w) PROVE SeatInv'
  BY <1>0, <1>7, StillKeepsSeats DEF SetStatus
<1>8. ASSUME NEW w \in Weeks, NEW t \in Teachers, Change(w, t) PROVE SeatInv'
  BY <1>0, <1>8, StillKeepsSeats DEF Change
<1>9. CASE UNCHANGED vars
  BY <1>0, <1>9, StillKeepsSeats DEF vars
<1> QED BY <1>1, <1>2, <1>3, <1>4, <1>5, <1>6, <1>7, <1>8, <1>9 DEF Next

\* Whom the screen offers is accepted: what the list leaves out is what the check refuses.
LEMMA OffersAreAccepted == OffersHold
<1> SUFFICES ASSUME NEW w \in Weeks, status[w] = "DRAFT", NEW t \in Offered(w),
                    NEW type \in Types, NEW seat, seat = SeatFor(w, type, 0), seat # 0
             PROVE  Assignable(w, t, type, seat)
  BY DEF OffersHold
<1>1. seat \in Seats(type)
  BY SeatForIs
<1>2. Eligible(w, t) /\ t \notin Seated(Of(w))
  BY DEF Offered
<1>3. ~\E r \in Of(w) : r.teacher = t
  BY <1>2 DEF Seated
<1> QED BY <1>1, <1>2, <1>3 DEF Assignable

LEMMA SeatInvInit == Init => SeatInv
<1>1. Init => RosterInv
  BY DEF Init, RosterInv, Typed, CallTyped, LocksHeld, Deciding
<1>2. Init => RosterTyped /\ OneSeatEach
  BY FS_EmptySet DEF Init, RosterTyped, OneSeatEach
<1>3. ASSUME Init, NEW p \in Requests PROVE CallPlaced(p)
  BY <1>3 DEF Init, CallPlaced
<1> QED BY <1>1, <1>2, <1>3 DEF SeatInv

\* A seat has one teacher and a teacher one seat in a week, a generation loses no seats it
\* has deleted, and whom the screen offers is accepted.
THEOREM SeatsAreHeld == Spec => []SeatsHold
<1>1. SeatInv => SeatsHold
  BY NothingIsLost, OffersAreAccepted DEF SeatInv, SeatsHold
<1> QED BY <1>1, SeatInvInit, SeatInvNext, PTL DEF Spec

-----------------------------------------------------------------------------
(* The rules of the roster *)

\* The required fit into the SUGO seats that are left.
LEMMA RequiredFit ==
  ASSUME SeatInv, NEW w, ~Refused(w)
  PROVE  Cardinality(Required(w)) <= Len(FreeSeats(w, "SUGO"))
<1> DEFINE S == Required(w)
           f == [r \in S |-> r.teacher]
           A == Seats("SUGO")
           B == Taken(Manual(w), "SUGO")
           X == {r \in Manual(w) : r.type = "SUGO"}
           g == [r \in X |-> r.seat]
<1>1. IsFiniteSet(S) /\ \A r, q \in S : r # q => r.teacher # q.teacher
  BY RequiredRows
<1>2. f \in [S -> Seated(S)] /\ (\A t \in Seated(S) : \E r \in S : f[r] = t)
      /\ \A r, q \in S : f[r] = f[q] => r = q
  BY <1>1 DEF Seated
<1>3. Cardinality(Seated(S)) = Cardinality(S) /\ Cardinality(S) \in Nat
  <2> HIDE DEF S, f
  <2>1. f \in Bijection(S, Seated(S))
    BY <1>2, Fun_IsBij
  <2> QED BY <1>1, <2>1, FS_Bijection, FS_CardinalityType DEF ExistsBijection
<1>4. ~(Cardinality(Seated(S)) > SugoSeats - Cardinality(B))
  BY DEF Refused
<1>5. IsFiniteSet(B) /\ Cardinality(B) \in Nat
  <2>1. IsFiniteSet(X)
    BY Finite, FS_Subset DEF SeatInv
  <2>2. B = {r.seat : r \in X}
    BY DEF Taken
  <2>3. g \in [X -> B] /\ \A n \in B : \E r \in X : g[r] = n
    BY <2>2
  <2> HIDE DEF X, B, g
  <2>4. IsFiniteSet(B)
    BY <2>1, <2>3, ImageIsFinite
  <2> QED BY <2>4, FS_CardinalityType
<1>6. IsFiniteSet(A) /\ Cardinality(A) = SugoSeats
  BY MagtuturoAssumption, FS_Interval DEF Seats
<1>7. Len(FreeSeats(w, "SUGO")) = Cardinality(A \ B)
  BY FreeSeatsOnce
<1> HIDE DEF S, A, B
<1>8. Cardinality(A \ B) = Cardinality(A) - Cardinality(A \intersect B)
  BY <1>5, <1>6, FS_Difference
<1>9. A \intersect B \subseteq B
  OBVIOUS
<1>10. Cardinality(A \intersect B) <= Cardinality(B) /\ Cardinality(A \intersect B) \in Nat
  BY <1>5, <1>9, FS_Subset, FS_CardinalityType
<1> QED BY <1>3, <1>4, <1>5, <1>6, <1>7, <1>8, <1>10, MagtuturoAssumption DEF S

\* Whoever is far enough ahead in the queue has a seat.
LEMMA AheadIsSeated ==
  ASSUME SeatInv, NEW w, NEW at, NEW type \in Types, NEW r, NEW i \in Nat, NEW k \in Nat,
         Fills(w, at, r, type, i, k), NEW j \in Nat, 0 < j, j <= k
  PROVE  \E s \in Decision(w, at) : s.teacher = Queue(w)[j]
<1> DEFINE sugo == FreeSeats(w, "SUGO")
           reserba == FreeSeats(w, "RESERBA")
           queue == Queue(w)
           L == Len(sugo)
<1>1. /\ L \in Nat /\ DOMAIN sugo = 1..L
      /\ DOMAIN reserba = 1..Len(reserba) /\ Len(reserba) \in Nat
  BY FreeSeatsOnce
<1>2. Len(queue) \in Nat /\ DOMAIN queue = 1..Len(queue)
  BY QueueIs
<1>3. k \in DOMAIN queue /\ i \in DOMAIN FreeSeats(w, type)
      /\ k = IF type = "SUGO" THEN i ELSE i + L
  BY DEF Fills
<1>4. CASE j <= L
  <2>1. j \in DOMAIN sugo \intersect DOMAIN queue
    BY <1>1, <1>2, <1>3, <1>4
  <2>2. Seat(w, "SUGO", sugo[j], queue[j], "AUTO", at) \in Decision(w, at)
    BY <2>1 DEF Decision
  <2> QED BY <2>2 DEF Seat
<1>5. CASE j > L
  <2>1. type = "RESERBA" /\ k = i + L
    BY <1>1, <1>3, <1>5 DEF Types
  <2>2. i <= Len(reserba)
    BY <1>1, <1>3, <2>1
  <2>3. j - L \in 1..Len(reserba) /\ (j - L) + L = j /\ j <= Len(queue)
    BY <1>1, <1>2, <1>3, <1>5, <2>1, <2>2
  <2>4. j - L \in {m \in DOMAIN reserba : m + Len(sugo) <= Len(queue)}
    BY <1>1, <2>3
  <2>5. Seat(w, "RESERBA", reserba[j - L], queue[(j - L) + Len(sugo)], "AUTO", at) \in Decision(w, at)
    BY <2>4 DEF Decision
  <2>6. Seat(w, "RESERBA", reserba[j - L], queue[(j - L) + Len(sugo)], "AUTO", at).teacher = queue[j]
    BY <2>3 DEF Seat
  <2> QED BY <2>5, <2>6
<1> QED BY <1>1, <1>4, <1>5

\* Who continues is SUGO.
LEMMA ContinuesAsSugo ==
  ASSUME SeatInv, NEW w \in Weeks, ~Refused(w), NEW at,
         NEW r \in Previous(w), Continues(w, r)
  PROVE  \E s \in Decision(w, at) \union Manual(w) : s.teacher = r.teacher /\ s.type = "SUGO"
<1>1. CASE r.teacher \in Seated(Manual(w))
  <2>1. PICK m \in Manual(w) : m.teacher = r.teacher
    BY <1>1 DEF Seated
  <2>2. m.type \in {"SUGO", "RESERBA"}
    BY Finite, RowFields DEF Types, SeatInv
  <2>3. m.type # "RESERBA"
    BY <2>1 DEF Refused
  <2> QED BY <2>1, <2>2, <2>3
<1>2. CASE r.teacher \notin Seated(Manual(w))
  <2> DEFINE n == Cardinality(Required(w))
             rs == RequiredSeq(w)
             sugo == FreeSeats(w, "SUGO")
  <2>1. r \in Required(w)
    BY <1>2 DEF Required
  <2>2. PICK i \in DOMAIN rs : rs[i] = r
    BY <2>1, RequiredSorted, Zenon DEF Sorted
  <2>3. n \in Nat /\ DOMAIN rs = 1..n /\ \A j \in 1..n : Queue(w)[j] = rs[j].teacher
    BY QueueIs
  <2>4. DOMAIN Queue(w) = 1..(n + Cardinality(Pool(w))) /\ Cardinality(Pool(w)) \in Nat
    BY QueueIs
  <2>5. DOMAIN sugo = 1..Len(sugo) /\ Len(sugo) \in Nat /\ n <= Len(sugo)
    BY FreeSeatsOnce, RequiredFit
  <2> HIDE DEF n, rs
  <2>6. i \in DOMAIN sugo \intersect DOMAIN Queue(w)
    BY <2>3, <2>4, <2>5
  <2>7. Seat(w, "SUGO", sugo[i], Queue(w)[i], "AUTO", at) \in Decision(w, at)
    BY <2>6 DEF Decision
  <2>8. Queue(w)[i] = r.teacher
    BY <2>2, <2>3
  <2> QED BY <2>7, <2>8 DEF Seat
<1> QED BY <1>1, <1>2

\* Nobody the rotation passed over comes before one it seated.
LEMMA RotationIsFair ==
  ASSUME SeatInv, NEW w \in Weeks, ~Refused(w), NEW at, NEW s \in Decision(w, at),
         NEW t \in Teachers, Eligible(w, t), t \notin Seated(Decision(w, at) \union Manual(w)),
         ~\E r \in Previous(w) : r.teacher = s.teacher
  PROVE  RotatesBefore(s.teacher, t)
<1> DEFINE n == Cardinality(Required(w))
           m == Cardinality(Pool(w))
           rs == RequiredSeq(w)
           b == PoolSeq(w)
           queue == Queue(w)
<1>1. /\ n \in Nat /\ m \in Nat
      /\ rs \in [1..n -> Required(w)] /\ b \in [1..m -> Pool(w)]
      /\ DOMAIN queue = 1..(n + m)
      /\ \A i \in 1..n : queue[i] = rs[i].teacher
      /\ \A i \in 1..m : queue[n + i] = b[i]
  BY QueueIs
<1>2. PICK type \in Types, i \in Nat, k \in Nat : Fills(w, at, s, type, i, k)
  BY DecisionFills
<1>3. s.teacher = queue[k] /\ k \in 1..(n + m)
  BY <1>1, <1>2 DEF Fills, Seat
<1>4. ~(k <= n)
  <2> SUFFICES ASSUME k <= n PROVE FALSE
    OBVIOUS
  <2>1. k \in 1..n
    BY <1>1, <1>3
  <2>2. rs[k] \in Required(w) /\ rs[k].teacher = s.teacher
    BY <1>1, <1>3, <2>1
  <2> QED BY <2>2 DEF Required
<1>5. t \in Pool(w)
  <2>1. t \notin Seated(Manual(w)) /\ t \notin Seated(Decision(w, at))
    BY DEF Seated
  <2>2. \A r \in Required(w) : \E q \in Decision(w, at) \union Manual(w) : q.teacher = r.teacher
    BY ContinuesAsSugo DEF Required
  <2>3. t \notin Seated(Required(w))
    BY <2>2 DEF Seated
  <2> QED BY <2>1, <2>3 DEF Pool
<1>6. PICK j \in DOMAIN b : b[j] = t
  BY <1>5, PoolSorted, Zenon DEF Sorted
<1> HIDE DEF n, m, rs, b, queue
<1>7. j \in 1..m /\ k - n \in 1..m /\ n + (k - n) = k
  BY <1>1, <1>3, <1>4, <1>6
<1>8. b[k - n] = s.teacher
  BY <1>1, <1>3, <1>7
<1>9. ~(n + j <= k)
  <2> SUFFICES ASSUME n + j <= k PROVE FALSE
    OBVIOUS
  <2>1. n + j \in Nat /\ 0 < n + j
    BY <1>1, <1>7
  <2>2. \E q \in Decision(w, at) : q.teacher = queue[n + j]
    BY <1>2, <2>1, AheadIsSeated DEF queue
  <2>3. queue[n + j] = t
    BY <1>1, <1>6, <1>7
  <2> QED BY <2>2, <2>3 DEF Seated
<1>10. k - n < j
  BY <1>1, <1>7, <1>9
<1>11. <<b[k - n], b[j]>> \in {z \in Pool(w) \X Pool(w) : RotatesBefore(z[1], z[2])}
  <2>1. \A x, y \in DOMAIN b : x < y => <<b[x], b[y]>> \in {z \in Pool(w) \X Pool(w) : RotatesBefore(z[1], z[2])}
    BY PoolSorted, Zenon DEF Sorted, b
  <2> QED BY <1>1, <1>7, <1>10, <2>1
<1> QED BY <1>6, <1>8, <1>11

\* Only Decide decides.
LEMMA DecideIsIt ==
  ASSUME SeatInv, [Next]_vars, NEW p \in Requests, Decides(p)
  PROVE  \E w \in Weeks : Decided(p, w)
<1>1. pc[p] = "locked" /\ pc'[p] = "delete"
  BY DEF Decides
<1>2. Decide(p)
  <2>1. ASSUME NEW q \in Requests, NEW c, NEW label, Begin(q, c, label),
               label \in {"lock", "month"}
        PROVE  FALSE
    BY <1>1, <2>1 DEF Begin, SeatInv, RosterInv, Typed
  <2>2. ASSUME NEW q \in Requests, MonthWeek(q) \/ Lock(q) \/ Fail(q) PROVE FALSE
    BY <1>1, <2>2 DEF MonthWeek, Lock, Fail, SeatInv, RosterInv, Typed
  <2>3. ASSUME NEW q \in Requests, DeleteAuto(q) \/ SaveSeat(q) \/ ClearSeat(q) PROVE FALSE
    <3>1. Moves(q)
      BY <2>3, SavesInItsWeek, DoneMoves DEF SeatInv
    <3> QED BY <1>1, <3>1 DEF Moves
  <2>4. ASSUME NEW q \in Requests \ {p}, Decide(q) PROVE FALSE
    BY <1>1, <2>4, DecideDecides, DoneMoves DEF Decide, Decided, Moves, SeatInv
  <2>5. ASSUME UNCHANGED pc PROVE FALSE
    BY <1>1, <2>5
  <2> QED BY <2>1, <2>2, <2>3, <2>4, <2>5
        DEF Next, vars, Generate, Assign, Clear, Month, SetStatus, Change
<1>3. ~Done(p)
  BY <1>1, DoneMoves DEF Moves, SeatInv
<1> QED BY <1>2, <1>3, DecideDecides

\* Who continues is SUGO in the week that is generated, and the rotation passes over nobody
\* who had fewer seats, or as many and all longer ago.
THEOREM RosterRulesAreKept == Spec => RosterRules
<1>1. SeatInv /\ [Next]_vars =>
        [\A p \in Requests : Decides(p) =>
           LET w == call[p].week
               seats == (call')[p].seats \union Manual(w)
           IN /\ \A r \in Previous(w) : Continues(w, r) =>
                   \E s \in seats : s.teacher = r.teacher /\ s.type = "SUGO"
              /\ \A s \in (call')[p].seats : \A t \in Teachers :
                   Eligible(w, t) /\ t \notin Seated(seats) =>
                     \/ \E r \in Previous(w) : r.teacher = s.teacher
                     \/ Count(s.teacher) < Count(t)
                     \/ Count(s.teacher) = Count(t) /\ LastSeat(s.teacher) <= LastSeat(t)]_pc
  <2> SUFFICES ASSUME SeatInv, [Next]_vars, pc' # pc, NEW p \in Requests, Decides(p)
               PROVE  LET w == call[p].week
                          seats == call'[p].seats \union Manual(w)
                      IN /\ \A r \in Previous(w) : Continues(w, r) =>
                              \E s \in seats : s.teacher = r.teacher /\ s.type = "SUGO"
                         /\ \A s \in call'[p].seats : \A t \in Teachers :
                              Eligible(w, t) /\ t \notin Seated(seats) =>
                                \/ \E r \in Previous(w) : r.teacher = s.teacher
                                \/ Count(s.teacher) < Count(t)
                                \/ Count(s.teacher) = Count(t) /\ LastSeat(s.teacher) <= LastSeat(t)
    OBVIOUS
  <2>1. \E w \in Weeks : Decided(p, w)
    BY DecideIsIt
  <2>2. PICK w \in Weeks : Decided(p, w)
    BY <2>1
  <2>3. w = call[p].week /\ ~Refused(w) /\ call'[p].seats = Decision(w, clock)
    BY <2>2 DEF Decided
  <2>4. ASSUME NEW s \in Decision(w, clock), NEW t \in Teachers, Eligible(w, t),
               t \notin Seated(Decision(w, clock) \union Manual(w)),
               ~\E r \in Previous(w) : r.teacher = s.teacher
        PROVE  \/ Count(s.teacher) < Count(t)
               \/ Count(s.teacher) = Count(t) /\ LastSeat(s.teacher) <= LastSeat(t)
    <3>1. RotatesBefore(s.teacher, t)
      BY <2>3, <2>4, RotationIsFair
    <3>2. LastSeat(s.teacher) \in Nat /\ LastSeat(t) \in Nat
      BY LastSeatIsNat DEF SeatInv
    <3> QED BY <3>1, <3>2 DEF RotatesBefore
  <2>5. ASSUME NEW r \in Previous(w), Continues(w, r)
        PROVE  \E s \in Decision(w, clock) \union Manual(w) : s.teacher = r.teacher /\ s.type = "SUGO"
    BY <2>3, <2>5, ContinuesAsSugo
  <2> QED BY <2>3, <2>4, <2>5
<1> QED BY <1>1, SeatInvInit, SeatInvNext, PTL DEF Spec, RosterRules
=============================================================================
