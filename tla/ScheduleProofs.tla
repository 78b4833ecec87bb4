---------------------------- MODULE ScheduleProofs ----------------------------
(***************************************************************************)
(* Proofs about the schedule: the life of a week (ScheduleCorrection), for *)
(* every set of users, roles and requests, every time to live and every    *)
(* bound of the clock; and the plans of its generations (Generation), for  *)
(* any number of teachers, dakos, weeks and writes.                        *)
(*                                                                         *)
(* The week: types; the locks a request holds at each of its places        *)
(* (LocksProtectChecks); that no two transactions begin at the same        *)
(* instant; and from these that the gate of ScheduleGate is implemented.   *)
(*                                                                         *)
(* The plans: slots are decided in the order Before (DecidedFirst), so no  *)
(* later decision concerns an earlier slot; and whoever is still free was  *)
(* beaten in each decided slot that suits him (FreeWereBeaten).  The       *)
(* second is what makes EarlierSlotsChooseFirst inductive: the teacher a   *)
(* slot takes is free until then.                                          *)
(*                                                                         *)
(* That a decision has one outcome: slots and the keys of candidates are   *)
(* strict total orders, and of a finite set whoever has the fewest before  *)
(* him has nobody before him (SomeMinimal).                                *)
(***************************************************************************)
EXTENDS ScheduleCorrection, Generation, FiniteSetTheorems, WellFoundedInduction, TLAPS

-----------------------------------------------------------------------------
(* The week: type correctness *)

\* Init establishes the type invariant and every step keeps it.
LEMMA TypeInit == Init => TypeOK
  BY ClockAssumption DEF Init, TypeOK, Statuses, Rows, LockModes, Labels, Idle, Ops,
     StatusOps, LockingOps, BeginOps, WriteOps

\* The audit row of a begin or an end is a row of the table.
LEMMA RowTyped ==
  ASSUME TypeOK, NEW p \in Requests PROVE RowOf(p) \in Rows
  BY DEF TypeOK, RowOf, Rows, CorrectionActions, UnlockAction, WindowRole

LEMMA TypeNext == TypeOK /\ [Next]_vars => TypeOK'
<1> SUFFICES ASSUME TypeOK, [Next]_vars PROVE TypeOK'
  OBVIOUS
<1> USE DEF TypeOK, Labels, Idle, LockModes, Goto, Finish, Acquire, dbVars, callVars
<1>1. ASSUME NEW p \in Requests, NEW o \in Ops, NEW u \in Users, Start(p, o, u)
      PROVE  TypeOK'
  BY <1>1 DEF Start
<1>2. ASSUME NEW p \in Requests, Fail(p) PROVE TypeOK'
  BY <1>2 DEF Fail
<1>3. CASE Tick
  BY <1>3 DEF Tick
<1>4. ASSUME NEW p \in Requests, Step(p) PROVE TypeOK'
  <2>1. CASE ReadStatus(p)
    BY <2>1 DEF ReadStatus
  <2>2. CASE UpdateStatus(p)
    BY <2>2 DEF UpdateStatus
  <2>3. CASE CommitStatus(p)
    <3>1. Target[op[p]] \in Statuses
      BY <2>3 DEF CommitStatus, StatusOps, Target, Statuses
    <3> QED BY <2>3, <3>1 DEF CommitStatus
  <2>4. CASE LockWeek(p)
    BY <2>4 DEF LockWeek
  <2>5. CASE CheckBegin(p)
    BY <2>5 DEF CheckBegin
  <2>6. CASE CheckEnd(p)
    BY <2>6 DEF CheckEnd
  <2>7. CASE CheckGenerate(p)
    BY <2>7 DEF CheckGenerate
  <2>8. CASE CommitCorrection(p)
    <3>1. RowOf(p) \in Rows
      BY RowTyped
    <3> QED BY <2>8, <3>1 DEF CommitCorrection
  <2>9. CASE CommitGeneration(p)
    BY <2>9 DEF CommitGeneration
  <2>10. CASE ReadGateStatus(p)
    BY <2>10 DEF ReadGateStatus
  <2>11. CASE ReadGateGrant(p)
    BY <2>11 DEF ReadGateGrant
  <2>12. CASE WriteRows(p)
    BY <2>12 DEF WriteRows
  <2>13. CASE CommitWrite(p)
    BY <2>13 DEF CommitWrite
  <2> QED
    BY <1>4, <2>1, <2>2, <2>3, <2>4, <2>5, <2>6, <2>7, <2>8, <2>9, <2>10, <2>11,
       <2>12, <2>13 DEF Step
<1>5. CASE UNCHANGED vars
  BY <1>5 DEF vars
<1> QED
  BY <1>1, <1>2, <1>3, <1>4, <1>5 DEF Next

\* The variables keep their types in every behaviour.
THEOREM TypeCorrect == Spec => []TypeOK
  BY TypeInit, TypeNext, PTL DEF Spec

-----------------------------------------------------------------------------
(* The row lock of the week *)

\* Every statement of a request keeps the labels it stands for, and only the
\* requests that are not idle take one.
LEMMA OpsDisjoint ==
  ASSUME NEW o
  PROVE  /\ o \in StatusOps => o \notin LockingOps /\ o \notin WriteOps
         /\ o \in LockingOps => o \notin WriteOps
         /\ o \in BeginOps => o \in LockingOps
         /\ o \in {"END", "GENERATE"} => o \in LockingOps /\ o \notin BeginOps
  BY DEF StatusOps, LockingOps, BeginOps, WriteOps

\* Time alone opens no window: a grant that is active later is active now.
LEMMA WindowsOnlyClose ==
  ASSUME TypeOK, TypeOK', log' = log, clock' \in {clock, clock + 1},
         NEW r \in log, Active(r)'
  PROVE  Active(r)
<1>1. r.at \in Nat /\ clock \in Nat /\ Ttl \in Nat
  BY ClockAssumption DEF TypeOK, Rows
<1>2. Expired(r) => Expired(r)'
  BY <1>1 DEF Expired
<1> QED
  BY <1>2 DEF Active, Newest

\* Hence what a begin checked stays true while the row lock keeps the status
\* and the audit rows.
LEMMA ChecksKept ==
  ASSUME TypeOK, TypeOK', UNCHANGED <<status, log>>, clock' \in {clock, clock + 1},
         NEW o \in BeginOps, MayBegin(o)
  PROVE  MayBegin(o)'
  BY WindowsOnlyClose DEF MayBegin, WindowOpen, WindowRole

\* Two transactions never both write under a lock of the week.
LEMMA WritersExclude ==
  ASSUME LocksCompatible, LocksHeld, NEW p \in Requests, NEW q \in Requests, p # q,
         lock[p] \in {"UPDATE", "NO_KEY_UPDATE"}
  PROVE  lock[q] \notin {"UPDATE", "NO_KEY_UPDATE"}
  BY DEF LocksCompatible, Compatible

\* A request takes only locks that no other request's lock conflicts with.
LEMMA AcquireCompatible ==
  ASSUME TypeOK, LocksCompatible, NEW p \in Requests, NEW m \in LockModes, Acquire(p, m)
  PROVE  LocksCompatible'
  BY DEF TypeOK, LocksCompatible, Compatible, Acquire

LEMMA FinishCompatible ==
  ASSUME TypeOK, LocksCompatible, NEW p \in Requests, NEW s, Finish(p, s)
  PROVE  LocksCompatible'
  BY DEF TypeOK, LocksCompatible, Compatible, Finish

LEMMA LocksInit == Init => LocksProtectChecks
  BY DEF Init, LocksProtectChecks, LocksCompatible, LocksHeld, ChecksHold, Compatible

\* Steps of a request p that leave what is committed alone and whose new label
\* needs nothing new disturb no check of another request.
LEMMA LocksNext ==
  TypeOK /\ TypeOK' /\ LocksProtectChecks /\ [Next]_vars => LocksProtectChecks'
<1> SUFFICES ASSUME TypeOK, TypeOK', LocksCompatible, LocksHeld, ChecksHold, [Next]_vars
             PROVE  LocksCompatible' /\ LocksHeld' /\ ChecksHold'
  BY DEF LocksProtectChecks
<1> USE DEF dbVars, callVars
<1>1. ASSUME NEW p \in Requests, NEW o \in Ops, NEW u \in Users, Start(p, o, u)
      PROVE  LocksCompatible' /\ LocksHeld' /\ ChecksHold'
  <2>1. LocksCompatible'
    BY <1>1 DEF Start, LocksCompatible
  <2>2. LocksHeld'
    BY <1>1 DEF Start, LocksHeld, Goto, TypeOK
  <2>3. ChecksHold'
    <3>1. ASSUME NEW q \in Requests, pc'[q] = "commit"
          PROVE  pc[q] = "commit" /\ op'[q] = op[q]
      BY <1>1, <3>1 DEF Start, Goto, TypeOK
    <3> QED BY <1>1, <3>1, ChecksKept DEF Start, ChecksHold
  <2> QED BY <2>1, <2>2, <2>3
<1>2. ASSUME NEW p \in Requests, Fail(p)
      PROVE  LocksCompatible' /\ LocksHeld' /\ ChecksHold'
  <2>1. LocksCompatible'
    BY <1>2, FinishCompatible DEF Fail
  <2>2. LocksHeld'
    BY <1>2 DEF Fail, LocksHeld, Finish, Goto, TypeOK
  <2>3. ChecksHold'
    BY <1>2, ChecksKept DEF Fail, ChecksHold, Finish, Goto, TypeOK
  <2> QED BY <2>1, <2>2, <2>3
<1>3. CASE Tick
  <2>1. LocksCompatible' /\ LocksHeld'
    BY <1>3 DEF Tick, LocksCompatible, LocksHeld
  <2>2. ChecksHold'
    BY <1>3, ChecksKept DEF Tick, ChecksHold
  <2> QED BY <2>1, <2>2
<1>4. ASSUME NEW p \in Requests, Step(p)
      PROVE  LocksCompatible' /\ LocksHeld' /\ ChecksHold'
  <2>1. CASE ReadStatus(p) \/ ReadGateStatus(p) \/ ReadGateGrant(p)
    <3> USE <2>1 DEF ReadStatus, ReadGateStatus, ReadGateGrant, Goto
    <3>1. LocksCompatible'
      BY DEF LocksCompatible
    <3>2. LocksHeld'
      BY DEF LocksHeld, TypeOK
    <3>3. ChecksHold'
      BY ChecksKept DEF ChecksHold, TypeOK
    <3> QED BY <3>1, <3>2, <3>3
  <2>2. CASE UpdateStatus(p)
    <3> USE <2>2 DEF UpdateStatus, Goto
    <3>1. LocksCompatible'
      BY AcquireCompatible DEF LockModes
    <3>2. LocksHeld'
      BY DEF LocksHeld, TypeOK, Finish, Acquire, StatusOps, LockingOps, BeginOps, WriteOps
    <3>3. ChecksHold'
      BY ChecksKept DEF ChecksHold, TypeOK, Finish, StatusOps, LockingOps, BeginOps, WriteOps
    <3> QED BY <3>1, <3>2, <3>3
  <2>3. CASE CommitStatus(p)
    <3> USE <2>3 DEF CommitStatus, Goto
    <3>1. LocksCompatible'
      BY FinishCompatible
    <3>2. LocksHeld'
      BY DEF LocksHeld, TypeOK, Finish, Acquire, StatusOps, LockingOps, BeginOps, WriteOps
    <3>3. ChecksHold'
      <4>1. \A q \in Requests \ {p} : lock[q] \notin {"UPDATE", "NO_KEY_UPDATE"}
        BY WritersExclude DEF LocksHeld
      <4> QED BY <4>1 DEF ChecksHold, LocksHeld, TypeOK, Finish, LockingOps
    <3> QED BY <3>1, <3>2, <3>3
  <2>4. CASE LockWeek(p)
    <3> USE <2>4 DEF LockWeek, Goto
    <3>1. LocksCompatible'
      BY AcquireCompatible DEF LockModes
    <3>2. LocksHeld'
      BY DEF LocksHeld, TypeOK, Finish, Acquire, StatusOps, LockingOps, BeginOps, WriteOps
    <3>3. ChecksHold'
      BY ChecksKept DEF ChecksHold, TypeOK, Finish, StatusOps, LockingOps, BeginOps, WriteOps
    <3> QED BY <3>1, <3>2, <3>3
  <2>5. CASE CheckBegin(p)
    <3> USE <2>5 DEF CheckBegin, Goto
    <3>1. LocksCompatible'
      BY FinishCompatible DEF LocksCompatible
    <3>2. LocksHeld'
      BY DEF LocksHeld, TypeOK, Finish, Acquire, StatusOps, LockingOps, BeginOps, WriteOps
    <3>3. ChecksHold'
      BY ChecksKept DEF ChecksHold, TypeOK, Finish, StatusOps, LockingOps, BeginOps, WriteOps
    <3> QED BY <3>1, <3>2, <3>3
  <2>6. CASE CheckEnd(p)
    <3> USE <2>6 DEF CheckEnd, Goto
    <3>1. LocksCompatible'
      BY FinishCompatible DEF LocksCompatible
    <3>2. LocksHeld'
      BY DEF LocksHeld, TypeOK, Finish, Acquire, StatusOps, LockingOps, BeginOps, WriteOps
    <3>3. ChecksHold'
      BY ChecksKept DEF ChecksHold, TypeOK, Finish, StatusOps, LockingOps, BeginOps, WriteOps
    <3> QED BY <3>1, <3>2, <3>3
  <2>7. CASE CheckGenerate(p)
    <3> USE <2>7 DEF CheckGenerate, Goto
    <3>1. LocksCompatible'
      BY FinishCompatible DEF LocksCompatible
    <3>2. LocksHeld'
      BY DEF LocksHeld, TypeOK, Finish, Acquire, StatusOps, LockingOps, BeginOps, WriteOps
    <3>3. ChecksHold'
      BY ChecksKept DEF ChecksHold, TypeOK, Finish, StatusOps, LockingOps, BeginOps, WriteOps
    <3> QED BY <3>1, <3>2, <3>3
  <2>8. CASE CommitCorrection(p)
    <3> USE <2>8 DEF CommitCorrection, Goto
    <3>1. LocksCompatible'
      BY FinishCompatible
    <3>2. LocksHeld'
      BY DEF LocksHeld, TypeOK, Finish, Acquire, StatusOps, LockingOps, BeginOps, WriteOps
    <3>3. ChecksHold'
      <4>1. \A q \in Requests \ {p} : lock[q] \notin {"UPDATE", "NO_KEY_UPDATE"}
        BY WritersExclude DEF LocksHeld, LockingOps
      <4> QED BY <4>1 DEF ChecksHold, LocksHeld, TypeOK, Finish, LockingOps
    <3> QED BY <3>1, <3>2, <3>3
  <2>9. CASE CommitGeneration(p)
    <3> USE <2>9 DEF CommitGeneration, Goto
    <3>1. LocksCompatible'
      BY FinishCompatible
    <3>2. LocksHeld'
      BY DEF LocksHeld, TypeOK, Finish, Acquire, StatusOps, LockingOps, BeginOps, WriteOps
    <3>3. ChecksHold'
      BY ChecksKept DEF ChecksHold, TypeOK, Finish, StatusOps, LockingOps, BeginOps, WriteOps
    <3> QED BY <3>1, <3>2, <3>3
  <2>10. CASE WriteRows(p)
    <3> USE <2>10 DEF WriteRows, Goto
    <3>1. LocksCompatible'
      BY AcquireCompatible DEF LockModes, LocksCompatible
    <3>2. LocksHeld'
      BY DEF LocksHeld, TypeOK, Finish, Acquire, StatusOps, LockingOps, BeginOps, WriteOps
    <3>3. ChecksHold'
      BY ChecksKept DEF ChecksHold, TypeOK, Finish, StatusOps, LockingOps, BeginOps, WriteOps
    <3> QED BY <3>1, <3>2, <3>3
  <2>11. CASE CommitWrite(p)
    <3> USE <2>11 DEF CommitWrite, Goto
    <3>1. LocksCompatible'
      BY FinishCompatible
    <3>2. LocksHeld'
      BY DEF LocksHeld, TypeOK, Finish, Acquire, StatusOps, LockingOps, BeginOps, WriteOps
    <3>3. ChecksHold'
      BY ChecksKept DEF ChecksHold, TypeOK, Finish, StatusOps, LockingOps, BeginOps, WriteOps
    <3> QED BY <3>1, <3>2, <3>3
  <2> QED
    BY <1>4, <2>1, <2>2, <2>3, <2>4, <2>5, <2>6, <2>7, <2>8, <2>9,
       <2>10, <2>11 DEF Step
<1>5. CASE UNCHANGED vars
  BY <1>5, ChecksKept DEF vars, LocksCompatible, LocksHeld, ChecksHold
<1> QED
  BY <1>1, <1>2, <1>3, <1>4, <1>5 DEF Next

\* The checks made under the row lock of the week hold until the commit, in every
\* behaviour.
THEOREM LocksProtect == Spec => []LocksProtectChecks
  BY TypeCorrect, LocksInit, LocksNext, PTL DEF Spec

\* Generation keeps its promise against a week finalized at the same moment.
THEOREM GenerationInDraft == Spec => GeneratesInDraft
<1>1. LocksProtectChecks =>
        [\A p \in Requests : Commits(p) /\ op[p] = "GENERATE" => status = "DRAFT"]_vars
  BY DEF LocksProtectChecks, ChecksHold, Commits
<1> QED
  BY <1>1, LocksProtect, PTL DEF GeneratesInDraft

-----------------------------------------------------------------------------
(* The instants of the audit rows *)

LEMMA StampsInit == Init => StampsDistinct
  BY DEF Init, StampsDistinct, Idle

LEMMA StampsNext == TypeOK /\ TypeOK' /\ StampsDistinct /\ [Next]_vars => StampsDistinct'
<1> SUFFICES ASSUME TypeOK, TypeOK', StampsDistinct, [Next]_vars
             PROVE  StampsDistinct'
  OBVIOUS
<1> USE DEF StampsDistinct, TypeOK, Rows, Idle, dbVars, callVars
<1>1. ASSUME NEW p \in Requests, NEW o \in Ops, NEW u \in Users, Start(p, o, u)
      PROVE  StampsDistinct'
  <2> USE <1>1 DEF Start, Goto
  <2>1. \A q \in Requests : start'[q] = IF q = p THEN clock + 1 ELSE start[q]
    OBVIOUS
  <2>2. \A q \in Requests \ {p} : pc'[q] = pc[q]
    OBVIOUS
  <2>3. clock' = clock + 1 /\ log' = log /\ clock \in Nat
    OBVIOUS
  <2>4. /\ \A q \in Requests : start[q] \in Nat
        /\ \A r \in log : r.at \in Nat
    OBVIOUS
  <2> QED
    BY ONLY <2>1, <2>2, <2>3, <2>4, StampsDistinct DEF StampsDistinct
<1>2. CASE Tick
  BY <1>2 DEF Tick
<1>3. ASSUME NEW p \in Requests, CommitCorrection(p)
      PROVE  StampsDistinct'
  <2>1. RowOf(p).at = start[p]
    BY DEF RowOf
  <2> QED
    BY <1>3, <2>1 DEF CommitCorrection, Finish, Goto
\* The other steps write no row and start no transaction.
<1>4. ASSUME UNCHANGED <<log, clock, start>>,
             \A q \in Requests : pc[q] \in Idle => pc'[q] \in Idle
      PROVE  StampsDistinct'
  BY <1>4
<1>5. ASSUME NEW p \in Requests, Step(p), ~CommitCorrection(p)
      PROVE  /\ UNCHANGED <<log, clock, start>>
             /\ \A q \in Requests : pc[q] \in Idle => pc'[q] \in Idle
  BY <1>5 DEF Step, Goto, Finish, ReadStatus, UpdateStatus, CommitStatus, LockWeek,
     CheckBegin, CheckEnd, CheckGenerate, CommitGeneration, ReadGateStatus,
     ReadGateGrant, WriteRows, CommitWrite
<1>6. ASSUME NEW p \in Requests, Fail(p)
      PROVE  StampsDistinct'
  BY <1>4, <1>6 DEF Fail, Finish, Goto
<1>7. CASE UNCHANGED vars
  BY <1>7, <1>4 DEF vars
<1> QED
  BY <1>1, <1>2, <1>3, <1>4, <1>5, <1>6, <1>7 DEF Next

\* "The newest row" names at most one row, in every behaviour.
THEOREM StampsStayDistinct == Spec => []StampsDistinct
  BY TypeCorrect, StampsInit, StampsNext, PTL DEF Spec

-----------------------------------------------------------------------------
(* ScheduleCorrection implements ScheduleGate *)

LEMMA ActiveUnique ==
  ASSUME StampsDistinct, TypeOK, NEW r \in log, NEW s \in log, Active(r), Active(s)
  PROVE  r = s
<1>1. r.at \in Nat /\ s.at \in Nat
  BY DEF TypeOK, Rows
<1>2. r.at = s.at
  BY <1>1 DEF Active, Newest
<1> QED
  BY <1>2 DEF StampsDistinct

\* An active grant is the open window.
LEMMA ActiveIsOpen ==
  StampsDistinct /\ TypeOK => \A r \in log : Active(r) => OpenWindow = Grant(r)
<1> SUFFICES ASSUME StampsDistinct, TypeOK, NEW r \in log, Active(r)
             PROVE  OpenWindow = Grant(r)
  OBVIOUS
<1>1. \A s \in log : Active(s) => s = r
  BY ActiveUnique
<1>2. (CHOOSE s \in log : Active(s)) = r
  BY <1>1
<1> QED
  BY <1>2 DEF OpenWindow, WindowOpen

LEMMA ActiveIsOpenNext ==
  StampsDistinct' /\ TypeOK' => \A r \in log' : Active(r)' => OpenWindow' = Grant(r)'
<1>1. (StampsDistinct /\ TypeOK => \A r \in log : Active(r) => OpenWindow = Grant(r))'
  BY ActiveIsOpen, PTL
<1> QED BY <1>1

LEMMA GrantIsWindow ==
  \A r : Grant(r) # Gate!NoWindow
  BY DEF Grant, Gate!NoWindow

LEMMA OpenIsWindow == (OpenWindow # Gate!NoWindow) <=> WindowOpen
  BY GrantIsWindow DEF OpenWindow, Gate!NoWindow

\* When no row is written, time keeps the window or closes it.
LEMMA TimeCloses ==
  ASSUME TypeOK, TypeOK', StampsDistinct, StampsDistinct', log' = log,
         clock' \in {clock, clock + 1}
  PROVE  \/ OpenWindow' = OpenWindow
         \/ OpenWindow' = Gate!NoWindow /\ OpenWindow # Gate!NoWindow
<1>1. CASE WindowOpen'
  <2>1. PICK r \in log : Active(r)'
    BY <1>1 DEF WindowOpen
  <2>2. Active(r)
    BY <2>1, WindowsOnlyClose
  <2>3. OpenWindow = Grant(r)
    BY <2>2, ActiveIsOpen
  <2>4. OpenWindow' = Grant(r)
    BY <2>1, ActiveIsOpenNext
  <2> QED BY <2>3, <2>4
<1>2. CASE ~WindowOpen'
  BY <1>2, OpenIsWindow DEF OpenWindow, Gate!NoWindow
<1> QED BY <1>1, <1>2

\* The row of a begin opens the window that was asked for, or none at all when the
\* row is older than another or already expired.  The row of an end closes the
\* window or, when it is the older one, leaves it open.
LEMMA RowWritten ==
  ASSUME TypeOK, TypeOK', StampsDistinct, StampsDistinct', ChecksHold,
         NEW p \in Requests, CommitCorrection(p)
  PROVE  \/ OpenWindow' = OpenWindow
         \/ OpenWindow' = Gate!NoWindow /\ OpenWindow # Gate!NoWindow
         \/ /\ OpenWindow = Gate!NoWindow
            /\ status \in Gate!WindowRoles
            /\ OpenWindow' = Gate!Window(actor[p], status)
<1> PICK row : row = RowOf(p)
  OBVIOUS
<1>1. log' = log \union {row} /\ clock' = clock
  BY DEF CommitCorrection
<1>2. \A r \in log : Active(r)' => Active(r)
  BY <1>1 DEF Active, Newest, Expired
<1>3. CASE ~WindowOpen'
  BY <1>3, OpenIsWindow DEF OpenWindow, Gate!NoWindow
<1>4. ASSUME NEW r \in log, Active(r)' PROVE OpenWindow' = OpenWindow
  <2>1. OpenWindow = Grant(r)
    BY <1>2, <1>4, ActiveIsOpen
  <2>2. OpenWindow' = Grant(r)
    BY <1>1, <1>4, ActiveIsOpenNext
  <2> QED BY <2>1, <2>2
<1>5. ASSUME Active(row)', ~\E r \in log : Active(r)'
      PROVE  /\ OpenWindow = Gate!NoWindow
             /\ status \in Gate!WindowRoles
             /\ OpenWindow' = Gate!Window(actor[p], status)
  <2>1. OpenWindow' = Grant(row)
    BY <1>1, <1>5, ActiveIsOpenNext
  <2>2. op[p] \in BeginOps
    BY <1>5 DEF Active, RowOf, CommitCorrection
  <2>3. MayBegin(op[p])
    BY <2>2 DEF ChecksHold, CommitCorrection
  <2>4. Grant(row) = Gate!Window(actor[p], WindowRole(op[p]))
    BY <2>2 DEF Grant, Gate!Window, RowOf, UnlockAction, BeginOps, WindowRole
  <2> QED
    BY <2>1, <2>2, <2>3, <2>4, OpenIsWindow
    DEF MayBegin, WindowRole, Gate!WindowRoles
<1>6. WindowOpen' => \E r \in log \union {row} : Active(r)'
  BY <1>1 DEF WindowOpen
<1> QED
  BY <1>3, <1>4, <1>5, <1>6

LEMMA GateInit == Init => Gate!Init
  BY OpenIsWindow DEF Init, Gate!Init, AdmittedRequests, WindowOpen, OpenWindow,
     Gate!NoWindow

\* Every step is a step of the gate or changes nothing the gate shows.
LEMMA GateNext ==
  /\ TypeOK /\ TypeOK' /\ StampsDistinct /\ StampsDistinct'
  /\ LocksProtectChecks /\ [Next]_vars
  => [Gate!Next]_(Gate!gateVars)
<1> SUFFICES ASSUME TypeOK, TypeOK', StampsDistinct, StampsDistinct', ChecksHold,
                    [Next]_vars
             PROVE  [Gate!Next]_(Gate!gateVars)
  BY DEF LocksProtectChecks
<1> USE DEF dbVars, callVars, Gate!gateVars, Idle
\* Steps in which at most the clock moves.
<1>1. ASSUME UNCHANGED <<status, log, revision, AdmittedRequests>>,
             clock' \in {clock, clock + 1}
      PROVE  [Gate!Next]_(Gate!gateVars)
  BY <1>1, TimeCloses DEF Gate!Next, Gate!Close
\* Steps that write no audit row and take no time.
<1>2. ASSUME UNCHANGED <<log, clock>> PROVE UNCHANGED OpenWindow
  <2>1. UNCHANGED WindowOpen
    BY <1>2 DEF WindowOpen, Active, Newest, Expired
  <2>2. ((OpenWindow # Gate!NoWindow) <=> WindowOpen)'
    BY OpenIsWindow, PTL
  <2> QED
    BY <1>2, <2>1, <2>2, TimeCloses, OpenIsWindow DEF Gate!NoWindow
<1>3. ASSUME NEW p \in Requests, NEW o \in Ops, NEW u \in Users, Start(p, o, u)
      PROVE  [Gate!Next]_(Gate!gateVars)
  <2>1. AdmittedRequests' = AdmittedRequests
    BY <1>3 DEF Start, AdmittedRequests, Goto, TypeOK
  <2> QED BY <1>1, <1>3, <2>1 DEF Start
<1>4. ASSUME NEW p \in Requests, Fail(p)
      PROVE  [Gate!Next]_(Gate!gateVars)
  <2>1. AdmittedRequests' = AdmittedRequests \ {<<p, actor[p]>>}
    BY <1>4 DEF Fail, Finish, AdmittedRequests, Goto, TypeOK
  <2>2. CASE <<p, actor[p]>> \in AdmittedRequests
    BY <1>2, <1>4, <2>1, <2>2 DEF Fail, Gate!Next, Gate!Withdraw, TypeOK
  <2>3. CASE <<p, actor[p]>> \notin AdmittedRequests
    BY <1>1, <1>4, <2>1, <2>3 DEF Fail
  <2> QED BY <2>2, <2>3
<1>5. CASE Tick
  <2>1. AdmittedRequests' = AdmittedRequests
    BY <1>5 DEF Tick, AdmittedRequests
  <2> QED BY <1>1, <1>5, <2>1 DEF Tick
<1>6. ASSUME NEW p \in Requests, Step(p)
      PROVE  [Gate!Next]_(Gate!gateVars)
  <2> USE DEF Goto, Finish
  <2>1. CASE \/ ReadStatus(p) \/ UpdateStatus(p) \/ LockWeek(p)
             \/ CheckBegin(p) \/ CheckEnd(p) \/ CheckGenerate(p)
    <3> USE <2>1 DEF ReadStatus, UpdateStatus, LockWeek, CheckBegin, CheckEnd, CheckGenerate
    <3>1. op[p] \notin WriteOps
      BY DEF TypeOK, StatusOps, LockingOps, BeginOps, WriteOps
    <3>2. AdmittedRequests' = AdmittedRequests
      BY <3>1 DEF AdmittedRequests, TypeOK
    <3> QED BY <1>1, <3>2
  <2>2. CASE CommitStatus(p)
    <3>1. AdmittedRequests' = AdmittedRequests
      BY <2>2 DEF CommitStatus, AdmittedRequests, TypeOK, StatusOps, WriteOps
    <3>2. status' \in Gate!Statuses
      BY <2>2 DEF CommitStatus, StatusOps, Target, Gate!Statuses
    <3> QED BY <1>2, <2>2, <3>1, <3>2 DEF CommitStatus, Gate!Next, Gate!Move
  <2>3. CASE CommitCorrection(p)
    <3>1. AdmittedRequests' = AdmittedRequests
      BY <2>3 DEF CommitCorrection, AdmittedRequests, TypeOK, BeginOps, WriteOps
    <3>2. actor[p] \in Users
      BY DEF TypeOK
    <3> QED
      BY <2>3, <3>1, <3>2, RowWritten DEF CommitCorrection, Gate!Next, Gate!Close, Gate!Open
  <2>4. CASE CommitGeneration(p)
    <3>1. AdmittedRequests' = AdmittedRequests
      BY <2>4 DEF CommitGeneration, AdmittedRequests, TypeOK, WriteOps
    <3>2. status = "DRAFT"
      BY <2>4 DEF CommitGeneration, ChecksHold
    <3> QED
      BY <1>2, <2>4, <3>1, <3>2 DEF CommitGeneration, Gate!Next, Gate!Regenerate
  <2>5. CASE ReadGateStatus(p)
    <3> USE <2>5 DEF ReadGateStatus
    <3>1. CASE status = "DRAFT"
      <4>1. AdmittedRequests' = AdmittedRequests \union {<<p, actor[p]>>}
        BY <3>1 DEF AdmittedRequests, TypeOK
      <4> QED BY <1>2, <3>1, <4>1 DEF Gate!Next, Gate!Admit, TypeOK
    <3>2. CASE status # "DRAFT"
      <4>1. AdmittedRequests' = AdmittedRequests
        BY <3>2 DEF AdmittedRequests, TypeOK
      <4> QED BY <1>1, <4>1
    <3> QED BY <3>1, <3>2
  <2>6. CASE ReadGateGrant(p)
    <3> USE <2>6 DEF ReadGateGrant
    <3>1. CASE HoldsWindow(actor[p])
      <4>1. AdmittedRequests' = AdmittedRequests \union {<<p, actor[p]>>}
        BY <3>1 DEF AdmittedRequests, TypeOK
      <4>2. \E w \in Gate!WindowRoles : OpenWindow = Gate!Window(actor[p], w)
        BY <3>1, ActiveIsOpen DEF HoldsWindow, Grant, Gate!Window, Gate!WindowRoles
      <4> QED BY <1>2, <4>1, <4>2 DEF Gate!Next, Gate!Admit, TypeOK
    <3>2. CASE ~HoldsWindow(actor[p])
      <4>1. AdmittedRequests' = AdmittedRequests
        BY <3>2 DEF AdmittedRequests, TypeOK
      <4> QED BY <1>1, <4>1
    <3> QED BY <3>1, <3>2
  <2>7. CASE WriteRows(p)
    <3>1. AdmittedRequests' = AdmittedRequests
      BY <2>7 DEF WriteRows, AdmittedRequests, TypeOK
    <3> QED BY <1>1, <2>7, <3>1 DEF WriteRows
  <2>8. CASE CommitWrite(p)
    <3> USE <2>8 DEF CommitWrite
    <3>1. <<p, actor[p]>> \in AdmittedRequests /\ AdmittedRequests' = AdmittedRequests \ {<<p, actor[p]>>}
      BY DEF AdmittedRequests, TypeOK
    <3> QED BY <1>2, <3>1 DEF Gate!Next, Gate!Revise, TypeOK
  <2> QED
    BY <1>6, <2>1, <2>2, <2>3, <2>4, <2>5, <2>6, <2>7, <2>8 DEF Step
<1>7. CASE UNCHANGED vars
  <2>1. AdmittedRequests' = AdmittedRequests
    BY <1>7 DEF vars, AdmittedRequests
  <2> QED BY <1>1, <1>7, <2>1 DEF vars
<1> QED
  BY <1>3, <1>4, <1>5, <1>6, <1>7 DEF Next

\* The correction service keeps the promise of ScheduleGate, in every behaviour.
THEOREM GateImplemented == Spec => ImplementsGate
  BY TypeCorrect, StampsStayDistinct, LocksProtect, GateInit, GateNext, PTL
     DEF Spec, ImplementsGate, Gate!Spec

-----------------------------------------------------------------------------
(* The plans: the inductive invariant *)

Finite == IsFiniteSet(rows) /\ IsFiniteSet(plan)

\* Rows of the plan are new rows of this week, by the hard rules, in decided slots.
PlanWellFormed ==
  mode # "NONE" =>
    /\ todo \subseteq SlotsOf(mode)
    /\ \A p \in plan : /\ p.week = week /\ p.source = "AUTO"
                       /\ Slot(p) \in Decided
                       /\ Suits(p.teacher, Slot(p))

DecidedFirst ==
  mode # "NONE" => \A s \in Decided, r \in todo : Before(s, r)

FreeWereBeaten ==
  mode # "NONE" =>
    \A s \in Decided, t \in Teachers :
      (\A p \in plan : p.teacher # t) /\ Suits(t, s) =>
        \E q \in plan : Slot(q) = s /\ Precedes(q.teacher, t, s)

PlanInv ==
  /\ GenerationTyped
  /\ Finite
  /\ Distinct(rows) /\ Distinct(plan)
  /\ PlanWellFormed
  /\ DecidedFirst
  /\ FreeWereBeaten
  /\ EarlierSlotsChooseFirst
  /\ UnservedFirst

-----------------------------------------------------------------------------
(* Lemmas about the order of slots and about what a generation reads *)

LEMMA BeforeAsymmetric ==
  ASSUME GenerationTyped, NEW s \in Dakos \X Types, NEW r \in Dakos \X Types, Before(s, r)
  PROVE  ~Before(r, s)
<1>1. s[1] \in Nat /\ r[1] \in Nat
  BY DakosAssumption
<1>2. Rank(s) \in {1, 2, 3} /\ Rank(r) \in {1, 2, 3}
  BY DEF Rank
<1>3. CASE mode = "AUTO"
  BY <1>1, <1>2, <1>3 DEF Before, PassBefore
<1>4. CASE mode # "AUTO"
  BY <1>1, <1>2, <1>4 DEF Before
<1>. QED BY <1>3, <1>4

LEMMA SlotsTyped ==
  ASSUME GenerationTyped, NEW m
  PROVE  SlotsOf(m) \subseteq Dakos \X Types
BY MastersAssumption DEF GenerationTyped, SlotsOf, MasterData

\* Everything a decision reads, apart from the plan itself.
Context == <<master, calendar, rows>>

LEMMA SameRows ==
  ASSUME UNCHANGED Context
  PROVE  UNCHANGED <<ThisWeek, Handmade, Immovable, Occupied>>
<1>1. UNCHANGED ThisWeek
  BY DEF Context, calendar, ThisWeek
<1>2. UNCHANGED Handmade
  BY <1>1 DEF Handmade
<1>. QED BY <1>1, <1>2 DEF Immovable, Occupied, Slot

LEMMA SameSlots ==
  ASSUME UNCHANGED Context, NEW m
  PROVE  SlotsOf(m)' = SlotsOf(m)
<1>1. \A d : Roster(d)' = Roster(d)
  BY DEF Context, Roster
<1>. QED BY <1>1, SameRows DEF SlotsOf, Context

LEMMA SameOrder ==
  ASSUME UNCHANGED Context, UNCHANGED mode, NEW s, NEW r
  PROVE  Before(s, r)' <=> Before(s, r)
BY DEF Context, Before, PassBefore, Rank

LEMMA SameSuits ==
  ASSUME UNCHANGED Context, UNCHANGED mode, NEW t, NEW s
  PROVE  Suits(t, s)' <=> Suits(t, s)
<1>1. Roster(s[1])' = Roster(s[1])
  BY DEF Context, Roster
<1>2. MayServe(t, s[1])' <=> MayServe(t, s[1])
  BY SameRows DEF Context, calendar, MayServe, Speaks
<1>3. DutyOf(s)' = DutyOf(s)
  BY DEF DutyOf, Rank
<1>. QED BY <1>1, <1>2, <1>3 DEF Suits, Context

LEMMA SamePicks ==
  ASSUME UNCHANGED Context, UNCHANGED mode, NEW t, NEW d
  PROVE  PicksOf(t, d)' = PicksOf(t, d)
BY DEF Context, PicksOf, RowsOf

LEMMA SameKeys ==
  ASSUME UNCHANGED Context, UNCHANGED mode, NEW t, NEW u, NEW s
  PROVE  Precedes(t, u, s)' <=> Precedes(t, u, s)
<1>1. \A v : CandidateKey(v, s)' = CandidateKey(v, s)
  <2>1. \A v : RowsOf(v)' = RowsOf(v)
    BY DEF Context, RowsOf
  <2>2. \A v : LastWeekDakos(v)' = LastWeekDakos(v)
    BY <2>1 DEF Context, calendar, LastWeekDakos
  <2>. QED BY <2>1, <2>2 DEF CandidateKey, Context, Count, Bit, Slot
<1>2. \A v : RotationKey(v, s)' = RotationKey(v, s)
  <2>1. \A v : RowsOf(v)' = RowsOf(v)
    BY DEF Context, RowsOf
  <2>2. \A v : PicksOf(v, s[1])' = PicksOf(v, s[1])
    BY SamePicks
  <2>3. ASSUME NEW v
        PROVE  /\ {r \in PicksOf(v, s[1]) : r.type = s[2]}' = {r \in PicksOf(v, s[1]) : r.type = s[2]}
               /\ {r \in RowsOf(v) : r.dako = s[1]}' = {r \in RowsOf(v) : r.dako = s[1]}
    BY <2>1, <2>2
  <2>4. ASSUME NEW S, NEW T, S = T
        PROVE  Count(S) = Count(T) /\ Latest(S) = Latest(T)
    BY <2>4
  <2>. QED BY <2>2, <2>3, <2>4 DEF RotationKey
<1>. QED BY <1>1, <1>2 DEF Precedes, Smaller

LEMMA SmallerCounts ==
  ASSUME NEW a, NEW b, DOMAIN a = 1..5, DOMAIN b = 1..5,
         a[1] \in Nat, a[2] \in Nat, a[2] > 0, b[1] = 0, b[2] = 0
  PROVE  ~Smaller(a, b)
<1>. SUFFICES ASSUME NEW i \in 1..5, a[i] < b[i], \A j \in 1..(i - 1) : a[j] = b[j]
              PROVE  FALSE
  BY DEF Smaller
<1>1. i # 1 /\ i # 2
  OBVIOUS
<1>2. a[2] = b[2]
  BY <1>1
<1>. QED BY <1>2

\* Never picked at the dako: first in the rotation.
LEMMA UnpickedFirst ==
  ASSUME PlanInv, mode \in DutyModes, NEW t \in Teachers, NEW u \in Teachers, NEW s,
         PicksOf(t, s[1]) # {}, PicksOf(u, s[1]) = {}
  PROVE  ~Precedes(t, u, s)
<1>1. \A v \in {t, u} : IsFiniteSet(PicksOf(v, s[1]))
  BY FS_Subset DEF PlanInv, Finite, PicksOf, RowsOf
<1>2. \A v \in {t, u} : IsFiniteSet({r \in PicksOf(v, s[1]) : r.type = s[2]})
  BY <1>1, FS_Subset
<1>3. /\ Count({r \in PicksOf(t, s[1]) : r.type = s[2]}) \in Nat
      /\ Count(PicksOf(t, s[1])) \in Nat \ {0}
  BY <1>1, <1>2, FS_CardinalityType, FS_EmptySet DEF Count
<1>4. /\ Count({r \in PicksOf(u, s[1]) : r.type = s[2]}) = 0
      /\ Count(PicksOf(u, s[1])) = 0
  <2>1. {r \in PicksOf(u, s[1]) : r.type = s[2]} = {}
    OBVIOUS
  <2>. QED BY <2>1, FS_EmptySet DEF Count
<1>5. /\ DOMAIN RotationKey(t, s) = 1..5 /\ DOMAIN RotationKey(u, s) = 1..5
      /\ RotationKey(t, s)[1] = Count({r \in PicksOf(t, s[1]) : r.type = s[2]})
      /\ RotationKey(t, s)[2] = Count(PicksOf(t, s[1]))
      /\ RotationKey(u, s)[1] = Count({r \in PicksOf(u, s[1]) : r.type = s[2]})
      /\ RotationKey(u, s)[2] = Count(PicksOf(u, s[1]))
  BY DEF RotationKey
<1>6. ~Smaller(RotationKey(t, s), RotationKey(u, s))
  BY <1>3, <1>4, <1>5, SmallerCounts
<1>. QED BY <1>6 DEF Precedes, DutyModes

-----------------------------------------------------------------------------
(* The beginning *)

LEMMA InitInv == InitGeneration => PlanInv
<1>. SUFFICES ASSUME InitGeneration
              PROVE  PlanInv
  OBVIOUS
<1>1. GenerationTyped
  BY MastersAssumption, EncodingsAssumption DEF InitGeneration, GenerationTyped, Modes, DutyModes
<1>2. Finite
  BY FS_EmptySet DEF InitGeneration, Finite
<1>. QED BY <1>1, <1>2
      DEF InitGeneration, PlanInv, Distinct, PlanWellFormed, DecidedFirst, FreeWereBeaten,
          EarlierSlotsChooseFirst, UnservedFirst, DutyModes

LEMMA BeginInv ==
  ASSUME PlanInv, NEW m \in Modes, Begin(m)
  PROVE  PlanInv'
<1>. USE DEF PlanInv
<1>0. UNCHANGED Context /\ mode' = m /\ plan' = {} /\ todo' = SlotsOf(m)
  BY DEF Begin, Context
<1>1. GenerationTyped'
  BY <1>0, SlotsTyped DEF Begin, GenerationTyped, calendar, Modes, DutyModes
<1>2. Finite'
  BY <1>0, FS_EmptySet DEF Finite, Context
<1>3. SlotsOf(mode)' = SlotsOf(m)
  <2>1. SlotsOf(m)' = SlotsOf(m)
    BY <1>0, SameSlots
  <2>2. SlotsOf(mode)' = SlotsOf(m)'
    BY <1>0 DEF SlotsOf
  <2>. QED BY <2>1, <2>2
<1>4. Decided' = {}
  BY <1>0, <1>3 DEF Decided
<1>5. Distinct(rows)' /\ Distinct(plan)'
  BY <1>0 DEF Distinct, Context, Slot
<1>6. PlanWellFormed' /\ DecidedFirst' /\ FreeWereBeaten'
  BY <1>0, <1>3, <1>4 DEF PlanWellFormed, DecidedFirst, FreeWereBeaten
<1>7. EarlierSlotsChooseFirst' /\ UnservedFirst'
  BY <1>0 DEF EarlierSlotsChooseFirst, UnservedFirst
<1>. QED BY <1>1, <1>2, <1>5, <1>6, <1>7

-----------------------------------------------------------------------------
(* A decision *)

\* What both kinds of decision have in common.
LEMMA DecisionFrame ==
  ASSUME PlanInv, NEW s \in todo, Fill(s) \/ LeaveEmpty(s)
  PROVE  /\ UNCHANGED Context /\ UNCHANGED <<mode, writes>>
         /\ mode # "NONE"
         /\ todo' = todo \ {s}
         /\ s \in Dakos \X Types
         /\ Decided \subseteq Dakos \X Types
         /\ s \notin Decided
         /\ Decided' = Decided \union {s}
         /\ SlotsOf(mode)' = SlotsOf(mode)
         /\ \A r \in Decided : Before(r, s) /\ ~Before(s, r)
         /\ ~Before(s, s)
<1>1. UNCHANGED Context /\ UNCHANGED <<mode, writes>> /\ todo' = todo \ {s}
  BY DEF Fill, LeaveEmpty, Context
<1>2. mode # "NONE" /\ s \in Dakos \X Types
  BY DEF PlanInv, GenerationTyped
<1>3. SlotsOf(mode)' = SlotsOf(mode)
  <2>1. \A d : Roster(d)' = Roster(d)
    BY <1>1 DEF Context, Roster
  <2>. QED BY <1>1, <2>1, SameRows DEF SlotsOf, Context
<1>4. todo \subseteq SlotsOf(mode)
  BY <1>2 DEF PlanInv, PlanWellFormed
<1>5. Decided' = Decided \union {s} /\ s \notin Decided
  BY <1>1, <1>3, <1>4 DEF Decided
<1>6. Decided \subseteq Dakos \X Types
  BY SlotsTyped DEF PlanInv, Decided
<1>7. \A r \in Decided : Before(r, s) /\ ~Before(s, r)
  BY <1>2, <1>6, BeforeAsymmetric DEF PlanInv, DecidedFirst
<1>8. ~Before(s, s)
  BY <1>2, BeforeAsymmetric DEF PlanInv
<1>. QED BY <1>1, <1>2, <1>3, <1>5, <1>6, <1>7, <1>8

LEMMA LeaveEmptyInv ==
  ASSUME PlanInv, NEW s \in todo, LeaveEmpty(s)
  PROVE  PlanInv'
<1>. USE DEF PlanInv
<1>0. plan' = plan /\ IsNext(s) /\ Candidates(s) = {}
  BY DEF LeaveEmpty
<1>1. UNCHANGED Context /\ UNCHANGED mode /\ mode # "NONE" /\ todo' = todo \ {s}
  BY DecisionFrame
<1>2. Decided' = Decided \union {s} /\ \A r \in Decided : ~Before(s, r)
  BY DecisionFrame
<1>3. GenerationTyped'
  BY <1>1 DEF LeaveEmpty, GenerationTyped, calendar
<1>4. Finite' /\ Distinct(rows)' /\ Distinct(plan)'
  BY <1>0, <1>1 DEF Finite, Distinct, Context, Slot
<1>5. PlanWellFormed'
  <2>1. todo' \subseteq SlotsOf(mode)'
    BY <1>1, DecisionFrame DEF PlanWellFormed
  <2>2. \A p \in plan : Slot(p) \in Decided' /\ Suits(p.teacher, Slot(p))'
    BY <1>1, <1>2, SameSuits DEF PlanWellFormed
  <2>. QED BY <1>0, <1>1, <2>1, <2>2 DEF PlanWellFormed, Context, calendar, Slot
<1>6. DecidedFirst'
  <2>1. \A r \in Decided', q \in todo' : Before(r, q)
    BY <1>0, <1>1, <1>2 DEF DecidedFirst, IsNext
  <2>. QED BY <1>1, <2>1, SameOrder DEF DecidedFirst
<1>7. FreeWereBeaten'
  <2>. SUFFICES ASSUME NEW r \in Decided', NEW t \in Teachers,
                       \A p \in plan : p.teacher # t, Suits(t, r)'
                PROVE  \E q \in plan : Slot(q) = r /\ Precedes(q.teacher, t, r)'
    BY <1>0 DEF FreeWereBeaten, Slot
  <2>1. Suits(t, r)
    BY <1>1, SameSuits
  <2>2. r # s
    BY <1>0, <2>1 DEF Candidates, Used
  <2>3. \E q \in plan : Slot(q) = r /\ Precedes(q.teacher, t, r)
    BY <1>1, <1>2, <2>1, <2>2 DEF FreeWereBeaten
  <2>. QED BY <1>1, <2>3, SameKeys
<1>8. EarlierSlotsChooseFirst'
  <2>. SUFFICES ASSUME NEW p \in plan, NEW r \in Decided', Before(r, Slot(p))', Suits(p.teacher, r)'
                PROVE  \E q \in plan : Slot(q) = r /\ Precedes(q.teacher, p.teacher, r)'
    BY <1>0 DEF EarlierSlotsChooseFirst, Slot
  <2>1. Before(r, Slot(p)) /\ Suits(p.teacher, r)
    BY <1>1, SameSuits, SameOrder DEF Slot
  <2>2. r # s
    BY <1>1, <1>2, <2>1 DEF PlanWellFormed
  <2>3. \E q \in plan : Slot(q) = r /\ Precedes(q.teacher, p.teacher, r)
    BY <1>1, <1>2, <2>1, <2>2 DEF EarlierSlotsChooseFirst
  <2>. QED BY <1>1, <2>3, SameKeys
<1>9. UnservedFirst'
  <2>. SUFFICES ASSUME mode \in DutyModes, NEW p \in plan, PicksOf(p.teacher, p.dako)' # {},
                       NEW u \in Teachers, Suits(u, Slot(p))', PicksOf(u, p.dako)' = {}
                PROVE  \E q \in plan : q.teacher = u /\ Before(Slot(q), Slot(p))'
    BY <1>0, <1>1 DEF UnservedFirst, Slot
  <2>1. Suits(u, Slot(p)) /\ PicksOf(u, p.dako) = {} /\ PicksOf(p.teacher, p.dako) # {}
    BY <1>1, SameSuits, SamePicks DEF Slot
  <2>2. \E q \in plan : q.teacher = u /\ Before(Slot(q), Slot(p))
    BY <2>1 DEF UnservedFirst
  <2>. QED BY <1>1, <2>2, SameOrder
<1>. QED BY <1>3, <1>4, <1>5, <1>6, <1>7, <1>8, <1>9

\* The slot s goes to t: the row p joins the plan.
LEMMA FillInv ==
  ASSUME PlanInv, NEW s \in todo, Fill(s)
  PROVE  PlanInv'
<1>. USE DEF PlanInv
<1>. PICK t \in Candidates(s) :
       /\ \A u \in Candidates(s) \ {t} : Precedes(t, u, s)
       /\ plan' = plan \union {Row(t, s, "AUTO", IF mode = "AUTO" THEN "NONE" ELSE mode)}
  BY DEF Fill
<1>. DEFINE new == Row(t, s, "AUTO", IF mode = "AUTO" THEN "NONE" ELSE mode)
<1>1. UNCHANGED Context /\ UNCHANGED <<mode, writes>> /\ mode # "NONE" /\ todo' = todo \ {s}
  BY DecisionFrame
<1>2. /\ Decided' = Decided \union {s} /\ s \notin Decided
      /\ \A r \in Decided : Before(r, s) /\ ~Before(s, r)
      /\ ~Before(s, s)
  BY DecisionFrame
<1>3. /\ plan' = plan \union {new}
      /\ new.week = week /\ new.source = "AUTO" /\ Slot(new) = s /\ new.teacher = t
      /\ new.dako = s[1]
  BY DecisionFrame DEF Row, Slot
<1>4. t \in Teachers /\ Suits(t, s) /\ \A p \in plan : p.teacher # t
  BY DEF Candidates, Used
<1>5. \A u \in Teachers \ {t} : Suits(u, s) /\ (\A p \in plan : p.teacher # u) => Precedes(t, u, s)
  BY DEF Candidates, Used
<1>6. IsNext(s)
  BY DEF Fill
<1>. HIDE DEF new
<1>7. GenerationTyped'
  <2>1. new \in Assignments
    BY <1>1, <1>4, DecisionFrame DEF new, Row, Assignments, GenerationTyped, Modes
  <2>. QED BY <1>1, <1>3, <2>1 DEF GenerationTyped, Context, calendar
<1>8. Finite'
  BY <1>1, <1>3, FS_AddElement DEF Finite, Context
<1>9. Distinct(rows)' /\ Distinct(plan)'
  <2>1. \A p \in plan : Slot(p) # Slot(new) /\ p.teacher # new.teacher
    BY <1>1, <1>2, <1>3, <1>4 DEF PlanWellFormed
  <2>. QED BY <1>1, <1>3, <2>1 DEF Distinct, Context, Slot
<1>10. PlanWellFormed'
  <2>1. todo' \subseteq SlotsOf(mode)'
    BY <1>1, DecisionFrame DEF PlanWellFormed
  <2>2. \A p \in plan' : Slot(p) \in Decided' /\ Suits(p.teacher, Slot(p))'
    BY <1>1, <1>2, <1>3, <1>4, SameSuits DEF PlanWellFormed
  <2>. QED BY <1>1, <1>3, <2>1, <2>2 DEF PlanWellFormed, Context, calendar, Slot
<1>11. DecidedFirst'
  <2>1. \A r \in Decided', q \in todo' : Before(r, q)
    BY <1>1, <1>2, <1>6 DEF DecidedFirst, IsNext
  <2>. QED BY <1>1, <2>1, SameOrder DEF DecidedFirst
<1>12. FreeWereBeaten'
  <2>. SUFFICES ASSUME NEW r \in Decided', NEW u \in Teachers,
                       \A p \in plan' : p.teacher # u, Suits(u, r)'
                PROVE  \E q \in plan' : Slot(q) = r /\ Precedes(q.teacher, u, r)'
    BY DEF FreeWereBeaten, Slot
  <2>1. Suits(u, r) /\ u # t /\ \A p \in plan : p.teacher # u
    BY <1>1, <1>3, SameSuits
  <2>2. CASE r = s
    BY <1>1, <1>3, <1>5, <2>1, <2>2, SameKeys
  <2>3. CASE r \in Decided
    <3>1. PICK q \in plan : Slot(q) = r /\ Precedes(q.teacher, u, r)
      BY <1>1, <2>1, <2>3 DEF FreeWereBeaten
    <3>. QED BY <1>1, <1>3, <3>1, SameKeys
  <2>. QED BY <1>2, <2>2, <2>3
<1>13. EarlierSlotsChooseFirst'
  <2>. SUFFICES ASSUME NEW p \in plan', NEW r \in Decided', Before(r, Slot(p))', Suits(p.teacher, r)'
                PROVE  \E q \in plan' : Slot(q) = r /\ Precedes(q.teacher, p.teacher, r)'
    BY DEF EarlierSlotsChooseFirst, Slot
  <2>1. Before(r, Slot(p)) /\ Suits(p.teacher, r)
    BY <1>1, SameSuits, SameOrder DEF Slot
  <2>2. r \in Decided
    BY <1>1, <1>2, <1>3, <2>1 DEF PlanWellFormed
  <2>3. \E q \in plan : Slot(q) = r /\ Precedes(q.teacher, p.teacher, r)
    <3>1. CASE p \in plan
      BY <1>1, <2>1, <2>2, <3>1 DEF EarlierSlotsChooseFirst
    <3>2. CASE p = new
      BY <1>1, <1>3, <1>4, <2>1, <2>2, <3>2 DEF FreeWereBeaten
    <3>. QED BY <1>3, <3>1, <3>2
  <2>. QED BY <1>1, <1>3, <2>3, SameKeys
<1>14. UnservedFirst'
  <2>. SUFFICES ASSUME mode \in DutyModes, NEW p \in plan', PicksOf(p.teacher, p.dako)' # {},
                       NEW u \in Teachers, Suits(u, Slot(p))', PicksOf(u, p.dako)' = {}
                PROVE  \E q \in plan' : q.teacher = u /\ Before(Slot(q), Slot(p))'
    BY <1>1 DEF UnservedFirst, Slot
  <2>1. Suits(u, Slot(p)) /\ PicksOf(u, p.dako) = {} /\ PicksOf(p.teacher, p.dako) # {}
    BY <1>1, SameSuits, SamePicks DEF Slot
  <2>2. \E q \in plan : q.teacher = u /\ Before(Slot(q), Slot(p))
    <3>1. CASE p \in plan
      BY <2>1, <3>1 DEF UnservedFirst
    <3>2. CASE p = new
      <4>1. ~Precedes(t, u, s) /\ u # t
        BY <1>3, <1>4, <2>1, <3>2, UnpickedFirst
      <4>2. PICK q \in plan : q.teacher = u
        BY <1>3, <1>5, <2>1, <3>2, <4>1
      <4>. QED BY <1>1, <1>2, <1>3, <3>2, <4>2 DEF PlanWellFormed
    <3>. QED BY <1>3, <3>1, <3>2
  <2>. QED BY <1>1, <1>3, <2>2, SameOrder
<1>. QED BY <1>7, <1>8, <1>9, <1>10, <1>11, <1>12, <1>13, <1>14

-----------------------------------------------------------------------------
(* The other steps leave no generation behind, or find none. *)

LEMMA NoGeneration ==
  ASSUME mode' = "NONE", plan' = {}
  PROVE  /\ PlanWellFormed' /\ DecidedFirst' /\ FreeWereBeaten'
         /\ EarlierSlotsChooseFirst' /\ UnservedFirst' /\ Distinct(plan)'
BY DEF PlanWellFormed, DecidedFirst, FreeWereBeaten, EarlierSlotsChooseFirst, UnservedFirst,
       DutyModes, Distinct

LEMMA SaveInv ==
  ASSUME PlanInv, Save
  PROVE  PlanInv'
<1>. USE DEF PlanInv
<1>0. mode' = "NONE" /\ plan' = {} /\ todo' = {} /\ mode # "NONE"
  BY DEF Save
<1>1. CASE rows' = rows /\ writes' = writes
  <2>1. GenerationTyped'
    BY <1>0, <1>1 DEF Save, GenerationTyped, calendar
  <2>2. Finite' /\ Distinct(rows)'
    BY <1>0, <1>1, FS_EmptySet DEF Finite, Distinct, Slot
  <2>. QED BY <1>0, <2>1, <2>2, NoGeneration
<1>2. CASE /\ Distinct(Kept \union Inserted)
           /\ rows' = (rows \ Replaced) \union Inserted
           /\ writes' = writes + 1
  <2>1. Inserted \subseteq plan
    BY DEF Inserted
  <2>2. GenerationTyped'
    BY <1>0, <1>2, <2>1 DEF Save, GenerationTyped, calendar
  <2>3. Finite'
    BY <1>0, <1>2, <2>1, FS_EmptySet, FS_Subset, FS_Union DEF Finite
  <2>4. Distinct(rows)'
    <3>. SUFFICES ASSUME NEW p \in rows', NEW q \in rows', p # q, p.week = q.week
                  PROVE  Slot(p) # Slot(q) /\ p.teacher # q.teacher
      BY DEF Distinct, Slot
    <3>1. CASE p.week = week
      <4>1. {p, q} \subseteq Kept \union Inserted
        BY <1>2, <3>1 DEF Kept, ThisWeek
      <4>. QED BY <1>2, <4>1 DEF Distinct
    <3>2. CASE p.week # week
      <4>1. {p, q} \subseteq rows
        BY <1>0, <1>2, <2>1, <3>2 DEF PlanWellFormed
      <4>. QED BY <4>1 DEF Distinct
    <3>. QED BY <3>1, <3>2
  <2>. QED BY <1>0, <2>2, <2>3, <2>4, NoGeneration
<1>. QED BY <1>1, <1>2 DEF Save

LEMMA WriteInv ==
  ASSUME PlanInv, NEW new, Write(new), new \subseteq Assignments, IsFiniteSet(new),
         availability' \in [Teachers -> Encoded]
  PROVE  PlanInv'
<1>. USE DEF PlanInv
<1>0. mode' = "NONE" /\ plan' = {} /\ todo' = {} /\ rows' = new
  BY DEF Write, GenerationTyped, engine
<1>1. GenerationTyped'
  BY <1>0 DEF Write, GenerationTyped
<1>2. Finite'
  BY <1>0, FS_EmptySet DEF Finite
<1>3. Distinct(rows)'
  BY <1>0 DEF Write, Distinct, Slot
<1>. QED BY <1>0, <1>1, <1>2, <1>3, NoGeneration

LEMMA EditInv ==
  ASSUME PlanInv, Edit
  PROVE  PlanInv'
<1>. USE DEF PlanInv
<1>1. \A r \in ThisWeek : r \in rows /\ r \in Assignments
  BY DEF ThisWeek, GenerationTyped
<1>2. \A r : (rows \ {r}) \subseteq Assignments /\ IsFiniteSet(rows \ {r})
  BY FS_RemoveElement DEF GenerationTyped, Finite
<1>3. \A r, q : q \in Assignments => /\ ((rows \ {r}) \union {q}) \subseteq Assignments
                            /\ IsFiniteSet((rows \ {r}) \union {q})
  BY <1>2, FS_AddElement
<1>4. ASSUME NEW t \in Teachers, NEW s \in Dakos \X Types, Place(t, s)
      PROVE  PlanInv'
  <2>. DEFINE new == Row(t, s, "MANUAL", "NONE")
  <2>1. new \in Assignments
    BY DEF Row, Assignments, GenerationTyped
  <2>2. rows \union {new} \subseteq Assignments /\ IsFiniteSet(rows \union {new})
    BY <2>1, FS_AddElement DEF GenerationTyped, Finite
  <2>3. availability' \in [Teachers -> Encoded] /\ Write(rows \union {new})
    BY <1>4 DEF Place, GenerationTyped
  <2>. QED BY <2>2, <2>3, WriteInv
<1>5. ASSUME NEW t \in Teachers, MarkAbsent(t)
      PROVE  availability' \in [Teachers -> Encoded]
  BY <1>5 DEF MarkAbsent, GenerationTyped, Encoded
<1>6. ASSUME NEW r \in ThisWeek, Clear(r) \/ ClearAbsent(r)
      PROVE  PlanInv'
  <2>1. r.teacher \in Teachers
    BY <1>1 DEF Assignments
  <2>2. availability' \in [Teachers -> Encoded] /\ Write(rows \ {r})
    BY <1>5, <1>6, <2>1 DEF Clear, ClearAbsent, GenerationTyped
  <2>. QED BY <1>2, <2>2, WriteInv
<1>7. ASSUME NEW r \in ThisWeek, NEW t \in Teachers, NEW ty \in Types,
             Change(r, t, ty) \/ Retype(r, ty) \/ Replace(r, t)
      PROVE  PlanInv'
  <2>1. r.teacher \in Teachers /\ r.type \in Types
    BY <1>1 DEF Assignments
  <2>2. \A u \in Teachers, tz \in Types : Given(r, u, tz) \in Assignments
    BY <1>1 DEF Assignments, Given
  <2>3. /\ availability' \in [Teachers -> Encoded]
        /\ \E u \in Teachers, tz \in Types : Write((rows \ {r}) \union {Given(r, u, tz)})
    BY <1>5, <1>7, <2>1 DEF Change, Retype, Replace, GenerationTyped
  <2>. QED BY <1>3, <2>2, <2>3, WriteInv
<1>8. ASSUME NEW r \in ThisWeek, NEW ty \in Types, Retype(r, ty)
      PROVE  PlanInv'
  <2>1. r.teacher \in Teachers
    BY <1>1 DEF Assignments
  <2>. QED BY <1>7, <1>8, <2>1
<1>9. ASSUME NEW r \in ThisWeek, NEW t \in Teachers, Replace(r, t)
      PROVE  PlanInv'
  <2>1. r.type \in Types
    BY <1>1 DEF Assignments
  <2>. QED BY <1>7, <1>9, <2>1
<1>. QED BY <1>4, <1>6, <1>7, <1>8, <1>9 DEF Edit

LEMMA NextWeekInv ==
  ASSUME PlanInv, NextWeek
  PROVE  PlanInv'
<1>. USE DEF PlanInv
<1>0. mode' = "NONE" /\ plan' = {} /\ todo' = {} /\ rows' = rows
  BY DEF NextWeek, GenerationTyped, engine
<1>1. GenerationTyped'
  BY <1>0, EncodingsAssumption DEF NextWeek, GenerationTyped
<1>2. Finite' /\ Distinct(rows)'
  BY <1>0, FS_EmptySet DEF Finite, Distinct, Slot
<1>. QED BY <1>0, <1>1, <1>2, NoGeneration

LEMMA StutterInv ==
  ASSUME PlanInv, UNCHANGED generationVars
  PROVE  PlanInv'
<1>. USE DEF PlanInv
<1>1. UNCHANGED Context /\ UNCHANGED <<mode, todo, plan, writes>>
  BY DEF generationVars, engine, Context
<1>2. UNCHANGED Decided /\ UNCHANGED SlotsOf(mode)
  <2>1. \A d : Roster(d)' = Roster(d)
    BY <1>1 DEF Context, Roster
  <2>. QED BY <1>1, <2>1, SameRows DEF SlotsOf, Decided, Context
<1>3. GenerationTyped' /\ Finite' /\ Distinct(rows)' /\ Distinct(plan)'
  BY <1>1 DEF GenerationTyped, Finite, Distinct, Slot, Context, calendar
<1>4. PlanWellFormed'
  BY <1>1, <1>2, SameSuits DEF PlanWellFormed, Slot, Context, calendar
<1>5. DecidedFirst'
  BY <1>1, <1>2, SameOrder DEF DecidedFirst
<1>6. FreeWereBeaten'
  BY <1>1, <1>2, SameSuits, SameKeys DEF FreeWereBeaten, Slot
<1>7. EarlierSlotsChooseFirst'
  BY <1>1, <1>2, SameSuits, SameKeys, SameOrder DEF EarlierSlotsChooseFirst, Slot
<1>8. UnservedFirst'
  <2>. SUFFICES ASSUME mode \in DutyModes, NEW p \in plan, PicksOf(p.teacher, p.dako)' # {},
                       NEW u \in Teachers, Suits(u, Slot(p))', PicksOf(u, p.dako)' = {}
                PROVE  \E q \in plan : q.teacher = u /\ Before(Slot(q), Slot(p))'
    BY <1>1 DEF UnservedFirst, Slot
  <2>1. Suits(u, Slot(p)) /\ PicksOf(u, p.dako) = {} /\ PicksOf(p.teacher, p.dako) # {}
    BY <1>1, SameSuits, SamePicks DEF Slot
  <2>2. \E q \in plan : q.teacher = u /\ Before(Slot(q), Slot(p))
    BY <2>1 DEF UnservedFirst
  <2>. QED BY <1>1, <2>2, SameOrder
<1>. QED BY <1>3, <1>4, <1>5, <1>6, <1>7, <1>8

-----------------------------------------------------------------------------
(* The theorems *)

LEMMA InvariantHolds == SpecGeneration => []PlanInv
<1>1. PlanInv /\ [NextGeneration]_generationVars => PlanInv'
  BY BeginInv, FillInv, LeaveEmptyInv, SaveInv, EditInv, NextWeekInv, StutterInv
  DEF NextGeneration, Generate
<1>. QED BY InitInv, <1>1, PTL DEF SpecGeneration

\* The rows, the plan and the availability have their types (the tables of
\* assignments and teacher_availability).
THEOREM GenerationTypesHold == SpecGeneration => []GenerationTyped
BY InvariantHolds, PTL DEF PlanInv

\* The passes of allocate: nobody serves in a slot who was a better choice for
\* an earlier one.
THEOREM EarlierFirst == SpecGeneration => []EarlierSlotsChooseFirst
BY InvariantHolds, PTL DEF PlanInv

\* The rotation of planDutyAssignments: who was picked at a dako before does
\* not serve there again while one who suits the slot and was never picked is left.
THEOREM UnservedBeforeServed == SpecGeneration => []UnservedFirst
BY InvariantHolds, PTL DEF PlanInv

\* generateSchedule inserts every row of the plan of allocate: none collides
\* with a row that stays.
THEOREM PlanIsSavedWhole == SpecGeneration => []PlanFits
<1>1. PlanInv => PlanFits
  <2>. SUFFICES ASSUME PlanInv, mode = "AUTO"
                PROVE  Distinct(Kept \union plan) /\ Inserted = plan
    BY DEF PlanFits
  <2>. USE DEF PlanInv
  <2>1. Kept = Handmade
    BY DEF Kept, Replaced, Handmade, DutyModes
  <2>2. \A p \in plan : /\ p.teacher \notin Immovable /\ Slot(p) \notin Occupied
                         /\ p.week = week
    <3>1. \A p \in plan : p.week = week /\ Slot(p) \in SlotsOf(mode) /\ Suits(p.teacher, Slot(p))
      BY DEF PlanWellFormed, Decided
    <3>. QED BY <3>1 DEF SlotsOf, Suits, MayServe
  <2>3. \A p \in plan, q \in Handmade : Slot(p) # Slot(q) /\ p.teacher # q.teacher
    BY <2>2 DEF Immovable, Occupied
  <2>4. Distinct(Kept \union plan)
    BY <2>1, <2>3 DEF Distinct, Handmade, ThisWeek
  <2>5. Inserted = plan
    BY <2>2 DEF Inserted, Distinct
  <2>. QED BY <2>4, <2>5
<1>. QED BY InvariantHolds, <1>1, PTL


-----------------------------------------------------------------------------
(* Determinism: the order of slots and the keys of teachers have a first *)

LEMMA LeastOfNaturals ==
  ASSUME NEW S, S \subseteq Nat, S # {}
  PROVE  \E n \in S : \A m \in S : n <= m
<1>1. PICK n \in S : \A m \in S : ~(<<m, n>> \in OpToRel(<, Nat))
  BY WFMin, NatLessThanWellFounded, Zenon
<1>2. \A m \in S : ~(m < n)
  BY <1>1 DEF OpToRel
<1>. QED BY <1>2

\* Whoever has the fewest before him has nobody before him.
LEMMA SomeMinimal ==
  ASSUME NEW S, IsFiniteSet(S), S # {}, NEW R,
         \A p \in S : <<p, p>> \notin R,
         \A p, q, r \in S : <<p, q>> \in R /\ <<q, r>> \in R => <<p, r>> \in R
  PROVE  \E p \in S : \A q \in S : <<q, p>> \notin R
<1>. DEFINE Below(p) == {q \in S : <<q, p>> \in R}
            N == {Cardinality(Below(p)) : p \in S}
<1>1. \A p \in S : IsFiniteSet(Below(p)) /\ Cardinality(Below(p)) \in Nat
  BY FS_Subset, FS_CardinalityType
<1>2. N \subseteq Nat /\ N # {}
  <2>1. PICK x \in S : TRUE
    OBVIOUS
  <2>2. Cardinality(Below(x)) \in N
    BY <2>1
  <2>3. ASSUME NEW m \in N PROVE m \in Nat
    <3>1. PICK y \in S : m = Cardinality(Below(y))
      OBVIOUS
    <3>. QED BY <1>1, <3>1
  <2>. QED BY <2>2, <2>3
<1>3. PICK n \in N : \A m \in N : n <= m
  BY <1>2, LeastOfNaturals
<1>4. PICK p \in S : n = Cardinality(Below(p))
  OBVIOUS
<1>5. ASSUME NEW q \in S, <<q, p>> \in R PROVE FALSE
  <2>1. q \in Below(p) /\ Below(q) \subseteq Below(p) \ {q}
    BY <1>5
  <2>2. /\ IsFiniteSet(Below(p) \ {q})
        /\ Cardinality(Below(p) \ {q}) = Cardinality(Below(p)) - 1
    BY <1>1, <2>1, FS_RemoveElement
  <2>3. Cardinality(Below(q)) <= Cardinality(Below(p) \ {q})
    BY <2>1, <2>2, FS_Subset
  <2>4. Cardinality(Below(q)) \in N /\ Cardinality(Below(q)) \in Nat /\ n \in Nat
    <3>1. q \in S /\ p \in S
      OBVIOUS
    <3>2. Cardinality(Below(q)) \in Nat
      BY <1>1
    <3>3. n \in Nat
      BY <1>2
    <3>4. Cardinality(Below(q)) \in N
      BY <3>1
    <3>. QED BY <3>2, <3>3, <3>4
  <2>5. n <= Cardinality(Below(q))
    BY <1>3, <2>4
  <2>. QED BY <1>4, <2>2, <2>3, <2>4, <2>5
<1>. QED BY <1>5

LEMMA BeforeTotal ==
  ASSUME GenerationTyped, NEW s \in Dakos \X Types, NEW r \in Dakos \X Types, s # r
  PROVE  Before(s, r) \/ Before(r, s)
<1>1. s[1] \in Nat /\ r[1] \in Nat
  BY DakosAssumption
<1>2. Rank(s) \in {1, 2, 3} /\ Rank(r) \in {1, 2, 3}
  BY DEF Rank
<1>3. Rank(s) = Rank(r) => s[1] # r[1]
  <2>1. s = <<s[1], s[2]>> /\ r = <<r[1], r[2]>> /\ s[2] \in Types /\ r[2] \in Types
    OBVIOUS
  <2>2. Rank(s) = Rank(r) => s[2] = r[2]
    BY <2>1 DEF Rank, Types
  <2>. QED BY <2>1, <2>2
<1>4. CASE mode = "AUTO"
  BY <1>1, <1>2, <1>3, <1>4 DEF Before, PassBefore
<1>5. CASE mode # "AUTO"
  BY <1>1, <1>2, <1>3, <1>5 DEF Before
<1>. QED BY <1>4, <1>5

LEMMA BeforeTransitive ==
  ASSUME GenerationTyped, NEW s \in Dakos \X Types, NEW r \in Dakos \X Types, NEW q \in Dakos \X Types,
         Before(s, r), Before(r, q)
  PROVE  Before(s, q)
<1>1. s[1] \in Nat /\ r[1] \in Nat /\ q[1] \in Nat
  BY DakosAssumption
<1>2. Rank(s) \in {1, 2, 3} /\ Rank(r) \in {1, 2, 3} /\ Rank(q) \in {1, 2, 3}
  BY DEF Rank
<1>4. CASE mode = "AUTO"
  BY <1>1, <1>2, <1>4 DEF Before, PassBefore
<1>5. CASE mode # "AUTO"
  BY <1>1, <1>2, <1>5 DEF Before
<1>. QED BY <1>4, <1>5

\* Exactly one slot is the next.
LEMMA NextSlot ==
  ASSUME GenerationTyped, todo # {}
  PROVE  \E s \in todo : IsNext(s) /\ \A r \in todo \ {s} : ~IsNext(r)
<1>1. todo \subseteq Dakos \X Types
  BY DEF GenerationTyped
<1>2. IsFiniteSet(todo)
  <2>1. IsFiniteSet(Types)
    <3>1. IsFiniteSet({"SUGO"})
      BY FS_Singleton
    <3>2. IsFiniteSet({"SUGO"} \cup {"RESERBA"})
      BY <3>1, FS_AddElement
    <3>3. IsFiniteSet(({"SUGO"} \cup {"RESERBA"}) \cup {"RESERBA_II"})
      BY <3>2, FS_AddElement
    <3>4. Types = ({"SUGO"} \cup {"RESERBA"}) \cup {"RESERBA_II"}
      BY DEF Types
    <3>. QED BY <3>3, <3>4
  <2>2. IsFiniteSet(Dakos \X Types)
    BY <2>1, DakosAssumption, FS_Product
  <2>. QED BY <1>1, <2>2, FS_Subset
<1>. DEFINE R == {x \in todo \X todo : Before(x[1], x[2])}
<1>3. \A s, r \in todo : <<s, r>> \in R <=> Before(s, r)
  OBVIOUS
<1>. HIDE DEF R
<1>4. \A s \in todo : <<s, s>> \notin R
  BY <1>1, <1>3, BeforeAsymmetric
<1>5. \A s, r, q \in todo : <<s, r>> \in R /\ <<r, q>> \in R => <<s, q>> \in R
  <2>. TAKE s, r, q \in todo
  <2>1. s \in Dakos \X Types /\ r \in Dakos \X Types /\ q \in Dakos \X Types
    BY <1>1
  <2>. QED BY <1>3, <2>1, BeforeTransitive
<1>6. PICK s \in todo : \A r \in todo : <<r, s>> \notin R
  BY <1>2, <1>4, <1>5, SomeMinimal
<1>7. \A r \in todo \ {s} : Before(s, r)
  BY <1>1, <1>3, <1>6, BeforeTotal
<1>8. \A r \in todo \ {s} : ~Before(r, s)
  BY <1>3, <1>6
<1>. QED BY <1>7, <1>8 DEF IsNext

LEMMA SmallerTotal ==
  ASSUME NEW n \in Nat, NEW a \in [1..n -> Nat], NEW b \in [1..n -> Nat],
         NEW k \in 1..n, a[k] # b[k]
  PROVE  Smaller(a, b) \/ Smaller(b, a)
<1>. DEFINE D == {i \in 1..n : a[i] # b[i]}
<1>1. PICK i \in D : \A j \in D : i <= j
  <2>1. D \subseteq Nat /\ D # {}
    OBVIOUS
  <2>. QED BY <2>1, LeastOfNaturals
<1>2. i \in 1..n /\ a[i] \in Nat /\ b[i] \in Nat /\ a[i] # b[i]
  OBVIOUS
<1>3. \A j \in 1..(i - 1) : a[j] = b[j]
  BY <1>1, <1>2
<1>4. DOMAIN a = 1..n /\ DOMAIN b = 1..n /\ (a[i] < b[i] \/ b[i] < a[i])
  BY <1>2
<1>5. CASE a[i] < b[i]
  BY <1>2, <1>3, <1>4, <1>5 DEF Smaller
<1>6. CASE b[i] < a[i]
  BY <1>2, <1>3, <1>4, <1>6 DEF Smaller
<1>. QED BY <1>4, <1>5, <1>6

LEMMA SmallerIrreflexive ==
  ASSUME NEW n \in Nat, NEW a \in [1..n -> Nat]
  PROVE  ~Smaller(a, a)
BY DEF Smaller

LEMMA SmallerTransitive ==
  ASSUME NEW n \in Nat, NEW a \in [1..n -> Nat], NEW b \in [1..n -> Nat], NEW c \in [1..n -> Nat],
         Smaller(a, b), Smaller(b, c)
  PROVE  Smaller(a, c)
<1>1. PICK i \in 1..n : a[i] < b[i] /\ \A j \in 1..(i - 1) : a[j] = b[j]
  BY DEF Smaller
<1>2. PICK k \in 1..n : b[k] < c[k] /\ \A j \in 1..(k - 1) : b[j] = c[j]
  BY DEF Smaller
<1>3. CASE i <= k
  <2>1. a[i] < c[i]
    <3>1. b[i] <= c[i]
      BY <1>2, <1>3
    <3>. QED BY <1>1, <3>1
  <2>2. \A j \in 1..(i - 1) : a[j] = c[j]
    BY <1>1, <1>2, <1>3
  <2>. QED BY <2>1, <2>2 DEF Smaller
<1>4. CASE k < i
  <2>1. a[k] < c[k]
    <3>1. a[k] = b[k]
      BY <1>1, <1>4
    <3>. QED BY <1>2, <3>1
  <2>2. \A j \in 1..(k - 1) : a[j] = c[j]
    BY <1>1, <1>2, <1>4
  <2>. QED BY <2>1, <2>2 DEF Smaller
<1>. QED BY <1>3, <1>4

LEMMA RowsCounted ==
  ASSUME Finite, NEW S, S \subseteq rows
  PROVE  IsFiniteSet(S) /\ Count(S) \in Nat
BY FS_Subset, FS_CardinalityType DEF Finite, Count

LEMMA LatestTyped ==
  ASSUME GenerationTyped, Finite, NEW S, S \subseteq rows
  PROVE  Latest(S) \in Nat
<1>1. CASE S = {}
  BY <1>1 DEF Latest
<1>2. CASE S # {}
  <2>1. \A r \in S : r.at \in Nat
    BY DEF GenerationTyped, Assignments
  <2>. DEFINE R == {x \in S \X S : x[1].at > x[2].at}
  <2>2. \A p, q \in S : <<p, q>> \in R <=> p.at > q.at
    OBVIOUS
  <2>. HIDE DEF R
  <2>3. PICK p \in S : \A q \in S : <<q, p>> \notin R
    <3>1. \A q \in S : <<q, q>> \notin R
      BY <2>1, <2>2
    <3>2. \A q, r, s \in S : <<q, r>> \in R /\ <<r, s>> \in R => <<q, s>> \in R
      BY <2>1, <2>2
    <3>. QED BY <1>2, <3>1, <3>2, RowsCounted, SomeMinimal
  <2>4. ASSUME NEW q \in S PROVE q.at <= p.at
    <3>1. q.at \in Nat /\ p.at \in Nat /\ ~(q.at > p.at)
      BY <2>1, <2>2, <2>3
    <3>. QED BY <3>1
  <2>5. \E n \in {r.at : r \in S} : \A r \in S : r.at <= n
    BY <2>4
  <2>6. Latest(S) \in {r.at : r \in S}
    BY <1>2, <2>5 DEF Latest
  <2>. QED BY <2>1, <2>6
<1>. QED BY <1>1, <1>2

LEMMA CandidateKeyTyped ==
  ASSUME GenerationTyped, Finite, NEW t \in Teachers, NEW s
  PROVE  CandidateKey(t, s) \in [1..8 -> Nat] /\ CandidateKey(t, s)[8] = t
<1>1. RowsOf(t) \subseteq rows
  BY DEF RowsOf
<1>2. /\ Count({r \in RowsOf(t) : Slot(r) = s}) \in Nat
      /\ Count(RowsOf(t)) \in Nat
      /\ Count({r \in RowsOf(t) : r.dako = s[1]}) \in Nat
      /\ Count({r \in RowsOf(t) : r.type = s[2]}) \in Nat
  BY <1>1, RowsCounted
<1>3. \A b : Bit(b) \in Nat
  BY DEF Bit
<1>4. t \in Nat
  BY TeachersAssumption
<1>5. PICK a \in Nat, b \in Nat, c \in Nat, d \in Nat, e \in Nat, f \in Nat, g \in Nat :
        CandidateKey(t, s) = <<a, b, c, d, e, f, g, t>>
  BY <1>2, <1>3 DEF CandidateKey
<1>. QED BY <1>4, <1>5

LEMMA RotationKeyTyped ==
  ASSUME GenerationTyped, Finite, NEW t \in Teachers, NEW s
  PROVE  RotationKey(t, s) \in [1..5 -> Nat] /\ RotationKey(t, s)[5] = t
<1>1. RowsOf(t) \subseteq rows /\ PicksOf(t, s[1]) \subseteq rows
  BY DEF RowsOf, PicksOf
<1>2. /\ Count({r \in PicksOf(t, s[1]) : r.type = s[2]}) \in Nat
      /\ Count(PicksOf(t, s[1])) \in Nat
  BY <1>1, RowsCounted
<1>3. Latest(PicksOf(t, s[1])) \in Nat /\ Latest({r \in RowsOf(t) : r.dako = s[1]}) \in Nat
  BY <1>1, LatestTyped
<1>4. t \in Nat
  BY TeachersAssumption
<1>5. PICK a \in Nat, b \in Nat, c \in Nat, d \in Nat : RotationKey(t, s) = <<a, b, c, d, t>>
  BY <1>2, <1>3 DEF RotationKey
<1>. QED BY <1>4, <1>5

\* Precedes is a strict total order of the teachers, whatever the slot.
LEMMA PrecedesOrders ==
  ASSUME GenerationTyped, Finite, NEW s
  PROVE  /\ \A t \in Teachers : ~Precedes(t, t, s)
         /\ \A t, u \in Teachers : t # u => Precedes(t, u, s) \/ Precedes(u, t, s)
         /\ \A t, u, v \in Teachers : Precedes(t, u, s) /\ Precedes(u, v, s) => Precedes(t, v, s)
<1>1. CASE mode = "AUTO"
  <2>1. \A t, u \in Teachers : Precedes(t, u, s) <=> Smaller(CandidateKey(t, s), CandidateKey(u, s))
    BY <1>1 DEF Precedes
  <2>2. \A t \in Teachers : CandidateKey(t, s) \in [1..8 -> Nat] /\ CandidateKey(t, s)[8] = t
    BY CandidateKeyTyped
  <2>3. \A t \in Teachers : ~Precedes(t, t, s)
    BY <2>1, <2>2, SmallerIrreflexive
  <2>4. ASSUME NEW t \in Teachers, NEW u \in Teachers, t # u
        PROVE  Precedes(t, u, s) \/ Precedes(u, t, s)
    <3>1. 8 \in Nat /\ 8 \in 1..8 /\ CandidateKey(t, s)[8] # CandidateKey(u, s)[8]
      BY <2>2, <2>4
    <3>2. CandidateKey(t, s) \in [1..8 -> Nat] /\ CandidateKey(u, s) \in [1..8 -> Nat]
      BY <2>2
    <3>3. PICK a \in [1..8 -> Nat], b \in [1..8 -> Nat] :
            a = CandidateKey(t, s) /\ b = CandidateKey(u, s)
      BY <3>2
    <3>4. a[8] # b[8]
      BY <3>1, <3>3
    <3>5. Smaller(a, b) \/ Smaller(b, a)
      BY <3>1, <3>4, SmallerTotal
    <3>. QED BY <2>1, <3>3, <3>5
  <2>5. \A t, u, v \in Teachers : Precedes(t, u, s) /\ Precedes(u, v, s) => Precedes(t, v, s)
    BY <2>1, <2>2, SmallerTransitive
  <2>. QED BY <2>3, <2>4, <2>5
<1>2. CASE mode # "AUTO"
  <2>1. \A t, u \in Teachers : Precedes(t, u, s) <=> Smaller(RotationKey(t, s), RotationKey(u, s))
    BY <1>2 DEF Precedes
  <2>2. \A t \in Teachers : RotationKey(t, s) \in [1..5 -> Nat] /\ RotationKey(t, s)[5] = t
    BY RotationKeyTyped
  <2>3. \A t \in Teachers : ~Precedes(t, t, s)
    BY <2>1, <2>2, SmallerIrreflexive
  <2>4. ASSUME NEW t \in Teachers, NEW u \in Teachers, t # u
        PROVE  Precedes(t, u, s) \/ Precedes(u, t, s)
    <3>1. 5 \in Nat /\ 5 \in 1..5 /\ RotationKey(t, s)[5] # RotationKey(u, s)[5]
      BY <2>2, <2>4
    <3>2. Smaller(RotationKey(t, s), RotationKey(u, s)) \/ Smaller(RotationKey(u, s), RotationKey(t, s))
      BY <2>2, <3>1, SmallerTotal
    <3>. QED BY <2>1, <3>2
  <2>5. \A t, u, v \in Teachers : Precedes(t, u, s) /\ Precedes(u, v, s) => Precedes(t, v, s)
    BY <2>1, <2>2, SmallerTransitive
  <2>. QED BY <2>3, <2>4, <2>5
<1>. QED BY <1>1, <1>2

\* Exactly one candidate is the first.
LEMMA FirstCandidate ==
  ASSUME GenerationTyped, Finite, NEW s, Candidates(s) # {}
  PROVE  Cardinality({t \in Candidates(s) : \A u \in Candidates(s) \ {t} : Precedes(t, u, s)}) = 1
<1>1. Candidates(s) \subseteq Teachers /\ IsFiniteSet(Candidates(s))
  BY TeachersAssumption, FS_Subset DEF Candidates
<1>. DEFINE C == Candidates(s)
            R == {x \in C \X C : Precedes(x[1], x[2], s)}
<1>2. \A t, u \in C : <<t, u>> \in R <=> Precedes(t, u, s)
  OBVIOUS
<1>. HIDE DEF C, R
<1>3. PICK t \in C : \A u \in C : <<u, t>> \notin R
  <2>1. \A u \in C : <<u, u>> \notin R
    BY <1>1, <1>2, PrecedesOrders DEF C
  <2>2. \A u, v, w \in C : <<u, v>> \in R /\ <<v, w>> \in R => <<u, w>> \in R
    BY <1>1, <1>2, PrecedesOrders DEF C
  <2>. QED BY <1>1, <2>1, <2>2, SomeMinimal DEF C
<1>4. \A u \in C \ {t} : Precedes(t, u, s) /\ ~Precedes(u, t, s)
  BY <1>1, <1>2, <1>3, PrecedesOrders DEF C
<1>5. {v \in C : \A u \in C \ {v} : Precedes(v, u, s)} = {t}
  BY <1>4
<1>6. Cardinality({t}) = 1
  BY FS_Singleton
<1>. QED BY <1>5, <1>6 DEF C

\* "Generation is fully deterministic" (scheduling/scoring.ts:7): whatever rows there are, one
\* slot is the next to be decided and one of its candidates is the first.
THEOREM DecisionsAreDetermined == SpecGeneration => []Deterministic
<1>1. PlanInv => Deterministic
  BY NextSlot, FirstCandidate DEF PlanInv, Deterministic
<1>. QED BY InvariantHolds, <1>1, PTL
=============================================================================
