------------------------- MODULE ScheduleCorrection -------------------------
(***************************************************************************)
(* The life of one week: its status, the correction windows on it and the  *)
(* requests that change its schedule.  Code: week.service.ts,              *)
(* correction.service.ts, and the gates and locks of assignment.service.ts *)
(* and scheduling.service.ts.                                              *)
(*                                                                         *)
(* Every request handler runs one READ COMMITTED transaction.  A handler   *)
(* is a process; each statement of its transaction is a step, so that the  *)
(* statements of other transactions come between them.  A statement reads  *)
(* what is committed when it runs; the writes of a transaction become      *)
(* visible when it commits.                                                *)
(*                                                                         *)
(* Row locks on weeks are PostgreSQL's: SELECT ... FOR UPDATE takes        *)
(* "UPDATE", an UPDATE of the status takes "NO_KEY_UPDATE", and inserting  *)
(* a row that references the week takes "KEY_SHARE".                       *)
(***************************************************************************)
EXTENDS Naturals, FiniteSets

CONSTANTS
  Users,      \* accounts that call the API
  RolesOf,    \* roleCodes of every account
  Requests,   \* request handlers that may be in flight at the same time
  Ttl,        \* life of a correction window (PNK_SCHEDULE_CORRECTION_TTL_MS)
  MaxClock    \* bound: no transaction starts after this instant

Roles == {"ADMIN", "SUPER_ADMIN", "SCHEDULER", "VIEWER"}

ASSUME RolesAssumption == RolesOf \in [Users -> SUBSET Roles]
ASSUME ClockAssumption == Ttl \in Nat /\ MaxClock \in Nat

VARIABLES
  status,     \* weeks.status, as committed
  log,        \* committed audit rows of the four correction actions
  revision,   \* number of committed changes of the week's assignments
  clock,      \* PostgreSQL's clock
  lock,       \* row lock each request's transaction holds on the week
  pc,         \* next statement of each request
  op,         \* the operation each request performs
  actor,      \* the session's user
  start       \* now() of each transaction: the instant it began

dbVars == <<status, log, revision>>
callVars == <<op, actor, start>>
vars == <<status, log, revision, clock, lock, pc, op, actor, start>>

Statuses == {"DRAFT", "FINALIZED", "PUBLISHED"}

StatusOps  == {"TO_FINALIZED", "TO_PUBLISHED", "TO_DRAFT"}
BeginOps   == {"BEGIN_FINALIZED", "BEGIN_PUBLISHED"}
LockingOps == BeginOps \union {"END", "GENERATE"}
\* CREATE stands for the assignment writes that insert a row referencing the
\* week, CHANGE for those that only update or delete rows.
WriteOps   == {"CREATE", "CHANGE"}
Ops == StatusOps \union LockingOps \union WriteOps

\* The status setWeekStatus is asked for.
Target == [TO_FINALIZED |-> "FINALIZED",
           TO_PUBLISHED |-> "PUBLISHED",
           TO_DRAFT     |-> "DRAFT"]

\* The status in which a correction of this kind may begin.
WindowRole(o) == IF o = "BEGIN_FINALIZED" THEN "FINALIZED" ELSE "PUBLISHED"

-----------------------------------------------------------------------------
(* Audit-derived correction windows *)

UnlockAction(r) == IF r = "FINALIZED" THEN "FINALIZED_SCHEDULE_UNLOCKED"
                                      ELSE "PUBLISHED_SCHEDULE_UNLOCKED"

\* The two END actions are read alike, so one value stands for both.
CorrectionActions ==
  {"FINALIZED_SCHEDULE_UNLOCKED", "PUBLISHED_SCHEDULE_UNLOCKED",
   "CORRECTION_ENDED"}

Rows == [action : CorrectionActions, userId : Users, at : Nat]

\* order by created_at desc limit 1
Newest(r) == r \in log /\ \A s \in log : s.at <= r.at

\* Mutant: the time to live is forgotten.
Expired_Never(r) == FALSE

Expired(r) == clock - r.at >= Ttl

\* The row is the grant activeCorrection() returns.
Active(r) == /\ Newest(r)
             /\ r.action # "CORRECTION_ENDED"
             /\ ~Expired(r)

WindowOpen == \E r \in log : Active(r)

\* Mutant: holderId is not compared with the caller.
HoldsWindow_Anyone(u) == WindowOpen

HoldsWindow(u) == \E r \in log : Active(r) /\ r.userId = u

-----------------------------------------------------------------------------
(* Permissions *)

\* weeks.write, weeks.unlock, assignments.write and scheduling.generate are
\* held by the same three roles.
MayWrite(u) == RolesOf[u] \intersect {"ADMIN", "SUPER_ADMIN", "SCHEDULER"} # {}

MayUnlock(u, r) == IF r = "FINALIZED" THEN MayWrite(u)
                                      ELSE "SUPER_ADMIN" \in RolesOf[u]

MayCall(u, o) ==
  /\ MayWrite(u)
  /\ o \in BeginOps => MayUnlock(u, WindowRole(o))

-----------------------------------------------------------------------------
(* Row locks on the week *)

LockModes == {"NONE", "KEY_SHARE", "NO_KEY_UPDATE", "UPDATE"}

Compatible(m, n) ==
  \/ m = "NONE" \/ n = "NONE"
  \/ m = "KEY_SHARE" /\ n # "UPDATE"
  \/ n = "KEY_SHARE" /\ m # "UPDATE"

Acquire(p, m) ==
  /\ \A q \in Requests \ {p} : Compatible(m, lock[q])
  /\ lock' = [lock EXCEPT ![p] = m]

Goto(p, label) == pc' = [pc EXCEPT ![p] = label]

\* Mutant: the connection goes back to the pool with its transaction open.
Finish_KeepsLock(p, outcome) ==
  /\ Goto(p, outcome)
  /\ UNCHANGED lock

\* COMMIT and ROLLBACK release the row lock.
Finish(p, outcome) ==
  /\ Goto(p, outcome)
  /\ lock' = [lock EXCEPT ![p] = "NONE"]

Idle == {"idle", "committed", "aborted"}
Labels == Idle \union {"open", "grant", "update", "insert", "locked", "commit"}

-----------------------------------------------------------------------------
Init ==
  /\ status = "DRAFT"
  /\ log = {}
  /\ revision = 0
  /\ clock = 0
  /\ lock = [p \in Requests |-> "NONE"]
  /\ pc = [p \in Requests |-> "idle"]
  /\ op = [p \in Requests |-> "CHANGE"]
  /\ actor \in [Requests -> Users]
  /\ start = [p \in Requests |-> 0]

\* The guard of the route admits the caller and withTransaction begins.
Start(p, o, u) ==
  /\ pc[p] \in Idle
  /\ MayCall(u, o)
  /\ clock < MaxClock
  /\ clock' = clock + 1
  /\ start' = [start EXCEPT ![p] = clock + 1]
  /\ op' = [op EXCEPT ![p] = o]
  /\ actor' = [actor EXCEPT ![p] = u]
  /\ Goto(p, "open")
  /\ UNCHANGED <<status, log, revision, lock>>

\* A statement fails (a constraint, a lost connection, a rejected business
\* rule that this module leaves out) and the transaction rolls back.
Fail(p) ==
  /\ pc[p] \notin Idle
  /\ Finish(p, "aborted")
  /\ UNCHANGED <<dbVars, callVars, clock>>

Tick ==
  /\ clock < MaxClock + Ttl
  /\ clock' = clock + 1
  /\ UNCHANGED <<dbVars, callVars, lock, pc>>

-----------------------------------------------------------------------------
(* setWeekStatus: a plain SELECT, the checks, then UPDATE ... WHERE id. *)

Allowed == [DRAFT     |-> {"FINALIZED"},
            FINALIZED |-> {"PUBLISHED", "DRAFT"},
            PUBLISHED |-> {}]

MayMove(p) ==
  /\ Target[op[p]] \in Allowed[status]
  /\ op[p] = "TO_DRAFT" => "ADMIN" \in RolesOf[actor[p]]

ReadStatus(p) ==
  /\ pc[p] = "open"
  /\ op[p] \in StatusOps
  /\ Goto(p, IF MayMove(p) THEN "update" ELSE "aborted")
  /\ UNCHANGED <<dbVars, callVars, clock, lock>>

UpdateStatus(p) ==
  /\ pc[p] = "update"
  /\ Acquire(p, "NO_KEY_UPDATE")
  /\ Goto(p, "commit")
  /\ UNCHANGED <<dbVars, callVars, clock>>

CommitStatus(p) ==
  /\ pc[p] = "commit"
  /\ op[p] \in StatusOps
  /\ status' = Target[op[p]]
  /\ Finish(p, "committed")
  /\ UNCHANGED <<log, revision, callVars, clock>>

-----------------------------------------------------------------------------
(* Transactions that lock the week first: SELECT ... FOR UPDATE. *)

\* Mutant: a plain SELECT, without FOR UPDATE.
LockWeek_PlainSelect(p) ==
  /\ pc[p] = "open"
  /\ op[p] \in LockingOps
  /\ Goto(p, "locked")
  /\ UNCHANGED <<dbVars, callVars, clock, lock>>

LockWeek(p) ==
  /\ pc[p] = "open"
  /\ op[p] \in LockingOps
  /\ Acquire(p, "UPDATE")
  /\ Goto(p, "locked")
  /\ UNCHANGED <<dbVars, callVars, clock>>

MayBegin(o) == status = WindowRole(o) /\ ~WindowOpen

CheckBegin(p) ==
  /\ pc[p] = "locked"
  /\ op[p] \in BeginOps
  /\ \/ /\ MayBegin(op[p])
        /\ Goto(p, "commit")
        /\ UNCHANGED lock
     \/ /\ ~MayBegin(op[p])
        /\ Finish(p, "aborted")
  /\ UNCHANGED <<dbVars, callVars, clock>>

\* The role is the one the grant was opened with, not the week's status.
MayEnd(u) ==
  \E r \in log, role \in {"FINALIZED", "PUBLISHED"} :
    /\ Active(r)
    /\ r.action = UnlockAction(role)
    /\ MayUnlock(u, role)

CheckEnd(p) ==
  /\ pc[p] = "locked"
  /\ op[p] = "END"
  /\ \/ /\ MayEnd(actor[p])
        /\ Goto(p, "commit")
        /\ UNCHANGED lock
     \/ /\ ~MayEnd(actor[p])
        /\ Finish(p, "aborted")
  /\ UNCHANGED <<dbVars, callVars, clock>>

\* Mutant: only the gate of the route, which runs before the transaction, is left.
CheckGenerate_Dropped(p) ==
  /\ pc[p] = "locked"
  /\ op[p] = "GENERATE"
  /\ Goto(p, "commit")
  /\ UNCHANGED <<dbVars, callVars, clock, lock>>

CheckGenerate(p) ==
  /\ pc[p] = "locked"
  /\ op[p] = "GENERATE"
  /\ \/ /\ status = "DRAFT"
        /\ Goto(p, "commit")
        /\ UNCHANGED lock
     \/ /\ status # "DRAFT"
        /\ Finish(p, "aborted")
  /\ UNCHANGED <<dbVars, callVars, clock>>

\* Mutant: the action name of docs/api.md, which activeCorrection does not read.
RowOf_NameOfDocs(p) ==
  [action |-> "FINALIZED_CORRECTION_STARTED", userId |-> actor[p], at |-> start[p]]

\* Mutant: the row is stamped when it is written, so two of them can be equal.
RowOf_WriteTime(p) ==
  [action |-> IF op[p] = "END" THEN "CORRECTION_ENDED"
                               ELSE UnlockAction(WindowRole(op[p])),
   userId |-> actor[p],
   at     |-> clock]

\* audit_logs.created_at defaults to now(): the instant the transaction
\* began, which may be long before it obtained the row lock.
RowOf(p) ==
  [action |-> IF op[p] = "END" THEN "CORRECTION_ENDED"
                               ELSE UnlockAction(WindowRole(op[p])),
   userId |-> actor[p],
   at     |-> start[p]]

CommitCorrection(p) ==
  /\ pc[p] = "commit"
  /\ op[p] \in BeginOps \union {"END"}
  /\ log' = log \union {RowOf(p)}
  /\ Finish(p, "committed")
  /\ UNCHANGED <<status, revision, callVars, clock>>

CommitGeneration(p) ==
  /\ pc[p] = "commit"
  /\ op[p] = "GENERATE"
  /\ revision' = revision + 1
  /\ Finish(p, "committed")
  /\ UNCHANGED <<status, log, callVars, clock>>

-----------------------------------------------------------------------------
(* Assignment writes: assertScheduleCorrectable reads the status, then the *)
(* grant, and locks nothing.                                               *)

ReadGateStatus(p) ==
  /\ pc[p] = "open"
  /\ op[p] \in WriteOps
  /\ Goto(p, IF status = "DRAFT" THEN "insert" ELSE "grant")
  /\ UNCHANGED <<dbVars, callVars, clock, lock>>

ReadGateGrant(p) ==
  /\ pc[p] = "grant"
  /\ Goto(p, IF HoldsWindow(actor[p]) THEN "insert" ELSE "aborted")
  /\ UNCHANGED <<dbVars, callVars, clock, lock>>

\* Only an INSERT checks the foreign key to weeks.
WriteRows(p) ==
  /\ pc[p] = "insert"
  /\ IF op[p] = "CREATE" THEN Acquire(p, "KEY_SHARE") ELSE UNCHANGED lock
  /\ Goto(p, "commit")
  /\ UNCHANGED <<dbVars, callVars, clock>>

CommitWrite(p) ==
  /\ pc[p] = "commit"
  /\ op[p] \in WriteOps
  /\ revision' = revision + 1
  /\ Finish(p, "committed")
  /\ UNCHANGED <<status, log, callVars, clock>>

-----------------------------------------------------------------------------
Step(p) ==
  \/ ReadStatus(p) \/ UpdateStatus(p) \/ CommitStatus(p)
  \/ LockWeek(p)
  \/ CheckBegin(p) \/ CheckEnd(p) \/ CheckGenerate(p)
  \/ CommitCorrection(p) \/ CommitGeneration(p)
  \/ ReadGateStatus(p) \/ ReadGateGrant(p) \/ WriteRows(p) \/ CommitWrite(p)

Next ==
  \/ \E p \in Requests, o \in Ops, u \in Users : Start(p, o, u)
  \/ \E p \in Requests : Step(p) \/ Fail(p)
  \/ Tick

Spec == Init /\ [][Next]_vars

\* PostgreSQL runs every statement it was sent, queues the waiters of a row
\* lock in order, and its clock advances.
Fairness ==
  /\ \A p \in Requests : SF_vars(Step(p))
  /\ WF_vars(Tick)

FairSpec == Spec /\ Fairness

-----------------------------------------------------------------------------
(* Properties *)

\* Every variable holds a value of the kind its column or its handler gives it;
\* in particular a request is only ever at a statement of its handler.
TypeOK ==
  /\ status \in Statuses
  /\ log \in SUBSET Rows
  /\ revision \in Nat
  /\ clock \in Nat
  /\ lock \in [Requests -> LockModes]
  /\ pc \in [Requests -> Labels]
  /\ op \in [Requests -> Ops]
  /\ actor \in [Requests -> Users]
  /\ start \in [Requests -> Nat]
  /\ \A p \in Requests :
       /\ pc[p] = "update" => op[p] \in StatusOps
       /\ pc[p] = "locked" => op[p] \in LockingOps
       /\ pc[p] \in {"grant", "insert"} => op[p] \in WriteOps

Commits(p) == pc[p] = "commit" /\ pc'[p] = "committed"

\* No two transactions hold conflicting locks on the week ...
LocksCompatible ==
  \A p, q \in Requests : p # q => Compatible(lock[p], lock[q])

\* ... the transactions that check and write under a lock do hold it ...
LocksHeld ==
  \A p \in Requests :
    /\ pc[p] \in {"locked", "commit"} /\ op[p] \in LockingOps => lock[p] = "UPDATE"
    /\ pc[p] = "commit" /\ op[p] \in StatusOps => lock[p] = "NO_KEY_UPDATE"

\* ... and what they checked is still true when they commit: a generation's week
\* is DRAFT, the week of a begin is in the status it begins in and has no window.
ChecksHold ==
  \A p \in Requests :
    /\ pc[p] = "commit" /\ op[p] = "GENERATE" => status = "DRAFT"
    /\ pc[p] = "commit" /\ op[p] \in BeginOps => MayBegin(op[p])

\* The row lock of the week protects what beginFinalizedCorrection,
\* beginPublishedCorrection and generateSchedule checked until they commit.
LocksProtectChecks == LocksCompatible /\ LocksHeld /\ ChecksHold

\* A schedule is (re)generated only while the week is DRAFT, even when the week
\* is finalized at the same moment: generateSchedule keeps the row lock from
\* its check to its commit and the UPDATE of setWeekStatus waits for it.
GeneratesInDraft ==
  [][\A p \in Requests : Commits(p) /\ op[p] = "GENERATE" => status = "DRAFT"]_vars

\* The instant of its row orders the grants of a week: no two rows share one, and
\* no transaction in flight will write a row with the instant of another.
StampsDistinct ==
  /\ \A p, q \in Requests :
       p # q /\ pc[p] \notin Idle /\ pc[q] \notin Idle => start[p] # start[q]
  /\ \A r \in log : \A s \in log : r.at = s.at => r = s
  /\ \A r \in log, p \in Requests : pc[p] \notin Idle => start[p] # r.at
  /\ \A p \in Requests : start[p] <= clock
  /\ \A r \in log : r.at <= clock

\* The abstract specification of the gate, under the mapping: the open window
\* is the grant activeCorrection() derives from the audit rows, and a request is
\* admitted from its passing assertScheduleCorrectable until it finishes.
AdmittedRequests ==
  {a \in Requests \X Users : /\ a[2] = actor[a[1]]
                             /\ op[a[1]] \in WriteOps
                             /\ pc[a[1]] \in {"insert", "commit"}}

Grant(r) == [open   |-> TRUE,
             holder |-> r.userId,
             role   |-> IF r.action = UnlockAction("FINALIZED") THEN "FINALIZED"
                                                                 ELSE "PUBLISHED"]

OpenWindow == IF WindowOpen THEN Grant(CHOOSE r \in log : Active(r))
                            ELSE [open |-> FALSE]

Gate == INSTANCE ScheduleGate WITH window <- OpenWindow,
                                   admitted <- AdmittedRequests

\* Whatever the interleaving, the correction service keeps the promise of
\* ScheduleGate.
ImplementsGate == Gate!Spec

\* Every request ends: no waiter of the week's row lock waits for ever.
RequestsFinish == \A p \in Requests : pc[p] \notin Idle ~> pc[p] \in Idle

\* A window nobody ends locks itself again when its time to live has elapsed.
WindowsLapse == \A u \in Users : HoldsWindow(u) ~> ~HoldsWindow(u)

\* What is begun ends: every request, and every window.
Progress == RequestsFinish /\ WindowsLapse
=============================================================================
