------------------------- MODULE UserManagementProofs -------------------------
(***************************************************************************)
(* Proofs about UserManagement, for any number of users, of transactions   *)
(* in flight and of calls: its types, S2 and S3.                           *)
(*                                                                         *)
(* The argument for S2: transactions that have locked their target and     *)
(* picked the administrators' grants cannot have missed each other's grant *)
(* both, so one of two such transactions with an administrator as target   *)
(* waits for the other (OneSawTheOther).  Hence at most one transaction    *)
(* that has counted the other administrators has an administrator as its   *)
(* target, and nothing takes away the one it counted.                      *)
(***************************************************************************)
EXTENDS UserManagement, TLAPS

-----------------------------------------------------------------------------
(* The inductive invariant *)

Past(p) == pc[p] \in {"own", "check", "commit"}
Picked(p) == pc[p] \in {"check", "commit"}

\* Rows a transaction has locked or is going to lock.
Held(p) == wanted[p] \union grantLocks[p]
AdminRowsOf(u) == {g \in GrantsOf(u) : g.role = "ADMIN"}

\* A transaction that has passed the first SELECT holds the row of its target,
\* and no other does.
TargetLocked ==
  \A p \in Requests :
    /\ userLock[p] = IF Past(p) THEN {call[p].target} ELSE {}
    /\ \A q \in Others(p) : userLock[p] \intersect userLock[q] = {}

GrantLocksDisjoint ==
  \A p \in Requests : \A q \in Others(p) : grantLocks[p] \intersect grantLocks[q] = {}

\* It picked every grant of its target, and has them all before it counts.
OwnHeld ==
  \A p \in Requests :
    /\ Past(p) => GrantsOf(call[p].target) \subseteq Held(p)
    /\ Picked(p) => GrantsOf(call[p].target) \subseteq grantLocks[p]
    /\ pc[p] = "commit" => wanted[p] = {}

OneSawTheOther ==
  \A p \in Requests : \A q \in Others(p) :
    Picked(p) /\ Picked(q) => \/ AdminRowsOf(call[p].target) \subseteq Held(q)
                             \/ AdminRowsOf(call[q].target) \subseteq Held(p)

\* What a transaction checked is still true when it commits.
ChecksHold ==
  \A p \in Requests : pc[p] = "commit" =>
    /\ MayTouch(call[p])
    /\ LosesAdmin(call[p]) => OtherAdmin(call[p].target)

SafeguardInv ==
  /\ TypeOK
  /\ TargetLocked
  /\ GrantLocksDisjoint
  /\ OwnHeld
  /\ OneSawTheOther
  /\ ChecksHold
  /\ AdminRemains

-----------------------------------------------------------------------------
(* Type correctness *)

LEMMA TypeInit == Init => TypeOK
  BY CallsAssumption
  DEF Init, TypeOK, Grants, Roles, ManageableRoles, InFlight, RolesOf

LEMMA TypeNext == TypeOK /\ [Next]_vars => TypeOK'
<1> SUFFICES ASSUME TypeOK, [Next]_vars PROVE TypeOK'
  OBVIOUS
<1> USE CallsAssumption DEF TypeOK, InFlight, Grants, Calls, tables
<1>1. ASSUME NEW p \in Requests, Finish(p), UNCHANGED <<tables, calls>> PROVE TypeOK'
  BY <1>1 DEF Finish
<1>2. ASSUME NEW p \in Requests, NEW actor \in Users, NEW target \in Users,
             NEW op \in Operations, Start(p, actor, op, target)
      PROVE TypeOK'
  <2>1. RolesOf(actor) \subseteq Roles
    BY DEF RolesOf
  <2>2. calls + 1 \in 0..MaxCalls
    BY <1>2 DEF Start
  <2> DEFINE c == [actor |-> actor, roles |-> RolesOf(actor), op |-> op,
                   target |-> target, id |-> calls + 1]
  <2>3. c \in Calls
    BY <2>1, <2>2
  <2>4. call' = [call EXCEPT ![p] = c] /\ pc' = [pc EXCEPT ![p] = "user"]
        /\ calls' = calls + 1 /\ UNCHANGED <<tables, userLock, grantLocks, wanted>>
    BY <1>2 DEF Start
  <2> QED BY <2>2, <2>3, <2>4
<1>3. ASSUME NEW p \in Requests, LockUser(p) PROVE TypeOK'
  BY <1>3 DEF LockUser, GrantsOf
<1>4. ASSUME NEW p \in Requests, PickAdminGrants(p) PROVE TypeOK'
  BY <1>4 DEF PickAdminGrants, AdminGrantsBut
<1>5. ASSUME NEW p \in Requests, NEW g \in wanted[p], LockGrant(p, g) PROVE TypeOK'
  BY <1>5 DEF LockGrant
<1>6. ASSUME NEW p \in Requests, Check(p) PROVE TypeOK'
  BY <1>6 DEF Check, Finish
<1>7. ASSUME NEW p \in Requests, CommitRole(p) PROVE TypeOK'
  <2>1. call[p] \in Calls /\ call[p].op \in RoleChanges
    BY <1>7 DEF CommitRole
  <2>2. NewRole[call[p].op] \in ManageableRoles
    BY <2>1 DEF RoleChanges, NewRole, ManageableRoles
  <2>3. NewGrant(call[p]) \in Grants
    BY <2>1, <2>2 DEF NewGrant, Roles
  <2>4. grants' \subseteq Grants
    BY <1>7, <2>3 DEF CommitRole, Granted
  <2>5. ASSUME NEW g \in grants', NEW h \in grants', g.user = h.user,
               {g.role, h.role} \subseteq ManageableRoles
        PROVE g = h
    BY <1>7, <2>5 DEF CommitRole, Granted, GrantsOf, NewGrant
  <2> QED BY <1>7, <2>4, <2>5 DEF CommitRole, Finish
<1>8. ASSUME NEW p \in Requests, CommitStatus(p) PROVE TypeOK'
  BY <1>8 DEF CommitStatus, Finish
<1>9. ASSUME NEW u \in Users, Provision(u) PROVE TypeOK'
  <2>1. [user |-> u, role |-> "SUPER_ADMIN", id |-> 0] \in Grants
    BY DEF Roles
  <2>2. "SUPER_ADMIN" \notin ManageableRoles
    BY DEF ManageableRoles
  <2> QED BY <1>9, <2>1, <2>2 DEF Provision
<1>10. CASE UNCHANGED vars
  BY <1>10 DEF vars
<1> QED BY <1>1, <1>2, <1>3, <1>4, <1>5, <1>6, <1>7, <1>8, <1>9, <1>10
        DEF Next, Step, Fail

\* Every variable keeps its type, and nobody gets two manageable roles.
THEOREM AccountsTyped == Spec => []TypeOK
  BY TypeInit, TypeNext, PTL DEF Spec

-----------------------------------------------------------------------------
(* The row of the target *)

\* What a request in flight was asked for is typed.
LEMMA CallTyped ==
  ASSUME TypeOK, NEW p \in Requests, InFlight(p)
  PROVE  /\ call[p] \in Calls
         /\ call[p].target \in Users
         /\ call[p].op \in Operations
  BY DEF TypeOK, Calls

LEMMA TargetLockedNext ==
  ASSUME TypeOK, TargetLocked, [Next]_vars PROVE TargetLocked'
<1> USE DEF TargetLocked, TypeOK, Past, Others
<1>1. ASSUME NEW p \in Requests, Finish(p) PROVE TargetLocked'
  BY <1>1 DEF Finish
<1>2. ASSUME NEW p \in Requests, NEW actor \in Users, NEW target \in Users,
             NEW op \in Operations, Start(p, actor, op, target)
      PROVE TargetLocked'
  <2>1. pc[p] = "idle" /\ pc' = [pc EXCEPT ![p] = "user"] /\ userLock' = userLock
        /\ \A q \in Others(p) : call'[q] = call[q]
    BY <1>2 DEF Start, InFlight
  <2> QED BY <2>1
<1>3. ASSUME NEW p \in Requests, LockUser(p) PROVE TargetLocked'
  <2> DEFINE t == call[p].target
  <2>1. pc' = [pc EXCEPT ![p] = "own"] /\ userLock' = [userLock EXCEPT ![p] = {t}]
        /\ call' = call /\ \A q \in Others(p) : t \notin userLock[q]
    BY <1>3 DEF LockUser
  <2>2. ASSUME NEW q \in Requests
        PROVE userLock'[q] = IF Past(q)' THEN {call[q].target} ELSE {}
    BY <2>1
  <2>3. ASSUME NEW q \in Requests, NEW r \in Others(q)
        PROVE userLock'[q] \intersect userLock'[r] = {}
    BY <2>1
  <2> HIDE DEF t
  <2> QED BY <2>1, <2>2, <2>3
<1>4. ASSUME NEW p \in Requests, PickAdminGrants(p) PROVE TargetLocked'
  BY <1>4 DEF PickAdminGrants
<1>5. ASSUME NEW p \in Requests, NEW g \in wanted[p], LockGrant(p, g) PROVE TargetLocked'
  BY <1>5 DEF LockGrant
<1>6. ASSUME NEW p \in Requests, Check(p) PROVE TargetLocked'
  BY <1>6, <1>1 DEF Check
<1>7. ASSUME NEW u \in Users, Provision(u) PROVE TargetLocked'
  BY <1>7 DEF Provision
<1>8. CASE UNCHANGED vars
  BY <1>8 DEF vars
<1> QED
  BY <1>1, <1>2, <1>3, <1>4, <1>5, <1>6, <1>7, <1>8
  DEF Next, Step, Fail, CommitRole, CommitStatus

\* Hence the grants of a locked target change only by its own transaction.
LEMMA RowsKept ==
  ASSUME TypeOK, TargetLocked, [Next]_vars, NEW p \in Requests, Past(p), Past(p)'
  PROVE  /\ call'[p] = call[p]
         /\ {g \in grants' : g.user = call[p].target} = GrantsOf(call[p].target)
<1> USE DEF TypeOK, Past, Others, GrantsOf
<1>1. ASSUME NEW q \in Requests, CommitRole(q)
      PROVE {g \in grants' : g.user = call[p].target} = GrantsOf(call[p].target)
  <2>1. q # p
    BY <1>1 DEF CommitRole, Finish
  <2>2. call[q].target # call[p].target
    BY <1>1, <2>1 DEF TargetLocked, CommitRole
  <2> QED BY <1>1, <2>2 DEF CommitRole, Granted, NewGrant
<1>2. ASSUME NEW u \in Users, Provision(u)
      PROVE {g \in grants' : g.user = call[p].target} = GrantsOf(call[p].target)
  <2>1. u # call[p].target
    BY <1>2 DEF TargetLocked, Provision
  <2> QED BY <1>2, <2>1 DEF Provision
<1>3. call'[p] = call[p]
  BY DEF Next, Step, Fail, vars, tables, Start, InFlight, LockUser, PickAdminGrants,
         LockGrant, Check, CommitRole, CommitStatus, Provision, Finish
<1>4. grants' = grants \/ (\E q \in Requests : CommitRole(q)) \/ (\E u \in Users : Provision(u))
  BY DEF Next, Step, Fail, vars, tables, Start, LockUser, PickAdminGrants,
         LockGrant, Check, CommitStatus
<1> QED BY <1>1, <1>2, <1>3, <1>4

-----------------------------------------------------------------------------
(* The locked grants *)

LEMMA GrantLocksNext ==
  ASSUME TypeOK, GrantLocksDisjoint, [Next]_vars PROVE GrantLocksDisjoint'
<1> USE DEF GrantLocksDisjoint, TypeOK, Others
<1>1. ASSUME NEW p \in Requests, Finish(p) PROVE GrantLocksDisjoint'
  BY <1>1 DEF Finish
<1>2. ASSUME NEW p \in Requests, NEW g \in wanted[p], LockGrant(p, g)
      PROVE GrantLocksDisjoint'
  BY <1>2 DEF LockGrant
<1>3. CASE UNCHANGED grantLocks
  BY <1>3
<1> QED
  BY <1>1, <1>2, <1>3
  DEF Next, Step, Fail, vars, Start, LockUser, PickAdminGrants, Check,
      CommitRole, CommitStatus, Provision

\* What one transaction does to the rows it has locked or is going to lock:
\* it loses none of those that are still in the table, and when it picks the
\* administrators' grants it misses none of another user's.
LEMMA HeldKept ==
  ASSUME TypeOK, [Next]_vars, NEW p \in Requests
  PROVE  /\ Picked(p)' => Past(p)
         /\ Past(p) /\ Past(p)' => Held(p) \intersect grants \intersect grants' \subseteq Held(p)'
         /\ Past(p) /\ Past(p)' => grantLocks[p] \subseteq grantLocks'[p]
         /\ pc[p] = "own" /\ Picked(p)' =>
              /\ wanted[p] = {}
              /\ wanted'[p] = AdminGrantsBut(call[p].target)
              /\ grantLocks' = grantLocks /\ grants' = grants /\ call' = call
              /\ \A q \in Others(p) : pc'[q] = pc[q] /\ wanted'[q] = wanted[q]
<1> USE DEF TypeOK, Past, Picked, Held, Others
<1>1. ASSUME NEW q \in Requests, NEW g \in wanted[q], LockGrant(q, g) PROVE
        /\ Held(p) \intersect grants \subseteq Held(p)'
        /\ grantLocks[p] \subseteq grantLocks'[p]
        /\ pc' = pc
  BY <1>1 DEF LockGrant
<1>2. ASSUME NEW q \in Requests, PickAdminGrants(q) PROVE
        /\ pc[p] \in {"own", "check", "commit"} => Held(p) \subseteq Held(p)'
        /\ grantLocks' = grantLocks /\ grants' = grants /\ call' = call
        /\ p # q => pc'[p] = pc[p] /\ wanted'[p] = wanted[p]
        /\ p = q => wanted[p] = {} /\ wanted'[p] = AdminGrantsBut(call[p].target)
                    /\ \A r \in Others(p) : pc'[r] = pc[r] /\ wanted'[r] = wanted[r]
  BY <1>2 DEF PickAdminGrants, tables
<1>3. ASSUME NEW q \in Requests, LockUser(q) PROVE
        /\ grantLocks' = grantLocks
        /\ p # q => pc'[p] = pc[p] /\ wanted'[p] = wanted[p]
        /\ p = q => pc[p] = "user" /\ pc'[p] = "own"
  BY <1>3 DEF LockUser
<1>4. ASSUME NEW q \in Requests, Finish(q) PROVE
        /\ p # q => pc'[p] = pc[p] /\ wanted'[p] = wanted[p] /\ grantLocks'[p] = grantLocks[p]
        /\ p = q => pc'[p] = "idle"
  BY <1>4 DEF Finish
<1>5. ASSUME NEW q \in Requests, pc[q] = "check", pc' = [pc EXCEPT ![q] = "commit"],
             UNCHANGED <<wanted, grantLocks>>
      PROVE  Held(p)' = Held(p) /\ grantLocks' = grantLocks /\ (pc[p] = "own" => pc'[p] = "own")
  BY <1>5
<1>6. ASSUME NEW q \in Requests, pc[q] = "idle", pc' = [pc EXCEPT ![q] = "user"],
             UNCHANGED <<wanted, grantLocks>>
      PROVE  Held(p)' = Held(p) /\ grantLocks' = grantLocks /\ (pc[p] = "own" => pc'[p] = "own")
  BY <1>6
<1>7. CASE UNCHANGED <<wanted, grantLocks, pc>>
  BY <1>7
<1>8. \/ \E q \in Requests : \E g \in wanted[q] : LockGrant(q, g)
      \/ \E q \in Requests : PickAdminGrants(q) \/ LockUser(q) \/ Finish(q)
      \/ \E q \in Requests : pc[q] = "check" /\ pc' = [pc EXCEPT ![q] = "commit"]
                             /\ UNCHANGED <<wanted, grantLocks>>
      \/ \E q \in Requests : pc[q] = "idle" /\ pc' = [pc EXCEPT ![q] = "user"]
                             /\ UNCHANGED <<wanted, grantLocks>>
      \/ UNCHANGED <<wanted, grantLocks, pc>>
  BY DEF Next, Step, Fail, vars, Start, InFlight, Check, CommitRole, CommitStatus, Provision
<1>9. Picked(p)' => Past(p)
  BY DEF Next, Step, Fail, vars, Start, InFlight, LockUser, PickAdminGrants, LockGrant,
         Check, CommitRole, CommitStatus, Provision, Finish
<1> QED BY <1>1, <1>2, <1>3, <1>4, <1>5, <1>6, <1>7, <1>8, <1>9

LEMMA OwnHeldNext ==
  ASSUME TypeOK, TargetLocked, OwnHeld, [Next]_vars PROVE OwnHeld'
<1> USE DEF OwnHeld
<1> SUFFICES ASSUME NEW p \in Requests
    PROVE /\ Past(p)' => GrantsOf(call[p].target)' \subseteq Held(p)'
          /\ Picked(p)' => GrantsOf(call[p].target)' \subseteq grantLocks'[p]
          /\ pc'[p] = "commit" => wanted'[p] = {}
  OBVIOUS
<1>1. ASSUME Past(p), Past(p)'
      PROVE /\ GrantsOf(call[p].target)' \subseteq Held(p)'
            /\ Picked(p)' => GrantsOf(call[p].target)' \subseteq grantLocks'[p]
  <2> DEFINE rows == {g \in grants' : g.user = call[p].target}
  <2>1. GrantsOf(call[p].target)' = rows /\ rows = GrantsOf(call[p].target)
    BY <1>1, RowsKept DEF GrantsOf
  <2>2. rows \subseteq Held(p) \intersect grants \intersect grants'
    BY <1>1, <2>1 DEF GrantsOf
  <2>3. rows \subseteq Held(p)'
    BY <1>1, <2>2, HeldKept
  <2>4. CASE Picked(p)
    BY <1>1, <2>1, <2>3, <2>4, HeldKept
  <2>5. CASE pc[p] = "own" /\ Picked(p)'
    BY <1>1, <2>1, <2>2, <2>3, <2>5, HeldKept DEF Held
  <2> QED BY <1>1, <2>1, <2>3, <2>4, <2>5 DEF Past, Picked
<1>2. ASSUME ~Past(p), Past(p)' PROVE LockUser(p)
  BY <1>2
  DEF TypeOK, Past, Next, Step, Fail, vars, tables, Start, InFlight, LockUser, PickAdminGrants,
      LockGrant, Check, CommitRole, CommitStatus, Provision, Finish
<1>3. ASSUME LockUser(p)
      PROVE GrantsOf(call[p].target)' \subseteq Held(p)' /\ ~Picked(p)'
  BY <1>3 DEF TypeOK, LockUser, tables, GrantsOf, Held, Picked
<1>4. ASSUME pc'[p] = "commit" PROVE wanted'[p] = {}
  BY <1>4
  DEF TypeOK, Next, Step, Fail, vars, Start, InFlight, LockUser, PickAdminGrants,
      LockGrant, Check, CommitRole, CommitStatus, Provision, Finish
<1> QED BY <1>1, <1>2, <1>3, <1>4 DEF Past, Picked

LEMMA OneSawNext ==
  ASSUME TypeOK, TargetLocked, OneSawTheOther, [Next]_vars PROVE OneSawTheOther'
<1> DEFINE Saw(p, q) == AdminRowsOf(call[q].target) \subseteq Held(p)
<1>1. ASSUME NEW p \in Requests, NEW q \in Others(p), Picked(p), Picked(q),
             Picked(p)', Picked(q)', Saw(p, q)
      PROVE  Saw(p, q)'
  <2>1. q \in Requests /\ Past(p) /\ Past(p)' /\ Past(q) /\ Past(q)'
    BY <1>1 DEF Others, Past, Picked
  <2>2. AdminRowsOf(call[q].target)' = AdminRowsOf(call[q].target)
    BY <2>1, RowsKept DEF AdminRowsOf, GrantsOf
  <2>3. AdminRowsOf(call[q].target) \subseteq grants \intersect grants'
    BY <2>2 DEF AdminRowsOf, GrantsOf
  <2> QED BY <1>1, <2>1, <2>2, <2>3, HeldKept
<1>2. ASSUME NEW p \in Requests, NEW q \in Others(p), pc[p] = "own", Picked(p)', Picked(q)'
      PROVE  Saw(p, q)'
  <2>1. q \in Requests /\ Past(p) /\ Picked(q) /\ Past(q)
    BY <1>2, HeldKept DEF Others, Past, Picked
  <2>2. call[p].target # call[q].target
    BY <2>1, <1>2 DEF TargetLocked
  <2>3. AdminRowsOf(call[q].target) \subseteq AdminGrantsBut(call[p].target)
    BY <2>2 DEF AdminRowsOf, GrantsOf, AdminGrantsBut
  <2>4. wanted'[p] = AdminGrantsBut(call[p].target) /\ grants' = grants /\ call' = call
    BY <1>2, HeldKept
  <2> QED BY <2>3, <2>4 DEF AdminRowsOf, GrantsOf, Held
<1>3. ASSUME NEW p \in Requests, NEW q \in Others(p), Picked(p)', Picked(q)'
      PROVE  Saw(p, q)' \/ Saw(q, p)'
  <2>1. q \in Requests /\ p \in Others(q)
    BY DEF Others
  <2>2. Past(p) /\ Past(q)
    BY <1>3, <2>1, HeldKept
  <2>3. CASE Picked(p) /\ Picked(q)
    <3>1. Saw(p, q) \/ Saw(q, p)
      BY <2>1, <2>3 DEF OneSawTheOther
    <3> QED BY <1>1, <1>3, <2>1, <2>3, <3>1
  <2>4. CASE pc[p] = "own" \/ pc[q] = "own"
    BY <1>2, <1>3, <2>1, <2>4
  <2> QED BY <2>2, <2>3, <2>4 DEF Past, Picked
<1> QED BY <1>3 DEF OneSawTheOther, Picked, Others

-----------------------------------------------------------------------------
(* The safeguards *)

LEMMA RoleRows ==
  ASSUME NEW u, NEW r
  PROVE  /\ r \in RolesOf(u) <=> \E g \in GrantsOf(u) : g.role = r
         /\ r \in RolesOf(u)' <=> \E g \in grants' : g.user = u /\ g.role = r
  BY DEF RolesOf, GrantsOf

\* Two transactions that both take a role or a status away from an
\* administrator are never ready to commit at the same time.
LEMMA OneAtATime ==
  ASSUME GrantLocksDisjoint, OwnHeld, OneSawTheOther,
         NEW p \in Requests, NEW q \in Others(p), pc[p] = "commit", pc[q] = "commit",
         "ADMIN" \in RolesOf(call[p].target), "ADMIN" \in RolesOf(call[q].target)
  PROVE  FALSE
<1>1. q \in Requests /\ p \in Others(q) /\ Picked(p) /\ Picked(q)
  BY DEF Others, Picked
<1>2. PICK g \in GrantsOf(call[p].target) : g.role = "ADMIN"
  BY RoleRows
<1>3. PICK h \in GrantsOf(call[q].target) : h.role = "ADMIN"
  BY RoleRows
<1>4. g \in grantLocks[p] /\ h \in grantLocks[q] /\ wanted[p] = {} /\ wanted[q] = {}
  BY <1>1 DEF OwnHeld
<1>5. g \in grantLocks[q] \/ h \in grantLocks[p]
  BY <1>1, <1>2, <1>3, <1>4 DEF OneSawTheOther, AdminRowsOf, Held
<1> QED BY <1>1, <1>4, <1>5 DEF GrantLocksDisjoint

\* An active administrator stays one through every step that is not the commit
\* of a change that takes ADMIN or ACTIVE from it.
LEMMA AdminKept ==
  ASSUME TypeOK, [Next]_vars, NEW v \in active, "ADMIN" \in RolesOf(v),
         \A q \in Requests : pc[q] = "commit" /\ call[q].target = v => ~LosesAdmin(call[q])
  PROVE  v \in active' /\ "ADMIN" \in RolesOf(v)'
<1>1. PICK g \in grants : g.user = v /\ g.role = "ADMIN"
  BY RoleRows DEF GrantsOf
<1>2. ASSUME NEW q \in Requests, CommitRole(q) PROVE v \in active' /\ "ADMIN" \in RolesOf(v)'
  <2>1. active' = active /\ grants' = Granted(call[q]) /\ pc[q] = "commit"
        /\ call[q].op \in RoleChanges
    BY <1>2 DEF CommitRole
  <2>2. CASE call[q].target # v
    <3>1. g \in grants'
      BY <1>1, <2>1, <2>2 DEF Granted, GrantsOf
    <3> QED BY <1>1, <2>1, <3>1, RoleRows
  <2>3. CASE call[q].target = v
    <3>1. NewRole[call[q].op] \in RolesOf(v)
      BY <2>1, <2>3 DEF LosesAdmin
    <3>2. PICK h \in grants : h.user = v /\ h.role = NewRole[call[q].op]
      BY <3>1, RoleRows DEF GrantsOf
    <3>3. NewRole[call[q].op] \in ManageableRoles
      BY <2>1 DEF RoleChanges, NewRole, ManageableRoles
    <3>4. h = g
      BY <1>1, <3>2, <3>3 DEF TypeOK, ManageableRoles
    <3>5. NewGrant(call[q]) \in grants' /\ NewGrant(call[q]).user = v
          /\ NewGrant(call[q]).role = "ADMIN"
      BY <1>1, <2>1, <2>3, <3>2, <3>4 DEF Granted, NewGrant
    <3> QED BY <2>1, <3>5, RoleRows
  <2> QED BY <2>2, <2>3
<1>3. ASSUME NEW q \in Requests, CommitStatus(q) PROVE v \in active' /\ "ADMIN" \in RolesOf(v)'
  <2>1. call[q] \in Calls /\ call[q].op \in {"ACTIVATE", "DEACTIVATE"} /\ pc[q] = "commit"
    BY <1>3, CallTyped DEF CommitStatus, InFlight, Operations, RoleChanges, NewRole
  <2>2. call[q].target # v \/ call[q].op = "ACTIVATE"
    BY <2>1 DEF LosesAdmin
  <2>3. v \in active' /\ g \in grants'
    BY <1>3, <2>2 DEF CommitStatus
  <2> QED BY <1>1, <2>3, RoleRows
<1>4. ASSUME active' = active, grants \subseteq grants'
      PROVE  v \in active' /\ "ADMIN" \in RolesOf(v)'
  BY <1>1, <1>4, RoleRows
<1>5. (active' = active /\ grants \subseteq grants')
      \/ \E q \in Requests : CommitRole(q) \/ CommitStatus(q)
  BY DEF Next, Step, Fail, vars, tables, Start, LockUser, PickAdminGrants, LockGrant,
         Check, Provision
<1> QED BY <1>2, <1>3, <1>4, <1>5

LEMMA AdminRemainsNext ==
  ASSUME SafeguardInv, [Next]_vars PROVE AdminRemains'
<1> USE DEF SafeguardInv
<1>1. ASSUME NEW v \in active, "ADMIN" \in RolesOf(v),
             \A q \in Requests : pc[q] = "commit" /\ call[q].target = v => ~LosesAdmin(call[q])
      PROVE  AdminRemains'
  <2>1. v \in active' /\ "ADMIN" \in RolesOf(v)'
    BY <1>1, AdminKept
  <2>2. v \in Users
    BY DEF TypeOK
  <2> QED BY <2>1, <2>2 DEF AdminRemains, RolesOf
<1>2. ASSUME NEW p \in Requests, pc[p] = "commit", LosesAdmin(call[p]) PROVE AdminRemains'
  <2>1. PICK v \in active \ {call[p].target} : "ADMIN" \in RolesOf(v)
    BY <1>2 DEF ChecksHold, OtherAdmin
  <2>2. "ADMIN" \in RolesOf(call[p].target)
    BY <1>2 DEF LosesAdmin
  <2>3. ASSUME NEW q \in Requests, pc[q] = "commit", call[q].target = v PROVE FALSE
    <3>1. q \in Others(p)
      BY <2>1, <2>3 DEF Others
    <3> QED BY <1>2, <2>1, <2>2, <2>3, <3>1, OneAtATime
  <2> QED BY <1>1, <2>1, <2>3
<1>3. PICK u \in active : "ADMIN" \in RolesOf(u)
  BY DEF AdminRemains
<1> QED BY <1>1, <1>2, <1>3

LEMMA ChecksHoldNext ==
  ASSUME SafeguardInv, [Next]_vars PROVE ChecksHold'
<1> USE DEF SafeguardInv
<1> SUFFICES ASSUME NEW p \in Requests, pc'[p] = "commit"
    PROVE /\ MayTouch(call[p])'
          /\ LosesAdmin(call[p])' => OtherAdmin(call[p].target)'
  BY DEF ChecksHold
<1>1. CASE pc[p] = "commit"
  <2> DEFINE t == call[p].target
  <2>1. call'[p] = call[p] /\ {g \in grants' : g.user = t} = GrantsOf(t)
    BY <1>1, RowsKept DEF Past
  <2>2. RolesOf(call[p].target)' = RolesOf(t)
    BY <2>1 DEF RolesOf, GrantsOf
  <2>3. MayTouch(call[p])' /\ LosesAdmin(call[p])' = LosesAdmin(call[p])
    BY <1>1, <2>1, <2>2 DEF ChecksHold, MayTouch, LosesAdmin
  <2>4. ASSUME LosesAdmin(call[p]) PROVE OtherAdmin(call[p].target)'
    <3>1. PICK v \in active \ {t} : "ADMIN" \in RolesOf(v)
      BY <1>1, <2>4 DEF ChecksHold, OtherAdmin
    <3>2. "ADMIN" \in RolesOf(t)
      BY <2>4 DEF LosesAdmin
    <3>3. ASSUME NEW q \in Requests, pc[q] = "commit", call[q].target = v PROVE FALSE
      <4>1. q \in Others(p)
        BY <3>1, <3>3 DEF Others
      <4> QED BY <1>1, <3>1, <3>2, <3>3, <4>1, OneAtATime
    <3>4. v \in active' /\ "ADMIN" \in RolesOf(v)'
      BY <3>1, <3>3, AdminKept
    <3> QED BY <2>1, <3>1, <3>4 DEF OtherAdmin, RolesOf
  <2> QED BY <2>3, <2>4
<1>2. CASE pc[p] # "commit"
  <2>1. Permitted(call[p]) /\ UNCHANGED <<tables, call>>
    BY <1>2
    DEF TypeOK, Next, Step, Fail, vars, Start, LockUser, PickAdminGrants, LockGrant,
        Check, CommitRole, CommitStatus, Provision, Finish
  <2> QED BY <2>1 DEF Permitted, tables, MayTouch, LosesAdmin, OtherAdmin, RolesOf
<1> QED BY <1>1, <1>2

LEMMA SafeguardInvariant == Spec => []SafeguardInv
<1>1. Init => SafeguardInv
  <2>1. Init => /\ TargetLocked /\ GrantLocksDisjoint /\ OwnHeld
                /\ OneSawTheOther /\ ChecksHold /\ AdminRemains
    BY DEF Init, TargetLocked, GrantLocksDisjoint, OwnHeld, OneSawTheOther, ChecksHold,
           AdminRemains, Past, Picked, Others
  <2> QED BY <2>1, TypeInit DEF SafeguardInv
<1>2. SafeguardInv /\ [Next]_vars => SafeguardInv'
  BY TypeNext, TargetLockedNext, GrantLocksNext, OwnHeldNext, OneSawNext, ChecksHoldNext,
     AdminRemainsNext DEF SafeguardInv
<1> QED BY <1>1, <1>2, PTL DEF Spec

\* S2 of changeUserRole and changeUserStatus: an active administrator remains.
THEOREM AdminAlwaysRemains == Spec => []AdminRemains
<1>1. SafeguardInv => AdminRemains
  BY DEF SafeguardInv
<1> QED BY <1>1, SafeguardInvariant, PTL

\* S3: what changes an account that holds SUPER_ADMIN is the commit of a
\* request made by a session of a SUPER_ADMIN.
THEOREM SuperAdminStaysProtected == Spec => SuperAdminProtected
<1> DEFINE Changed(u) ==
      /\ "SUPER_ADMIN" \in RolesOf(u)
      /\ \/ u \in active /\ u \notin active'
         \/ u \notin active /\ u \in active'
         \/ GrantsOf(u) # GrantsOf(u)'
    By(p, u) == InFlight(p) /\ "SUPER_ADMIN" \in call[p].roles /\ call[p].target = u
    A == \A u \in Users : Changed(u) => \E p \in Requests : By(p, u)
<1>1. SafeguardInv /\ [Next]_vars => [A]_vars
  <2> SUFFICES ASSUME SafeguardInv, Next, NEW u \in Users, Changed(u)
      PROVE \E p \in Requests : By(p, u)
    OBVIOUS
  <2>1. ASSUME NEW p \in Requests, CommitRole(p) \/ CommitStatus(p) PROVE By(p, u)
    <3>1. pc[p] = "commit" /\ call[p].target = u
      BY <2>1 DEF CommitRole, CommitStatus, Granted, NewGrant, GrantsOf
    <3>2. MayTouch(call[p])
      BY <3>1 DEF SafeguardInv, ChecksHold
    <3> QED BY <3>1, <3>2 DEF MayTouch, InFlight
  <2>2. ASSUME NEW v \in Users, Provision(v) PROVE FALSE
    BY <2>2 DEF Provision, GrantsOf
  <2>3. ASSUME UNCHANGED tables PROVE FALSE
    BY <2>3 DEF tables, GrantsOf
  <2> QED BY <2>1, <2>2, <2>3
          DEF Next, Step, Fail, Start, LockUser, PickAdminGrants, LockGrant, Check
<1> QED BY <1>1, SafeguardInvariant, PTL DEF Spec, SuperAdminProtected
=============================================================================
