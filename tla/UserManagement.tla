---------------------------- MODULE UserManagement ----------------------------
(***************************************************************************)
(* Administration of accounts: roles and status, under the safeguards S1   *)
(* (nobody changes their own account), S2 (the last active administrator   *)
(* stays) and S3 (only a SUPER_ADMIN touches a SUPER_ADMIN).  Code:        *)
(* user-management.service.ts; the script provision-super-admin.ts is the  *)
(* only writer of SUPER_ADMIN grants and runs beside the application.      *)
(*                                                                         *)
(* changeUserRole replaces rows of user_roles, and FOR UPDATE locks the    *)
(* rows a SELECT found when it began: rows that were replaced meanwhile    *)
(* are skipped and their replacements are not locked.  So a grant is a row *)
(* with an identity, and every SELECT ... FOR UPDATE is a pick of rows     *)
(* followed by the locking of one row after the other.                     *)
(***************************************************************************)
EXTENDS Naturals, FiniteSets

CONSTANTS
  Users,
  Requests,   \* transactions that may be in flight at the same time
  MaxCalls    \* bound: requests and scripts that ever start

ASSUME CallsAssumption == MaxCalls \in Nat

\* STAFF stands for SCHEDULER and VIEWER.
ManageableRoles == {"ADMIN", "STAFF"}
Roles == ManageableRoles \union {"SUPER_ADMIN"}

VARIABLES
  active,      \* users whose status is ACTIVE
  grants,      \* rows of user_roles
  userLock,    \* users row each transaction holds FOR UPDATE
  grantLocks,  \* rows of user_roles it holds FOR UPDATE
  wanted,      \* rows its SELECT ... FOR UPDATE picked and has not locked yet
  pc,          \* its next statement
  call,        \* what it was asked for, with the roles of the actor's session
  calls        \* requests and scripts that have started

vars == <<active, grants, userLock, grantLocks, wanted, pc, call, calls>>
tables == <<active, grants>>

\* id tells a row from the row it replaces.
Grants == [user : Users, role : Roles, id : 0..MaxCalls]
RolesOf(u) == {g.role : g \in {h \in grants : h.user = u}}

Operations == {"TO_ADMIN", "TO_STAFF", "ACTIVATE", "DEACTIVATE"}
NewRole == [TO_ADMIN |-> "ADMIN", TO_STAFF |-> "STAFF"]
RoleChanges == DOMAIN NewRole

Calls == [actor : Users, roles : SUBSET Roles, op : Operations, target : Users, id : 0..MaxCalls]
NoCall == [op |-> "NONE"]
InFlight(p) == pc[p] # "idle"
Others(p) == Requests \ {p}

\* An active administrator other than u: countActiveAdminsExcluding > 0.
OtherAdmin(u) == \E v \in active \ {u} : "ADMIN" \in RolesOf(v)

-----------------------------------------------------------------------------
Finish(p) ==
  /\ pc' = [pc EXCEPT ![p] = "idle"]
  /\ call' = [call EXCEPT ![p] = NoCall]
  /\ userLock' = [userLock EXCEPT ![p] = {}]
  /\ grantLocks' = [grantLocks EXCEPT ![p] = {}]
  /\ wanted' = [wanted EXCEPT ![p] = {}]

\* requirePermission("users.manage") read the actor's status and roles.
Start(p, actor, op, target) ==
  /\ ~InFlight(p)
  /\ calls < MaxCalls
  /\ actor \in active
  /\ RolesOf(actor) \intersect {"ADMIN", "SUPER_ADMIN"} # {}
  /\ calls' = calls + 1
  /\ call' = [call EXCEPT ![p] = [actor |-> actor, roles |-> RolesOf(actor),
                                  op |-> op, target |-> target, id |-> calls + 1]]
  /\ pc' = [pc EXCEPT ![p] = "user"]
  /\ UNCHANGED <<tables, userLock, grantLocks, wanted>>

-----------------------------------------------------------------------------
(* lockTarget *)

GrantsOf(u) == {g \in grants : g.user = u}
AdminGrantsBut(u) == {g \in grants : g.user # u /\ g.role = "ADMIN"}

\* Mutant: the row of the target is read without FOR UPDATE.
LockUser_PlainSelect(p) ==
  /\ pc[p] = "user"
  /\ wanted' = [wanted EXCEPT ![p] = GrantsOf(call[p].target)]
  /\ pc' = [pc EXCEPT ![p] = "own"]
  /\ UNCHANGED <<tables, userLock, grantLocks, call, calls>>

\* SELECT users ... FOR UPDATE; the SELECT of the target's grants begins.
LockUser(p) ==
  /\ pc[p] = "user"
  /\ \A q \in Others(p) : call[p].target \notin userLock[q]
  /\ userLock' = [userLock EXCEPT ![p] = {call[p].target}]
  /\ wanted' = [wanted EXCEPT ![p] = GrantsOf(call[p].target)]
  /\ pc' = [pc EXCEPT ![p] = "own"]
  /\ UNCHANGED <<tables, grantLocks, call, calls>>

LockGrant(p, g) ==
  /\ g \in wanted[p]
  /\ \A q \in Others(p) : g \notin grantLocks[q]
  /\ wanted' = [wanted EXCEPT ![p] = @ \ {g}]
  /\ grantLocks' = [grantLocks EXCEPT ![p] = @ \union ({g} \intersect grants)]
  /\ UNCHANGED <<tables, userLock, pc, call, calls>>

\* Mutant: the grants of the other administrators are not locked.
PickAdminGrants_None(p) ==
  /\ pc[p] = "own"
  /\ wanted[p] = {}
  /\ pc' = [pc EXCEPT ![p] = "check"]
  /\ UNCHANGED <<tables, userLock, grantLocks, wanted, call, calls>>

PickAdminGrants(p) ==
  /\ pc[p] = "own"
  /\ wanted[p] = {}
  /\ wanted' = [wanted EXCEPT ![p] = AdminGrantsBut(call[p].target)]
  /\ pc' = [pc EXCEPT ![p] = "check"]
  /\ UNCHANGED <<tables, userLock, grantLocks, call, calls>>

-----------------------------------------------------------------------------
(* changeUserRole and changeUserStatus *)

\* S3, and S1
MayTouch(c) ==
  /\ "SUPER_ADMIN" \in RolesOf(c.target) => "SUPER_ADMIN" \in c.roles
  /\ c.actor # c.target

LosesAdmin(c) ==
  /\ "ADMIN" \in RolesOf(c.target)
  /\ c.op = "DEACTIVATE" \/ (c.op \in RoleChanges /\ NewRole[c.op] \notin RolesOf(c.target))

Permitted(c) ==
  /\ MayTouch(c)
  /\ c.op = "ACTIVATE" => c.target \notin active
  /\ c.op = "DEACTIVATE" => c.target \in active
  /\ LosesAdmin(c) => OtherAdmin(c.target)

Check(p) ==
  /\ pc[p] = "check"
  /\ wanted[p] = {}
  /\ \/ /\ Permitted(call[p])
        /\ pc' = [pc EXCEPT ![p] = "commit"]
        /\ UNCHANGED <<userLock, grantLocks, wanted, call>>
     \/ /\ ~Permitted(call[p])
        /\ Finish(p)
  /\ UNCHANGED <<tables, calls>>

NewGrant(c) == [user |-> c.target, role |-> NewRole[c.op], id |-> c.id]

\* Mutant: the new role is added to the old ones.
Granted_Added(c) == grants \union {NewGrant(c)}

\* All the grants of the target are replaced by one.
Granted(c) == (grants \ GrantsOf(c.target)) \union {NewGrant(c)}

CommitRole(p) ==
  /\ pc[p] = "commit"
  /\ call[p].op \in RoleChanges
  /\ grants' = Granted(call[p])
  /\ Finish(p)
  /\ UNCHANGED <<active, calls>>

CommitStatus(p) ==
  /\ pc[p] = "commit"
  /\ call[p].op \notin RoleChanges
  /\ active' = IF call[p].op = "ACTIVATE" THEN active \union {call[p].target}
                                          ELSE active \ {call[p].target}
  /\ Finish(p)
  /\ UNCHANGED <<grants, calls>>

\* A statement fails, or PostgreSQL breaks a deadlock.
Fail(p) == InFlight(p) /\ Finish(p) /\ UNCHANGED <<tables, calls>>

\* provision-super-admin.ts updates the users row, which waits for a request that
\* has locked it, and inserts the grant.
Provision(u) ==
  /\ calls < MaxCalls
  /\ calls' = calls + 1
  /\ u \in active
  /\ "SUPER_ADMIN" \notin RolesOf(u)
  /\ \A p \in Requests : u \notin userLock[p]
  /\ grants' = grants \union {[user |-> u, role |-> "SUPER_ADMIN", id |-> 0]}
  /\ UNCHANGED <<active, userLock, grantLocks, wanted, pc, call>>

-----------------------------------------------------------------------------
Init ==
  /\ \E role \in [Users -> ManageableRoles], super \in SUBSET Users :
       grants = {[user |-> u, role |-> role[u], id |-> 0] : u \in Users}
                \union {[user |-> u, role |-> "SUPER_ADMIN", id |-> 0] : u \in super}
  /\ active = Users
  /\ \E u \in active : "ADMIN" \in RolesOf(u)
  /\ userLock = [p \in Requests |-> {}]
  /\ grantLocks = [p \in Requests |-> {}]
  /\ wanted = [p \in Requests |-> {}]
  /\ pc = [p \in Requests |-> "idle"]
  /\ call = [p \in Requests |-> NoCall]
  /\ calls = 0

Step(p) ==
  \/ LockUser(p) \/ PickAdminGrants(p)
  \/ \E g \in wanted[p] : LockGrant(p, g)
  \/ Check(p) \/ CommitRole(p) \/ CommitStatus(p)

Next ==
  \/ \E p \in Requests :
       \/ \E actor, target \in Users, op \in Operations : Start(p, actor, op, target)
       \/ Step(p)
       \/ Fail(p)
  \/ \E u \in Users : Provision(u)

Spec == Init /\ [][Next]_vars

-----------------------------------------------------------------------------
(* Properties *)

\* The variables hold rows of their tables, and an account has at most one of
\* the manageable roles.
TypeOK ==
  /\ active \subseteq Users
  /\ grants \subseteq Grants
  /\ \A g, h \in grants :
       g.user = h.user /\ {g.role, h.role} \subseteq ManageableRoles => g = h
  /\ userLock \in [Requests -> SUBSET Users]
  /\ grantLocks \in [Requests -> SUBSET Grants]
  /\ wanted \in [Requests -> SUBSET Grants]
  /\ pc \in [Requests -> {"idle", "user", "own", "check", "commit"}]
  /\ call \in [Requests -> Calls \union {NoCall}]
  /\ \A p \in Requests : InFlight(p) => call[p] \in Calls
  /\ calls \in 0..MaxCalls

\* S2: some administrator is active, whatever administrators demote and
\* deactivate each other at the same moment, and although the grants that
\* lockTarget locked may since have been replaced by others.
AdminRemains == \E u \in active : "ADMIN" \in RolesOf(u)

\* S3: an account that holds SUPER_ADMIN when a change commits is changed by a
\* session of a SUPER_ADMIN, although the role can be granted at any moment.
SuperAdminProtected ==
  [][\A u \in Users :
       /\ "SUPER_ADMIN" \in RolesOf(u)
       /\ \/ u \in active /\ u \notin active'
          \/ u \notin active /\ u \in active'
          \/ GrantsOf(u) # GrantsOf(u)'
       => \E p \in Requests : InFlight(p) /\ "SUPER_ADMIN" \in call[p].roles
                              /\ call[p].target = u]_vars
=============================================================================
