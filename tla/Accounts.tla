-------------------------------- MODULE Accounts --------------------------------
(***************************************************************************)
(* Passwords, account status and sessions.  Code: auth.service.ts,         *)
(* session.ts, guard.ts, bootstrap.ts, createUser, changeUserStatus and    *)
(* resetUserPassword of user-management.service.ts, and the two scripts of *)
(* an operator that set the password of the SUPER_ADMIN.                   *)
(*                                                                         *)
(* Nearly every statement here commits by itself; only a status change is  *)
(* a transaction, which locks the row of the account (FOR UPDATE) until it *)
(* commits, while the sessions are revoked over a second connection.  An   *)
(* INSERT of a session references the account and waits for that lock.     *)
(*                                                                         *)
(* A password is the number of the call that set it: all are different.    *)
(***************************************************************************)
EXTENDS LoginThrottle, FiniteSets

CONSTANTS
  Requests,    \* request handlers that may be in flight at the same time
  Workloads,   \* sets of operations; a behaviour uses the operations of one
  MaxCalls,    \* bound: calls that ever start
  MaxClock     \* bound: latest instant

VARIABLES
  work,       \* operations of this behaviour
  exists,     \* accounts that have a row in users
  password,   \* users.password_hash
  active,     \* accounts whose status is ACTIVE
  ended,      \* history: how often the account was deactivated
  sessions,   \* rows of sessions that are neither revoked nor expired
  abandoned,  \* history: accounts whose last revocation did not run
  rowLock,    \* request that holds the users row FOR UPDATE, or NoRequest
  pc,         \* next statement of each request
  call,       \* what it was asked for and what it has read
  calls       \* calls that have started

accountVars == <<exists, password, active, ended>>
sessionVars == <<sessions, abandoned>>
callVars == <<work, pc, call, calls, rowLock>>

NoRequest == "none"
NoCall == [op |-> "NONE"]

ASSUME RequestsAssumption ==
  /\ NoRequest \notin Requests /\ IsFiniteSet(Requests) /\ Requests # {}
  /\ MaxCalls \in Nat /\ MaxClock \in Nat
Wrong == -1
InFlight(p) == pc[p] # "idle"

\* The row of the account can be written or referenced.
RowFree(p, u) == rowLock[u] \in {NoRequest, p}

InitAccounts ==
  /\ InitThrottle
  /\ work \in Workloads
  /\ exists \in IF "CREATE" \in work THEN {{}, Users} ELSE {Users}
  /\ password = [u \in Users |-> 0]
  /\ active = exists
  /\ ended = [u \in Users |-> 0]
  /\ sessions = {}
  /\ abandoned = {}
  /\ rowLock = [u \in Users |-> NoRequest]
  /\ pc = [p \in Requests |-> "idle"]
  /\ call = [p \in Requests |-> NoCall]
  /\ calls = 0

Begin(p, c, label) ==
  /\ ~InFlight(p)
  /\ c.op \in work
  /\ calls < MaxCalls
  /\ calls' = calls + 1
  /\ call' = [call EXCEPT ![p] = c]
  /\ pc' = [pc EXCEPT ![p] = label]
  /\ UNCHANGED <<work, rowLock>>

Goto(p, label) ==
  /\ pc' = [pc EXCEPT ![p] = label]
  /\ UNCHANGED <<work, call, calls, rowLock>>

\* The handler returns; a transaction it had open has ended.
Return(p) ==
  /\ pc' = [pc EXCEPT ![p] = "idle"]
  /\ call' = [call EXCEPT ![p] = NoCall]
  /\ rowLock' = [u \in Users |-> IF rowLock[u] = p THEN NoRequest ELSE rowLock[u]]
  /\ UNCHANGED <<work, calls>>

Set(p, field, value, label) ==
  /\ call' = [call EXCEPT ![p] = [@ EXCEPT ![field] = value]]
  /\ pc' = [pc EXCEPT ![p] = label]
  /\ UNCHANGED <<work, calls, rowLock>>

-----------------------------------------------------------------------------
(* Sessions *)

\* getSessionUser finds the row and the account is ACTIVE.
Usable(s) == s \in sessions /\ s.user \in active

\* Mutant: one session is revoked, not all.
RevokeAll_Latest(u) ==
  sessions' = {s \in sessions : s.user # u \/ \E r \in sessions : r.user = u /\ r.id > s.id}

\* revokeAllSessionsForUser
RevokeAll(u) == sessions' = {s \in sessions : s.user # u}

\* logout, or the twelve hours are over.
EndSession(s) ==
  /\ "LOGIN" \in work
  /\ sessions' = sessions \ {s}
  /\ UNCHANGED <<accountVars, abandoned, callVars, throttleVars, clock>>

-----------------------------------------------------------------------------
(* login *)

\* The check of the throttle; guess is the password that was typed.
Login(p, u, ip, guess) ==
  /\ Allowed(u, ip)
  /\ Prune
  /\ Begin(p, [op |-> "LOGIN", user |-> u, ip |-> ip, guess |-> guess,
               id |-> calls + 1, hash |-> Wrong, seen |-> 0], "login_read")
  /\ UNCHANGED <<accountVars, sessionVars, clock>>

LoginRead(p) ==
  /\ pc[p] = "login_read"
  /\ LET u == call[p].user IN
     IF u \in exists /\ u \in active
     THEN /\ call' = [call EXCEPT ![p] = [@ EXCEPT !.hash = password[u], !.seen = ended[u]]]
          /\ pc' = [pc EXCEPT ![p] = "login_verify"]
          /\ UNCHANGED <<work, calls, rowLock, throttleVars>>
     ELSE RecordFailure(u, call[p].ip) /\ Return(p)
  /\ UNCHANGED <<accountVars, sessionVars, clock>>

LoginVerify(p) ==
  /\ pc[p] = "login_verify"
  /\ IF call[p].guess = call[p].hash
     THEN Goto(p, "login_insert") /\ UNCHANGED throttleVars
     ELSE RecordFailure(call[p].user, call[p].ip) /\ Return(p)
  /\ UNCHANGED <<accountVars, sessionVars, clock>>

\* current: the password that was verified is still the password.
Session(c) ==
  [user |-> c.user, id |-> c.id, with |-> c.hash, current |-> c.hash = password[c.user],
   made |-> ended[c.user]]

LoginInsert(p) ==
  /\ pc[p] = "login_insert"
  /\ RowFree(p, call[p].user)
  /\ sessions' = sessions \union {Session(call[p])}
  /\ Goto(p, "login_stamp")
  /\ UNCHANGED <<accountVars, abandoned, throttleVars, clock>>

LoginStamp(p) ==
  /\ pc[p] = "login_stamp"
  /\ RowFree(p, call[p].user)
  /\ RecordSuccess(call[p].user, call[p].ip)
  /\ Return(p)
  /\ UNCHANGED <<accountVars, sessionVars, clock>>

-----------------------------------------------------------------------------
(* changePassword and resetUserPassword *)

\* The user of a session; guess is what was typed as the current password.
Change(p, s, guess) ==
  /\ Usable(s)
  /\ Begin(p, [op |-> "CHANGE", user |-> s.user, guess |-> guess, id |-> calls + 1,
               hash |-> Wrong], "change_read")
  /\ UNCHANGED <<accountVars, sessionVars, throttleVars, clock>>

ChangeRead(p) ==
  /\ pc[p] = "change_read"
  /\ IF call[p].guess = password[call[p].user]
     THEN Set(p, "hash", password[call[p].user], "set")
     ELSE Return(p)
  /\ UNCHANGED <<accountVars, sessionVars, throttleVars, clock>>

\* An administrator; lockTarget runs outside a transaction and keeps no lock.
Reset(p, u) ==
  /\ u \in exists
  /\ RowFree(p, u)
  /\ Begin(p, [op |-> "RESET", user |-> u, id |-> calls + 1], "set")
  /\ UNCHANGED <<accountVars, sessionVars, throttleVars, clock>>

\* The UPDATE of users; it commits before the sessions are revoked.
SetPassword(p) ==
  /\ pc[p] = "set"
  /\ RowFree(p, call[p].user)
  /\ password' = [password EXCEPT ![call[p].user] = call[p].id]
  /\ Goto(p, "revoke")
  /\ UNCHANGED <<exists, active, ended, sessionVars, throttleVars, clock>>

Revoke(p) ==
  /\ pc[p] = "revoke"
  /\ RevokeAll(call[p].user)
  /\ abandoned' = abandoned \ {call[p].user}
  /\ Return(p)
  /\ UNCHANGED <<accountVars, throttleVars, clock>>

-----------------------------------------------------------------------------
(* changeUserStatus; who may do it is the subject of UserManagement. *)

\* Mutant: the row is read without FOR UPDATE.
LockRow_PlainSelect(p, u, op) ==
  /\ u \in exists
  /\ (op = "DEACTIVATE") = (u \in active)
  /\ Begin(p, [op |-> op, user |-> u, id |-> calls + 1],
           IF op = "DEACTIVATE" THEN "status_revoke" ELSE "status_commit")
  /\ UNCHANGED <<accountVars, sessionVars, throttleVars, clock>>

LockRow(p, u, op) ==
  /\ ~InFlight(p) /\ calls < MaxCalls
  /\ op \in work
  /\ u \in exists
  /\ RowFree(p, u)
  /\ (op = "DEACTIVATE") = (u \in active)
  /\ calls' = calls + 1
  /\ call' = [call EXCEPT ![p] = [op |-> op, user |-> u, id |-> calls + 1]]
  /\ pc' = [pc EXCEPT ![p] = IF op = "DEACTIVATE" THEN "status_revoke" ELSE "status_commit"]
  /\ rowLock' = [rowLock EXCEPT ![u] = p]
  /\ UNCHANGED <<work, accountVars, sessionVars, throttleVars, clock>>

\* Visible at once: it is not part of the transaction.
StatusRevoke(p) ==
  /\ pc[p] = "status_revoke"
  /\ RevokeAll(call[p].user)
  /\ Goto(p, "status_commit")
  /\ UNCHANGED <<accountVars, abandoned, throttleVars, clock>>

StatusCommit(p) ==
  /\ pc[p] = "status_commit"
  /\ LET u == call[p].user IN
     IF call[p].op = "DEACTIVATE"
     THEN active' = active \ {u} /\ ended' = [ended EXCEPT ![u] = @ + 1]
     ELSE active' = active \union {u} /\ UNCHANGED ended
  /\ Return(p)
  /\ UNCHANGED <<exists, password, sessionVars, throttleVars, clock>>

-----------------------------------------------------------------------------
(* createUser, and bootstrapInitialAdmin, which looks for the row first *)

Create(p, u, look) ==
  /\ Begin(p, [op |-> "CREATE", user |-> u, id |-> calls + 1],
           IF look THEN "create_look" ELSE "create")
  /\ UNCHANGED <<accountVars, sessionVars, throttleVars, clock>>

CreateLook(p) ==
  /\ pc[p] = "create_look"
  /\ IF call[p].user \in exists THEN Return(p) ELSE Goto(p, "create")
  /\ UNCHANGED <<accountVars, sessionVars, throttleVars, clock>>

\* The scripts of an operator run as a process beside the application. Their transaction
\* locks nothing before its UPDATE or INSERT, so that is where it is taken to commit.
Script(p, u, label) ==
  /\ Begin(p, [op |-> "OPERATOR", user |-> u, id |-> calls + 1], label)
  /\ UNCHANGED <<accountVars, sessionVars, throttleVars, clock>>

\* reset-super-admin.ts; the role is the subject of UserManagement.
ResetSuperAdmin(p, u) ==
  /\ u \in exists /\ u \in active
  /\ Script(p, u, "set")

\* provision-super-admin.ts: rotates the password, or creates the account; "will not
\* silently reactivate".
ProvisionSuperAdmin(p, u) ==
  /\ u \in exists => u \in active
  /\ Script(p, u, IF u \in exists THEN "set" ELSE "create")

\* Mutant: INSERT ... ON CONFLICT DO UPDATE.
CreateInsert_Upsert(p) ==
  /\ pc[p] = "create"
  /\ exists' = exists \union {call[p].user}
  /\ active' = active \union {call[p].user}
  /\ password' = [password EXCEPT ![call[p].user] = call[p].id]
  /\ Return(p)
  /\ UNCHANGED <<ended, sessionVars, throttleVars, clock>>

\* The unique index on the e-mail address refuses a second row.
CreateInsert(p) ==
  /\ pc[p] = "create"
  /\ LET u == call[p].user IN
     IF u \in exists
     THEN UNCHANGED accountVars /\ Return(p)
     ELSE /\ exists' = exists \union {u}
          /\ active' = active \union {u}
          /\ password' = [password EXCEPT ![u] = call[p].id]
          /\ IF call[p].op = "OPERATOR" THEN Goto(p, "revoke") ELSE Return(p)
          /\ UNCHANGED ended
  /\ UNCHANGED <<sessionVars, throttleVars, clock>>

-----------------------------------------------------------------------------
\* A statement fails: what committed before it stays.
Fail(p) ==
  /\ InFlight(p)
  /\ abandoned' = IF pc[p] = "revoke" THEN abandoned \union {call[p].user} ELSE abandoned
  /\ Return(p)
  /\ UNCHANGED <<accountVars, sessions, throttleVars, clock>>

Survives(p) == call[p].op = "OPERATOR"

\* The application stops and starts again; PostgreSQL rolls back what it had open. The
\* process of an operator is another one.
Restart ==
  /\ "RESTART" \in work
  /\ Forget
  /\ abandoned' = abandoned \union
       {call[p].user : p \in {q \in Requests : pc[q] = "revoke" /\ ~Survives(q)}}
  /\ pc' = [p \in Requests |-> IF Survives(p) THEN pc[p] ELSE "idle"]
  /\ call' = [p \in Requests |-> IF Survives(p) THEN call[p] ELSE NoCall]
  /\ rowLock' = [u \in Users |-> NoRequest]
  /\ UNCHANGED <<work, calls, accountVars, sessions, clock>>

Tick ==
  /\ "TIME" \in work
  /\ clock < MaxClock
  /\ clock' = clock + 1
  /\ UNCHANGED <<accountVars, sessionVars, callVars, throttleVars>>

NextAccounts ==
  \/ \E p \in Requests :
       \/ \E u \in Users :
            \/ \E ip \in Ips, guess \in {password[u], Wrong} : Login(p, u, ip, guess)
            \/ Reset(p, u)
            \/ \E op \in {"ACTIVATE", "DEACTIVATE"} : LockRow(p, u, op)
            \/ \E look \in BOOLEAN : Create(p, u, look)
            \/ ResetSuperAdmin(p, u) \/ ProvisionSuperAdmin(p, u)
       \/ \E s \in sessions : \E guess \in {password[s.user], Wrong} : Change(p, s, guess)
       \/ LoginRead(p) \/ LoginVerify(p) \/ LoginInsert(p) \/ LoginStamp(p)
       \/ ChangeRead(p) \/ SetPassword(p) \/ Revoke(p)
       \/ StatusRevoke(p) \/ StatusCommit(p)
       \/ CreateLook(p) \/ CreateInsert(p)
       \/ Fail(p)
  \/ \E s \in sessions : EndSession(s)
  \/ Restart
  \/ Tick

-----------------------------------------------------------------------------
(* Properties *)

\* A credential change ends the sessions of the old password (auth.service.ts:85):
\* one that can still be used waits for its revocation, or the revocation failed,
\* or the login had verified the old password before the change and inserted its
\* session after it.
OldSessionsEnd ==
  \A s \in sessions :
    s.with # password[s.user] =>
      \/ \E p \in Requests : pc[p] = "revoke" /\ call[p].user = s.user
      \/ s.user \in abandoned
      \/ ~s.current

\* S4: a session that existed when its account was deactivated is of no use after
\* a reactivation, because no session is inserted between the revocation and the
\* commit of the deactivation.
DeactivationEndsSessions == \A s \in sessions : Usable(s) => s.made = ended[s.user]

\* An account keeps its password until somebody who was allowed to sets another:
\* neither a second bootstrap nor a second creation overwrites it.
PasswordKept ==
  [][\A u \in exists : password[u] # (password')[u] =>
       \E p \in Requests : /\ InFlight(p)
                           /\ call[p].op \in {"CHANGE", "RESET", "RECOVER", "OPERATOR"}
                           /\ call[p].user = u]_<<accountVars, sessionVars, pc>>

\* Time n failures in a row take at least: at most as many logins as there are
\* handlers overlap, so failure n was admitted when failure n - K was on record.
Waits[n \in Nat] ==
  IF n <= Cardinality(Requests) THEN 0
  ELSE Waits[n - Cardinality(Requests)] + Delay(n - Cardinality(Requests))

\* The backoff holds however many logins overlap: the failures on record of an
\* account or an address have taken the delays between them.
BackoffAddsUp == \A k \in Keys : clock >= Waits[failures[k]]
=============================================================================
