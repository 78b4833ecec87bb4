-------------------------- MODULE PasswordResetProofs --------------------------
(***************************************************************************)
(* Proofs about Accounts and PasswordReset, for any number of accounts,    *)
(* addresses, requests in flight and calls: which sessions survive, that   *)
(* passwords are kept, and how often a password or a code can be guessed.  *)
(*                                                                         *)
(* The argument for sessions: a deactivation holds the row of its account  *)
(* from before the revocation until it commits, and the INSERT of a        *)
(* session waits for that row, so that no session is left when it commits  *)
(* (Emptied).  For tickets: a completion holds the unconsumed challenge of *)
(* its ticket (Completing), and consumes it with the password.             *)
(*                                                                         *)
(* For delays: as many logins as there are handlers can have been checked  *)
(* before the first of them is recorded, so the failure that a login waits *)
(* for is at most that many back (KeyWaits; Waits adds the delays up).     *)
(* For codes: a count that is written back forgets at most the guesses     *)
(* made since it was read (ActiveCounts), and an e-mail that is not in the *)
(* table yet was admitted (Sends).                                         *)
(***************************************************************************)
EXTENDS PasswordReset, SequenceTheorems, FiniteSetTheorems, WellFoundedInduction, TLAPS

-----------------------------------------------------------------------------
(* Types *)

Ids == 1..MaxCalls
Hashes == 0..MaxCalls

LoginCalls ==
  [op : {"LOGIN"}, user : Users, ip : Ips, guess : Int, id : Ids, hash : Int, seen : Nat]
ChangeCalls == [op : {"CHANGE"}, user : Users, guess : Int, id : Ids, hash : Int]
RequestCalls == [op : {"REQUEST"}, user : Users, ip : Ips, id : Ids, now : Nat, saw : Nat]
VerifyCalls == [op : {"VERIFY"}, user : Users, id : Ids, code : Int, row : Nat, attempts : Nat]
RecoverCalls == [op : {"RECOVER"}, user : Users, id : Ids, row : Nat]
PlainCalls(ops) == [op : ops, user : Users, id : Ids]

SessionRows ==
  [user : Users, id : Ids, with : Hashes, current : BOOLEAN, made : Nat]
ChallengeRows ==
  [user : Users, ip : Ips, at : Nat, until : Int, attempts : 0..MaxAttempts,
   consumed : BOOLEAN, verified : BOOLEAN, ticket : Nat, saw : Nat, guesses : Nat,
   shared : BOOLEAN, uses : Nat]

LoginPlaces == {"login_read", "login_verify", "login_insert", "login_stamp"}
StatusPlaces == {"status_revoke", "status_commit"}
RecoveryPlaces == {"retire", "issue", "verify", "complete"}

\* Where a call stands says which call it is.
CallTyped(p) ==
  /\ pc[p] \in LoginPlaces => call[p] \in LoginCalls
  /\ pc[p] \in {"login_verify", "login_insert"} =>
       call[p].hash \in Hashes /\ call[p].user \in exists
  /\ pc[p] \in StatusPlaces => call[p].user \in exists
  /\ pc[p] = "change_read" => call[p] \in ChangeCalls
  /\ pc[p] = "set" => call[p] \in ChangeCalls \union PlainCalls({"RESET", "OPERATOR"})
  /\ pc[p] = "revoke" => call[p].user \in Users
  /\ pc[p] = "status_revoke" => call[p] \in PlainCalls({"DEACTIVATE"})
  /\ pc[p] = "status_commit" => call[p] \in PlainCalls({"ACTIVATE", "DEACTIVATE"})
  /\ pc[p] \in {"create_look", "create"} => call[p] \in PlainCalls({"CREATE", "OPERATOR"})
  /\ pc[p] \in {"retire", "issue"} => call[p] \in RequestCalls
  /\ pc[p] = "verify" => call[p] \in VerifyCalls
  /\ pc[p] = "complete" => call[p] \in RecoverCalls

AccountsTyped ==
  /\ exists \subseteq Users /\ active \subseteq exists
  /\ password \in [Users -> Hashes]
  /\ ended \in [Users -> Nat]
  /\ sessions \subseteq SessionRows
  /\ rowLock \in [Users -> Requests \union {NoRequest}]
  /\ DOMAIN pc = Requests /\ DOMAIN call = Requests
  /\ calls \in 0..MaxCalls
  /\ clock \in Nat
  /\ \A p \in Requests : CallTyped(p)

RecoveryTyped ==
  /\ challenges \in Seq(ChallengeRows)
  /\ tickets \subseteq Ids

Typed == AccountsTyped /\ RecoveryTyped

LEMMA TypedInit == Init => Typed
<1> SUFFICES ASSUME Init PROVE Typed
  OBVIOUS
<1> USE RequestsAssumption DEF Init, InitAccounts, InitThrottle
<1>1. exists \subseteq Users /\ active \subseteq exists
  OBVIOUS
<1>2. \A p \in Requests : CallTyped(p)
  BY DEF CallTyped, LoginPlaces, StatusPlaces
<1>3. RecoveryTyped
  BY DEF RecoveryTyped
<1> QED BY <1>1, <1>2, <1>3 DEF Typed, AccountsTyped, Hashes

\* Only one request moves: the others keep their place and what they read.
LEMMA OthersStay ==
  ASSUME AccountsTyped, NEW p \in Requests, NEW c, NEW label,
         call' = [call EXCEPT ![p] = c], pc' = [pc EXCEPT ![p] = label],
         exists \subseteq exists'
  PROVE  /\ DOMAIN pc' = Requests /\ DOMAIN call' = Requests
         /\ pc'[p] = label /\ call'[p] = c
         /\ \A q \in Requests \ {p} : pc'[q] = pc[q] /\ call'[q] = call[q] /\ CallTyped(q)'
<1>1. ASSUME NEW q \in Requests \ {p}
      PROVE  pc'[q] = pc[q] /\ call'[q] = call[q]
  BY DEF AccountsTyped
<1>2. ASSUME NEW q \in Requests \ {p} PROVE CallTyped(q)'
  <2>1. CallTyped(q)
    BY DEF AccountsTyped
  <2> QED BY <1>1, <2>1 DEF CallTyped
<1> QED BY <1>1, <1>2 DEF AccountsTyped

\* A request that starts, goes on, notes what it read, or returns.
LEMMA BeginTyped ==
  ASSUME AccountsTyped, NEW p \in Requests, NEW c, NEW label,
         Begin(p, c, label), exists' = exists
  PROVE  /\ calls + 1 \in Ids /\ calls' \in 0..MaxCalls
         /\ DOMAIN pc' = Requests /\ DOMAIN call' = Requests
         /\ pc'[p] = label /\ call'[p] = c
         /\ rowLock' = rowLock
         /\ \A q \in Requests \ {p} : CallTyped(q)'
<1>1. call' = [call EXCEPT ![p] = c] /\ pc' = [pc EXCEPT ![p] = label]
  BY DEF Begin
<1>2. calls + 1 \in Ids /\ calls' \in 0..MaxCalls /\ rowLock' = rowLock
  BY RequestsAssumption DEF Begin, AccountsTyped, Ids
<1> QED BY <1>1, <1>2, OthersStay

LEMMA ReturnTyped ==
  ASSUME AccountsTyped, NEW p \in Requests, Return(p), exists \subseteq exists'
  PROVE  /\ DOMAIN pc' = Requests /\ DOMAIN call' = Requests
         /\ calls' = calls
         /\ rowLock' \in [Users -> Requests \union {NoRequest}]
         /\ \A q \in Requests : CallTyped(q)'
<1>1. call' = [call EXCEPT ![p] = NoCall] /\ pc' = [pc EXCEPT ![p] = "idle"]
  BY DEF Return
<1>2. /\ DOMAIN pc' = Requests /\ DOMAIN call' = Requests /\ pc'[p] = "idle"
      /\ \A q \in Requests \ {p} : CallTyped(q)'
  BY <1>1, OthersStay
<1>3. CallTyped(p)'
  BY <1>2 DEF CallTyped, LoginPlaces, StatusPlaces
<1>4. rowLock' \in [Users -> Requests \union {NoRequest}] /\ calls' = calls
  BY DEF Return, AccountsTyped
<1> QED BY <1>2, <1>3, <1>4

LEMMA GotoTyped ==
  ASSUME AccountsTyped, NEW p \in Requests, NEW label, Goto(p, label), exists \subseteq exists'
  PROVE  /\ DOMAIN pc' = Requests /\ DOMAIN call' = Requests
         /\ pc'[p] = label /\ call'[p] = call[p]
         /\ calls' = calls /\ rowLock' = rowLock
         /\ \A q \in Requests \ {p} : CallTyped(q)'
<1>1. pc' = [pc EXCEPT ![p] = label] /\ call' = call
      /\ calls' = calls /\ rowLock' = rowLock
  BY DEF Goto
<1>2. ASSUME NEW q \in Requests \ {p} PROVE CallTyped(q)'
  <2>1. CallTyped(q)
    BY DEF AccountsTyped
  <2>2. pc'[q] = pc[q] /\ call'[q] = call[q]
    BY <1>1 DEF AccountsTyped
  <2> QED BY <2>1, <2>2 DEF CallTyped
<1> QED BY <1>1, <1>2 DEF AccountsTyped

LEMMA AccountsTypedNext ==
  ASSUME AccountsTyped, NextAccounts PROVE AccountsTyped'
<1> USE RequestsAssumption DEF accountVars, sessionVars, throttleVars
<1>1. ASSUME NEW p \in Requests, NEW u \in Users, NEW ip \in Ips,
             NEW guess \in {password[u], Wrong}, Login(p, u, ip, guess)
      PROVE  AccountsTyped'
  <2> DEFINE c == [op |-> "LOGIN", user |-> u, ip |-> ip, guess |-> guess,
                   id |-> calls + 1, hash |-> Wrong, seen |-> 0]
  <2>1. Begin(p, c, "login_read") /\ UNCHANGED <<accountVars, sessionVars, clock>>
    BY <1>1 DEF Login
  <2>2. /\ calls + 1 \in Ids /\ calls' \in 0..MaxCalls
        /\ DOMAIN pc' = Requests /\ DOMAIN call' = Requests
        /\ pc'[p] = "login_read" /\ call'[p] = c /\ rowLock' = rowLock
        /\ \A q \in Requests \ {p} : CallTyped(q)'
    BY <2>1, BeginTyped
  <2>3. guess \in Int
    BY DEF AccountsTyped, Hashes, Wrong
  <2>4. c \in LoginCalls
    BY <2>2, <2>3 DEF LoginCalls, Wrong
  <2>5. CallTyped(p)'
    BY <2>2, <2>4 DEF CallTyped, LoginPlaces, StatusPlaces
  <2> QED BY <2>1, <2>2, <2>5 DEF AccountsTyped
<1>2. ASSUME NEW p \in Requests, NEW u \in Users, Reset(p, u) PROVE AccountsTyped'
  <2> DEFINE c == [op |-> "RESET", user |-> u, id |-> calls + 1]
  <2>1. Begin(p, c, "set") /\ UNCHANGED <<accountVars, sessionVars, clock>>
    BY <1>2 DEF Reset
  <2>2. /\ calls + 1 \in Ids /\ calls' \in 0..MaxCalls
        /\ DOMAIN pc' = Requests /\ DOMAIN call' = Requests
        /\ pc'[p] = "set" /\ call'[p] = c /\ rowLock' = rowLock
        /\ \A q \in Requests \ {p} : CallTyped(q)'
    BY <2>1, BeginTyped
  <2>3. c \in PlainCalls({"RESET", "OPERATOR"})
    BY <2>2 DEF PlainCalls
  <2>4. CallTyped(p)'
    BY <2>2, <2>3 DEF CallTyped, LoginPlaces, StatusPlaces
  <2> QED BY <2>1, <2>2, <2>4 DEF AccountsTyped
<1>3. ASSUME NEW p \in Requests, NEW u \in Users, NEW op \in {"ACTIVATE", "DEACTIVATE"},
             LockRow(p, u, op)
      PROVE  AccountsTyped'
  <2> DEFINE c == [op |-> op, user |-> u, id |-> calls + 1]
             label == IF op = "DEACTIVATE" THEN "status_revoke" ELSE "status_commit"
  <2>1. /\ call' = [call EXCEPT ![p] = c] /\ pc' = [pc EXCEPT ![p] = label]
        /\ rowLock' = [rowLock EXCEPT ![u] = p]
        /\ calls' = calls + 1 /\ calls < MaxCalls /\ u \in exists
        /\ UNCHANGED <<accountVars, sessionVars, clock>>
    BY <1>3 DEF LockRow
  <2>2. calls + 1 \in Ids /\ calls' \in 0..MaxCalls
    BY <2>1 DEF AccountsTyped, Ids
  <2>3. /\ DOMAIN pc' = Requests /\ DOMAIN call' = Requests
        /\ pc'[p] = label /\ call'[p] = c
        /\ \A q \in Requests \ {p} : CallTyped(q)'
    BY <2>1, OthersStay
  <2>4. /\ c \in PlainCalls({"ACTIVATE", "DEACTIVATE"})
        /\ op = "DEACTIVATE" => c \in PlainCalls({"DEACTIVATE"})
    BY <2>2 DEF PlainCalls
  <2>5. CallTyped(p)'
    BY <2>1, <2>3, <2>4 DEF CallTyped, LoginPlaces, StatusPlaces
  <2> QED BY <2>1, <2>2, <2>3, <2>5 DEF AccountsTyped
<1>4. ASSUME NEW p \in Requests, NEW u \in Users, NEW look \in BOOLEAN, Create(p, u, look)
      PROVE  AccountsTyped'
  <2> DEFINE c == [op |-> "CREATE", user |-> u, id |-> calls + 1]
             label == IF look THEN "create_look" ELSE "create"
  <2>1. Begin(p, c, label) /\ UNCHANGED <<accountVars, sessionVars, clock>>
    BY <1>4 DEF Create
  <2>2. /\ calls + 1 \in Ids /\ calls' \in 0..MaxCalls
        /\ DOMAIN pc' = Requests /\ DOMAIN call' = Requests
        /\ pc'[p] = label /\ call'[p] = c /\ rowLock' = rowLock
        /\ \A q \in Requests \ {p} : CallTyped(q)'
    BY <2>1, BeginTyped
  <2>3. c \in PlainCalls({"CREATE", "OPERATOR"})
    BY <2>2 DEF PlainCalls
  <2>4. CallTyped(p)'
    BY <2>2, <2>3 DEF CallTyped, LoginPlaces, StatusPlaces
  <2> QED BY <2>1, <2>2, <2>4 DEF AccountsTyped
<1>5. ASSUME NEW p \in Requests, NEW u \in Users, NEW label \in {"set", "create"},
             Script(p, u, label)
      PROVE  AccountsTyped'
  <2> DEFINE c == [op |-> "OPERATOR", user |-> u, id |-> calls + 1]
  <2>1. Begin(p, c, label) /\ UNCHANGED <<accountVars, sessionVars, clock>>
    BY <1>5 DEF Script
  <2>2. /\ calls + 1 \in Ids /\ calls' \in 0..MaxCalls
        /\ DOMAIN pc' = Requests /\ DOMAIN call' = Requests
        /\ pc'[p] = label /\ call'[p] = c /\ rowLock' = rowLock
        /\ \A q \in Requests \ {p} : CallTyped(q)'
    BY <2>1, BeginTyped
  <2>3. c \in PlainCalls({"RESET", "OPERATOR"}) /\ c \in PlainCalls({"CREATE", "OPERATOR"})
    BY <2>2 DEF PlainCalls
  <2>4. CallTyped(p)'
    BY <2>2, <2>3 DEF CallTyped, LoginPlaces, StatusPlaces
  <2> QED BY <2>1, <2>2, <2>4 DEF AccountsTyped
<1>6. ASSUME NEW p \in Requests, NEW s \in sessions, NEW guess \in {password[s.user], Wrong},
             Change(p, s, guess)
      PROVE  AccountsTyped'
  <2> DEFINE c == [op |-> "CHANGE", user |-> s.user, guess |-> guess, id |-> calls + 1,
                   hash |-> Wrong]
  <2>1. Begin(p, c, "change_read") /\ UNCHANGED <<accountVars, sessionVars, clock>>
    BY <1>6 DEF Change
  <2>2. /\ calls + 1 \in Ids /\ calls' \in 0..MaxCalls
        /\ DOMAIN pc' = Requests /\ DOMAIN call' = Requests
        /\ pc'[p] = "change_read" /\ call'[p] = c /\ rowLock' = rowLock
        /\ \A q \in Requests \ {p} : CallTyped(q)'
    BY <2>1, BeginTyped
  <2>3. s.user \in Users
    BY DEF AccountsTyped, SessionRows
  <2>4. guess \in Int
    BY <2>3 DEF AccountsTyped, Hashes, Wrong
  <2>5. c \in ChangeCalls
    BY <2>2, <2>3, <2>4 DEF ChangeCalls, Wrong
  <2>6. CallTyped(p)'
    BY <2>2, <2>5 DEF CallTyped, LoginPlaces, StatusPlaces
  <2> QED BY <2>1, <2>2, <2>6 DEF AccountsTyped
<1>7. ASSUME NEW p \in Requests, Return(p), exists \subseteq exists', exists' \subseteq Users,
             active' \subseteq exists', password' \in [Users -> Hashes],
             ended' \in [Users -> Nat], sessions' \subseteq SessionRows, UNCHANGED clock
      PROVE  AccountsTyped'
  <2>1. /\ DOMAIN pc' = Requests /\ DOMAIN call' = Requests
        /\ calls' = calls
        /\ rowLock' \in [Users -> Requests \union {NoRequest}]
        /\ \A q \in Requests : CallTyped(q)'
    BY <1>7, ReturnTyped
  <2> QED BY <1>7, <2>1 DEF AccountsTyped
<1>8. ASSUME NEW p \in Requests, LoginRead(p) PROVE AccountsTyped'
  <2> DEFINE u == call[p].user
             c == [call[p] EXCEPT !.hash = password[u], !.seen = ended[u]]
  <2>1. UNCHANGED <<accountVars, sessionVars, clock>>
    BY <1>8 DEF LoginRead
  <2>2. CASE Return(p)
    BY <1>7, <2>1, <2>2 DEF AccountsTyped
  <2>3. CASE /\ u \in exists
             /\ call' = [call EXCEPT ![p] = c]
             /\ pc' = [pc EXCEPT ![p] = "login_verify"]
             /\ UNCHANGED <<calls, rowLock>>
    <3>1. call[p] \in LoginCalls /\ u \in Users
      BY <1>8 DEF LoginRead, AccountsTyped, CallTyped, LoginPlaces, LoginCalls
    <3>2. password[u] \in Hashes /\ ended[u] \in Nat
      BY <3>1 DEF AccountsTyped
    <3>3. password[u] \in Int
      BY <3>2 DEF Hashes
    <3>4. c \in LoginCalls /\ c.hash = password[u] /\ c.user = u
      BY <3>1, <3>2, <3>3 DEF LoginCalls
    <3>5. /\ DOMAIN pc' = Requests /\ DOMAIN call' = Requests
          /\ pc'[p] = "login_verify" /\ call'[p] = c
          /\ \A q \in Requests \ {p} : CallTyped(q)'
      BY <2>1, <2>3, OthersStay
    <3>6. CallTyped(p)'
      BY <2>1, <2>3, <3>2, <3>4, <3>5 DEF CallTyped, LoginPlaces, StatusPlaces
    <3> QED BY <2>1, <2>3, <3>5, <3>6 DEF AccountsTyped
  <2> QED BY <1>8, <2>2, <2>3 DEF LoginRead
<1>9. ASSUME NEW p \in Requests, NEW label, Goto(p, label), exists \subseteq exists',
             exists' \subseteq Users, active' \subseteq exists',
             password' \in [Users -> Hashes],
             ended' \in [Users -> Nat], sessions' \subseteq SessionRows, UNCHANGED clock,
             CallTyped(p)'
      PROVE  AccountsTyped'
  <2>1. /\ DOMAIN pc' = Requests /\ DOMAIN call' = Requests
        /\ calls' = calls /\ rowLock' = rowLock
        /\ \A q \in Requests \ {p} : CallTyped(q)'
    BY <1>9, GotoTyped
  <2> QED BY <1>9, <2>1 DEF AccountsTyped
<1>10. ASSUME NEW p \in Requests, NEW label, Goto(p, label), exists \subseteq exists'
       PROVE  pc'[p] = label /\ call'[p] = call[p]
  BY <1>10, GotoTyped
<1>11. ASSUME NEW p \in Requests, LoginVerify(p) PROVE AccountsTyped'
  <2>1. UNCHANGED <<accountVars, sessionVars, clock>>
    BY <1>11 DEF LoginVerify
  <2>2. CASE Return(p)
    BY <1>7, <2>1, <2>2 DEF AccountsTyped
  <2>3. CASE Goto(p, "login_insert")
    <3>1. CallTyped(p)'
      BY <1>10, <1>11, <2>1, <2>3 DEF LoginVerify, AccountsTyped, CallTyped, LoginPlaces, StatusPlaces
    <3> QED BY <1>9, <2>1, <2>3, <3>1 DEF AccountsTyped
  <2> QED BY <1>11, <2>2, <2>3 DEF LoginVerify
<1>12. ASSUME NEW p \in Requests, LoginInsert(p) PROVE AccountsTyped'
  <2>1. /\ call[p] \in LoginCalls /\ call[p].hash \in Hashes
        /\ call[p].user \in Users /\ call[p].id \in Ids
    BY <1>12 DEF LoginInsert, AccountsTyped, CallTyped, LoginPlaces, LoginCalls
  <2>2. Session(call[p]) \in SessionRows
    BY <2>1 DEF Session, SessionRows, AccountsTyped
  <2>3. Goto(p, "login_stamp") /\ UNCHANGED <<accountVars, clock>>
    BY <1>12 DEF LoginInsert
  <2>4. CallTyped(p)'
    BY <1>10, <2>1, <2>3 DEF CallTyped, LoginPlaces, StatusPlaces
  <2> QED BY <1>9, <1>12, <2>2, <2>3, <2>4 DEF LoginInsert, AccountsTyped
<1>13. ASSUME NEW p \in Requests, LoginStamp(p) PROVE AccountsTyped'
  BY <1>7, <1>13 DEF LoginStamp, AccountsTyped
<1>14. ASSUME NEW p \in Requests, ChangeRead(p) PROVE AccountsTyped'
  <2> DEFINE c == [call[p] EXCEPT !["hash"] = password[call[p].user]]
  <2>1. UNCHANGED <<accountVars, sessionVars, clock>>
    BY <1>14 DEF ChangeRead
  <2>2. CASE Return(p)
    BY <1>7, <2>1, <2>2 DEF AccountsTyped
  <2>3. CASE Set(p, "hash", password[call[p].user], "set")
    <3>1. call[p] \in ChangeCalls /\ call[p].user \in Users
      BY <1>14 DEF ChangeRead, AccountsTyped, CallTyped, ChangeCalls
    <3>2. password[call[p].user] \in Int
      BY <3>1 DEF AccountsTyped, Hashes
    <3>3. c \in ChangeCalls
      BY <3>1, <3>2 DEF ChangeCalls
    <3>4. /\ call' = [call EXCEPT ![p] = c] /\ pc' = [pc EXCEPT ![p] = "set"]
          /\ UNCHANGED <<calls, rowLock>>
      BY <2>3 DEF Set, AccountsTyped
    <3>5. /\ DOMAIN pc' = Requests /\ DOMAIN call' = Requests
          /\ pc'[p] = "set" /\ call'[p] = c
          /\ \A q \in Requests \ {p} : CallTyped(q)'
      BY <2>1, <3>4, OthersStay
    <3>6. CallTyped(p)'
      BY <3>3, <3>5 DEF CallTyped, LoginPlaces, StatusPlaces
    <3> QED BY <2>1, <3>4, <3>5, <3>6 DEF AccountsTyped
  <2> QED BY <1>14, <2>2, <2>3 DEF ChangeRead
<1>15. ASSUME NEW p \in Requests, SetPassword(p) PROVE AccountsTyped'
  <2>1. call[p].user \in Users /\ call[p].id \in Hashes
    BY <1>15 DEF SetPassword, AccountsTyped, CallTyped, ChangeCalls, PlainCalls, Ids, Hashes
  <2>2. Goto(p, "revoke") /\ UNCHANGED <<exists, active, ended, sessions, clock>>
        /\ password' = [password EXCEPT ![call[p].user] = call[p].id]
    BY <1>15 DEF SetPassword
  <2>3. CallTyped(p)'
    BY <1>10, <2>1, <2>2 DEF CallTyped, LoginPlaces, StatusPlaces
  <2>4. password' \in [Users -> Hashes]
    BY <2>1, <2>2 DEF AccountsTyped
  <2> QED BY <1>9, <2>2, <2>3, <2>4 DEF AccountsTyped
<1>16. ASSUME NEW p \in Requests, Revoke(p) PROVE AccountsTyped'
  BY <1>7, <1>16 DEF Revoke, RevokeAll, AccountsTyped
<1>17. ASSUME NEW p \in Requests, StatusRevoke(p) PROVE AccountsTyped'
  <2>1. call[p] \in PlainCalls({"ACTIVATE", "DEACTIVATE"}) /\ call[p].user \in exists
    BY <1>17 DEF StatusRevoke, AccountsTyped, CallTyped, PlainCalls, StatusPlaces
  <2>2. Goto(p, "status_commit") /\ UNCHANGED <<accountVars, clock>>
    BY <1>17 DEF StatusRevoke
  <2>3. CallTyped(p)'
    BY <1>10, <2>1, <2>2 DEF CallTyped, LoginPlaces, StatusPlaces
  <2> QED BY <1>9, <1>17, <2>2, <2>3 DEF StatusRevoke, RevokeAll, AccountsTyped
<1>18. ASSUME NEW p \in Requests, StatusCommit(p) PROVE AccountsTyped'
  <2>1. call[p].user \in Users /\ call[p].user \in exists
    BY <1>18 DEF StatusCommit, AccountsTyped, CallTyped, PlainCalls, StatusPlaces
  <2>2. ended' \in [Users -> Nat]
    BY <1>18, <2>1 DEF StatusCommit, AccountsTyped
  <2>3. active' \subseteq exists
    BY <1>18, <2>1 DEF StatusCommit, AccountsTyped
  <2> QED BY <1>7, <1>18, <2>2, <2>3 DEF StatusCommit, AccountsTyped
<1>19. ASSUME NEW p \in Requests, CreateLook(p) PROVE AccountsTyped'
  <2>1. UNCHANGED <<accountVars, sessionVars, clock>>
    BY <1>19 DEF CreateLook
  <2>2. CASE Return(p)
    BY <1>7, <2>1, <2>2 DEF AccountsTyped
  <2>3. CASE Goto(p, "create")
    <3>1. CallTyped(p)'
      BY <1>10, <1>19, <2>1, <2>3
      DEF CreateLook, AccountsTyped, CallTyped, LoginPlaces, StatusPlaces
    <3> QED BY <1>9, <2>1, <2>3, <3>1 DEF AccountsTyped
  <2> QED BY <1>19, <2>2, <2>3 DEF CreateLook
<1>20. ASSUME NEW p \in Requests, CreateInsert(p) PROVE AccountsTyped'
  <2> DEFINE u == call[p].user
  <2>1. u \in Users /\ call[p].id \in Hashes
    BY <1>20 DEF CreateInsert, AccountsTyped, CallTyped, PlainCalls, Ids, Hashes
  <2>2. CASE UNCHANGED accountVars /\ Return(p)
    BY <1>7, <1>20, <2>2 DEF CreateInsert, AccountsTyped
  <2>3. CASE u \notin exists
    <3>1. /\ exists' = exists \union {u} /\ active' = active \union {u}
          /\ password' = [password EXCEPT ![u] = call[p].id]
          /\ UNCHANGED <<ended, sessions, clock>>
      BY <1>20, <2>3 DEF CreateInsert
    <3>2. password' \in [Users -> Hashes] /\ exists' \subseteq Users
          /\ active' \subseteq exists' /\ exists \subseteq exists'
      BY <2>1, <3>1 DEF AccountsTyped
    <3>3. CASE Return(p)
      BY <1>7, <3>1, <3>2, <3>3 DEF AccountsTyped
    <3>4. CASE Goto(p, "revoke")
      <4>1. CallTyped(p)'
        BY <1>10, <2>1, <3>2, <3>4 DEF CallTyped, LoginPlaces, StatusPlaces
      <4> QED BY <1>9, <3>1, <3>2, <3>4, <4>1 DEF AccountsTyped
    <3> QED BY <1>20, <2>3, <3>3, <3>4 DEF CreateInsert
  <2> QED BY <1>20, <2>2, <2>3 DEF CreateInsert
<1>21. ASSUME NEW p \in Requests, Fail(p) PROVE AccountsTyped'
  BY <1>7, <1>21 DEF Fail, AccountsTyped
<1>22. ASSUME Restart PROVE AccountsTyped'
  <2>1. ASSUME NEW p \in Requests PROVE CallTyped(p)'
    <3>1. CallTyped(p)
      BY DEF AccountsTyped
    <3> QED BY <1>22, <3>1 DEF Restart, CallTyped, LoginPlaces, StatusPlaces
  <2> QED BY <1>22, <2>1 DEF Restart, AccountsTyped
<1>23. ASSUME NEW s \in sessions, EndSession(s) PROVE AccountsTyped'
  BY <1>23 DEF EndSession, AccountsTyped, CallTyped, callVars
<1>24. ASSUME Tick PROVE AccountsTyped'
  BY <1>24 DEF Tick, AccountsTyped, CallTyped, callVars
<1>25. ASSUME NEW p \in Requests, NEW u \in Users,
              ResetSuperAdmin(p, u) \/ ProvisionSuperAdmin(p, u)
       PROVE  AccountsTyped'
  BY <1>5, <1>25 DEF ResetSuperAdmin, ProvisionSuperAdmin
<1> QED
  BY <1>1, <1>2, <1>3, <1>4, <1>6, <1>8, <1>11, <1>12, <1>13, <1>14, <1>15, <1>16, <1>17,
     <1>18, <1>19, <1>20, <1>21, <1>22, <1>23, <1>24, <1>25
  DEF NextAccounts

-----------------------------------------------------------------------------
(* Types of the steps of a recovery *)

\* A table of as many rows.
LEMMA SameRows ==
  ASSUME RecoveryTyped, NEW f \in [Rows -> ChallengeRows]
  PROVE  f \in Seq(ChallengeRows)
<1>1. Rows = 1..Len(challenges) /\ Len(challenges) \in Nat
  BY DEF RecoveryTyped, Rows
<1> QED BY <1>1, SeqDef

LEMMA RowTyped ==
  ASSUME RecoveryTyped, NEW c \in Rows
  PROVE  challenges[c] \in ChallengeRows /\ c \in Nat /\ c > 0 /\ c <= Len(challenges)
  BY DEF RecoveryTyped, Rows

LEMMA ConsumeTyped ==
  ASSUME RecoveryTyped, NEW S
  PROVE  Consume(S) \in [Rows -> ChallengeRows]
<1>1. ASSUME NEW c \in Rows
      PROVE  [challenges[c] EXCEPT !.consumed = TRUE] \in ChallengeRows
             /\ challenges[c] \in ChallengeRows
  BY RowTyped DEF ChallengeRows
<1> QED BY <1>1 DEF Consume

\* There is a newest row: the rows behind it are the fewest.
LEMMA HasLargest ==
  ASSUME NEW n \in Nat, NEW S \in SUBSET (1..n), S # {}
  PROVE  \E m \in S : \A k \in S : k <= m
<1> DEFINE Behind(k) == (k + 1)..n
           T == {Behind(k) : k \in S}
           R == StrictSubsetOrdering(1..n)
<1>1. ASSUME NEW k \in S PROVE Behind(k) \in FiniteSubsetsOf(1..n)
  <2>1. Behind(k) \subseteq 1..n /\ IsFiniteSet(1..n)
    BY FS_Interval
  <2> QED BY <2>1, FS_Subset DEF FiniteSubsetsOf
<1>2. T \subseteq FiniteSubsetsOf(1..n) /\ T # {}
  BY <1>1
<1>3. IsWellFoundedOn(R, FiniteSubsetsOf(1..n))
  BY FS_StrictSubsetOrderingWellFounded
<1>4. PICK x \in T : \A y \in T : ~(<<y, x>> \in R)
  BY <1>2, <1>3, WFMin
<1>5. PICK m \in S : x = Behind(m)
  BY <1>4
<1>6. ASSUME NEW k \in S, ~(k <= m) PROVE FALSE
  <2>1. Behind(k) \subseteq Behind(m) /\ Behind(m) \subseteq 1..n
    BY <1>6
  <2>2. k \in Behind(m) /\ k \notin Behind(k)
    BY <1>6
  <2>3. <<Behind(k), Behind(m)>> \in R
    BY <2>1, <2>2 DEF StrictSubsetOrdering
  <2> QED BY <1>4, <1>5, <2>3
<1> QED BY <1>6

LEMMA NewestKnown ==
  ASSUME RecoveryTyped, NEW u, Verifiable(u) # {}
  PROVE  Newest(Verifiable(u)) \in Verifiable(u) /\ Newest(Verifiable(u)) \in Rows
<1>1. Rows = 1..Len(challenges) /\ Len(challenges) \in Nat
  BY DEF RecoveryTyped, Rows
<1>2. Verifiable(u) \subseteq Rows
  BY DEF Verifiable, Pending, ChallengesOf
<1>3. \E m \in Verifiable(u) : \A k \in Verifiable(u) : k <= m
  BY <1>1, <1>2, HasLargest
<1> QED BY <1>2, <1>3 DEF Newest

LEMMA TypedNext == Typed /\ [Next]_vars => Typed'
<1> SUFFICES ASSUME Typed, [Next]_vars PROVE Typed'
  OBVIOUS
<1> USE RequestsAssumption
<1>1. AccountsTyped /\ RecoveryTyped
  BY DEF Typed
<1>2. CASE Elsewhere
  BY <1>1, <1>2, AccountsTypedNext DEF Elsewhere, Typed, RecoveryTyped
<1>3. CASE UNCHANGED vars
  BY <1>3 DEF vars, accountVars, sessionVars, callVars, recoveryVars, Typed, AccountsTyped,
              RecoveryTyped, CallTyped
<1>4. ASSUME NEW p \in Requests, NEW u \in Users, NEW ip \in Ips, Request(p, u, ip)
      PROVE  Typed'
  <2> DEFINE c == [op |-> "REQUEST", user |-> u, ip |-> ip, id |-> calls + 1,
                   now |-> clock, saw |-> 0]
  <2>1. Begin(p, c, "retire") /\ UNCHANGED <<others, recoveryVars>>
    BY <1>4 DEF Request
  <2>2. /\ calls + 1 \in Ids /\ calls' \in 0..MaxCalls
        /\ DOMAIN pc' = Requests /\ DOMAIN call' = Requests
        /\ pc'[p] = "retire" /\ call'[p] = c /\ rowLock' = rowLock
        /\ \A q \in Requests \ {p} : CallTyped(q)'
    BY <1>1, <2>1, BeginTyped DEF others, accountVars
  <2>3. c \in RequestCalls
    BY <1>1, <2>2 DEF RequestCalls, AccountsTyped
  <2>4. CallTyped(p)'
    BY <2>2, <2>3 DEF CallTyped, LoginPlaces, StatusPlaces
  <2> QED BY <1>1, <2>1, <2>2, <2>4
          DEF Typed, AccountsTyped, RecoveryTyped, others, accountVars, sessionVars, recoveryVars
<1>5. ASSUME NEW p \in Requests, Return(p), UNCHANGED others, RecoveryTyped' PROVE Typed'
  <2>1. /\ DOMAIN pc' = Requests /\ DOMAIN call' = Requests
        /\ calls' = calls
        /\ rowLock' \in [Users -> Requests \union {NoRequest}]
        /\ \A q \in Requests : CallTyped(q)'
    BY <1>1, <1>5, ReturnTyped DEF others, accountVars
  <2> QED BY <1>1, <1>5, <2>1 DEF Typed, AccountsTyped, others, accountVars, sessionVars
<1>6. ASSUME NEW p \in Requests, Retire(p) PROVE Typed'
  <2> DEFINE c == [call[p] EXCEPT !["saw"] = Len(challenges)]
  <2>1. call[p] \in RequestCalls /\ Len(challenges) \in Nat
    BY <1>1, <1>6 DEF Retire, AccountsTyped, CallTyped, RecoveryTyped
  <2>2. c \in RequestCalls
    BY <2>1 DEF RequestCalls
  <2>3. /\ call' = [call EXCEPT ![p] = c] /\ pc' = [pc EXCEPT ![p] = "issue"]
        /\ UNCHANGED <<calls, rowLock>>
    BY <1>1, <1>6 DEF Retire, Set, AccountsTyped
  <2>4. /\ DOMAIN pc' = Requests /\ DOMAIN call' = Requests
        /\ pc'[p] = "issue" /\ call'[p] = c
        /\ \A q \in Requests \ {p} : CallTyped(q)'
    BY <1>1, <1>6, <2>3, OthersStay DEF Retire, others, accountVars
  <2>5. CallTyped(p)'
    BY <2>2, <2>4 DEF CallTyped, LoginPlaces, StatusPlaces
  <2>6. RecoveryTyped'
    BY <1>1, <1>6, SameRows, ConsumeTyped DEF Retire, RecoveryTyped
  <2> QED BY <1>1, <1>6, <2>3, <2>4, <2>5, <2>6
          DEF Typed, AccountsTyped, Retire, others, accountVars, sessionVars
<1>7. ASSUME NEW p \in Requests, Issue(p) PROVE Typed'
  <2>1. call[p] \in RequestCalls /\ clock \in Nat
    BY <1>1, <1>7 DEF Issue, AccountsTyped, CallTyped
  <2>2. 0 \in 0..MaxAttempts /\ Ttl \in Nat
    BY RecoveryAssumption
  <2>3. Challenge(call[p]) \in ChallengeRows
    BY <2>1, <2>2 DEF Challenge, ChallengeRows, RequestCalls
  <2>4. RecoveryTyped'
    BY <1>1, <1>7, <2>3 DEF Issue, RecoveryTyped
  <2> QED BY <1>5, <1>7, <2>4 DEF Issue
<1>8. ASSUME NEW p \in Requests, NEW u \in Users, NEW code \in Rows \union {Wrong},
             Verify(p, u, code)
      PROVE  Typed'
  <2> DEFINE d == Newest(Verifiable(u))
             c == [op |-> "VERIFY", user |-> u, id |-> calls + 1, code |-> code,
                   row |-> d, attempts |-> challenges[d].attempts]
  <2>1. d \in Rows
    BY <1>1, <1>8, NewestKnown DEF Verify
  <2>2. Begin(p, c, "verify") /\ UNCHANGED others
    BY <1>8 DEF Verify
  <2>3. /\ calls + 1 \in Ids /\ calls' \in 0..MaxCalls
        /\ DOMAIN pc' = Requests /\ DOMAIN call' = Requests
        /\ pc'[p] = "verify" /\ call'[p] = c /\ rowLock' = rowLock
        /\ \A q \in Requests \ {p} : CallTyped(q)'
    BY <1>1, <2>2, BeginTyped DEF others, accountVars
  <2>4. code \in Int /\ d \in Nat /\ challenges[d].attempts \in Nat
    BY <1>1, <2>1, RowTyped DEF Wrong, ChallengeRows
  <2>5. c \in VerifyCalls
    BY <2>3, <2>4 DEF VerifyCalls
  <2>6. CallTyped(p)'
    BY <2>3, <2>5 DEF CallTyped, LoginPlaces, StatusPlaces
  <2>7. challenges' \in [Rows -> ChallengeRows] /\ tickets' = tickets
    <3>1. ASSUME NEW e \in Rows, NEW b \in BOOLEAN
          PROVE  [challenges[e] EXCEPT !.shared = @ \/ b] \in ChallengeRows
                 /\ challenges[e] \in ChallengeRows
      BY <1>1, RowTyped DEF ChallengeRows
    <3>2. challenges' = [e \in Rows |-> IF e = d THEN [challenges[e] EXCEPT !.shared = @ \/ Verifying(d) # {}]
                                                 ELSE challenges[e]]
      BY <1>1, <1>8, <2>1 DEF Verify, Rows, RecoveryTyped
    <3> QED BY <1>8, <3>1, <3>2 DEF Verify
  <2>8. RecoveryTyped'
    BY <1>1, <2>7, SameRows DEF RecoveryTyped
  <2> QED BY <1>1, <2>2, <2>3, <2>6, <2>8
          DEF Typed, AccountsTyped, others, accountVars, sessionVars
<1>9. ASSUME NEW p \in Requests, Reject(p) PROVE Typed'
  <2> DEFINE d == call[p].row
  <2>1. call[p].attempts \in Nat /\ MaxAttempts \in Nat
    BY <1>1, <1>9, RecoveryAssumption DEF Reject, AccountsTyped, CallTyped, VerifyCalls
  <2>2. CASE Exhausted(p)
    BY <1>1, <1>5, <1>9, <2>2, ConsumeTyped, SameRows DEF Reject, RecoveryTyped
  <2>3. CASE ~Exhausted(p)
    <3> DEFINE n == call[p].attempts + 1
    <3>1. n \in 0..MaxAttempts /\ (n >= MaxAttempts) \in BOOLEAN
      BY <2>1, <2>3 DEF Exhausted
    <3>2. ASSUME NEW e \in Rows
          PROVE  Counted(e, n) \in ChallengeRows /\ challenges[e] \in ChallengeRows
      <4> HIDE DEF n
      <4>1. challenges[e] \in ChallengeRows
        BY <1>1, RowTyped
      <4>2. /\ challenges[e].guesses + 1 \in Nat
            /\ (challenges[e].consumed \/ n >= MaxAttempts) \in BOOLEAN
        BY <4>1 DEF ChallengeRows
      <4> QED BY <3>1, <4>1, <4>2 DEF Counted, ChallengeRows
    <3>3. challenges' = [e \in Rows |-> IF e = d THEN Counted(e, n) ELSE challenges[e]]
      BY <1>9, <2>3 DEF Reject, Rows
    <3>4. challenges' \in [Rows -> ChallengeRows]
      BY <3>2, <3>3
    <3>5. RecoveryTyped'
      BY <1>1, <1>9, <3>4, SameRows DEF Reject, RecoveryTyped
    <3> QED BY <1>5, <1>9, <3>5 DEF Reject
  <2> QED BY <2>2, <2>3
<1>10. ASSUME NEW p \in Requests, Accept(p) PROVE Typed'
  <2> DEFINE d == call[p].row
             New(e) == [challenges[e] EXCEPT !.ticket = call[p].id, !.verified = TRUE,
                                             !.until = clock + Ttl]
  <2>1. call[p].id \in Ids /\ call[p].id \in Nat /\ clock + Ttl \in Int
    BY <1>1, <1>10, RecoveryAssumption
    DEF Accept, AccountsTyped, CallTyped, VerifyCalls, Ids
  <2>2. ASSUME NEW e \in Rows
        PROVE  New(e) \in ChallengeRows /\ challenges[e] \in ChallengeRows
    <3>1. challenges[e] \in ChallengeRows
      BY <1>1, RowTyped
    <3> QED BY <2>1, <3>1 DEF ChallengeRows
  <2>3. challenges' = [e \in Rows |-> IF e = d THEN New(e) ELSE challenges[e]]
    BY <1>10 DEF Accept, Rows
  <2>4. challenges' \in [Rows -> ChallengeRows]
    BY <2>2, <2>3
  <2>5. RecoveryTyped'
    BY <1>1, <1>10, <2>1, <2>4, SameRows DEF Accept, RecoveryTyped
  <2> QED BY <1>5, <1>10, <2>5 DEF Accept
<1>11. ASSUME NEW p \in Requests, NEW t \in tickets, Redeem(p, t) PROVE Typed'
  <2>1. PICK d \in Redeemable(t) :
          Begin(p, [op |-> "RECOVER", user |-> challenges[d].user, id |-> calls + 1, row |-> d],
                "complete")
    BY <1>11 DEF Redeem
  <2> DEFINE c == [op |-> "RECOVER", user |-> challenges[d].user, id |-> calls + 1, row |-> d]
  <2>2. UNCHANGED others /\ UNCHANGED <<challenges, tickets>>
    BY <1>11 DEF Redeem
  <2>3. /\ calls + 1 \in Ids /\ calls' \in 0..MaxCalls
        /\ DOMAIN pc' = Requests /\ DOMAIN call' = Requests
        /\ pc'[p] = "complete" /\ call'[p] = c /\ rowLock' = rowLock
        /\ \A q \in Requests \ {p} : CallTyped(q)'
    BY <1>1, <2>1, <2>2, BeginTyped DEF others, accountVars
  <2>4. challenges[d].user \in Users /\ d \in Nat
    BY <1>1, RowTyped DEF Redeemable, ChallengeRows
  <2>5. c \in RecoverCalls
    BY <2>3, <2>4 DEF RecoverCalls
  <2>6. CallTyped(p)'
    BY <2>3, <2>5 DEF CallTyped, LoginPlaces, StatusPlaces
  <2> QED BY <1>1, <2>2, <2>3, <2>6
          DEF Typed, AccountsTyped, RecoveryTyped, others, accountVars, sessionVars
<1>12. ASSUME NEW p \in Requests, Complete(p) PROVE Typed'
  <2> DEFINE u == call[p].user
  <2>0. call[p] \in RecoverCalls
    BY <1>1, <1>12 DEF Complete, AccountsTyped, CallTyped
  <2>1. u \in Users /\ call[p].id \in Hashes
    BY <2>0 DEF RecoverCalls, Ids, Hashes
  <2>2. password' \in [Users -> Hashes]
    BY <1>1, <1>12, <2>1 DEF Complete, AccountsTyped
  <2>3. Goto(p, "revoke") /\ UNCHANGED <<exists, active, ended, sessions, clock, tickets>>
    BY <1>12 DEF Complete, sessionVars
  <2>4. /\ DOMAIN pc' = Requests /\ DOMAIN call' = Requests
        /\ pc'[p] = "revoke" /\ call'[p] = call[p]
        /\ calls' = calls /\ rowLock' = rowLock
        /\ \A q \in Requests \ {p} : CallTyped(q)'
    BY <1>1, <2>3, GotoTyped
  <2>5. CallTyped(p)'
    BY <2>1, <2>4 DEF CallTyped, LoginPlaces, StatusPlaces
  <2>6. challenges' \in [Rows -> ChallengeRows]
    <3>1. ASSUME NEW e \in Rows, NEW b \in BOOLEAN, NEW n \in Nat
          PROVE  [challenges[e] EXCEPT !.consumed = @ \/ b, !.uses = n] \in ChallengeRows
      <4>1. challenges[e] \in ChallengeRows
        BY <1>1, RowTyped
      <4> QED BY <4>1 DEF ChallengeRows
    <3>2. ASSUME NEW e \in Rows
          PROVE  [challenges[e] EXCEPT !.consumed = @ \/ e \in Pending(u),
                                       !.uses = IF e = call[p].row THEN @ + 1 ELSE @]
                   \in ChallengeRows
      <4> DEFINE n == IF e = call[p].row THEN challenges[e].uses + 1 ELSE challenges[e].uses
      <4>1. n \in Nat
        BY <1>1, RowTyped DEF ChallengeRows
      <4> HIDE DEF n
      <4>2. [challenges[e] EXCEPT !.consumed = @ \/ e \in Pending(u), !.uses = n] \in ChallengeRows
        BY <3>1, <4>1
      <4> QED BY <4>2 DEF n
    <3> QED BY <1>12, <3>2 DEF Complete
  <2>7. RecoveryTyped'
    BY <1>1, <2>3, <2>6, SameRows DEF RecoveryTyped
  <2> QED BY <1>1, <2>2, <2>3, <2>4, <2>5, <2>7 DEF Typed, AccountsTyped
<1> QED
  BY <1>2, <1>3, <1>4, <1>6, <1>7, <1>8, <1>9, <1>10, <1>11, <1>12 DEF Next, Recovery

-----------------------------------------------------------------------------
(* Sessions *)

\* A status change holds the row of its account until it commits.
StatusHolds ==
  \A p \in Requests : pc[p] \in StatusPlaces => rowLock[call[p].user] = p

\* After the revocation of a deactivation no session of the account is left.
Emptied ==
  \A p \in Requests :
    pc[p] = "status_commit" /\ call[p].op = "DEACTIVATE" =>
      \A s \in sessions : s.user # call[p].user

SessionsKnown == \A s \in sessions : s.user \in exists /\ s.made = ended[s.user]

SessionsOK == StatusHolds /\ Emptied /\ SessionsKnown /\ OldSessionsEnd
SessionInv == Typed /\ SessionsOK

\* Only p moves, and at most gives its row back.
Moves(p) ==
  /\ \A q \in Requests \ {p} : pc'[q] = pc[q] /\ call'[q] = call[q]
  /\ \A u \in Users : rowLock[u] # p => rowLock'[u] = rowLock[u]

LEMMA StartMoves ==
  ASSUME Typed, NEW p \in Requests, NEW c, NEW label, Begin(p, c, label)
  PROVE  Moves(p) /\ pc[p] = "idle" /\ pc'[p] = label
  BY DEF Begin, Moves, Typed, AccountsTyped, InFlight

LEMMA GotoMoves ==
  ASSUME Typed, NEW p \in Requests, NEW label, Goto(p, label)
  PROVE  Moves(p) /\ pc'[p] = label /\ call'[p] = call[p] /\ rowLock' = rowLock
  BY DEF Goto, Moves, Typed, AccountsTyped

LEMMA ReturnMoves ==
  ASSUME Typed, NEW p \in Requests, Return(p)
  PROVE  Moves(p) /\ pc'[p] = "idle"
  BY DEF Return, Moves, Typed, AccountsTyped

LEMMA SetMoves ==
  ASSUME Typed, NEW p \in Requests, NEW field, NEW value, NEW label, Set(p, field, value, label)
  PROVE  Moves(p) /\ pc'[p] = label
  BY DEF Set, Moves, Typed, AccountsTyped

LEMMA SessionInvInit == Init => SessionInv
<1> SUFFICES ASSUME Init PROVE SessionInv
  OBVIOUS
<1>1. SessionsOK
  BY DEF Init, InitAccounts, SessionsOK, StatusHolds, Emptied, SessionsKnown, OldSessionsEnd,
         StatusPlaces
<1> QED BY <1>1, TypedInit DEF SessionInv

\* What a step does that neither opens a session nor ends a password or an account.
LEMMA QuietStep ==
  ASSUME SessionInv, NEW p \in Requests, Moves(p),
         pc[p] # "revoke", pc'[p] \notin StatusPlaces,
         exists \subseteq exists', sessions' \subseteq sessions,
         abandoned \subseteq abandoned', ended' = ended,
         \A u \in exists : password'[u] = password[u]
  PROVE  SessionsOK'
<1> USE DEF SessionInv, SessionsOK
<1>1. StatusHolds'
  <2> SUFFICES ASSUME NEW q \in Requests, pc'[q] \in StatusPlaces
               PROVE  rowLock'[call'[q].user] = q
    BY DEF StatusHolds
  <2>1. q # p /\ pc'[q] = pc[q] /\ call'[q] = call[q]
    BY DEF Moves
  <2>2. rowLock[call[q].user] = q /\ call[q].user \in Users
    BY <2>1 DEF StatusHolds, Typed, AccountsTyped, CallTyped
  <2> QED BY <2>1, <2>2 DEF Moves
<1>2. Emptied'
  <2> SUFFICES ASSUME NEW q \in Requests, pc'[q] = "status_commit", call'[q].op = "DEACTIVATE",
                      NEW s \in sessions'
               PROVE  s.user # call'[q].user
    BY DEF Emptied
  <2>1. q # p /\ pc'[q] = pc[q] /\ call'[q] = call[q]
    BY DEF Moves, StatusPlaces
  <2> QED BY <2>1 DEF Emptied
<1>3. SessionsKnown'
  BY DEF SessionsKnown
<1>4. OldSessionsEnd'
  <2> SUFFICES ASSUME NEW s \in sessions', s.with # password'[s.user],
                      s.user \notin abandoned', s.current
               PROVE  \E q \in Requests : pc'[q] = "revoke" /\ call'[q].user = s.user
    BY DEF OldSessionsEnd
  <2>1. s \in sessions /\ s.user \in exists /\ s.user \notin abandoned
    BY DEF SessionsKnown
  <2>2. PICK q \in Requests : pc[q] = "revoke" /\ call[q].user = s.user
    BY <2>1 DEF OldSessionsEnd
  <2>3. pc'[q] = "revoke" /\ call'[q].user = s.user
    BY <2>2 DEF Moves
  <2> QED BY <2>3
<1> QED BY <1>1, <1>2, <1>3, <1>4

\* The write of a password, which goes on to revoke.
LEMMA PasswordStep ==
  ASSUME SessionInv, NEW p \in Requests, Goto(p, "revoke"), pc[p] # "revoke",
         call[p].user \in Users,
         password' = [password EXCEPT ![call[p].user] = call[p].id],
         UNCHANGED <<exists, ended, sessions, abandoned>>
  PROVE  SessionsOK'
<1> USE DEF SessionInv, SessionsOK
<1>1. Moves(p) /\ pc'[p] = "revoke" /\ call'[p] = call[p] /\ rowLock' = rowLock
  BY GotoMoves
<1>2. StatusHolds' /\ Emptied' /\ SessionsKnown'
  BY <1>1 DEF StatusHolds, Emptied, SessionsKnown, Moves, StatusPlaces
<1>3. OldSessionsEnd'
  <2> SUFFICES ASSUME NEW s \in sessions, s.with # password'[s.user],
                      s.user \notin abandoned, s.current
               PROVE  \E q \in Requests : pc'[q] = "revoke" /\ call'[q].user = s.user
    BY DEF OldSessionsEnd
  <2>1. CASE s.user = call[p].user
    BY <1>1, <2>1
  <2>2. CASE s.user # call[p].user
    <3>1. password'[s.user] = password[s.user]
      BY <2>2 DEF Typed, AccountsTyped, SessionRows
    <3>2. PICK q \in Requests : pc[q] = "revoke" /\ call[q].user = s.user
      BY <3>1 DEF OldSessionsEnd
    <3>3. pc'[q] = "revoke" /\ call'[q].user = s.user
      BY <1>1, <3>2 DEF Moves
    <3> QED BY <3>3
  <2> QED BY <2>1, <2>2
<1> QED BY <1>2, <1>3

LEMMA SessionsNext == SessionInv /\ [Next]_vars => SessionsOK'
<1> SUFFICES ASSUME SessionInv, [Next]_vars PROVE SessionsOK'
  OBVIOUS
<1> USE RequestsAssumption DEF SessionInv, SessionsOK
<1>1. CASE UNCHANGED vars
  BY <1>1 DEF vars, accountVars, sessionVars, callVars, StatusHolds, Emptied, SessionsKnown,
              OldSessionsEnd
<1>2. ASSUME NEW p \in Requests, NEW c, NEW label, Begin(p, c, label),
             label \notin StatusPlaces, UNCHANGED <<accountVars, sessionVars>>
      PROVE  SessionsOK'
  BY <1>2, StartMoves, QuietStep DEF accountVars, sessionVars
<1>3. ASSUME NEW p \in Requests, Return(p), pc[p] # "revoke",
             UNCHANGED <<accountVars, sessionVars>>
      PROVE  SessionsOK'
  BY <1>3, ReturnMoves, QuietStep DEF accountVars, sessionVars, StatusPlaces
<1>4. ASSUME NEW p \in Requests, NEW label, Goto(p, label), pc[p] # "revoke",
             label \notin StatusPlaces, UNCHANGED <<accountVars, sessionVars>>
      PROVE  SessionsOK'
  BY <1>4, GotoMoves, QuietStep DEF accountVars, sessionVars
<1>5. ASSUME NEW p \in Requests, NEW field, NEW value, NEW label, Set(p, field, value, label),
             pc[p] # "revoke", label \notin StatusPlaces, UNCHANGED <<accountVars, sessionVars>>
      PROVE  SessionsOK'
  BY <1>5, SetMoves, QuietStep DEF accountVars, sessionVars
<1> USE DEF StatusPlaces
<1>6. ASSUME NEW p \in Requests, NEW u \in Users, NEW ip \in Ips, NEW guess,
             Login(p, u, ip, guess)
      PROVE  SessionsOK'
  BY <1>2, <1>6 DEF Login
<1>7. ASSUME NEW p \in Requests, NEW u \in Users,
             \/ Reset(p, u) \/ ResetSuperAdmin(p, u) \/ ProvisionSuperAdmin(p, u)
             \/ \E look \in BOOLEAN : Create(p, u, look)
      PROVE  SessionsOK'
  BY <1>2, <1>7 DEF Reset, Create, ResetSuperAdmin, ProvisionSuperAdmin, Script
<1>8. ASSUME NEW p \in Requests, NEW s \in sessions, NEW guess, Change(p, s, guess)
      PROVE  SessionsOK'
  BY <1>2, <1>8 DEF Change
<1>9. ASSUME NEW p \in Requests, NEW u \in Users, NEW op \in {"ACTIVATE", "DEACTIVATE"},
             LockRow(p, u, op)
      PROVE  SessionsOK'
  <2>1. /\ pc[p] = "idle" /\ rowLock[u] \in {NoRequest, p}
        /\ pc'[p] = IF op = "DEACTIVATE" THEN "status_revoke" ELSE "status_commit"
        /\ call'[p] = [op |-> op, user |-> u, id |-> calls + 1]
        /\ \A q \in Requests \ {p} : pc'[q] = pc[q] /\ call'[q] = call[q]
        /\ rowLock' = [rowLock EXCEPT ![u] = p]
        /\ UNCHANGED <<exists, password, ended, sessions, abandoned>>
    BY <1>9 DEF LockRow, InFlight, RowFree, Typed, AccountsTyped, accountVars, sessionVars
  <2>2. StatusHolds'
    <3> SUFFICES ASSUME NEW q \in Requests, pc'[q] \in StatusPlaces
                 PROVE  rowLock'[call'[q].user] = q
      BY DEF StatusHolds
    <3>1. CASE q = p
      BY <2>1, <3>1 DEF Typed, AccountsTyped
    <3>2. CASE q # p
      <4>1. rowLock[call[q].user] = q /\ call[q].user \in Users
        BY <2>1, <3>2 DEF StatusHolds, Typed, AccountsTyped, CallTyped
      <4> QED BY <2>1, <3>2, <4>1 DEF Typed, AccountsTyped
    <3> QED BY <3>1, <3>2
  <2>3. Emptied' /\ SessionsKnown' /\ OldSessionsEnd'
    BY <2>1 DEF Emptied, SessionsKnown, OldSessionsEnd
  <2> QED BY <2>2, <2>3
<1>10. ASSUME NEW p \in Requests, LoginRead(p) PROVE SessionsOK'
  <2> DEFINE u == call[p].user
             c == [call[p] EXCEPT !.hash = password[u], !.seen = ended[u]]
  <2>0. pc[p] = "login_read" /\ UNCHANGED <<accountVars, sessionVars>>
    BY <1>10 DEF LoginRead
  <2>1. CASE Return(p)
    BY <1>3, <2>0, <2>1
  <2>2. CASE /\ call' = [call EXCEPT ![p] = c]
             /\ pc' = [pc EXCEPT ![p] = "login_verify"]
             /\ UNCHANGED rowLock
    <3> HIDE DEF c
    <3>1. Moves(p) /\ pc'[p] = "login_verify"
      BY <2>2 DEF Moves, Typed, AccountsTyped
    <3> QED BY <2>0, <3>1, QuietStep DEF accountVars, sessionVars
  <2> QED BY <1>10, <2>1, <2>2 DEF LoginRead
<1>11. ASSUME NEW p \in Requests, LoginVerify(p) PROVE SessionsOK'
  BY <1>3, <1>4, <1>11 DEF LoginVerify
<1>12. ASSUME NEW p \in Requests, LoginInsert(p) PROVE SessionsOK'
  <2> DEFINE new == Session(call[p])
  <2>1. /\ Moves(p) /\ pc'[p] = "login_stamp" /\ rowLock' = rowLock
        /\ pc[p] = "login_insert" /\ rowLock[call[p].user] \in {NoRequest, p}
        /\ sessions' = sessions \union {new}
        /\ UNCHANGED <<exists, password, ended, abandoned>>
    BY <1>12, GotoMoves DEF LoginInsert, RowFree, accountVars
  <2>2. /\ new.user = call[p].user /\ new.made = ended[call[p].user]
        /\ new.with # password[call[p].user] => ~new.current
    BY DEF Session
  <2>3. call[p].user \in exists
    BY <2>1 DEF Typed, AccountsTyped, CallTyped
  <2>4. StatusHolds'
    BY <2>1 DEF StatusHolds, Moves
  <2>5. Emptied'
    <3> SUFFICES ASSUME NEW q \in Requests, pc'[q] = "status_commit",
                        call'[q].op = "DEACTIVATE", NEW s \in sessions'
                 PROVE  s.user # call'[q].user
      BY DEF Emptied
    <3>1. q # p /\ pc[q] = "status_commit" /\ call'[q] = call[q]
      BY <2>1 DEF Moves
    <3>2. rowLock[call[q].user] = q
      BY <3>1 DEF StatusHolds
    <3>3. call[p].user # call[q].user
      BY <2>1, <3>1, <3>2
    <3> QED BY <2>1, <2>2, <3>1, <3>3 DEF Emptied
  <2>6. SessionsKnown'
    BY <2>1, <2>2, <2>3 DEF SessionsKnown
  <2>7. OldSessionsEnd'
    <3> SUFFICES ASSUME NEW s \in sessions', s.with # password[s.user],
                        s.user \notin abandoned, s.current
                 PROVE  \E q \in Requests : pc'[q] = "revoke" /\ call'[q].user = s.user
      BY <2>1 DEF OldSessionsEnd
    <3>1. s \in sessions
      BY <2>1, <2>2
    <3>2. PICK q \in Requests : pc[q] = "revoke" /\ call[q].user = s.user
      BY <3>1 DEF OldSessionsEnd
    <3> QED BY <2>1, <3>2 DEF Moves
  <2> QED BY <2>4, <2>5, <2>6, <2>7
<1>13. ASSUME NEW p \in Requests, LoginStamp(p) PROVE SessionsOK'
  BY <1>3, <1>13 DEF LoginStamp
<1>14. ASSUME NEW p \in Requests, ChangeRead(p) PROVE SessionsOK'
  BY <1>3, <1>5, <1>14 DEF ChangeRead
<1>15. ASSUME NEW p \in Requests, SetPassword(p) PROVE SessionsOK'
  <2>1. call[p].user \in Users
    BY <1>15 DEF SetPassword, Typed, AccountsTyped, CallTyped, ChangeCalls, PlainCalls
  <2> QED BY <1>15, <2>1, PasswordStep DEF SetPassword, sessionVars
<1>16. ASSUME NEW p \in Requests, Complete(p) PROVE SessionsOK'
  <2>1. call[p].user \in Users
    BY <1>16 DEF Complete, Typed, AccountsTyped, CallTyped, RecoverCalls
  <2> QED BY <1>16, <2>1, PasswordStep DEF Complete, sessionVars
<1>17. ASSUME NEW p \in Requests, Return(p), pc[p] = "revoke",
              \/ /\ sessions' = {s \in sessions : s.user # call[p].user}
                 /\ abandoned' = abandoned \ {call[p].user}
              \/ sessions' = sessions /\ abandoned' = abandoned \union {call[p].user},
              UNCHANGED <<exists, password, ended>>
       PROVE  SessionsOK'
  <2>1. Moves(p) /\ pc'[p] = "idle"
    BY <1>17, ReturnMoves
  <2>2. StatusHolds'
    <3> SUFFICES ASSUME NEW q \in Requests, pc'[q] \in StatusPlaces
                 PROVE  rowLock'[call'[q].user] = q
      BY DEF StatusHolds
    <3>1. q # p /\ pc'[q] = pc[q] /\ call'[q] = call[q]
      BY <2>1 DEF Moves
    <3>2. rowLock[call[q].user] = q /\ call[q].user \in Users
      BY <3>1 DEF StatusHolds, Typed, AccountsTyped, CallTyped
    <3> QED BY <2>1, <3>1, <3>2 DEF Moves
  <2>3. Emptied' /\ SessionsKnown'
    BY <1>17, <2>1 DEF Emptied, SessionsKnown, Moves
  <2>4. OldSessionsEnd'
    <3> SUFFICES ASSUME NEW s \in sessions', s.with # password[s.user],
                        s.user \notin abandoned', s.current
                 PROVE  \E q \in Requests : pc'[q] = "revoke" /\ call'[q].user = s.user
      BY <1>17 DEF OldSessionsEnd
    <3>1. s \in sessions /\ s.user # call[p].user /\ s.user \notin abandoned
      <4>1. s \in sessions
        BY <1>17
      <4>2. s.user # call[p].user
        BY <1>17
      <4> QED BY <1>17, <4>1, <4>2
    <3>2. PICK q \in Requests : pc[q] = "revoke" /\ call[q].user = s.user
      BY <3>1 DEF OldSessionsEnd
    <3> QED BY <2>1, <3>1, <3>2 DEF Moves
  <2> QED BY <2>2, <2>3, <2>4
<1>18. ASSUME NEW p \in Requests, Revoke(p) PROVE SessionsOK'
  BY <1>17, <1>18 DEF Revoke, RevokeAll, accountVars
<1>19. ASSUME NEW p \in Requests, Fail(p) PROVE SessionsOK'
  BY <1>3, <1>17, <1>19 DEF Fail, accountVars, sessionVars
<1>20. ASSUME NEW p \in Requests, StatusRevoke(p) PROVE SessionsOK'
  <2>1. /\ Moves(p) /\ pc'[p] = "status_commit" /\ call'[p] = call[p] /\ rowLock' = rowLock
        /\ pc[p] = "status_revoke"
        /\ sessions' = {s \in sessions : s.user # call[p].user}
        /\ UNCHANGED <<exists, password, ended, abandoned>>
    BY <1>20, GotoMoves DEF StatusRevoke, RevokeAll, accountVars
  <2>2. StatusHolds'
    BY <2>1 DEF StatusHolds, Moves
  <2>3. Emptied'
    BY <2>1 DEF Emptied, Moves
  <2>4. SessionsKnown'
    BY <2>1 DEF SessionsKnown
  <2>5. OldSessionsEnd'
    <3> SUFFICES ASSUME NEW s \in sessions', s.with # password[s.user],
                        s.user \notin abandoned, s.current
                 PROVE  \E q \in Requests : pc'[q] = "revoke" /\ call'[q].user = s.user
      BY <2>1 DEF OldSessionsEnd
    <3>1. PICK q \in Requests : pc[q] = "revoke" /\ call[q].user = s.user
      BY <2>1 DEF OldSessionsEnd
    <3> QED BY <2>1, <3>1 DEF Moves
  <2> QED BY <2>2, <2>3, <2>4, <2>5
<1>21. ASSUME NEW p \in Requests, StatusCommit(p) PROVE SessionsOK'
  <2> DEFINE u == call[p].user
  <2>1. /\ Moves(p) /\ pc'[p] = "idle" /\ pc[p] = "status_commit"
        /\ UNCHANGED <<exists, password, sessions, abandoned>>
    BY <1>21, ReturnMoves DEF StatusCommit, sessionVars
  <2>2. \A s \in sessions : ended'[s.user] = ended[s.user]
    <3>1. CASE call[p].op = "DEACTIVATE"
      <4>1. \A s \in sessions : s.user # u /\ s.user \in Users
        BY <2>1, <3>1 DEF Emptied, Typed, AccountsTyped, SessionRows
      <4> QED BY <1>21, <3>1, <4>1 DEF StatusCommit, Typed, AccountsTyped
    <3>2. CASE call[p].op # "DEACTIVATE"
      BY <1>21, <3>2 DEF StatusCommit
    <3> QED BY <3>1, <3>2
  <2>3. SessionsKnown'
    BY <2>1, <2>2 DEF SessionsKnown
  <2>4. StatusHolds' /\ Emptied'
    <3>1. ASSUME NEW q \in Requests, pc'[q] \in StatusPlaces
          PROVE  q # p /\ pc'[q] = pc[q] /\ call'[q] = call[q]
                 /\ rowLock[call[q].user] = q /\ call[q].user \in Users
      BY <2>1, <3>1 DEF Moves, StatusHolds, Typed, AccountsTyped, CallTyped
    <3> QED BY <2>1, <3>1 DEF StatusHolds, Emptied, Moves
  <2>5. OldSessionsEnd'
    <3> SUFFICES ASSUME NEW s \in sessions, s.with # password[s.user],
                        s.user \notin abandoned, s.current
                 PROVE  \E q \in Requests : pc'[q] = "revoke" /\ call'[q].user = s.user
      BY <2>1 DEF OldSessionsEnd
    <3>1. PICK q \in Requests : pc[q] = "revoke" /\ call[q].user = s.user
      BY DEF OldSessionsEnd
    <3> QED BY <2>1, <3>1 DEF Moves
  <2> QED BY <2>3, <2>4, <2>5
<1>22. ASSUME NEW p \in Requests, CreateLook(p) PROVE SessionsOK'
  BY <1>3, <1>4, <1>22 DEF CreateLook
<1>23. ASSUME NEW p \in Requests, CreateInsert(p) PROVE SessionsOK'
  <2> DEFINE u == call[p].user
  <2>1. CASE u \in exists
    BY <1>3, <1>23, <2>1 DEF CreateInsert
  <2>2. CASE u \notin exists
    <3>1. /\ exists' = exists \union {u}
          /\ password' = [password EXCEPT ![u] = call[p].id]
          /\ UNCHANGED <<ended, sessions, abandoned>>
          /\ Goto(p, "revoke") \/ Return(p)
          /\ pc[p] = "create"
      BY <1>23, <2>2 DEF CreateInsert, sessionVars
    <3>2. Moves(p) /\ pc'[p] \notin StatusPlaces
      BY <3>1, GotoMoves, ReturnMoves
    <3>3. \A v \in exists : password'[v] = password[v]
      BY <2>2, <3>1 DEF Typed, AccountsTyped
    <3> QED BY <3>1, <3>2, <3>3, QuietStep
  <2> QED BY <2>1, <2>2
<1>24. ASSUME Restart PROVE SessionsOK'
  <2>1. /\ \A q \in Requests : \/ pc'[q] = "idle" /\ ~Survives(q)
                               \/ pc'[q] = pc[q] /\ call'[q] = call[q] /\ Survives(q)
        /\ abandoned' = abandoned \union
             {call[q].user : q \in {r \in Requests : pc[r] = "revoke" /\ ~Survives(r)}}
        /\ UNCHANGED <<exists, password, ended, sessions>>
    BY <1>24 DEF Restart, accountVars
  <2>2. ASSUME NEW q \in Requests PROVE pc'[q] \notin StatusPlaces
    BY <2>1 DEF Survives, Typed, AccountsTyped, CallTyped, PlainCalls
  <2>3. StatusHolds' /\ Emptied' /\ SessionsKnown'
    BY <2>1, <2>2 DEF StatusHolds, Emptied, SessionsKnown
  <2>4. OldSessionsEnd'
    <3> SUFFICES ASSUME NEW s \in sessions, s.with # password[s.user],
                        s.user \notin abandoned', s.current
                 PROVE  \E q \in Requests : pc'[q] = "revoke" /\ call'[q].user = s.user
      BY <2>1 DEF OldSessionsEnd
    <3>1. PICK q \in Requests : pc[q] = "revoke" /\ call[q].user = s.user
      BY <2>1 DEF OldSessionsEnd
    <3>2. Survives(q)
      BY <2>1, <3>1
    <3> QED BY <2>1, <3>1, <3>2
  <2> QED BY <2>3, <2>4
<1>25. ASSUME NEW s \in sessions, EndSession(s) PROVE SessionsOK'
  BY <1>25 DEF EndSession, accountVars, callVars, StatusHolds, Emptied, SessionsKnown,
               OldSessionsEnd
<1>26. ASSUME Tick PROVE SessionsOK'
  BY <1>26 DEF Tick, accountVars, sessionVars, callVars, StatusHolds, Emptied, SessionsKnown,
               OldSessionsEnd
<1>27. CASE Elsewhere
  BY <1>6, <1>7, <1>8, <1>9, <1>10, <1>11, <1>12, <1>13, <1>14, <1>15, <1>18, <1>19, <1>20,
     <1>21, <1>22, <1>23, <1>24, <1>25, <1>26, <1>27
  DEF Elsewhere, NextAccounts
<1>28. ASSUME NEW p \in Requests, NEW u \in Users, NEW ip \in Ips, Request(p, u, ip)
       PROVE  SessionsOK'
  BY <1>2, <1>28 DEF Request, others
<1>29. ASSUME NEW p \in Requests, NEW u \in Users, NEW code, Verify(p, u, code)
       PROVE  SessionsOK'
  BY <1>2, <1>29 DEF Verify, others
<1>30. ASSUME NEW p \in Requests, NEW t, Redeem(p, t) PROVE SessionsOK'
  BY <1>2, <1>30 DEF Redeem, others
<1>31. ASSUME NEW p \in Requests, Retire(p) \/ Issue(p) \/ Reject(p) \/ Accept(p)
       PROVE  SessionsOK'
  BY <1>3, <1>5, <1>31 DEF Retire, Issue, Reject, Accept, others
<1> QED BY <1>1, <1>16, <1>27, <1>28, <1>29, <1>30, <1>31 DEF Next, Recovery

\* A session ends with the password it was opened with and with its account, for any number
\* of overlapping logins, changes, resets, status changes, recoveries and restarts
\* (changePassword and resetUserPassword, auth.service.ts:85; S4).
THEOREM SessionsEndTogether == Spec => []SessionsEnd
<1>1. SessionInv /\ [Next]_vars => SessionInv'
  BY TypedNext, SessionsNext DEF SessionInv
<1>2. SessionInv => SessionsEnd
  BY DEF SessionInv, SessionsOK, SessionsKnown, SessionsEnd, DeactivationEndsSessions, Usable
<1> QED BY SessionInvInit, <1>1, <1>2, PTL DEF Spec

-----------------------------------------------------------------------------
(* Passwords *)

\* An account keeps its password until somebody who was allowed to sets another: a user who
\* knows the old one, an administrator, an operator or the holder of a ticket
\* (changePassword, resetUserPassword, the scripts, completePasswordReset).
THEOREM PasswordsAreKept == Spec => PasswordKept
<1> DEFINE A(p, u) == /\ InFlight(p)
                      /\ call[p].op \in {"CHANGE", "RESET", "RECOVER", "OPERATOR"}
                      /\ call[p].user = u
           Kept == \A u \in exists : password[u] # (password')[u] => \E p \in Requests : A(p, u)
<1>1. ASSUME Typed, [Next]_vars PROVE Kept
  <2>1. CASE UNCHANGED password
    BY <2>1
  <2>2. ASSUME NEW p \in Requests, SetPassword(p) PROVE Kept
    <3>1. A(p, call[p].user)
      BY <1>1, <2>2 DEF SetPassword, InFlight, Typed, AccountsTyped, CallTyped, ChangeCalls,
                        PlainCalls
    <3>2. \A u \in exists : u # call[p].user => password'[u] = password[u]
      BY <1>1, <2>2 DEF SetPassword, Typed, AccountsTyped
    <3> QED BY <3>1, <3>2
  <2>3. ASSUME NEW p \in Requests, Complete(p) PROVE Kept
    <3>1. A(p, call[p].user)
      BY <1>1, <2>3 DEF Complete, InFlight, Typed, AccountsTyped, CallTyped, RecoverCalls
    <3>2. \A u \in exists : u # call[p].user => password'[u] = password[u]
      BY <1>1, <2>3 DEF Complete, Typed, AccountsTyped
    <3> QED BY <3>1, <3>2
  <2>4. ASSUME NEW p \in Requests, CreateInsert(p) PROVE Kept
    <3>1. \A u \in exists : password'[u] = password[u]
      BY <1>1, <2>4 DEF CreateInsert, Typed, AccountsTyped, accountVars
    <3> QED BY <3>1
  <2>5. CASE Recovery
    BY <2>1, <2>3, <2>5
    DEF Recovery, Request, Verify, Redeem, Retire, Issue, Reject, Accept, others, accountVars
  <2>6. ASSUME NEW p \in Requests, NEW u \in Users,
               \/ \E ip \in Ips, guess \in {password[u], Wrong} : Login(p, u, ip, guess)
               \/ Reset(p, u)
               \/ \E op \in {"ACTIVATE", "DEACTIVATE"} : LockRow(p, u, op)
               \/ \E look \in BOOLEAN : Create(p, u, look)
               \/ ResetSuperAdmin(p, u) \/ ProvisionSuperAdmin(p, u)
        PROVE  UNCHANGED password
    BY <2>6 DEF accountVars, Login, Reset, LockRow, Create, ResetSuperAdmin, ProvisionSuperAdmin,
                Script
  <2>7. ASSUME NEW p \in Requests,
               \/ \E s \in sessions : \E guess \in {password[s.user], Wrong} : Change(p, s, guess)
               \/ LoginVerify(p) \/ LoginInsert(p) \/ LoginStamp(p)
               \/ ChangeRead(p) \/ Revoke(p) \/ StatusRevoke(p) \/ StatusCommit(p)
               \/ CreateLook(p) \/ Fail(p)
        PROVE  UNCHANGED password
    BY <2>7 DEF accountVars, Change, LoginVerify, LoginInsert, LoginStamp, ChangeRead, Revoke,
                StatusRevoke, StatusCommit, CreateLook, Fail
  <2>8. ASSUME NEW p \in Requests, LoginRead(p) PROVE UNCHANGED password
    <3>1. UNCHANGED accountVars
      BY <2>8 DEF LoginRead
    <3> QED BY <3>1 DEF accountVars
  <2>9. ASSUME (\E s \in sessions : EndSession(s)) \/ Restart \/ Tick PROVE UNCHANGED password
    BY <2>9 DEF accountVars, EndSession, Restart, Tick
  <2>10. CASE NextAccounts
    BY <2>1, <2>2, <2>4, <2>6, <2>7, <2>8, <2>9, <2>10 DEF NextAccounts
  <2>11. CASE UNCHANGED vars
    BY <2>1, <2>11 DEF vars, accountVars
  <2> QED BY <1>1, <2>5, <2>10, <2>11 DEF Next, Elsewhere
<1>2. Typed /\ [Next]_vars => [Kept]_<<accountVars, sessionVars, pc>>
  BY <1>1
<1> QED BY TypedInit, TypedNext, <1>2, PTL DEF Spec, PasswordKept

-----------------------------------------------------------------------------
(* Codes and tickets *)

\* A completion holds the challenge of its ticket, which is not consumed before it commits.
Completing ==
  \A p \in Requests : pc[p] = "complete" =>
    /\ call[p].row \in Rows
    /\ call[p].row \in DOMAIN rowHolder /\ rowHolder[call[p].row] = p
    /\ ~challenges[call[p].row].consumed
    /\ challenges[call[p].row].user = call[p].user

UsesConsume == \A c \in Rows : /\ challenges[c].uses \in {0, 1}
                               /\ challenges[c].uses = 1 => challenges[c].consumed

\* What is active of the account came after the retirement of the request that inserts next.
Issuing ==
  \A p \in Requests : pc[p] = "issue" =>
    /\ call[p].saw <= Len(challenges)
    /\ \A c \in Pending(call[p].user) : call[p].saw < c

\* A challenge nobody shared: its guesses are its attempts, and its verification read them.
UnsharedCounts ==
  \A c \in Rows : ~challenges[c].shared =>
    /\ challenges[c].guesses = challenges[c].attempts
    /\ \A p \in Verifying(c) : call[p].attempts = challenges[c].attempts
    /\ \A p, q \in Verifying(c) : p = q

VerifyingKnown == \A p \in Requests : pc[p] = "verify" => call[p].row \in Rows

CodesOK ==
  /\ Completing /\ UsesConsume /\ Issuing /\ UnsharedCounts /\ VerifyingKnown
  /\ SpentIsConsumed /\ OneActiveChallenge
CodeInv == Typed /\ CodesOK

LEMMA CodeInvInit == Init => CodeInv
<1> SUFFICES ASSUME Init PROVE CodeInv
  OBVIOUS
<1>1. Rows = {}
  BY DEF Init, Rows
<1>2. \A p \in Requests : pc[p] = "idle"
  BY DEF Init, InitAccounts
<1>3. CodesOK
  BY <1>1, <1>2 DEF CodesOK, Completing, UsesConsume, Issuing, UnsharedCounts, VerifyingKnown,
                    SpentIsConsumed, OneActiveChallenge, Pending, ChallengesOf
<1> QED BY <1>3, TypedInit DEF CodeInv

\* No step of another operation enters a place of a recovery.
LEMMA RecoveriesStay ==
  ASSUME Typed, NextAccounts, NEW q \in Requests, pc'[q] \in RecoveryPlaces
  PROVE  pc'[q] = pc[q] /\ call'[q] = call[q]
<1> USE DEF RecoveryPlaces
<1>1. ASSUME NEW p \in Requests, Moves(p), pc'[p] \notin RecoveryPlaces
      PROVE  pc'[q] = pc[q] /\ call'[q] = call[q]
  BY <1>1 DEF Moves
<1>2. ASSUME NEW p \in Requests, NEW c, NEW label, Begin(p, c, label),
             label \notin RecoveryPlaces
      PROVE  pc'[q] = pc[q] /\ call'[q] = call[q]
  BY <1>1, <1>2, StartMoves
<1>3. ASSUME NEW p \in Requests, Return(p) PROVE pc'[q] = pc[q] /\ call'[q] = call[q]
  BY <1>1, <1>3, ReturnMoves
<1>4. ASSUME NEW p \in Requests, NEW label, Goto(p, label), label \notin RecoveryPlaces
      PROVE  pc'[q] = pc[q] /\ call'[q] = call[q]
  BY <1>1, <1>4, GotoMoves
<1>5. ASSUME NEW p \in Requests, NEW u \in Users,
             \/ Reset(p, u) \/ ResetSuperAdmin(p, u) \/ ProvisionSuperAdmin(p, u)
             \/ \E look \in BOOLEAN : Create(p, u, look)
      PROVE  pc'[q] = pc[q] /\ call'[q] = call[q]
  BY <1>2, <1>5 DEF Reset, Create, ResetSuperAdmin, ProvisionSuperAdmin, Script
<1>6. ASSUME NEW p \in Requests, NEW u \in Users, NEW op \in {"ACTIVATE", "DEACTIVATE"},
             LockRow(p, u, op)
      PROVE  pc'[q] = pc[q] /\ call'[q] = call[q]
  BY <1>6 DEF LockRow, Typed, AccountsTyped
<1>7. ASSUME NEW p \in Requests, LoginRead(p) PROVE pc'[q] = pc[q] /\ call'[q] = call[q]
  <2> DEFINE u == call[p].user
             c == [call[p] EXCEPT !.hash = password[u], !.seen = ended[u]]
  <2>1. CASE Return(p)
    BY <1>3, <2>1
  <2>2. CASE call' = [call EXCEPT ![p] = c] /\ pc' = [pc EXCEPT ![p] = "login_verify"]
    <3> HIDE DEF c
    <3> QED BY <2>2 DEF Typed, AccountsTyped
  <2> QED BY <1>7, <2>1, <2>2 DEF LoginRead
<1>8. ASSUME NEW p \in Requests,
             \/ LoginVerify(p) \/ LoginInsert(p) \/ LoginStamp(p)
             \/ SetPassword(p) \/ Revoke(p) \/ StatusRevoke(p) \/ StatusCommit(p)
             \/ CreateLook(p) \/ CreateInsert(p) \/ Fail(p)
      PROVE  pc'[q] = pc[q] /\ call'[q] = call[q]
  BY <1>3, <1>4, <1>8 DEF LoginVerify, LoginInsert, LoginStamp, SetPassword, Revoke,
                         StatusRevoke, StatusCommit, CreateLook, CreateInsert, Fail
<1>9. ASSUME NEW p \in Requests, ChangeRead(p) PROVE pc'[q] = pc[q] /\ call'[q] = call[q]
  BY <1>1, <1>3, <1>9, SetMoves DEF ChangeRead
<1>10. CASE Restart
  BY <1>10 DEF Restart
<1>11. CASE (\E s \in sessions : EndSession(s)) \/ Tick
  BY <1>11 DEF EndSession, Tick, callVars
<1>12. ASSUME NEW p \in Requests, NEW u \in Users, NEW ip \in Ips, NEW guess,
              Login(p, u, ip, guess)
       PROVE  pc'[q] = pc[q] /\ call'[q] = call[q]
  BY <1>2, <1>12 DEF Login
<1>13. ASSUME NEW p \in Requests, NEW s \in sessions, NEW guess, Change(p, s, guess)
       PROVE  pc'[q] = pc[q] /\ call'[q] = call[q]
  BY <1>2, <1>13 DEF Change
<1> QED BY <1>5, <1>6, <1>7, <1>8, <1>9, <1>10, <1>11, <1>12, <1>13 DEF NextAccounts

LEMMA CodesElsewhere ==
  ASSUME CodeInv, Elsewhere PROVE CodesOK'
<1> USE DEF CodeInv, CodesOK
<1>1. /\ \A q \in Requests : pc'[q] \in RecoveryPlaces => pc'[q] = pc[q] /\ call'[q] = call[q]
      /\ challenges' = challenges
  BY RecoveriesStay DEF Elsewhere
<1>2. Completing'
  <2> SUFFICES ASSUME NEW p \in Requests, pc'[p] = "complete"
               PROVE  /\ call'[p].row \in Rows'
                      /\ call'[p].row \in DOMAIN rowHolder' /\ rowHolder'[call'[p].row] = p
                      /\ ~challenges'[call'[p].row].consumed
                      /\ challenges'[call'[p].row].user = call'[p].user
    BY DEF Completing
  <2>1. pc[p] = "complete" /\ call'[p] = call[p]
    BY <1>1 DEF RecoveryPlaces
  <2>2. rowHolder' = [c \in {d \in DOMAIN rowHolder : pc'[rowHolder[d]] # "idle"} |-> rowHolder[c]]
    BY DEF Elsewhere
  <2> QED BY <1>1, <2>1, <2>2 DEF Completing, Rows
<1>3. UsesConsume' /\ SpentIsConsumed' /\ OneActiveChallenge'
  BY <1>1 DEF UsesConsume, SpentIsConsumed, OneActiveChallenge, Rows, Pending, ChallengesOf
<1>4. Issuing' /\ VerifyingKnown'
  BY <1>1 DEF Issuing, VerifyingKnown, Rows, Pending, ChallengesOf, RecoveryPlaces
<1>5. UnsharedCounts'
  <2>1. ASSUME NEW c \in Rows, NEW p \in Verifying(c)'
        PROVE  p \in Verifying(c) /\ call'[p] = call[p]
    BY <1>1, <2>1 DEF Verifying, RecoveryPlaces
  <2> QED BY <1>1, <2>1 DEF UnsharedCounts, Rows
<1> QED BY <1>2, <1>3, <1>4, <1>5

\* A step that leaves the tables alone and after which p is at most about to retire.
LEMMA TablesKept ==
  ASSUME CodeInv, NEW p \in Requests, Moves(p), pc'[p] = "retire",
         UNCHANGED <<challenges, rowHolder>>
  PROVE  CodesOK'
<1> USE DEF CodeInv, CodesOK
<1>1. \A q \in Requests : pc'[q] \in RecoveryPlaces \ {"retire"} =>
        q # p /\ pc'[q] = pc[q] /\ call'[q] = call[q]
  BY DEF Moves
<1>2. Completing'
  BY <1>1 DEF Completing, Rows, RecoveryPlaces
<1>3. UsesConsume' /\ SpentIsConsumed' /\ OneActiveChallenge'
  BY DEF UsesConsume, SpentIsConsumed, OneActiveChallenge, Rows, Pending, ChallengesOf
<1>4. Issuing' /\ VerifyingKnown'
  BY <1>1 DEF Issuing, VerifyingKnown, Rows, Pending, ChallengesOf, RecoveryPlaces
<1>5. UnsharedCounts'
  <2>1. ASSUME NEW c \in Rows, NEW q \in Verifying(c)'
        PROVE  q \in Verifying(c) /\ call'[q] = call[q]
    BY <1>1, <2>1 DEF Verifying, RecoveryPlaces
  <2> QED BY <2>1 DEF UnsharedCounts, Rows
<1> QED BY <1>2, <1>3, <1>4, <1>5

\* A step that changes fields of rows, of which none comes back to life, and whose request
\* neither completes, issues nor verifies afterwards. The rows a completion holds keep what
\* it relies on.
LEMMA RowsChanged ==
  ASSUME CodeInv, NEW p \in Requests, Moves(p), pc'[p] \notin {"complete", "issue", "verify"},
         Rows' = Rows, Len(challenges') = Len(challenges),
         \A c \in Rows : /\ challenges'[c].user = challenges[c].user
                         /\ challenges'[c].saw = challenges[c].saw
                         /\ challenges[c].consumed => challenges'[c].consumed,
         \A q \in Requests \ {p} : pc[q] = "complete" =>
           /\ call[q].row \in DOMAIN rowHolder' /\ rowHolder'[call[q].row] = q
           /\ ~challenges'[call[q].row].consumed
  PROVE  Completing' /\ Issuing' /\ VerifyingKnown' /\ OneActiveChallenge'
<1> USE DEF CodeInv, CodesOK
<1>1. \A q \in Requests : pc'[q] \in {"complete", "issue", "verify"} =>
        q \in Requests \ {p} /\ pc'[q] = pc[q] /\ call'[q] = call[q]
  BY DEF Moves
<1>2. Completing'
  BY <1>1 DEF Completing
<1>3. \A u : Pending(u)' \subseteq Pending(u)
  BY DEF Pending, ChallengesOf
<1>4. Issuing' /\ VerifyingKnown'
  BY <1>1, <1>3 DEF Issuing, VerifyingKnown
<1>5. OneActiveChallenge'
  <2> SUFFICES ASSUME NEW u \in Users, NEW c \in Pending(u)', NEW d \in Pending(u)', c < d
               PROVE  challenges'[d].saw < c
    BY DEF OneActiveChallenge
  <2>1. c \in Pending(u) /\ d \in Pending(u) /\ d \in Rows
    BY <1>3 DEF Pending, ChallengesOf
  <2> QED BY <2>1 DEF OneActiveChallenge
<1> QED BY <1>2, <1>4, <1>5

LEMMA RetireCodes == ASSUME CodeInv, NEW p \in Requests, Retire(p) PROVE CodesOK'
<1> USE DEF CodeInv, CodesOK
<1> DEFINE c1 == [call[p] EXCEPT !["saw"] = Len(challenges)]
<1>0. PICK u : u = call[p].user
  OBVIOUS
<1>1. /\ Moves(p) /\ pc'[p] = "issue" /\ pc[p] = "retire"
      /\ \A c \in Pending(u) : RowUnlocked(p, c)
      /\ challenges' = Consume(Pending(u))
      /\ rowHolder' = rowHolder
  BY <1>0, SetMoves DEF Retire
<1>2. call'[p].saw = Len(challenges) /\ call'[p].user = u
  <2>1. call[p] \in RequestCalls
    BY <1>1 DEF Typed, AccountsTyped, CallTyped
  <2>2. c1.saw = Len(challenges) /\ c1.user = u
    BY <1>0, <2>1 DEF RequestCalls
  <2> QED BY <2>2 DEF Retire, Set, Typed, AccountsTyped
<1>3. Rows = 1..Len(challenges) /\ Len(challenges) \in Nat
  BY DEF Typed, RecoveryTyped, Rows
<1>4. Rows' = Rows /\ Len(challenges') = Len(challenges)
  <2>1. DOMAIN challenges' = Rows /\ challenges' \in Seq(ChallengeRows)
    BY <1>1, ConsumeTyped, SameRows DEF Consume, Typed
  <2> QED BY <1>3, <2>1 DEF Rows
<1>5. \A c \in Rows : /\ challenges'[c].consumed <=> challenges[c].consumed \/ c \in Pending(u)
                      /\ challenges'[c].user = challenges[c].user
                      /\ challenges'[c].saw = challenges[c].saw
                      /\ challenges'[c].uses = challenges[c].uses
                      /\ challenges'[c].attempts = challenges[c].attempts
                      /\ challenges'[c].guesses = challenges[c].guesses
                      /\ challenges'[c].shared = challenges[c].shared
  BY <1>1, RowTyped DEF Consume, Typed, ChallengeRows
<1>6. \A q \in Requests : pc'[q] \in RecoveryPlaces /\ q # p => pc'[q] = pc[q] /\ call'[q] = call[q]
  BY <1>1 DEF Moves
<1>7. Completing'
  <2> SUFFICES ASSUME NEW q \in Requests, pc'[q] = "complete"
               PROVE  /\ call'[q].row \in Rows'
                      /\ call'[q].row \in DOMAIN rowHolder' /\ rowHolder'[call'[q].row] = q
                      /\ ~challenges'[call'[q].row].consumed
                      /\ challenges'[call'[q].row].user = call'[q].user
    BY DEF Completing
  <2>1. q # p /\ pc[q] = "complete" /\ call'[q] = call[q]
    BY <1>1, <1>6 DEF RecoveryPlaces
  <2>2. call[q].row \notin Pending(u)
    BY <1>1, <2>1 DEF Completing, RowUnlocked
  <2> QED BY <1>1, <1>4, <1>5, <2>1, <2>2 DEF Completing
<1>8. UsesConsume'
  BY <1>4, <1>5 DEF UsesConsume
<1>9. \A v : Pending(v)' \subseteq Pending(v)
  BY <1>4, <1>5 DEF Pending, ChallengesOf
<1>10. Pending(u)' = {}
  BY <1>4, <1>5 DEF Pending, ChallengesOf
<1>11. Issuing'
  BY <1>1, <1>2, <1>3, <1>4, <1>6, <1>9, <1>10 DEF Issuing, RecoveryPlaces
<1>12. UnsharedCounts'
  <2>1. ASSUME NEW c \in Rows, NEW q \in Verifying(c)'
        PROVE  q \in Verifying(c) /\ call'[q] = call[q]
    BY <1>1, <1>6, <2>1 DEF Verifying, RecoveryPlaces
  <2> QED BY <1>4, <1>5, <2>1 DEF UnsharedCounts
<1>13. VerifyingKnown'
  BY <1>1, <1>4, <1>6 DEF VerifyingKnown, RecoveryPlaces
<1>14. SpentIsConsumed' /\ OneActiveChallenge'
  <2>1. ASSUME NEW v \in Users, NEW c \in Pending(v)' PROVE c \in Pending(v) /\ c \in Rows
    BY <1>9 DEF Pending, ChallengesOf
  <2>2. SpentIsConsumed'
    BY <1>5, <2>1 DEF SpentIsConsumed
  <2>3. OneActiveChallenge'
    BY <1>5, <2>1 DEF OneActiveChallenge
  <2> QED BY <2>2, <2>3
<1> QED BY <1>7, <1>8, <1>11, <1>12, <1>13, <1>14

LEMMA IssueCodes == ASSUME CodeInv, NEW p \in Requests, Issue(p) PROVE CodesOK'
<1> USE DEF CodeInv, CodesOK
<1>0. PICK u, n : u = call[p].user /\ n = Len(challenges) + 1
  OBVIOUS
<1>1. /\ Moves(p) /\ pc'[p] = "idle" /\ pc[p] = "issue"
      /\ challenges' = Append(challenges, Challenge(call[p]))
      /\ rowHolder' = rowHolder
  BY ReturnMoves DEF Issue
<1>2. challenges \in Seq(ChallengeRows) /\ Len(challenges) \in Nat /\ Rows = 1..Len(challenges)
  BY DEF Typed, RecoveryTyped, Rows
<1>3. /\ Rows' = Rows \union {n} /\ n \notin Rows
      /\ Len(challenges') = n
      /\ \A c \in Rows : challenges'[c] = challenges[c]
      /\ challenges'[n] = Challenge(call[p])
  <2>1. Rows' = 1..n
    BY <1>0, <1>1, <1>2 DEF Rows
  <2> QED BY <1>0, <1>1, <1>2, <2>1
<1>4. \A q \in Requests : pc'[q] \in RecoveryPlaces => q # p /\ pc'[q] = pc[q] /\ call'[q] = call[q]
  BY <1>1 DEF Moves, RecoveryPlaces
<1>5. Completing' /\ VerifyingKnown'
  <2>1. VerifyingKnown'
    BY <1>3, <1>4 DEF VerifyingKnown, RecoveryPlaces
  <2>2. ASSUME NEW q \in Requests, pc'[q] = "complete"
        PROVE  /\ call'[q].row \in Rows'
               /\ call'[q].row \in DOMAIN rowHolder' /\ rowHolder'[call'[q].row] = q
               /\ ~challenges'[call'[q].row].consumed
               /\ challenges'[call'[q].row].user = call'[q].user
    <3>1. pc[q] = "complete" /\ call'[q] = call[q]
      BY <1>4, <2>2 DEF RecoveryPlaces
    <3>2. /\ call[q].row \in Rows
          /\ call[q].row \in DOMAIN rowHolder /\ rowHolder[call[q].row] = q
          /\ ~challenges[call[q].row].consumed
          /\ challenges[call[q].row].user = call[q].user
      BY <3>1 DEF Completing
    <3>3. challenges'[call[q].row] = challenges[call[q].row]
      BY <1>3, <3>2
    <3> QED BY <1>1, <1>3, <3>1, <3>2, <3>3
  <2>3. Completing'
    BY <2>2 DEF Completing
  <2> QED BY <2>1, <2>3
<1>6. UsesConsume'
  BY <1>3 DEF UsesConsume, Challenge
<1>7. \A v : Pending(v)' \subseteq Pending(v) \union {n}
  BY <1>3 DEF Pending, ChallengesOf
<1>8. n \in Pending(u)' /\ \A v : n \in Pending(v)' => v = u
  BY <1>0, <1>3 DEF Pending, ChallengesOf, Challenge
<1>9. Issuing'
  <2> SUFFICES ASSUME NEW q \in Requests, pc'[q] = "issue"
               PROVE  /\ call'[q].saw <= Len(challenges')
                      /\ \A c \in Pending(call[q].user)' : call'[q].saw < c
    BY DEF Issuing
  <2>1. pc[q] = "issue" /\ call'[q] = call[q] /\ call[q].saw \in Nat
    BY <1>4 DEF RecoveryPlaces, Typed, AccountsTyped, CallTyped, RequestCalls
  <2>2. call[q].saw <= Len(challenges) /\ \A c \in Pending(call[q].user) : call[q].saw < c
    BY <2>1 DEF Issuing
  <2>3. call[q].saw < n
    BY <1>0, <1>2, <2>1, <2>2
  <2>4. ASSUME NEW c \in Pending(call[q].user)' PROVE call'[q].saw < c
    BY <1>7, <2>1, <2>2, <2>3
  <2>5. call'[q].saw <= Len(challenges')
    BY <1>3, <2>1, <2>3
  <2> QED BY <2>4, <2>5
<1>10. UnsharedCounts'
  <2>1. ASSUME NEW c, NEW q \in Verifying(c)'
        PROVE  q \in Verifying(c) /\ call'[q] = call[q] /\ c \in Rows
    BY <1>4, <2>1 DEF Verifying, RecoveryPlaces, VerifyingKnown
  <2>2. Verifying(n)' = {}
    BY <1>3, <2>1
  <2>3. ASSUME NEW c \in Rows', ~challenges'[c].shared
        PROVE  /\ challenges'[c].guesses = challenges'[c].attempts
               /\ \A q \in Verifying(c)' : call'[q].attempts = challenges'[c].attempts
               /\ \A q, r \in Verifying(c)' : q = r
    <3>1. CASE c = n
      BY <1>3, <2>2, <3>1 DEF Challenge
    <3>2. CASE c \in Rows
      BY <1>3, <2>1, <2>3, <3>2 DEF UnsharedCounts
    <3> QED BY <1>3, <3>1, <3>2
  <2> QED BY <2>3 DEF UnsharedCounts
<1>11. SpentIsConsumed'
  <2>1. challenges'[n].attempts = 0 /\ 0 < MaxAttempts
    BY <1>3, RecoveryAssumption DEF Challenge
  <2>2. \A v : \A c \in Pending(v) : challenges'[c].attempts = challenges[c].attempts
    BY <1>3 DEF Pending, ChallengesOf
  <2> QED BY <1>7, <2>1, <2>2 DEF SpentIsConsumed
<1>12. OneActiveChallenge'
  <2> SUFFICES ASSUME NEW v \in Users, NEW c \in Pending(v)', NEW d \in Pending(v)', c < d
               PROVE  challenges'[d].saw < c
    BY DEF OneActiveChallenge
  <2>1. c \in Rows
    <3>1. c # n
      <4>1. d <= n /\ d \in Nat
        BY <1>0, <1>2, <1>3 DEF Pending, ChallengesOf
      <4> QED BY <4>1, <1>2
    <3> QED BY <1>3, <3>1 DEF Pending, ChallengesOf
  <2>2. c \in Pending(v)
    BY <1>3, <1>7, <2>1
  <2>3. CASE d = n
    BY <1>0, <1>1, <1>3, <1>8, <2>2, <2>3 DEF Issuing, Challenge
  <2>4. CASE d # n
    <3>1. d \in Pending(v) /\ d \in Rows
      BY <1>7, <2>4 DEF Pending, ChallengesOf
    <3> QED BY <1>3, <2>2, <3>1 DEF OneActiveChallenge
  <2> QED BY <2>3, <2>4
<1> QED BY <1>5, <1>6, <1>9, <1>10, <1>11, <1>12

LEMMA VerifyCodes ==
  ASSUME CodeInv, NEW p \in Requests, NEW u \in Users, NEW code, Verify(p, u, code)
  PROVE  CodesOK'
<1> USE DEF CodeInv, CodesOK
<1>0. PICK d : d = Newest(Verifiable(u))
  OBVIOUS
<1> DEFINE c0 == [op |-> "VERIFY", user |-> u, id |-> calls + 1, code |-> code,
                  row |-> d, attempts |-> challenges[d].attempts]
<1>1. d \in Rows
  BY <1>0, NewestKnown DEF Verify, Typed
<1>2. Begin(p, c0, "verify") /\ rowHolder' = rowHolder
  BY <1>0 DEF Verify
<1>3. /\ Moves(p) /\ pc[p] = "idle" /\ pc'[p] = "verify"
      /\ call'[p].row = d /\ call'[p].attempts = challenges[d].attempts
  BY <1>2, StartMoves DEF Begin, Typed, AccountsTyped
<1>4. /\ Rows' = Rows /\ Len(challenges') = Len(challenges)
      /\ \A c \in Rows \ {d} : challenges'[c] = challenges[c]
      /\ challenges'[d] = [challenges[d] EXCEPT !.shared = @ \/ Verifying(d) # {}]
  BY <1>0, <1>1 DEF Verify, Rows, Typed, RecoveryTyped
<1>5. /\ \A c \in Rows : /\ challenges'[c].user = challenges[c].user
                         /\ challenges'[c].saw = challenges[c].saw
                         /\ challenges'[c].consumed = challenges[c].consumed
                         /\ challenges'[c].uses = challenges[c].uses
                         /\ challenges'[c].attempts = challenges[c].attempts
                         /\ challenges'[c].guesses = challenges[c].guesses
                         /\ challenges[c].shared => challenges'[c].shared
      /\ ~challenges'[d].shared => Verifying(d) = {}
  <2>1. challenges[d] \in ChallengeRows
    BY <1>1, RowTyped DEF Typed
  <2>2. PICK b \in BOOLEAN : b <=> Verifying(d) # {}
    OBVIOUS
  <2>3. challenges'[d] = [challenges[d] EXCEPT !.shared = @ \/ b]
    BY <1>4, <2>2
  <2>4. /\ challenges'[d].user = challenges[d].user
        /\ challenges'[d].saw = challenges[d].saw
        /\ challenges'[d].consumed = challenges[d].consumed
        /\ challenges'[d].uses = challenges[d].uses
        /\ challenges'[d].attempts = challenges[d].attempts
        /\ challenges'[d].guesses = challenges[d].guesses
        /\ challenges'[d].shared = (challenges[d].shared \/ b)
    BY <2>1, <2>3 DEF ChallengeRows
  <2> QED BY <1>1, <1>4, <2>2, <2>4
<1>6. \A q \in Requests : pc'[q] \in RecoveryPlaces /\ q # p => pc'[q] = pc[q] /\ call'[q] = call[q]
  BY <1>3 DEF Moves
<1>7. \A v : Pending(v)' = Pending(v)
  BY <1>4, <1>5 DEF Pending, ChallengesOf
<1>8. Completing'
  <2>1. ASSUME NEW q \in Requests, pc'[q] = "complete"
        PROVE  /\ call'[q].row \in Rows'
               /\ call'[q].row \in DOMAIN rowHolder' /\ rowHolder'[call'[q].row] = q
               /\ ~challenges'[call'[q].row].consumed
               /\ challenges'[call'[q].row].user = call'[q].user
    <3>1. pc[q] = "complete" /\ call'[q] = call[q]
      BY <1>3, <1>6, <2>1 DEF RecoveryPlaces
    <3>2. /\ call[q].row \in Rows
          /\ call[q].row \in DOMAIN rowHolder /\ rowHolder[call[q].row] = q
          /\ ~challenges[call[q].row].consumed
          /\ challenges[call[q].row].user = call[q].user
      BY <3>1 DEF Completing
    <3> QED BY <1>2, <1>4, <1>5, <3>1, <3>2
  <2> QED BY <2>1 DEF Completing
<1>9. UsesConsume'
  BY <1>4, <1>5 DEF UsesConsume
<1>10. Issuing' /\ VerifyingKnown'
  <2>1. Issuing'
    BY <1>3, <1>4, <1>6, <1>7 DEF Issuing, RecoveryPlaces
  <2>2. VerifyingKnown'
    BY <1>1, <1>3, <1>4, <1>6 DEF VerifyingKnown, RecoveryPlaces
  <2> QED BY <2>1, <2>2
<1>11. SpentIsConsumed' /\ OneActiveChallenge'
  <2>1. \A v : \A c \in Pending(v) : c \in Rows
    BY DEF Pending, ChallengesOf
  <2> QED BY <1>5, <1>7, <2>1 DEF SpentIsConsumed, OneActiveChallenge
<1>12. UnsharedCounts'
  <2>1. ASSUME NEW c, NEW q \in Verifying(c)', q # p
        PROVE  q \in Verifying(c) /\ call'[q] = call[q]
    BY <1>6, <2>1 DEF Verifying, RecoveryPlaces
  <2>2. ASSUME NEW c, p \in Verifying(c)' PROVE c = d
    BY <1>3, <2>2 DEF Verifying
  <2>3. ASSUME NEW c \in Rows, ~challenges'[c].shared
        PROVE  /\ challenges'[c].guesses = challenges'[c].attempts
               /\ \A q \in Verifying(c)' : call'[q].attempts = challenges'[c].attempts
               /\ \A q, r \in Verifying(c)' : q = r
    <3>1. ~challenges[c].shared
      BY <1>5, <2>3
    <3>2. CASE c # d
      BY <1>5, <2>1, <2>2, <3>1, <3>2 DEF UnsharedCounts
    <3>3. CASE c = d
      <4>1. Verifying(c) = {}
        BY <1>5, <2>3, <3>3
      <4>2. \A q \in Verifying(c)' : q = p
        BY <2>1, <4>1
      <4> QED BY <1>3, <1>5, <3>1, <3>3, <4>2 DEF UnsharedCounts
    <3> QED BY <3>2, <3>3
  <2> QED BY <1>4, <2>3 DEF UnsharedCounts
<1> QED BY <1>8, <1>9, <1>10, <1>11, <1>12

LEMMA RedeemCodes ==
  ASSUME CodeInv, NEW p \in Requests, NEW t, Redeem(p, t) PROVE CodesOK'
<1> USE DEF CodeInv, CodesOK
<1>1. PICK d \in Redeemable(t) :
        /\ RowUnlocked(p, d)
        /\ Begin(p, [op |-> "RECOVER", user |-> challenges[d].user, id |-> calls + 1, row |-> d],
                 "complete")
        /\ rowHolder' = [e \in DOMAIN rowHolder \union {d} |-> IF e = d THEN p ELSE rowHolder[e]]
  BY DEF Redeem
<1>2. challenges' = challenges
  BY DEF Redeem
<1>3. /\ Moves(p) /\ pc[p] = "idle" /\ pc'[p] = "complete"
      /\ call'[p].row = d /\ call'[p].user = challenges[d].user
  BY <1>1, StartMoves DEF Begin, Typed, AccountsTyped
<1>4. d \in Rows /\ ~challenges[d].consumed
  BY DEF Redeemable
<1>5. \A q \in Requests : pc'[q] \in RecoveryPlaces /\ q # p => pc'[q] = pc[q] /\ call'[q] = call[q]
  BY <1>3 DEF Moves
<1>6. Completing'
  <2>1. ASSUME NEW q \in Requests, pc'[q] = "complete"
        PROVE  /\ call'[q].row \in Rows'
               /\ call'[q].row \in DOMAIN rowHolder' /\ rowHolder'[call'[q].row] = q
               /\ ~challenges'[call'[q].row].consumed
               /\ challenges'[call'[q].row].user = call'[q].user
    <3>1. CASE q = p
      BY <1>1, <1>2, <1>3, <1>4, <3>1 DEF Rows
    <3>2. CASE q # p
      <4>1. pc[q] = "complete" /\ call'[q] = call[q]
        BY <1>5, <2>1, <3>2 DEF RecoveryPlaces
      <4>2. /\ call[q].row \in Rows
            /\ call[q].row \in DOMAIN rowHolder /\ rowHolder[call[q].row] = q
            /\ ~challenges[call[q].row].consumed
            /\ challenges[call[q].row].user = call[q].user
        BY <4>1 DEF Completing
      <4>3. call[q].row # d
        BY <1>1, <3>2, <4>2 DEF RowUnlocked
      <4> QED BY <1>1, <1>2, <4>1, <4>2, <4>3 DEF Rows
    <3> QED BY <3>1, <3>2
  <2> QED BY <2>1 DEF Completing
<1>7. UsesConsume' /\ SpentIsConsumed' /\ OneActiveChallenge'
  BY <1>2 DEF UsesConsume, SpentIsConsumed, OneActiveChallenge, Rows, Pending, ChallengesOf
<1>8. Issuing' /\ VerifyingKnown'
  BY <1>2, <1>3, <1>5 DEF Issuing, VerifyingKnown, Rows, Pending, ChallengesOf, RecoveryPlaces
<1>9. UnsharedCounts'
  <2>1. ASSUME NEW c \in Rows, NEW q \in Verifying(c)'
        PROVE  q \in Verifying(c) /\ call'[q] = call[q]
    BY <1>3, <1>5, <2>1 DEF Verifying, RecoveryPlaces
  <2> QED BY <1>2, <2>1 DEF UnsharedCounts, Rows
<1> QED BY <1>6, <1>7, <1>8, <1>9

\* The rows of completions under way are not those p may write.
LEMMA HeldRowsApart ==
  ASSUME CodeInv, NEW p \in Requests, NEW q \in Requests \ {p}, pc[q] = "complete",
         NEW d, RowUnlocked(p, d)
  PROVE  call[q].row # d
  BY DEF CodeInv, CodesOK, Completing, RowUnlocked

LEMMA RejectCodes == ASSUME CodeInv, NEW p \in Requests, Reject(p) PROVE CodesOK'
<1> USE DEF CodeInv, CodesOK
<1>0. PICK d, n : d = call[p].row /\ n = call[p].attempts + 1
  OBVIOUS
<1>1. /\ Moves(p) /\ pc'[p] = "idle" /\ pc[p] = "verify"
      /\ rowHolder' = rowHolder /\ RowUnlocked(p, d)
      /\ challenges' = IF Exhausted(p) THEN Consume({d})
                       ELSE [challenges EXCEPT ![d] = Counted(d, n)]
  BY <1>0, ReturnMoves DEF Reject
<1>2. d \in Rows /\ p \in Verifying(d) /\ challenges[d] \in ChallengeRows
  BY <1>0, <1>1, RowTyped DEF VerifyingKnown, Verifying, Typed
<1>3. /\ Rows' = Rows /\ Len(challenges') = Len(challenges)
      /\ \A c \in Rows \ {d} : challenges'[c] = challenges[c]
      /\ challenges'[d] = IF Exhausted(p) THEN [challenges[d] EXCEPT !.consumed = TRUE]
                          ELSE Counted(d, n)
  <2>1. challenges \in Seq(ChallengeRows)
    BY DEF Typed, RecoveryTyped
  <2>2. Rows' = Rows
    BY <1>1 DEF Rows, Consume
  <2>3. Len(challenges') = Len(challenges)
    <3>1. challenges' \in Seq(ChallengeRows)
      BY TypedNext DEF Next, Recovery, Typed, RecoveryTyped
    <3> QED BY <2>1, <2>2, <3>1 DEF Rows
  <2> QED BY <1>1, <1>2, <2>2, <2>3 DEF Consume, Rows
<1>4. /\ challenges'[d].user = challenges[d].user
      /\ challenges'[d].saw = challenges[d].saw
      /\ challenges'[d].uses = challenges[d].uses
      /\ challenges'[d].shared = challenges[d].shared
      /\ challenges[d].consumed => challenges'[d].consumed
      /\ Exhausted(p) => /\ challenges'[d].consumed
                         /\ challenges'[d].attempts = challenges[d].attempts
                         /\ challenges'[d].guesses = challenges[d].guesses
      /\ ~Exhausted(p) => /\ n >= MaxAttempts => challenges'[d].consumed
                          /\ challenges'[d].attempts = n
                          /\ challenges'[d].guesses = challenges[d].guesses + 1
  <2>1. CASE Exhausted(p)
    BY <1>2, <1>3, <2>1 DEF ChallengeRows
  <2>2. CASE ~Exhausted(p)
    <3>1. PICK b \in BOOLEAN : b <=> n >= MaxAttempts
      OBVIOUS
    <3>2. challenges'[d] = [challenges[d] EXCEPT !.attempts = n, !.consumed = @ \/ b,
                                                 !.guesses = @ + 1]
      BY <1>3, <2>2, <3>1 DEF Counted
    <3> QED BY <1>2, <2>2, <3>1, <3>2 DEF ChallengeRows
  <2> QED BY <2>1, <2>2
<1>5. Completing' /\ Issuing' /\ VerifyingKnown' /\ OneActiveChallenge'
  <2>1. ASSUME NEW q \in Requests \ {p}, pc[q] = "complete"
        PROVE  /\ call[q].row \in DOMAIN rowHolder' /\ rowHolder'[call[q].row] = q
               /\ ~challenges'[call[q].row].consumed
    <3>1. call[q].row # d
      BY <1>1, <2>1, HeldRowsApart
    <3> QED BY <1>1, <1>3, <2>1, <3>1 DEF Completing
  <2> QED BY <1>1, <1>3, <1>4, <2>1, RowsChanged
<1>6. UsesConsume'
  BY <1>3, <1>4 DEF UsesConsume
<1>7. SpentIsConsumed'
  <2>1. \A v : \A c \in Pending(v)' : c \in Pending(v) /\ c \in Rows
    BY <1>3, <1>4 DEF Pending, ChallengesOf
  <2>2. n \in Nat /\ MaxAttempts \in Nat
    BY <1>0, <1>1, RecoveryAssumption DEF Typed, AccountsTyped, CallTyped, VerifyCalls
  <2>3. ASSUME NEW v \in Users, d \in Pending(v)' PROVE challenges'[d].attempts < MaxAttempts
    <3>1. ~challenges'[d].consumed
      BY <2>3 DEF Pending
    <3> QED BY <1>4, <2>2, <3>1
  <2> QED BY <1>3, <2>1, <2>3 DEF SpentIsConsumed
<1>8. UnsharedCounts'
  <2>1. ASSUME NEW c, NEW q \in Verifying(c)'
        PROVE  q \in Verifying(c) /\ call'[q] = call[q] /\ q # p
    BY <1>1, <2>1 DEF Verifying, Moves
  <2>2. ASSUME NEW c \in Rows, ~challenges'[c].shared
        PROVE  /\ challenges'[c].guesses = challenges'[c].attempts
               /\ \A q \in Verifying(c)' : call'[q].attempts = challenges'[c].attempts
               /\ \A q, r \in Verifying(c)' : q = r
    <3>1. ~challenges[c].shared
      BY <1>3, <1>4, <2>2
    <3>2. CASE c # d
      BY <1>3, <2>1, <3>1, <3>2 DEF UnsharedCounts
    <3>3. CASE c = d
      <4>1. Verifying(d)' = {}
        BY <1>2, <2>1, <3>1, <3>3 DEF UnsharedCounts
      <4>2. challenges[d].guesses = challenges[d].attempts
            /\ call[p].attempts = challenges[d].attempts
        BY <1>2, <3>1, <3>3 DEF UnsharedCounts
      <4>3. challenges'[d].guesses = challenges'[d].attempts
        BY <1>0, <1>4, <4>2
      <4> QED BY <3>3, <4>1, <4>3
    <3> QED BY <3>2, <3>3
  <2> QED BY <1>3, <2>2 DEF UnsharedCounts
<1> QED BY <1>5, <1>6, <1>7, <1>8

LEMMA AcceptCodes == ASSUME CodeInv, NEW p \in Requests, Accept(p) PROVE CodesOK'
<1> USE DEF CodeInv, CodesOK
<1>0. PICK d : d = call[p].row
  OBVIOUS
<1>1. /\ Moves(p) /\ pc'[p] = "idle" /\ pc[p] = "verify"
      /\ rowHolder' = rowHolder /\ RowUnlocked(p, d)
      /\ challenges' = [challenges EXCEPT ![d] =
                          [@ EXCEPT !.ticket = call[p].id, !.verified = TRUE, !.until = clock + Ttl]]
  BY <1>0, ReturnMoves DEF Accept
<1>2. d \in Rows /\ challenges[d] \in ChallengeRows
  BY <1>0, <1>1, RowTyped DEF VerifyingKnown, Typed
<1>3. /\ Rows' = Rows /\ Len(challenges') = Len(challenges)
      /\ \A c \in Rows \ {d} : challenges'[c] = challenges[c]
      /\ challenges'[d] = [challenges[d] EXCEPT !.ticket = call[p].id, !.verified = TRUE,
                                                !.until = clock + Ttl]
  <2>1. challenges \in Seq(ChallengeRows)
    BY DEF Typed, RecoveryTyped
  <2>2. Rows' = Rows
    BY <1>1 DEF Rows
  <2> QED BY <1>1, <1>2, <2>1, <2>2 DEF Rows
<1>4. \A c \in Rows : /\ challenges'[c].user = challenges[c].user
                      /\ challenges'[c].saw = challenges[c].saw
                      /\ challenges'[c].consumed = challenges[c].consumed
                      /\ challenges'[c].uses = challenges[c].uses
                      /\ challenges'[c].attempts = challenges[c].attempts
                      /\ challenges'[c].guesses = challenges[c].guesses
                      /\ challenges'[c].shared = challenges[c].shared
  <2>1. PICK t, e : t = call[p].id /\ e = clock + Ttl
    OBVIOUS
  <2>2. challenges'[d] = [challenges[d] EXCEPT !.ticket = t, !.verified = TRUE, !.until = e]
    BY <1>3, <2>1
  <2>3. /\ challenges'[d].user = challenges[d].user
        /\ challenges'[d].saw = challenges[d].saw
        /\ challenges'[d].consumed = challenges[d].consumed
        /\ challenges'[d].uses = challenges[d].uses
        /\ challenges'[d].attempts = challenges[d].attempts
        /\ challenges'[d].guesses = challenges[d].guesses
        /\ challenges'[d].shared = challenges[d].shared
    BY <1>2, <2>2 DEF ChallengeRows
  <2> QED BY <1>3, <2>3
<1>5. Completing' /\ Issuing' /\ VerifyingKnown' /\ OneActiveChallenge'
  <2>1. ASSUME NEW q \in Requests \ {p}, pc[q] = "complete"
        PROVE  /\ call[q].row \in DOMAIN rowHolder' /\ rowHolder'[call[q].row] = q
               /\ ~challenges'[call[q].row].consumed
    BY <1>1, <1>4, <2>1 DEF Completing
  <2> QED BY <1>1, <1>3, <1>4, <2>1, RowsChanged
<1>6. UsesConsume'
  BY <1>3, <1>4 DEF UsesConsume
<1>7. SpentIsConsumed'
  <2>1. \A v : \A c \in Pending(v)' : c \in Pending(v) /\ c \in Rows
    BY <1>3, <1>4 DEF Pending, ChallengesOf
  <2> QED BY <1>4, <2>1 DEF SpentIsConsumed
<1>8. UnsharedCounts'
  <2>1. ASSUME NEW c, NEW q \in Verifying(c)'
        PROVE  q \in Verifying(c) /\ call'[q] = call[q]
    BY <1>1, <2>1 DEF Verifying, Moves
  <2> QED BY <1>3, <1>4, <2>1 DEF UnsharedCounts
<1> QED BY <1>5, <1>6, <1>7, <1>8

LEMMA CompleteCodes == ASSUME CodeInv, NEW p \in Requests, Complete(p) PROVE CodesOK'
<1> USE DEF CodeInv, CodesOK
<1>0. PICK d, u : d = call[p].row /\ u = call[p].user
  OBVIOUS
<1>1. /\ Moves(p) /\ pc'[p] = "revoke" /\ pc[p] = "complete"
      /\ \A c \in Pending(u) : RowUnlocked(p, c)
      /\ challenges' = [c \in Rows |->
            [challenges[c] EXCEPT !.consumed = @ \/ c \in Pending(u),
                                  !.uses = IF c = d THEN @ + 1 ELSE @]]
      /\ rowHolder' = [c \in {e \in DOMAIN rowHolder : rowHolder[e] # p} |-> rowHolder[c]]
  BY <1>0, GotoMoves DEF Complete, Release
<1>2. d \in Rows /\ d \in Pending(u) /\ ~challenges[d].consumed
  BY <1>0, <1>1 DEF Completing, Pending, ChallengesOf
<1>3. Rows' = Rows /\ Len(challenges') = Len(challenges)
  <2>1. challenges \in Seq(ChallengeRows)
    BY DEF Typed, RecoveryTyped
  <2>2. Rows' = Rows
    BY <1>1 DEF Rows
  <2>3. challenges' \in Seq(ChallengeRows)
    BY TypedNext DEF Next, Recovery, Typed, RecoveryTyped
  <2> QED BY <2>1, <2>2, <2>3 DEF Rows
<1>4. ASSUME NEW c \in Rows
      PROVE  /\ challenges'[c].user = challenges[c].user
             /\ challenges'[c].saw = challenges[c].saw
             /\ challenges'[c].consumed <=> challenges[c].consumed \/ c \in Pending(u)
             /\ challenges'[c].uses = IF c = d THEN challenges[c].uses + 1 ELSE challenges[c].uses
             /\ challenges'[c].attempts = challenges[c].attempts
             /\ challenges'[c].guesses = challenges[c].guesses
             /\ challenges'[c].shared = challenges[c].shared
  <2>1. challenges[c] \in ChallengeRows
    BY RowTyped DEF Typed
  <2>2. PICK b \in BOOLEAN : b <=> c \in Pending(u)
    OBVIOUS
  <2>3. PICK k : k = IF c = d THEN challenges[c].uses + 1 ELSE challenges[c].uses
    OBVIOUS
  <2>4. challenges'[c] = [challenges[c] EXCEPT !.consumed = @ \/ b, !.uses = k]
    BY <1>1, <2>2, <2>3
  <2> QED BY <2>1, <2>2, <2>3, <2>4 DEF ChallengeRows
<1>5. Completing' /\ Issuing' /\ VerifyingKnown' /\ OneActiveChallenge'
  <2>1. ASSUME NEW q \in Requests \ {p}, pc[q] = "complete"
        PROVE  /\ call[q].row \in DOMAIN rowHolder' /\ rowHolder'[call[q].row] = q
               /\ ~challenges'[call[q].row].consumed
    <3>1. /\ call[q].row \in Rows
          /\ call[q].row \in DOMAIN rowHolder /\ rowHolder[call[q].row] = q
          /\ ~challenges[call[q].row].consumed
      BY <2>1 DEF Completing
    <3>2. call[q].row \notin Pending(u)
      BY <1>1, <2>1, HeldRowsApart
    <3> QED BY <1>1, <1>4, <3>1, <3>2
  <2> QED BY <1>1, <1>3, <1>4, <2>1, RowsChanged
<1>6. UsesConsume'
  <2>1. challenges[d].uses = 0
    BY <1>2 DEF UsesConsume
  <2> QED BY <1>2, <1>3, <1>4, <2>1 DEF UsesConsume
<1>7. SpentIsConsumed'
  <2>1. \A v : \A c \in Pending(v)' : c \in Pending(v) /\ c \in Rows
    BY <1>3, <1>4 DEF Pending, ChallengesOf
  <2> QED BY <1>4, <2>1 DEF SpentIsConsumed
<1>8. UnsharedCounts'
  <2>1. ASSUME NEW c, NEW q \in Verifying(c)'
        PROVE  q \in Verifying(c) /\ call'[q] = call[q]
    BY <1>1, <2>1 DEF Verifying, Moves
  <2> QED BY <1>3, <1>4, <2>1 DEF UnsharedCounts
<1> QED BY <1>5, <1>6, <1>7, <1>8

LEMMA CodeInvNext == CodeInv /\ [Next]_vars => CodeInv'
<1> SUFFICES ASSUME CodeInv, [Next]_vars PROVE CodesOK'
  BY TypedNext DEF CodeInv
<1>1. ASSUME NEW p \in Requests, NEW u \in Users, NEW ip \in Ips, Request(p, u, ip)
      PROVE  CodesOK'
  <2>1. Moves(p) /\ pc'[p] = "retire"
    BY <1>1, StartMoves DEF Request, CodeInv
  <2> QED BY <1>1, <2>1, TablesKept DEF Request, recoveryVars
<1>2. CASE Recovery
  BY <1>1, <1>2, VerifyCodes, RedeemCodes, RetireCodes, IssueCodes, RejectCodes, AcceptCodes,
     CompleteCodes
  DEF Recovery
<1>3. CASE UNCHANGED vars
  BY <1>3 DEF vars, callVars, recoveryVars, CodeInv, CodesOK, Completing, UsesConsume, Issuing,
     UnsharedCounts, VerifyingKnown, SpentIsConsumed, OneActiveChallenge, Rows, Pending,
     ChallengesOf, Verifying
<1> QED BY <1>2, <1>3, CodesElsewhere DEF Next

-----------------------------------------------------------------------------
(* The delays, and the time that failures take *)

LEMMA LeastOfNaturals ==
  ASSUME NEW S, S \subseteq Nat, S # {}
  PROVE  \E n \in S : \A m \in S : n <= m
<1>1. PICK n \in S : \A m \in S : ~(<<m, n>> \in OpToRel(<, Nat))
  BY WFMin, NatLessThanWellFounded, Zenon
<1>2. \A m \in S : ~(m < n)
  BY <1>1 DEF OpToRel
<1> QED BY <1>2

LEMMA Delays ==
  ASSUME NEW i \in Nat \ {0}, NEW j \in Nat, i <= j
  PROVE  Delay(i) \in Nat /\ Delay(i) <= Delay(j)
<1>1. DOMAIN Doubled = 1..5
  BY DEF Doubled
<1>2. \A n \in 1..5 : Doubled[n] \in Nat
  BY DEF Doubled
<1>3. /\ Doubled[1] <= Doubled[2] /\ Doubled[2] <= Doubled[3] /\ Doubled[3] <= Doubled[4]
      /\ Doubled[4] <= Doubled[5]
  BY DEF Doubled
<1>4. \A n \in 1..5, m \in 1..5 : n <= m => Doubled[n] <= Doubled[m]
  BY <1>2, <1>3
<1> QED BY <1>1, <1>2, <1>4, ThrottleAssumption DEF Delay

Handlers == Cardinality(Requests)

LEMMA HandlersNat == Handlers \in Nat \ {0}
BY RequestsAssumption, FS_CardinalityType, FS_EmptySet DEF Handlers

\* Waits is defined by recursion: it has a value for every number of failures.
WaitsTo(m, f) ==
  /\ f \in [0..m -> Nat]
  /\ \A n \in 0..m : f[n] = IF n <= Handlers THEN 0 ELSE f[n - Handlers] + Delay(n - Handlers)

LEMMA WaitsToUnique ==
  ASSUME NEW m \in Nat, NEW l \in Nat, NEW f, NEW g, WaitsTo(m, f), WaitsTo(l, g),
         NEW n \in Nat, n <= m, n <= l
  PROVE  f[n] = g[n]
<1> DEFINE S == {i \in Nat : i <= m /\ i <= l /\ f[i] # g[i]}
<1> SUFFICES ASSUME S # {} PROVE FALSE
  OBVIOUS
<1>1. PICK i \in S : \A j \in S : i <= j
  BY LeastOfNaturals
<1>2. i \in 0..m /\ i \in 0..l /\ f[i] # g[i]
  BY <1>1
<1>3. CASE i <= Handlers
  BY <1>2, <1>3 DEF WaitsTo
<1>4. CASE ~(i <= Handlers)
  <2>1. i - Handlers \in Nat /\ i - Handlers < i /\ i - Handlers <= m /\ i - Handlers <= l
    BY <1>2, <1>4, HandlersNat
  <2>2. f[i - Handlers] = g[i - Handlers]
    BY <1>1, <2>1
  <2>3. /\ f[i] = f[i - Handlers] + Delay(i - Handlers)
        /\ g[i] = g[i - Handlers] + Delay(i - Handlers)
    BY <1>2, <1>4 DEF WaitsTo
  <2> QED BY <1>2, <2>2, <2>3
<1> QED BY <1>3, <1>4

LEMMA WaitsToExists ==
  ASSUME NEW m \in Nat
  PROVE  \E f : WaitsTo(m, f)
<1> DEFINE S == {i \in Nat : ~\E f : WaitsTo(i, f)}
<1> SUFFICES ASSUME S # {} PROVE FALSE
  OBVIOUS
<1>1. PICK i \in S : \A j \in S : i <= j
  BY LeastOfNaturals
<1>2. CASE i = 0
  <2> DEFINE f == [n \in 0..0 |-> 0]
  <2>1. WaitsTo(0, f)
    BY HandlersNat DEF WaitsTo
  <2> QED BY <1>1, <1>2, <2>1
<1>3. CASE i # 0
  <2>1. i - 1 \in Nat /\ i - 1 \notin S
    BY <1>1, <1>3
  <2>2. PICK f : WaitsTo(i - 1, f)
    BY <2>1
  <2> DEFINE top == IF i <= Handlers THEN 0 ELSE f[i - Handlers] + Delay(i - Handlers)
             g == [n \in 0..i |-> IF n < i THEN f[n] ELSE top]
  <2>3. top \in Nat
    <3>1. CASE i <= Handlers
      BY <3>1
    <3>2. CASE ~(i <= Handlers)
      <4>1. i - Handlers \in 0..(i - 1) /\ i - Handlers \in Nat \ {0}
        BY <1>1, <3>2, HandlersNat
      <4>2. f[i - Handlers] \in Nat /\ Delay(i - Handlers) \in Nat
        BY <2>2, <4>1, Delays DEF WaitsTo
      <4> QED BY <3>2, <4>2
    <3> QED BY <3>1, <3>2
  <2>4. \A n \in 0..i : n < i => n \in 0..(i - 1) /\ f[n] \in Nat /\ g[n] = f[n]
    BY <1>1, <2>1, <2>2 DEF WaitsTo
  <2>5. g[i] = top
    BY <1>1
  <2>6. g \in [0..i -> Nat]
    BY <2>3, <2>4
  <2> HIDE DEF g
  <2>7. ASSUME NEW n \in 0..i
        PROVE  g[n] = IF n <= Handlers THEN 0 ELSE g[n - Handlers] + Delay(n - Handlers)
    <3>1. n <= Handlers \/ (n - Handlers \in 0..i /\ n - Handlers < i)
      BY <1>1, HandlersNat
    <3>2. CASE n < i
      <4>1. f[n] = IF n <= Handlers THEN 0 ELSE f[n - Handlers] + Delay(n - Handlers)
        BY <2>2, <2>4, <3>2 DEF WaitsTo
      <4> QED BY <2>4, <3>1, <3>2, <4>1
    <3>3. CASE n = i
      BY <2>4, <2>5, <3>1, <3>3
    <3> QED BY <1>1, <3>2, <3>3
  <2>8. WaitsTo(i, g)
    BY <2>6, <2>7 DEF WaitsTo
  <2> QED BY <1>1, <2>8
<1> QED BY <1>2, <1>3

LEMMA WaitsIs ==
  ASSUME NEW n \in Nat
  PROVE  /\ Waits[n] \in Nat
         /\ Waits[n] = IF n <= Handlers THEN 0 ELSE Waits[n - Handlers] + Delay(n - Handlers)
<1> DEFINE pick(m) == CHOOSE f : WaitsTo(m, f)
           F == [m \in Nat |-> pick(m)[m]]
<1>1. ASSUME NEW m \in Nat PROVE WaitsTo(m, pick(m))
  BY WaitsToExists
<1> HIDE DEF pick
<1>2. ASSUME NEW m \in Nat
      PROVE  /\ F[m] \in Nat
             /\ F[m] = IF m <= Handlers THEN 0 ELSE F[m - Handlers] + Delay(m - Handlers)
  <2>1. /\ F[m] = pick(m)[m] /\ m \in 0..m
        /\ pick(m)[m] \in Nat
        /\ pick(m)[m] = IF m <= Handlers THEN 0
                        ELSE pick(m)[m - Handlers] + Delay(m - Handlers)
    BY <1>1 DEF WaitsTo
  <2>2. CASE m <= Handlers
    BY <2>1, <2>2
  <2>3. CASE ~(m <= Handlers)
    <3>1. m - Handlers \in Nat /\ m - Handlers <= m
      BY <2>3, HandlersNat
    <3>2. pick(m)[m - Handlers] = pick(m - Handlers)[m - Handlers]
      BY <1>1, <3>1, WaitsToUnique
    <3> QED BY <2>1, <2>3, <3>1, <3>2
  <2> QED BY <2>2, <2>3
<1>3. F = [m \in Nat |-> IF m <= Handlers THEN 0 ELSE F[m - Handlers] + Delay(m - Handlers)]
  BY <1>2
<1> HIDE DEF F
<1>4. \E W : W = [m \in Nat |-> IF m <= Handlers THEN 0 ELSE W[m - Handlers] + Delay(m - Handlers)]
  BY <1>3
<1>5. Waits = [m \in Nat |-> IF m <= Handlers THEN 0 ELSE Waits[m - Handlers] + Delay(m - Handlers)]
  BY <1>4 DEF Waits, Handlers
<1>6. ASSUME NEW i \in Nat PROVE Waits[i] \in Nat
  <2> DEFINE S == {j \in Nat : Waits[j] \notin Nat}
  <2> SUFFICES ASSUME S # {} PROVE FALSE
    BY <1>6
  <2>1. PICK k \in S : \A j \in S : k <= j
    BY LeastOfNaturals
  <2>2. ~(k <= Handlers)
    BY <1>5, <2>1
  <2>3. k - Handlers \in Nat \ {0} /\ k - Handlers < k
    BY <2>1, <2>2, HandlersNat
  <2>4. Waits[k - Handlers] \in Nat /\ Delay(k - Handlers) \in Nat
    BY <2>1, <2>3, Delays
  <2> QED BY <1>5, <2>1, <2>2, <2>4
<1> QED BY <1>5, <1>6

-----------------------------------------------------------------------------
(* Delays add up *)

\* The logins that have been checked for a key and not been recorded.
TryPlaces == {"login_read", "login_verify"}
Trying(k) == {p \in Requests : pc[p] \in TryPlaces /\ k \in {call[p].user, call[p].ip}}

\* The time the failures on record have taken, those that overlap counted as recorded, and the
\* delay that each imposes on what is admitted later.
KeyWaits(k) ==
  /\ failures[k] \in Nat /\ allowedAt[k] \in Nat
  /\ \A j \in 0..(failures[k] + Cardinality(Trying(k))) : clock >= Waits[j]
  /\ \A i \in 1..failures[k] : allowedAt[k] >= Waits[i] + Delay(i)

BackoffInv == Typed /\ \A k \in Keys : KeyWaits(k)

LEMMA TryingCounted ==
  ASSUME NEW k
  PROVE  /\ IsFiniteSet(Trying(k)) /\ Cardinality(Trying(k)) \in Nat
         /\ Cardinality(Trying(k)) <= Handlers
<1>1. Trying(k) \subseteq Requests
  BY DEF Trying
<1> QED BY <1>1, RequestsAssumption, FS_Subset, FS_CardinalityType DEF Handlers

LEMMA FewWait ==
  ASSUME NEW n \in 0..Handlers
  PROVE  Waits[n] = 0
BY WaitsIs, HandlersNat

\* The entry of a key that no failure is on record of.
LEMMA KeyCleared ==
  ASSUME NEW k, failures[k] = 0, allowedAt[k] \in Nat, clock \in Nat
  PROVE  KeyWaits(k)
<1>1. \A j \in 0..(failures[k] + Cardinality(Trying(k))) : j \in 0..Handlers
  BY TryingCounted, HandlersNat
<1> QED BY <1>1, FewWait DEF KeyWaits

LEMMA BackoffInit == Init => BackoffInv
<1> SUFFICES ASSUME Init PROVE \A k \in Keys : KeyWaits(k)
  BY TypedInit DEF BackoffInv
<1> QED BY KeyCleared DEF Init, InitAccounts, InitThrottle

\* Time passes, or a login ends, for a key whose entry stays.
LEMMA KeyStays ==
  ASSUME Typed, NEW k, KeyWaits(k), clock' \in {clock, clock + 1},
         failures'[k] = failures[k], allowedAt'[k] = allowedAt[k], Trying(k)' \subseteq Trying(k)
  PROVE  KeyWaits(k)'
<1>1. clock \in Nat
  BY DEF Typed, AccountsTyped
<1>2. /\ Cardinality(Trying(k)') \in Nat /\ Cardinality(Trying(k)) \in Nat
      /\ Cardinality(Trying(k)') <= Cardinality(Trying(k))
  BY TryingCounted, FS_Subset, FS_CardinalityType
<1>3. \A j \in 0..(failures'[k] + Cardinality(Trying(k)')) :
        j \in 0..(failures[k] + Cardinality(Trying(k)))
  BY <1>2 DEF KeyWaits
<1>4. \A j \in 0..(failures'[k] + Cardinality(Trying(k)')) : clock' >= Waits[j]
  <2> TAKE j \in 0..(failures'[k] + Cardinality(Trying(k)'))
  <2>1. clock >= Waits[j] /\ Waits[j] \in Nat
    BY <1>3, WaitsIs DEF KeyWaits
  <2> QED BY <1>1, <2>1
<1> QED BY <1>4 DEF KeyWaits

\* A failure is recorded: the login was admitted, so that it has taken its time.
LEMMA KeyFails ==
  ASSUME Typed, NEW k, KeyWaits(k), NEW p \in Trying(k), clock' = clock,
         failures'[k] = failures[k] + 1, allowedAt'[k] = clock + Delay(failures[k] + 1),
         Trying(k)' \subseteq Trying(k) \ {p}
  PROVE  KeyWaits(k)'
<1> DEFINE n == failures[k]
           m == Cardinality(Trying(k))
<1>1. clock \in Nat /\ n \in Nat
  BY DEF Typed, AccountsTyped, KeyWaits
<1>2. /\ m \in Nat /\ m >= 1 /\ Cardinality(Trying(k)') \in Nat
      /\ Cardinality(Trying(k)') <= m - 1
  <2>1. Cardinality(Trying(k) \ {p}) = m - 1
    BY TryingCounted, FS_RemoveElement
  <2>2. IsFiniteSet(Trying(k) \ {p})
    BY TryingCounted, FS_RemoveElement
  <2>3. /\ Cardinality(Trying(k)') <= Cardinality(Trying(k) \ {p})
        /\ Cardinality(Trying(k)') \in Nat /\ m \in Nat
    BY <2>2, TryingCounted, FS_Subset, FS_CardinalityType
  <2> QED BY <2>1, <2>3
<1>3. Delay(n + 1) \in Nat
  BY <1>1, Delays
<1>4. \A j \in 0..(n + m) : clock >= Waits[j]
  BY DEF KeyWaits
<1>5. \A j \in 0..(n + 1 + Cardinality(Trying(k)')) : j \in 0..(n + m)
  BY <1>1, <1>2
<1>6. ASSUME NEW i \in 1..(n + 1) PROVE clock + Delay(n + 1) >= Waits[i] + Delay(i)
  <2>1. i \in 0..(n + m) /\ i \in Nat \ {0} /\ i <= n + 1
    BY <1>1, <1>2
  <2>2. Delay(i) \in Nat /\ Delay(i) <= Delay(n + 1)
    BY <1>1, <2>1, Delays
  <2>3. Waits[i] \in Nat /\ clock >= Waits[i]
    BY <1>4, <2>1, WaitsIs
  <2> QED BY <1>1, <1>3, <2>2, <2>3
<1>7. clock + Delay(n + 1) \in Nat /\ n + 1 \in Nat
  BY <1>1, <1>3
<1> HIDE DEF m
<1> QED BY <1>4, <1>5, <1>6, <1>7 DEF KeyWaits

\* A login is admitted: the delay of the failure that many logins ago is over.
LEMMA KeyStarts ==
  ASSUME Typed, NEW k, KeyWaits(k), NEW p \in Requests, clock' = clock,
         failures'[k] = failures[k], allowedAt'[k] = allowedAt[k], allowedAt[k] <= clock,
         p \notin Trying(k), Trying(k)' \subseteq Trying(k) \union {p}
  PROVE  KeyWaits(k)'
<1> DEFINE n == failures[k]
           m == Cardinality(Trying(k))
<1>1. clock \in Nat /\ n \in Nat /\ allowedAt[k] \in Nat
  BY DEF Typed, AccountsTyped, KeyWaits
<1>2. m \in Nat /\ m + 1 <= Handlers /\ Cardinality(Trying(k)') <= m + 1
      /\ Cardinality(Trying(k)') \in Nat
  <2>1. /\ IsFiniteSet(Trying(k) \union {p}) /\ Cardinality(Trying(k) \union {p}) = m + 1
    BY TryingCounted, FS_AddElement
  <2>2. Trying(k) \union {p} \subseteq Requests
    BY DEF Trying
  <2>3. m \in Nat
    BY TryingCounted
  <2>4. m + 1 <= Handlers
    BY <2>1, <2>2, RequestsAssumption, FS_Subset DEF Handlers
  <2>5. Cardinality(Trying(k)') <= m + 1 /\ Cardinality(Trying(k)') \in Nat
    BY <2>1, FS_Subset, FS_CardinalityType
  <2> QED BY <2>3, <2>4, <2>5
<1>3. ASSUME NEW j \in 0..(n + Cardinality(Trying(k)')) PROVE clock >= Waits[j]
  <2>1. CASE j <= n + m
    BY <1>1, <1>2, <2>1 DEF KeyWaits
  <2>2. CASE j <= Handlers
    BY <1>1, <2>2, FewWait
  <2>3. CASE ~(j <= n + m) /\ ~(j <= Handlers)
    <3>1. j - Handlers \in 1..n
      BY <1>1, <1>2, <2>3, HandlersNat
    <3>2. Waits[j] = Waits[j - Handlers] + Delay(j - Handlers) /\ Waits[j] \in Nat
      BY <2>3, WaitsIs
    <3>3. allowedAt[k] >= Waits[j]
      BY <3>1, <3>2 DEF KeyWaits
    <3> QED BY <1>1, <3>2, <3>3
  <2> QED BY <2>1, <2>2, <2>3
<1> QED BY <1>3 DEF KeyWaits

\* A login that is under way was so before.
TriesStay ==
  \A q \in Requests : pc'[q] \in TryPlaces =>
    pc[q] \in TryPlaces /\ call'[q].user = call[q].user /\ call'[q].ip = call[q].ip

\* The entry of a key is kept or removed, while time passes.
EntriesEnd ==
  /\ clock' \in {clock, clock + 1}
  /\ \A k \in Keys : \/ failures'[k] = failures[k] /\ allowedAt'[k] = allowedAt[k]
                     \/ failures'[k] = 0 /\ allowedAt'[k] = 0

LEMMA EntriesKept ==
  ASSUME UNCHANGED throttleVars, clock' = clock
  PROVE  EntriesEnd
  BY DEF EntriesEnd, throttleVars

LEMMA TriesEnd ==
  ASSUME NEW p \in Requests, Moves(p), pc'[p] \notin TryPlaces
  PROVE  TriesStay
  BY DEF TriesStay, Moves

LEMMA BeginsNoTry ==
  ASSUME Typed, NEW p \in Requests, NEW c, NEW label, Begin(p, c, label), label \notin TryPlaces
  PROVE  TriesStay
  BY StartMoves, TriesEnd

LEMMA ReturnsNoTry ==
  ASSUME Typed, NEW p \in Requests, Return(p)
  PROVE  TriesStay
  BY ReturnMoves, TriesEnd DEF TryPlaces

LEMMA GoesNoTry ==
  ASSUME Typed, NEW p \in Requests, NEW label, Goto(p, label), label \notin TryPlaces
  PROVE  TriesStay
  BY GotoMoves, TriesEnd

LEMMA SetsNoTry ==
  ASSUME Typed, NEW p \in Requests, NEW field, NEW value, NEW label,
         Set(p, field, value, label), label \notin TryPlaces
  PROVE  TriesStay
  BY SetMoves, TriesEnd

\* A failure of the login p is recorded.
Fails(p) ==
  /\ pc[p] \in TryPlaces
  /\ RecordFailure(call[p].user, call[p].ip) /\ Return(p) /\ clock' = clock

\* What a step of an account is to the throttle.
LEMMA ThrottleElsewhere ==
  ASSUME Typed, NextAccounts
  PROVE  \/ \E p \in Requests, u \in Users, ip \in Ips : \E guess : Login(p, u, ip, guess)
         \/ \E p \in Requests : Fails(p)
         \/ TriesStay /\ EntriesEnd
<1> USE DEF TryPlaces
<1>1. ASSUME NEW p \in Requests, NEW u \in Users, NEW op \in {"ACTIVATE", "DEACTIVATE"},
             LockRow(p, u, op)
      PROVE  TriesStay /\ EntriesEnd
  <2>1. TriesStay
    BY <1>1 DEF LockRow, TriesStay, Typed, AccountsTyped
  <2> QED BY <1>1, <2>1, EntriesKept DEF LockRow
<1>2. ASSUME NEW p \in Requests, NEW u \in Users,
             \/ Reset(p, u) \/ ResetSuperAdmin(p, u) \/ ProvisionSuperAdmin(p, u)
             \/ \E look \in BOOLEAN : Create(p, u, look)
      PROVE  TriesStay /\ EntriesEnd
  BY <1>2, BeginsNoTry, EntriesKept DEF Reset, Create, ResetSuperAdmin, ProvisionSuperAdmin, Script
<1>3. ASSUME NEW p \in Requests, NEW s \in sessions, NEW guess, Change(p, s, guess)
      PROVE  TriesStay /\ EntriesEnd
  BY <1>3, BeginsNoTry, EntriesKept DEF Change
<1>4. ASSUME NEW p \in Requests, LoginRead(p)
      PROVE  Fails(p) \/ (TriesStay /\ EntriesEnd)
  <2> DEFINE u == call[p].user
             c == [call[p] EXCEPT !.hash = password[u], !.seen = ended[u]]
  <2>1. CASE RecordFailure(u, call[p].ip) /\ Return(p)
    BY <1>4, <2>1 DEF LoginRead, Fails
  <2>2. CASE /\ call' = [call EXCEPT ![p] = c] /\ pc' = [pc EXCEPT ![p] = "login_verify"]
             /\ UNCHANGED throttleVars
    <3>1. call[p] \in LoginCalls
      BY <1>4 DEF LoginRead, Typed, AccountsTyped, CallTyped, LoginPlaces
    <3>2. PICK h, s : h = password[u] /\ s = ended[u]
      OBVIOUS
    <3>3. c = [call[p] EXCEPT !.hash = h, !.seen = s]
      BY <3>2
    <3>4. c.user = call[p].user /\ c.ip = call[p].ip
      BY <3>1, <3>3 DEF LoginCalls
    <3> HIDE DEF c
    <3>5. TriesStay
      BY <1>4, <2>2, <3>4 DEF TriesStay, LoginRead, Typed, AccountsTyped
    <3>6. clock' = clock
      BY <1>4 DEF LoginRead
    <3> QED BY <2>2, <3>5, <3>6, EntriesKept
  <2> QED BY <1>4, <2>1, <2>2 DEF LoginRead
<1>5. ASSUME NEW p \in Requests, LoginVerify(p)
      PROVE  Fails(p) \/ (TriesStay /\ EntriesEnd)
  <2>1. CASE RecordFailure(call[p].user, call[p].ip) /\ Return(p)
    BY <1>5, <2>1 DEF LoginVerify, Fails
  <2>2. CASE Goto(p, "login_insert") /\ UNCHANGED throttleVars
    BY <1>5, <2>2, GoesNoTry, EntriesKept DEF LoginVerify
  <2> QED BY <1>5, <2>1, <2>2 DEF LoginVerify
<1>6. ASSUME NEW p \in Requests, LoginStamp(p) PROVE TriesStay /\ EntriesEnd
  <2>1. TriesStay /\ RecordSuccess(call[p].user, call[p].ip) /\ clock' = clock
    BY <1>6, ReturnsNoTry DEF LoginStamp
  <2> QED BY <2>1 DEF RecordSuccess, EntriesEnd
<1>7. ASSUME NEW p \in Requests, LoginInsert(p) \/ SetPassword(p) \/ Revoke(p) \/ Fail(p)
      PROVE  TriesStay /\ EntriesEnd
  BY <1>7, GoesNoTry, ReturnsNoTry, EntriesKept DEF LoginInsert, SetPassword, Revoke, Fail
<1>8. ASSUME NEW p \in Requests, StatusRevoke(p) \/ StatusCommit(p) \/ CreateLook(p)
      PROVE  TriesStay /\ EntriesEnd
  BY <1>8, GoesNoTry, ReturnsNoTry, EntriesKept DEF StatusRevoke, StatusCommit, CreateLook
<1>9. ASSUME NEW p \in Requests, CreateInsert(p) PROVE TriesStay /\ EntriesEnd
  BY <1>9, GoesNoTry, ReturnsNoTry, EntriesKept DEF CreateInsert
<1>10. ASSUME NEW p \in Requests, ChangeRead(p) PROVE TriesStay /\ EntriesEnd
  BY <1>10, SetsNoTry, ReturnsNoTry, EntriesKept DEF ChangeRead
<1>11. CASE Restart
  <2>1. TriesStay
    BY <1>11 DEF Restart, TriesStay
  <2>2. EntriesEnd
    BY <1>11 DEF Restart, Forget, EntriesEnd
  <2> QED BY <2>1, <2>2
<1>12. CASE Tick
  BY <1>12 DEF Tick, callVars, throttleVars, TriesStay, EntriesEnd
<1>13. ASSUME NEW s, EndSession(s) PROVE TriesStay /\ EntriesEnd
  BY <1>13 DEF EndSession, callVars, throttleVars, TriesStay, EntriesEnd
<1> QED BY <1>1, <1>2, <1>3, <1>4, <1>5, <1>6, <1>7, <1>8, <1>9, <1>10, <1>11, <1>12, <1>13
        DEF NextAccounts

LEMMA ThrottleRecovery ==
  ASSUME Typed, Recovery
  PROVE  TriesStay /\ EntriesEnd
<1> USE DEF TryPlaces
<1>1. EntriesEnd
  <2>1. UNCHANGED <<throttleVars, clock>>
    BY DEF Recovery, Request, Verify, Redeem, Retire, Issue, Reject, Accept, Complete, others
  <2> QED BY <2>1, EntriesKept
<1>2. ASSUME NEW p \in Requests, NEW u, NEW ip, Request(p, u, ip) PROVE TriesStay
  BY <1>2, BeginsNoTry DEF Request
<1>3. ASSUME NEW p \in Requests, NEW u, NEW code, Verify(p, u, code) PROVE TriesStay
  BY <1>3, BeginsNoTry DEF Verify
<1>4. ASSUME NEW p \in Requests, NEW t, Redeem(p, t) PROVE TriesStay
  BY <1>4, BeginsNoTry DEF Redeem
<1>5. ASSUME NEW p \in Requests, Retire(p) PROVE TriesStay
  BY <1>5, SetsNoTry DEF Retire
<1>6. ASSUME NEW p \in Requests, Issue(p) \/ Reject(p) \/ Accept(p) PROVE TriesStay
  BY <1>6, ReturnsNoTry DEF Issue, Reject, Accept
<1>7. ASSUME NEW p \in Requests, Complete(p) PROVE TriesStay
  BY <1>7, GoesNoTry DEF Complete
<1> QED BY <1>1, <1>2, <1>3, <1>4, <1>5, <1>6, <1>7 DEF Recovery

LEMMA BackoffNext == BackoffInv /\ [Next]_vars => BackoffInv'
<1> SUFFICES ASSUME BackoffInv, [Next]_vars, NEW k \in Keys PROVE KeyWaits(k)'
  BY TypedNext DEF BackoffInv, Keys
<1>1. Typed /\ KeyWaits(k) /\ Typed'
  BY TypedNext DEF BackoffInv
<1>2. clock \in Nat /\ clock' \in Nat
  BY <1>1 DEF Typed, AccountsTyped
<1>3. CASE TriesStay /\ EntriesEnd
  <2>1. Trying(k)' \subseteq Trying(k)
    BY <1>3 DEF Trying, TriesStay
  <2>2. CASE failures'[k] = 0 /\ allowedAt'[k] = 0
    <3> SUFFICES ASSUME TRUE PROVE KeyWaits(k)'
      OBVIOUS
    <3>1. \A j \in 0..(failures'[k] + Cardinality(Trying(k)')) : j \in 0..Handlers
      <4>1. Trying(k)' \subseteq Requests
        BY DEF Trying
      <4>2. Cardinality(Trying(k)') \in Nat /\ Cardinality(Trying(k)') <= Handlers
        BY <4>1, RequestsAssumption, FS_Subset, FS_CardinalityType DEF Handlers
      <4> QED BY <2>2, <4>2, HandlersNat
    <3> QED BY <1>2, <2>2, <3>1, FewWait DEF KeyWaits
  <2>3. CASE failures'[k] = failures[k] /\ allowedAt'[k] = allowedAt[k]
    BY <1>1, <1>3, <2>1, <2>3, KeyStays DEF EntriesEnd
  <2> QED BY <1>3, <2>2, <2>3 DEF EntriesEnd
<1>4. ASSUME NEW p \in Requests, Fails(p) PROVE KeyWaits(k)'
  <2>1. /\ pc[p] \in TryPlaces /\ clock' = clock
        /\ RecordFailure(call[p].user, call[p].ip)
        /\ Moves(p) /\ pc'[p] = "idle"
    BY <1>1, <1>4, ReturnMoves DEF Fails
  <2>2. Trying(k)' \subseteq Trying(k) \ {p}
    BY <2>1 DEF Trying, Moves, TryPlaces
  <2>3. CASE k \in {call[p].user, call[p].ip}
    <3>1. p \in Trying(k)
      BY <2>1, <2>3 DEF Trying
    <3>2. failures'[k] = failures[k] + 1 /\ allowedAt'[k] = clock + Delay(failures[k] + 1)
      BY <2>1, <2>3 DEF RecordFailure
    <3> QED BY <1>1, <2>1, <2>2, <3>1, <3>2, KeyFails
  <2>4. CASE k \notin {call[p].user, call[p].ip}
    <3>1. failures'[k] = failures[k] /\ allowedAt'[k] = allowedAt[k]
      BY <2>1, <2>4 DEF RecordFailure
    <3> QED BY <1>1, <2>1, <2>2, <3>1, KeyStays
  <2> QED BY <2>3, <2>4
<1>5. ASSUME NEW p \in Requests, NEW u \in Users, NEW ip \in Ips, NEW guess,
             Login(p, u, ip, guess)
      PROVE  KeyWaits(k)'
  <2> DEFINE c == [op |-> "LOGIN", user |-> u, ip |-> ip, guess |-> guess,
                   id |-> calls + 1, hash |-> Wrong, seen |-> 0]
  <2>1. Begin(p, c, "login_read") /\ Allowed(u, ip) /\ Prune /\ clock' = clock
    BY <1>5 DEF Login
  <2>2. call'[p] = c
    BY <1>1, <2>1 DEF Begin, Typed, AccountsTyped
  <2>3. call'[p].user = u /\ call'[p].ip = ip
    BY <2>2
  <2> HIDE DEF c
  <2>4. Moves(p) /\ pc[p] = "idle" /\ pc'[p] = "login_read"
    BY <1>1, <2>1, StartMoves
  <2>5. CASE Outdated(k)
    <3>1. failures'[k] = 0 /\ allowedAt'[k] = 0
      BY <2>1, <2>5 DEF Prune
    <3>2. \A j \in 0..(failures'[k] + Cardinality(Trying(k)')) : j \in 0..Handlers
      <4>1. Trying(k)' \subseteq Requests
        BY DEF Trying
      <4>2. Cardinality(Trying(k)') \in Nat /\ Cardinality(Trying(k)') <= Handlers
        BY <4>1, RequestsAssumption, FS_Subset, FS_CardinalityType DEF Handlers
      <4> QED BY <3>1, <4>2, HandlersNat
    <3> QED BY <1>2, <3>1, <3>2, FewWait DEF KeyWaits
  <2>6. CASE ~Outdated(k)
    <3>1. failures'[k] = failures[k] /\ allowedAt'[k] = allowedAt[k]
      BY <2>1, <2>6 DEF Prune
    <3>2. CASE k \notin {u, ip}
      <4>1. Trying(k)' \subseteq Trying(k)
        BY <2>3, <2>4, <3>2 DEF Trying, Moves
      <4> QED BY <1>1, <2>1, <3>1, <4>1, KeyStays
    <3>3. CASE k \in {u, ip} /\ allowedAt[k] <= clock
      <4>1. p \notin Trying(k) /\ Trying(k)' \subseteq Trying(k) \union {p}
        BY <2>4 DEF Trying, Moves, TryPlaces
      <4> QED BY <1>1, <2>1, <3>1, <3>3, <4>1, KeyStarts
    <3>4. CASE k \in {u, ip} /\ failures[k] = 0
      <4>1. \A j \in 0..(failures'[k] + Cardinality(Trying(k)')) : j \in 0..Handlers
        <5>1. Trying(k)' \subseteq Requests
          BY DEF Trying
        <5>2. Cardinality(Trying(k)') \in Nat /\ Cardinality(Trying(k)') <= Handlers
          BY <5>1, RequestsAssumption, FS_Subset, FS_CardinalityType DEF Handlers
        <5> QED BY <3>1, <3>4, <5>2, HandlersNat
      <4>2. allowedAt'[k] \in Nat
        BY <1>1, <3>1 DEF KeyWaits
      <4> QED BY <1>2, <3>1, <3>4, <4>1, <4>2, FewWait DEF KeyWaits
    <3> QED BY <2>1, <2>6, <3>2, <3>3, <3>4 DEF Allowed
  <2> QED BY <2>5, <2>6
<1>6. CASE UNCHANGED vars
  <2>1. TriesStay /\ EntriesEnd
    BY <1>6 DEF vars, callVars, throttleVars, TriesStay, EntriesEnd
  <2> QED BY <1>3, <2>1
<1> QED BY <1>1, <1>3, <1>4, <1>5, <1>6, ThrottleElsewhere, ThrottleRecovery DEF Next, Elsewhere

LEMMA BackoffFollows == BackoffInv => BackoffAddsUp
<1> SUFFICES ASSUME BackoffInv, NEW k \in Keys PROVE clock >= Waits[failures[k]]
  BY DEF BackoffAddsUp
<1>1. failures[k] \in 0..(failures[k] + Cardinality(Trying(k)))
  BY TryingCounted DEF BackoffInv, KeyWaits
<1> QED BY <1>1 DEF BackoffInv, KeyWaits

-----------------------------------------------------------------------------
(* Guesses of two handlers *)

\* A row stays the row of a code; only a wrong code changes its counts.
Stays(r, s) == s.user = r.user /\ s.at = r.at /\ (r.consumed => s.consumed)
Uncounted(r, s) == Stays(r, s) /\ s.attempts = r.attempts /\ s.guesses = r.guesses

LEMMA RecoveryRows ==
  ASSUME CodeInv, NEW p \in Requests,
         \/ Retire(p) \/ Accept(p) \/ Complete(p)
         \/ \E u \in Users : \E code : Verify(p, u, code)
         \/ \E u, ip : Request(p, u, ip)
         \/ \E t : Redeem(p, t)
  PROVE  Rows' = Rows /\ \A c \in Rows : Uncounted(challenges[c], challenges'[c])
<1> USE DEF Uncounted, Stays
<1>1. CASE Retire(p)
  BY <1>1, RowTyped DEF Retire, Consume, Rows, CodeInv, Typed, ChallengeRows
<1>2. CASE Accept(p)
  <2>1. PICK d, t, e : d = call[p].row /\ t = call[p].id /\ e = clock + Ttl
    OBVIOUS
  <2>2. challenges' = [challenges EXCEPT ![d] =
                         [@ EXCEPT !.ticket = t, !.verified = TRUE, !.until = e]]
    BY <1>2, <2>1 DEF Accept
  <2>3. Rows' = Rows
    BY <2>2 DEF Rows
  <2>4. ASSUME NEW c \in Rows PROVE Uncounted(challenges[c], challenges'[c])
    <3>1. challenges[c] \in ChallengeRows
      BY RowTyped DEF CodeInv, Typed
    <3>2. challenges'[c] = IF c = d THEN [challenges[c] EXCEPT !.ticket = t, !.verified = TRUE,
                                                               !.until = e]
                                    ELSE challenges[c]
      BY <2>2 DEF Rows, CodeInv, Typed, RecoveryTyped
    <3> QED BY <3>1, <3>2 DEF ChallengeRows
  <2> QED BY <2>3, <2>4
<1>3. CASE Complete(p)
  <2>1. challenges' = [c \in Rows |->
            [challenges[c] EXCEPT !.consumed = @ \/ c \in Pending(call[p].user),
                                  !.uses = IF c = call[p].row THEN @ + 1 ELSE @]]
    BY <1>3 DEF Complete
  <2>2. Rows' = Rows
    BY <2>1 DEF Rows
  <2>3. ASSUME NEW c \in Rows PROVE Uncounted(challenges[c], challenges'[c])
    <3>1. challenges[c] \in ChallengeRows
      BY RowTyped DEF CodeInv, Typed
    <3>2. PICK b \in BOOLEAN : b <=> c \in Pending(call[p].user)
      OBVIOUS
    <3>3. PICK k : k = IF c = call[p].row THEN challenges[c].uses + 1 ELSE challenges[c].uses
      OBVIOUS
    <3>4. challenges'[c] = [challenges[c] EXCEPT !.consumed = @ \/ b, !.uses = k]
      BY <2>1, <3>2, <3>3
    <3> QED BY <3>1, <3>4 DEF ChallengeRows
  <2> QED BY <2>2, <2>3
<1>4. ASSUME NEW u \in Users, NEW code, Verify(p, u, code)
      PROVE  Rows' = Rows /\ \A c \in Rows : Uncounted(challenges[c], challenges'[c])
  <2>1. PICK d : d = Newest(Verifiable(u))
    OBVIOUS
  <2>2. PICK b \in BOOLEAN : b <=> Verifying(d) # {}
    OBVIOUS
  <2>3. challenges' = [challenges EXCEPT ![d].shared = @ \/ Verifying(d) # {}]
    BY <1>4, <2>1 DEF Verify
  <2>4. Rows' = Rows
    BY <2>3 DEF Rows
  <2>5. ASSUME NEW c \in Rows PROVE Uncounted(challenges[c], challenges'[c])
    <3>1. challenges[c] \in ChallengeRows
      BY RowTyped DEF CodeInv, Typed
    <3>2. challenges'[c] = IF c = d THEN [challenges[c] EXCEPT !.shared = @ \/ b]
                                    ELSE challenges[c]
      BY <2>2, <2>3 DEF Rows, CodeInv, Typed, RecoveryTyped
    <3> QED BY <3>1, <3>2 DEF ChallengeRows
  <2> QED BY <2>4, <2>5
<1>5. CASE (\E u, ip : Request(p, u, ip)) \/ \E t : Redeem(p, t)
  BY <1>5 DEF Request, Redeem, recoveryVars, Rows
<1> QED BY <1>1, <1>2, <1>3, <1>4, <1>5

LEMMA IssueRows ==
  ASSUME CodeInv, NEW p \in Requests, Issue(p)
  PROVE  \E n : /\ Rows' = Rows \union {n} /\ n \notin Rows
                /\ \A c \in Rows : challenges'[c] = challenges[c]
                /\ challenges'[n] = Challenge(call[p])
<1>1. PICK n : n = Len(challenges) + 1
  OBVIOUS
<1>2. challenges \in Seq(ChallengeRows) /\ Len(challenges) \in Nat /\ Rows = 1..Len(challenges)
  BY DEF CodeInv, Typed, RecoveryTyped, Rows
<1>3. challenges' = Append(challenges, Challenge(call[p]))
  BY DEF Issue
<1>4. Rows' = 1..n
  BY <1>1, <1>2, <1>3 DEF Rows
<1> QED BY <1>1, <1>2, <1>3, <1>4

LEMMA RejectRows ==
  ASSUME CodeInv, NEW p \in Requests, NEW d, d = call[p].row, Reject(p)
  PROVE  /\ d \in Rows /\ Rows' = Rows
         /\ \A c \in Rows : Stays(challenges[c], challenges'[c])
         /\ \A c \in Rows \ {d} : Uncounted(challenges[c], challenges'[c])
         /\ Exhausted(p) => Uncounted(challenges[d], challenges'[d])
         /\ ~Exhausted(p) =>
              /\ challenges'[d].attempts = call[p].attempts + 1
              /\ challenges'[d].guesses = challenges[d].guesses + 1
              /\ challenges'[d].consumed <=>
                   challenges[d].consumed \/ call[p].attempts + 1 >= MaxAttempts
<1> USE DEF Uncounted, Stays
<1>1. d \in Rows
  BY DEF Reject, CodeInv, CodesOK, VerifyingKnown
<1>2. \A c \in Rows : challenges[c] \in ChallengeRows
  BY RowTyped DEF CodeInv, Typed
<1>3. CASE Exhausted(p)
  <2>1. challenges' = Consume({d})
    BY <1>3 DEF Reject
  <2> QED BY <1>1, <1>2, <1>3, <2>1 DEF Consume, Rows, ChallengeRows
<1>4. CASE ~Exhausted(p)
  <2>1. PICK n : n = call[p].attempts + 1
    OBVIOUS
  <2>2. PICK b \in BOOLEAN : b <=> n >= MaxAttempts
    OBVIOUS
  <2>3. Counted(d, n) = [challenges[d] EXCEPT !.attempts = n, !.consumed = @ \/ b, !.guesses = @ + 1]
    BY <2>2 DEF Counted
  <2>4. challenges' = [challenges EXCEPT ![d] = Counted(d, n)]
    BY <1>4, <2>1 DEF Reject
  <2>5. Rows' = Rows
    BY <2>4 DEF Rows
  <2>6. \A c \in Rows : challenges'[c] = IF c = d THEN Counted(d, n) ELSE challenges[c]
    BY <2>4 DEF Rows, CodeInv, Typed, RecoveryTyped
  <2>7. /\ Stays(challenges[d], Counted(d, n))
        /\ Counted(d, n).attempts = n
        /\ Counted(d, n).guesses = challenges[d].guesses + 1
        /\ Counted(d, n).consumed <=> challenges[d].consumed \/ b
    BY <1>1, <1>2, <2>3 DEF ChallengeRows
  <2> QED BY <1>1, <1>4, <2>1, <2>2, <2>5, <2>6, <2>7
<1> QED BY <1>1, <1>3, <1>4

\* Twice the guesses that lead to a attempts, when another handler writes every count back.
Twice(a) == a * (2 * MaxAttempts - a + 1)

LEMMA TwiceUp ==
  ASSUME NEW M \in Nat, NEW a \in Nat
  PROVE  (a + 1) * (2 * M - (a + 1) + 1) = a * (2 * M - a + 1) + 2 * (M - a)
OBVIOUS

LEMMA TwiceOne ==
  ASSUME NEW a \in Nat, NEW b, b = a + 1
  PROVE  Twice(b) = Twice(a) + 2 * (MaxAttempts - a)
<1>1. PICK M \in Nat : M = MaxAttempts
  BY RecoveryAssumption
<1>2. b * (2 * M - b + 1) = a * (2 * M - a + 1) + 2 * (M - a)
  BY TwiceUp
<1> QED BY <1>1, <1>2, Zenon DEF Twice

LEMMA TwiceGrows ==
  ASSUME NEW a \in Nat, NEW b \in Nat, a <= b, b <= MaxAttempts
  PROVE  Twice(b) >= Twice(a) + 2 * (b - a)
<1>1. PICK M \in Nat : M = MaxAttempts
  BY RecoveryAssumption
<1>2. PICK x \in Nat : b = a + x
  <2>1. b - a \in Nat /\ b = a + (b - a)
    OBVIOUS
  <2> QED BY <2>1
<1>3. PICK y \in Int : y = 2 * M + 1 - a - b
  OBVIOUS
<1>4. b * (2 * M - b + 1) - a * (2 * M - a + 1) = x * y
  BY <1>2, <1>3
<1>5. CASE x = 0
  BY <1>1, <1>2, <1>5 DEF Twice
<1>6. CASE x # 0
  <2>1. y >= 2
    BY <1>1, <1>2, <1>3, <1>6
  <2>2. x * y >= 2 * x
    BY <2>1
  <2>3. b * (2 * M - b + 1) \in Int /\ a * (2 * M - a + 1) \in Int
    OBVIOUS
  <2> QED BY <1>1, <1>2, <1>4, <2>2, <2>3 DEF Twice
<1> QED BY <1>5, <1>6

FewHandlers == Cardinality(Requests) <= 2

VerifyingCounts == \A p \in Requests : pc[p] = "verify" => call[p].attempts < MaxAttempts

\* A code that is active: its guesses, those it may have when the count p has read is written
\* back, and of two verifications one has read the count on record.
ActiveCounts(c) ==
  /\ 2 * challenges[c].guesses <= Twice(challenges[c].attempts)
  /\ \A p \in Verifying(c) :
       call[p].attempts <= challenges[c].attempts =>
         2 * challenges[c].guesses
           <= Twice(call[p].attempts) + 2 * (challenges[c].attempts - call[p].attempts)
  /\ \A p, q \in Verifying(c) :
       p # q => challenges[c].attempts \in {call[p].attempts, call[q].attempts}

\* A code that is consumed: those that still verify it are counted.
ConsumedCounts(c) ==
  /\ 2 * challenges[c].guesses <= Twice(MaxAttempts) + 2
  /\ \A p \in Verifying(c) : 2 * challenges[c].guesses <= Twice(MaxAttempts)
  /\ \A p, q \in Verifying(c) : p # q => 2 * challenges[c].guesses + 2 <= Twice(MaxAttempts)

CountsOf(c) == IF challenges[c].consumed THEN ConsumedCounts(c) ELSE ActiveCounts(c)

GuessInv ==
  /\ CodeInv /\ VerifyingCounts
  /\ FewHandlers => \A c \in Rows : CountsOf(c)

LEMMA CountTypes ==
  ASSUME CodeInv, NEW c \in Rows
  PROVE  /\ challenges[c].attempts \in Nat /\ challenges[c].attempts <= MaxAttempts
         /\ challenges[c].guesses \in Nat /\ challenges[c].consumed \in BOOLEAN
         /\ MaxAttempts \in Nat /\ MaxAttempts >= 1
         /\ ~challenges[c].consumed => challenges[c].attempts < MaxAttempts
         /\ \A p \in Verifying(c) : p \in Requests /\ call[p].attempts \in Nat
<1>1. challenges[c] \in ChallengeRows
  BY RowTyped DEF CodeInv, Typed
<1>2. MaxAttempts \in Nat /\ MaxAttempts >= 1
  BY RecoveryAssumption
<1>3. ~challenges[c].consumed => challenges[c].attempts < MaxAttempts
  BY <1>1 DEF CodeInv, CodesOK, SpentIsConsumed, Pending, ChallengesOf, ChallengeRows
<1>4. \A p \in Verifying(c) : p \in Requests /\ call[p].attempts \in Nat
  BY DEF Verifying, CodeInv, Typed, AccountsTyped, CallTyped, VerifyCalls
<1> QED BY <1>1, <1>2, <1>3, <1>4 DEF ChallengeRows

LEMMA TwiceInt ==
  ASSUME NEW a \in Int PROVE Twice(a) \in Int
<1>1. PICK M \in Nat : M = MaxAttempts
  BY RecoveryAssumption
<1> QED BY <1>1 DEF Twice

\* A step that leaves the counts of the code alone, and of its verifications ends some.
LEMMA CountsStay ==
  ASSUME CodeInv, NEW c \in Rows, CountsOf(c), Uncounted(challenges[c], challenges'[c]),
         \A q \in Verifying(c)' : q \in Verifying(c) /\ call'[q] = call[q]
  PROVE  CountsOf(c)'
<1> DEFINE A == challenges[c].attempts
           g == challenges[c].guesses
<1>1. /\ A \in Nat /\ A <= MaxAttempts /\ g \in Nat /\ MaxAttempts \in Nat /\ MaxAttempts >= 1
      /\ challenges'[c].attempts = A /\ challenges'[c].guesses = g
      /\ ~challenges[c].consumed => A < MaxAttempts
      /\ challenges[c].consumed => challenges'[c].consumed
  BY CountTypes DEF Uncounted, Stays
<1>2. CASE challenges[c].consumed
  BY <1>1, <1>2 DEF CountsOf, ConsumedCounts
<1>3. CASE ~challenges[c].consumed /\ ~challenges'[c].consumed
  BY <1>1, <1>3 DEF CountsOf, ActiveCounts
<1>4. CASE ~challenges[c].consumed /\ challenges'[c].consumed
  <2>1. 2 * g <= Twice(A)
    BY <1>4 DEF CountsOf, ActiveCounts
  <2>2. Twice(MaxAttempts) >= Twice(A) + 2 * (MaxAttempts - A)
    BY <1>1, TwiceGrows
  <2>3. Twice(MaxAttempts) \in Int /\ Twice(A) \in Int
    BY <1>1, TwiceInt
  <2>4. 2 * g + 2 <= Twice(MaxAttempts)
    BY <1>1, <1>4, <2>1, <2>2, <2>3
  <2>5. 2 * g <= Twice(MaxAttempts) /\ 2 * g <= Twice(MaxAttempts) + 2
    BY <1>1, <2>3, <2>4
  <2> QED BY <1>1, <1>4, <2>4, <2>5 DEF CountsOf, ConsumedCounts
<1> QED BY <1>2, <1>3, <1>4

\* A verification reads the count on record.
LEMMA CountsRead ==
  ASSUME CodeInv, NEW c \in Rows, CountsOf(c), Uncounted(challenges[c], challenges'[c]),
         ~challenges'[c].consumed, NEW p, call'[p].attempts = challenges[c].attempts,
         FewHandlers,
         \A q \in Verifying(c)' : q = p \/ (q \in Verifying(c) /\ call'[q] = call[q]),
         \A q, r, s \in Requests : q = r \/ r = s \/ q = s
  PROVE  CountsOf(c)'
<1> DEFINE A == challenges[c].attempts
           g == challenges[c].guesses
<1>1. /\ A \in Nat /\ g \in Nat
      /\ challenges'[c].attempts = A /\ challenges'[c].guesses = g
      /\ ~challenges[c].consumed
  BY CountTypes DEF Uncounted, Stays
<1>2. 2 * g <= Twice(A) /\ Twice(A) \in Int
  BY <1>1, TwiceInt DEF CountsOf, ActiveCounts
<1>3. ASSUME NEW q \in Verifying(c)', call'[q].attempts <= A
      PROVE  2 * g <= Twice(call'[q].attempts) + 2 * (A - call'[q].attempts)
  <2>1. CASE q = p
    BY <1>1, <1>2, <2>1
  <2>2. CASE q # p
    BY <1>1, <1>3, <2>2 DEF CountsOf, ActiveCounts
  <2> QED BY <2>1, <2>2
<1>4. ASSUME NEW q \in Verifying(c)', NEW r \in Verifying(c)', q # r
      PROVE  A \in {call'[q].attempts, call'[r].attempts}
  <2>1. CASE q = p \/ r = p
    BY <2>1
  <2>2. CASE q # p /\ r # p
    <3>1. q \in Verifying(c) /\ r \in Verifying(c) /\ call'[q] = call[q] /\ call'[r] = call[r]
      BY <2>2
    <3> QED BY <1>1, <1>4, <3>1 DEF CountsOf, ActiveCounts
  <2> QED BY <2>1, <2>2
<1> QED BY <1>1, <1>2, <1>3, <1>4 DEF CountsOf, ActiveCounts

\* A wrong code: the count becomes what was read, plus one.
LEMMA CountsWritten ==
  ASSUME GuessInv, NEW c \in Rows, CountsOf(c), NEW p \in Verifying(c),
         challenges'[c].attempts = call[p].attempts + 1,
         challenges'[c].guesses = challenges[c].guesses + 1,
         challenges'[c].consumed <=>
           challenges[c].consumed \/ call[p].attempts + 1 >= MaxAttempts,
         \A q \in Verifying(c)' : q \in Verifying(c) \ {p} /\ call'[q] = call[q],
         \A q, r, s \in Requests : q = r \/ r = s \/ q = s
  PROVE  CountsOf(c)'
<1> DEFINE A == challenges[c].attempts
           g == challenges[c].guesses
<1>0. PICK a \in Nat : a = call[p].attempts
  BY CountTypes DEF GuessInv
<1>00. PICK n \in Nat : n = a + 1
  OBVIOUS
<1>1. /\ A \in Nat /\ A <= MaxAttempts /\ g \in Nat /\ MaxAttempts \in Nat /\ MaxAttempts >= 1
      /\ ~challenges[c].consumed => A < MaxAttempts
      /\ a < MaxAttempts
      /\ challenges'[c].attempts = n /\ challenges'[c].guesses = g + 1
  BY <1>0, <1>00, CountTypes DEF GuessInv, VerifyingCounts, Verifying
<1>2. \A q, r \in Verifying(c)' : q = r
  BY DEF Verifying
<1>3. CASE challenges[c].consumed
  <2>1. challenges'[c].consumed
    BY <1>3
  <2>2. 2 * g <= Twice(MaxAttempts) /\ Twice(MaxAttempts) \in Int
    BY <1>1, <1>3, TwiceInt DEF CountsOf, ConsumedCounts
  <2>3. ASSUME NEW q \in Verifying(c)' PROVE 2 * (g + 1) <= Twice(MaxAttempts)
    <3>1. 2 * g + 2 <= Twice(MaxAttempts)
      BY <1>3 DEF CountsOf, ConsumedCounts
    <3> QED BY <1>1, <2>2, <3>1
  <2>4. 2 * (g + 1) <= Twice(MaxAttempts) + 2
    BY <1>1, <2>2
  <2> QED BY <1>1, <1>2, <2>1, <2>3, <2>4 DEF CountsOf, ConsumedCounts
<1>4. CASE ~challenges[c].consumed
  <2>1. 2 * g <= Twice(A) /\ Twice(A) \in Int /\ Twice(a) \in Int /\ Twice(n) \in Int
    BY <1>1, <1>4, TwiceInt DEF CountsOf, ActiveCounts
  <2>2. a <= A => 2 * g <= Twice(a) + 2 * (A - a)
    BY <1>0, <1>4 DEF CountsOf, ActiveCounts
  <2>3. Twice(n) = Twice(a) + 2 * (MaxAttempts - a)
    BY <1>00, TwiceOne
  <2>4. A <= a => Twice(n) >= Twice(A) + 2 * (n - A)
    <3>1. n <= MaxAttempts /\ (A <= a => A <= n)
      BY <1>1, <1>00
    <3> QED BY <1>1, <3>1, TwiceGrows
  <2>5. 2 * (g + 1) <= Twice(n)
    <3>1. CASE a <= A
      BY <1>1, <1>4, <1>00, <2>1, <2>2, <2>3, <3>1
    <3>2. CASE a > A
      BY <1>1, <1>00, <2>1, <2>4, <3>2
    <3> QED BY <1>1, <3>1, <3>2
  <2>6. CASE ~challenges'[c].consumed
    <3>1. ASSUME NEW q \in Verifying(c)', call'[q].attempts <= n
          PROVE  2 * (g + 1) <= Twice(call'[q].attempts) + 2 * (n - call'[q].attempts)
      <4>1. PICK b \in Nat : b = call[q].attempts
        BY CountTypes DEF GuessInv
      <4>2. q \in Verifying(c) /\ q # p /\ call'[q].attempts = b /\ b <= n
        BY <3>1, <4>1
      <4>3. A = a \/ A = b
        BY <1>0, <1>4, <4>1, <4>2 DEF CountsOf, ActiveCounts
      <4>4. b <= A => 2 * g <= Twice(b) + 2 * (A - b)
        BY <1>4, <4>1, <4>2 DEF CountsOf, ActiveCounts
      <4>5. Twice(b) \in Int
        BY TwiceInt
      <4>6. CASE b = n
        BY <1>1, <1>00, <2>1, <2>5, <4>2, <4>6
      <4>7. CASE b <= a /\ A = a
        BY <1>1, <1>00, <2>1, <4>2, <4>4, <4>5, <4>7
      <4>8. CASE b <= a /\ A = b
        BY <1>1, <1>00, <2>1, <4>2, <4>5, <4>8
      <4> QED BY <1>1, <1>00, <4>2, <4>3, <4>6, <4>7, <4>8
    <3>2. 2 * challenges'[c].guesses <= Twice(challenges'[c].attempts)
      BY <1>1, <2>5
    <3>3. \A q \in Verifying(c)' : call'[q].attempts <= challenges'[c].attempts =>
            2 * challenges'[c].guesses
              <= Twice(call'[q].attempts) + 2 * (challenges'[c].attempts - call'[q].attempts)
      <4>1. challenges'[c].attempts = n /\ challenges'[c].guesses = g + 1
        BY <1>1
      <4>2. \A q \in Verifying(c)' : call'[q].attempts \in Nat
        BY CountTypes DEF GuessInv
      <4> QED BY <1>1, <3>1, <4>1, <4>2
    <3>4. ActiveCounts(c)'
      BY <1>2, <3>2, <3>3, Zenon DEF ActiveCounts, Twice
    <3> QED BY <2>6, <3>4 DEF CountsOf
  <2>7. CASE challenges'[c].consumed
    <3>1. n = MaxAttempts
      BY <1>0, <1>1, <1>4, <1>00, <2>7
    <3>2. 2 * (g + 1) <= Twice(MaxAttempts) /\ Twice(MaxAttempts) \in Int
      BY <2>1, <2>5, <3>1
    <3>3. 2 * (g + 1) <= Twice(MaxAttempts) + 2
      BY <1>1, <3>2
    <3> QED BY <1>1, <1>2, <2>7, <3>2, <3>3 DEF CountsOf, ConsumedCounts
  <2> QED BY <2>6, <2>7
<1> QED BY <1>3, <1>4

LEMMA NoThird ==
  ASSUME FewHandlers, NEW q \in Requests, NEW r \in Requests, NEW s \in Requests
  PROVE  q = r \/ r = s \/ q = s
<1> SUFFICES ASSUME q # r, r # s, q # s PROVE FALSE
  OBVIOUS
<1>1. IsFiniteSet({q, r}) /\ Cardinality({q, r}) = 2
  <2>1. IsFiniteSet({q}) /\ Cardinality({q}) = 1 /\ r \notin {q}
    BY FS_Singleton
  <2>2. IsFiniteSet({q} \union {r}) /\ Cardinality({q} \union {r}) = Cardinality({q}) + 1
    BY <2>1, FS_AddElement
  <2>3. {q, r} = {q} \union {r}
    OBVIOUS
  <2> QED BY <2>1, <2>2, <2>3
<1>2. IsFiniteSet({q, r} \union {s}) /\ Cardinality({q, r} \union {s}) = 3
  <2>1. PICK T : T = {q, r}
    OBVIOUS
  <2>2. s \notin T /\ IsFiniteSet(T) /\ Cardinality(T) = 2
    BY <1>1, <2>1
  <2>3. IsFiniteSet(T \union {s}) /\ Cardinality(T \union {s}) = Cardinality(T) + 1
    BY <2>2, FS_AddElement
  <2> QED BY <2>1, <2>2, <2>3
<1>3. Cardinality({q, r} \union {s}) <= Cardinality(Requests) /\ Cardinality(Requests) \in Nat
  BY RequestsAssumption, FS_Subset, FS_CardinalityType
<1> QED BY <1>2, <1>3 DEF FewHandlers

LEMMA GuessInvInit == Init => GuessInv
<1> SUFFICES ASSUME Init PROVE GuessInv
  OBVIOUS
<1>1. Rows = {}
  BY DEF Init, Rows
<1>2. \A p \in Requests : pc[p] = "idle"
  BY DEF Init, InitAccounts
<1> QED BY <1>1, <1>2, CodeInvInit DEF GuessInv, VerifyingCounts

\* The verifications that are under way were so before.
VerifyingStay ==
  \A q \in Requests : pc'[q] = "verify" => pc[q] = "verify" /\ call'[q] = call[q]

LEMMA VerifyingEnd ==
  ASSUME NEW p \in Requests, Moves(p), pc'[p] # "verify"
  PROVE  VerifyingStay
  BY DEF VerifyingStay, Moves

\* A step of which no verification begins and none is counted.
LEMMA GuessesStay ==
  ASSUME GuessInv, VerifyingStay, Rows' = Rows,
         \A c \in Rows : Uncounted(challenges[c], challenges'[c])
  PROVE  VerifyingCounts' /\ (FewHandlers => \A c \in Rows' : CountsOf(c)')
<1>1. VerifyingCounts'
  BY DEF GuessInv, VerifyingCounts, VerifyingStay
<1>2. ASSUME NEW c \in Rows, FewHandlers PROVE CountsOf(c)'
  <2>1. \A q \in Verifying(c)' : q \in Verifying(c) /\ call'[q] = call[q]
    BY DEF Verifying, VerifyingStay
  <2> QED BY <1>2, <2>1, CountsStay DEF GuessInv
<1> QED BY <1>1, <1>2

LEMMA VerifyGuesses ==
  ASSUME GuessInv, NEW p \in Requests, NEW u \in Users, NEW code, Verify(p, u, code)
  PROVE  VerifyingCounts' /\ (FewHandlers => \A c \in Rows' : CountsOf(c)')
<1>0. CodeInv /\ Typed
  BY DEF GuessInv, CodeInv
<1>1. PICK d : d = Newest(Verifiable(u))
  OBVIOUS
<1>2. d \in Rows /\ ~challenges[d].consumed
  <2>1. d \in Verifiable(u) /\ d \in Rows
    BY <1>0, <1>1, NewestKnown DEF Verify, Typed
  <2> QED BY <2>1 DEF Verifiable, Pending
<1> DEFINE c0 == [op |-> "VERIFY", user |-> u, id |-> calls + 1, code |-> code,
                  row |-> d, attempts |-> challenges[d].attempts]
<1>3. Begin(p, c0, "verify")
  BY <1>1 DEF Verify
<1>4. /\ Moves(p) /\ pc'[p] = "verify"
      /\ call'[p].row = d /\ call'[p].attempts = challenges[d].attempts
  BY <1>0, <1>3, StartMoves DEF Begin, Typed, AccountsTyped
<1>5. Rows' = Rows /\ \A c \in Rows : Uncounted(challenges[c], challenges'[c])
  BY <1>0, RecoveryRows
<1>6. ~challenges'[d].consumed
  <2>1. PICK b \in BOOLEAN : b <=> Verifying(d) # {}
    OBVIOUS
  <2>2. challenges[d] \in ChallengeRows
    BY <1>0, <1>2, RowTyped DEF Typed
  <2>3. challenges'[d] = [challenges[d] EXCEPT !.shared = @ \/ b]
    BY <1>0, <1>1, <1>2, <2>1 DEF Verify, Rows, Typed, RecoveryTyped
  <2> QED BY <1>2, <2>2, <2>3 DEF ChallengeRows
<1>7. VerifyingCounts'
  <2>1. challenges[d].attempts < MaxAttempts
    BY <1>0, <1>2, CountTypes
  <2> QED BY <1>4, <2>1 DEF GuessInv, VerifyingCounts, Moves
<1>8. ASSUME FewHandlers, NEW c \in Rows PROVE CountsOf(c)'
  <2>1. CountsOf(c) /\ Uncounted(challenges[c], challenges'[c])
    BY <1>5, <1>8 DEF GuessInv
  <2>2. \A q \in Verifying(c)' : (q = p /\ c = d) \/ (q \in Verifying(c) /\ call'[q] = call[q])
    BY <1>4 DEF Verifying, Moves
  <2>3. CASE c = d
    BY <1>0, <1>2, <1>4, <1>6, <1>8, <2>1, <2>2, <2>3, NoThird, CountsRead
  <2>4. CASE c # d
    BY <1>0, <2>1, <2>2, <2>4, CountsStay
  <2> QED BY <2>3, <2>4
<1> QED BY <1>5, <1>7, <1>8

LEMMA RejectGuesses ==
  ASSUME GuessInv, NEW p \in Requests, Reject(p)
  PROVE  VerifyingCounts' /\ (FewHandlers => \A c \in Rows' : CountsOf(c)')
<1>0. CodeInv /\ Typed
  BY DEF GuessInv, CodeInv
<1>1. PICK d : d = call[p].row
  OBVIOUS
<1>2. Moves(p) /\ pc'[p] = "idle" /\ pc[p] = "verify"
  BY <1>0, ReturnMoves DEF Reject
<1>3. VerifyingStay
  BY <1>2, VerifyingEnd
<1>4. d \in Rows /\ Rows' = Rows /\ p \in Verifying(d)
  BY <1>0, <1>1, <1>2, RejectRows DEF Verifying
<1>5. ~Exhausted(p)
  <2>1. call[p].attempts < MaxAttempts /\ call[p].attempts \in Nat /\ MaxAttempts \in Nat
    BY <1>0, <1>2, <1>4, CountTypes DEF GuessInv, VerifyingCounts
  <2> QED BY <2>1 DEF Exhausted
<1>6. VerifyingCounts'
  BY <1>3 DEF GuessInv, VerifyingCounts, VerifyingStay
<1>7. ASSUME FewHandlers, NEW c \in Rows PROVE CountsOf(c)'
  <2>1. CountsOf(c)
    BY <1>7 DEF GuessInv
  <2>2. \A q \in Verifying(c)' : q \in Verifying(c) \ {p} /\ call'[q] = call[q]
    BY <1>2, <1>3 DEF Verifying, VerifyingStay
  <2>3. CASE c = d
    BY <1>0, <1>1, <1>4, <1>5, <1>7, <2>1, <2>2, <2>3, NoThird, RejectRows, CountsWritten
  <2>4. CASE c # d
    BY <1>0, <1>1, <2>1, <2>2, <2>4, RejectRows, CountsStay
  <2> QED BY <2>3, <2>4
<1> QED BY <1>4, <1>6, <1>7

LEMMA IssueGuesses ==
  ASSUME GuessInv, NEW p \in Requests, Issue(p)
  PROVE  VerifyingCounts' /\ (FewHandlers => \A c \in Rows' : CountsOf(c)')
<1>0. CodeInv /\ Typed
  BY DEF GuessInv, CodeInv
<1>1. PICK n : /\ Rows' = Rows \union {n} /\ n \notin Rows
               /\ \A c \in Rows : challenges'[c] = challenges[c]
               /\ challenges'[n] = Challenge(call[p])
  BY <1>0, IssueRows
<1>2. Moves(p) /\ pc'[p] = "idle"
  BY <1>0, ReturnMoves DEF Issue
<1>3. VerifyingStay
  BY <1>2, VerifyingEnd
<1>4. VerifyingCounts'
  BY <1>3 DEF GuessInv, VerifyingCounts, VerifyingStay
<1>5. ASSUME FewHandlers, NEW c \in Rows PROVE CountsOf(c)'
  <2>1. CountsOf(c) /\ Uncounted(challenges[c], challenges'[c])
    BY <1>1, <1>5 DEF GuessInv, Uncounted, Stays
  <2>2. \A q \in Verifying(c)' : q \in Verifying(c) /\ call'[q] = call[q]
    BY <1>3 DEF Verifying, VerifyingStay
  <2> QED BY <1>0, <2>1, <2>2, CountsStay
<1>6. CountsOf(n)'
  <2>1. Verifying(n)' = {}
    BY <1>0, <1>1, <1>3 DEF Verifying, VerifyingStay, CodeInv, CodesOK, VerifyingKnown
  <2>2. /\ challenges'[n].attempts = 0 /\ challenges'[n].guesses = 0
        /\ challenges'[n].consumed = FALSE
    BY <1>1 DEF Challenge
  <2>3. Twice(0) = 0
    <3>1. PICK M \in Nat : M = MaxAttempts
      BY RecoveryAssumption
    <3>2. 0 * (2 * M - 0 + 1) = 0
      OBVIOUS
    <3> QED BY <3>1, <3>2, Zenon DEF Twice
  <2>4. 2 * challenges'[n].guesses <= Twice(challenges'[n].attempts)
    BY <2>2, <2>3
  <2> QED BY <2>1, <2>2, <2>4 DEF CountsOf, ActiveCounts
<1> QED BY <1>1, <1>4, <1>5, <1>6

LEMMA GuessInvNext == GuessInv /\ [Next]_vars => GuessInv'
<1> SUFFICES ASSUME GuessInv, [Next]_vars
             PROVE  VerifyingCounts' /\ (FewHandlers => \A c \in Rows' : CountsOf(c)')
  BY CodeInvNext DEF GuessInv, FewHandlers
<1>0. CodeInv /\ Typed
  BY DEF GuessInv, CodeInv
<1> DEFINE Goal == VerifyingCounts' /\ (FewHandlers => \A c \in Rows' : CountsOf(c)')
<1>1. ASSUME NEW p \in Requests, NEW u \in Users, NEW ip, Request(p, u, ip) PROVE Goal
  <2>1. VerifyingStay
    BY <1>0, <1>1, StartMoves, VerifyingEnd DEF Request
  <2> QED BY <1>0, <1>1, <2>1, RecoveryRows, GuessesStay
<1>2. ASSUME NEW p \in Requests, NEW t, Redeem(p, t) PROVE Goal
  <2>1. VerifyingStay
    BY <1>0, <1>2, StartMoves, VerifyingEnd DEF Redeem
  <2> QED BY <1>0, <1>2, <2>1, RecoveryRows, GuessesStay
<1>3. ASSUME NEW p \in Requests, Retire(p) PROVE Goal
  <2>1. VerifyingStay
    BY <1>0, <1>3, SetMoves, VerifyingEnd DEF Retire
  <2> QED BY <1>0, <1>3, <2>1, RecoveryRows, GuessesStay
<1>4. ASSUME NEW p \in Requests, Accept(p) PROVE Goal
  <2>1. VerifyingStay
    BY <1>0, <1>4, ReturnMoves, VerifyingEnd DEF Accept
  <2> QED BY <1>0, <1>4, <2>1, RecoveryRows, GuessesStay
<1>5. ASSUME NEW p \in Requests, Complete(p) PROVE Goal
  <2>1. VerifyingStay
    <3>1. Goto(p, "revoke")
      BY <1>5 DEF Complete
    <3>2. Moves(p) /\ pc'[p] = "revoke"
      BY <1>0, <3>1, GotoMoves
    <3> QED BY <3>2, VerifyingEnd
  <2> QED BY <1>0, <1>5, <2>1, RecoveryRows, GuessesStay
<1>6. CASE Elsewhere
  <2>1. VerifyingStay
    BY <1>0, <1>6, RecoveriesStay DEF Elsewhere, VerifyingStay, RecoveryPlaces
  <2>2. Rows' = Rows /\ \A c \in Rows : Uncounted(challenges[c], challenges'[c])
    BY <1>6 DEF Elsewhere, Rows, Uncounted, Stays
  <2> QED BY <2>1, <2>2, GuessesStay
<1>7. CASE UNCHANGED vars
  <2>1. VerifyingStay
    BY <1>7 DEF vars, callVars, VerifyingStay
  <2>2. Rows' = Rows /\ \A c \in Rows : Uncounted(challenges[c], challenges'[c])
    BY <1>7 DEF vars, recoveryVars, Rows, Uncounted, Stays
  <2> QED BY <2>1, <2>2, GuessesStay
<1>8. CASE Recovery
  BY <1>1, <1>2, <1>3, <1>4, <1>5, <1>8, VerifyGuesses, RejectGuesses, IssueGuesses DEF Recovery
<1> QED BY <1>6, <1>7, <1>8 DEF Next

LEMMA GuessesFollow == GuessInv => GuessesLimited
<1> SUFFICES ASSUME GuessInv, NEW c \in Rows
             PROVE  /\ ~challenges[c].shared => challenges[c].guesses <= MaxAttempts
                    /\ Cardinality(Requests) <= 2 =>
                         challenges[c].guesses <= (MaxAttempts * (MaxAttempts + 1)) \div 2 + 1
  BY DEF GuessesLimited
<1>1. CodeInv
  BY DEF GuessInv
<1>2. ~challenges[c].shared => challenges[c].guesses <= MaxAttempts
  BY <1>1, CountTypes DEF CodeInv, CodesOK, UnsharedCounts
<1>3. ASSUME Cardinality(Requests) <= 2
      PROVE  challenges[c].guesses <= (MaxAttempts * (MaxAttempts + 1)) \div 2 + 1
  <2>1. PICK M \in Nat, g \in Nat, a \in Nat :
          M = MaxAttempts /\ g = challenges[c].guesses /\ a = challenges[c].attempts /\ a <= M
    BY <1>1, CountTypes
  <2>2. Twice(M) \in Int /\ Twice(a) \in Int
    BY TwiceInt
  <2>3. 2 * g <= Twice(M) + 2
    <3>1. CASE challenges[c].consumed
      BY <1>3, <2>1, <3>1 DEF GuessInv, FewHandlers, CountsOf, ConsumedCounts
    <3>2. CASE ~challenges[c].consumed
      <4>1. 2 * g <= Twice(a)
        BY <1>3, <2>1, <3>2 DEF GuessInv, FewHandlers, CountsOf, ActiveCounts
      <4>2. Twice(M) >= Twice(a) + 2 * (M - a)
        BY <2>1, TwiceGrows
      <4> QED BY <2>1, <2>2, <4>1, <4>2
    <3> QED BY <3>1, <3>2
  <2>4. PICK x \in Nat : x = M * (M + 1)
    OBVIOUS
  <2>5. Twice(M) = x
    <3>1. M * (2 * M - M + 1) = x
      BY <2>4
    <3> QED BY <2>1, <3>1, Zenon DEF Twice
  <2>6. g <= x \div 2 + 1
    BY <2>3, <2>5
  <2> QED BY <2>1, <2>4, <2>6
<1> QED BY <1>2, <1>3

-----------------------------------------------------------------------------
(* Codes that are sent *)

\* The requests that have been admitted and whose code is not in the table yet.
Asking(u) == {p \in Requests : pc[p] \in {"retire", "issue"} /\ call[p].user = u}
SentTo(u) == SentSince(ChallengesOf(u), clock - Hour)

Sends(u) == Cardinality(SentTo(u)) + Cardinality(Asking(u)) <= MaxSends + Handlers - 1
SendInv == CodeInv /\ \A u \in Users : Sends(u)

LEMMA SendsFinite ==
  ASSUME CodeInv, NEW u
  PROVE  /\ IsFiniteSet(SentTo(u)) /\ Cardinality(SentTo(u)) \in Nat
         /\ IsFiniteSet(Asking(u)) /\ Cardinality(Asking(u)) \in Nat
         /\ Cardinality(Asking(u)) <= Handlers
<1>1. Asking(u) \subseteq Requests
  BY DEF Asking
<1>2. SentTo(u) \subseteq 1..Len(challenges)
  BY DEF SentTo, SentSince, ChallengesOf, Rows, CodeInv, Typed, RecoveryTyped
<1>3. IsFiniteSet(1..Len(challenges))
  BY FS_Interval DEF CodeInv, Typed, RecoveryTyped
<1> QED BY <1>1, <1>2, <1>3, RequestsAssumption, FS_Subset, FS_CardinalityType DEF Handlers

\* The requests that have been admitted were so before; p may have left.
AskingStay ==
  \A q \in Requests : pc'[q] \in {"retire", "issue"} =>
    pc[q] \in {"retire", "issue"} /\ call'[q].user = call[q].user

\* The table keeps its rows, while time passes.
TableStays ==
  /\ Rows' = Rows /\ clock' \in {clock, clock + 1}
  /\ \A c \in Rows : Stays(challenges[c], challenges'[c])

LEMMA SentStays ==
  ASSUME CodeInv, TableStays, NEW u
  PROVE  SentTo(u)' \subseteq SentTo(u)
<1>1. clock \in Nat /\ Hour \in Nat /\ \A c \in Rows : challenges[c].at \in Nat
  BY RowTyped, RecoveryAssumption DEF CodeInv, Typed, AccountsTyped, ChallengeRows
<1> QED BY <1>1 DEF TableStays, Stays, SentTo, SentSince, ChallengesOf

LEMMA SendsStay ==
  ASSUME SendInv, AskingStay, TableStays, NEW u \in Users
  PROVE  Sends(u)'
<1>1. SentTo(u)' \subseteq SentTo(u) /\ Asking(u)' \subseteq Asking(u)
  BY SentStays DEF SendInv, Asking, AskingStay
<1>2. /\ Cardinality(SentTo(u)') \in Nat /\ Cardinality(SentTo(u)') <= Cardinality(SentTo(u))
      /\ Cardinality(Asking(u)') \in Nat /\ Cardinality(Asking(u)') <= Cardinality(Asking(u))
      /\ Cardinality(SentTo(u)) \in Nat /\ Cardinality(Asking(u)) \in Nat
  BY <1>1, SendsFinite, FS_Subset, FS_CardinalityType DEF SendInv
<1>3. MaxSends \in Nat /\ Handlers \in Nat
  BY HandlersNat, RecoveryAssumption
<1> QED BY <1>2, <1>3 DEF SendInv, Sends, Handlers

LEMMA AskingEnd ==
  ASSUME NEW p \in Requests, Moves(p), pc'[p] \notin {"retire", "issue"}
  PROVE  AskingStay
  BY DEF AskingStay, Moves

LEMMA RequestSends ==
  ASSUME SendInv, NEW p \in Requests, NEW v \in Users, NEW ip, Request(p, v, ip), NEW u \in Users
  PROVE  Sends(u)'
<1>0. CodeInv /\ Typed
  BY DEF SendInv, CodeInv
<1>1. PICK t : t = clock
  OBVIOUS
<1> DEFINE c0 == [op |-> "REQUEST", user |-> v, ip |-> ip, id |-> calls + 1,
                  now |-> t, saw |-> 0]
<1>2. Begin(p, c0, "retire") /\ UNCHANGED <<challenges, clock>> /\ MayRequest(v, ip, clock)
  BY <1>1 DEF Request, others, recoveryVars
<1>3. Moves(p) /\ pc'[p] = "retire" /\ call'[p].user = v
  BY <1>0, <1>2, StartMoves DEF Begin, Typed, AccountsTyped
<1>4. SentTo(u)' = SentTo(u)
  BY <1>2 DEF SentTo, SentSince, ChallengesOf, Rows
<1>5. MaxSends \in Nat /\ Handlers \in Nat
  BY HandlersNat, RecoveryAssumption
<1>6. CASE u = v
  <2>1. Cardinality(SentTo(u)) < MaxSends
    BY <1>2, <1>6 DEF MayRequest, SentTo
  <2>2. Asking(u)' \subseteq Requests
    BY DEF Asking
  <2>3. Cardinality(Asking(u)') \in Nat /\ Cardinality(Asking(u)') <= Handlers
    BY <2>2, RequestsAssumption, FS_Subset, FS_CardinalityType DEF Handlers
  <2>4. Cardinality(SentTo(u)) \in Nat
    BY <1>0, SendsFinite
  <2> QED BY <1>4, <1>5, <2>1, <2>3, <2>4 DEF Sends, Handlers
<1>7. CASE u # v
  <2>1. Asking(u)' \subseteq Asking(u)
    BY <1>3, <1>7 DEF Asking, Moves
  <2>2. /\ Cardinality(Asking(u)') \in Nat /\ Cardinality(Asking(u)') <= Cardinality(Asking(u))
        /\ Cardinality(SentTo(u)) \in Nat /\ Cardinality(Asking(u)) \in Nat
    BY <1>0, <2>1, SendsFinite, FS_Subset, FS_CardinalityType
  <2> QED BY <1>4, <1>5, <2>2 DEF SendInv, Sends, Handlers
<1> QED BY <1>6, <1>7

LEMMA IssueSends ==
  ASSUME SendInv, NEW p \in Requests, Issue(p), NEW u \in Users
  PROVE  Sends(u)'
<1>0. CodeInv /\ Typed
  BY DEF SendInv, CodeInv
<1>1. PICK n : /\ Rows' = Rows \union {n} /\ n \notin Rows
               /\ \A c \in Rows : challenges'[c] = challenges[c]
               /\ challenges'[n] = Challenge(call[p])
  BY <1>0, IssueRows
<1>2. Moves(p) /\ pc'[p] = "idle" /\ pc[p] = "issue" /\ clock' = clock
  BY <1>0, ReturnMoves DEF Issue, others
<1>3. challenges'[n].user = call[p].user
  BY <1>1 DEF Challenge
<1>4. MaxSends \in Nat /\ Handlers \in Nat
  BY HandlersNat, RecoveryAssumption
<1>5. /\ IsFiniteSet(SentTo(u)) /\ Cardinality(SentTo(u)) \in Nat
      /\ IsFiniteSet(Asking(u)) /\ Cardinality(Asking(u)) \in Nat
  BY <1>0, SendsFinite
<1>6. CASE u = call[p].user
  <2>1. SentTo(u)' \subseteq SentTo(u) \union {n} /\ n \notin SentTo(u)
    BY <1>1, <1>2 DEF SentTo, SentSince, ChallengesOf
  <2>2. p \in Asking(u) /\ Asking(u)' \subseteq Asking(u) \ {p}
    BY <1>2, <1>6 DEF Asking, Moves
  <2>3. /\ IsFiniteSet(SentTo(u) \union {n})
        /\ Cardinality(SentTo(u) \union {n}) = Cardinality(SentTo(u)) + 1
    BY <1>5, <2>1, FS_AddElement
  <2>4. /\ IsFiniteSet(Asking(u) \ {p})
        /\ Cardinality(Asking(u) \ {p}) = Cardinality(Asking(u)) - 1
    BY <1>5, <2>2, FS_RemoveElement
  <2>5. Cardinality(SentTo(u)') \in Nat /\ Cardinality(SentTo(u)') <= Cardinality(SentTo(u)) + 1
    BY <2>1, <2>3, FS_Subset, FS_CardinalityType
  <2>6. Cardinality(Asking(u)') \in Nat /\ Cardinality(Asking(u)') <= Cardinality(Asking(u)) - 1
    BY <2>2, <2>4, FS_Subset, FS_CardinalityType
  <2> QED BY <1>4, <1>5, <2>5, <2>6 DEF SendInv, Sends, Handlers
<1>7. CASE u # call[p].user
  <2>1. SentTo(u)' \subseteq SentTo(u) /\ Asking(u)' \subseteq Asking(u)
    BY <1>1, <1>2, <1>3, <1>7 DEF SentTo, SentSince, ChallengesOf, Asking, Moves
  <2>2. /\ Cardinality(SentTo(u)') \in Nat /\ Cardinality(SentTo(u)') <= Cardinality(SentTo(u))
        /\ Cardinality(Asking(u)') \in Nat /\ Cardinality(Asking(u)') <= Cardinality(Asking(u))
    BY <1>5, <2>1, FS_Subset, FS_CardinalityType
  <2> QED BY <1>4, <1>5, <2>2 DEF SendInv, Sends, Handlers
<1> QED BY <1>6, <1>7

LEMMA SendInvInit == Init => SendInv
<1> SUFFICES ASSUME Init, NEW u \in Users PROVE Sends(u)
  BY CodeInvInit DEF SendInv
<1>1. SentTo(u) = {} /\ Asking(u) = {}
  BY DEF Init, InitAccounts, SentTo, SentSince, ChallengesOf, Rows, Asking
<1>2. MaxSends \in Nat \ {0} /\ Handlers \in Nat \ {0}
  BY HandlersNat, RecoveryAssumption
<1> QED BY <1>1, <1>2, FS_EmptySet DEF Sends, Handlers

LEMMA SendInvNext == SendInv /\ [Next]_vars => SendInv'
<1> SUFFICES ASSUME SendInv, [Next]_vars, NEW u \in Users PROVE Sends(u)'
  BY CodeInvNext DEF SendInv
<1>0. CodeInv /\ Typed
  BY DEF SendInv, CodeInv
<1>1. ASSUME NEW p \in Requests, NEW v \in Users, NEW code, Verify(p, v, code) PROVE Sends(u)'
  <2>1. AskingStay
    BY <1>0, <1>1, StartMoves, AskingEnd DEF Verify
  <2>2. TableStays
    BY <1>0, <1>1, RecoveryRows DEF TableStays, Uncounted, Verify, others
  <2> QED BY <2>1, <2>2, SendsStay
<1>2. ASSUME NEW p \in Requests, NEW t, Redeem(p, t) PROVE Sends(u)'
  <2>1. AskingStay
    BY <1>0, <1>2, StartMoves, AskingEnd DEF Redeem
  <2>2. TableStays
    BY <1>0, <1>2, RecoveryRows DEF TableStays, Uncounted, Redeem, others
  <2> QED BY <2>1, <2>2, SendsStay
<1>3. ASSUME NEW p \in Requests, Retire(p) PROVE Sends(u)'
  <2>1. Moves(p) /\ pc[p] = "retire" /\ Set(p, "saw", Len(challenges), "issue")
    BY <1>0, <1>3, SetMoves DEF Retire
  <2>2. call'[p].user = call[p].user
    <3>1. call[p] \in RequestCalls
      BY <1>0, <2>1 DEF Typed, AccountsTyped, CallTyped
    <3>2. PICK n : n = Len(challenges)
      OBVIOUS
    <3>3. [call[p] EXCEPT !["saw"] = n].user = call[p].user
      BY <3>1 DEF RequestCalls
    <3> QED BY <1>0, <2>1, <3>2, <3>3 DEF Set, Typed, AccountsTyped
  <2>3. AskingStay
    BY <2>1, <2>2 DEF AskingStay, Moves
  <2>4. TableStays
    BY <1>0, <1>3, RecoveryRows DEF TableStays, Uncounted, Retire, others
  <2> QED BY <2>3, <2>4, SendsStay
<1>4. ASSUME NEW p \in Requests, Accept(p) PROVE Sends(u)'
  <2>1. AskingStay
    BY <1>0, <1>4, ReturnMoves, AskingEnd DEF Accept
  <2>2. TableStays
    BY <1>0, <1>4, RecoveryRows DEF TableStays, Uncounted, Accept, others
  <2> QED BY <2>1, <2>2, SendsStay
<1>5. ASSUME NEW p \in Requests, Complete(p) PROVE Sends(u)'
  <2>1. Goto(p, "revoke") /\ clock' = clock
    BY <1>5 DEF Complete
  <2>2. AskingStay
    BY <1>0, <2>1, GotoMoves, AskingEnd
  <2>3. TableStays
    BY <1>0, <1>5, <2>1, RecoveryRows DEF TableStays, Uncounted
  <2> QED BY <2>2, <2>3, SendsStay
<1>6. ASSUME NEW p \in Requests, Reject(p) PROVE Sends(u)'
  <2>1. AskingStay
    BY <1>0, <1>6, ReturnMoves, AskingEnd DEF Reject
  <2>2. clock' = clock
    BY <1>6 DEF Reject, others
  <2>3. TableStays
    BY <1>0, <1>6, <2>2, RejectRows DEF TableStays
  <2> QED BY <2>1, <2>3, SendsStay
<1>7. CASE Elsewhere
  <2>1. AskingStay
    BY <1>0, <1>7, RecoveriesStay DEF Elsewhere, AskingStay, RecoveryPlaces
  <2>2. challenges' = challenges
    BY <1>7 DEF Elsewhere
  <2>3. clock' \in {clock, clock + 1}
    BY <1>0, <1>7, ThrottleElsewhere DEF Elsewhere, EntriesEnd, Fails, Login
  <2>4. TableStays
    BY <2>2, <2>3 DEF TableStays, Rows, Stays
  <2> QED BY <2>1, <2>4, SendsStay
<1>8. CASE UNCHANGED vars
  <2>1. AskingStay /\ TableStays
    BY <1>8 DEF vars, callVars, recoveryVars, AskingStay, TableStays, Rows, Stays
  <2> QED BY <2>1, SendsStay
<1>9. CASE Recovery
  BY <1>1, <1>2, <1>3, <1>4, <1>5, <1>6, <1>9, RequestSends, IssueSends DEF Recovery
<1> QED BY <1>7, <1>8, <1>9 DEF Next

LEMMA SendsFollow == SendInv => SendsLimited
<1> SUFFICES ASSUME SendInv, NEW u \in Users
             PROVE  Cardinality(SentTo(u)) <= MaxSends + Cardinality(Requests) - 1
  BY DEF SendsLimited, SentTo
<1>1. Cardinality(SentTo(u)) \in Nat /\ Cardinality(Asking(u)) \in Nat
  BY SendsFinite DEF SendInv
<1>2. MaxSends \in Nat /\ Handlers \in Nat
  BY HandlersNat, RecoveryAssumption
<1> QED BY <1>1, <1>2 DEF SendInv, Sends, Handlers

-----------------------------------------------------------------------------
(* Locks *)

AccountLocks == \A u \in Users : rowLock[u] = NoRequest \/ InFlight(rowLock[u])
CodeLocks ==
  \A c \in DOMAIN rowHolder :
    c \in Rows /\ rowHolder[c] \in Requests /\ pc[rowHolder[c]] = "complete"
LockInv == CodeInv /\ AccountLocks /\ CodeLocks

\* One request starts or goes on, and takes a lock of an account at most.
Advances(p) ==
  /\ \A q \in Requests \ {p} : pc'[q] = pc[q]
  /\ pc'[p] # "idle"
  /\ \A u \in Users : rowLock'[u] \in {rowLock[u], p}

LEMMA Advancing ==
  ASSUME CodeInv, NEW p \in Requests, NEW label, label # "idle",
         \/ \E c : Begin(p, c, label)
         \/ Goto(p, label)
         \/ \E field, value : Set(p, field, value, label)
  PROVE  Advances(p)
  BY DEF Advances, Begin, Goto, Set, CodeInv, Typed, AccountsTyped

LEMMA StepsElsewhere ==
  ASSUME CodeInv, NextAccounts
  PROVE  \/ \E p \in Requests : Advances(p) /\ pc[p] # "complete"
         \/ \E p \in Requests : Return(p)
         \/ Restart
         \/ UNCHANGED <<pc, rowLock>>
<1>1. ASSUME NEW p \in Requests, NEW u \in Users, NEW op \in {"ACTIVATE", "DEACTIVATE"},
             LockRow(p, u, op)
      PROVE  Advances(p) /\ pc[p] # "complete"
  BY <1>1 DEF LockRow, Advances, InFlight, CodeInv, Typed, AccountsTyped
<1>2. ASSUME NEW p \in Requests, NEW u \in Users,
             \/ Reset(p, u) \/ ResetSuperAdmin(p, u) \/ ProvisionSuperAdmin(p, u)
             \/ \E look \in BOOLEAN : Create(p, u, look)
      PROVE  Advances(p) /\ pc[p] # "complete"
  <2>1. \E c, label : label # "idle" /\ Begin(p, c, label)
    BY <1>2 DEF Reset, Create, ResetSuperAdmin, ProvisionSuperAdmin, Script
  <2> QED BY <2>1, Advancing DEF Begin, InFlight
<1>3. ASSUME NEW p \in Requests, NEW s \in sessions, NEW guess, Change(p, s, guess)
      PROVE  Advances(p) /\ pc[p] # "complete"
  BY <1>3, Advancing DEF Change, Begin, InFlight
<1>4. ASSUME NEW p \in Requests, NEW u \in Users, NEW ip, NEW guess, Login(p, u, ip, guess)
      PROVE  Advances(p) /\ pc[p] # "complete"
  BY <1>4, Advancing DEF Login, Begin, InFlight
<1>5. ASSUME NEW p \in Requests, LoginRead(p)
      PROVE  Return(p) \/ (Advances(p) /\ pc[p] # "complete")
  <2>1. CASE pc' = [pc EXCEPT ![p] = "login_verify"] /\ rowLock' = rowLock
    BY <1>5, <2>1 DEF LoginRead, Advances, CodeInv, Typed, AccountsTyped
  <2> QED BY <1>5, <2>1 DEF LoginRead
<1>6. ASSUME NEW p \in Requests, LoginVerify(p) \/ LoginInsert(p) \/ SetPassword(p)
      PROVE  Return(p) \/ (Advances(p) /\ pc[p] # "complete")
  BY <1>6, Advancing DEF LoginVerify, LoginInsert, SetPassword
<1>7. ASSUME NEW p \in Requests, StatusRevoke(p) \/ CreateLook(p)
      PROVE  Return(p) \/ (Advances(p) /\ pc[p] # "complete")
  BY <1>7, Advancing DEF StatusRevoke, CreateLook
<1>8. ASSUME NEW p \in Requests, CreateInsert(p)
      PROVE  Return(p) \/ (Advances(p) /\ pc[p] # "complete")
  BY <1>8, Advancing DEF CreateInsert
<1>9. ASSUME NEW p \in Requests, ChangeRead(p)
      PROVE  Return(p) \/ (Advances(p) /\ pc[p] # "complete")
  BY <1>9, Advancing DEF ChangeRead
<1>10. ASSUME NEW p \in Requests, LoginStamp(p) \/ Revoke(p) \/ StatusCommit(p) \/ Fail(p)
       PROVE  Return(p)
  BY <1>10 DEF LoginStamp, Revoke, StatusCommit, Fail
<1>11. CASE Tick \/ \E s \in sessions : EndSession(s)
  BY <1>11 DEF Tick, EndSession, callVars
<1> QED BY <1>1, <1>2, <1>3, <1>4, <1>5, <1>6, <1>7, <1>8, <1>9, <1>10, <1>11 DEF NextAccounts

LEMMA StepsRecovery ==
  ASSUME CodeInv, NEW p \in Requests,
         \/ Retire(p) \/ Issue(p) \/ Reject(p) \/ Accept(p) \/ Complete(p)
         \/ \E u, ip : Request(p, u, ip)
         \/ \E u, code : Verify(p, u, code)
         \/ \E t : Redeem(p, t)
  PROVE  Advances(p) \/ Return(p)
<1>1. CASE Retire(p)
  BY <1>1, Advancing DEF Retire
<1>2. CASE Complete(p)
  <2>1. Goto(p, "revoke")
    BY <1>2 DEF Complete
  <2> QED BY <2>1, Advancing
<1>3. CASE \E u, ip : Request(p, u, ip)
  BY <1>3, Advancing DEF Request
<1>4. CASE \E u, code : Verify(p, u, code)
  BY <1>4, Advancing DEF Verify
<1>5. CASE \E t : Redeem(p, t)
  BY <1>5, Advancing DEF Redeem
<1>6. CASE Issue(p) \/ Reject(p) \/ Accept(p)
  BY <1>6 DEF Issue, Reject, Accept
<1> QED BY <1>1, <1>2, <1>3, <1>4, <1>5, <1>6

LEMMA LocksAdvance ==
  ASSUME LockInv, NEW p \in Requests, Advances(p)
  PROVE  AccountLocks'
<1> SUFFICES ASSUME NEW u \in Users, rowLock'[u] # NoRequest PROVE pc'[rowLock'[u]] # "idle"
  BY DEF AccountLocks, InFlight
<1>1. rowLock[u] \in Requests \union {NoRequest}
  BY DEF LockInv, CodeInv, Typed, AccountsTyped
<1> QED BY <1>1 DEF LockInv, AccountLocks, Advances, InFlight

LEMMA LocksReturn ==
  ASSUME LockInv, NEW p \in Requests, Return(p)
  PROVE  AccountLocks'
<1> SUFFICES ASSUME NEW u \in Users, rowLock'[u] # NoRequest PROVE pc'[rowLock'[u]] # "idle"
  BY DEF AccountLocks, InFlight
<1>1. rowLock[u] \in Requests \union {NoRequest}
  BY DEF LockInv, CodeInv, Typed, AccountsTyped
<1>2. rowLock'[u] = rowLock[u] /\ rowLock[u] # p
  BY DEF Return
<1>3. pc'[rowLock[u]] = pc[rowLock[u]]
  BY <1>1, <1>2 DEF Return, CodeInv, Typed, AccountsTyped
<1> QED BY <1>2, <1>3 DEF LockInv, AccountLocks, InFlight

LEMMA LocksElsewhere ==
  ASSUME LockInv, Elsewhere
  PROVE  AccountLocks' /\ CodeLocks'
<1>0. CodeInv /\ NextAccounts
  BY DEF LockInv, Elsewhere
<1>1. AccountLocks'
  <2>1. CASE Restart
    BY <2>1 DEF Restart, AccountLocks
  <2>2. CASE UNCHANGED <<pc, rowLock>>
    BY <2>2 DEF LockInv, AccountLocks, InFlight
  <2> QED BY <1>0, <2>1, <2>2, StepsElsewhere, LocksAdvance, LocksReturn
<1>2. ASSUME NEW q \in Requests, pc[q] = "complete", pc'[q] # "idle" PROVE pc'[q] = "complete"
  <2>1. ASSUME NEW p \in Requests, Advances(p), pc[p] # "complete" PROVE pc'[q] = "complete"
    BY <1>2, <2>1 DEF Advances
  <2>2. ASSUME NEW p \in Requests, Return(p) PROVE pc'[q] = "complete"
    BY <1>0, <1>2, <2>2 DEF Return, CodeInv, Typed, AccountsTyped
  <2>3. CASE Restart
    BY <1>2, <2>3 DEF Restart
  <2> QED BY <1>0, <1>2, <2>1, <2>2, <2>3, StepsElsewhere
<1>3. CodeLocks'
  <2>1. rowHolder' = [c \in {d \in DOMAIN rowHolder : pc'[rowHolder[d]] # "idle"} |-> rowHolder[c]]
        /\ Rows' = Rows
    BY DEF Elsewhere, Rows
  <2> QED BY <1>2, <2>1 DEF LockInv, CodeLocks
<1> QED BY <1>1, <1>3

\* A step of a request that does not hold a challenge, among the recoveries.
LEMMA CodeLocksStay ==
  ASSUME LockInv, NEW p \in Requests, pc[p] # "complete",
         \A q \in Requests \ {p} : pc'[q] = pc[q],
         rowHolder' = rowHolder, Rows \subseteq Rows'
  PROVE  CodeLocks'
  BY DEF LockInv, CodeLocks

LEMMA LocksRecovery ==
  ASSUME LockInv, Recovery
  PROVE  AccountLocks' /\ CodeLocks'
<1>0. CodeInv /\ Typed
  BY DEF LockInv, CodeInv
<1>1. AccountLocks'
  BY <1>0, StepsRecovery, LocksAdvance, LocksReturn DEF Recovery
<1>2. ASSUME NEW p \in Requests, NEW u, NEW ip, Request(p, u, ip) PROVE CodeLocks'
  <2>1. Moves(p) /\ pc[p] = "idle" /\ UNCHANGED <<challenges, rowHolder>>
    BY <1>0, <1>2, StartMoves DEF Request, recoveryVars
  <2> QED BY <2>1, CodeLocksStay DEF Moves, Rows
<1>3. ASSUME NEW p \in Requests, NEW u \in Users, NEW code, Verify(p, u, code) PROVE CodeLocks'
  <2>1. Moves(p) /\ pc[p] = "idle" /\ rowHolder' = rowHolder
    BY <1>0, <1>3, StartMoves DEF Verify
  <2> QED BY <1>0, <1>3, <2>1, RecoveryRows, CodeLocksStay DEF Moves
<1>4. ASSUME NEW p \in Requests, Retire(p) PROVE CodeLocks'
  <2>1. Moves(p) /\ pc[p] = "retire" /\ rowHolder' = rowHolder
    BY <1>0, <1>4, SetMoves DEF Retire
  <2> QED BY <1>0, <1>4, <2>1, RecoveryRows, CodeLocksStay DEF Moves
<1>5. ASSUME NEW p \in Requests, Issue(p) PROVE CodeLocks'
  <2>1. Moves(p) /\ pc[p] = "issue" /\ rowHolder' = rowHolder
    BY <1>0, <1>5, ReturnMoves DEF Issue
  <2>2. Rows \subseteq Rows'
    BY <1>0, <1>5, IssueRows
  <2> QED BY <2>1, <2>2, CodeLocksStay DEF Moves
<1>6. ASSUME NEW p \in Requests, Reject(p) PROVE CodeLocks'
  <2>1. Moves(p) /\ pc[p] = "verify" /\ rowHolder' = rowHolder
    BY <1>0, <1>6, ReturnMoves DEF Reject
  <2>2. Rows \subseteq Rows'
    BY <1>0, <1>6, RejectRows
  <2> QED BY <2>1, <2>2, CodeLocksStay DEF Moves
<1>7. ASSUME NEW p \in Requests, Accept(p) PROVE CodeLocks'
  <2>1. Moves(p) /\ pc[p] = "verify" /\ rowHolder' = rowHolder
    BY <1>0, <1>7, ReturnMoves DEF Accept
  <2> QED BY <1>0, <1>7, <2>1, RecoveryRows, CodeLocksStay DEF Moves
<1>8. ASSUME NEW p \in Requests, NEW t, Redeem(p, t) PROVE CodeLocks'
  <2>1. PICK d \in Redeemable(t) :
          /\ Begin(p, [op |-> "RECOVER", user |-> challenges[d].user, id |-> calls + 1, row |-> d],
                   "complete")
          /\ rowHolder' = [e \in DOMAIN rowHolder \union {d} |-> IF e = d THEN p ELSE rowHolder[e]]
    BY <1>8 DEF Redeem
  <2>2. Moves(p) /\ pc[p] = "idle" /\ pc'[p] = "complete" /\ Rows' = Rows /\ d \in Rows
    BY <1>0, <1>8, <2>1, StartMoves, RecoveryRows DEF Redeemable
  <2> QED BY <2>1, <2>2 DEF LockInv, CodeLocks, Moves
<1>9. ASSUME NEW p \in Requests, Complete(p) PROVE CodeLocks'
  <2>1. Goto(p, "revoke") /\ Release(p)
    BY <1>9 DEF Complete
  <2>2. Moves(p) /\ Rows' = Rows
    BY <1>0, <1>9, <2>1, GotoMoves, RecoveryRows
  <2> QED BY <2>1, <2>2 DEF LockInv, CodeLocks, Moves, Release
<1> QED BY <1>1, <1>2, <1>3, <1>4, <1>5, <1>6, <1>7, <1>8, <1>9 DEF Recovery

LEMMA LockInvInit == Init => LockInv
BY CodeInvInit DEF Init, InitAccounts, LockInv, AccountLocks, CodeLocks

LEMMA LockInvNext == LockInv /\ [Next]_vars => LockInv'
<1> SUFFICES ASSUME LockInv, [Next]_vars PROVE AccountLocks' /\ CodeLocks'
  BY CodeInvNext DEF LockInv
<1>1. CASE UNCHANGED vars
  BY <1>1 DEF vars, callVars, recoveryVars, LockInv, AccountLocks, CodeLocks, InFlight, Rows
<1> QED BY <1>1, LocksElsewhere, LocksRecovery DEF Next

LEMMA LocksFollow == LockInv => TypeOK
<1> SUFFICES ASSUME LockInv PROVE TypeOK
  OBVIOUS
<1>1. Typed
  BY DEF LockInv, CodeInv
<1>2. \A s \in sessions : s.user \in Users /\ s.with \in 0..MaxCalls
  BY <1>1 DEF Typed, AccountsTyped, SessionRows, Hashes
<1>3. \A c \in Rows : challenges[c].user \in Users /\ challenges[c].attempts \in 0..MaxAttempts
  BY <1>1, RowTyped DEF Typed, ChallengeRows
<1> QED BY <1>1, <1>2, <1>3
        DEF TypeOK, LockInv, AccountLocks, CodeLocks, Typed, AccountsTyped, RecoveryTyped, Hashes, Ids

\* Guessing is slow and short, for any number of accounts, addresses, handlers and calls: the
\* failures on record have taken the delays between them however many logins overlap, and codes,
\* attempts, tickets and e-mails stay within their limits (login-throttle.ts:36,
\* password-reset.service.ts:20, 168 and 250).
THEOREM GuessingStaysLimited == Spec => []GuessingIsLimited
<1> DEFINE Together == BackoffInv /\ GuessInv /\ SendInv /\ LockInv
<1>1. Init => Together
  BY BackoffInit, GuessInvInit, SendInvInit, LockInvInit
<1>2. Together /\ [Next]_vars => Together'
  BY BackoffNext, GuessInvNext, SendInvNext, LockInvNext
<1>3. Together => GuessingIsLimited
  <2> SUFFICES ASSUME Together PROVE GuessingIsLimited
    OBVIOUS
  <2>1. OneActiveChallenge /\ SpentIsConsumed /\ TicketUsedOnce
    BY DEF LockInv, CodeInv, CodesOK, UsesConsume, TicketUsedOnce
  <2> QED BY <2>1, BackoffFollows, GuessesFollow, SendsFollow, LocksFollow DEF GuessingIsLimited
<1> QED BY <1>1, <1>2, <1>3, PTL DEF Spec
=============================================================================
