------------------------------ MODULE PasswordReset ------------------------------
(***************************************************************************)
(* Self-service account recovery (password-reset.service.ts): a code is    *)
(* requested and sent by e-mail, the code is exchanged for a ticket, the   *)
(* ticket sets the password.  Every statement of a request and of a        *)
(* verification commits by itself; only a completion is a transaction,     *)
(* which locks the challenge of its ticket.                                *)
(*                                                                         *)
(* The number of a challenge is its place in the table, and stands for the *)
(* code as well; mails may be lost, delayed or read in any order, so that  *)
(* any code that was sent can be typed at any time.                        *)
(***************************************************************************)
EXTENDS Accounts, Sequences

CONSTANTS
  MaxAttempts,       \* PASSWORD_RESET_MAX_ATTEMPTS
  MaxSends,          \* MAX_SENDS_PER_ACCOUNT_PER_HOUR
  MaxSendsPerIp,     \* MAX_SENDS_PER_IP_PER_HOUR
  Hour, Cooldown, Ttl

ASSUME RecoveryAssumption ==
  /\ {MaxAttempts, MaxSends, MaxSendsPerIp} \subseteq Nat \ {0}
  /\ {Hour, Cooldown, Ttl} \subseteq Nat

VARIABLES
  challenges,   \* rows of password_reset_challenges, in the order of creation
  rowHolder,    \* request that holds a challenge FOR UPDATE
  tickets       \* tickets handed out

recoveryVars == <<challenges, rowHolder, tickets>>
vars == <<accountVars, sessionVars, callVars, throttleVars, clock, recoveryVars>>
others == <<accountVars, sessionVars, throttleVars, clock>>

Rows == DOMAIN challenges
ChallengesOf(u) == {c \in Rows : challenges[c].user = u}
Pending(u) == {c \in ChallengesOf(u) : ~challenges[c].consumed}
RowUnlocked(p, c) == \A d \in DOMAIN rowHolder : d = c => rowHolder[d] = p

Release(p) == rowHolder' = [c \in {d \in DOMAIN rowHolder : rowHolder[d] # p} |-> rowHolder[c]]

-----------------------------------------------------------------------------
(* requestPasswordReset *)

SentSince(S, t) == {c \in S : challenges[c].at >= t}

\* Mutant: one more than the limit.
MayRequest_OffByOne(u, ip, now) ==
  /\ Cardinality(SentSince({c \in Rows : challenges[c].ip = ip}, now - Hour)) <= MaxSendsPerIp
  /\ Cardinality(SentSince(ChallengesOf(u), now - Hour)) <= MaxSends
  /\ \A c \in ChallengesOf(u) : now - challenges[c].at >= Cooldown

\* The three limits, read one after the other; the time is that of the beginning.
MayRequest(u, ip, now) ==
  /\ Cardinality(SentSince({c \in Rows : challenges[c].ip = ip}, now - Hour)) < MaxSendsPerIp
  /\ Cardinality(SentSince(ChallengesOf(u), now - Hour)) < MaxSends
  /\ \A c \in ChallengesOf(u) : now - challenges[c].at >= Cooldown

Request(p, u, ip) ==
  /\ MayRequest(u, ip, clock)
  /\ u \in exists /\ u \in active
  /\ Begin(p, [op |-> "REQUEST", user |-> u, ip |-> ip, id |-> calls + 1,
               now |-> clock, saw |-> 0], "retire")
  /\ UNCHANGED <<others, recoveryVars>>

Consume(S) == [c \in Rows |-> IF c \in S THEN [challenges[c] EXCEPT !.consumed = TRUE]
                                         ELSE challenges[c]]

\* Mutant: the earlier challenges stay.
Retire_Nothing(p) ==
  /\ pc[p] = "retire"
  /\ Set(p, "saw", Len(challenges), "issue")
  /\ UNCHANGED <<others, recoveryVars>>

\* Every earlier unconsumed row is retired, in a statement of its own.
Retire(p) ==
  /\ pc[p] = "retire"
  /\ \A c \in Pending(call[p].user) : RowUnlocked(p, c)
  /\ challenges' = Consume(Pending(call[p].user))
  /\ Set(p, "saw", Len(challenges), "issue")
  /\ UNCHANGED <<others, rowHolder, tickets>>

\* saw: the rows that existed when the earlier ones were retired; guesses, shared
\* and uses are history.
Challenge(c) ==
  [user |-> c.user, ip |-> c.ip, at |-> clock, until |-> c.now + Ttl, attempts |-> 0,
   consumed |-> FALSE, verified |-> FALSE, ticket |-> 0,
   saw |-> c.saw, guesses |-> 0, shared |-> FALSE, uses |-> 0]

\* The code is sent without waiting for the delivery.
Issue(p) ==
  /\ pc[p] = "issue"
  /\ RowFree(p, call[p].user)
  /\ challenges' = Append(challenges, Challenge(call[p]))
  /\ Return(p)
  /\ UNCHANGED <<others, rowHolder, tickets>>

-----------------------------------------------------------------------------
(* verifyResetCode *)

Verifiable(u) ==
  {c \in Pending(u) : ~challenges[c].verified /\ challenges[c].until > clock}

Newest(S) == CHOOSE c \in S : \A d \in S : d <= c

Verifying(c) == {p \in Requests : pc[p] = "verify" /\ call[p].row = c}

\* Reads the newest challenge; code is the number of a challenge, or Wrong.
Verify(p, u, code) ==
  /\ u \in active
  /\ Verifiable(u) # {}
  /\ LET c == Newest(Verifiable(u)) IN
       /\ Begin(p, [op |-> "VERIFY", user |-> u, id |-> calls + 1, code |-> code,
                    row |-> c, attempts |-> challenges[c].attempts], "verify")
       /\ challenges' = [challenges EXCEPT ![c].shared = @ \/ Verifying(c) # {}]
  /\ UNCHANGED <<others, rowHolder, tickets>>

\* Mutant: a wrong code is not counted when it is the last one allowed.
Reject_NotLast(p) ==
  /\ pc[p] = "verify"
  /\ call[p].code # call[p].row
  /\ RowUnlocked(p, call[p].row)
  /\ challenges' = [challenges EXCEPT ![call[p].row] =
                      [@ EXCEPT !.attempts = IF call[p].attempts + 1 >= MaxAttempts
                                             THEN @ ELSE call[p].attempts + 1,
                                !.guesses = @ + 1]]
  /\ Return(p)
  /\ UNCHANGED <<others, rowHolder, tickets>>

Exhausted(p) == call[p].attempts >= MaxAttempts

\* A wrong code is the n-th; the last one that is allowed consumes the challenge.
Counted(c, n) ==
  [challenges[c] EXCEPT !.attempts = n, !.consumed = @ \/ n >= MaxAttempts, !.guesses = @ + 1]

\* A challenge without attempts left is consumed, whatever the code; otherwise the count
\* becomes what was read, plus one.
Reject(p) ==
  /\ pc[p] = "verify"
  /\ Exhausted(p) \/ call[p].code # call[p].row
  /\ RowUnlocked(p, call[p].row)
  /\ challenges' =
       IF Exhausted(p) THEN Consume({call[p].row})
       ELSE [challenges EXCEPT ![call[p].row] = Counted(call[p].row, call[p].attempts + 1)]
  /\ Return(p)
  /\ UNCHANGED <<others, rowHolder, tickets>>

\* By id: the row may have been consumed or verified meanwhile.
Accept(p) ==
  /\ pc[p] = "verify"
  /\ ~Exhausted(p)
  /\ call[p].code = call[p].row
  /\ RowUnlocked(p, call[p].row)
  /\ challenges' = [challenges EXCEPT ![call[p].row] =
                      [@ EXCEPT !.ticket = call[p].id, !.verified = TRUE, !.until = clock + Ttl]]
  /\ tickets' = tickets \union {call[p].id}
  /\ Return(p)
  /\ UNCHANGED <<others, rowHolder>>

-----------------------------------------------------------------------------
(* completePasswordReset *)

Redeemable(t) ==
  {c \in Rows : /\ challenges[c].ticket = t
                /\ ~challenges[c].consumed
                /\ challenges[c].verified
                /\ challenges[c].until > clock}

\* Mutant: SELECT without FOR UPDATE.
Redeem_PlainSelect(p, t) ==
  /\ \E c \in Redeemable(t) :
       Begin(p, [op |-> "RECOVER", user |-> challenges[c].user, id |-> calls + 1, row |-> c],
             "complete")
  /\ UNCHANGED <<others, recoveryVars>>

\* SELECT ... FOR UPDATE; a waiter looks at the row again when it gets the lock.
Redeem(p, t) ==
  /\ \E c \in Redeemable(t) :
       /\ RowUnlocked(p, c)
       /\ Begin(p, [op |-> "RECOVER", user |-> challenges[c].user, id |-> calls + 1, row |-> c],
                "complete")
       /\ rowHolder' = [d \in DOMAIN rowHolder \union {c} |-> IF d = c THEN p ELSE rowHolder[d]]
  /\ UNCHANGED <<others, challenges, tickets>>

Complete(p) ==
  /\ pc[p] = "complete"
  /\ LET u == call[p].user IN
       /\ RowFree(p, u)
       /\ \A c \in Pending(u) : RowUnlocked(p, c)
       /\ password' = [password EXCEPT ![u] = call[p].id]
       /\ challenges' = [c \in Rows |->
            [challenges[c] EXCEPT !.consumed = @ \/ c \in Pending(u),
                                  !.uses = IF c = call[p].row THEN @ + 1 ELSE @]]
  /\ Release(p)
  /\ Goto(p, "revoke")
  /\ UNCHANGED <<exists, active, ended, sessionVars, throttleVars, clock, tickets>>

-----------------------------------------------------------------------------
Init ==
  /\ InitAccounts
  /\ challenges = <<>>
  /\ rowHolder = <<>>
  /\ tickets = {}

Recovery ==
  \E p \in Requests :
    \/ \E u \in Users :
         \/ \E ip \in Ips : Request(p, u, ip)
         \/ \E code \in Rows \union {Wrong} : Verify(p, u, code)
    \/ \E t \in tickets : Redeem(p, t)
    \/ Retire(p) \/ Issue(p)
    \/ Reject(p) \/ Accept(p)
    \/ Complete(p)

\* A request that ends without having committed gives its row lock back.
Elsewhere ==
  /\ NextAccounts
  /\ rowHolder' = [c \in {d \in DOMAIN rowHolder : pc'[rowHolder[d]] # "idle"} |-> rowHolder[c]]
  /\ UNCHANGED <<challenges, tickets>>

Next == Recovery \/ Elsewhere

Spec == Init /\ [][Next]_vars

-----------------------------------------------------------------------------
(* Properties *)

\* The variables hold rows of their tables, a lock belongs to a request in flight.
TypeOK ==
  /\ exists \subseteq Users /\ active \subseteq exists
  /\ password \in [Users -> 0..MaxCalls]
  /\ \A s \in sessions : s.user \in Users /\ s.with \in 0..MaxCalls
  /\ \A u \in Users : rowLock[u] = NoRequest \/ InFlight(rowLock[u])
  /\ \A c \in DOMAIN rowHolder : c \in Rows /\ pc[rowHolder[c]] = "complete"
  /\ \A c \in Rows : challenges[c].user \in Users /\ challenges[c].attempts \in 0..MaxAttempts
  /\ tickets \subseteq 1..MaxCalls

\* "One active challenge per account" (password-reset.service.ts:168): of two that
\* are active, the later was requested before the earlier was inserted.
OneActiveChallenge ==
  \A u \in Users : \A c, d \in Pending(u) : c < d => challenges[d].saw < c

\* The guesses of a code are limited: to the number of attempts, and when two
\* verifications overlap, where one writes back a count the other has left
\* behind, to as many as two handlers can make one after the other.
GuessesLimited ==
  \A c \in Rows :
    /\ ~challenges[c].shared => challenges[c].guesses <= MaxAttempts
    /\ Cardinality(Requests) <= 2 =>
         challenges[c].guesses <= (MaxAttempts * (MaxAttempts + 1)) \div 2 + 1

\* Whichever count is written last, the attempt that used the last one up has consumed
\* the challenge: no verification finds one without attempts (password-reset.service.ts:250).
SpentIsConsumed == \A u \in Users : \A c \in Pending(u) : challenges[c].attempts < MaxAttempts

\* A ticket "cannot be replayed" (password-reset.service.ts:20): a challenge sets
\* a password once, however many completions carry its ticket.
TicketUsedOnce == \A c \in Rows : challenges[c].uses <= 1

\* Within an hour an account is sent no more codes than allowed, but for one more
\* per request that overlapped.
SendsLimited ==
  \A u \in Users :
    Cardinality(SentSince(ChallengesOf(u), clock - Hour))
      <= MaxSends + Cardinality(Requests) - 1

\* A session ends with what it rests on: the password it was opened with and the account
\* being active, whichever of login, reset, change and deactivation comes first.
SessionsEnd == OldSessionsEnd /\ DeactivationEndsSessions

\* Guessing is slow and short: failures of all addresses add up, and codes, attempts,
\* tickets and e-mails stay within their limits while requests overlap.
GuessingIsLimited ==
  /\ TypeOK /\ BackoffAddsUp /\ OneActiveChallenge /\ GuessesLimited
  /\ SpentIsConsumed /\ TicketUsedOnce /\ SendsLimited
=============================================================================
