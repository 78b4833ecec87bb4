----------------------------- MODULE LoginThrottle -----------------------------
(***************************************************************************)
(* The delays that login-throttle.ts keeps in memory, for every account    *)
(* and for every client address.  A check and a record are synchronous; a  *)
(* login does one before and one after it verifies the password, so logins *)
(* that overlap have all been checked before any of them is recorded.      *)
(***************************************************************************)
EXTENDS Integers

CONSTANTS
  Users,       \* accounts, by e-mail address
  Ips,         \* client addresses
  MaxDelay,    \* MAX_DELAY_MS, in units of the first delay
  PruneAfter   \* age at which an entry is irrelevant (ten minutes)

\* 15 s are thirty times the first delay.
ASSUME ThrottleAssumption == MaxDelay \in 1..32 /\ PruneAfter \in Nat

VARIABLES
  clock,
  failures,   \* per key: failures in a row (0: no entry)
  allowedAt   \* per key: nextAttemptAt

throttleVars == <<failures, allowedAt>>

Keys == Users \union Ips

InitThrottle ==
  /\ clock = 0
  /\ failures = [k \in Keys |-> 0]
  /\ allowedAt = [k \in Keys |-> 0]

\* The delay doubles until it is capped; the next power of two is over every cap.
Doubled == <<1, 2, 4, 8, 16>>
Delay(n) == IF n \in DOMAIN Doubled /\ Doubled[n] < MaxDelay THEN Doubled[n] ELSE MaxDelay

Outdated(k) == allowedAt[k] < clock - PruneAfter

Allowed(u, ip) == \A k \in {u, ip} : failures[k] = 0 \/ Outdated(k) \/ allowedAt[k] <= clock

\* loginThrottleCheck: the entries that are too old go first.
Prune ==
  /\ failures' = [k \in Keys |-> IF Outdated(k) THEN 0 ELSE failures[k]]
  /\ allowedAt' = [k \in Keys |-> IF Outdated(k) THEN 0 ELSE allowedAt[k]]

\* Mutant: the delay is that of the first failure.
RecordFailure_NoBackoff(u, ip) ==
  /\ failures' = [k \in Keys |-> IF k \in {u, ip} THEN failures[k] + 1 ELSE failures[k]]
  /\ allowedAt' = [k \in Keys |-> IF k \in {u, ip} THEN clock + 1 ELSE allowedAt[k]]

RecordFailure(u, ip) ==
  /\ failures' = [k \in Keys |-> IF k \in {u, ip} THEN failures[k] + 1 ELSE failures[k]]
  /\ allowedAt' = [k \in Keys |-> IF k \in {u, ip} THEN clock + Delay(failures[k] + 1)
                                                   ELSE allowedAt[k]]

RecordSuccess(u, ip) ==
  /\ failures' = [k \in Keys |-> IF k \in {u, ip} THEN 0 ELSE failures[k]]
  /\ allowedAt' = [k \in Keys |-> IF k \in {u, ip} THEN 0 ELSE allowedAt[k]]

\* The process restarts.
Forget ==
  /\ failures' = [k \in Keys |-> 0]
  /\ allowedAt' = [k \in Keys |-> 0]
=============================================================================
