---------------------------------- MODULE Notices ----------------------------------
(***************************************************************************)
(* The notices of anniversaries: a timer of the process (instrumentation)  *)
(* and an administrator run the same scan, which records every stage that  *)
(* is due and tells the users who read notifications.                      *)
(*                                                                         *)
(* One step is one await: a scan looks whether a notice is recorded and    *)
(* who is to be told, and inserts both in a transaction of its own later.  *)
(* Scans overlap, the process is killed and restarted, users come and go,  *)
(* and the day changes whenever it likes.                                  *)
(***************************************************************************)
EXTENDS Calendar, FiniteSets

CONSTANTS
  Subjects,      \* records [id, kind, date], kind "DAKO", "BIRTHDAY" or "OATH"
  Users,
  Admins,        \* the users with the role ADMIN
  FirstDay, LastDay,   \* bound: the days of a behaviour
  MaxScans,      \* bound: scans an administrator starts
  MaxEvents      \* bound: crashes, and changes of the users

ASSUME NoticesAssumption ==
  /\ Admins \subseteq Users
  /\ FirstDay \in Nat /\ LastDay \in Nat
  /\ MaxScans \in Nat /\ MaxEvents \in Nat

VARIABLES
  day,
  active,   \* users with status ACTIVE
  noted,    \* rows of the three tables that keep a notice from being repeated
  sent,     \* notifications: records [to, notice, by]
  timerSet, \* the timer of the process is set
  pc, scan, \* of the scan of the timer and of the administrator
  swept,    \* a scan of today has come to its end, and always had someone to tell
  scans, events

noticeVars == <<day, active, noted, sent, timerSet, pc, scan, swept, scans, events>>

Scanners == {"timer", "admin"}
NoScan == [today |-> 0, todo |-> {}, to |-> {}, heard |-> TRUE]

-----------------------------------------------------------------------------
(* What is due *)

\* A dako and a birthday are told of by themselves, the oaths of a date together.
NoticeOf(s, now) ==
  LET ann == NextAnniversary(s.date, now) IN
  [kind |-> s.kind,
   about |-> IF s.kind = "OATH" THEN <<MonthOf(ann), DayOf(ann)>> ELSE <<s.id>>,
   year |-> YearOf(ann),
   stage |-> Stage(s.date, now)]

\* dueAnniversaryNotifications and runDueCelebrationScan
Due(now) == {NoticeOf(s, now) : s \in {t \in Subjects : Stage(t.date, now) # "NONE"}}

Dues == [d \in FirstDay..LastDay |-> Due(d)]

Audience(n) == IF n.kind = "DAKO" THEN active \intersect Admins ELSE active

\* Dakos, then birthdays, then oaths.
Rank(n) == CASE n.kind = "DAKO" -> 1 [] n.kind = "BIRTHDAY" -> 2 [] n.kind = "OATH" -> 3

-----------------------------------------------------------------------------
InitNotices ==
  /\ day = FirstDay
  /\ active = Users
  /\ noted = {}
  /\ sent = {}
  /\ timerSet = TRUE
  /\ pc = [s \in Scanners |-> "idle"]
  /\ scan = [s \in Scanners |-> NoScan]
  /\ swept = FALSE
  /\ scans = 0
  /\ events = 0

Start(s) ==
  /\ pc[s] = "idle"
  /\ pc' = [pc EXCEPT ![s] = "check"]
  /\ scan' = [scan EXCEPT ![s] = [today |-> day, todo |-> Dues[day], to |-> {}, heard |-> TRUE]]
  /\ UNCHANGED <<day, active, noted, sent, timerSet, swept, events>>

\* scanOnce: five seconds after the boot, and every six hours.
Tick ==
  /\ timerSet
  /\ Start("timer")
  /\ UNCHANGED scans

\* POST /api/notifications/scan
ScanRequest ==
  /\ scans < MaxScans
  /\ Start("admin")
  /\ scans' = scans + 1

\* Mutant: a notice of an earlier stage counts as well.
Recorded_AnyStage(n) == \E m \in noted : m.about = n.about /\ m.year = n.year /\ m.kind = n.kind

Recorded(n) == n \in noted

LettersOf(n, s) == {[to |-> u, notice |-> n, by |-> s] : u \in Audience(n)}

Passed(s, n) == [scan[s] EXCEPT !.todo = @ \ {n}, !.heard = @ /\ Recorded(n)]
Telling(s, n) == [scan[s] EXCEPT !.todo = @ \ {n}, !.to = LettersOf(n, s)]

\* Without anyone to tell the notice is not recorded either.
Check(s) ==
  /\ pc[s] = "check"
  /\ \E n \in scan[s].todo :
       /\ \A m \in scan[s].todo : Rank(n) <= Rank(m)
       /\ IF Recorded(n) \/ Audience(n) = {}
          THEN /\ scan' = [scan EXCEPT ![s] = Passed(s, n)]
               /\ UNCHANGED pc
          ELSE /\ scan' = [scan EXCEPT ![s] = Telling(s, n)]
               /\ pc' = [pc EXCEPT ![s] = "insert"]
  /\ UNCHANGED <<day, active, noted, sent, timerSet, swept, scans, events>>

\* The scan throws: nobody goes on with it.
\* Mutant: the error is not caught, and takes the timer with it.
Throws_StopsTimer(s) ==
  /\ pc' = [pc EXCEPT ![s] = "idle"]
  /\ scan' = [scan EXCEPT ![s] = NoScan]
  /\ timerSet' = (timerSet /\ s # "timer")

Throws(s) ==
  /\ pc' = [pc EXCEPT ![s] = "idle"]
  /\ scan' = [scan EXCEPT ![s] = NoScan]
  /\ UNCHANGED timerSet

\* Mutant: the row and the notifications are inserted without the unique index.
Insert_NoIndex(s) ==
  /\ pc[s] = "insert"
  /\ \E n \in {m.notice : m \in scan[s].to} : noted' = noted \union {n}
  /\ sent' = sent \union scan[s].to
  /\ scan' = [scan EXCEPT ![s].to = {}]
  /\ pc' = [pc EXCEPT ![s] = "check"]
  /\ UNCHANGED <<day, active, timerSet, swept, scans, events>>

\* Both inserts in one transaction; a row of the same notice violates the index.
Insert(s) ==
  /\ pc[s] = "insert"
  /\ \E n \in {m.notice : m \in scan[s].to} :
       IF n \in noted
       THEN Throws(s) /\ UNCHANGED <<noted, sent>>
       ELSE /\ noted' = noted \union {n}
            /\ sent' = sent \union scan[s].to
            /\ scan' = [scan EXCEPT ![s].to = {}]
            /\ pc' = [pc EXCEPT ![s] = "check"]
            /\ UNCHANGED timerSet
  /\ UNCHANGED <<day, active, swept, scans, events>>

\* The connection is lost while a scan reads or writes.
Fail(s) ==
  /\ events < MaxEvents
  /\ pc[s] # "idle"
  /\ Throws(s)
  /\ events' = events + 1
  /\ UNCHANGED <<day, active, noted, sent, swept, scans>>

End(s) ==
  /\ pc[s] = "check" /\ scan[s].todo = {}
  /\ pc' = [pc EXCEPT ![s] = "idle"]
  /\ swept' = (swept \/ (scan[s].today = day /\ scan[s].heard))
  /\ scan' = [scan EXCEPT ![s] = NoScan]
  /\ UNCHANGED <<day, active, noted, sent, timerSet, scans, events>>

\* The process is killed and started: register sets the timer again.
Restart ==
  /\ events < MaxEvents
  /\ events' = events + 1
  /\ pc' = [s \in Scanners |-> "idle"]
  /\ scan' = [s \in Scanners |-> NoScan]
  /\ timerSet' = TRUE
  /\ UNCHANGED <<day, active, noted, sent, swept, scans>>

\* An administrator activates or deactivates a user.
SetActive(u) ==
  /\ events < MaxEvents
  /\ events' = events + 1
  /\ active' = IF u \in active THEN active \ {u} ELSE active \union {u}
  /\ UNCHANGED <<day, noted, sent, timerSet, pc, scan, swept, scans>>

NextDay ==
  /\ day < LastDay
  /\ day' = day + 1
  /\ swept' = FALSE
  /\ UNCHANGED <<active, noted, sent, timerSet, pc, scan, scans, events>>

NextNotices ==
  \/ Tick \/ ScanRequest \/ Restart \/ NextDay
  \/ \E s \in Scanners : Check(s) \/ Insert(s) \/ Fail(s) \/ End(s)
  \/ \E u \in Users : SetActive(u)

\* setInterval goes on for as long as the process lives; awaits are answered.
Fairness ==
  /\ WF_noticeVars(Tick)
  /\ \A s \in Scanners : WF_noticeVars(Check(s) \/ Insert(s) \/ End(s))

SpecNotices == InitNotices /\ [][NextNotices]_noticeVars /\ Fairness

-----------------------------------------------------------------------------
(* Properties *)

\* Nobody is told twice, whoever scans: the row and the notifications it stands for
\* are written together or not at all, and once.
ToldOnce ==
  /\ \A m, n \in sent : m.to = n.to /\ m.notice = n.notice => m = n
  /\ noted = {m.notice : m \in sent}

\* "a restart/downtime self-heals on the next scan": a scan that comes to its end
\* leaves nothing behind of what was due, whatever other scans did meanwhile.
SweepLeavesNothing == swept => Dues[day] \subseteq noted

\* A stage that falls due while the application runs is recorded, unless its day
\* passes first or there is nobody to tell: a failed scan is not the last one.
DueIsNoted ==
  \A d \in FirstDay..LastDay : \A n \in Dues[d] :
    [](day = d => <>(n \in noted \/ day # d \/ Audience(n) = {}))

\* What is recorded is told once and what is due is recorded: the two halves of "idempotent"
\* (celebration.service.ts).
NoticesAreExact == ToldOnce /\ SweepLeavesNothing
=============================================================================
