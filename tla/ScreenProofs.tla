--------------------------------- MODULE ScreenProofs ---------------------------------
(***************************************************************************)
(* Proofs about what people see: the bell with the notices that fill it    *)
(* (NotificationBell, Notices) and the pages (Interface), for any subjects,*)
(* users, days, rows, tables, texts and bounds on what is clicked.         *)
(*                                                                         *)
(* The bell: what was due at the beginning of a scan that heard of every   *)
(* notice is recorded, still to be looked at, or in the transaction it is  *)
(* about to write (Covered); at its end nothing is left of the last two.   *)
(*                                                                         *)
(* The pages: each has an invariant of its own, that ties what is typed or *)
(* chosen to the row, cell, seat or e-mail its dialog is open for, and     *)
(* what is under way to both; a step of one leaves the others as they are. *)
(*                                                                         *)
(* The papers: the pen of a report has the room for what it writes next;   *)
(* the rows of a form that remain are as high as the part of the page they *)
(* were given; a document has read its rows of one moment and its dakos of *)
(* one moment; and a day that is counted is the date its number stands for.*)
(***************************************************************************)
EXTENDS NotificationBell, Interface, FiniteSetTheorems,
        FunctionTheorems, WellFoundedInduction, TLAPS

-----------------------------------------------------------------------------
(* Scans *)

AllNotices == UNION {Dues[d] : d \in Nat}
Letters == [to : Users, notice : AllNotices, by : Scanners]
Scans == [today : Nat, todo : SUBSET AllNotices, to : SUBSET Letters, heard : BOOLEAN]

Typed ==
  /\ day \in Nat
  /\ active \subseteq Users
  /\ sent \subseteq Letters
  /\ scan \in [Scanners -> Scans]
  /\ pc \in [Scanners -> {"idle", "check", "insert"}]

\* The letters a scan is about to insert are one notice, to everybody once.
OneNotice ==
  \A s \in Scanners :
    /\ pc[s] = "check" => scan[s].to = {}
    /\ pc[s] = "insert" =>
         /\ scan[s].to # {}
         /\ \A m, n \in scan[s].to : /\ m.notice = n.notice
                                     /\ m.to = n.to => m = n

Covered ==
  \A s \in Scanners : pc[s] # "idle" /\ scan[s].heard =>
    \A n \in Dues[scan[s].today] :
      n \in noted \/ n \in scan[s].todo \/ \E m \in scan[s].to : m.notice = n

NoticeInv == Typed /\ OneNotice /\ Covered /\ ToldOnce /\ SweepLeavesNothing

LEMMA NoticeInvInit == InitNotices => NoticeInv
<1> SUFFICES ASSUME InitNotices PROVE NoticeInv
  OBVIOUS
<1>1. NoScan \in Scans
  BY DEF NoScan, Scans
<1>2. Typed
  BY <1>1, NoticesAssumption DEF InitNotices, Typed
<1>3. OneNotice /\ Covered /\ ToldOnce /\ SweepLeavesNothing
  BY DEF InitNotices, OneNotice, Covered, ToldOnce, SweepLeavesNothing
<1> QED BY <1>2, <1>3 DEF NoticeInv

LEMMA TypedNext == Typed /\ NextNotices => Typed'
<1> SUFFICES ASSUME Typed, NextNotices PROVE Typed'
  OBVIOUS
<1> USE DEF Typed
<1>1. NoScan \in Scans
  BY DEF NoScan, Scans
<1>2. ASSUME NEW s \in Scanners, Throws(s) PROVE scan' \in [Scanners -> Scans]
                                                /\ pc' \in [Scanners -> {"idle", "check", "insert"}]
  BY <1>1, <1>2 DEF Throws
<1>3. ASSUME NEW s \in Scanners, Start(s) PROVE Typed'
  <2>1. Dues[day] \subseteq AllNotices
    BY DEF AllNotices
  <2>2. [today |-> day, todo |-> Dues[day], to |-> {}, heard |-> TRUE] \in Scans
    BY <2>1 DEF Scans
  <2> QED BY <1>3, <2>2 DEF Start
<1>4. ASSUME NEW s \in Scanners, Check(s) PROVE Typed'
  <2>1. PICK n \in scan[s].todo :
          \/ /\ scan' = [scan EXCEPT ![s] = Passed(s, n)]
             /\ UNCHANGED pc
          \/ /\ scan' = [scan EXCEPT ![s] = Telling(s, n)]
             /\ pc' = [pc EXCEPT ![s] = "insert"]
    BY <1>4 DEF Check
  <2>2. LettersOf(n, s) \subseteq Letters
    BY DEF LettersOf, Letters, Audience, Scans
  <2>3. PICK b \in BOOLEAN : b <=> Recorded(n)
    OBVIOUS
  <2>4. scan[s] \in Scans
    OBVIOUS
  <2>5. Passed(s, n) \in Scans
    <3>1. [scan[s] EXCEPT !.todo = @ \ {n}, !.heard = @ /\ b] \in Scans
      BY <2>4 DEF Scans
    <3> QED BY <2>3, <3>1 DEF Passed
  <2>6. Telling(s, n) \in Scans
    BY <2>2, <2>4 DEF Telling, Scans
  <2>7. CASE /\ scan' = [scan EXCEPT ![s] = Passed(s, n)]
             /\ UNCHANGED pc
    BY <1>4, <2>5, <2>7 DEF Check
  <2>8. CASE /\ scan' = [scan EXCEPT ![s] = Telling(s, n)]
             /\ pc' = [pc EXCEPT ![s] = "insert"]
    BY <1>4, <2>6, <2>8 DEF Check
  <2> QED BY <2>1, <2>7, <2>8
<1>5. ASSUME NEW s \in Scanners, Insert(s) PROVE Typed'
  <2>1. sent' \subseteq Letters
    BY <1>5 DEF Insert, Scans
  <2>2. CASE Throws(s)
    BY <1>2, <1>5, <2>1, <2>2 DEF Insert
  <2>3. CASE /\ scan' = [scan EXCEPT ![s].to = {}]
             /\ pc' = [pc EXCEPT ![s] = "check"]
    <3>1. [scan[s] EXCEPT !.to = {}] \in Scans
      BY DEF Scans
    <3> QED BY <1>5, <2>1, <2>3, <3>1 DEF Insert
  <2> QED BY <1>5, <2>2, <2>3 DEF Insert
<1>6. ASSUME NEW s \in Scanners, Fail(s) \/ End(s) PROVE Typed'
  BY <1>1, <1>2, <1>6 DEF Fail, End
<1>7. CASE Restart
  BY <1>1, <1>7 DEF Restart
<1>8. CASE NextDay
  BY <1>8 DEF NextDay
<1>9. CASE \E u \in Users : SetActive(u)
  BY <1>9 DEF SetActive
<1> QED BY <1>3, <1>4, <1>5, <1>6, <1>7, <1>8, <1>9
        DEF NextNotices, Tick, ScanRequest, Scanners

-----------------------------------------------------------------------------
(* What a step leaves alone *)

Steady == OneNotice /\ Covered /\ ToldOnce /\ SweepLeavesNothing

\* A scan that ends without saying so: it throws, or its process dies.
LEMMA Dropped ==
  ASSUME NoticeInv, UNCHANGED <<day, noted, sent, swept>>,
         \A s \in Scanners : \/ pc'[s] = "idle"
                             \/ pc'[s] = pc[s] /\ scan'[s] = scan[s]
  PROVE  Steady'
<1>1. OneNotice'
  BY DEF NoticeInv, OneNotice
<1>2. Covered'
  BY DEF NoticeInv, Covered
<1> QED BY <1>1, <1>2 DEF NoticeInv, Steady, ToldOnce, SweepLeavesNothing

LEMMA Thrown ==
  ASSUME NoticeInv, NEW s \in Scanners, Throws(s), UNCHANGED <<day, noted, sent, swept>>
  PROVE  Steady'
<1>1. \A t \in Scanners : \/ pc'[t] = "idle"
                          \/ pc'[t] = pc[t] /\ scan'[t] = scan[t]
  BY DEF Throws, NoticeInv, Typed
<1> QED BY <1>1, Dropped

LEMMA StartSteady ==
  ASSUME NoticeInv, NEW s \in Scanners, Start(s)
  PROVE  Steady'
<1> DEFINE fresh == [today |-> day, todo |-> Dues[day], to |-> {}, heard |-> TRUE]
<1>1. /\ scan' = [scan EXCEPT ![s] = fresh]
      /\ pc' = [pc EXCEPT ![s] = "check"]
      /\ UNCHANGED <<day, noted, sent, swept>>
  BY DEF Start
<1>2. fresh.to = {} /\ fresh.todo = Dues[day] /\ fresh.today = day
  OBVIOUS
<1> HIDE DEF fresh
<1>3. OneNotice'
  BY <1>1, <1>2 DEF NoticeInv, Typed, OneNotice
<1>4. Covered'
  BY <1>1, <1>2 DEF NoticeInv, Typed, Covered
<1> QED BY <1>1, <1>3, <1>4 DEF NoticeInv, Steady, ToldOnce, SweepLeavesNothing

LEMMA PassedFields ==
  ASSUME Typed, NEW s \in Scanners, NEW n
  PROVE  /\ Passed(s, n).today = scan[s].today
         /\ Passed(s, n).todo = scan[s].todo \ {n}
         /\ Passed(s, n).to = scan[s].to
         /\ Passed(s, n).heard => scan[s].heard /\ Recorded(n)
<1>1. scan[s] \in Scans
  BY DEF Typed
<1>2. PICK b \in BOOLEAN : b <=> Recorded(n)
  OBVIOUS
<1>3. Passed(s, n) = [scan[s] EXCEPT !.todo = @ \ {n}, !.heard = @ /\ b]
  BY <1>2 DEF Passed
<1>4. PICK h \in BOOLEAN : h <=> scan[s].heard /\ b
  OBVIOUS
<1>5. Passed(s, n) = [scan[s] EXCEPT !.todo = @ \ {n}, !.heard = h]
  BY <1>1, <1>3, <1>4 DEF Scans
<1>6. Passed(s, n).heard = h
  BY <1>1, <1>5 DEF Scans
<1> QED BY <1>1, <1>2, <1>4, <1>5, <1>6 DEF Scans

LEMMA TellingFields ==
  ASSUME Typed, NEW s \in Scanners, NEW n
  PROVE  /\ Telling(s, n).today = scan[s].today
         /\ Telling(s, n).todo = scan[s].todo \ {n}
         /\ Telling(s, n).to = LettersOf(n, s)
         /\ Telling(s, n).heard = scan[s].heard
BY DEF Typed, Telling, Scans

LEMMA CheckSteady ==
  ASSUME NoticeInv, NEW s \in Scanners, Check(s)
  PROVE  Steady'
<1>1. PICK n \in scan[s].todo :
        \/ /\ Recorded(n) \/ Audience(n) = {}
           /\ scan' = [scan EXCEPT ![s] = Passed(s, n)]
           /\ UNCHANGED pc
        \/ /\ ~Recorded(n) /\ Audience(n) # {}
           /\ scan' = [scan EXCEPT ![s] = Telling(s, n)]
           /\ pc' = [pc EXCEPT ![s] = "insert"]
  BY DEF Check
<1>2. UNCHANGED <<day, noted, sent, swept>> /\ pc[s] = "check" /\ scan[s].to = {}
  BY DEF Check, NoticeInv, OneNotice
<1>3. CASE /\ scan' = [scan EXCEPT ![s] = Passed(s, n)]
           /\ UNCHANGED pc
  <2>1. OneNotice'
    BY <1>2, <1>3, PassedFields DEF NoticeInv, Typed, OneNotice
  <2>2. Covered'
    <3> SUFFICES ASSUME NEW t \in Scanners, pc'[t] # "idle", scan'[t].heard,
                        NEW m \in Dues[scan'[t].today]
                 PROVE  m \in noted \/ m \in scan'[t].todo \/ \E k \in scan'[t].to : k.notice = m
      BY <1>2 DEF Covered
    <3>1. CASE t # s
      BY <1>3, <3>1 DEF NoticeInv, Typed, Covered
    <3>2. CASE t = s
      BY <1>2, <1>3, <3>2, PassedFields DEF NoticeInv, Typed, Covered, Recorded
    <3> QED BY <3>1, <3>2
  <2> QED BY <1>2, <2>1, <2>2 DEF NoticeInv, Steady, ToldOnce, SweepLeavesNothing
<1>4. CASE /\ Audience(n) # {}
           /\ scan' = [scan EXCEPT ![s] = Telling(s, n)]
           /\ pc' = [pc EXCEPT ![s] = "insert"]
  <2>0. /\ LettersOf(n, s) # {}
        /\ \A k \in LettersOf(n, s) : k.notice = n
        /\ \A k, m \in LettersOf(n, s) : k.notice = n /\ (k.to = m.to => k = m)
    <3>1. LettersOf(n, s) # {}
      BY <1>4 DEF LettersOf
    <3>2. \A k \in LettersOf(n, s) : k = [to |-> k.to, notice |-> n, by |-> s]
      BY DEF LettersOf
    <3> QED BY <3>1, <3>2
  <2>1. OneNotice'
    BY <1>2, <1>4, <2>0, TellingFields DEF NoticeInv, Typed, OneNotice
  <2>2. Covered'
    <3> SUFFICES ASSUME NEW t \in Scanners, pc'[t] # "idle", scan'[t].heard,
                        NEW m \in Dues[scan'[t].today]
                 PROVE  m \in noted \/ m \in scan'[t].todo \/ \E k \in scan'[t].to : k.notice = m
      BY <1>2 DEF Covered
    <3>1. CASE t # s
      BY <1>4, <3>1 DEF NoticeInv, Typed, Covered
    <3>2. CASE t = s
      BY <1>2, <1>4, <2>0, <3>2, TellingFields DEF NoticeInv, Typed, Covered
    <3> QED BY <3>1, <3>2
  <2> QED BY <1>2, <2>1, <2>2 DEF NoticeInv, Steady, ToldOnce, SweepLeavesNothing
<1> QED BY <1>1, <1>3, <1>4

LEMMA InsertSteady ==
  ASSUME NoticeInv, NEW s \in Scanners, Insert(s)
  PROVE  Steady'
<1>1. PICK n \in {m.notice : m \in scan[s].to} :
        \/ Throws(s) /\ UNCHANGED <<noted, sent>>
        \/ /\ n \notin noted
           /\ noted' = noted \union {n}
           /\ sent' = sent \union scan[s].to
           /\ scan' = [scan EXCEPT ![s].to = {}]
           /\ pc' = [pc EXCEPT ![s] = "check"]
  BY DEF Insert
<1>2. UNCHANGED <<day, swept>> /\ pc[s] = "insert"
  BY DEF Insert
<1>3. CASE Throws(s) /\ UNCHANGED <<noted, sent>>
  BY <1>2, <1>3, Thrown
<1>4. CASE /\ n \notin noted
           /\ noted' = noted \union {n}
           /\ sent' = sent \union scan[s].to
           /\ scan' = [scan EXCEPT ![s].to = {}]
           /\ pc' = [pc EXCEPT ![s] = "check"]
  <2>0. /\ scan[s].to # {}
        /\ \A m \in scan[s].to : m.notice = n
        /\ \A k, m \in scan[s].to : k.to = m.to => k = m
    BY <1>1, <1>2 DEF NoticeInv, OneNotice
  <2>1. /\ scan'[s].to = {} /\ scan'[s].todo = scan[s].todo
        /\ scan'[s].today = scan[s].today /\ scan'[s].heard = scan[s].heard
        /\ \A t \in Scanners : t # s => scan'[t] = scan[t] /\ pc'[t] = pc[t]
        /\ pc'[s] = "check"
    BY <1>4 DEF NoticeInv, Typed, Scans
  <2>2. OneNotice'
    BY <2>1 DEF NoticeInv, OneNotice
  <2>3. Covered'
    <3> SUFFICES ASSUME NEW t \in Scanners, pc'[t] # "idle", scan'[t].heard,
                        NEW m \in Dues[scan'[t].today]
                 PROVE  m \in noted' \/ m \in scan'[t].todo \/ \E k \in scan'[t].to : k.notice = m
      BY DEF Covered
    <3>1. CASE t # s
      BY <1>4, <2>1, <3>1 DEF NoticeInv, Covered
    <3>2. CASE t = s
      BY <1>2, <1>4, <2>0, <2>1, <3>2 DEF NoticeInv, Covered
    <3> QED BY <3>1, <3>2
  <2>4. ToldOnce'
    <3>1. \A m \in sent : m.notice # n
      BY <1>4 DEF NoticeInv, ToldOnce
    <3>2. \A k, m \in sent' : k.to = m.to /\ k.notice = m.notice => k = m
      BY <1>4, <2>0, <3>1 DEF NoticeInv, ToldOnce
    <3>3. noted' = {m.notice : m \in sent'}
      BY <1>4, <2>0 DEF NoticeInv, ToldOnce
    <3> QED BY <3>2, <3>3 DEF ToldOnce
  <2>5. SweepLeavesNothing'
    BY <1>2, <1>4 DEF NoticeInv, SweepLeavesNothing
  <2> QED BY <2>2, <2>3, <2>4, <2>5 DEF Steady
<1> QED BY <1>1, <1>3, <1>4

LEMMA EndSteady ==
  ASSUME NoticeInv, NEW s \in Scanners, End(s)
  PROVE  Steady'
<1>1. pc[s] = "check" /\ scan[s].todo = {} /\ scan[s].to = {}
  BY DEF End, NoticeInv, OneNotice
<1>2. /\ UNCHANGED <<day, noted, sent>>
      /\ \A t \in Scanners : \/ pc'[t] = "idle"
                             \/ pc'[t] = pc[t] /\ scan'[t] = scan[t]
  BY DEF End, NoticeInv, Typed
<1>3. scan[s].heard => Dues[scan[s].today] \subseteq noted
  BY <1>1 DEF NoticeInv, Covered
<1>4. SweepLeavesNothing'
  BY <1>2, <1>3 DEF End, NoticeInv, SweepLeavesNothing
<1>5. OneNotice' /\ Covered' /\ ToldOnce'
  BY <1>2 DEF NoticeInv, OneNotice, Covered, ToldOnce
<1> QED BY <1>4, <1>5 DEF Steady

LEMMA NoticeInvNext == NoticeInv /\ NextNotices => NoticeInv'
<1> SUFFICES ASSUME NoticeInv, NextNotices PROVE Steady'
  BY TypedNext DEF NoticeInv, Steady
<1>1. CASE Tick
  BY <1>1, StartSteady DEF Tick, Scanners
<1>2. CASE ScanRequest
  BY <1>2, StartSteady DEF ScanRequest, Scanners
<1>3. CASE Restart
  BY <1>3, Dropped DEF Restart
<1>4. CASE NextDay
  BY <1>4 DEF NextDay, NoticeInv, Steady, OneNotice, Covered, ToldOnce, SweepLeavesNothing
<1>5. ASSUME NEW s \in Scanners, Check(s) PROVE Steady'
  BY <1>5, CheckSteady
<1>6. ASSUME NEW s \in Scanners, Insert(s) PROVE Steady'
  BY <1>6, InsertSteady
<1>7. ASSUME NEW s \in Scanners, Fail(s) PROVE Steady'
  BY <1>7, Thrown DEF Fail
<1>8. ASSUME NEW s \in Scanners, End(s) PROVE Steady'
  BY <1>8, EndSteady
<1>9. ASSUME NEW u \in Users, SetActive(u) PROVE Steady'
  BY <1>9, Dropped DEF SetActive
<1> QED BY <1>1, <1>2, <1>3, <1>4, <1>5, <1>6, <1>7, <1>8, <1>9 DEF NextNotices

LEMMA NoticeInvStays == NoticeInv /\ UNCHANGED noticeVars => NoticeInv'
BY DEF NoticeInv, noticeVars, Typed, OneNotice, Covered, ToldOnce, SweepLeavesNothing

\* Whatever scans overlap, fail or are cut off by a crash, a notice is told once, the row
\* that says so stands for letters that exist, and a sweep that ended left nothing behind
\* of what was due (runDueCelebrationScan, insertNotificationsForUsers).
THEOREM NoticesExact == SpecBell => []NoticesAreExact
<1>1. InitBell => NoticeInv
  BY NoticeInvInit DEF InitBell
<1>2. NoticeInv /\ [NextBell]_vars => NoticeInv'
  <2> SUFFICES ASSUME NoticeInv, [NextBell]_vars PROVE NoticeInv'
    OBVIOUS
  <2>1. CASE NextNotices
    BY <2>1, NoticeInvNext
  <2>2. CASE UNCHANGED noticeVars
    BY <2>2, NoticeInvStays
  <2>3. NextNotices \/ UNCHANGED noticeVars
    BY DEF NextBell, vars, Load, Loaded, Serve, Marked, MarkRead
  <2> QED BY <2>1, <2>2, <2>3
<1>3. NoticeInv => NoticesAreExact
  BY DEF NoticeInv, NoticesAreExact
<1> QED BY <1>1, <1>2, <1>3, PTL DEF SpecBell

-----------------------------------------------------------------------------
(* The bell *)

\* A list shows what the server has: letters of the viewer, "read" only when they are.
Honest(list) ==
  \A i \in list : /\ i.note \in sent /\ i.note.to = Viewer
                  /\ i.read => i.note \in read

Items == [note : Letters, read : BOOLEAN]

BellInv ==
  /\ items \subseteq Items /\ Honest(items)
  /\ \A l \in loads : l \subseteq Items /\ Honest(l)
  /\ \A m \in marking : m \in sent /\ m.to = Viewer
  /\ answered => marking \subseteq read

\* Letters are never withdrawn, and what is read stays read.
LEMMA HonestStays ==
  ASSUME NEW list, Honest(list), sent \subseteq sent', read \subseteq read'
  PROVE  Honest(list)'
BY DEF Honest

LEMMA SentGrows == NextNotices => sent \subseteq sent'
BY DEF NextNotices, Tick, ScanRequest, Start, Restart, NextDay, Check, Insert, Fail, End, SetActive

LEMMA BellInvNext ==
  ASSUME Typed, BellInv, [NextBell]_vars
  PROVE  BellInv'
<1>1. ASSUME sent \subseteq sent', UNCHANGED bellVars PROVE BellInv'
  BY <1>1 DEF BellInv, Honest, bellVars
<1>2. CASE NextNotices /\ UNCHANGED bellVars
  BY <1>1, <1>2, SentGrows
<1>3. CASE UNCHANGED vars
  BY <1>1, <1>3 DEF vars, noticeVars
<1>4. CASE Load
  <2>1. /\ ListOf(Viewer) \subseteq Items
        /\ Honest(ListOf(Viewer))
    <3>1. \A i \in ListOf(Viewer) :
            \E m \in sent : m.to = Viewer /\ i = [note |-> m, read |-> m \in read]
      BY DEF ListOf
    <3>2. ASSUME NEW i \in ListOf(Viewer)
          PROVE  /\ i \in Items
                 /\ i.note \in sent /\ i.note.to = Viewer
                 /\ i.read => i.note \in read
      <4>1. PICK m \in sent : m.to = Viewer /\ i = [note |-> m, read |-> m \in read]
        BY <3>1
      <4>2. PICK b \in BOOLEAN : b <=> m \in read
        OBVIOUS
      <4>3. i = [note |-> m, read |-> b]
        BY <4>1, <4>2
      <4> QED BY <4>1, <4>2, <4>3 DEF Items, Typed
    <3> QED BY <3>2 DEF Honest
  <2> QED BY <1>4, <2>1 DEF Load, BellInv, Honest, noticeVars
<1>5. CASE Loaded
  BY <1>5 DEF Loaded, BellInv, Honest, noticeVars
<1>6. CASE Serve
  <2>1. sent' = sent /\ read \subseteq read' /\ marking \subseteq read'
    BY <1>6 DEF Serve, BellInv, noticeVars
  <2>2. Honest(items)' /\ \A l \in loads : (l \subseteq Items /\ Honest(l))'
    BY <1>6, <2>1 DEF Serve, BellInv, Honest
  <2> QED BY <1>6, <2>1, <2>2 DEF Serve, BellInv, noticeVars
<1>7. CASE Marked
  <2> DEFINE Shown(i) == IF i.note \in marking THEN [i EXCEPT !.read = TRUE] ELSE i
  <2>1. sent' = sent /\ read' = read /\ loads' = loads /\ marking' = {} /\ ~answered'
    BY <1>7 DEF Marked, noticeVars
  <2>2. CASE items' = items
    BY <2>1, <2>2 DEF BellInv, Honest
  <2>3. CASE answered /\ items' = {Shown(i) : i \in items}
    <3>1. ASSUME NEW i \in items
          PROVE  /\ Shown(i) \in Items
                 /\ Shown(i).note \in sent /\ Shown(i).note.to = Viewer
                 /\ Shown(i).read => Shown(i).note \in read
      BY <2>3 DEF BellInv, Honest, Items
    <3>2. items' \subseteq Items /\ Honest(items)'
      BY <2>1, <2>3, <3>1 DEF Honest
    <3> QED BY <2>1, <3>2 DEF BellInv, Honest
  <2>4. items' = items \/ (answered /\ items' = {Shown(i) : i \in items})
    BY <1>7 DEF Marked
  <2> QED BY <2>2, <2>3, <2>4
<1>8. ASSUME NEW i \in items, MarkRead(i) PROVE BellInv'
  BY <1>8 DEF MarkRead, BellInv, Honest, noticeVars
<1> QED BY <1>2, <1>3, <1>4, <1>5, <1>6, <1>7, <1>8 DEF NextBell

\* However the answers of loads and of marks cross, fail or are lost, the bell shows
\* nobody else's letters and calls none read that the server has not marked
\* (notification-bell.tsx, listNotificationsForUser, markNotificationsRead).
THEOREM NothingLooksReadThatIsNot == SpecBell => []NothingLooksRead
<1>1. InitBell => Typed /\ BellInv
  BY NoticeInvInit DEF InitBell, NoticeInv, BellInv, Honest
<1>2. Typed /\ BellInv /\ [NextBell]_vars => (Typed /\ BellInv)'
  <2>1. Typed /\ UNCHANGED noticeVars => Typed'
    BY DEF Typed, noticeVars
  <2>2. [NextBell]_vars => NextNotices \/ UNCHANGED noticeVars
    BY DEF NextBell, vars, Load, Loaded, Serve, Marked, MarkRead
  <2> QED BY <2>1, <2>2, TypedNext, BellInvNext
<1>3. Typed /\ BellInv => NothingLooksRead
  BY DEF BellInv, Honest, NothingLooksRead
<1> QED BY <1>1, <1>2, <1>3, PTL DEF SpecBell

-----------------------------------------------------------------------------
(* The schedule page *)

Openings == Rows \union {None}

SlotTyped ==
  slot \in [row : Openings, list : Openings, pick : Staff \union {None}, exception : BOOLEAN,
            review : BOOLEAN, reason : Openings, in : Openings]

GenTyped == gen \in [modal : BOOLEAN, mode : Modes, warning : BOOLEAN, generating : BOOLEAN]

UnlockTyped ==
  unlock \in [open : BOOLEAN, mode : {"begin", "end"}, secret : BOOLEAN, reason : BOOLEAN,
              asked : BOOLEAN]

ReviseTyped == revise \in [open : BOOLEAN, mode : {"begin", "end"}, reason : Nat, nth : Nat]

\* What was picked was picked in the dialog that is open, from a list no answer replaces.
PickedHere ==
  /\ slot.row # None =>
       /\ slot.reason \in {None, slot.row}
       /\ slot.pick # None =>
            /\ slot.in = slot.row /\ Says(slot.pick) # "hard"
            /\ \A r \in flight : r.do # "candidates"
  /\ slot.review => slot.row # None /\ slot.pick # None

Generating == {"gate", "count", "generate"}

Generations ==
  /\ \A r, q \in flight : r.do \in Generating /\ q.do \in Generating => r = q
  /\ ~down => (gen.generating <=> \E r \in flight : r.do \in Generating)
  /\ down => flight = {}

\* A dialog of an emergency has looked at the window, or its look is on the way.
Windows ==
  /\ ~down /\ unlock.open => unlock.asked \/ \E r \in flight : r.do = "mode"
  /\ unlock.secret => unlock.open
  /\ revise.reason \in {0, revise.nth}

Sent ==
  \A r \in flight :
    /\ r.do = "candidates" => r.row \in Rows
    /\ r.do = "apply" => r.in = r.row /\ r.reason \in {None, r.row} /\ r.says # "hard"
    /\ r.do = "unlock" => r.asked
    /\ r.do = "revise" => (r.of.mode = "begin" => r.of.reason = r.of.nth)

ScheduleInv ==
  /\ SlotTyped /\ GenTyped /\ UnlockTyped /\ ReviseTyped
  /\ PickedHere /\ Generations /\ Windows /\ Sent

LEMMA ScheduleStarts ==
  ASSUME ScheduleInit \/ ScheduleIdle
  PROVE  ScheduleInv
<1>1. /\ slot = NoSlot /\ gen = NoGen /\ unlock = NoUnlock /\ revise = NoRevise
      /\ down = FALSE /\ \A r \in flight : r = [do |-> "look"]
  BY DEF ScheduleInit, ScheduleIdle, Fresh
<1>2. SlotTyped /\ GenTyped /\ UnlockTyped /\ ReviseTyped
  BY <1>1 DEF SlotTyped, GenTyped, UnlockTyped, ReviseTyped, Openings, Modes, NoSlot, NoGen, NoUnlock, NoRevise
<1>3. PickedHere /\ Sent
  BY <1>1 DEF PickedHere, Sent, NoSlot
<1>4. Generations
  <2>1. \A r \in flight : r.do = "look"
    BY <1>1
  <2>2. down => flight = {}
    BY <1>1
  <2> QED BY <1>1, <2>1, <2>2 DEF Generations, Generating, NoGen
<1>5. Windows
  BY <1>1 DEF Windows, NoUnlock, NoRevise
<1> QED BY <1>2, <1>3, <1>4, <1>5 DEF ScheduleInv

LEMMA ReloadKeeps ==
  ASSUME ScheduleInv, ~down, NEW s, Reload(s)
  PROVE  ScheduleInv'
<1>1. /\ slot' = NoSlot /\ gen' = NoGen /\ unlock' = NoUnlock /\ revise' = NoRevise
      /\ down' = down /\ \A r \in flight' : r = [do |-> "look"]
  BY DEF Reload
<1>2. SlotTyped' /\ GenTyped' /\ UnlockTyped' /\ ReviseTyped'
  BY <1>1 DEF SlotTyped, GenTyped, UnlockTyped, ReviseTyped, Openings, Modes, NoSlot, NoGen, NoUnlock, NoRevise
<1>3. PickedHere' /\ Sent'
  BY <1>1 DEF PickedHere, Sent, NoSlot
<1>4. Generations'
  <2>1. \A r \in flight' : r.do = "look"
    BY <1>1
  <2> QED BY <1>1, <2>1 DEF Generations, Generating, NoGen
<1>5. Windows'
  BY <1>1 DEF Windows, NoUnlock, NoRevise
<1> QED BY <1>2, <1>3, <1>4, <1>5 DEF ScheduleInv

LEMMA PageDownKeeps ==
  ASSUME ScheduleInv, PageDown
  PROVE  ScheduleInv'
<1> USE DEF PageDown, ScheduleInv
<1>2. SlotTyped' /\ GenTyped' /\ UnlockTyped' /\ ReviseTyped'
  BY DEF SlotTyped, GenTyped, UnlockTyped, ReviseTyped
<1>3. PickedHere' /\ Sent'
  BY DEF PickedHere, Sent, Says
<1>4. Generations' /\ Windows'
  BY DEF Generations, Windows
<1> QED BY <1>2, <1>3, <1>4

SlotAct ==
  \/ \E r \in Rows : OpenSlot(r)
  \/ \E t \in Staff : Pick(t)
  \/ CloseSlot \/ TypeReason \/ ToggleException \/ ProceedToReview \/ Back \/ ApplySlot

GenAct ==
  \/ \E m \in Modes : Choose(m)
  \/ OpenGenerate \/ CloseGenerate \/ ConfirmGenerate \/ Proceed \/ SetStatus

WindowAct ==
  \/ \E mode \in {"begin", "end"} : OpenRevision(mode)
  \/ OpenEmergency \/ CloseEmergency \/ TypeSecret \/ SubmitEmergency
  \/ CloseRevision \/ TypeRevision \/ SubmitRevision \/ OpenUnavailable

LEMMA SlotActTypes ==
  ASSUME SlotTyped, SlotAct
  PROVE  SlotTyped'
<1> USE ScheduleAssumption DEF Press, Only, Send, SlotTyped, Openings
<1>1. ASSUME NEW r \in Rows, OpenSlot(r) PROVE SlotTyped'
  BY <1>1 DEF OpenSlot, NoSlot
<1>2. ASSUME NEW t \in Staff, Pick(t) PROVE SlotTyped'
  BY <1>2 DEF Pick, Offered
<1>3. ASSUME CloseSlot PROVE SlotTyped'
  BY <1>3 DEF CloseSlot
<1>4. ASSUME TypeReason PROVE SlotTyped'
  BY <1>4 DEF TypeReason
<1>5. ASSUME ToggleException PROVE SlotTyped'
  BY <1>5 DEF ToggleException
<1>6. ASSUME ProceedToReview PROVE SlotTyped'
  BY <1>6 DEF ProceedToReview, Selected
<1>7. ASSUME Back PROVE SlotTyped'
  BY <1>7 DEF Back
<1>8. ASSUME ApplySlot PROVE SlotTyped'
  BY <1>8 DEF ApplySlot, Selected, Reasoned
<1> QED BY <1>1, <1>2, <1>3, <1>4, <1>5, <1>6, <1>7, <1>8 DEF SlotAct

LEMMA SlotActPicks ==
  ASSUME SlotTyped, PickedHere, SlotAct
  PROVE  PickedHere'
<1> USE ScheduleAssumption DEF Press, Only, Send, pending, SlotTyped, PickedHere, Openings, Says
<1>1. ASSUME NEW r \in Rows, OpenSlot(r) PROVE PickedHere'
  BY <1>1 DEF OpenSlot, NoSlot
<1>2. ASSUME NEW t \in Staff, Pick(t) PROVE PickedHere'
  BY <1>2 DEF Pick, Offered
<1>3. ASSUME CloseSlot PROVE PickedHere'
  BY <1>3 DEF CloseSlot
<1>4. ASSUME TypeReason PROVE PickedHere'
  BY <1>4 DEF TypeReason
<1>5. ASSUME ToggleException PROVE PickedHere'
  BY <1>5 DEF ToggleException
<1>6. ASSUME ProceedToReview PROVE PickedHere'
  BY <1>6 DEF ProceedToReview, Selected
<1>7. ASSUME Back PROVE PickedHere'
  BY <1>7 DEF Back
<1>8. ASSUME ApplySlot PROVE PickedHere'
  BY <1>8 DEF ApplySlot, Selected, Reasoned
<1> QED BY <1>1, <1>2, <1>3, <1>4, <1>5, <1>6, <1>7, <1>8 DEF SlotAct

LEMMA SlotActSends ==
  ASSUME SlotTyped, PickedHere, Sent, SlotAct
  PROVE  Sent'
<1> USE ScheduleAssumption DEF Press, Only, Send, SlotTyped, PickedHere, Sent, Openings
<1>1. ASSUME NEW r \in Rows, OpenSlot(r) PROVE Sent'
  BY <1>1 DEF OpenSlot, NoSlot
<1>2. ASSUME NEW t \in Staff, Pick(t) PROVE Sent'
  BY <1>2 DEF Pick, Offered
<1>3. ASSUME CloseSlot PROVE Sent'
  BY <1>3 DEF CloseSlot
<1>4. ASSUME TypeReason PROVE Sent'
  BY <1>4 DEF TypeReason
<1>5. ASSUME ToggleException PROVE Sent'
  BY <1>5 DEF ToggleException
<1>6. ASSUME ProceedToReview PROVE Sent'
  BY <1>6 DEF ProceedToReview, Selected
<1>7. ASSUME Back PROVE Sent'
  BY <1>7 DEF Back
<1>8. ASSUME ApplySlot PROVE Sent'
  BY <1>8 DEF ApplySlot, Selected, Reasoned
<1> QED BY <1>1, <1>2, <1>3, <1>4, <1>5, <1>6, <1>7, <1>8 DEF SlotAct

LEMMA SlotActGenerations ==
  ASSUME Generations, SlotAct
  PROVE  Generations'
<1> USE ScheduleAssumption DEF Press, Only, Send, Generations, Generating
<1>1. ASSUME NEW r \in Rows, OpenSlot(r) PROVE Generations'
  BY <1>1 DEF OpenSlot, NoSlot
<1>2. ASSUME NEW t \in Staff, Pick(t) PROVE Generations'
  BY <1>2 DEF Pick, Offered
<1>3. ASSUME CloseSlot PROVE Generations'
  BY <1>3 DEF CloseSlot
<1>4. ASSUME TypeReason PROVE Generations'
  BY <1>4 DEF TypeReason
<1>5. ASSUME ToggleException PROVE Generations'
  BY <1>5 DEF ToggleException
<1>6. ASSUME ProceedToReview PROVE Generations'
  BY <1>6 DEF ProceedToReview, Selected
<1>7. ASSUME Back PROVE Generations'
  BY <1>7 DEF Back
<1>8. ASSUME ApplySlot PROVE Generations'
  BY <1>8 DEF ApplySlot, Selected, Reasoned
<1> QED BY <1>1, <1>2, <1>3, <1>4, <1>5, <1>6, <1>7, <1>8 DEF SlotAct

LEMMA SlotActWindows ==
  ASSUME Windows, SlotAct
  PROVE  Windows'
<1> USE ScheduleAssumption DEF Press, Only, Send, Windows
<1>1. ASSUME NEW r \in Rows, OpenSlot(r) PROVE Windows'
  BY <1>1 DEF OpenSlot, NoSlot
<1>2. ASSUME NEW t \in Staff, Pick(t) PROVE Windows'
  BY <1>2 DEF Pick, Offered
<1>3. ASSUME CloseSlot PROVE Windows'
  BY <1>3 DEF CloseSlot
<1>4. ASSUME TypeReason PROVE Windows'
  BY <1>4 DEF TypeReason
<1>5. ASSUME ToggleException PROVE Windows'
  BY <1>5 DEF ToggleException
<1>6. ASSUME ProceedToReview PROVE Windows'
  BY <1>6 DEF ProceedToReview, Selected
<1>7. ASSUME Back PROVE Windows'
  BY <1>7 DEF Back
<1>8. ASSUME ApplySlot PROVE Windows'
  BY <1>8 DEF ApplySlot, Selected, Reasoned
<1> QED BY <1>1, <1>2, <1>3, <1>4, <1>5, <1>6, <1>7, <1>8 DEF SlotAct

LEMMA SlotActKeeps ==
  ASSUME ScheduleInv, SlotAct
  PROVE  ScheduleInv'
<1>1. UNCHANGED <<gen, unlock, revise>>
  BY DEF SlotAct, OpenSlot, Pick, CloseSlot, TypeReason, ToggleException, ProceedToReview, Back, ApplySlot, Only
<1>2. GenTyped' /\ UnlockTyped' /\ ReviseTyped'
  BY <1>1 DEF ScheduleInv, GenTyped, UnlockTyped, ReviseTyped
<1> QED BY <1>2, SlotActTypes, SlotActPicks, SlotActSends, SlotActGenerations, SlotActWindows DEF ScheduleInv

LEMMA GenActTypes ==
  ASSUME GenTyped, GenAct
  PROVE  GenTyped'
<1> USE ScheduleAssumption DEF Press, Only, Send, GenTyped, Modes
<1>1. ASSUME NEW m \in Modes, Choose(m) PROVE GenTyped'
  BY <1>1 DEF Choose
<1>2. ASSUME OpenGenerate PROVE GenTyped'
  BY <1>2 DEF OpenGenerate
<1>3. ASSUME CloseGenerate PROVE GenTyped'
  BY <1>3 DEF CloseGenerate
<1>4. ASSUME ConfirmGenerate PROVE GenTyped'
  BY <1>4 DEF ConfirmGenerate
<1>5. ASSUME Proceed PROVE GenTyped'
  BY <1>5 DEF Proceed
<1>6. ASSUME SetStatus PROVE GenTyped'
  BY <1>6 DEF SetStatus
<1> QED BY <1>1, <1>2, <1>3, <1>4, <1>5, <1>6 DEF GenAct

LEMMA GenActGenerations ==
  ASSUME GenTyped, Generations, GenAct
  PROVE  Generations'
<1> USE ScheduleAssumption DEF Press, Only, Send, pending, GenTyped, Generations, Generating
<1>1. ASSUME NEW m \in Modes, Choose(m) PROVE Generations'
  BY <1>1 DEF Choose
<1>2. ASSUME OpenGenerate PROVE Generations'
  BY <1>2 DEF OpenGenerate
<1>3. ASSUME CloseGenerate PROVE Generations'
  BY <1>3 DEF CloseGenerate
<1>4. ASSUME ConfirmGenerate PROVE Generations'
  <2> DEFINE new == [do |-> "gate", mode |-> gen.mode]
  <2>1. flight' = flight \union {new} /\ new.do = "gate" /\ gen'.generating /\ ~down /\ ~down'
    BY <1>4 DEF ConfirmGenerate
  <2>2. \A r \in flight : r.do \notin {"gate", "count", "generate"}
    BY <1>4 DEF ConfirmGenerate
  <2> HIDE DEF new
  <2> QED BY <2>1, <2>2
<1>5. ASSUME Proceed PROVE Generations'
  <2> DEFINE new == [do |-> "generate", mode |-> gen.mode]
  <2>1. flight' = flight \union {new} /\ new.do = "generate" /\ gen'.generating /\ ~down /\ ~down'
    BY <1>5 DEF Proceed
  <2>2. \A r \in flight : r.do \notin {"gate", "count", "generate"}
    BY <1>5 DEF Proceed
  <2> HIDE DEF new
  <2> QED BY <2>1, <2>2
<1>6. ASSUME SetStatus PROVE Generations'
  BY <1>6 DEF SetStatus
<1> QED BY <1>1, <1>2, <1>3, <1>4, <1>5, <1>6 DEF GenAct

LEMMA GenActKeeps ==
  ASSUME ScheduleInv, GenAct
  PROVE  ScheduleInv'
<1> USE DEF ScheduleInv
<1>1. /\ UNCHANGED <<slot, unlock, revise, down>>
      /\ \/ flight' = flight
         \/ \E r : r.do \in {"gate", "generate", "status"} /\ flight' = flight \union {r}
  BY DEF GenAct, Choose, OpenGenerate, CloseGenerate, ConfirmGenerate, Proceed, SetStatus, Press, Only, Send
<1>2. SlotTyped' /\ UnlockTyped' /\ ReviseTyped'
  BY <1>1 DEF SlotTyped, UnlockTyped, ReviseTyped
<1>3. PickedHere'
  BY <1>1 DEF PickedHere, Says
<1>4. Windows'
  BY <1>1 DEF Windows
<1>5. Sent'
  BY <1>1 DEF Sent
<1> QED BY <1>2, <1>3, <1>4, <1>5, GenActTypes, GenActGenerations

LEMMA WindowActTypes ==
  ASSUME UnlockTyped, WindowAct
  PROVE  UnlockTyped'
<1> USE ScheduleAssumption DEF Press, Only, Send, UnlockTyped
<1>1. ASSUME OpenEmergency PROVE UnlockTyped'
  BY <1>1 DEF OpenEmergency, NoUnlock
<1>2. ASSUME CloseEmergency PROVE UnlockTyped'
  BY <1>2 DEF CloseEmergency
<1>3. ASSUME TypeSecret PROVE UnlockTyped'
  BY <1>3 DEF TypeSecret
<1>4. ASSUME SubmitEmergency PROVE UnlockTyped'
  BY <1>4 DEF SubmitEmergency
<1>5. ASSUME NEW mode \in {"begin", "end"}, OpenRevision(mode) PROVE UnlockTyped'
  BY <1>5 DEF OpenRevision
<1>6. ASSUME CloseRevision PROVE UnlockTyped'
  BY <1>6 DEF CloseRevision
<1>7. ASSUME TypeRevision PROVE UnlockTyped'
  BY <1>7 DEF TypeRevision
<1>8. ASSUME SubmitRevision PROVE UnlockTyped'
  BY <1>8 DEF SubmitRevision
<1>9. ASSUME OpenUnavailable PROVE UnlockTyped'
  BY <1>9 DEF OpenUnavailable
<1> QED BY <1>1, <1>2, <1>3, <1>4, <1>5, <1>6, <1>7, <1>8, <1>9 DEF WindowAct

LEMMA WindowActRevises ==
  ASSUME ReviseTyped, WindowAct
  PROVE  ReviseTyped'
<1> USE ScheduleAssumption DEF Press, Only, Send, ReviseTyped
<1>1. ASSUME OpenEmergency PROVE ReviseTyped'
  BY <1>1 DEF OpenEmergency, NoUnlock
<1>2. ASSUME CloseEmergency PROVE ReviseTyped'
  BY <1>2 DEF CloseEmergency
<1>3. ASSUME TypeSecret PROVE ReviseTyped'
  BY <1>3 DEF TypeSecret
<1>4. ASSUME SubmitEmergency PROVE ReviseTyped'
  BY <1>4 DEF SubmitEmergency
<1>5. ASSUME NEW mode \in {"begin", "end"}, OpenRevision(mode) PROVE ReviseTyped'
  BY <1>5 DEF OpenRevision
<1>6. ASSUME CloseRevision PROVE ReviseTyped'
  BY <1>6 DEF CloseRevision
<1>7. ASSUME TypeRevision PROVE ReviseTyped'
  BY <1>7 DEF TypeRevision
<1>8. ASSUME SubmitRevision PROVE ReviseTyped'
  BY <1>8 DEF SubmitRevision
<1>9. ASSUME OpenUnavailable PROVE ReviseTyped'
  BY <1>9 DEF OpenUnavailable
<1> QED BY <1>1, <1>2, <1>3, <1>4, <1>5, <1>6, <1>7, <1>8, <1>9 DEF WindowAct

LEMMA WindowActWindows ==
  ASSUME UnlockTyped, ReviseTyped, Windows, WindowAct
  PROVE  Windows'
<1> USE ScheduleAssumption DEF Press, Only, Send, UnlockTyped, ReviseTyped, Windows
<1>1. ASSUME OpenEmergency PROVE Windows'
  <2>1. [do |-> "mode"] \in flight' /\ unlock'.secret = FALSE /\ revise' = revise
    BY <1>1 DEF OpenEmergency, NoUnlock
  <2>2. \E r \in flight' : r.do = "mode"
    BY <2>1
  <2> QED BY <2>1, <2>2
<1>2. ASSUME CloseEmergency PROVE Windows'
  BY <1>2 DEF CloseEmergency
<1>3. ASSUME TypeSecret PROVE Windows'
  BY <1>3 DEF TypeSecret
<1>4. ASSUME SubmitEmergency PROVE Windows'
  BY <1>4 DEF SubmitEmergency
<1>5. ASSUME NEW mode \in {"begin", "end"}, OpenRevision(mode) PROVE Windows'
  BY <1>5 DEF OpenRevision
<1>6. ASSUME CloseRevision PROVE Windows'
  BY <1>6 DEF CloseRevision
<1>7. ASSUME TypeRevision PROVE Windows'
  BY <1>7 DEF TypeRevision
<1>8. ASSUME SubmitRevision PROVE Windows'
  BY <1>8 DEF SubmitRevision
<1>9. ASSUME OpenUnavailable PROVE Windows'
  BY <1>9 DEF OpenUnavailable
<1> QED BY <1>1, <1>2, <1>3, <1>4, <1>5, <1>6, <1>7, <1>8, <1>9 DEF WindowAct

LEMMA WindowActSends ==
  ASSUME UnlockTyped, ReviseTyped, Windows, Sent, WindowAct
  PROVE  Sent'
<1> USE ScheduleAssumption DEF Press, Only, Send, pending, UnlockTyped, ReviseTyped, Windows, Sent
<1>1. ASSUME OpenEmergency PROVE Sent'
  BY <1>1 DEF OpenEmergency, NoUnlock
<1>2. ASSUME CloseEmergency PROVE Sent'
  BY <1>2 DEF CloseEmergency
<1>3. ASSUME TypeSecret PROVE Sent'
  BY <1>3 DEF TypeSecret
<1>4. ASSUME SubmitEmergency PROVE Sent'
  BY <1>4 DEF SubmitEmergency
<1>5. ASSUME NEW mode \in {"begin", "end"}, OpenRevision(mode) PROVE Sent'
  BY <1>5 DEF OpenRevision
<1>6. ASSUME CloseRevision PROVE Sent'
  BY <1>6 DEF CloseRevision
<1>7. ASSUME TypeRevision PROVE Sent'
  BY <1>7 DEF TypeRevision
<1>8. ASSUME SubmitRevision PROVE Sent'
  BY <1>8 DEF SubmitRevision
<1>9. ASSUME OpenUnavailable PROVE Sent'
  BY <1>9 DEF OpenUnavailable
<1> QED BY <1>1, <1>2, <1>3, <1>4, <1>5, <1>6, <1>7, <1>8, <1>9 DEF WindowAct

LEMMA WindowActKeeps ==
  ASSUME ScheduleInv, WindowAct
  PROVE  ScheduleInv'
<1> USE DEF ScheduleInv
<1>1. /\ UNCHANGED <<slot, gen, down>> /\ (down => flight' = flight)
      /\ \/ flight' = flight
         \/ \E r : r.do \in {"mode", "unlock", "revise", "unavailable"} /\ flight' = flight \union {r}
  BY DEF WindowAct, OpenEmergency, CloseEmergency, TypeSecret, SubmitEmergency, OpenRevision,
         CloseRevision, TypeRevision, SubmitRevision, OpenUnavailable, Press, Only, Send
<1>2. SlotTyped' /\ GenTyped'
  BY <1>1 DEF SlotTyped, GenTyped
<1>3. PickedHere'
  BY <1>1 DEF PickedHere, Says
<1>4. Generations'
  BY <1>1 DEF Generations, Generating
<1> QED BY <1>2, <1>3, <1>4, WindowActTypes, WindowActRevises, WindowActWindows, WindowActSends

-----------------------------------------------------------------------------
(* The schedule page: answers *)

\* An answer takes its request away.
Answered(r) == flight' = flight \ {r} /\ down' = down

LEMMA AnsweredKeeps ==
  ASSUME ScheduleInv, ~down, NEW r \in flight, Answered(r), UNCHANGED <<slot, gen, unlock, revise>>,
         r.do \notin {"gate", "count", "generate", "mode"}
  PROVE  ScheduleInv'
<1> USE DEF ScheduleInv, Answered
<1>1. SlotTyped' /\ GenTyped' /\ UnlockTyped' /\ ReviseTyped'
  BY DEF SlotTyped, GenTyped, UnlockTyped, ReviseTyped
<1>2. PickedHere' /\ Sent'
  BY DEF PickedHere, Sent, Says
<1>3. Generations'
  BY DEF Generations, Generating
<1>4. Windows'
  BY DEF Windows
<1> QED BY <1>1, <1>2, <1>3, <1>4

LEMMA SlotAnswersKeep ==
  ASSUME ScheduleInv, ~down, NEW r \in flight, NEW how \in {"ok", "no", "lost"},
         Candidates(r, how) \/ Applied(r, how)
  PROVE  ScheduleInv'
<1> USE ScheduleAssumption DEF ScheduleInv
<1>1. CASE PageDown
  BY <1>1, PageDownKeeps
<1>2. CASE ~PageDown
  <2>1. UNCHANGED <<gen, unlock, revise>> /\ Answered(r) /\ r.do \in {"candidates", "apply"}
    BY <1>2 DEF Candidates, Applied, Gone, Only, Answered
  <2>2. GenTyped' /\ UnlockTyped' /\ ReviseTyped' /\ Sent' /\ Windows'
    BY <2>1 DEF GenTyped, UnlockTyped, ReviseTyped, Sent, Windows, Answered
  <2>3. Generations'
    BY <2>1 DEF Generations, Generating, Answered
  <2>4. CASE Candidates(r, how)
    <3>1. r.row \in Rows /\ (slot' = slot \/ slot' = [slot EXCEPT !.list = r.row])
      BY <1>2, <2>4 DEF Candidates, Sent
    <3>2. SlotTyped'
      BY <3>1 DEF SlotTyped, Openings
    <3>3. PickedHere'
      BY <2>1, <2>4, <3>1 DEF PickedHere, SlotTyped, Candidates
    <3> QED BY <2>2, <2>3, <3>2, <3>3
  <2>5. CASE Applied(r, how)
    <3>1. \/ slot' = [slot EXCEPT !.row = None, !.list = None, !.review = FALSE]
          \/ slot' = [slot EXCEPT !.review = FALSE]
      BY <2>5 DEF Applied
    <3>2. SlotTyped'
      BY <3>1 DEF SlotTyped, Openings
    <3>3. PickedHere'
      BY <2>1, <3>1 DEF PickedHere, SlotTyped, Answered, Says
    <3> QED BY <2>2, <2>3, <3>2, <3>3
  <2> QED BY <2>4, <2>5
<1> QED BY <1>1, <1>2

LEMMA GenAnswersKeep ==
  ASSUME ScheduleInv, ~down, NEW r \in flight, NEW how \in {"ok", "no", "lost"},
         Gate(r, how) \/ Count(r, how) \/ Generated(r, how)
  PROVE  ScheduleInv'
<1> USE DEF ScheduleInv
<1>1. CASE PageDown
  BY <1>1, PageDownKeeps
<1>2. CASE Reload(status)
  BY <1>2, ReloadKeeps
<1>3. CASE ~PageDown /\ ~Reload(status)
  <2>1. /\ UNCHANGED <<slot, unlock, revise, down>> /\ r.do \in Generating
        /\ \/ flight' = flight \ {r} /\ gen'.generating = FALSE
           \/ \E q : /\ q.do \in {"count", "generate"} /\ flight' = (flight \ {r}) \union {q}
                     /\ gen'.generating = gen.generating
    BY <1>3 DEF Gate, Count, Generated, Gone, Then, Only, Generating, GenTyped
  <2>2. GenTyped'
    BY <1>3 DEF Gate, Count, Generated, GenTyped, Only
  <2>3. SlotTyped' /\ UnlockTyped' /\ ReviseTyped'
    BY <2>1 DEF SlotTyped, UnlockTyped, ReviseTyped
  <2>4. PickedHere' /\ Sent'
    BY <2>1 DEF PickedHere, Sent, Says
  <2>5. Windows'
    BY <2>1 DEF Windows, Generating
  <2>6. Generations'
    BY <2>1 DEF Generations, Generating
  <2> QED BY <2>2, <2>3, <2>4, <2>5, <2>6
<1> QED BY <1>1, <1>2, <1>3

LEMMA WindowAnswersKeep ==
  ASSUME ScheduleInv, ~down, NEW r \in flight, NEW how \in {"ok", "no", "lost"},
         Mode(r, how) \/ Unlocked(r, how) \/ Revised(r, how)
  PROVE  ScheduleInv'
<1> USE DEF ScheduleInv
<1>1. /\ UNCHANGED <<slot, gen, down>> /\ r.do \in {"mode", "unlock", "revise"}
      /\ \/ flight' = flight \ {r}
         \/ \E q : q.do = "relook" /\ flight' = (flight \ {r}) \union {q}
  BY DEF Mode, Unlocked, Revised, Gone, Then, Only
<1>2. SlotTyped' /\ GenTyped'
  BY <1>1 DEF SlotTyped, GenTyped
<1>3. PickedHere' /\ Sent'
  BY <1>1 DEF PickedHere, Sent, Says
<1>4. Generations'
  BY <1>1 DEF Generations, Generating
<1>5. CASE Mode(r, how)
  <2>1. /\ revise' = revise
        /\ \E m \in {"begin", "end"} : unlock' = [unlock EXCEPT !.mode = m, !.asked = unlock.open]
    BY <1>5 DEF Mode, Only
  <2>2. UnlockTyped' /\ ReviseTyped'
    BY <2>1 DEF UnlockTyped, ReviseTyped
  <2>3. Windows'
    BY <2>1 DEF Windows, UnlockTyped
  <2> QED BY <1>2, <1>3, <1>4, <2>2, <2>3
<1>6. CASE Unlocked(r, how)
  <2>1. /\ revise' = revise
        /\ \/ unlock' = [unlock EXCEPT !.open = FALSE, !.secret = FALSE, !.reason = FALSE]
           \/ unlock' = [unlock EXCEPT !.secret = @ /\ how = "lost"]
    BY <1>6 DEF Unlocked, Only
  <2>2. UnlockTyped' /\ ReviseTyped'
    BY <2>1 DEF UnlockTyped, ReviseTyped
  <2>3. Windows'
    <3>1. \A q \in flight : q.do = "mode" => q \in flight'
      BY <1>1, <1>6 DEF Unlocked
    <3> QED BY <1>1, <2>1, <3>1 DEF Windows, UnlockTyped
  <2> QED BY <1>2, <1>3, <1>4, <2>2, <2>3
<1>7. CASE Revised(r, how)
  <2>1. /\ unlock' = unlock
        /\ revise' = revise \/ revise' = [revise EXCEPT !.open = FALSE, !.reason = 0]
    BY <1>7 DEF Revised
  <2>2. UnlockTyped' /\ ReviseTyped'
    <3>1. CASE revise' = revise
      BY <2>1, <3>1 DEF UnlockTyped, ReviseTyped
    <3>2. CASE revise' = [revise EXCEPT !.open = FALSE, !.reason = 0]
      BY <2>1, <3>2 DEF UnlockTyped, ReviseTyped
    <3> QED BY <2>1, <3>1, <3>2
  <2>3. Windows'
    <3>1. \A q \in flight : q.do = "mode" => q \in flight'
      BY <1>1, <1>7 DEF Revised
    <3> QED BY <1>1, <2>1, <3>1 DEF Windows, ReviseTyped
  <2> QED BY <1>2, <1>3, <1>4, <2>2, <2>3
<1> QED BY <1>5, <1>6, <1>7

LEMMA ScheduleKeeps ==
  ASSUME ScheduleInv, ScheduleNext
  PROVE  ScheduleInv'
<1>1. ASSUME Answer PROVE ScheduleInv'
  <2>1. PICK r \in flight, how \in {"ok", "no", "lost"} :
          \/ Candidates(r, how) \/ Applied(r, how)
          \/ Gate(r, how) \/ Count(r, how) \/ Generated(r, how)
          \/ StatusSet(r, how) \/ Look(r, how) \/ Mode(r, how) \/ Unlocked(r, how)
          \/ Revised(r, how) \/ Unavailable(r, how)
    BY <1>1 DEF Answer
  <2>2. ~down
    BY <1>1 DEF Answer
  <2>3. CASE StatusSet(r, how)
    <3>1. \/ \E s : Reload(s)
          \/ Answered(r) /\ UNCHANGED <<slot, gen, unlock, revise>>
          \/ PageDown
      BY <2>3 DEF StatusSet, Gone, Only, Answered
    <3> QED BY <2>2, <2>3, <3>1, ReloadKeeps, AnsweredKeeps, PageDownKeeps DEF StatusSet
  <2>4. CASE Look(r, how) \/ Unavailable(r, how)
    <3>1. \/ Answered(r) /\ UNCHANGED <<slot, gen, unlock, revise>>
          \/ PageDown
      BY <2>4 DEF Look, Unavailable, Gone, Only, Answered
    <3> QED BY <2>2, <2>4, <3>1, AnsweredKeeps, PageDownKeeps DEF Look, Unavailable
  <2> QED BY <2>1, <2>2, <2>3, <2>4, SlotAnswersKeep, GenAnswersKeep, WindowAnswersKeep
<1> QED BY <1>1, SlotActKeeps, GenActKeeps, WindowActKeeps
     DEF ScheduleNext, SlotAct, GenAct, WindowAct

LEMMA ScheduleStays ==
  ASSUME ScheduleInv, UNCHANGED scheduleVars
  PROVE  ScheduleInv'
BY DEF scheduleVars, ScheduleInv, SlotTyped, GenTyped, UnlockTyped, ReviseTyped, PickedHere, Generations,
   Windows, Sent, Says

\* What the schedule page promises follows.
LEMMA ScheduleShows ==
  ASSUME ScheduleInv
  PROVE  AppliedAsPicked /\ WindowsAreDeliberate /\ OneGeneration
<1> USE DEF ScheduleInv
<1>1. AppliedAsPicked /\ WindowsAreDeliberate
  BY DEF AppliedAsPicked, WindowsAreDeliberate, Under, Sent, Windows
<1>2. OneGeneration
  <2> DEFINE U == Under({"gate", "count", "generate"})
  <2>1. \A r, q \in U : r = q
    BY DEF Under, Generations, Generating
  <2>2. U = {} \/ \E r : U = {r}
    BY <2>1
  <2>3. Cardinality(U) <= 1
    BY <2>2, FS_EmptySet, FS_Singleton
  <2>4. ~down => (gen.generating <=> U # {})
    BY DEF Under, Generations, Generating
  <2> QED BY <2>3, <2>4 DEF OneGeneration
<1> QED BY <1>1, <1>2

-----------------------------------------------------------------------------
(* The annual matrix: the dialogs of a cell *)

Steps == {"none", "action", "clear-reason", "absent-reason", "replacement"}

DialogTyped ==
  /\ step \in [kind : Steps, cell : Cells \union {NoOne}, mode : {"", "modify", "clear"},
               list : SUBSET Heirs]
  /\ chosen \in [reason : Cells \union {NoOne}, heir : Heirs \union {NoOne},
                 for : Cells \union {NoOne}]
  /\ asked \in [do : {"none", "clear", "load", "replace"}, cell : Cells \union {NoOne},
                reason : Cells \union {NoOne}, heir : Heirs \union {NoOne},
                for : Cells \union {NoOne}]
  /\ open \subseteq Cells

\* What the radio buttons show was chosen for the cell of the dialog.
ChosenHere ==
  /\ step.kind # "none" <=> step # NoStep
  /\ step.kind \in {"clear-reason", "absent-reason"} => chosen.reason \in {NoOne, step.cell}
  /\ step.kind = "replacement" => chosen.heir = NoOne \/ chosen.for = step.cell

\* A request is for the cell it was made in.
AskedHere ==
  busy => /\ asked.do # "none" /\ asked.reason = asked.cell
          /\ asked.do = "replace" => asked.for = asked.cell
          /\ step # NoStep => step.cell = asked.cell

DialogInv == DialogTyped /\ ChosenHere /\ AskedHere

LEMMA DialogStarts ==
  ASSUME DialogFresh
  PROVE  DialogInv
BY DEF DialogFresh, NoStep, NoChoice, NoAsk, DialogInv, DialogTyped, ChosenHere, AskedHere, busy, Steps

LEMMA DialogKeeps ==
  ASSUME DialogInv, DialogNext
  PROVE  DialogInv'
<1> USE AnnualAssumption DEF DialogInv, DialogTyped, ChosenHere, AskedHere, busy, Steps, NoStep,
         NoChoice, NoAsk, Click, Set, Ask
<1>1. ASSUME NEW c \in Cells, OpenAction(c) PROVE DialogInv'
  <2>1. /\ step' = [kind |-> "action", cell |-> c, mode |-> "", list |-> {}]
        /\ UNCHANGED <<open, chosen, asked>> /\ asked = NoAsk
    BY <1>1 DEF OpenAction
  <2>2. DialogTyped'
    BY <2>1
  <2>3. ChosenHere' /\ AskedHere'
    BY <2>1
  <2> QED BY <2>2, <2>3
<1>2. ASSUME NEW h \in Heirs, SetHeir(h) PROVE DialogInv'
  BY <1>2 DEF SetHeir
<1>3. ASSUME NEW what \in {"change", "absent"}, ClearOf(what) PROVE DialogInv'
  <2>1. CASE what = "change"
    <3>1. asked' = [do |-> "clear", cell |-> step.cell, heir |-> chosen.heir, for |-> chosen.for,
                    reason |-> chosen.reason]
      BY <1>3, <2>1 DEF ClearOf
    <3>2. UNCHANGED <<open, step, chosen>> /\ step.kind = "clear-reason" /\ chosen.reason = step.cell
      BY <1>3, <2>1 DEF ClearOf
    <3>3. DialogTyped'
      BY <3>1, <3>2
    <3>4. ChosenHere'
      BY <3>2
    <3>5. AskedHere'
      BY <3>1, <3>2
    <3> QED BY <3>3, <3>4, <3>5
  <2>2. CASE what = "absent"
    <3>1. DialogTyped'
      BY <1>3, <2>2 DEF ClearOf
    <3>2. /\ step' = [step EXCEPT !.kind = "absent-reason", !.mode = "clear"]
          /\ chosen' = [chosen EXCEPT !.reason = NoOne]
          /\ asked' = asked /\ asked = NoAsk
      BY <1>3, <2>2 DEF ClearOf
    <3>3. step'.kind = "absent-reason" /\ chosen'.reason = NoOne /\ step' # NoStep
      BY <3>2
    <3> HIDE DEF NoStep
    <3>4. ChosenHere'
      BY <3>3
    <3>5. AskedHere'
      BY <3>2
    <3> QED BY <3>1, <3>4, <3>5
  <2> QED BY <2>1, <2>2
<1>4. ASSUME NEW list \in SUBSET Heirs, ListLoaded(list) PROVE DialogInv'
  BY <1>4 DEF ListLoaded
<1>5. ASSUME CloseModal PROVE DialogInv'
  BY <1>5 DEF CloseModal
<1>6. ASSUME ChooseClear PROVE DialogInv'
  BY <1>6 DEF ChooseClear
<1>7. ASSUME ChooseModify PROVE DialogInv'
  BY <1>7 DEF ChooseModify
<1>8. ASSUME SetReason PROVE DialogInv'
  <2>1. /\ chosen' = [chosen EXCEPT !.reason = step.cell]
        /\ UNCHANGED <<open, step, asked>> /\ step.kind \in {"clear-reason", "absent-reason"}
    BY <1>8 DEF SetReason
  <2>2. DialogTyped'
    BY <2>1
  <2>3. ChosenHere' /\ AskedHere'
    BY <2>1
  <2> QED BY <2>2, <2>3
<1>9. ASSUME Absent PROVE DialogInv'
  BY <1>9 DEF Absent
<1>10. ASSUME Replace PROVE DialogInv'
  BY <1>10 DEF Replace
<1>11. ASSUME Changed \/ LoadFailed PROVE DialogInv'
  <2>1. asked' = NoAsk /\ step' = NoStep /\ chosen' = NoChoice /\ open' \subseteq Cells
    BY <1>11 DEF Changed, LoadFailed
  <2> QED BY <2>1
<1> QED BY <1>1, <1>2, <1>3, <1>4, <1>5, <1>6, <1>7, <1>8, <1>9, <1>10, <1>11 DEF DialogNext

LEMMA DialogStays ==
  ASSUME DialogInv, UNCHANGED dialogVars
  PROVE  DialogInv'
<1> USE DEF dialogVars, DialogInv
<1>1. DialogTyped'
  BY DEF DialogTyped
<1>2. ChosenHere'
  BY DEF ChosenHere
<1>3. AskedHere'
  BY DEF AskedHere, busy
<1> QED BY <1>1, <1>2, <1>3

-----------------------------------------------------------------------------
(* The annual matrix: scrolling *)

\* The tables scroll as far as the widest of them.
Furthest == Max({Content[t] : t \in Tracks})

LEMMA LeastOfNaturals ==
  ASSUME NEW S, S \subseteq Nat, S # {}
  PROVE  \E n \in S : \A m \in S : n <= m
<1>1. PICK n \in S : \A m \in S : ~(<<m, n>> \in OpToRel(<, Nat))
  BY WFMin, NatLessThanWellFounded, Zenon
<1>2. \A m \in S : ~(m < n)
  BY <1>1 DEF OpToRel
<1> QED BY <1>2

\* Above the greatest of a finite set are the fewest.
LEMMA GreatestIsThere ==
  ASSUME NEW S, S \subseteq Nat, S # {}, IsFiniteSet(S)
  PROVE  \E x \in S : \A b \in S : x >= b
<1> DEFINE Above(x) == {b \in S : b > x}
           N == {Cardinality(Above(x)) : x \in S}
<1>1. \A x \in S : IsFiniteSet(Above(x)) /\ Cardinality(Above(x)) \in Nat
  BY FS_Subset, FS_CardinalityType
<1>2. N \subseteq Nat /\ N # {}
  BY <1>1
<1>3. PICK x \in S : \A z \in S : Cardinality(Above(x)) <= Cardinality(Above(z))
  <2> HIDE DEF Above
  <2>1. PICK n \in N : \A m \in N : n <= m
    <3> HIDE DEF N
    <3> QED BY <1>2, LeastOfNaturals
  <2>2. PICK x \in S : n = Cardinality(Above(x))
    BY <2>1
  <2> QED BY <2>1, <2>2
<1>4. ASSUME NEW b \in S, b > x PROVE FALSE
  <2>1. b \in Above(x) /\ Above(b) \subseteq Above(x) \ {b}
    <3>1. ASSUME NEW z \in Above(b) PROVE z \in Above(x) \ {b}
      <4>1. z \in S /\ z > b /\ z \in Nat /\ b \in Nat /\ x \in Nat
        OBVIOUS
      <4> QED BY <1>4, <4>1
    <3>2. b \in Above(x)
      BY <1>4
    <3> HIDE DEF Above
    <3> QED BY <3>1, <3>2
  <2>2. /\ IsFiniteSet(Above(x) \ {b})
        /\ Cardinality(Above(x) \ {b}) = Cardinality(Above(x)) - 1
    BY <1>1, <2>1, FS_RemoveElement
  <2>3. Cardinality(Above(b)) <= Cardinality(Above(x) \ {b})
    BY <2>1, <2>2, FS_Subset
  <2>4. /\ Cardinality(Above(x)) \in Nat /\ Cardinality(Above(b)) \in Nat
        /\ Cardinality(Above(x)) <= Cardinality(Above(b))
    BY <1>1, <1>3
  <2> HIDE DEF Above
  <2> QED BY <2>2, <2>3, <2>4
<1> QED BY <1>4

LEMMA WidestIsThere ==
  /\ Furthest \in Nat /\ NoTag = 1 + Furthest
  /\ \A t \in Tracks : Reach(t) = Furthest
<1> DEFINE S == {Content[t] : t \in Tracks}
<1>1. S # {} /\ S \subseteq Nat
  BY AnnualAssumption
<1>2. IsFiniteSet(S)
  <2>1. Content \in Surjection(Tracks, S)
    BY AnnualAssumption DEF Surjection
  <2> HIDE DEF S
  <2> QED BY <2>1, AnnualAssumption, FS_Surjection
<1>3. Max(S) \in S
  BY <1>1, <1>2, GreatestIsThere DEF Max
<1> QED BY <1>1, <1>3 DEF Furthest, NoTag, Reach

\* Tracks whose event, when it comes, will count as the user's.
Strayed == {t \in moved : at[t] # echo[t]}

ScrollTyped ==
  /\ at \in [Tracks -> 0..Furthest]
  /\ DOMAIN echo = Tracks /\ DOMAIN given = Tracks
  /\ moved \subseteq Tracks
  /\ source \in Tracks \union {NoOne}

\* A track without an event to come stands where it was put, or its tag is gone.
Tagged == \A t \in Tracks \ moved : echo[t] \in {NoTag, at[t]}

\* Whoever will be followed stands where the user put it.
Leads ==
  /\ \A t \in Strayed : at[t] = given[t]
  /\ source # NoOne => at[source] = given[source]

\* Between two frames all tracks but those that have strayed stand together, and what they
\* were tagged with is that place.
Together ==
  source = NoOne =>
    \E x \in 0..Furthest :
      /\ \A t \in Tracks \ Strayed : at[t] = x
      /\ \A t \in Strayed : echo[t] \in {NoTag, x}
      /\ Strayed = {} => \E u \in Tracks : given[u] = x

ScrollInv == ScrollTyped /\ Tagged /\ Leads /\ Together

LEMMA ScrollStarts ==
  ASSUME NEW week \in 0..1, Opened(week)
  PROVE  ScrollInv
<1> USE AnnualAssumption, WidestIsThere DEF Opened
<1> DEFINE x == Least(week, Furthest)
<1>1. x \in 0..Furthest
  BY DEF Least
<1>2. \A t \in Tracks : Least(week, Reach(t)) = x
  OBVIOUS
<1> HIDE DEF x
<1>3. /\ at = [t \in Tracks |-> IF t = Bar THEN 0 ELSE x]
      /\ moved = {t \in Tracks : at[t] # 0}
      /\ echo = [t \in Tracks |-> NoTag] /\ source = NoOne
      /\ given = [t \in Tracks |-> x]
  BY <1>2
<1> USE <1>1, <1>3
<1>4. ScrollTyped /\ Tagged
  BY DEF ScrollTyped, Tagged
<1>5. Strayed = moved
  BY DEF Strayed
<1>6. Leads
  BY <1>5 DEF Leads
<1>7. Together
  <2>1. \A t \in Tracks \ Strayed : at[t] = 0
    BY <1>5
  <2>2. \A t \in Strayed : echo[t] = NoTag
    BY <1>5
  <2>3. Strayed = {} => \E u \in Tracks : given[u] = 0
    <3>1. PICK u \in Tracks : u # Bar
      OBVIOUS
    <3> QED BY <1>5, <3>1
  <2> QED BY <2>1, <2>2, <2>3 DEF Together
<1> QED BY <1>4, <1>6, <1>7 DEF ScrollInv

LEMMA UserScrollsKeeps ==
  ASSUME ScrollInv, NEW t \in Tracks, NEW x \in 0..Reach(t), UserScrolls(t, x)
  PROVE  ScrollInv'
<1> USE WidestIsThere DEF ScrollInv, ScrollTyped, UserScrolls
<1>1. PICK b \in 0..Furthest :
        /\ \A u \in Tracks \ Strayed : at[u] = b
        /\ \A u \in Strayed : echo[u] \in {NoTag, b}
        /\ Strayed = {} => \E u \in Tracks : given[u] = b
  BY DEF Together
<1>2. ScrollTyped' /\ Tagged'
  BY DEF Tagged
<1>3. \A u \in Tracks \ {t} : at'[u] = at[u] /\ (u \in Strayed' <=> u \in Strayed)
  BY DEF Strayed
<1>4. at'[t] = x /\ given'[t] = x
  OBVIOUS
<1>5. \A u \in Strayed \ {t} : given'[u] = given[u]
  BY DEF Strayed, Rest
<1>6. Leads'
  BY <1>3, <1>4, <1>5 DEF Leads, Strayed
<1>7. echo[t] \in {NoTag, b}
  BY <1>1 DEF Strayed, Tagged
<1>8. x = echo[t] => x = b
  BY <1>7
<1>9. ASSUME NEW u \in Strayed' PROVE echo'[u] \in {NoTag, b}
  <2>1. u \in Tracks /\ echo' = echo
    BY <1>2 DEF Strayed
  <2>2. CASE u = t
    BY <1>7, <2>1, <2>2
  <2>3. CASE u # t
    BY <1>1, <1>3, <2>1, <2>3
  <2> QED BY <2>2, <2>3
<1>10. t \notin Strayed' => x = b
  BY <1>4, <1>8 DEF Strayed
<1>11. \A u \in Tracks \ Strayed' : at'[u] = b
  BY <1>1, <1>3, <1>4, <1>10
<1>12. Strayed' = {} => given'[t] = b
  BY <1>4, <1>10
<1>13. Together'
  BY <1>9, <1>11, <1>12 DEF Together
<1> QED BY <1>2, <1>6, <1>13

LEMMA OnScrollKeeps ==
  ASSUME ScrollInv, NEW t \in Tracks, OnScroll(t)
  PROVE  ScrollInv'
<1> USE WidestIsThere, AnnualAssumption DEF ScrollInv, ScrollTyped, OnScroll
<1>1. ScrollTyped' /\ Tagged'
  BY DEF Tagged
<1>2. Strayed' = Strayed \ {t}
  BY DEF Strayed
<1>3. Leads'
  BY <1>2 DEF Leads, Strayed
<1>4. Together'
  <2>1. CASE at[t] = echo[t]
    BY <1>2, <2>1 DEF Together, Strayed
  <2>2. CASE at[t] # echo[t]
    <3>1. source' = t /\ t # NoOne
      BY <2>2
    <3> QED BY <3>1 DEF Together
  <2> QED BY <2>1, <2>2
<1> QED BY <1>1, <1>3, <1>4

LEMMA FrameKeeps ==
  ASSUME ScrollInv, Frame
  PROVE  ScrollInv'
<1> USE WidestIsThere, AnnualAssumption DEF ScrollInv, ScrollTyped
<1> DEFINE goal == at[source]
           follow == {t \in Tracks \ {source} : at[t] # goal}
<1>1. /\ source \in Tracks /\ moved = {} /\ source' = NoOne /\ given' = given
      /\ goal \in 0..Furthest /\ goal = given[source]
  BY DEF Frame, Leads
<1>2. \A t \in Tracks : Least(goal, Reach(t)) = goal
  BY <1>1 DEF Least
<1>3. /\ echo' = [t \in Tracks |-> IF t \in follow THEN goal ELSE echo[t]]
      /\ at' = [t \in Tracks |-> IF t \in follow THEN goal ELSE at[t]]
  BY <1>2 DEF Frame
<1>4. moved' = moved \union {t \in follow : Least(goal, Reach(t)) # at[t]}
  BY DEF Frame
<1>5. moved' = follow
  BY <1>1, <1>2, <1>4
<1>6. \A t \in Tracks : at'[t] = goal
  BY <1>1, <1>3
<1>7. Strayed' = {}
  BY <1>3, <1>5, <1>6 DEF Strayed
<1>8. ScrollTyped'
  BY <1>1, <1>3, <1>5, <1>6
<1>9. Tagged'
  BY <1>1, <1>3, <1>5, <1>6 DEF Tagged
<1>10. Leads' /\ Together'
  BY <1>1, <1>6, <1>7 DEF Leads, Together
<1> QED BY <1>8, <1>9, <1>10

LEMMA ScrollKeeps ==
  ASSUME ScrollInv, ScrollNext
  PROVE  ScrollInv'
BY UserScrollsKeeps, OnScrollKeeps, FrameKeeps DEF ScrollNext

LEMMA ScrollStays ==
  ASSUME ScrollInv, UNCHANGED scrollVars
  PROVE  ScrollInv'
BY DEF scrollVars, ScrollInv, ScrollTyped, Tagged, Leads, Together, Strayed

LEMMA ScrollRests ==
  ASSUME ScrollInv
  PROVE  RestsWhereScrolled
BY DEF ScrollInv, ScrollTyped, Together, Strayed, RestsWhereScrolled, Rest

LEMMA DialogShows ==
  ASSUME DialogInv
  PROVE  OwnCellOnly
BY DEF DialogInv, AskedHere, OwnCellOnly

-----------------------------------------------------------------------------
(* The accounts *)

\* The fields of a dialog hold what was put or typed into them for its row.
FieldsOfRow ==
  /\ dialog.kind = "edit" => editName = dialog.row
  /\ dialog.kind = "role" => roleChoice = dialog.row
  /\ dialog.kind = "status" => confirmText \in {NoRow, dialog.row}

CallsAreReal == \A r \in calls : r.do = "reset" => r.row \in Accounts

UsersInv == FieldsOfRow /\ CallsAreReal /\ ChangesAreForTheirRow /\ ShownPasswordWorks

LEMMA UsersStarts ==
  ASSUME UsersInit
  PROVE  UsersInv
BY DEF UsersInit, NoDialog, UsersInv, FieldsOfRow, CallsAreReal, ChangesAreForTheirRow, ShownPasswordWorks

LEMMA UsersKeeps ==
  ASSUME UsersInv, UsersNext
  PROVE  UsersInv'
<1> USE DEF UsersInv, FieldsOfRow, CallsAreReal, ChangesAreForTheirRow, ShownPasswordWorks,
         NoDialog, Of, EntryFields, Call, Done
<1>1. ASSUME NEW row \in Accounts, OpenEdit(row) PROVE UsersInv'
  BY <1>1 DEF OpenEdit
<1>2. ASSUME NEW row \in Accounts, OpenRole(row) PROVE UsersInv'
  BY <1>2 DEF OpenRole
<1>3. ASSUME NEW row \in Accounts, OpenStatus(row) PROVE UsersInv'
  BY <1>3 DEF OpenStatus
<1>4. ASSUME NEW row \in Accounts, submitReactivate(row) PROVE UsersInv'
  BY <1>4 DEF submitReactivate
<1>5. ASSUME NEW row \in Accounts, submitReset(row) PROVE UsersInv'
  BY <1>5 DEF submitReset
<1>6. ASSUME NEW f \in Forms \union {Empty}, TypeEntry(f) PROVE UsersInv'
  BY <1>6 DEF TypeEntry
<1>7. ASSUME openCreateDialog \/ Close PROVE UsersInv'
  <2>1. dialog'.kind \in {"create", "none"} /\ UNCHANGED <<editName, roleChoice, confirmText, calls, made>>
    <3>1. CASE openCreateDialog
      BY <3>1 DEF openCreateDialog
    <3>2. CASE Close
      BY <3>2 DEF Close
    <3> QED BY <1>7, <3>1, <3>2
  <2> QED BY <2>1
<1>8. ASSUME TypeConfirm PROVE UsersInv'
  BY <1>8 DEF TypeConfirm
<1>9. ASSUME submitCreate \/ refreshList PROVE UsersInv'
  BY <1>9 DEF submitCreate, refreshList
<1>10. ASSUME submitEdit PROVE UsersInv'
  BY <1>10 DEF submitEdit
<1>11. ASSUME submitRole PROVE UsersInv'
  BY <1>11 DEF submitRole
<1>12. ASSUME submitStatus PROVE UsersInv'
  BY <1>12 DEF submitStatus
<1>13. ASSUME NEW r \in calls, Created(r) PROVE UsersInv'
  BY <1>13 DEF Created
<1>14. ASSUME NEW r \in calls, Patched(r) PROVE UsersInv'
  BY <1>14 DEF Patched
<1>15. ASSUME NEW r \in calls, WasReset(r) PROVE UsersInv'
  BY <1>15 DEF WasReset
<1>16. ASSUME NEW r \in calls, Listed(r) \/ Failed(r) PROVE UsersInv'
  BY <1>16 DEF Listed, Failed
<1> QED BY <1>1, <1>2, <1>3, <1>4, <1>5, <1>6, <1>7, <1>8, <1>9, <1>10, <1>11, <1>12, <1>13,
           <1>14, <1>15, <1>16 DEF UsersNext

LEMMA UsersStays ==
  ASSUME UsersInv, UNCHANGED usersVars
  PROVE  UsersInv'
BY DEF usersVars, UsersInv, FieldsOfRow, CallsAreReal, ChangesAreForTheirRow, ShownPasswordWorks

-----------------------------------------------------------------------------
(* The Magtuturo dialogs and the confirmation of a form *)

\* Between submissions nothing is left of one.
CleanBetween == ~Sending => field = {} /\ armed = {}

ConfirmInv == CleanBetween /\ SubmitsAsConfirmed

LEMMA FormsStarts ==
  ASSUME FormsInit
  PROVE  AnswersOwnDialog /\ ConfirmInv
BY DEF FormsInit, NoPost, ConfirmInv, AnswersOwnDialog, CleanBetween, SubmitsAsConfirmed, Sending

LEMMA SeatKeeps ==
  ASSUME AnswersOwnDialog, FormsNext
  PROVE  AnswersOwnDialog'
<1> USE DEF AnswersOwnDialog, Posting, NoPost, seatVars
<1>1. ASSUME NEW seat \in Seats, OpenSeat(seat) \/ clearSeat(seat) PROVE AnswersOwnDialog'
  BY <1>1 DEF OpenSeat, clearSeat
<1>2. ASSUME NEW t \in Names, Select(t) PROVE AnswersOwnDialog'
  BY <1>2 DEF Select
<1>3. ASSUME Eligible \/ EscapeSeat \/ CancelSeat \/ ToggleGenerate PROVE AnswersOwnDialog'
  BY <1>3 DEF Eligible, EscapeSeat, CancelSeat, ToggleGenerate
<1>4. ASSUME Assign \/ generate PROVE AnswersOwnDialog'
  BY <1>4 DEF Assign, generate
<1>5. ASSUME NEW ok \in BOOLEAN, Ran(ok) PROVE AnswersOwnDialog'
  BY <1>5 DEF Ran
<1>6. ASSUME NEW b \in Buttons, openConfirm(b) \/ cancelConfirm(b) \/ confirm(b)
      PROVE  AnswersOwnDialog'
  BY <1>6 DEF openConfirm, cancelConfirm, confirm
<1>7. ASSUME Fill \/ FormSettled PROVE AnswersOwnDialog'
  BY <1>7 DEF Fill, FormSettled
<1> QED BY <1>1, <1>2, <1>3, <1>4, <1>5, <1>6, <1>7 DEF FormsNext

LEMMA ConfirmStays ==
  ASSUME ConfirmInv, UNCHANGED <<armed, field, submitted>>
  PROVE  ConfirmInv'
BY DEF ConfirmInv, CleanBetween, SubmitsAsConfirmed, Sending

LEMMA ConfirmKeeps ==
  ASSUME ConfirmInv, FormsNext
  PROVE  ConfirmInv'
<1>1. CASE UNCHANGED <<armed, field, submitted>>
  BY <1>1, ConfirmStays
<1>2. ASSUME NEW b \in Buttons, confirm(b), valid PROVE ConfirmInv'
  <2>1. /\ field = {} /\ armed = {} /\ armed' = {b} /\ field' = {b} \intersect MarkedButtons
        /\ submitted' = [by |-> b, with |-> {b} \intersect MarkedButtons]
    BY <1>2 DEF ConfirmInv, CleanBetween, confirm, Busy
  <2>2. Sending'
    BY <2>1, FormScreensAssumption DEF Sending, NoSubmit
  <2> QED BY <2>1, <2>2 DEF ConfirmInv, CleanBetween, SubmitsAsConfirmed
<1>3. ASSUME FormSettled PROVE ConfirmInv'
  BY <1>3 DEF FormSettled, ConfirmInv, CleanBetween, SubmitsAsConfirmed, Sending
<1>4. ASSUME ~(\E b \in Buttons : confirm(b) /\ valid), ~FormSettled
      PROVE  UNCHANGED <<armed, field, submitted>>
  BY <1>4 DEF FormsNext, OpenSeat, clearSeat, Select, Eligible, EscapeSeat, CancelSeat, Assign, ToggleGenerate,
       generate, Ran, openConfirm, cancelConfirm, confirm, Fill, formVars
<1> QED BY <1>1, <1>2, <1>3, <1>4

LEMMA FormsStays ==
  ASSUME AnswersOwnDialog, ConfirmInv, UNCHANGED formScreenVars
  PROVE  AnswersOwnDialog' /\ ConfirmInv'
BY ConfirmStays DEF formScreenVars, seatVars, formVars, AnswersOwnDialog

-----------------------------------------------------------------------------
(* The clients that send one request at a time *)

GeneratorTyped ==
  generator \in [open : BOOLEAN, week : IsoWeeks, manual : BOOLEAN, blocked : IsoWeeks \union {0}]

\* The week asked about stays selected until the answer.
GeneratorInv ==
  /\ GeneratorTyped /\ NoticeIsForSelection
  /\ generating # Resting => generating.week = generator.week

RecoveryTyped ==
  /\ recovery \in [step : {"email", "verify", "reset", "done"}, email : Emails \union {No},
                   sent : Emails \union {No}, code : BOOLEAN, ticket : Emails \union {No}]
  /\ recovering \in [do : {No, "send", "resend", "verify", "reset"}, email : Emails \union {No}]

\* A request of the recovery is for the e-mail of the step it was made in.
RecoveryInv ==
  /\ RecoveryTyped /\ TicketIsForEmail
  /\ recovering.do = "send" => recovery.step = "email"
  /\ recovering.do \in {"resend", "verify"} => recovery.step = "verify"
  /\ recovering.do = "reset" => recovery.step = "reset"
  /\ recovering.do # No => recovering.email = recovery.email
  /\ recovering.do = No => recovering.email = No

BackfillTyped ==
  /\ backfill \in [rows : Nat, confirming : BOOLEAN, correcting : Records \union {No}, down : BOOLEAN]
  /\ recording \in [do : {No, "record", "correct"}, row : Records \union {No}]

BackfillInv ==
  /\ BackfillTyped /\ CorrectionClosesItsOwn
  /\ recording.do = No => recording.row = No

RequestsInv == GeneratorInv /\ RecoveryInv /\ BackfillInv

LEMMA RequestsStarts ==
  ASSUME RequestsInit
  PROVE  RequestsInv
<1>1. GeneratorInv
  BY RequestScreensAssumption DEF RequestsInit, GeneratorInv, GeneratorTyped, NoticeIsForSelection
<1>2. RecoveryInv
  BY DEF RequestsInit, RecoveryInv, RecoveryTyped, TicketIsForEmail, Quiet, No
<1>3. BackfillInv
  BY DEF RequestsInit, BackfillInv, BackfillTyped, CorrectionClosesItsOwn, Unasked, No
<1> QED BY <1>1, <1>2, <1>3 DEF RequestsInv

LEMMA GeneratorStays ==
  ASSUME GeneratorInv, UNCHANGED generatorVars
  PROVE  GeneratorInv'
BY DEF GeneratorInv, generatorVars, GeneratorTyped, NoticeIsForSelection

LEMMA RecoveryStays ==
  ASSUME RecoveryInv, UNCHANGED recoveryVars
  PROVE  RecoveryInv'
BY DEF RecoveryInv, recoveryVars, RecoveryTyped, TicketIsForEmail

LEMMA BackfillStays ==
  ASSUME BackfillInv, UNCHANGED backfillVars
  PROVE  BackfillInv'
BY DEF BackfillInv, backfillVars, BackfillTyped, CorrectionClosesItsOwn

GeneratorAct ==
  \/ OpenGenerator \/ CloseGenerator \/ Generate
  \/ \E w \in IsoWeeks, manual \in BOOLEAN : ChooseWeek(w, manual)
  \/ \E how \in {"ok", "no", "blocked"} : GenerateAnswer(how)

RecoveryAct ==
  \/ \E e \in Emails : TypeEmail(e)
  \/ SendCode \/ TypeCode \/ submitCode \/ DifferentEmail \/ submitPassword
  \/ \E ok \in BOOLEAN : RecoveryAnswer(ok)

BackfillAct ==
  \/ addRow \/ RemoveRow \/ record \/ CancelRecord \/ CloseCorrection \/ applyCorrection
  \/ \E r \in Records : OpenCorrection(r)
  \/ \E how \in {"ok", "no", "lost"} : BackfillAnswer(how)

LEMMA GeneratorKeeps ==
  ASSUME GeneratorInv, GeneratorAct
  PROVE  GeneratorInv' /\ UNCHANGED <<recoveryVars, backfillVars>>
<1>0. UNCHANGED <<recoveryVars, backfillVars>>
  BY DEF GeneratorAct, OpenGenerator, CloseGenerator, Generate, ChooseWeek, GenerateAnswer
<1> USE DEF GeneratorInv, GeneratorTyped, NoticeIsForSelection
<1>1. ASSUME OpenGenerator PROVE GeneratorInv'
  BY <1>1 DEF OpenGenerator
<1>2. ASSUME CloseGenerator PROVE GeneratorInv'
  BY <1>2 DEF CloseGenerator
<1>3. ASSUME Generate PROVE GeneratorInv'
  BY <1>3 DEF Generate
<1>4. ASSUME NEW w \in IsoWeeks, NEW manual \in BOOLEAN, ChooseWeek(w, manual) PROVE GeneratorInv'
  BY <1>4 DEF ChooseWeek
<1>5. ASSUME NEW how \in {"ok", "no", "blocked"}, GenerateAnswer(how) PROVE GeneratorInv'
  <2>1. generating.week = generator.week /\ generating' = Resting
    BY <1>5 DEF GenerateAnswer
  <2>2. CASE how = "blocked"
    BY <1>5, <2>1, <2>2 DEF GenerateAnswer
  <2>3. CASE how # "blocked"
    BY <1>5, <2>1, <2>3 DEF GenerateAnswer
  <2> QED BY <2>2, <2>3
<1> QED BY <1>0, <1>1, <1>2, <1>3, <1>4, <1>5 DEF GeneratorAct

LEMMA RecoveryKeeps ==
  ASSUME RecoveryInv, RecoveryAct
  PROVE  RecoveryInv' /\ UNCHANGED <<generatorVars, backfillVars>>
<1>0. UNCHANGED <<generatorVars, backfillVars>>
  BY DEF RecoveryAct, TypeEmail, SendCode, TypeCode, submitCode, DifferentEmail,
         submitPassword, RecoveryAnswer, Request
<1> USE DEF RecoveryInv, RecoveryTyped, TicketIsForEmail, Quiet, No, Request
<1>1. ASSUME NEW e \in Emails, TypeEmail(e) PROVE RecoveryInv'
  BY <1>1 DEF TypeEmail
<1>2. ASSUME SendCode PROVE RecoveryInv'
  BY <1>2 DEF SendCode
<1>3. ASSUME TypeCode PROVE RecoveryInv'
  BY <1>3 DEF TypeCode
<1>4. ASSUME submitCode PROVE RecoveryInv'
  BY <1>4 DEF submitCode
<1>5. ASSUME DifferentEmail PROVE RecoveryInv'
  BY <1>5 DEF DifferentEmail
<1>6. ASSUME submitPassword PROVE RecoveryInv'
  BY <1>6 DEF submitPassword
<1>7. ASSUME NEW ok \in BOOLEAN, RecoveryAnswer(ok) PROVE RecoveryInv'
  <2>1. recovering' = Quiet /\ recovering # Quiet
    BY <1>7 DEF RecoveryAnswer
  <2>2. CASE recovering.do = "send"
    <3>1. recovery' = [recovery EXCEPT !.step = "verify", !.sent = recovering.email, !.code = FALSE]
      BY <1>7, <2>2 DEF RecoveryAnswer
    <3> QED BY <2>1, <2>2, <3>1
  <2>3. CASE recovering.do = "resend"
    <3>1. recovery' = [recovery EXCEPT !.sent = recovering.email, !.code = FALSE]
      BY <1>7, <2>3 DEF RecoveryAnswer
    <3> QED BY <2>1, <2>3, <3>1
  <2>4. CASE recovering.do = "verify" /\ ok
    <3>1. recovery' = [recovery EXCEPT !.step = "reset", !.ticket = recovering.email]
      BY <1>7, <2>4 DEF RecoveryAnswer
    <3> QED BY <2>1, <2>4, <3>1
  <2>5. CASE recovering.do = "verify" /\ ~ok
    <3>1. recovery' = [recovery EXCEPT !.code = FALSE]
      BY <1>7, <2>5 DEF RecoveryAnswer
    <3> QED BY <2>1, <2>5, <3>1
  <2>6. CASE recovering.do = "reset" /\ ok
    <3>1. recovery' = [recovery EXCEPT !.step = "done", !.ticket = No, !.code = FALSE]
      BY <1>7, <2>6 DEF RecoveryAnswer
    <3> QED BY <2>1, <2>6, <3>1
  <2>7. CASE recovering.do = "reset" /\ ~ok
    <3>1. recovery' = recovery
      BY <1>7, <2>7 DEF RecoveryAnswer
    <3> QED BY <2>1, <2>7, <3>1
  <2>8. recovering.do # No
    <3>1. recovering.do # No \/ recovering.email # No
      BY <2>1
    <3>2. recovering.do = No => recovering.email = No
      OBVIOUS
    <3> QED BY <3>1, <3>2
  <2> QED BY <2>2, <2>3, <2>4, <2>5, <2>6, <2>7, <2>8
<1> QED BY <1>0, <1>1, <1>2, <1>3, <1>4, <1>5, <1>6, <1>7 DEF RecoveryAct

LEMMA BackfillKeeps ==
  ASSUME BackfillInv, BackfillAct
  PROVE  BackfillInv' /\ UNCHANGED <<generatorVars, recoveryVars>>
<1>0. UNCHANGED <<generatorVars, recoveryVars>>
  BY DEF BackfillAct, addRow, RemoveRow, record, CancelRecord, CloseCorrection, applyCorrection, OpenCorrection,
         BackfillAnswer, Backfill
<1> USE DEF BackfillInv, BackfillTyped, CorrectionClosesItsOwn, Backfill, Recording, Unasked, No
<1>1. ASSUME addRow PROVE BackfillInv'
  BY <1>1 DEF addRow
<1>2. ASSUME RemoveRow PROVE BackfillInv'
  BY <1>2 DEF RemoveRow
<1>3. ASSUME record PROVE BackfillInv'
  <2>1. CASE ~backfill.confirming
    BY <1>3, <2>1 DEF record
  <2>2. CASE backfill.confirming
    BY <1>3, <2>2 DEF record
  <2> QED BY <2>1, <2>2
<1>4. ASSUME CancelRecord \/ CloseCorrection PROVE BackfillInv'
  BY <1>4 DEF CancelRecord, CloseCorrection
<1>5. ASSUME applyCorrection PROVE BackfillInv'
  BY <1>5 DEF applyCorrection
<1>6. ASSUME NEW r \in Records, OpenCorrection(r) PROVE BackfillInv'
  BY <1>6 DEF OpenCorrection
<1>7. ASSUME NEW how \in {"ok", "no", "lost"}, BackfillAnswer(how) PROVE BackfillInv'
  <2>1. recording' = Unasked /\ recording.do \in {"record", "correct"}
    <3>1. recording' = Unasked /\ recording # Unasked
      BY <1>7 DEF BackfillAnswer
    <3>2. recording.do = No \/ recording.do \in {"record", "correct"}
      OBVIOUS
    <3>3. recording.do = No => recording = Unasked
      OBVIOUS
    <3> QED BY <3>1, <3>2, <3>3
  <2>2. CASE how = "lost"
    <3>1. backfill' = [backfill EXCEPT !.down = TRUE]
      BY <1>7, <2>2 DEF BackfillAnswer
    <3> QED BY <2>1, <3>1
  <2>3. CASE how = "ok" /\ recording.do = "record"
    <3>1. backfill' = [backfill EXCEPT !.rows = 0, !.confirming = FALSE]
      BY <1>7, <2>3 DEF BackfillAnswer
    <3> QED BY <2>1, <3>1
  <2>4. CASE how = "no" /\ recording.do = "record"
    <3>1. backfill' = [backfill EXCEPT !.confirming = FALSE]
      BY <1>7, <2>4 DEF BackfillAnswer
    <3> QED BY <2>1, <3>1
  <2>5. CASE how = "ok" /\ recording.do = "correct"
    <3>1. backfill' = [backfill EXCEPT !.correcting = No]
      BY <1>7, <2>5 DEF BackfillAnswer
    <3> QED BY <2>1, <3>1
  <2>6. CASE how = "no" /\ recording.do = "correct"
    <3>1. backfill' = backfill
      BY <1>7, <2>6 DEF BackfillAnswer
    <3> QED BY <2>1, <3>1
  <2> QED BY <2>1, <2>2, <2>3, <2>4, <2>5, <2>6
<1> QED BY <1>0, <1>1, <1>2, <1>3, <1>4, <1>5, <1>6, <1>7 DEF BackfillAct

LEMMA RequestsKeeps ==
  ASSUME RequestsInv, RequestsNext
  PROVE  RequestsInv'
<1>1. GeneratorAct \/ RecoveryAct \/ BackfillAct
  BY DEF RequestsNext, GeneratorAct, RecoveryAct, BackfillAct
<1> QED BY <1>1, GeneratorKeeps, RecoveryKeeps, BackfillKeeps, GeneratorStays, RecoveryStays, BackfillStays
        DEF RequestsInv

LEMMA RequestsStay ==
  ASSUME RequestsInv, UNCHANGED requestVars
  PROVE  RequestsInv'
<1>1. UNCHANGED generatorVars /\ UNCHANGED recoveryVars /\ UNCHANGED backfillVars
  BY DEF requestVars, generatorVars, recoveryVars, backfillVars
<1> QED BY <1>1, GeneratorStays, RecoveryStays, BackfillStays DEF RequestsInv

-----------------------------------------------------------------------------
(* The availability page *)

Filters == [q : Texts \union {Blank}, s : Selects \union {Blank}]
Places == [week : Weeks, q : Texts \union {Blank}, s : Selects \union {Blank}]

\* A push that is due writes what the user last asked for.
PushIsDue ==
  /\ loose = <<>>
  /\ \/ timer = <<>>
     \/ \E w \in Weeks : timer = <<[f |-> want, week |-> w]>> /\ ~Leaving

\* Nothing on its way, the form agrees with its page.
HereAgrees == going = Nowhere => ~inFlight /\ applied = Seed(shown)

\* On its way by a push of its own, the form will recognize the page that comes.
PushAgrees == going # Nowhere /\ inFlight => Seed(going) = applied /\ Seed(shown) # applied

\* On its way by a link, the page that comes is taken over, or agrees already.
LinkAgrees == Leaving => want = Seed(going) /\ (applied = want => local = want)

FormAgrees ==
  /\ ~Leaving => local = want
  /\ ~Leaving /\ timer = <<>> => applied = want

FilterTyped ==
  /\ shown \in Places /\ going \in Places \union {Nowhere}
  /\ local \in Filters /\ applied \in Filters /\ want \in Filters /\ inFlight \in BOOLEAN

FilterInv ==
  ~mixed => FilterTyped /\ PushIsDue /\ HereAgrees /\ PushAgrees /\ LinkAgrees /\ FormAgrees

LEMMA SeedAt ==
  /\ \A w \in Weeks, f \in Filters : At(w, f) \in Places /\ Seed(At(w, f)) = f
  /\ \A p \in Places : Seed(p) \in Filters
  /\ Nowhere \notin Places
BY AvailabilityScreenAssumption DEF Filters, Places, At, Seed, Nowhere

LEMMA FilterStarts ==
  ASSUME AvailScreenInit
  PROVE  FilterInv
<1> DEFINE none == [q |-> Blank, s |-> Blank]
<1>1. First \in Weeks
  BY AvailabilityScreenAssumption DEF First
<1>2. none \in Filters
  BY DEF Filters
<1> HIDE DEF none
<1>3. /\ shown = At(First, none) /\ shown \in Places /\ Seed(shown) = none
      /\ local = none /\ applied = none /\ want = none
      /\ going = Nowhere /\ inFlight = FALSE /\ timer = <<>> /\ loose = <<>>
  BY <1>1, <1>2, SeedAt DEF AvailScreenInit, none
<1> QED BY <1>2, <1>3 DEF FilterInv, FilterTyped, PushIsDue, HereAgrees, PushAgrees, LinkAgrees,
           FormAgrees, Leaving

\* What a push of what is wanted leaves behind.
LEMMA PushKeeps ==
  ASSUME NEW f \in Filters, NEW w \in Weeks, shown \in Places,
         Push(f, f, w, <<>>), want' = f
  PROVE  FilterInv'
<1>1. /\ going' = At(w, f) /\ going' \in Places /\ Seed(going') = f /\ going' # Nowhere
      /\ timer' = <<>> /\ loose' = <<>> /\ shown' = shown
  BY SeedAt DEF Push
<1>2. /\ local' = f /\ applied' = f /\ inFlight' = (Seed(shown) # f)
  BY DEF Push, Effect
<1>3. FilterTyped' /\ PushIsDue'
  BY <1>1, <1>2 DEF FilterTyped, PushIsDue
<1>4. HereAgrees' /\ FormAgrees'
  BY <1>1, <1>2 DEF HereAgrees, FormAgrees
<1>5. PushAgrees' /\ LinkAgrees'
  BY <1>1, <1>2 DEF PushAgrees, LinkAgrees, Leaving
<1> QED BY <1>3, <1>4, <1>5 DEF FilterInv

LEMMA FilterStays ==
  ASSUME FilterInv, UNCHANGED filterVars
  PROVE  FilterInv'
<1> USE DEF filterVars
<1>1. UNCHANGED <<shown, going, local, applied, inFlight, timer, loose, mixed, want>>
  OBVIOUS
<1>2. Leaving' = Leaving
  BY DEF Leaving
<1> QED BY <1>1, <1>2 DEF FilterInv, FilterTyped, PushIsDue, HereAgrees, PushAgrees, LinkAgrees,
           FormAgrees, Seed

LEMMA OnTextKeeps ==
  ASSUME FilterInv, NEW x \in Texts, OnText(x)
  PROVE  FilterInv'
<1> SUFFICES ASSUME ~mixed'
             PROVE  (FilterTyped /\ PushIsDue /\ HereAgrees /\ PushAgrees /\ LinkAgrees /\ FormAgrees)'
  BY DEF FilterInv
<1> DEFINE f == [local EXCEPT !.q = x]
<1>1. ~mixed /\ ~Leaving
  BY DEF OnText
<1>2. FilterTyped /\ PushIsDue /\ HereAgrees /\ PushAgrees /\ LinkAgrees /\ FormAgrees
  BY <1>1 DEF FilterInv
<1>3. local = want /\ f \in Filters /\ want' = f
  BY <1>1, <1>2 DEF FormAgrees, OnText, FilterTyped, Filters
<1>4. shown.week \in Weeks
  BY <1>2 DEF FilterTyped, Places
<1>5. /\ timer' = <<[f |-> f, week |-> shown.week]>> /\ timer' # <<>>
      /\ UNCHANGED <<shown, going, loose>>
  BY DEF OnText
<1>6. Effect(shown, f, applied, inFlight, timer')
  BY DEF OnText
<1> HIDE DEF f
<1>7. /\ local' = f /\ applied' = applied
      /\ inFlight' = (IF Seed(shown) = applied THEN FALSE ELSE inFlight)
  BY <1>5, <1>6 DEF Effect
<1>8. inFlight' = inFlight
  BY <1>1, <1>2, <1>7 DEF HereAgrees, PushAgrees, Leaving, FilterTyped
<1>9. ~Leaving'
  BY <1>1, <1>5, <1>8 DEF Leaving
<1>10. FilterTyped'
  BY <1>2, <1>3, <1>5, <1>7, <1>8 DEF FilterTyped
<1>11. PushIsDue'
  BY <1>2, <1>3, <1>4, <1>5, <1>9 DEF PushIsDue
<1>12. HereAgrees' /\ PushAgrees'
  BY <1>2, <1>5, <1>7, <1>8 DEF HereAgrees, PushAgrees, Seed
<1>13. LinkAgrees' /\ FormAgrees'
  BY <1>3, <1>5, <1>7, <1>9 DEF LinkAgrees, FormAgrees
<1> QED BY <1>10, <1>11, <1>12, <1>13

LEMMA PushesKeep ==
  ASSUME FilterInv, Submit \/ Timeout \/ \E sel \in Selects : OnSelect(sel)
  PROVE  FilterInv'
<1> SUFFICES ASSUME ~mixed' PROVE FilterInv'
  BY DEF FilterInv
<1>1. ~mixed
  BY DEF Submit, Timeout, OnSelect
<1>2. FilterTyped /\ PushIsDue /\ FormAgrees
  BY <1>1 DEF FilterInv
<1>3. shown.week \in Weeks /\ shown \in Places /\ local \in Filters /\ loose = <<>>
  BY <1>2 DEF FilterTyped, Places, PushIsDue
<1>4. CASE Submit
  <2>1. ~Leaving
    BY <1>4 DEF Submit
  <2>2. Push(local, local, shown.week, <<>>) /\ want' = local
    BY <1>2, <1>3, <1>4, <2>1 DEF FormAgrees, Submit
  <2> QED BY <1>3, <2>2, PushKeeps
<1>5. CASE Timeout
  <2>1. timer # <<>>
    BY <1>3, <1>5 DEF Timeout
  <2>2. PICK w \in Weeks : timer = <<[f |-> want, week |-> w]>> /\ ~Leaving
    BY <1>2, <2>1 DEF PushIsDue
  <2>3. loose \o timer = timer /\ Head(timer) = [f |-> want, week |-> w]
    BY <1>3, <2>2
  <2>4. Push(local, want, w, <<>>) /\ want' = want
    BY <1>3, <1>5, <2>3 DEF Timeout
  <2>5. local = want
    BY <1>2, <2>2 DEF FormAgrees
  <2> QED BY <1>3, <2>4, <2>5, PushKeeps
<1>6. ASSUME NEW sel \in Selects, OnSelect(sel) PROVE FilterInv'
  <2> DEFINE f == [local EXCEPT !.s = sel]
  <2>1. going = Nowhere /\ timer = <<>>
    BY <1>6 DEF OnSelect, AtRest
  <2>2. local = want /\ f \in Filters
    BY <1>2, <2>1 DEF FormAgrees, Leaving, FilterTyped, Filters
  <2>3. loose \o timer = <<>>
    BY <1>3, <2>1
  <2>4. Push(f, f, shown.week, <<>>) /\ want' = f
    BY <1>6, <2>2, <2>3 DEF OnSelect
  <2> HIDE DEF f
  <2> QED BY <1>3, <2>2, <2>4, PushKeeps
<1> QED BY <1>4, <1>5, <1>6

LEMMA FollowKeeps ==
  ASSUME FilterInv, NEW w \in Weeks, NEW reset \in BOOLEAN, Follow(w, reset)
  PROVE  FilterInv'
<1> SUFFICES ASSUME ~mixed' PROVE FilterInv'
  BY DEF FilterInv
<1> DEFINE f == IF reset THEN [q |-> Blank, s |-> Blank] ELSE Seed(shown)
<1>1. ~mixed /\ going = Nowhere /\ timer = <<>>
  BY DEF Follow, AtRest
<1>2. FilterTyped /\ PushIsDue /\ HereAgrees /\ FormAgrees
  BY <1>1 DEF FilterInv
<1>3. f \in Filters
  BY <1>2, SeedAt DEF FilterTyped, Filters
<1>4. /\ local = want /\ applied = want /\ want = Seed(shown) /\ ~inFlight /\ loose = <<>>
  BY <1>1, <1>2 DEF FormAgrees, Leaving, HereAgrees, PushIsDue
<1>5. going' = At(w, f) /\ want' = f
  BY <1>4 DEF Follow
<1>6. UNCHANGED <<shown, local, applied, inFlight, timer, loose>>
  BY DEF Follow
<1> HIDE DEF f
<1>7. going' \in Places /\ Seed(going') = f /\ going' # Nowhere
  BY <1>3, <1>5, SeedAt
<1>8. Leaving'
  BY <1>4, <1>6, <1>7 DEF Leaving
<1>9. FilterTyped' /\ PushIsDue'
  BY <1>1, <1>2, <1>3, <1>4, <1>5, <1>6, <1>7 DEF FilterTyped, PushIsDue
<1>10. HereAgrees' /\ PushAgrees' /\ FormAgrees'
  BY <1>4, <1>6, <1>7, <1>8 DEF HereAgrees, PushAgrees, FormAgrees
<1>11. LinkAgrees'
  BY <1>4, <1>5, <1>6, <1>7 DEF LinkAgrees
<1> QED BY <1>9, <1>10, <1>11 DEF FilterInv

LEMMA ArriveKeeps ==
  ASSUME FilterInv, Arrive
  PROVE  FilterInv'
<1> SUFFICES ASSUME ~mixed' PROVE FilterInv'
  BY DEF FilterInv
<1>1. ~mixed /\ going # Nowhere
  BY DEF Arrive
<1>2. FilterTyped /\ PushIsDue /\ PushAgrees /\ LinkAgrees /\ FormAgrees
  BY <1>1 DEF FilterInv
<1>3. /\ shown' = going /\ going' = Nowhere /\ UNCHANGED <<timer, loose, want>>
      /\ Effect(going, local, applied, inFlight, timer)
  BY DEF Arrive
<1>4. going \in Places /\ ~Leaving'
  BY <1>1, <1>2, <1>3 DEF FilterTyped, Leaving
<1>5. /\ local' = want /\ inFlight' = FALSE /\ applied' = Seed(going)
      /\ timer = <<>> => applied' = want
  <2>1. CASE inFlight
    <3>1. Seed(going) = applied /\ ~Leaving
      BY <1>1, <1>2, <2>1 DEF PushAgrees, Leaving
    <3>2. local' = local /\ applied' = applied /\ inFlight' = FALSE
      BY <1>3, <3>1 DEF Effect
    <3> QED BY <1>2, <3>1, <3>2 DEF FormAgrees
  <2>2. CASE ~inFlight
    <3>1. Leaving /\ timer = <<>> /\ want = Seed(going)
      BY <1>1, <1>2, <2>2 DEF Leaving, LinkAgrees, PushIsDue
    <3>2. CASE Seed(going) = applied
      BY <1>2, <1>3, <3>1, <3>2 DEF Effect, LinkAgrees
    <3>3. CASE Seed(going) # applied
      BY <1>2, <1>3, <2>2, <3>1, <3>3 DEF Effect, FilterTyped
    <3> QED BY <3>2, <3>3
  <2> QED BY <1>2, <2>1, <2>2 DEF FilterTyped
<1>6. FilterTyped'
  BY <1>2, <1>3, <1>4, <1>5, SeedAt DEF FilterTyped
<1>7. PushIsDue'
  BY <1>2, <1>3, <1>4 DEF PushIsDue
<1>8. HereAgrees' /\ PushAgrees' /\ LinkAgrees' /\ FormAgrees'
  BY <1>3, <1>4, <1>5 DEF HereAgrees, PushAgrees, LinkAgrees, FormAgrees, Seed
<1> QED BY <1>6, <1>7, <1>8 DEF FilterInv

LEMMA FilterShows ==
  ASSUME FilterInv
  PROVE  FilterSettles
BY DEF FilterInv, FilterSettles, Settled, AtRest, Leaving, FormAgrees, HereAgrees

\* One request of the editor, and a save carries the drafts there are.
DraftsInv ==
  /\ \A r, q \in saving : r = q
  /\ \A r \in saving : r.do = "save" => r.who = dirty

LEMMA DraftsStay ==
  ASSUME DraftsInv, UNCHANGED editorVars
  PROVE  DraftsInv'
BY DEF DraftsInv, editorVars

EditorAct ==
  \/ \E t \in Encoded : Edit(t)
  \/ ResetUnsaved \/ SaveAll \/ FillBlanks
  \/ \E r \in saving, ok \in BOOLEAN : Saved(r, ok)

LEMMA EditorKeeps ==
  ASSUME DraftsInv, EditorAct
  PROVE  /\ DraftsInv' /\ UNCHANGED filterVars
         /\ \A r \in saving \ saving' : dirty \ dirty' \subseteq r.who
<1>1. UNCHANGED filterVars
  BY DEF EditorAct, Edit, ResetUnsaved, SaveAll, FillBlanks, Saved
<1> USE DEF DraftsInv
<1>2. ASSUME \/ \E t \in Encoded : Edit(t)
             \/ ResetUnsaved
      PROVE  saving = {} /\ saving' = {}
  BY <1>2 DEF Edit, ResetUnsaved
<1>3. ASSUME SaveAll \/ FillBlanks
      PROVE  DraftsInv' /\ saving = {}
  BY <1>3 DEF SaveAll, FillBlanks
<1>4. ASSUME NEW r \in saving, NEW ok \in BOOLEAN, Saved(r, ok)
      PROVE  /\ saving' = {}
             /\ \A q \in saving : dirty \ dirty' \subseteq q.who
  <2>1. saving = {r} /\ saving' = {}
    BY <1>4 DEF Saved
  <2>2. dirty' = IF ok /\ r.do = "save" THEN {} ELSE dirty
    BY <1>4 DEF Saved
  <2> QED BY <2>1, <2>2
<1> QED BY <1>1, <1>2, <1>3, <1>4 DEF EditorAct

LEMMA AvailabilityKeeps ==
  ASSUME FilterInv, DraftsInv, AvailScreenNext
  PROVE  /\ FilterInv' /\ DraftsInv'
         /\ \A r \in saving \ saving' : dirty \ dirty' \subseteq r.who
<1>1. CASE EditorAct
  BY <1>1, EditorKeeps, FilterStays
<1>2. ASSUME \/ \E x \in Texts : OnText(x)
             \/ \E sel \in Selects : OnSelect(sel)
             \/ Submit \/ Timeout \/ Arrive
             \/ \E w \in Weeks, reset \in BOOLEAN : Follow(w, reset)
      PROVE  FilterInv' /\ UNCHANGED editorVars
  <2>1. FilterInv'
    BY <1>2, OnTextKeeps, PushesKeep, FollowKeeps, ArriveKeeps
  <2>2. UNCHANGED editorVars
    BY <1>2 DEF OnText, OnSelect, Submit, Timeout, Arrive, Follow
  <2> QED BY <2>1, <2>2
<1>3. ASSUME UNCHANGED editorVars
      PROVE  DraftsInv' /\ saving' = saving
  BY <1>3, DraftsStay DEF editorVars
<1> QED BY <1>1, <1>2, <1>3 DEF AvailScreenNext, EditorAct

-----------------------------------------------------------------------------
(* The pages together *)

PagesInv ==
  /\ ScheduleInv /\ DialogInv /\ ScrollInv /\ FilterInv /\ DraftsInv /\ UsersInv
  /\ AnswersOwnDialog /\ ConfirmInv /\ RequestsInv

LEMMA PagesStart ==
  ASSUME Init
  PROVE  PagesInv
<1>1. ScheduleInit \/ ScheduleIdle
  BY DEF Init
<1>2. PICK week \in 0..1 : Opened(week)
  BY DEF Init
<1>3. RequestsInit
  BY DEF Init, RequestsIdle
<1>4. DialogFresh /\ AvailScreenInit /\ UsersInit /\ FormsInit
  BY DEF Init
<1>5. DraftsInv
  BY <1>4 DEF AvailScreenInit, DraftsInv
<1> QED BY <1>1, <1>2, <1>3, <1>4, <1>5, ScheduleStarts, DialogStarts, ScrollStarts, FilterStarts, UsersStarts,
           FormsStarts, RequestsStarts DEF PagesInv

\* A step of one page, or of the papers, leaves the other pages as they are.
LEMMA OnePageAtATime ==
  ASSUME [Next]_interfaceVars
  PROVE  /\ ScheduleNext \/ UNCHANGED scheduleVars
         /\ DialogNext \/ UNCHANGED dialogVars
         /\ ScrollNext \/ UNCHANGED scrollVars
         /\ AvailScreenNext \/ UNCHANGED availScreenVars
         /\ UsersNext \/ UNCHANGED usersVars
         /\ FormsNext \/ UNCHANGED formScreenVars
         /\ RequestsNext \/ UNCHANGED requestVars
<1> DEFINE Here ==
             /\ ScheduleNext \/ UNCHANGED scheduleVars
             /\ DialogNext \/ UNCHANGED dialogVars
             /\ ScrollNext \/ UNCHANGED scrollVars
             /\ AvailScreenNext \/ UNCHANGED availScreenVars
             /\ UsersNext \/ UNCHANGED usersVars
             /\ FormsNext \/ UNCHANGED formScreenVars
             /\ RequestsNext \/ UNCHANGED requestVars
<1>1. CASE UNCHANGED pageVars
  <2>1. /\ UNCHANGED scheduleVars /\ UNCHANGED annualVars /\ UNCHANGED availScreenVars
        /\ UNCHANGED usersVars /\ UNCHANGED formScreenVars /\ UNCHANGED requestVars
    BY <1>1 DEF pageVars
  <2>2. UNCHANGED dialogVars /\ UNCHANGED scrollVars
    BY <2>1 DEF annualVars
  <2> QED BY <2>1, <2>2
<1>2. CASE ~UNCHANGED pageVars /\ Next
  <2>1. UNCHANGED annualVars => UNCHANGED dialogVars /\ UNCHANGED scrollVars
    BY DEF annualVars
  <2> QED BY <1>2, <2>1 DEF Next, Still, Office
<1>3. UNCHANGED interfaceVars => UNCHANGED pageVars
  BY DEF interfaceVars
<1> QED BY <1>1, <1>2, <1>3

LEMMA PagesKeep ==
  ASSUME PagesInv, [Next]_interfaceVars
  PROVE  PagesInv'
<1>1. ScheduleInv'
  BY OnePageAtATime, ScheduleKeeps, ScheduleStays DEF PagesInv
<1>2. DialogInv'
  BY OnePageAtATime, DialogKeeps, DialogStays DEF PagesInv
<1>3. ScrollInv'
  BY OnePageAtATime, ScrollKeeps, ScrollStays DEF PagesInv
<1>4. FilterInv' /\ DraftsInv'
  <2>1. UNCHANGED availScreenVars => UNCHANGED filterVars /\ UNCHANGED editorVars
    BY DEF availScreenVars
  <2> QED BY <2>1, OnePageAtATime, AvailabilityKeeps, FilterStays, DraftsStay DEF PagesInv
<1>5. UsersInv'
  BY OnePageAtATime, UsersKeeps, UsersStays DEF PagesInv
<1>6. AnswersOwnDialog' /\ ConfirmInv'
  BY OnePageAtATime, SeatKeeps, ConfirmKeeps, FormsStays DEF PagesInv
<1>7. RequestsInv'
  BY OnePageAtATime, RequestsKeeps, RequestsStay DEF PagesInv
<1> QED BY <1>1, <1>2, <1>3, <1>4, <1>5, <1>6, <1>7 DEF PagesInv

LEMMA PagesAlways == Spec => []PagesInv
<1> QED BY PagesStart, PagesKeep, PTL DEF Spec

\* Whatever answers come when, and whatever is opened, closed and typed meanwhile: what a
\* page sends was chosen where it is sent from.
THEOREM EveryRequestIsAsChosen == Spec => []SendsWhatWasChosen
<1>1. PagesInv => SendsWhatWasChosen
  BY ScheduleShows, DialogShows DEF PagesInv, SendsWhatWasChosen, UsersInv, ConfirmInv, RequestsInv,
         RecoveryInv, BackfillInv
<1> QED BY <1>1, PagesAlways, PTL

\* What a page shows is so at all times, for any number of weeks, tables, rows and texts.
THEOREM PagesShowWhatIs == Spec => []ShowsWhatIs
<1>1. PagesInv => ShowsWhatIs
  BY ScheduleShows, ScrollRests, FilterShows DEF PagesInv, ShowsWhatIs, UsersInv, RequestsInv, GeneratorInv
<1> QED BY <1>1, PagesAlways, PTL

\* An answer to a save of the availability page takes away no draft the save did not carry.
THEOREM SavesCarryTheirDrafts == Spec => DraftsKept
<1>1. ASSUME PagesInv, [Next]_interfaceVars
      PROVE  [\A r \in saving \ saving' : dirty \ dirty' \subseteq r.who]_availScreenVars
  BY <1>1, OnePageAtATime, AvailabilityKeeps DEF PagesInv
<1> QED BY <1>1, PagesAlways, PTL DEF Spec, DraftsKept

-----------------------------------------------------------------------------
(* Reports: the pen never comes so low that a line would not fit, because room is made     *)
(* before whatever is written.  (Leaves with large numerals are given to SMT alone: Zenon  *)
(* counts in unary.)                                                                       *)

\* What the renderer is handed.
Handed(r) ==
  /\ r.landscape \in BOOLEAN /\ r.subtitle = TRUE /\ r.meta \in 0..4
  /\ r.headings \in Seq(BOOLEAN) /\ r.footnote \in BOOLEAN

\* The pen stands at most this low, its line is at most that high, and it came there
\* without a page that PDFKit turned.
Within(p, low, high) ==
  /\ p.y \in Nat /\ p.y <= low
  /\ p.line \in Nat /\ p.line <= high
  /\ p.bare = 0

\* Between two sections the last line is one of a row or of a message, unless the pen is
\* still below the head.
PdfInv ==
  /\ part \in {"sections", "rows", "done"}
  /\ part # "done" => Handed(report) /\ section \in Nat /\ left \in Nat
  /\ pen.bare = 0
  /\ part = "rows" => Within(pen, Limit(report), 101150) /\ pen.headed = TRUE
  /\ part = "sections" =>
       /\ Within(pen, Limit(report) + 60690, 115600)
       /\ pen.y <= 1300000 \/ pen.line <= 104040

LEMMA EveryReportIsHanded ==
  ASSUME NEW r \in ReportPdfs
  PROVE  Handed(r)
<1>1. /\ Handed(SourceSummaryPdf) /\ Handed(AnnualPdf)
      /\ Handed(DakoHistoryPdf) /\ Handed(CelebrationsPdf)
  BY SMT DEF SourceSummaryPdf, AnnualPdf, DakoHistoryPdf, CelebrationsPdf, Options, Handed, Plain, Portrait, Landscape
<1>2. \A b \in BOOLEAN : Handed(WeeklyPdf(b)) /\ Handed(TeacherHistoryPdf(b))
  BY SMT DEF WeeklyPdf, TeacherHistoryPdf, Options, Handed, Plain, Portrait, Landscape
<1>3. \A n \in {6, 9, 10} : Handed(MasterlistPdf(n))
  BY SMT DEF MasterlistPdf, Options, Handed, Plain, Portrait, Landscape
<1> QED BY <1>1, <1>2, <1>3, SMT DEF ReportPdfs

LEMMA PageSizes ==
  ASSUME NEW r, Handed(r)
  PROVE  /\ Limit(r) \in {5540000, 7340000}
         /\ MaxY(r) = Limit(r) + 180000
BY SMT DEF Handed, Limit, MaxY, PageHeight, Margin

LEMMA PenFields ==
  ASSUME NEW h, NEW l, NEW b, NEW c
  PROVE  /\ Pen(h, l, b, c).y = h /\ Pen(h, l, b, c).line = l
         /\ Pen(h, l, b, c).headed = b /\ Pen(h, l, b, c).bare = c
BY DEF Pen

LEMMA TextOnPage ==
  ASSUME NEW r, NEW p, NEW n, ~(p.y + n > MaxY(r))
  PROVE  Text(r, p, n) = Pen(p.y + n, n, p.headed, p.bare)
BY DEF Text

\* A line that fits is written below the last one.
LEMMA TextFits ==
  ASSUME NEW r, NEW p, NEW n \in Nat, Handed(r), p.y \in Nat, p.y + n <= Limit(r) + 180000
  PROVE  /\ Text(r, p, n).y = p.y + n /\ Text(r, p, n).line = n
         /\ Text(r, p, n).headed = p.headed /\ Text(r, p, n).bare = p.bare
<1>1. ~(p.y + n > MaxY(r))
  BY PageSizes, SMT
<1>2. Text(r, p, n) = Pen(p.y + n, n, p.headed, p.bare)
  BY <1>1, TextOnPage, SMT
<1> QED BY <1>2, PenFields

LEMMA MoveDownBy ==
  ASSUME NEW p, NEW n
  PROVE  /\ MoveDown(p, n).y = p.y + (p.line * n) \div 10 /\ MoveDown(p, n).line = p.line
         /\ MoveDown(p, n).headed = p.headed /\ MoveDown(p, n).bare = p.bare
BY PenFields DEF MoveDown

LEMMA MetaFits ==
  ASSUME NEW r, Handed(r), NEW p, NEW h \in Nat, h <= 900000, Within(p, h, 115600), NEW n
  PROVE  Within(MetaLines(r, p, n, 104040), h + 416160, 115600)
<1> DEFINE Line(i, q) == IF i <= n THEN Text(r, q, 104040) ELSE q
<1>1. ASSUME NEW i, NEW q, NEW low \in Nat, low <= 1300000, Within(q, low, 115600)
      PROVE  Within(Line(i, q), low + 104040, 115600)
  <2>1. Within(Text(r, q, 104040), low + 104040, 115600)
    BY <1>1, TextFits, PageSizes, SMT DEF Within
  <2>2. Within(q, low + 104040, 115600)
    BY <1>1, SMT DEF Within
  <2> QED BY <2>1, <2>2, SMT
<1> HIDE DEF Line
<1>2. Within(Line(1, p), h + 104040, 115600)
  BY <1>1, SMT
<1>3. Within(Line(2, Line(1, p)), h + 208080, 115600)
  BY <1>1, <1>2, SMT
<1>4. Within(Line(3, Line(2, Line(1, p))), h + 312120, 115600)
  BY <1>1, <1>3, SMT
<1>5. Within(Line(4, Line(3, Line(2, Line(1, p)))), h + 416160, 115600)
  BY <1>1, <1>4, SMT
<1> QED BY <1>5, SMT DEF MetaLines, Line

LEMMA HeadOfReport ==
  ASSUME NEW r, r.subtitle = TRUE
  PROVE  Headed(r) =
           MoveDown(MetaLines(r, Text(r, Text(r, MoveDown(Text(r, Pen(Margin, Bold(80), FALSE, 0), Bold(80)), 2),
                                              Bold(160)), Regular(100)), r.meta, Regular(90)), 4)
BY DEF Headed

\* The head takes up to 1.3 million, and it is all on its page.
LEMMA HeadFits ==
  ASSUME NEW r, Handed(r)
  PROVE  Within(Headed(r), 1300000, 115600)
<1> DEFINE fresh == Pen(Margin, Bold(80), FALSE, 0)
           mark == Text(r, fresh, Bold(80))
           name == MoveDown(mark, 2)
           title == Text(r, name, Bold(160))
           under == Text(r, title, Regular(100))
           metas == MetaLines(r, under, r.meta, Regular(90))
<1>1. fresh.y = 400000 /\ fresh.line = 95200 /\ fresh.bare = 0
  BY SMT DEF Pen, Margin, Bold
<1> HIDE DEF fresh
<1>2. mark.y = 495200 /\ mark.line = 95200 /\ mark.bare = 0
  BY <1>1, TextFits, PageSizes, SMT DEF Bold
<1> HIDE DEF mark
<1>3. name.y = 514240 /\ name.line = 95200 /\ name.bare = 0
  BY <1>2, MoveDownBy, SMT
<1> HIDE DEF name
<1>4. title.y = 704640 /\ title.bare = 0
  BY <1>3, TextFits, PageSizes, SMT DEF Bold
<1> HIDE DEF title
<1>5. Within(under, 820240, 115600)
  BY <1>4, TextFits, PageSizes, SMT DEF Regular, Within
<1> HIDE DEF under
<1>7. Within(metas, 1236400, 115600)
  BY <1>5, MetaFits, SMT DEF Regular
<1> HIDE DEF metas
<1>8. Within(MoveDown(metas, 4), 1300000, 115600)
  BY <1>7, MoveDownBy, SMT DEF Within
<1>9. r.subtitle = TRUE
  BY SMT DEF Handed
<1>10. Headed(r) = MoveDown(metas, 4)
  BY <1>9, HeadOfReport DEF metas, under, title, name, mark, fresh
<1> QED BY <1>8, <1>10, SMT

LEMMA FreshPageFits ==
  ASSUME NEW r, Handed(r), NEW p, p.bare = 0
  PROVE  Within(FreshPage(r, p), 1300000, 115600)
<1> DEFINE top == Headed(r)
<1>1. FreshPage(r, p) = Pen(top.y, top.line, FALSE, p.bare + top.bare)
  BY DEF FreshPage
<1>2. Within(top, 1300000, 115600)
  BY HeadFits, SMT
<1> HIDE DEF top
<1>3. /\ FreshPage(r, p).y = top.y /\ FreshPage(r, p).line = top.line
      /\ FreshPage(r, p).bare = p.bare + top.bare
  BY <1>1 DEF Pen
<1> QED BY <1>2, <1>3, SMT DEF Within

LEMMA RoomIsMade ==
  ASSUME NEW r, Handed(r), NEW needed \in Nat, needed <= 600000,
         NEW p, Within(p, Limit(r) + 60690, 130900),
         NEW room, room = EnsureRoom(r, p, needed)
  PROVE  /\ Within(room, Limit(r) - needed, 130900)
         /\ \/ p.y + needed <= Limit(r) /\ room = p
            \/ p.y + needed > Limit(r) /\ Within(room, 1300000, 115600)
<1>1. Limit(r) \in Nat /\ Limit(r) >= 5540000
  BY PageSizes, SMT
<1>2. CASE p.y + needed > Limit(r)
  <2>1. room = FreshPage(r, p)
    BY <1>2, SMT DEF EnsureRoom
  <2>2. p.bare = 0
    BY SMT DEF Within
  <2>3. Within(FreshPage(r, p), 1300000, 115600)
    BY <2>2, FreshPageFits, SMT
  <2> QED BY <1>1, <1>2, <2>1, <2>3, SMT DEF Within
<1>3. CASE ~(p.y + needed > Limit(r))
  <2>1. room = p
    BY <1>3, SMT DEF EnsureRoom
  <2> QED BY <1>1, <1>3, <2>1, SMT DEF Within
<1> QED BY <1>2, <1>3, SMT

\* Where a heading leaves the pen.
LEMMA HeadingFits ==
  ASSUME NEW r, Handed(r), NEW p, Within(p, Limit(r) - 600000, 130900)
  PROVE  LET named == Heading(r, p)
         IN /\ named.y = p.y + (p.line * 3) \div 10 + 157080
            /\ named.line = 130900 /\ named.headed = p.headed /\ named.bare = 0
<1> DEFINE below == MoveDown(p, 3)
           name == Text(r, below, Bold(110))
<1>1. Limit(r) \in Nat /\ Limit(r) >= 5540000
  BY PageSizes, SMT
<1>2. below.y = p.y + (p.line * 3) \div 10 /\ below.headed = p.headed /\ below.bare = 0
  BY MoveDownBy, SMT DEF Within
<1> HIDE DEF below
<1>3. below.y \in Nat /\ below.y <= p.y + 39270
  BY <1>2, SMT DEF Within
<1>4. name.y = below.y + 130900 /\ name.line = 130900 /\ name.headed = p.headed /\ name.bare = 0
  BY <1>1, <1>2, <1>3, TextFits, SMT DEF Bold, Within
<1> HIDE DEF name
<1>5. Heading(r, p) = MoveDown(name, 2)
  BY SMT DEF Heading, name, below
<1> QED BY <1>2, <1>3, <1>4, <1>5, MoveDownBy, SMT

LEMMA HeaderIsDrawn ==
  ASSUME NEW p
  PROVE  /\ DrawHeader(p).y = p.y + HeaderBand /\ DrawHeader(p).line = Bold(85)
         /\ DrawHeader(p).headed = TRUE /\ DrawHeader(p).bare = p.bare
BY DEF DrawHeader, Pen

LEMMA RowsAreCounted ==
  ASSUME NEW r
  PROVE  RowsIn(r) \subseteq Nat
<1>1. CASE r = WeeklyPdf(FALSE)
  <2>1. RowsIn(r) = {0}
    BY <1>1 DEF RowsIn
  <2> QED BY <2>1
<1>2. CASE r # WeeklyPdf(FALSE)
  <2>1. RowsIn(r) = RowCounts
    BY <1>2 DEF RowsIn
  <2> QED BY <2>1, ReportAssumption
<1> QED BY <1>1, <1>2

\* A section begins with its heading, and its header or its message below it; its table may
\* begin on the next page only where less than 60.83 points were left.
LEMMA SectionBegins ==
  ASSUME PdfInv, BeginSection
  PROVE  /\ PdfInv'
         /\ left' > 0 /\ report.headings[section'] =>
              LET room == EnsureRoom(report, pen, SectionRoom)
              IN \/ pen'.y = Heading(report, room).y + HeaderBand
                 \/ room.y + 600000 <= Limit(report) /\ Limit(report) < room.y + 608300
<1> DEFINE room == EnsureRoom(report, pen, SectionRoom)
           start == Pen(room.y, room.line, FALSE, room.bare)
           named == IF report.headings[section'] THEN Heading(report, start) ELSE start
           message == MoveDown(Text(report, named, Regular(90)), 4)
           full == EnsureRoom(report, named, HeaderBand + RowHeight)
<1>1. PICK n \in RowsIn(report) :
           /\ left' = n
           /\ pen' = IF n = 0 THEN message ELSE DrawHeader(full)
           /\ part' = IF n = 0 THEN "sections" ELSE "rows"
  BY DEF BeginSection
<1>2. n \in Nat
  BY RowsAreCounted
<1>3. part = "sections" /\ section' = section + 1 /\ report' = report
  BY DEF BeginSection
<1>4. Handed(report) /\ section \in Nat /\ Within(pen, Limit(report) + 60690, 115600)
      /\ (pen.y <= 1300000 \/ pen.line <= 104040)
  BY <1>3, SMT DEF PdfInv
<1>5. Limit(report) \in Nat /\ Limit(report) >= 5540000
  BY <1>4, PageSizes, SMT
<1>6. /\ Within(room, Limit(report) - 600000, 115600)
      /\ room.y <= 1300000 \/ room.line <= 104040
  <2>1. Within(pen, Limit(report) + 60690, 130900)
    BY <1>4, SMT DEF Within
  <2>2. SectionRoom = 600000
    BY SMT DEF SectionRoom
  <2>3. /\ Within(room, Limit(report) - 600000, 130900)
        /\ \/ room = pen
           \/ Within(room, 1300000, 115600)
    BY <1>4, <2>1, <2>2, RoomIsMade, SMT
  <2> HIDE DEF room
  <2> QED BY <1>4, <2>3, SMT DEF Within
<1> HIDE DEF room
<1>7. start.y = room.y /\ start.line = room.line /\ start.bare = room.bare
  BY DEF Pen
<1> HIDE DEF start
<1>8. Within(start, Limit(report) - 600000, 115600)
  BY <1>6, <1>7, SMT DEF Within
<1>9. Heading(report, room).y = room.y + (room.line * 3) \div 10 + 157080
  BY <1>4, <1>6, HeadingFits, SMT DEF Within
<1>10. /\ named.bare = 0 /\ named.y \in Nat /\ named.y <= start.y + 191760
       /\ named.line \in Nat /\ named.line <= 130900
       /\ report.headings[section'] => named.y = room.y + (room.line * 3) \div 10 + 157080
  <2>1. CASE report.headings[section']
    <3>1. named = Heading(report, start)
      BY <2>1
    <3>2. Within(start, Limit(report) - 600000, 130900)
      BY <1>8, SMT DEF Within
    <3>3. /\ named.y = start.y + (start.line * 3) \div 10 + 157080
          /\ named.line = 130900 /\ named.bare = 0
      BY <1>4, <3>1, <3>2, HeadingFits, SMT
    <3> HIDE DEF named
    <3> QED BY <1>7, <1>8, <3>3, SMT DEF Within
  <2>2. CASE ~report.headings[section']
    <3>1. named = start
      BY <2>2
    <3> HIDE DEF named
    <3> QED BY <1>8, <2>2, <3>1, SMT DEF Within
  <2> QED BY <2>1, <2>2, SMT
<1> HIDE DEF named
<1>11. Handed(report') /\ Limit(report') = Limit(report) /\ section' \in Nat /\ left' \in Nat
  BY <1>1, <1>2, <1>3, <1>4, SMT
<1>12. CASE n = 0
  <2>1. pen' = message /\ part' = "sections" /\ left' = 0
    BY <1>1, <1>12
  <2> DEFINE text == Text(report, named, Regular(90))
  <2>2. text.y = named.y + 104040 /\ text.line = 104040 /\ text.bare = 0
    BY <1>4, <1>5, <1>8, <1>10, TextFits, SMT DEF Regular, Within
  <2> HIDE DEF text
  <2>3. pen' = MoveDown(text, 4)
    BY <2>1 DEF text
  <2>4. pen'.y = named.y + 145656 /\ pen'.line = 104040 /\ pen'.bare = 0
    BY <1>10, <2>2, <2>3, MoveDownBy, SMT
  <2>5. Within(pen', Limit(report) + 60690, 115600) /\ pen'.line <= 104040
    BY <1>5, <1>8, <1>10, <2>4, SMT DEF Within
  <2>6. PdfInv'
    BY <1>11, <2>1, <2>5, SMT DEF PdfInv, Within
  <2> QED BY <2>1, <2>6, SMT
<1>13. CASE n # 0
  <2>1. pen' = DrawHeader(full) /\ part' = "rows"
    BY <1>1, <1>13
  <2>2. HeaderBand + RowHeight = 420000
    BY SMT DEF HeaderBand, RowHeight
  <2>3. Within(named, Limit(report) + 60690, 130900)
    BY <1>5, <1>8, <1>10, SMT DEF Within
  <2>4. /\ Within(full, Limit(report) - 420000, 130900)
        /\ \/ named.y + 420000 <= Limit(report) /\ full = named
           \/ named.y + 420000 > Limit(report) /\ Within(full, 1300000, 115600)
    BY <1>4, <2>2, <2>3, RoomIsMade, SMT
  <2> HIDE DEF full
  <2>10. pen'.y = full.y + HeaderBand /\ pen'.line = Bold(85) /\ pen'.headed = TRUE /\ pen'.bare = full.bare
    BY <2>1, HeaderIsDrawn
  <2>5. pen'.y = full.y + 260000 /\ pen'.line = 101150 /\ pen'.headed = TRUE /\ pen'.bare = full.bare
    BY <2>10, SMT DEF HeaderBand, Bold
  <2>6. Within(pen', Limit(report), 101150)
    BY <1>5, <2>4, <2>5, SMT DEF Within
  <2>7. PdfInv'
    BY <1>11, <2>1, <2>5, <2>6, SMT DEF PdfInv, Within
  <2>8. ASSUME report.headings[section']
        PROVE  \/ pen'.y = Heading(report, room).y + HeaderBand
               \/ room.y + 600000 <= Limit(report) /\ Limit(report) < room.y + 608300
    <3>1. CASE full = named
      BY <1>9, <1>10, <2>5, <2>8, <3>1, SMT DEF HeaderBand
    <3>2. CASE full # named
      <4>1. named.y + 420000 > Limit(report) /\ named.y = room.y + (room.line * 3) \div 10 + 157080
        BY <1>10, <2>4, <2>8, <3>2, SMT
      <4> QED BY <1>5, <1>6, <4>1, SMT DEF Within
    <3> QED BY <3>1, <3>2, SMT
  <2> QED BY <2>7, <2>8 DEF room
<1> QED BY <1>12, <1>13

LEMMA RowIsPrinted ==
  ASSUME PdfInv, PrintRow
  PROVE  PdfInv'
<1> DEFINE p == IF pen.y + RowHeight > Limit(report) THEN NewPage(report, pen) ELSE pen
<1>1. pen' = Pen(p.y + RowHeight, Regular(85), p.headed, p.bare)
  BY DEF PrintRow
<1>2. part = "rows" /\ part' = "rows" /\ report' = report /\ section' = section /\ left' = left - 1 /\ left > 0
  BY DEF PrintRow
<1>3. Handed(report) /\ section \in Nat /\ left \in Nat /\ Within(pen, Limit(report), 101150) /\ pen.headed = TRUE
  BY <1>2, SMT DEF PdfInv
<1>4. Limit(report) \in Nat /\ Limit(report) >= 5540000
  BY <1>3, PageSizes, SMT
<1> DEFINE fits == Within(p, Limit(report) - 160000, 115600) /\ p.headed = TRUE
<1>5. fits
  <2>1. CASE pen.y + RowHeight > Limit(report)
    <3>1. pen.bare = 0
      BY <1>3, SMT DEF Within
    <3>2. Within(FreshPage(report, pen), 1300000, 115600)
      BY <1>3, <3>1, FreshPageFits, SMT
    <3>3. p = DrawHeader(FreshPage(report, pen))
      BY <2>1 DEF NewPage
    <3> HIDE DEF p
    <3>4. /\ p.y = FreshPage(report, pen).y + HeaderBand /\ p.line = Bold(85) /\ p.headed = TRUE
          /\ p.bare = FreshPage(report, pen).bare
      BY <3>3, HeaderIsDrawn
    <3>5. HeaderBand = 260000 /\ Bold(85) = 101150
      BY SMT DEF HeaderBand, Bold
    <3> QED BY <1>4, <3>2, <3>4, <3>5, SMT DEF Within
  <2>2. CASE ~(pen.y + RowHeight > Limit(report))
    <3>1. p = pen
      BY <2>2
    <3> HIDE DEF p
    <3>2. ~(pen.y + 160000 > Limit(report))
      BY <2>2, SMT DEF RowHeight
    <3>3. Within(p, Limit(report) - 160000, 115600)
      BY <1>3, <1>4, <3>1, <3>2, SMT DEF Within
    <3>4. p.headed = TRUE
      BY <1>3, <3>1, SMT
    <3> QED BY <3>3, <3>4, SMT
  <2> HIDE DEF fits
  <2> QED BY <2>1, <2>2
<1> HIDE DEF p
<1>6. pen'.y = p.y + 160000 /\ pen'.line = 98260 /\ pen'.headed = p.headed /\ pen'.bare = p.bare
  BY <1>1, PenFields, SMT DEF RowHeight, Regular
<1>7. Within(pen', Limit(report), 101150) /\ pen'.headed = TRUE
  BY <1>4, <1>5, <1>6, SMT DEF Within
<1>8. left' \in Nat
  BY <1>2, <1>3, SMT
<1> QED BY <1>2, <1>3, <1>7, <1>8, SMT DEF PdfInv, Within

LEMMA SectionEnds ==
  ASSUME PdfInv, EndSection
  PROVE  PdfInv'
<1>1. /\ part = "rows" /\ part' = "sections" /\ report' = report /\ section' = section /\ left' = left
      /\ pen' = MoveDown(pen, 6)
  BY DEF EndSection
<1>2. Handed(report) /\ section \in Nat /\ left \in Nat /\ Within(pen, Limit(report), 101150)
  BY <1>1, SMT DEF PdfInv
<1>3. pen'.y = pen.y + (pen.line * 6) \div 10 /\ pen'.line = pen.line /\ pen'.bare = pen.bare
  BY <1>1, MoveDownBy
<1>4. Limit(report) \in Nat
  BY <1>2, PageSizes, SMT
<1>5. Within(pen', Limit(report) + 60690, 115600) /\ pen'.line <= 104040
  BY <1>2, <1>3, <1>4, SMT DEF Within
<1> QED BY <1>1, <1>2, <1>5, SMT DEF PdfInv, Within

LEMMA FootnoteFits ==
  ASSUME PdfInv, Footnote
  PROVE  PdfInv'
<1> DEFINE room == EnsureRoom(report, pen, FootnoteRoom)
<1>1. /\ part = "sections" /\ part' = "done"
      /\ pen' = IF report.footnote THEN Text(report, room, Regular(80)) ELSE pen
  BY DEF Footnote
<1>2. Handed(report) /\ Within(pen, Limit(report) + 60690, 130900)
  BY <1>1, SMT DEF PdfInv, Within
<1>3. Limit(report) \in Nat /\ Limit(report) >= 5540000
  BY <1>2, PageSizes, SMT
<1>4. FootnoteRoom = 280000 /\ Regular(80) = 92480
  BY SMT DEF FootnoteRoom, Regular
<1>5. Within(room, Limit(report) - 280000, 130900)
  BY <1>2, <1>4, RoomIsMade, SMT
<1> HIDE DEF room
<1>6. Text(report, room, 92480).bare = 0
  BY <1>2, <1>3, <1>5, TextFits, SMT DEF Within
<1>7. pen.bare = 0
  BY <1>2, SMT DEF Within
<1>8. pen'.bare = 0
  BY <1>1, <1>4, <1>6, <1>7, SMT
<1> QED BY <1>1, <1>8, SMT DEF PdfInv

LEMMA PdfStarts ==
  ASSUME ReportInit \/ ReportIdle
  PROVE  PdfInv
<1>1. CASE ReportInit
  <2>1. Handed(report) /\ pen = Headed(report) /\ part = "sections" /\ section = 0 /\ left = 0
    BY <1>1, EveryReportIsHanded DEF ReportInit
  <2>2. Within(pen, 1300000, 115600)
    BY <2>1, HeadFits, SMT
  <2>3. Limit(report) \in Nat /\ Limit(report) >= 5540000
    BY <2>1, PageSizes, SMT
  <2> QED BY <2>1, <2>2, <2>3, SMT DEF PdfInv, Within
<1>2. CASE ReportIdle
  BY <1>2, SMT DEF ReportIdle, PdfInv, Pen
<1> QED BY <1>1, <1>2

\* The papers are made one at a time too.
LEMMA OnePaperAtATime ==
  ASSUME [Next]_interfaceVars
  PROVE  /\ NextWalk \/ UNCHANGED walkVars
         /\ LayoutNext \/ UNCHANGED layoutVars
         /\ ReportNext \/ UNCHANGED reportVars
         /\ PapersNext \/ UNCHANGED paperVars
<1>1. UNCHANGED officeVars =>
        UNCHANGED walkVars /\ UNCHANGED layoutVars /\ UNCHANGED reportVars /\ UNCHANGED paperVars
  BY DEF officeVars
<1> QED BY <1>1 DEF Next, Still, Office, interfaceVars

LEMMA PdfKeeps ==
  ASSUME PdfInv, [Next]_interfaceVars
  PROVE  PdfInv'
<1>1. CASE UNCHANGED reportVars
  BY <1>1 DEF PdfInv, reportVars, Within, Handed, Limit, PageHeight
<1>2. CASE ReportNext
  BY <1>2, SectionBegins, RowIsPrinted, SectionEnds, FootnoteFits DEF ReportNext
<1> QED BY <1>1, <1>2, OnePaperAtATime

\* However many rows the sections have: PDFKit turns no page of a report by itself, every row
\* stands under a column header above the page number, and every heading above its table.
THEOREM ReportsHold == Spec => PagesHold
<1>1. Init => PdfInv
  BY PdfStarts DEF Init
<1>2. PdfInv => PagesAreHeaded /\ RowsAreHeaded
  BY DEF PdfInv, PagesAreHeaded, RowsAreHeaded, Within
<1> DEFINE Stays ==
      section' # section /\ left' > 0 /\ report.headings[section']
        => LET room == EnsureRoom(report, pen, SectionRoom)
           IN \/ pen'.y = Heading(report, room).y + HeaderBand
              \/ room.y + 600000 <= Limit(report) /\ Limit(report) < room.y + 608300
<1>3. ASSUME PdfInv, [Next]_interfaceVars
      PROVE  [Stays]_reportVars
  <2>1. CASE BeginSection
    BY <1>3, <2>1, SectionBegins
  <2>2. CASE PrintRow \/ EndSection \/ Footnote
    BY <2>2 DEF PrintRow, EndSection, Footnote
  <2> QED BY <1>3, <2>1, <2>2, OnePaperAtATime DEF ReportNext
<1> QED BY <1>1, <1>2, <1>3, PdfKeeps, PTL DEF Spec, PagesHold, HeadingsStay

-----------------------------------------------------------------------------
(* Sheets: what is foreseen of the height of the form is what its rows are high together;   *)
(* that they are is proved of sequences of rows, one after the other.                       *)

\* What is drawn of the form.
LayoutRows == [of : {"form", "A", "B", "C", "D"},
               part : {"meta", "heading", "header", "row", "spacer", "signing", "role"},
               height : Nat, widths : Seq(Nat)]

\* The rows are this high together: below each stands what the rest of them needs.
Measured(rest, total) ==
  \E below \in [0..Len(rest) -> Nat] :
    /\ below[0] = total /\ below[Len(rest)] = 0
    /\ \A i \in 1..Len(rest) : below[i - 1] = below[i] + rest[i].height

Straight(rest) == \A i \in 1..Len(rest) : Sum(rest[i].widths) = Table.width

\* Rows of the form that are so high together and all end at the right border.
Drawn(rest, total) == rest \in Seq(LayoutRows) /\ Measured(rest, total) /\ Straight(rest)

LEMMA NothingDrawn ==
  ASSUME NEW total
  PROVE  Drawn(<<>>, total) <=> total = 0
<1>1. Drawn(<<>>, total) => total = 0
  BY DEF Drawn, Measured
<1>2. Drawn(<<>>, 0)
  <2>1. Measured(<<>>, 0)
    <3> DEFINE h == [i \in 0..0 |-> 0]
    <3>1. h \in [0..0 -> Nat] /\ h[0] = 0 /\ Len(<<>>) = 0 /\ 1..0 = {}
      OBVIOUS
    <3> HIDE DEF h
    <3> QED BY <3>1 DEF Measured
  <2> QED BY <2>1 DEF Drawn, Straight
<1> QED BY <1>1, <1>2

LEMMA RowDrawn ==
  ASSUME NEW row \in LayoutRows, Sum(row.widths) = Table.width
  PROVE  Drawn(<<row>>, row.height)
<1>1. row.height \in Nat
  BY DEF LayoutRows
<1>2. <<row>> \in Seq(LayoutRows) /\ Len(<<row>>) = 1 /\ <<row>>[1] = row
  OBVIOUS
<1>3. Measured(<<row>>, row.height)
  <2> DEFINE h == [i \in 0..1 |-> IF i = 0 THEN row.height ELSE 0]
  <2>1. h \in [0..1 -> Nat] /\ h[0] = row.height /\ h[1] = 0
    BY <1>1
  <2> HIDE DEF h
  <2>2. \A i \in 1..1 : h[i - 1] = h[i] + <<row>>[i].height
    BY <1>1, <1>2, <2>1
  <2> QED BY <1>2, <2>1, <2>2 DEF Measured
<1>4. Straight(<<row>>)
  BY <1>2 DEF Straight
<1> QED BY <1>2, <1>3, <1>4 DEF Drawn

LEMMA TwoRowsDrawn ==
  ASSUME NEW r \in LayoutRows, Sum(r.widths) = Table.width,
         NEW q \in LayoutRows, Sum(q.widths) = Table.width
  PROVE  Drawn(<<r, q>>, r.height + q.height)
<1>1. r.height \in Nat /\ q.height \in Nat
  BY DEF LayoutRows
<1>2. <<r, q>> \in Seq(LayoutRows) /\ Len(<<r, q>>) = 2 /\ <<r, q>>[1] = r /\ <<r, q>>[2] = q
  OBVIOUS
<1>3. Measured(<<r, q>>, r.height + q.height)
  <2> DEFINE h == [i \in 0..2 |-> IF i = 0 THEN r.height + q.height ELSE IF i = 1 THEN q.height ELSE 0]
  <2>1. h \in [0..2 -> Nat] /\ h[0] = r.height + q.height /\ h[1] = q.height /\ h[2] = 0
    BY <1>1
  <2> HIDE DEF h
  <2>2. \A i \in 1..2 : h[i - 1] = h[i] + <<r, q>>[i].height
    BY <1>1, <1>2, <2>1
  <2> QED BY <1>2, <2>1, <2>2 DEF Measured
<1>4. Straight(<<r, q>>)
  BY <1>2 DEF Straight
<1> QED BY <1>2, <1>3, <1>4 DEF Drawn

LEMMA OneAfterTheOther ==
  ASSUME NEW s, NEW t, NEW a, NEW b, Drawn(s, a), Drawn(t, b)
  PROVE  Drawn(s \o t, a + b)
<1> DEFINE m == Len(s)
           n == Len(t)
           st == s \o t
<1>1. s \in Seq(LayoutRows) /\ t \in Seq(LayoutRows) /\ m \in Nat /\ n \in Nat
  BY DEF Drawn
<1>2. /\ st \in Seq(LayoutRows) /\ Len(st) = m + n
      /\ \A i \in 1..m : st[i] = s[i]
      /\ \A i \in 1..n : st[m + i] = t[i]
  BY <1>1
<1>3. PICK g \in [0..m -> Nat] :
        /\ g[0] = a /\ g[m] = 0
        /\ \A i \in 1..m : g[i - 1] = g[i] + s[i].height
  BY DEF Drawn, Measured
<1>4. PICK h \in [0..n -> Nat] :
        /\ h[0] = b /\ h[n] = 0
        /\ \A i \in 1..n : h[i - 1] = h[i] + t[i].height
  BY DEF Drawn, Measured
<1>5. a \in Nat /\ b \in Nat
  BY <1>1, <1>3, <1>4
<1>6. \A i \in 1..m : Sum(s[i].widths) = Table.width
  BY DEF Drawn, Straight
<1>7. \A i \in 1..n : Sum(t[i].widths) = Table.width
  BY DEF Drawn, Straight
<1>8. \A i \in 1..m : s[i].height \in Nat
  <2>1. \A i \in 1..m : s[i] \in LayoutRows
    BY <1>1
  <2> QED BY <2>1 DEF LayoutRows
<1> HIDE DEF m, n, st
<1>9. Measured(st, a + b)
  <2> DEFINE k == [i \in 0..(m + n) |-> IF i <= m THEN g[i] + b ELSE h[i - m]]
  <2>1. k \in [0..(m + n) -> Nat]
    BY <1>1, <1>3, <1>4, <1>5
  <2>2. \A i \in 0..m : k[i] = g[i] + b
    BY <1>1
  <2>3. \A i \in 0..n : k[m + i] = h[i]
    <3>1. ASSUME NEW i \in 0..n
          PROVE  k[m + i] = h[i]
      <4>1. CASE i = 0
        BY <1>1, <1>3, <1>4, <1>5, <4>1
      <4>2. CASE i # 0
        BY <1>1, <4>2
      <4> QED BY <4>1, <4>2
    <3> QED BY <3>1
  <2> HIDE DEF k
  <2>4. k[0] = a + b
    BY <1>1, <1>3, <2>2
  <2>5. k[m + n] = 0
    BY <1>1, <1>4, <2>3
  <2>6. ASSUME NEW i \in 1..(m + n)
        PROVE  k[i - 1] = k[i] + st[i].height
    <3>1. CASE i <= m
      <4>1. i \in 1..m /\ i \in 0..m /\ i - 1 \in 0..m
        BY <1>1, <3>1
      <4>2. k[i] = g[i] + b /\ k[i - 1] = g[i - 1] + b /\ g[i - 1] = g[i] + s[i].height /\ st[i] = s[i]
        BY <1>2, <1>3, <2>2, <4>1
      <4>3. g[i] \in Nat /\ s[i].height \in Nat
        BY <1>3, <1>8, <4>1
      <4> QED BY <1>5, <4>2, <4>3
    <3>2. CASE i > m
      <4> DEFINE j == i - m
      <4>1. j \in 1..n /\ j \in 0..n /\ j - 1 \in 0..n /\ m + j = i /\ m + (j - 1) = i - 1
        BY <1>1, <3>2
      <4> HIDE DEF j
      <4>2. k[m + j] = h[j] /\ k[m + (j - 1)] = h[j - 1] /\ st[m + j] = t[j] /\ h[j - 1] = h[j] + t[j].height
        BY <1>2, <1>4, <2>3, <4>1
      <4> QED BY <4>1, <4>2
    <3> QED BY <1>1, <3>1, <3>2
  <2>7. /\ k \in [0..Len(st) -> Nat] /\ k[0] = a + b /\ k[Len(st)] = 0
        /\ \A i \in 1..Len(st) : k[i - 1] = k[i] + st[i].height
    BY <1>2, <2>1, <2>4, <2>5, <2>6
  <2> QED BY <2>7, Zenon DEF Measured
<1>10. Straight(st)
  <2>1. ASSUME NEW i \in 1..(m + n)
        PROVE  Sum(st[i].widths) = Table.width
    <3>1. CASE i <= m
      <4>1. i \in 1..m
        BY <1>1, <3>1
      <4> QED BY <1>2, <1>6, <4>1
    <3>2. CASE i > m
      <4>1. i - m \in 1..n /\ m + (i - m) = i
        BY <1>1, <3>2
      <4> QED BY <1>2, <1>7, <4>1
    <3> QED BY <1>1, <3>1, <3>2
  <2> QED BY <1>2, <2>1 DEF Straight
<1> QED BY <1>2, <1>9, <1>10 DEF Drawn, st

LEMMA RowsDrawn ==
  ASSUME NEW row \in LayoutRows, Sum(row.widths) = Table.width, NEW n \in Nat
  PROVE  Drawn([i \in 1..n |-> row], n * row.height)
<1> DEFINE s == [i \in 1..n |-> row]
           p == row.height
<1>1. p \in Nat
  BY DEF LayoutRows
<1>2. s \in Seq(LayoutRows) /\ Len(s) = n /\ \A i \in 1..n : s[i] = row
  OBVIOUS
<1> HIDE DEF s
<1>3. \A i \in 1..n : s[i].height = p
  BY <1>2
<1> HIDE DEF p
<1>4. Measured(s, n * p)
  <2> DEFINE h == [i \in 0..n |-> (n - i) * p]
  <2>1. h \in [0..n -> Nat]
    BY <1>1
  <2>2. \A i \in 0..n : h[i] = (n - i) * p
    OBVIOUS
  <2> HIDE DEF h
  <2>3. h[0] = n * p /\ h[n] = 0
    BY <1>1, <2>2
  <2>4. ASSUME NEW i \in 1..n
        PROVE  h[i - 1] = h[i] + p
    BY <1>1, <2>2
  <2> QED BY <1>2, <1>3, <2>1, <2>3, <2>4 DEF Measured
<1>5. Straight(s)
  BY <1>2 DEF Straight
<1> QED BY <1>2, <1>4, <1>5 DEF Drawn, s, p

LEMMA RestDrawn ==
  ASSUME NEW s, NEW a, Drawn(s, a), s # <<>>
  PROVE  /\ Head(s).height \in Nat /\ Sum(Head(s).widths) = Table.width
         /\ \E b \in Nat : a = b + Head(s).height /\ Drawn(Tail(s), b)
<1> DEFINE m == Len(s) - 1
           t == Tail(s)
<1>1. s \in Seq(LayoutRows) /\ m \in Nat /\ Len(s) = m + 1 /\ Head(s) = s[1] /\ s[1] \in LayoutRows
  BY DEF Drawn
<1>2. t \in Seq(LayoutRows) /\ Len(t) = m /\ \A i \in 1..m : t[i] = s[i + 1]
  BY <1>1
<1>3. PICK g \in [0..(m + 1) -> Nat] :
        /\ g[0] = a /\ g[m + 1] = 0
        /\ \A i \in 1..(m + 1) : g[i - 1] = g[i] + s[i].height
  BY <1>1 DEF Drawn, Measured
<1>4. \A i \in 1..(m + 1) : Sum(s[i].widths) = Table.width
  BY <1>1 DEF Drawn, Straight
<1> HIDE DEF m, t
<1>5. g[1] \in Nat /\ a = g[1] + s[1].height
  BY <1>1, <1>3
<1>6. Measured(t, g[1])
  <2> DEFINE h == [i \in 0..m |-> g[i + 1]]
  <2>1. h \in [0..m -> Nat]
    BY <1>1, <1>3
  <2>2. \A i \in 0..m : h[i] = g[i + 1]
    OBVIOUS
  <2> HIDE DEF h
  <2>3. h[0] = g[1] /\ h[m] = 0
    BY <1>1, <1>3, <2>2
  <2>4. ASSUME NEW i \in 1..m
        PROVE  h[i - 1] = h[i] + t[i].height
    <3>1. i + 1 \in 1..(m + 1) /\ i \in 0..m /\ i - 1 \in 0..m /\ (i + 1) - 1 = i /\ (i - 1) + 1 = i
      BY <1>1
    <3> QED BY <1>2, <1>3, <2>2, <3>1
  <2> QED BY <1>2, <2>1, <2>3, <2>4 DEF Measured
<1>7. Straight(t)
  BY <1>1, <1>2, <1>4 DEF Straight
<1>8. Drawn(t, g[1])
  BY <1>2, <1>6, <1>7 DEF Drawn
<1> QED BY <1>1, <1>4, <1>5, <1>8 DEF t, LayoutRows

-----------------------------------------------------------------------------

LEMMA CellsFillTheRow ==
  /\ \A d \in {"A", "B", "C", "D"} : Columns[d] \in Seq(Nat) /\ Sum(Columns[d]) = Table.width
  /\ MetaCells \in Seq(Nat) /\ Sum(MetaCells) = Table.width
  /\ SigCells \in Seq(Nat) /\ Sum(SigCells) = Table.width
  /\ <<Table.width>> \in Seq(Nat) /\ Sum(<<Table.width>>) = Table.width
<1>1. Sum(ABColumns) = 56160 /\ ABColumns \in Seq(Nat)
  BY SMT DEF Sum, ABColumns
<1>2. Sum(DColumns) = 56160 /\ DColumns \in Seq(Nat)
  BY SMT DEF Sum, DColumns
<1>3. Sum(MetaCells) = 56160 /\ MetaCells \in Seq(Nat)
  BY SMT DEF Sum, MetaCells
<1>4. SigCells = <<29390, 26770>>
  BY SMT DEF SigCells, Table
<1>5. Sum(SigCells) = 56160 /\ SigCells \in Seq(Nat)
  BY <1>4, SMT DEF Sum
<1>6. Sum(<<56160>>) = 56160 /\ <<56160>> \in Seq(Nat)
  BY SMT DEF Sum
<1>7. Table.width = 56160
  BY SMT DEF Table
<1> QED BY <1>1, <1>2, <1>3, <1>5, <1>6, <1>7, SMT DEF Columns

LEMMA BandDrawn ==
  ASSUME NEW name \in {"meta", "spacer", "signing", "role"}, NEW height \in Nat,
         NEW cells \in Seq(Nat), Sum(cells) = Table.width
  PROVE  Drawn(Band(name, height, cells), height)
<1> DEFINE row == [of |-> "form", part |-> name, height |-> height, widths |-> cells]
<1>1. row \in LayoutRows /\ row.height = height /\ row.widths = cells
  BY DEF LayoutRows
<1>2. Band(name, height, cells) = <<row>>
  BY DEF Band
<1> HIDE DEF row
<1> QED BY <1>1, <1>2, RowDrawn

SectionHeight(f, s) == HeadingBand + HeaderRow[s] + RowsOf(f, s) * f.pitch

LEMMA SectionDrawn ==
  ASSUME NEW f, f.pitch \in Nat, NEW s \in {"A", "B", "C", "D"}, RowsOf(f, s) \in Nat
  PROVE  Drawn(DrawnSection(f, s), SectionHeight(f, s))
<1> DEFINE Row(name, height) == [of |-> s, part |-> name, height |-> height, widths |-> Columns[s]]
           heading == Row("heading", HeadingBand)
           header == Row("header", HeaderRow[s])
           row == Row("row", f.pitch)
           n == RowsOf(f, s)
<1>1. HeadingBand \in Nat /\ HeaderRow[s] \in Nat
  BY DEF HeadingBand, HeaderRow
<1>2. Columns[s] \in Seq(Nat) /\ Sum(Columns[s]) = Table.width
  BY CellsFillTheRow
<1>3. heading \in LayoutRows /\ heading.height = HeadingBand /\ heading.widths = Columns[s]
  BY <1>1, <1>2 DEF LayoutRows
<1>4. header \in LayoutRows /\ header.height = HeaderRow[s] /\ header.widths = Columns[s]
  BY <1>1, <1>2 DEF LayoutRows
<1>5. row \in LayoutRows /\ row.height = f.pitch /\ row.widths = Columns[s]
  BY <1>2 DEF LayoutRows
<1>6. DrawnSection(f, s) = <<heading, header>> \o [i \in 1..n |-> row]
  BY DEF DrawnSection
<1> HIDE DEF Row, heading, header, row, n
<1>9. Drawn(<<heading, header>>, HeadingBand + HeaderRow[s])
  BY <1>2, <1>3, <1>4, TwoRowsDrawn
<1>10. Drawn([i \in 1..n |-> row], n * f.pitch)
  BY <1>2, <1>5, RowsDrawn DEF n
<1>11. Drawn(<<heading, header>> \o [i \in 1..n |-> row], HeadingBand + HeaderRow[s] + n * f.pitch)
  BY <1>9, <1>10, OneAfterTheOther
<1> QED BY <1>6, <1>11 DEF SectionHeight, n

FormOf(f) == f.dakos \in Nat /\ f.reservists \in Nat

LEMMA RowsOfSections ==
  ASSUME NEW f, FormOf(f)
  PROVE  /\ \A s \in {"A", "B", "C", "D"} : RowsOf(f, s) \in Nat
         /\ RowsOf(f, "A") = f.dakos /\ RowsOf(f, "B") = f.dakos
         /\ RowsOf(f, "D") = 7
         /\ BodyRowCount(f) = f.dakos + f.dakos + (IF PrintsC(f) THEN RowsOf(f, "C") ELSE 0) + 7
<1>1. RowsOf(f, "A") = f.dakos /\ RowsOf(f, "B") = f.dakos
  BY DEF RowsOf
<1>2. RowsOf(f, "C") = Larger(f.reservists, CMinRows)
  BY DEF RowsOf
<1>3. RowsOf(f, "D") = 7
  BY DEF RowsOf
<1>4. Larger(f.reservists, CMinRows) \in Nat
  BY DEF Larger, CMinRows, FormOf
<1>5. BodyRowCount(f) = f.dakos + f.dakos + (IF PrintsC(f) THEN RowsOf(f, "C") ELSE 0) + 7
  BY <1>2, <1>4 DEF BodyRowCount, FormOf
<1> QED BY <1>1, <1>2, <1>3, <1>4, <1>5 DEF FormOf

Total(f) == FixedHeight(f) + BodyRowCount(f) * f.pitch

\* All rows of the form are as high together as foreseen.
LEMMA FormDrawn ==
  ASSUME NEW f, FormOf(f), f.pitch \in Nat
  PROVE  Drawn(Drawing(f), Total(f))
<1> DEFINE a == SectionHeight(f, "A")
           b == SectionHeight(f, "B")
           c == IF PrintsC(f) THEN SectionHeight(f, "C") ELSE 0
           d == SectionHeight(f, "D")
           meta == Band("meta", MetaRow, MetaCells)
           cs == IF PrintsC(f) THEN DrawnSection(f, "C") ELSE <<>>
           spacer == Band("spacer", Spacer, <<Table.width>>)
           signing == Band("signing", SigSpace, SigCells)
           role == Band("role", SigRole, SigCells)
<1>1. MetaRow \in Nat /\ Spacer \in Nat /\ SigSpace \in Nat /\ SigRole \in Nat
  BY DEF MetaRow, Spacer, SigSpace, SigRole
<1>2. /\ Drawn(meta, MetaRow) /\ Drawn(spacer, Spacer)
      /\ Drawn(signing, SigSpace) /\ Drawn(role, SigRole)
  BY <1>1, BandDrawn, CellsFillTheRow
<1>3. Drawn(DrawnSection(f, "A"), a) /\ Drawn(DrawnSection(f, "B"), b) /\ Drawn(DrawnSection(f, "D"), d)
  BY RowsOfSections, SectionDrawn
<1>4. Drawn(cs, c)
  <2>1. CASE PrintsC(f)
    BY <2>1, RowsOfSections, SectionDrawn
  <2>2. CASE ~PrintsC(f)
    BY <2>2, NothingDrawn
  <2> QED BY <2>1, <2>2
<1>5. Drawing(f) = meta \o DrawnSection(f, "A") \o DrawnSection(f, "B") \o cs \o DrawnSection(f, "D")
                     \o spacer \o signing \o role
  BY DEF Drawing
<1>6. Total(f) = MetaRow + a + b + c + d + Spacer + SigSpace + SigRole
  <2> DEFINE p == f.pitch
             n == f.dakos * p
             r == IF PrintsC(f) THEN RowsOf(f, "C") ELSE 0
  <2>1. p \in Nat /\ n \in Nat /\ r \in Nat /\ f.dakos \in Nat /\ r * p \in Nat
    BY RowsOfSections DEF FormOf
  <2>2. a = 4380 + n /\ b = 4380 + n /\ d = 4200 + 7 * p
    BY RowsOfSections, SMT DEF SectionHeight, HeadingBand, HeaderRow
  <2>3. c = IF PrintsC(f) THEN 4200 + r * p ELSE 0
    BY RowsOfSections, SMT DEF SectionHeight, HeadingBand, HeaderRow
  <2>4. BodyRowCount(f) * p = n + n + r * p + 7 * p
    <3>1. BodyRowCount(f) = f.dakos + f.dakos + r + 7
      BY RowsOfSections
    <3> HIDE DEF p, r
    <3> QED BY <2>1, <3>1, SMT DEF n
  <2>5. FixedHeight(f) = 2623 + (IF PrintsC(f) THEN 11040 + 2880 ELSE 8280 + 1440) + 3240 + 1200 + 4259 + 1443
    BY SMT DEF FixedHeight, MetaRow, HeadingBand, HeaderRow, Spacer, SigSpace, SigRole
  <2>6. MetaRow = 2623 /\ Spacer = 1200 /\ SigSpace = 4259 /\ SigRole = 1443
    BY SMT DEF MetaRow, Spacer, SigSpace, SigRole
  <2>7. CASE PrintsC(f)
    <3>1. c = 4200 + r * p /\ FixedHeight(f) = 2623 + 11040 + 2880 + 3240 + 1200 + 4259 + 1443
      BY <2>3, <2>5, <2>7, SMT
    <3> HIDE DEF a, b, c, d, n, p, r
    <3> QED BY <2>1, <2>2, <2>4, <2>6, <3>1, SMT DEF Total, p
  <2>8. CASE ~PrintsC(f)
    <3>1. c = 0 /\ r = 0 /\ FixedHeight(f) = 2623 + 8280 + 1440 + 3240 + 1200 + 4259 + 1443
      BY <2>3, <2>5, <2>8, SMT
    <3>2. r * p = 0
      BY <2>1, <3>1, SMT
    <3> HIDE DEF a, b, c, d, n, p, r
    <3> QED BY <2>1, <2>2, <2>4, <2>6, <3>1, <3>2, SMT DEF Total, p
  <2> QED BY <2>7, <2>8
<1> HIDE DEF a, b, c, d, meta, cs, spacer, signing, role
<1>7. Drawn(meta \o DrawnSection(f, "A"), MetaRow + a)
  BY <1>2, <1>3, OneAfterTheOther
<1>8. Drawn(meta \o DrawnSection(f, "A") \o DrawnSection(f, "B"), MetaRow + a + b)
  BY <1>3, <1>7, OneAfterTheOther
<1>9. Drawn(meta \o DrawnSection(f, "A") \o DrawnSection(f, "B") \o cs, MetaRow + a + b + c)
  BY <1>4, <1>8, OneAfterTheOther
<1>10. Drawn(meta \o DrawnSection(f, "A") \o DrawnSection(f, "B") \o cs \o DrawnSection(f, "D"),
             MetaRow + a + b + c + d)
  BY <1>3, <1>9, OneAfterTheOther
<1>11. Drawn(meta \o DrawnSection(f, "A") \o DrawnSection(f, "B") \o cs \o DrawnSection(f, "D") \o spacer,
             MetaRow + a + b + c + d + Spacer)
  BY <1>2, <1>10, OneAfterTheOther
<1>12. Drawn(meta \o DrawnSection(f, "A") \o DrawnSection(f, "B") \o cs \o DrawnSection(f, "D") \o spacer
               \o signing, MetaRow + a + b + c + d + Spacer + SigSpace)
  BY <1>2, <1>11, OneAfterTheOther
<1>13. Drawn(Drawing(f), MetaRow + a + b + c + d + Spacer + SigSpace + SigRole)
  BY <1>2, <1>5, <1>12, OneAfterTheOther
<1> QED BY <1>6, <1>13

-----------------------------------------------------------------------------

LEMMA Shares ==
  ASSUME NEW a \in Nat, NEW n \in Nat \ {0}
  PROVE  /\ a \div n \in Nat /\ n * (a \div n) <= a
         /\ \A k \in Nat : n * k <= a => k <= a \div n
OBVIOUS

\* What is left of the page beside the rows of the body, at least 55095.
Room(f) == Table.height - FixedHeight(f)

LEMMA RoomIsLeft ==
  ASSUME NEW f
  PROVE  IF PrintsC(f) THEN Room(f) = 55095 ELSE Room(f) = 59295
<1>1. Table.height = 81780
  BY SMT DEF Table
<1> QED BY <1>1, SMT DEF Room, FixedHeight, MetaRow, HeadingBand, HeaderRow, Spacer, SigSpace, SigRole

\* What a pitch is: between the floor and the height of the reference, and no more than its share of the
\* room where it is above the floor.
LEMMA PitchOf ==
  ASSUME NEW f, FormOf(f), NEW p \in Pitches(f)
  PROVE  /\ p \in Nat /\ p >= 400 /\ p <= 1620
         /\ p > 400 => BodyRowCount(f) * p <= Room(f)
         /\ \A k \in Nat : k <= 1620 /\ BodyRowCount(f) * k <= Room(f) => p >= k - 1
<1> DEFINE n == BodyRowCount(f)
           a == Room(f)
           share == a \div n
<1>1. n \in Nat /\ n >= 7
  BY RowsOfSections DEF FormOf
<1>2. a \in Nat
  BY RoomIsLeft, SMT
<1>3. Larger(n, 1) = n
  BY <1>1 DEF Larger
<1>4. PICK h \in Floors(a, n) : p = Larger(RowFloor, Smaller(BodyRow, h))
  BY <1>3 DEF Pitches, Room
<1> HIDE DEF n, a
<1>5. h = share \/ h = share - 1
  BY <1>4 DEF Floors
<1>6. /\ share \in Nat /\ n * share <= a
      /\ \A k \in Nat : n * k <= a => k <= share
  BY <1>1, <1>2, Shares
<1> HIDE DEF share
<1>7. RowFloor = 400 /\ BodyRow = 1620
  BY SMT DEF RowFloor, BodyRow
<1>8. p \in Nat /\ p >= 400 /\ p <= 1620 /\ (p > 400 => p <= share)
  BY <1>4, <1>5, <1>6, <1>7, SMT DEF Larger, Smaller
<1>9. ASSUME p > 400
      PROVE  n * p <= a
  <2>1. p <= share
    BY <1>8, <1>9, SMT
  <2>2. n * p <= n * share
    BY <1>1, <1>6, <1>8, <2>1, SMT
  <2> QED BY <1>1, <1>2, <1>6, <1>8, <2>2, SMT
<1>10. ASSUME NEW k \in Nat, k <= 1620, n * k <= a
       PROVE  p >= k - 1
  <2>1. k <= share
    BY <1>6, <1>10, SMT
  <2>2. p = Larger(400, Smaller(1620, h))
    BY <1>4, <1>7, SMT
  <2>3. CASE h = share
    BY <1>6, <1>10, <2>1, <2>2, <2>3, SMT DEF Larger, Smaller
  <2>4. CASE h = share - 1
    BY <1>6, <1>10, <2>1, <2>2, <2>4, SMT DEF Larger, Smaller
  <2> QED BY <1>5, <2>3, <2>4
<1> QED BY <1>8, <1>9, <1>10, SMT DEF n, a

\* What PitchGivesWay says of a form all of whose rows are drawn.
LEMMA PitchFits ==
  ASSUME NEW f, FormOf(f), f.pitch \in Pitches(f)
  PROVE  /\ FixedHeight(f) + BodyRowCount(f) * BodyRow <= Table.height => f.pitch >= BodyRow - 1
         /\ f.dakos <= 60 /\ f.reservists <= 5 => Total(f) <= Table.height
         /\ f.dakos <= 30 /\ f.reservists <= 5 => Baseline(f.pitch) <= f.pitch
<1> DEFINE n == BodyRowCount(f)
           a == Room(f)
           p == f.pitch
<1>1. /\ p \in Nat /\ p >= 400 /\ p <= 1620
      /\ p > 400 => n * p <= a
      /\ \A k \in Nat : k <= 1620 /\ n * k <= a => p >= k - 1
  BY PitchOf
<1>2. Table.height = 81780 /\ BodyRow = 1620
  BY SMT DEF Table, BodyRow
<1>3. FixedHeight(f) \in Nat /\ a = 81780 - FixedHeight(f) /\ a \in Nat
  <2>1. FixedHeight(f) \in Nat
    BY SMT DEF FixedHeight, MetaRow, HeadingBand, HeaderRow, Spacer, SigSpace, SigRole
  <2> QED BY <1>2, <2>1, RoomIsLeft, SMT DEF Room
<1>4. n \in Nat /\ (f.reservists <= 5 => IF PrintsC(f) THEN n = 2 * f.dakos + 12 ELSE n = 2 * f.dakos + 7)
  <2>1. f.reservists <= 5 => RowsOf(f, "C") = 5
    BY SMT DEF RowsOf, Larger, CMinRows, FormOf
  <2> QED BY <2>1, RowsOfSections, SMT DEF FormOf
<1>5. IF PrintsC(f) THEN a = 55095 ELSE a = 59295
  BY RoomIsLeft
<1>6. f.dakos \in Nat
  BY DEF FormOf
<1> HIDE DEF n, a, p
<1>7. ASSUME FixedHeight(f) + n * 1620 <= 81780
      PROVE  p >= 1619
  <2>1. n * 1620 <= a
    BY <1>3, <1>4, <1>7, SMT
  <2> QED BY <1>1, <2>1, SMT
<1>8. ASSUME f.dakos <= 60, f.reservists <= 5
      PROVE  FixedHeight(f) + n * p <= 81780
  <2>1. n * 400 <= a
    BY <1>4, <1>5, <1>6, <1>8, SMT
  <2>2. n * p <= a
    BY <1>1, <2>1, SMT
  <2> QED BY <1>1, <1>3, <1>4, <2>2, SMT
<1>9. ASSUME f.dakos <= 30, f.reservists <= 5
      PROVE  Baseline(p) <= p
  <2>1. n * 760 <= a
    BY <1>4, <1>5, <1>6, <1>9, SMT
  <2>2. p >= 759
    BY <1>1, <2>1, SMT
  <2> QED BY <1>1, <2>2, SMT DEF Baseline
<1> QED BY <1>2, <1>7, <1>8, <1>9, SMT DEF n, p, Total

LEMMA TotalIsNatural ==
  ASSUME NEW f, FormOf(f), f.pitch \in Nat
  PROVE  Total(f) \in Nat
<1>1. BodyRowCount(f) \in Nat
  BY RowsOfSections DEF FormOf
<1>2. FixedHeight(f) \in Nat
  BY SMT DEF FixedHeight, MetaRow, HeadingBand, HeaderRow, Spacer, SigSpace, SigRole
<1> QED BY <1>1, <1>2, SMT DEF Total

\* The rows still to be drawn are as high together as what is left of the height foreseen.
FormInv ==
  /\ form \in [dakos : Nat, reservists : Nat, pitch : Nat]
  /\ form.pitch = 0 => todo = <<>>
  /\ form.pitch # 0 =>
       /\ form.pitch \in Pitches(form)
       /\ right = Table.left + Table.width
       /\ y \in Nat
       /\ \E rest \in Nat : Drawn(todo, rest) /\ y + rest = Table.top + Total(form)

LEMMA FormStarts ==
  ASSUME FormInit \/ FormIdle
  PROVE  FormInv
<1>1. CASE FormInit
  <2>1. PICK n \in DakoCounts, c \in ReservistCounts : form = [dakos |-> n, reservists |-> c, pitch |-> 0]
    BY <1>1 DEF FormInit
  <2>2. n \in Nat /\ c \in Nat
    BY LayoutAssumption
  <2>3. todo = <<>>
    BY <1>1 DEF FormInit
  <2> QED BY <2>1, <2>2, <2>3 DEF FormInv
<1>2. CASE FormIdle
  BY <1>2 DEF FormIdle, NoForm, FormInv
<1> QED BY <1>1, <1>2

LEMMA FormBuilt ==
  ASSUME FormInv, BuildForm
  PROVE  FormInv'
<1>1. form \in [dakos : Nat, reservists : Nat, pitch : Nat]
  BY DEF FormInv
<1>2. PICK h \in Pitches(form) : form' = [form EXCEPT !.pitch = h]
  BY DEF BuildForm
<1>3. todo' = Drawing(form') /\ y' = Table.top /\ right' = Table.left + Table.width
  BY DEF BuildForm
<1>4. FormOf(form)
  BY <1>1 DEF FormOf
<1>5. h \in Nat /\ h >= 400
  BY <1>4, PitchOf
<1>6. form' \in [dakos : Nat, reservists : Nat, pitch : Nat] /\ form'.pitch = h
      /\ form'.dakos = form.dakos /\ form'.reservists = form.reservists
  BY <1>1, <1>2, <1>5
<1>7. Pitches(form') = Pitches(form)
  BY <1>6 DEF Pitches, FixedHeight, BodyRowCount, PrintsC
<1>8. Drawn(todo', Total(form'))
  BY <1>3, <1>4, <1>5, <1>6, FormDrawn DEF FormOf
<1>9. Total(form') \in Nat
  BY <1>4, <1>5, <1>6, TotalIsNatural DEF FormOf
<1>10. Table.top \in Nat
  BY DEF Table
<1>11. \E rest \in Nat : Drawn(todo', rest) /\ y' + rest = Table.top + Total(form')
  BY <1>3, <1>8, <1>9
<1>12. form'.pitch # 0
  BY <1>5, <1>6
<1>13. form'.pitch \in Pitches(form') /\ right' = Table.left + Table.width /\ y' \in Nat
  BY <1>3, <1>6, <1>7, <1>10, Zenon
<1> QED BY <1>6, <1>11, <1>12, <1>13, Zenon DEF FormInv

LEMMA FormRowDrawn ==
  ASSUME FormInv, DrawRow
  PROVE  FormInv'
<1>1. /\ todo # <<>> /\ form' = form
      /\ y' = y + Head(todo).height /\ right' = Table.left + Sum(Head(todo).widths) /\ todo' = Tail(todo)
  BY DEF DrawRow
<1>2. form.pitch # 0
  BY <1>1 DEF FormInv
<1>3. y \in Nat
  BY <1>2 DEF FormInv
<1>4. PICK rest \in Nat : Drawn(todo, rest) /\ y + rest = Table.top + Total(form)
  BY <1>2 DEF FormInv
<1>5. PICK b \in Nat : rest = b + Head(todo).height /\ Drawn(Tail(todo), b)
  BY <1>1, <1>4, RestDrawn
<1>6. Head(todo).height \in Nat /\ Sum(Head(todo).widths) = Table.width
  BY <1>1, <1>4, RestDrawn
<1> DEFINE height == Head(todo).height
<1>7. y' = y + height /\ height \in Nat /\ rest = b + height
  BY <1>1, <1>5, <1>6
<1> HIDE DEF height
<1>8. y' \in Nat /\ y' + b = y + rest
  BY <1>3, <1>7
<1> QED BY <1>1, <1>2, <1>4, <1>5, <1>6, <1>8 DEF FormInv

LEMMA FormHolds ==
  ASSUME FormInv
  PROVE  FitIsForeseen /\ PitchGivesWay /\ BorderIsStraight
<1>1. CASE form.pitch = 0
  BY <1>1 DEF FitIsForeseen, PitchGivesWay, BorderIsStraight
<1>2. CASE form.pitch # 0
  <2>1. right = Table.left + Table.width /\ form.pitch \in Pitches(form) /\ y \in Nat
    BY <1>2 DEF FormInv
  <2>2. PICK rest \in Nat : Drawn(todo, rest) /\ y + rest = Table.top + Total(form)
    BY <1>2 DEF FormInv
  <2>3. FormOf(form)
    BY DEF FormInv, FormOf
  <2>4. Table.top = 5430 /\ Table.bottom = 87210 /\ Table.height = 81780 /\ FooterTop = 90070
    BY SMT DEF Table, FooterTop
  <2>5. y <= 5430 + Total(form) /\ (todo = <<>> => y = 5430 + Total(form))
    <3>1. todo = <<>> => rest = 0
      BY <2>2, NothingDrawn
    <3> QED BY <2>1, <2>2, <2>4, <3>1, SMT
  <2>6. Total(form) \in Nat
    BY <2>3, TotalIsNatural DEF FormInv
  <2>7. FitIsForeseen
    <3>1. Fits(form) <=> Total(form) <= 81781
      BY <2>4, SMT DEF Fits, Total
    <3> QED BY <2>4, <2>5, <2>6, <3>1, SMT DEF FitIsForeseen
  <2>8. PitchGivesWay
    <3>1. /\ FixedHeight(form) + BodyRowCount(form) * BodyRow <= Table.height => form.pitch >= BodyRow - 1
          /\ form.dakos <= 60 /\ form.reservists <= 5 => Total(form) <= Table.height
          /\ form.dakos <= 30 /\ form.reservists <= 5 => Baseline(form.pitch) <= form.pitch
      BY <2>1, <2>3, PitchFits
    <3> QED BY <2>1, <2>4, <2>5, <2>6, <3>1, SMT DEF PitchGivesWay
  <2> QED BY <2>1, <2>7, <2>8 DEF BorderIsStraight
<1> QED BY <1>1, <1>2

-----------------------------------------------------------------------------

AllMarks == UpperMarks \o LowerMarks
References == {n \in Nat : n >= 24210 /\ n <= 363080}

LEMMA MarksAreReferences ==
  AllMarks \in Seq(References) /\ Len(AllMarks) \in Nat /\ Len(AllMarks) # 0
<1>1. UpperMarks \in Seq(References) /\ Len(UpperMarks) = 8
  BY SMT DEF UpperMarks, References
<1>2. LowerMarks \in Seq(References) /\ Len(LowerMarks) = 17
  BY SMT DEF LowerMarks, References
<1>3. ASSUME NEW s, NEW t, s \in Seq(References), t \in Seq(References)
      PROVE  s \o t \in Seq(References) /\ Len(s \o t) = Len(s) + Len(t)
  BY <1>3
<1>4. AllMarks \in Seq(References) /\ Len(AllMarks) = Len(UpperMarks) + Len(LowerMarks)
  BY <1>1, <1>2, <1>3, Zenon DEF AllMarks
<1> QED BY <1>1, <1>2, <1>4

LEMMA SlipHeights ==
  ASSUME NEW ref \in References
  PROVE  /\ SlipY(ref, 0) \in Nat /\ SlipY(ref, 0) <= HalfHeight
         /\ SlipY(ref, 1) = SlipY(ref, 0) + HalfHeight
<1>1. ref \in Nat /\ ref >= 24210 /\ ref <= 363080
  BY SMT DEF References
<1>2. CopyHeight = 351667
  BY SMT DEF CopyHeight, Scaled
<1>3. CopyTop(0) = 58166 /\ CopyTop(1) = 526166
  BY <1>2, SMT DEF CopyTop, HalfHeight
<1>4. Scaled(ref - 24210) \in Nat /\ Scaled(ref - 24210) <= 349590
  BY <1>1, SMT DEF Scaled
<1> QED BY <1>3, <1>4, SMT DEF SlipY, HalfHeight

Mark(ref, copy, size) == [at |-> SlipY(ref, copy), size |-> size]

\* A copy that has begun consists of marks that are drawn and marks to be drawn; the first is
\* finished before the second begins.
SlipInv ==
  /\ fit \in [key : DOMAIN Fields \union {"none"}, width : Nat, size : Nat]
  /\ fit # NoFit => fit.size >= MinTextSize
  /\ slip \in [copy : {0, 1}, todo : Seq(References), marks : [0..1 -> Seq([at : Nat, size : Nat])],
               oversize : BOOLEAN]
  /\ \A c \in 0..1 : \A i \in 1..Len(slip.marks[c]) :
       i <= Len(AllMarks) /\ slip.marks[c][i] = Mark(AllMarks[i], c, fit.size)
  /\ slip.todo # <<>> \/ slip.marks[slip.copy] # <<>> =>
       /\ Len(slip.marks[slip.copy]) + Len(slip.todo) = Len(AllMarks)
       /\ \A i \in 1..Len(slip.todo) : slip.todo[i] = AllMarks[Len(slip.marks[slip.copy]) + i]
       /\ slip.oversize \/ ~TooWide(fit, fit.size)
  /\ slip.copy = 0 => slip.marks[1] = <<>>
  /\ slip.copy = 1 => /\ Len(slip.marks[0]) = Len(AllMarks)
                      /\ slip.todo # <<>> \/ slip.marks[1] # <<>>

LEMMA SlipStarts ==
  ASSUME SlipInit \/ SlipIdle
  PROVE  SlipInv
<1> DEFINE none == [c \in 0..1 |-> <<>>]
<1>1. slip = [copy |-> 0, todo |-> <<>>, marks |-> none, oversize |-> FALSE]
  BY DEF SlipInit, SlipIdle, NoSlip
<1>2. none \in [0..1 -> Seq([at : Nat, size : Nat])] /\ none[0] = <<>> /\ none[1] = <<>>
  OBVIOUS
<1> HIDE DEF none
<1>3. /\ slip.copy = 0 /\ slip.todo = <<>> /\ slip.marks[0] = <<>> /\ slip.marks[1] = <<>>
      /\ slip \in [copy : {0, 1}, todo : Seq(References), marks : [0..1 -> Seq([at : Nat, size : Nat])],
                   oversize : BOOLEAN]
  BY <1>1, <1>2
<1>4. \A c \in 0..1 : slip.marks[c] = <<>>
  BY <1>3
<1>5. fit \in [key : DOMAIN Fields \union {"none"}, width : Nat, size : Nat] /\ (fit # NoFit => fit.size >= MinTextSize)
  <2>1. CASE SlipIdle
    BY <2>1 DEF SlipIdle, NoFit
  <2>2. CASE SlipInit
    <3>1. PICK k \in DOMAIN Fields, w \in TextWidths : fit = [key |-> k, width |-> w, size |-> Fields[k].size]
      BY <2>2 DEF SlipInit
    <3>2. Fields[k].size \in Nat /\ Fields[k].size >= 6000
      BY <3>1, SMT DEF Fields
    <3>3. fit \in [key : DOMAIN Fields \union {"none"}, width : Nat, size : Nat] /\ fit.size >= 6000
      BY <3>1, <3>2, LayoutAssumption, SMT
    <3> QED BY <3>3, SMT DEF MinTextSize
  <2> QED BY <2>1, <2>2
<1> QED BY <1>3, <1>4, <1>5 DEF SlipInv

LEMMA NothingMarked ==
  ASSUME SlipInv, slip.todo = <<>>, slip.marks = NoSlip.marks
  PROVE  slip.copy = 0 /\ slip.marks[0] = <<>> /\ slip.marks[1] = <<>>
<1>1. slip.marks[0] = <<>> /\ slip.marks[1] = <<>>
  BY DEF NoSlip
<1> QED BY <1>1 DEF SlipInv

LEMMA ValueShrinks ==
  ASSUME SlipInv, Shrink
  PROVE  SlipInv'
<1>1. slip.copy = 0 /\ slip.todo = <<>> /\ slip.marks[0] = <<>> /\ slip.marks[1] = <<>>
  BY NothingMarked DEF Shrink
<1>2. fit # NoFit /\ slip' = slip /\ fit' = [fit EXCEPT !.size = Larger(MinTextSize, Hundredths(@ - FitStep))]
      /\ fit.size > MinTextSize
  BY DEF Shrink
<1>3. fit \in [key : DOMAIN Fields \union {"none"}, width : Nat, size : Nat]
  BY DEF SlipInv
<1> DEFINE size == Larger(MinTextSize, Hundredths(fit.size - FitStep))
<1>4. size \in Nat /\ size >= MinTextSize
  BY <1>2, <1>3, SMT DEF Larger, Hundredths, FitStep, MinTextSize
<1>5. fit' = [fit EXCEPT !.size = size]
  BY <1>2
<1> HIDE DEF size
<1>6. fit' \in [key : DOMAIN Fields \union {"none"}, width : Nat, size : Nat] /\ fit'.size >= MinTextSize
  BY <1>3, <1>4, <1>5
<1>7. \A c \in 0..1 : slip'.marks[c] = <<>>
  BY <1>1, <1>2
<1>8. slip' \in [copy : {0, 1}, todo : Seq(References), marks : [0..1 -> Seq([at : Nat, size : Nat])],
                 oversize : BOOLEAN]
  BY <1>2 DEF SlipInv
<1> QED BY <1>1, <1>2, <1>6, <1>7, <1>8 DEF SlipInv

LEMMA PageAdded ==
  ASSUME SlipInv, AddPage
  PROVE  SlipInv'
<1>1. slip.copy = 0 /\ slip.todo = <<>> /\ slip.marks[0] = <<>> /\ slip.marks[1] = <<>>
  BY NothingMarked DEF AddPage
<1> DEFINE reported == fit.size <= MinTextSize /\ TooWide(fit, MinTextSize)
<1>2. /\ fit # NoFit /\ fit' = fit
      /\ slip' = [slip EXCEPT !.todo = AllMarks, !.oversize = reported]
      /\ fit.size <= MinTextSize \/ ~TooWide(fit, fit.size)
  BY DEF AddPage, AllMarks
<1>3. fit.size \in Nat /\ fit.size >= MinTextSize /\ MinTextSize \in Nat
  BY <1>2 DEF SlipInv, MinTextSize
<1>4. reported \/ ~TooWide(fit, fit.size)
  <2>1. fit.size <= MinTextSize => fit.size = MinTextSize
    BY <1>3
  <2> QED BY <1>2, <2>1
<1>5. reported \in BOOLEAN
  BY Zenon
<1> HIDE DEF reported
<1>6. /\ slip'.todo = AllMarks /\ slip'.oversize = reported
      /\ slip'.copy = slip.copy /\ slip'.marks = slip.marks
      /\ slip' \in [copy : {0, 1}, todo : Seq(References), marks : [0..1 -> Seq([at : Nat, size : Nat])],
                    oversize : BOOLEAN]
  BY <1>2, <1>5, MarksAreReferences DEF SlipInv
<1>7. slip'.oversize \/ ~TooWide(fit, fit.size)
  BY <1>4, <1>6
<1>8. \A c \in 0..1 : slip'.marks[c] = <<>>
  BY <1>1, <1>6
<1>9. /\ Len(slip'.marks[0]) + Len(slip'.todo) = Len(AllMarks)
      /\ \A i \in 1..Len(slip'.todo) : slip'.todo[i] = AllMarks[Len(slip'.marks[0]) + i]
  BY <1>6, <1>8, MarksAreReferences
<1>10. TooWide(fit, fit.size)' = TooWide(fit, fit.size)
  BY <1>2 DEF TooWide
<1> QED BY <1>1, <1>2, <1>6, <1>7, <1>8, <1>9, <1>10 DEF SlipInv

\* One goes from the sequence of what is to be done to that of what is done.
LEMMA OneMore ==
  ASSUME NEW S, NEW R, NEW done \in Seq(S), NEW rest \in Seq(R), rest # <<>>, NEW m \in S
  PROVE  /\ Append(done, m) \in Seq(S) /\ Append(done, m) # <<>>
         /\ Len(done) \in Nat /\ Len(Append(done, m)) = Len(done) + 1
         /\ Append(done, m)[Len(done) + 1] = m
         /\ \A i \in 1..Len(done) : Append(done, m)[i] = done[i]
         /\ Head(rest) \in R /\ Head(rest) = rest[1]
         /\ Tail(rest) \in Seq(R) /\ Len(rest) \in Nat \ {0} /\ Len(Tail(rest)) = Len(rest) - 1
         /\ \A i \in 1..Len(Tail(rest)) : Tail(rest)[i] = rest[i + 1]
OBVIOUS

LEMMA MarkDrawn ==
  ASSUME SlipInv, DrawMark
  PROVE  SlipInv'
<1> DEFINE c == slip.copy
           done == slip.marks[c]
           rest == slip.todo
           mark == Mark(Head(slip.todo), c, fit.size)
           more == Append(done, mark)
           n == Len(done)
           Spots == [at : Nat, size : Nat]
           SlipTypes == [copy : {0, 1}, todo : Seq(References), marks : [0..1 -> Seq(Spots)], oversize : BOOLEAN]
<1>1. /\ rest # <<>> /\ fit' = fit
      /\ slip' = [slip EXCEPT !.marks[c] = more, !.todo = Tail(rest)]
  BY DEF DrawMark, Mark
<1>2. slip \in SlipTypes /\ c \in {0, 1}
  BY DEF SlipInv
<1>3. done \in Seq(Spots) /\ rest \in Seq(References) /\ slip.marks \in [0..1 -> Seq(Spots)]
  BY <1>2
<1>4. /\ n + Len(rest) = Len(AllMarks)
      /\ \A i \in 1..Len(rest) : rest[i] = AllMarks[n + i]
      /\ slip.oversize \/ ~TooWide(fit, fit.size)
  BY <1>1 DEF SlipInv
<1>5. \A d \in 0..1 : \A i \in 1..Len(slip.marks[d]) :
        i <= Len(AllMarks) /\ slip.marks[d][i] = Mark(AllMarks[i], d, fit.size)
  BY DEF SlipInv
<1>6. fit.size \in Nat
  BY DEF SlipInv
<1>7. HalfHeight \in Nat
  BY SMT DEF HalfHeight
<1>8. /\ c = 0 => slip.marks[1] = <<>>
      /\ c = 1 => Len(slip.marks[0]) = Len(AllMarks)
  BY DEF SlipInv
<1> HIDE DEF Spots
<1>9. Head(rest) \in References
  BY <1>1, <1>3, OneMore
<1>10. SlipY(Head(rest), c) \in Nat
  BY <1>2, <1>7, <1>9, SlipHeights, SMT
<1>11. mark \in Spots
  BY <1>6, <1>10 DEF Mark, Spots
<1> HIDE DEF mark, done, rest
<1>12. /\ more \in Seq(Spots) /\ more # <<>> /\ n \in Nat /\ Len(more) = n + 1
       /\ more[n + 1] = mark /\ \A i \in 1..n : more[i] = done[i]
       /\ Head(rest) = rest[1] /\ Tail(rest) \in Seq(References)
       /\ Len(rest) \in Nat \ {0} /\ Len(Tail(rest)) = Len(rest) - 1
       /\ \A i \in 1..Len(Tail(rest)) : Tail(rest)[i] = rest[i + 1]
  BY <1>1, <1>3, <1>11, OneMore
<1>13. mark = Mark(AllMarks[n + 1], c, fit.size)
  <2>1. 1 \in 1..Len(rest)
    BY <1>12
  <2> QED BY <1>4, <1>12, <2>1 DEF mark, rest
<1>14. slip.marks[c] = done
  BY DEF done
<1> HIDE DEF n, more
<1>15. /\ slip' \in SlipTypes /\ slip'.copy = c /\ slip'.todo = Tail(rest) /\ slip'.oversize = slip.oversize
       /\ slip'.marks = [slip.marks EXCEPT ![c] = more]
  BY <1>1, <1>2, <1>3, <1>12 DEF more, done
<1>16. c \in 0..1
  BY <1>2
<1>17. slip'.marks[c] = more /\ \A d \in 0..1 : d # c => slip'.marks[d] = slip.marks[d]
  BY <1>3, <1>15, <1>16
<1> HIDE DEF c
<1>18. ASSUME NEW i \in 1..Len(more)
       PROVE  i <= Len(AllMarks) /\ more[i] = Mark(AllMarks[i], c, fit.size)
  <2>1. CASE i = n + 1
    <3>1. n + 1 <= Len(AllMarks)
      BY <1>4, <1>12, MarksAreReferences
    <3> QED BY <1>12, <1>13, <2>1, <3>1
  <2>2. CASE i # n + 1
    <3>1. i \in 1..n
      BY <1>12, <2>2
    <3>2. i <= Len(AllMarks) /\ slip.marks[c][i] = Mark(AllMarks[i], c, fit.size)
      BY <1>5, <1>14, <1>16, <3>1 DEF n
    <3> QED BY <1>12, <1>14, <3>1, <3>2
  <2> QED BY <2>1, <2>2
<1>19. \A d \in 0..1 : \A i \in 1..Len(slip'.marks[d]) :
         i <= Len(AllMarks) /\ slip'.marks[d][i] = Mark(AllMarks[i], d, fit.size)
  <2> SUFFICES ASSUME NEW d \in 0..1, NEW i \in 1..Len(slip'.marks[d])
               PROVE  i <= Len(AllMarks) /\ slip'.marks[d][i] = Mark(AllMarks[i], d, fit.size)
    OBVIOUS
  <2>1. CASE d = c
    BY <1>17, <1>18, <2>1
  <2>2. CASE d # c
    BY <1>5, <1>17, <2>2
  <2> QED BY <2>1, <2>2
<1>20. /\ Len(more) + Len(Tail(rest)) = Len(AllMarks)
       /\ \A i \in 1..Len(Tail(rest)) : Tail(rest)[i] = AllMarks[Len(more) + i]
  <2>1. Len(more) + Len(Tail(rest)) = Len(AllMarks)
    BY <1>4, <1>12
  <2>2. ASSUME NEW i \in 1..Len(Tail(rest))
        PROVE  Tail(rest)[i] = AllMarks[Len(more) + i]
    <3>1. i + 1 \in 1..Len(rest) /\ n + (i + 1) = (n + 1) + i
      BY <1>12
    <3> QED BY <1>4, <1>12, <3>1
  <2> QED BY <2>1, <2>2
<1>21. TooWide(fit, fit.size)' = TooWide(fit, fit.size)
  BY <1>1 DEF TooWide
<1>22. slip'.oversize \/ ~TooWide(fit', fit'.size)
  BY <1>1, <1>4, <1>15
<1>23. fit' \in [key : DOMAIN Fields \union {"none"}, width : Nat, size : Nat] /\ (fit' # NoFit => fit'.size >= MinTextSize)
  BY <1>1 DEF SlipInv
<1>24. slip'.copy = 0 => slip'.marks[1] = <<>>
  BY <1>8, <1>15, <1>17
<1>25. slip'.copy = 1 => Len(slip'.marks[0]) = Len(AllMarks) /\ slip'.marks[1] # <<>>
  BY <1>8, <1>12, <1>15, <1>17
<1>26. /\ Len(slip'.marks[slip'.copy]) + Len(slip'.todo) = Len(AllMarks)
       /\ \A i \in 1..Len(slip'.todo) : slip'.todo[i] = AllMarks[Len(slip'.marks[slip'.copy]) + i]
  BY <1>15, <1>17, <1>20
<1>27. \A d \in 0..1 : \A i \in 1..Len(slip'.marks[d]) :
         i <= Len(AllMarks) /\ slip'.marks[d][i] = Mark(AllMarks[i], d, fit'.size)
  BY <1>1, <1>19
<1> QED BY <1>15, <1>22, <1>23, <1>24, <1>25, <1>26, <1>27 DEF SlipInv, Spots

LEMMA SecondCopyBegins ==
  ASSUME SlipInv, SecondCopy
  PROVE  SlipInv'
<1>1. /\ slip.todo = <<>> /\ slip.marks # NoSlip.marks /\ slip.copy = 0 /\ fit' = fit
      /\ slip' = [slip EXCEPT !.copy = 1, !.todo = AllMarks]
  BY DEF SecondCopy, AllMarks
<1>2. slip \in [copy : {0, 1}, todo : Seq(References), marks : [0..1 -> Seq([at : Nat, size : Nat])],
                oversize : BOOLEAN]
  BY DEF SlipInv
<1>3. slip.marks[1] = <<>>
  BY <1>1 DEF SlipInv
<1>4. slip.marks[0] # <<>>
  <2>1. ASSUME slip.marks[0] = <<>>
        PROVE  slip.marks = NoSlip.marks
    <3>1. \A c \in 0..1 : slip.marks[c] = <<>>
      BY <1>3, <2>1
    <3>2. slip.marks = [c \in 0..1 |-> <<>>]
      BY <1>2, <3>1
    <3> QED BY <3>2 DEF NoSlip
  <2> QED BY <1>1, <2>1
<1>5. Len(slip.marks[0]) = Len(AllMarks) /\ (slip.oversize \/ ~TooWide(fit, fit.size))
  <2>1. Len(slip.marks[0]) + Len(slip.todo) = Len(AllMarks) /\ (slip.oversize \/ ~TooWide(fit, fit.size))
    BY <1>1, <1>4 DEF SlipInv
  <2>2. Len(slip.marks[0]) \in Nat /\ Len(slip.todo) = 0
    BY <1>1, <1>2
  <2> QED BY <2>1, <2>2
<1>6. /\ slip'.copy = 1 /\ slip'.todo = AllMarks /\ slip'.marks = slip.marks /\ slip'.oversize = slip.oversize
      /\ slip' \in [copy : {0, 1}, todo : Seq(References), marks : [0..1 -> Seq([at : Nat, size : Nat])],
                    oversize : BOOLEAN]
  BY <1>1, <1>2, MarksAreReferences
<1>7. /\ Len(slip'.marks[1]) + Len(slip'.todo) = Len(AllMarks)
      /\ \A i \in 1..Len(slip'.todo) : slip'.todo[i] = AllMarks[Len(slip'.marks[1]) + i]
  BY <1>3, <1>6, MarksAreReferences
<1>8. TooWide(fit, fit.size)' = TooWide(fit, fit.size)
  BY <1>1 DEF TooWide
<1>9. slip'.todo # <<>>
  BY <1>6, MarksAreReferences
<1> QED BY <1>1, <1>5, <1>6, <1>7, <1>8, <1>9 DEF SlipInv

LEMMA PlacesOf ==
  ASSUME NEW S, NEW s \in Seq(S), NEW i \in DOMAIN s
  PROVE  i \in 1..Len(s) /\ i \in Nat
OBVIOUS

LEMMA SlipHolds ==
  ASSUME SlipInv
  PROVE  CopiesAreAlike
<1> DEFINE original == slip.marks[0]
           duplicate == slip.marks[1]
<1>1. \A c \in 0..1 : \A i \in 1..Len(slip.marks[c]) :
        i <= Len(AllMarks) /\ slip.marks[c][i] = Mark(AllMarks[i], c, fit.size)
  BY DEF SlipInv
<1>2. original \in Seq([at : Nat, size : Nat]) /\ duplicate \in Seq([at : Nat, size : Nat])
  BY DEF SlipInv
<1>3. HalfHeight \in Nat
  BY SMT DEF HalfHeight
<1>4. ASSUME NEW i \in 1..Len(AllMarks)
      PROVE  /\ SlipY(AllMarks[i], 0) \in Nat /\ SlipY(AllMarks[i], 0) <= HalfHeight
             /\ SlipY(AllMarks[i], 1) = SlipY(AllMarks[i], 0) + HalfHeight
  <2>1. AllMarks[i] \in References
    BY MarksAreReferences
  <2> QED BY <2>1, SlipHeights
<1>5. ASSUME NEW i \in DOMAIN original
      PROVE  original[i].at \in 0..HalfHeight
  <2>1. i \in 1..Len(original) /\ i \in Nat
    BY <1>2, PlacesOf
  <2>2. i \in 1..Len(AllMarks) /\ original[i] = Mark(AllMarks[i], 0, fit.size)
    BY <1>1, <2>1, MarksAreReferences
  <2>3. original[i].at = SlipY(AllMarks[i], 0)
    BY <2>2 DEF Mark
  <2> HIDE DEF original
  <2> QED BY <1>3, <1>4, <2>2, <2>3
<1>6. ASSUME NEW i \in DOMAIN duplicate
      PROVE  /\ duplicate[i].at \in HalfHeight..(2 * HalfHeight)
             /\ duplicate[i] = [original[i] EXCEPT !.at = @ + HalfHeight]
  <2>1. i \in 1..Len(duplicate) /\ i \in Nat
    BY <1>2, PlacesOf
  <2>2. i \in 1..Len(AllMarks) /\ duplicate[i] = Mark(AllMarks[i], 1, fit.size)
    BY <1>1, <2>1, MarksAreReferences
  <2>3. slip.copy = 1
    <3>1. duplicate # <<>> /\ slip.copy \in {0, 1}
      BY <1>2, <2>1 DEF SlipInv
    <3> QED BY <3>1 DEF SlipInv
  <2>4. Len(original) = Len(AllMarks)
    BY <2>3 DEF SlipInv
  <2>5. original[i] = Mark(AllMarks[i], 0, fit.size)
    BY <1>1, <2>2, <2>4
  <2> HIDE DEF original, duplicate
  <2>6. duplicate[i] = [original[i] EXCEPT !.at = @ + HalfHeight]
    BY <1>4, <2>2, <2>5 DEF Mark
  <2>7. duplicate[i].at = SlipY(AllMarks[i], 0) + HalfHeight
    BY <1>4, <2>2 DEF Mark
  <2> QED BY <1>3, <1>4, <2>2, <2>6, <2>7
<1>7. ASSUME original # <<>>
      PROVE  slip.oversize \/ ~TooWide(fit, fit.size)
  <2>1. CASE slip.copy = 0
    BY <1>7, <2>1 DEF SlipInv
  <2>2. CASE slip.copy = 1
    BY <2>2 DEF SlipInv
  <2> QED BY <2>1, <2>2 DEF SlipInv
<1> QED BY <1>5, <1>6, <1>7 DEF CopiesAreAlike

-----------------------------------------------------------------------------

LEMMA SheetsStart ==
  ASSUME LayoutInit \/ LayoutIdle
  PROVE  FormInv /\ SlipInv
BY FormStarts, SlipStarts DEF LayoutInit, LayoutIdle

LEMMA SheetsKeep ==
  ASSUME FormInv, SlipInv, LayoutNext
  PROVE  FormInv' /\ SlipInv'
<1>1. CASE BuildForm \/ DrawRow
  <2>1. fit' = fit /\ slip' = slip
    BY <1>1 DEF BuildForm, DrawRow
  <2>2. SlipInv'
    BY <2>1 DEF SlipInv, TooWide
  <2> QED BY <1>1, <2>2, FormBuilt, FormRowDrawn
<1>2. CASE Shrink \/ AddPage \/ DrawMark \/ SecondCopy
  <2>1. form' = form /\ todo' = todo /\ y' = y /\ right' = right
    BY <1>2 DEF Shrink, AddPage, DrawMark, SecondCopy
  <2>2. FormInv'
    BY <2>1 DEF FormInv
  <2> QED BY <1>2, <2>2, ValueShrinks, PageAdded, MarkDrawn, SecondCopyBegins
<1> QED BY <1>1, <1>2 DEF LayoutNext

LEMMA SheetsRest ==
  ASSUME FormInv, SlipInv, UNCHANGED layoutVars
  PROVE  FormInv' /\ SlipInv'
BY DEF FormInv, SlipInv, TooWide, layoutVars

\* For any numbers of dakos and reservists and any texts: the form fits exactly when it says so, gives
\* way as it promises, its rows end on one line, and the two copies of a slip are one.
THEOREM SheetsAlwaysHold == Spec => []SheetsHold
<1>1. Init => FormInv /\ SlipInv
  BY SheetsStart DEF Init
<1>2. FormInv /\ SlipInv /\ [Next]_interfaceVars => FormInv' /\ SlipInv'
  BY OnePaperAtATime, SheetsKeep, SheetsRest
<1>3. FormInv /\ SlipInv => SheetsHold
  BY FormHolds, SlipHolds DEF SheetsHold
<1> QED BY <1>1, <1>2, <1>3, PTL DEF Spec

-----------------------------------------------------------------------------
(* Documents: a form lists what one statement read of the rows and another of the dakos,    *)
(* a report counts what is left of the rows when they are renamed one to one.               *)

(* Lists *)

\* What InOrder gives: every number of a finite set, once.
LEMMA NumbersInOrder ==
  ASSUME NEW S, S \subseteq Nat, IsFiniteSet(S)
  PROVE  \E q \in SetToSeqs(S) : \A i, j \in DOMAIN q : i < j => q[i] < q[j]
<1> DEFINE n == Cardinality(S)
           Below(x) == {m \in S : m < x}
           rank == [x \in S |-> Cardinality(Below(x)) + 1]
<1>1. n \in Nat
  BY FS_CardinalityType
<1>2. ASSUME NEW x \in S PROVE IsFiniteSet(Below(x)) /\ Cardinality(Below(x)) \in 0..(n - 1)
  <2>1. IsFiniteSet(S \ {x}) /\ Cardinality(S \ {x}) = n - 1
    BY FS_RemoveElement
  <2>2. Below(x) \subseteq S \ {x}
    OBVIOUS
  <2>3. IsFiniteSet(Below(x)) /\ Cardinality(Below(x)) <= Cardinality(S \ {x})
    BY <2>1, <2>2, FS_Subset
  <2>4. Cardinality(Below(x)) \in Nat
    BY <2>3, FS_CardinalityType
  <2> QED BY <1>1, <2>1, <2>3, <2>4
<1>3. ASSUME NEW x \in S, NEW z \in S, x < z PROVE Cardinality(Below(x)) < Cardinality(Below(z))
  <2>1. x \notin Below(x)
    OBVIOUS
  <2>2. IsFiniteSet(Below(x) \union {x}) /\ Cardinality(Below(x) \union {x}) = Cardinality(Below(x)) + 1
    BY <1>2, <2>1, FS_AddElement
  <2>3. Below(x) \union {x} \subseteq Below(z)
    <3>1. x \in Nat /\ z \in Nat /\ \A m \in S : m \in Nat
      OBVIOUS
    <3>2. \A m \in S : m < x => m < z
      BY <1>3, <3>1
    <3> QED BY <1>3, <3>2
  <2>4. Cardinality(Below(x) \union {x}) <= Cardinality(Below(z))
    BY <1>2, <2>3, FS_Subset
  <2> HIDE DEF n, Below
  <2> QED BY <1>1, <1>2, <2>2, <2>4
<1> HIDE DEF Below
<1>4. rank \in [S -> 1..n]
  BY <1>1, <1>2
<1>5. \A x, z \in S : x < z => rank[x] < rank[z]
  BY <1>1, <1>2, <1>3
<1> HIDE DEF rank
<1>6. \A x, z \in S : rank[x] = rank[z] => x = z
  <2>1. \A x \in S : rank[x] \in Nat /\ x \in Nat
    BY <1>1, <1>4
  <2> QED BY <1>5, <2>1
<1> HIDE DEF n
<1>7. rank \in Injection(S, 1..n)
  BY <1>4, <1>6, Fun_IsInj
<1>8. IsFiniteSet(1..n) /\ Cardinality(1..n) = n
  BY <1>1, FS_Interval
<1>9. rank \in Surjection(S, 1..n)
  BY <1>7, <1>8, FS_Injection DEF n
<1>10. \A i \in 1..n : \E x \in S : rank[x] = i
  BY <1>4, <1>9 DEF Surjection
<1> DEFINE q == [i \in 1..n |-> CHOOSE x \in S : rank[x] = i]
<1>11. q \in [1..n -> S] /\ \A i \in 1..n : rank[q[i]] = i
  BY <1>10
<1> HIDE DEF q
<1>12. \A i, j \in 1..n : i # j => q[i] # q[j]
  BY <1>11
<1>13. q \in SetToSeqs(S)
  BY <1>11, <1>12 DEF SetToSeqs, n
<1>14. ASSUME NEW i \in 1..n, NEW j \in 1..n, i < j PROVE q[i] < q[j]
  <2>1. q[i] \in S /\ q[j] \in S /\ q[i] \in Nat /\ q[j] \in Nat
    BY <1>11
  <2>3. i # j
    BY <1>1, <1>14
  <2>4. q[i] # q[j]
    BY <1>12, <2>3
  <2>2. ~(q[j] < q[i])
    <3>1. rank[q[i]] = i /\ rank[q[j]] = j
      BY <1>11
    <3> SUFFICES ASSUME q[j] < q[i] PROVE FALSE
      OBVIOUS
    <3>2. j < i
      BY <1>5, <2>1, <3>1
    <3> QED BY <1>1, <1>14, <3>2
  <2> QED BY <2>1, <2>2, <2>4
<1>15. DOMAIN q = 1..n
  BY <1>11
<1> QED BY <1>13, <1>14, <1>15

LEMMA InOrderIs ==
  ASSUME NEW S, S \subseteq Nat, IsFiniteSet(S)
  PROVE  \E n \in Nat :
           /\ InOrder(S) \in [1..n -> S]
           /\ \A i, j \in 1..n : i # j => InOrder(S)[i] # InOrder(S)[j]
           /\ \A x \in S : \E i \in 1..n : InOrder(S)[i] = x
<1> DEFINE n == Cardinality(S)
           q == InOrder(S)
<1>1. n \in Nat
  BY FS_CardinalityType
<1>2. q \in SetToSeqs(S)
  BY NumbersInOrder DEF InOrder
<1>3. q \in [1..n -> S] /\ \A i, j \in 1..n : i # j => q[i] # q[j]
  BY <1>2 DEF SetToSeqs
<1> HIDE DEF n, q
<1>4. q \in Injection(1..n, S)
  BY <1>3, Fun_IsInj
<1>5. Cardinality(1..n) = Cardinality(S)
  BY <1>1, FS_Interval DEF n
<1>6. q \in Surjection(1..n, S)
  BY <1>4, <1>5, FS_Injection
<1>7. \A x \in S : \E i \in 1..n : q[i] = x
  BY <1>3, <1>6 DEF Surjection
<1> QED BY <1>1, <1>3, <1>7 DEF q

-----------------------------------------------------------------------------
(* What is read *)

\* The rows of a week, as the unique indexes keep them.
IsPlan(plan) ==
  /\ IsFiniteSet(plan)
  /\ \A r \in plan :
       /\ r.dako \in Dakos /\ r.type \in Types /\ r.teacher \in Teachers /\ r.source \in Sources
       /\ \A q \in plan \ {r} : q.teacher # r.teacher /\ (q.dako # r.dako \/ q.type # r.type)

LEMMA PlansArePlans == \A plan \in Plans \union {{}} : IsPlan(plan)
<1>1. \A plan \in Plans : IsPlan(plan)
  BY PapersAssumption DEF IsPlan
<1>2. IsPlan({})
  BY FS_EmptySet DEF IsPlan
<1> QED BY <1>1, <1>2

\* The teacher of a slot, in a set of rows.
WhoAt(plan, d, type) ==
  LET who == {r.teacher : r \in {q \in plan : q.dako = d /\ q.type = type}}
  IN IF who = {} THEN Nobody ELSE CHOOSE t \in who : TRUE

LEMMA WhoIs ==
  ASSUME NEW plan, IsPlan(plan)
  PROVE  /\ \A r \in plan : WhoAt(plan, r.dako, r.type) = r.teacher
         /\ \A r \in plan : r.teacher # Nobody
         /\ \A d, type : WhoAt(plan, d, type) # Nobody =>
              \E r \in plan : r.dako = d /\ r.type = type /\ r.teacher = WhoAt(plan, d, type)
<1> DEFINE Who(d, type) == {r.teacher : r \in {q \in plan : q.dako = d /\ q.type = type}}
<1>1. ASSUME NEW r \in plan PROVE Who(r.dako, r.type) = {r.teacher}
  <2>1. \A q \in plan : q.dako = r.dako /\ q.type = r.type => q = r
    BY DEF IsPlan
  <2> QED BY <2>1
<1>2. \A r \in plan : WhoAt(plan, r.dako, r.type) = r.teacher
  BY <1>1 DEF WhoAt
<1>3. \A r \in plan : r.teacher # Nobody
  BY PapersAssumption DEF IsPlan
<1>4. ASSUME NEW d, NEW type, WhoAt(plan, d, type) # Nobody
      PROVE  \E r \in plan : r.dako = d /\ r.type = type /\ r.teacher = WhoAt(plan, d, type)
  <2>1. Who(d, type) # {}
    BY <1>4 DEF WhoAt
  <2>2. WhoAt(plan, d, type) \in Who(d, type)
    BY <2>1 DEF WhoAt
  <2> QED BY <2>2
<1> QED BY <1>2, <1>3, <1>4

\* Lines of the given dakos, each once, with the teacher of its slot or nobody.
Listing(lines, plan, type, dakos) ==
  \E n \in Nat :
    /\ DOMAIN lines = 1..n
    /\ \A i \in 1..n : /\ lines[i] = [dako |-> lines[i].dako, who |-> WhoAt(plan, lines[i].dako, type)]
                       /\ lines[i].dako \in dakos
    /\ \A i, j \in 1..n : i # j => lines[i].dako # lines[j].dako
    /\ \A d \in dakos : \E i \in 1..n : lines[i].dako = d

LEMMA LinesList ==
  ASSUME NEW base, base.dakos \subseteq Nat, IsFiniteSet(base.dakos), NEW type
  PROVE  Listing(Lines(base, type), base.rows, type, base.dakos)
<1> DEFINE order == InOrder(base.dakos)
           lines == Lines(base, type)
<1>1. PICK n \in Nat :
        /\ order \in [1..n -> base.dakos]
        /\ \A i, j \in 1..n : i # j => order[i] # order[j]
        /\ \A x \in base.dakos : \E i \in 1..n : order[i] = x
  BY InOrderIs
<1> HIDE DEF order
<1>2. lines = [i \in DOMAIN order |-> [dako |-> order[i], who |-> WhoAt(base.rows, order[i], type)]]
  BY DEF Lines, WhoAt, order
<1> HIDE DEF lines
<1>3. DOMAIN lines = 1..n /\ \A i \in 1..n : lines[i] = [dako |-> order[i], who |-> WhoAt(base.rows, order[i], type)]
  BY <1>1, <1>2
<1>4. \A i \in 1..n : lines[i].dako = order[i] /\ order[i] \in base.dakos
  BY <1>1, <1>3
<1>5. \A i \in 1..n : lines[i] = [dako |-> lines[i].dako, who |-> WhoAt(base.rows, lines[i].dako, type)]
  BY <1>3, <1>4
<1>6. \A i, j \in 1..n : i # j => lines[i].dako # lines[j].dako
  BY <1>1, <1>4
<1>7. \A d \in base.dakos : \E i \in 1..n : lines[i].dako = d
  BY <1>1, <1>4
<1>8. Listing(lines, base.rows, type, base.dakos)
  BY <1>3, <1>4, <1>5, <1>6, <1>7 DEF Listing
<1> QED BY <1>8 DEF lines

Filled(plan, type, dakos) == {d \in dakos : WhoAt(plan, d, type) # Nobody}

LEMMA NamedList ==
  ASSUME NEW lines, NEW plan, NEW type, NEW dakos, Listing(lines, plan, type, dakos)
  PROVE  Listing(Named(lines), plan, type, Filled(plan, type, dakos))
<1>1. PICK n \in Nat :
        /\ DOMAIN lines = 1..n
        /\ \A i \in 1..n : /\ lines[i] = [dako |-> lines[i].dako, who |-> WhoAt(plan, lines[i].dako, type)]
                           /\ lines[i].dako \in dakos
        /\ \A i, j \in 1..n : i # j => lines[i].dako # lines[j].dako
        /\ \A d \in dakos : \E i \in 1..n : lines[i].dako = d
  BY DEF Listing
<1> DEFINE S == {i \in DOMAIN lines : lines[i].who # Nobody}
           places == InOrder(S)
           named == Named(lines)
<1>2. S \subseteq 1..n /\ S \subseteq Nat
  BY <1>1
<1>3. IsFiniteSet(S)
  BY <1>1, <1>2, FS_Interval, FS_Subset
<1>4. \A i \in 1..n : i \in S <=> WhoAt(plan, lines[i].dako, type) # Nobody
  BY <1>1
<1>5. named = [i \in DOMAIN places |-> lines[places[i]]]
  BY DEF Named
<1> HIDE DEF S, named
<1>6. PICK m \in Nat :
        /\ places \in [1..m -> S]
        /\ \A i, j \in 1..m : i # j => places[i] # places[j]
        /\ \A x \in S : \E i \in 1..m : places[i] = x
  BY <1>2, <1>3, InOrderIs
<1> HIDE DEF places
<1>7. DOMAIN named = 1..m /\ \A i \in 1..m : named[i] = lines[places[i]] /\ places[i] \in S /\ places[i] \in 1..n
  BY <1>2, <1>5, <1>6
<1>8. \A i \in 1..m : /\ named[i] = [dako |-> named[i].dako, who |-> WhoAt(plan, named[i].dako, type)]
                      /\ named[i].dako \in Filled(plan, type, dakos)
  BY <1>1, <1>4, <1>7 DEF Filled
<1>9. \A i, j \in 1..m : i # j => named[i].dako # named[j].dako
  BY <1>1, <1>6, <1>7
<1>10. ASSUME NEW d \in Filled(plan, type, dakos)
       PROVE  \E i \in 1..m : named[i].dako = d
  <2>1. PICK k \in 1..n : lines[k].dako = d
    BY <1>1 DEF Filled
  <2>2. k \in S
    BY <1>4, <2>1 DEF Filled
  <2>3. PICK i \in 1..m : places[i] = k
    BY <1>6, <2>2
  <2> QED BY <1>7, <2>1, <2>3
<1> QED BY <1>7, <1>8, <1>9, <1>10 DEF Listing, named
-----------------------------------------------------------------------------
(* The slips *)

\* What a slip says is a row of the plan.
SlipOfRow(r) == [dako |-> r.dako, who |-> r.teacher, type |-> r.type]

\* Slips of rows of the given sections at the given dakos, each once and all of them.
SlipListing(slips, plan, types, dakos) ==
  \E n \in Nat :
    /\ DOMAIN slips = 1..n
    /\ slips \in Seq({SlipOfRow(r) : r \in {q \in plan : q.type \in types /\ q.dako \in dakos}})
    /\ \A i, j \in 1..n : i # j => slips[i] # slips[j]
    /\ \A r \in plan : r.type \in types /\ r.dako \in dakos => \E i \in 1..n : slips[i] = SlipOfRow(r)

\* The slips of one section.
SlipsOf(lines, type) == [i \in DOMAIN Named(lines) |-> Slip(Named(lines)[i], type)]

LEMMA SectionSlips ==
  ASSUME NEW plan, IsPlan(plan), NEW type, NEW dakos, NEW lines,
         Listing(Named(lines), plan, type, Filled(plan, type, dakos))
  PROVE  SlipListing(SlipsOf(lines, type), plan, {type}, dakos)
<1> DEFINE named == Named(lines)
           slips == SlipsOf(lines, type)
           Wanted == {SlipOfRow(r) : r \in {q \in plan : q.type \in {type} /\ q.dako \in dakos}}
<1>1. PICK n \in Nat :
        /\ DOMAIN named = 1..n
        /\ \A i \in 1..n : /\ named[i] = [dako |-> named[i].dako, who |-> WhoAt(plan, named[i].dako, type)]
                           /\ named[i].dako \in Filled(plan, type, dakos)
        /\ \A i, j \in 1..n : i # j => named[i].dako # named[j].dako
        /\ \A d \in Filled(plan, type, dakos) : \E i \in 1..n : named[i].dako = d
  BY DEF Listing
<1>2. slips = [i \in DOMAIN named |-> Slip(named[i], type)]
  BY DEF SlipsOf
<1> HIDE DEF named, slips
<1>3. DOMAIN slips = 1..n /\ slips = [i \in 1..n |-> Slip(named[i], type)]
  BY <1>1, <1>2
<1>4. \A i \in 1..n :
        slips[i] = [dako |-> named[i].dako, who |-> WhoAt(plan, named[i].dako, type), type |-> type]
  <2> TAKE i \in 1..n
  <2>1. slips[i] = Slip(named[i], type)
    BY <1>3
  <2>2. named[i].who = WhoAt(plan, named[i].dako, type)
    BY <1>1
  <2> QED BY <2>1, <2>2 DEF Slip
<1>5. ASSUME NEW i \in 1..n PROVE slips[i] \in Wanted
  <2>1. named[i].dako \in dakos /\ WhoAt(plan, named[i].dako, type) # Nobody
    BY <1>1 DEF Filled
  <2>2. PICK r \in plan :
          r.dako = named[i].dako /\ r.type = type /\ r.teacher = WhoAt(plan, named[i].dako, type)
    BY <2>1, WhoIs
  <2>3. slips[i] = SlipOfRow(r)
    BY <1>4, <2>2 DEF SlipOfRow
  <2> QED BY <2>1, <2>2, <2>3
<1>6. slips \in Seq(Wanted)
  <2> HIDE DEF Wanted
  <2>1. slips \in [1..n -> Wanted]
    BY <1>3, <1>5
  <2> QED BY <2>1
<1>7. \A i, j \in 1..n : i # j => slips[i] # slips[j]
  <2>1. \A i \in 1..n : slips[i].dako = named[i].dako
    <3> TAKE i \in 1..n
    <3> DEFINE w == WhoAt(plan, named[i].dako, type)
    <3>1. slips[i] = [dako |-> named[i].dako, who |-> w, type |-> type]
      BY <1>4
    <3> HIDE DEF w
    <3> QED BY <3>1
  <2> QED BY <1>1, <2>1
<1>8. ASSUME NEW r \in plan, r.type \in {type}, r.dako \in dakos
      PROVE  \E i \in 1..n : slips[i] = SlipOfRow(r)
  <2>1. WhoAt(plan, r.dako, type) = r.teacher /\ r.teacher # Nobody
    BY <1>8, WhoIs
  <2>2. r.dako \in Filled(plan, type, dakos)
    BY <1>8, <2>1 DEF Filled
  <2>3. PICK i \in 1..n : named[i].dako = r.dako
    BY <1>1, <2>2
  <2>4. slips[i] = SlipOfRow(r)
    BY <1>4, <1>8, <2>1, <2>3 DEF SlipOfRow
  <2> QED BY <2>4
<1> QED BY <1>3, <1>6, <1>7, <1>8 DEF SlipListing, slips

\* One list after another, of other sections.
LEMMA SlipsJoined ==
  ASSUME NEW plan, NEW dakos, NEW F, NEW G, F \intersect G = {}, NEW a, NEW b,
         SlipListing(a, plan, F, dakos), SlipListing(b, plan, G, dakos)
  PROVE  SlipListing(a \o b, plan, F \union G, dakos)
<1> DEFINE Wanted(types) == {SlipOfRow(r) : r \in {q \in plan : q.type \in types /\ q.dako \in dakos}}
           joined == a \o b
<1>1. PICK n \in Nat :
        /\ DOMAIN a = 1..n
        /\ a \in Seq(Wanted(F))
        /\ \A i, j \in 1..n : i # j => a[i] # a[j]
        /\ \A r \in plan : r.type \in F /\ r.dako \in dakos => \E i \in 1..n : a[i] = SlipOfRow(r)
  BY DEF SlipListing
<1>2. PICK m \in Nat :
        /\ DOMAIN b = 1..m
        /\ b \in Seq(Wanted(G))
        /\ \A i, j \in 1..m : i # j => b[i] # b[j]
        /\ \A r \in plan : r.type \in G /\ r.dako \in dakos => \E i \in 1..m : b[i] = SlipOfRow(r)
  BY DEF SlipListing
<1>3. Wanted(F) \subseteq Wanted(F \union G) /\ Wanted(G) \subseteq Wanted(F \union G)
  OBVIOUS
<1>4. \A x \in Wanted(F) : x.type \in F
  BY DEF SlipOfRow
<1>5. \A x \in Wanted(G) : x.type \in G
  BY DEF SlipOfRow
<1> DEFINE WF == Wanted(F)
           WG == Wanted(G)
           WB == Wanted(F \union G)
<1>6. /\ WF \subseteq WB /\ WG \subseteq WB
      /\ \A x \in WF : x.type \in F
      /\ \A x \in WG : x.type \in G
      /\ a \in Seq(WF) /\ b \in Seq(WG)
  BY <1>1, <1>2, <1>3, <1>4, <1>5
<1>7. ASSUME NEW r \in plan, r.type \in F \union G, r.dako \in dakos
      PROVE  (\E i \in 1..n : a[i] = SlipOfRow(r)) \/ (\E i \in 1..m : b[i] = SlipOfRow(r))
  BY <1>1, <1>2, <1>7
<1> HIDE DEF WF, WG, WB
<1>8. /\ Len(a) = n /\ Len(b) = m
      /\ \A i \in 1..n : a[i] \in WF
      /\ \A i \in 1..m : b[i] \in WG
  BY <1>1, <1>2, <1>6
<1>9. /\ DOMAIN joined = 1..(n + m)
      /\ \A i \in 1..n : joined[i] = a[i]
      /\ \A i \in (n + 1)..(n + m) : joined[i] = b[i - n]
      /\ \A i \in 1..m : joined[n + i] = b[i]
  BY <1>6, <1>8
<1>10. joined \in Seq(WB)
  <2>1. a \in Seq(WB) /\ b \in Seq(WB)
    BY <1>6
  <2> QED BY <2>1
<1> HIDE DEF joined
<1>11. ASSUME NEW i \in 1..(n + m), NEW j \in 1..(n + m), i # j PROVE joined[i] # joined[j]
  <2>1. CASE i \in 1..n /\ j \in 1..n
    BY <1>1, <1>9, <1>11, <2>1
  <2>2. CASE i \in (n + 1)..(n + m) /\ j \in (n + 1)..(n + m)
    <3>1. i - n \in 1..m /\ j - n \in 1..m /\ i - n # j - n
      BY <1>11, <2>2
    <3> QED BY <1>2, <1>9, <2>2, <3>1
  <2>3. CASE i \in 1..n /\ j \in (n + 1)..(n + m)
    <3>1. j - n \in 1..m
      BY <2>3
    <3>2. joined[i].type \in F /\ joined[j].type \in G
      BY <1>6, <1>8, <1>9, <2>3, <3>1
    <3> QED BY <3>2
  <2>4. CASE j \in 1..n /\ i \in (n + 1)..(n + m)
    <3>1. i - n \in 1..m
      BY <2>4
    <3>2. joined[j].type \in F /\ joined[i].type \in G
      BY <1>6, <1>8, <1>9, <2>4, <3>1
    <3> QED BY <3>2
  <2>5. \A k \in 1..(n + m) : k \in 1..n \/ k \in (n + 1)..(n + m)
    OBVIOUS
  <2> QED BY <2>1, <2>2, <2>3, <2>4, <2>5
<1>12. ASSUME NEW r \in plan, r.type \in F \union G, r.dako \in dakos
       PROVE  \E i \in 1..(n + m) : joined[i] = SlipOfRow(r)
  <2>1. CASE \E i \in 1..n : a[i] = SlipOfRow(r)
    <3>1. PICK i \in 1..n : a[i] = SlipOfRow(r)
      BY <2>1
    <3>2. i \in 1..(n + m) /\ joined[i] = SlipOfRow(r)
      BY <1>9, <3>1
    <3> QED BY <3>2
  <2>2. CASE \E i \in 1..m : b[i] = SlipOfRow(r)
    <3>1. PICK i \in 1..m : b[i] = SlipOfRow(r)
      BY <2>2
    <3>2. n + i \in 1..(n + m) /\ joined[n + i] = SlipOfRow(r)
      BY <1>9, <3>1
    <3> QED BY <3>2
  <2> QED BY <1>7, <1>12, <2>1, <2>2
<1>13. n + m \in Nat
  OBVIOUS
<1>14. joined \in Seq(Wanted(F \union G))
  BY <1>10 DEF WB
<1> QED BY <1>9, <1>11, <1>12, <1>13, <1>14 DEF SlipListing, joined

\* The slips of a form are the rows it was made of, at the dakos it lists.
LEMMA FormSlips ==
  ASSUME NEW base, IsPlan(base.rows), base.dakos \subseteq Dakos
  PROVE  SlipListing(Slips(ViewModel(base)), base.rows, Types, base.dakos)
<1> DEFINE plan == base.rows
           dakos == base.dakos
           sugo == Lines(base, "SUGO")
           reserba == Lines(base, "RESERBA")
           second == Named(Lines(base, "RESERBA_II"))
<1>1. dakos \subseteq Nat /\ IsFiniteSet(dakos)
  BY PapersAssumption, FS_Subset
<1>2. /\ Listing(sugo, plan, "SUGO", dakos)
      /\ Listing(reserba, plan, "RESERBA", dakos)
      /\ Listing(Lines(base, "RESERBA_II"), plan, "RESERBA_II", dakos)
  BY <1>1, LinesList
<1>3. /\ Listing(Named(sugo), plan, "SUGO", Filled(plan, "SUGO", dakos))
      /\ Listing(Named(reserba), plan, "RESERBA", Filled(plan, "RESERBA", dakos))
      /\ Listing(second, plan, "RESERBA_II", Filled(plan, "RESERBA_II", dakos))
  BY <1>2, NamedList
<1>4. Filled(plan, "RESERBA_II", Filled(plan, "RESERBA_II", dakos)) = Filled(plan, "RESERBA_II", dakos)
  BY DEF Filled
<1>5. Listing(Named(second), plan, "RESERBA_II", Filled(plan, "RESERBA_II", dakos))
  BY <1>3, <1>4, NamedList
<1>6. Slips(ViewModel(base)) = SlipsOf(sugo, "SUGO") \o SlipsOf(reserba, "RESERBA") \o SlipsOf(second, "RESERBA_II")
  BY DEF Slips, ViewModel, SlipsOf
<1> HIDE DEF plan, dakos, sugo, reserba, second
<1>7. IsPlan(plan)
  BY DEF plan
<1>8. /\ SlipListing(SlipsOf(sugo, "SUGO"), plan, {"SUGO"}, dakos)
      /\ SlipListing(SlipsOf(reserba, "RESERBA"), plan, {"RESERBA"}, dakos)
      /\ SlipListing(SlipsOf(second, "RESERBA_II"), plan, {"RESERBA_II"}, dakos)
  BY <1>3, <1>5, <1>7, SectionSlips
<1>9. SlipListing(SlipsOf(sugo, "SUGO") \o SlipsOf(reserba, "RESERBA"), plan, {"SUGO"} \union {"RESERBA"}, dakos)
  BY <1>8, SlipsJoined
<1>10. SlipListing(SlipsOf(sugo, "SUGO") \o SlipsOf(reserba, "RESERBA") \o SlipsOf(second, "RESERBA_II"), plan,
                   ({"SUGO"} \union {"RESERBA"}) \union {"RESERBA_II"}, dakos)
  BY <1>8, <1>9, SlipsJoined
<1>11. ({"SUGO"} \union {"RESERBA"}) \union {"RESERBA_II"} = Types
  BY DEF Types
<1> QED BY <1>6, <1>10, <1>11 DEF plan, dakos
-----------------------------------------------------------------------------
(* The form *)

\* What a form made of the given rows and dakos tells, of the rows that stayed and of all there were.
LEMMA FormTells ==
  ASSUME NEW base, IsPlan(base.rows), base.dakos \subseteq Dakos
  PROVE  LET slips == Slips(ViewModel(base))
             onForm == Assigned(ViewModel(base))
         IN /\ \A x \in onForm : \A z \in onForm \ {x} : x.who # z.who
            /\ \A r \in base.rows : r.dako \in base.dakos =>
                 [dako |-> r.dako, who |-> r.teacher, type |-> r.type] \in onForm
            /\ \A x \in onForm : \E r \in base.rows : r.dako = x.dako /\ r.teacher = x.who /\ r.type = x.type
            /\ \A i, j \in DOMAIN slips : i # j => slips[i].who # slips[j].who
<1> DEFINE plan == base.rows
           dakos == base.dakos
           slips == Slips(ViewModel(base))
           onForm == Assigned(ViewModel(base))
           Wanted == {SlipOfRow(r) : r \in {q \in plan : q.type \in Types /\ q.dako \in dakos}}
<1>1. PICK n \in Nat :
        /\ DOMAIN slips = 1..n
        /\ slips \in Seq(Wanted)
        /\ \A i, j \in 1..n : i # j => slips[i] # slips[j]
        /\ \A r \in plan : r.type \in Types /\ r.dako \in dakos => \E i \in 1..n : slips[i] = SlipOfRow(r)
  BY FormSlips DEF SlipListing
<1>2. onForm = {slips[i] : i \in DOMAIN slips}
  BY DEF Assigned, Range
<1>3. IsPlan(plan)
  OBVIOUS
<1> HIDE DEF slips, onForm, plan, dakos
<1>4. \A i \in 1..n : slips[i] \in Wanted
  <2> HIDE DEF Wanted
  <2>1. Len(slips) = n
    BY <1>1
  <2> QED BY <1>1, <2>1
<1>5. \A x \in Wanted : \E r \in plan : x = SlipOfRow(r)
  OBVIOUS
<1> HIDE DEF Wanted
<1>6. ASSUME NEW r \in plan, NEW q \in plan, r.teacher = q.teacher PROVE r = q
  BY <1>3, <1>6 DEF IsPlan
<1>7. ASSUME NEW i \in 1..n, NEW j \in 1..n, slips[i].who = slips[j].who PROVE slips[i] = slips[j]
  <2>1. PICK r \in plan : slips[i] = SlipOfRow(r)
    BY <1>4, <1>5
  <2>2. PICK q \in plan : slips[j] = SlipOfRow(q)
    BY <1>4, <1>5
  <2>3. r.teacher = q.teacher
    BY <1>7, <2>1, <2>2 DEF SlipOfRow
  <2>4. r = q
    BY <1>6, <2>3
  <2> QED BY <2>1, <2>2, <2>4
<1>8. \A x \in onForm : \A z \in onForm \ {x} : x.who # z.who
  BY <1>1, <1>2, <1>7
<1>9. \A i, j \in DOMAIN slips : i # j => slips[i].who # slips[j].who
  BY <1>1, <1>7
<1>10. ASSUME NEW r \in plan, r.dako \in dakos
       PROVE  [dako |-> r.dako, who |-> r.teacher, type |-> r.type] \in onForm
  <2>1. r.type \in Types
    BY <1>3 DEF IsPlan
  <2>2. \E i \in 1..n : slips[i] = SlipOfRow(r)
    BY <1>1, <1>10, <2>1
  <2>3. SlipOfRow(r) \in onForm
    BY <1>1, <1>2, <2>2
  <2> QED BY <2>3 DEF SlipOfRow
<1>11. ASSUME NEW x \in onForm
       PROVE  \E r \in plan : r.dako = x.dako /\ r.teacher = x.who /\ r.type = x.type
  <2>1. PICK i \in 1..n : x = slips[i]
    BY <1>1, <1>2
  <2>2. PICK r \in plan : slips[i] = SlipOfRow(r)
    BY <1>4, <1>5
  <2>3. r.dako = x.dako /\ r.teacher = x.who /\ r.type = x.type
    BY <2>1, <2>2 DEF SlipOfRow
  <2> QED BY <2>3
<1> QED BY <1>8, <1>9, <1>10, <1>11 DEF plan, dakos, slips, onForm

\* The form lists every dako it was made of, those without a teacher too.
LEMMA FormListsDakos ==
  ASSUME NEW base, base.dakos \subseteq Dakos
  PROVE  base.dakos \subseteq {ViewModel(base).a[i].dako : i \in DOMAIN ViewModel(base).a}
<1>1. base.dakos \subseteq Nat /\ IsFiniteSet(base.dakos)
  BY PapersAssumption, FS_Subset
<1>2. Listing(Lines(base, "SUGO"), base.rows, "SUGO", base.dakos)
  BY <1>1, LinesList
<1>3. ViewModel(base).a = Lines(base, "SUGO")
  BY DEF ViewModel
<1> DEFINE lines == Lines(base, "SUGO")
<1>4. \A d \in base.dakos : \E i \in DOMAIN lines : lines[i].dako = d
  BY <1>2 DEF Listing
<1> HIDE DEF lines
<1>5. base.dakos \subseteq {lines[i].dako : i \in DOMAIN lines}
  BY <1>4
<1> QED BY <1>3, <1>5 DEF lines

-----------------------------------------------------------------------------
(* Counting *)

\* What is renamed one to one stays as much.
LEMMA RenamedIsAsMany ==
  ASSUME NEW S, IsFiniteSet(S), NEW T, NEW f \in [S -> T],
         \A u, v \in S : f[u] = f[v] => u = v,
         \A t \in T : \E u \in S : f[u] = t
  PROVE  IsFiniteSet(T) /\ Cardinality(T) = Cardinality(S)
<1>1. f \in Bijection(S, T)
  BY Fun_IsBij
<1>2. ExistsBijection(S, T)
  BY <1>1 DEF ExistsBijection
<1> QED BY <1>2, FS_Bijection

LEMMA Apart ==
  ASSUME NEW S, IsFiniteSet(S), NEW T, IsFiniteSet(T), S \intersect T = {}
  PROVE  /\ IsFiniteSet(S \union T)
         /\ Cardinality(S \union T) = Cardinality(S) + Cardinality(T)
<1>1. Cardinality(S) \in Nat /\ Cardinality(T) \in Nat
  BY FS_CardinalityType
<1>2. IsFiniteSet(S \union T) /\ Cardinality(S \union T) = Cardinality(S) + Cardinality(T) - Cardinality(S \intersect T)
  BY FS_Union
<1>3. Cardinality(S \intersect T) = 0
  BY FS_EmptySet
<1> QED BY <1>1, <1>2, <1>3

\* What has a source each is as much as what has one of the four, together.
LEMMA BySource ==
  ASSUME NEW S, IsFiniteSet(S), \A x \in S : x.source \in Sources
  PROVE  Cardinality(S) = OfSources([q \in Sources |-> Cardinality({x \in S : x.source = q})])
<1> DEFINE With(q) == {x \in S : x.source = q}
           A == With("AUTO")
           M == With("MANUAL")
           O == With("OVERRIDE")
           H == With("HISTORICAL")
<1>1. \A q : IsFiniteSet(With(q))
  BY FS_Subset
<1>2. /\ A \intersect M = {} /\ (A \union M) \intersect O = {}
      /\ (A \union M \union O) \intersect H = {}
  OBVIOUS
<1>3. S = A \union M \union O \union H
  BY DEF Sources
<1>4. OfSources([q \in Sources |-> Cardinality(With(q))])
        = Cardinality(A) + Cardinality(M) + Cardinality(O) + Cardinality(H)
  BY DEF OfSources, Sources
<1>5. IsFiniteSet(A) /\ IsFiniteSet(M) /\ IsFiniteSet(O) /\ IsFiniteSet(H)
  BY <1>1
<1> HIDE DEF A, M, O, H
<1>6. IsFiniteSet(A \union M) /\ Cardinality(A \union M) = Cardinality(A) + Cardinality(M)
  BY <1>2, <1>5, Apart
<1>7. /\ IsFiniteSet(A \union M \union O)
      /\ Cardinality(A \union M \union O) = Cardinality(A \union M) + Cardinality(O)
  BY <1>2, <1>5, <1>6, Apart
<1>8. Cardinality(A \union M \union O \union H) = Cardinality(A \union M \union O) + Cardinality(H)
  BY <1>2, <1>5, <1>7, Apart
<1>9. Cardinality(S) = Cardinality(A) + Cardinality(M) + Cardinality(O) + Cardinality(H)
  BY <1>3, <1>6, <1>7, <1>8
<1> QED BY <1>4, <1>9
-----------------------------------------------------------------------------
(* The report *)

\* A slot with a row, and one without.
LEMMA SlotWithRow ==
  ASSUME NEW base, IsPlan(base.rows), NEW r \in base.rows
  PROVE  ReportSlot(base, <<r.dako, r.type>>)
           = [slot |-> <<r.dako, r.type>>, who |-> r.teacher, source |-> r.source, planned |-> FALSE]
<1> DEFINE hit == {q \in base.rows : <<q.dako, q.type>> = <<r.dako, r.type>>}
<1>1. \A q \in base.rows : q.dako = r.dako /\ q.type = r.type => q = r
  BY DEF IsPlan
<1>2. hit = {r}
  BY <1>1
<1> QED BY <1>2 DEF ReportSlot

LEMMA SlotWithoutRow ==
  ASSUME NEW base, NEW s, \A r \in base.rows : <<r.dako, r.type>> # s
  PROVE  ReportSlot(base, s).who = Nobody
<1> DEFINE hit == {r \in base.rows : <<r.dako, r.type>> = s}
<1>1. hit = {}
  OBVIOUS
<1>2. \E p : ReportSlot(base, s) = [slot |-> s, who |-> Nobody, source |-> "none", planned |-> p]
  BY <1>1 DEF ReportSlot
<1> QED BY <1>2

LEMMA SlotOfSlot ==
  ASSUME NEW base, NEW s
  PROVE  ReportSlot(base, s).slot = s
<1>1. \E w, o, p : ReportSlot(base, s) = [slot |-> s, who |-> w, source |-> o, planned |-> p]
  BY Zenon DEF ReportSlot
<1> QED BY <1>1

\* What a report of the given rows tells.
LEMMA ReportTells ==
  ASSUME NEW base, IsPlan(base.rows), IsFiniteSet(DOMAIN base.plan)
  PROVE  LET outcome == WeeklyReport(base)
             slots == outcome.slots
         IN /\ Cardinality({x.slot : x \in slots}) = Cardinality(slots)
            /\ \A r \in base.rows : \E x \in slots : x.slot = <<r.dako, r.type>> /\ x.who = r.teacher
            /\ \A x \in slots : x.who # Nobody =>
                 \E r \in base.rows : x.slot = <<r.dako, r.type>> /\ x.who = r.teacher
            /\ outcome.assigned = Cardinality(base.rows)
            /\ OfSources(outcome.bySource) = outcome.assigned
<1> DEFINE plan == base.rows
           wanted == ReportSlots(base)
           all == {ReportSlot(base, s) : s \in wanted}
           assigned == {x \in all : x.who # Nobody}
           result == WeeklyReport(base)
           pairs == {<<r.dako, r.type>> : r \in plan}
           slotOf == [x \in all |-> x.slot]
           shownAs == [r \in plan |-> ReportSlot(base, <<r.dako, r.type>>)]
<1>1. /\ result.slots = all
      /\ result.assigned = Cardinality(assigned)
      /\ result.bySource = [q \in Sources |-> Cardinality({x \in assigned : x.source = q})]
  BY DEF WeeklyReport
<1>2. IsPlan(plan) /\ IsFiniteSet(plan) /\ wanted = DOMAIN base.plan \union pairs
  BY DEF IsPlan, ReportSlots
<1> HIDE DEF result, wanted, plan
<1>3. \A r \in plan :
        /\ <<r.dako, r.type>> \in wanted
        /\ shownAs[r] = [slot |-> <<r.dako, r.type>>, who |-> r.teacher, source |-> r.source, planned |-> FALSE]
  BY <1>2, SlotWithRow DEF plan
<1>4. \A r \in plan : /\ shownAs[r] \in all
                      /\ shownAs[r].slot = <<r.dako, r.type>>
                      /\ shownAs[r].who = r.teacher
                      /\ shownAs[r].source = r.source
  <2> TAKE r \in plan
  <2>1. shownAs[r] = ReportSlot(base, <<r.dako, r.type>>)
    OBVIOUS
  <2>2. shownAs[r] \in all
    BY <1>3, <2>1
  <2> HIDE DEF shownAs, all
  <2>3. shownAs[r] = [slot |-> <<r.dako, r.type>>, who |-> r.teacher, source |-> r.source, planned |-> FALSE]
    BY <1>3
  <2> QED BY <2>2, <2>3
<1>5. \A x \in all : x.who # Nobody => \E r \in plan : x = shownAs[r]
  <2> TAKE x \in all
  <2> HAVE x.who # Nobody
  <2>1. PICK s \in wanted : x = ReportSlot(base, s)
    OBVIOUS
  <2>2. PICK r \in plan : s = <<r.dako, r.type>>
    BY <2>1, SlotWithoutRow DEF plan
  <2> QED BY <2>1, <2>2
<1> HIDE DEF shownAs
<1>6. \A r \in plan : r.teacher # Nobody /\ r.source \in Sources
  BY <1>2, PapersAssumption DEF IsPlan
<1>7. \A x \in all : ReportSlot(base, x.slot) = x
  BY SlotOfSlot
<1> HIDE DEF all
<1>8. \A x \in assigned : \E r \in plan : x = shownAs[r]
  BY <1>5
<1>9. \A r \in plan : shownAs[r] \in assigned
  BY <1>4, <1>6
<1> HIDE DEF assigned
<1>10. IsFiniteSet(all)
  <2>1. IsFiniteSet(pairs)
    <3> DEFINE pairOf == [r \in plan |-> <<r.dako, r.type>>]
    <3>1. pairOf \in Surjection(plan, pairs)
      BY Fun_IsSurj
    <3> QED BY <1>2, <3>1, FS_Surjection
  <2>2. IsFiniteSet(wanted)
    BY <1>2, <2>1, FS_Union DEF plan
  <2> DEFINE filledIn == [s \in wanted |-> ReportSlot(base, s)]
  <2>3. filledIn \in Surjection(wanted, all)
    BY Fun_IsSurj DEF all
  <2> QED BY <2>2, <2>3, FS_Surjection
<1>11. Cardinality({x.slot : x \in all}) = Cardinality(all)
  <2> DEFINE T == {x.slot : x \in all}
  <2>1. slotOf \in [all -> T]
    OBVIOUS
  <2>2. \A u, v \in all : slotOf[u] = slotOf[v] => u = v
    BY <1>7
  <2>3. \A t \in T : \E u \in all : slotOf[u] = t
    OBVIOUS
  <2> HIDE DEF T, slotOf
  <2>4. Cardinality(T) = Cardinality(all)
    BY <1>10, <2>1, <2>2, <2>3, RenamedIsAsMany
  <2> QED BY <2>4 DEF T
<1>12. IsFiniteSet(assigned) /\ Cardinality(assigned) = Cardinality(plan)
  <2>1. shownAs \in [plan -> assigned]
    BY <1>9 DEF shownAs
  <2>2. ASSUME NEW u \in plan, NEW v \in plan, shownAs[u] = shownAs[v] PROVE u = v
    <3>1. u.teacher = v.teacher
      BY <1>4, <2>2
    <3> QED BY <1>2, <3>1 DEF IsPlan
  <2>3. \A t \in assigned : \E u \in plan : shownAs[u] = t
    BY <1>8
  <2> QED BY <1>2, <2>1, <2>2, <2>3, RenamedIsAsMany
<1>13. \A x \in assigned : x.source \in Sources
  BY <1>4, <1>6, <1>8
<1>14. Cardinality(assigned) = OfSources(result.bySource)
  BY <1>1, <1>12, <1>13, BySource
<1>15. \A r \in plan : \E x \in all : x.slot = <<r.dako, r.type>> /\ x.who = r.teacher
  BY <1>4
<1>16. \A x \in all : x.who # Nobody => \E r \in plan : x.slot = <<r.dako, r.type>> /\ x.who = r.teacher
  BY <1>4, <1>5
<1>17. /\ Cardinality({x.slot : x \in result.slots}) = Cardinality(result.slots)
       /\ \A r \in plan : \E x \in result.slots : x.slot = <<r.dako, r.type>> /\ x.who = r.teacher
       /\ \A x \in result.slots : x.who # Nobody =>
            \E r \in plan : x.slot = <<r.dako, r.type>> /\ x.who = r.teacher
       /\ result.assigned = Cardinality(plan)
       /\ OfSources(result.bySource) = result.assigned
  BY <1>1, <1>11, <1>12, <1>14, <1>15, <1>16
<1> QED BY <1>17 DEF result, plan

\* Reports over one plan.
LEMMA PlanReportsAgree ==
  ASSUME IsPlan(rows)
  PROVE  ReportsAgree
<1> DEFINE N(q, t) == Cardinality({r \in rows : r.source = q /\ r.type = t})
           of(t) == {r \in rows : r.type = t}
           total(t) == OfSources([q \in Sources |-> N(q, t)])
           summed(q) == OfTypes([t \in Types |-> N(q, t)])
<1>1. IsFiniteSet(rows) /\ \A r \in rows : r.source \in Sources /\ r.type \in Types
  BY DEF IsPlan
<1>2. \A q, t : N(q, t) \in Nat
  <2> TAKE q, t
  <2>1. IsFiniteSet({r \in rows : r.source = q /\ r.type = t})
    BY <1>1, FS_Subset
  <2> QED BY <2>1, FS_CardinalityType
<1>3. \A q, t : {r \in of(t) : r.source = q} = {r \in rows : r.source = q /\ r.type = t}
  OBVIOUS
<1>4. \A t : /\ AnnualReport(t).bySource = [q \in Sources |-> N(q, t)]
             /\ AnnualReport(t).total = total(t)
  <2> TAKE t
  <2>1. [q \in Sources |-> Cardinality({r \in of(t) : r.source = q})] = [q \in Sources |-> N(q, t)]
    BY <1>3
  <2> HIDE DEF N
  <2> QED BY <2>1 DEF AnnualReport
<1>5. /\ SourceSummary.bySource = [q \in Sources |-> summed(q)]
      /\ SourceSummary.total = OfSources([q \in Sources |-> summed(q)])
  <2> DEFINE cross == [q \in Sources |-> [t \in Types |-> N(q, t)]]
  <2>1. SourceSummary = [crossTab |-> cross, bySource |-> [q \in Sources |-> OfTypes(cross[q])],
                         total |-> OfSources([q \in Sources |-> OfTypes(cross[q])])]
    BY DEF SourceSummary
  <2>2. \A q \in Sources : cross[q] = [t \in Types |-> N(q, t)]
    OBVIOUS
  <2>3. [q \in Sources |-> OfTypes(cross[q])] = [q \in Sources |-> summed(q)]
    BY <2>2
  <2> HIDE DEF cross, summed
  <2> QED BY <2>1, <2>3
<1> HIDE DEF N
<1>6. \A q \in Sources : summed(q) = N(q, "SUGO") + N(q, "RESERBA") + N(q, "RESERBA_II")
  BY DEF OfTypes, Types
<1>7. \A t : total(t) = N("AUTO", t) + N("MANUAL", t) + N("OVERRIDE", t) + N("HISTORICAL", t)
  BY DEF OfSources, Sources
<1>8. OfSources([q \in Sources |-> summed(q)])
        = summed("AUTO") + summed("MANUAL") + summed("OVERRIDE") + summed("HISTORICAL")
  BY DEF OfSources, Sources
<1>9. OfTypes([t \in Types |-> AnnualReport(t).total]) = total("SUGO") + total("RESERBA") + total("RESERBA_II")
  BY <1>4 DEF OfTypes, Types
<1> HIDE DEF total, summed
<1>10. SourceSummary.total = OfTypes([t \in Types |-> AnnualReport(t).total])
  <2>1. {"AUTO", "MANUAL", "OVERRIDE", "HISTORICAL"} = Sources
    BY DEF Sources
  <2> QED BY <1>2, <1>5, <1>6, <1>7, <1>8, <1>9, <2>1
<1>11. ASSUME NEW q \in Sources
       PROVE  SourceSummary.bySource[q] = OfTypes([t \in Types |-> AnnualReport(t).bySource[q]])
  <2>1. OfTypes([t \in Types |-> AnnualReport(t).bySource[q]]) = N(q, "SUGO") + N(q, "RESERBA") + N(q, "RESERBA_II")
    BY <1>4 DEF OfTypes, Types
  <2> QED BY <1>5, <1>6, <2>1
<1> DEFINE met == {r.dako : r \in rows}
           hit(d, t) == {r \in rows : r.dako = d /\ r.type = t}
           Shown(d, t) == IF hit(d, t) = {} THEN Nobody ELSE (CHOOSE r \in hit(d, t) : TRUE).teacher
<1>12. AnnualSchedule = [t \in Types |-> [d \in met |-> Shown(d, t)]]
  BY DEF AnnualSchedule
<1>13. ASSUME NEW r \in rows PROVE hit(r.dako, r.type) = {r}
  <2>1. \A q \in rows : q.dako = r.dako /\ q.type = r.type => q = r
    BY DEF IsPlan
  <2> QED BY <2>1
<1>14. \A r \in rows : Shown(r.dako, r.type) = r.teacher
  BY <1>13
<1>15. \A d, t : Shown(d, t) # Nobody => \E r \in rows : r.dako = d /\ r.type = t
  <2> TAKE d, t
  <2> HAVE Shown(d, t) # Nobody
  <2>1. hit(d, t) # {}
    OBVIOUS
  <2> QED BY <2>1
<1> HIDE DEF hit, Shown
<1>16. ASSUME NEW r \in rows
       PROVE  /\ AnnualSchedule[r.type][r.dako] = r.teacher
              /\ TeacherHistory(r.teacher) = {r}
              /\ r \in DakoHistory(r.dako)
  <2>1. AnnualSchedule[r.type][r.dako] = r.teacher
    BY <1>1, <1>12, <1>14
  <2>2. \A q \in rows : q.teacher = r.teacher => q = r
    BY DEF IsPlan
  <2>3. TeacherHistory(r.teacher) = {r}
    BY <2>2 DEF TeacherHistory
  <2> QED BY <2>1, <2>3 DEF DakoHistory
<1>17. ASSUME NEW t \in Types
       PROVE  Cardinality({d \in DOMAIN AnnualSchedule[t] : AnnualSchedule[t][d] # Nobody}) = AnnualReport(t).total
  <2> DEFINE S == of(t)
             T == {d \in met : Shown(d, t) # Nobody}
             f == [r \in S |-> r.dako]
  <2>1. {d \in DOMAIN AnnualSchedule[t] : AnnualSchedule[t][d] # Nobody} = T
    BY <1>12
  <2>2. IsFiniteSet(S) /\ \A r \in S : r.source \in Sources
    BY <1>1, FS_Subset
  <2>3. Cardinality(S) = total(t)
    <3>1. Cardinality(S) = OfSources([q \in Sources |-> Cardinality({x \in S : x.source = q})])
      BY <2>2, BySource
    <3>2. [q \in Sources |-> Cardinality({x \in S : x.source = q})] = [q \in Sources |-> N(q, t)]
      BY <1>3 DEF N
    <3> QED BY <3>1, <3>2 DEF total
  <2>4. \A r \in rows : r.teacher # Nobody
    BY WhoIs
  <2>5. \A r \in S : r.dako \in T
    BY <1>14, <2>4
  <2>6. f \in [S -> T]
    BY <2>5
  <2>7. \A u, v \in S : f[u] = f[v] => u = v
    BY <1>13 DEF hit
  <2>8. \A d \in T : \E r \in S : f[r] = d
    BY <1>15
  <2> HIDE DEF S, T, f
  <2>9. Cardinality(T) = Cardinality(S)
    BY <2>2, <2>6, <2>7, <2>8, RenamedIsAsMany
  <2> QED BY <1>4, <2>1, <2>3, <2>9
<1> QED BY <1>10, <1>11, <1>16, <1>17 DEF ReportsAgree
-----------------------------------------------------------------------------
(* The week and its papers *)

WorldInv ==
  /\ rows \in Plans \union {{}}
  /\ activeDakos \subseteq Dakos /\ closedLater \subseteq Dakos
  /\ steady = [rows |-> steady.rows, active |-> steady.active]
  /\ steady.rows \subseteq rows /\ steady.active \subseteq activeDakos
  /\ rows \subseteq seen

\* What a request has read: all rows of one moment or none, and all dakos of one moment or none.
ReadInv ==
  /\ vm = [status |-> vm.status, dakos |-> vm.dakos, got |-> vm.got, rows |-> vm.rows,
           mag |-> vm.mag, plan |-> vm.plan]
  /\ vm.dakos \subseteq Dakos
  /\ vm.got \in {{}, Types, {"dakos"}, Types \union {"dakos"}}
  /\ vm.rows \in Plans \union {{}}
  /\ IF Types \subseteq vm.got THEN steady.rows \subseteq vm.rows /\ vm.rows \subseteq seen ELSE vm.rows = {}
  /\ "dakos" \in vm.got =>
       steady.active \subseteq vm.dakos /\ (historical => closedLater \subseteq vm.dakos)
  /\ IsFiniteSet(DOMAIN vm.plan)

PaperInv ==
  /\ paper.kind # "none" => phase = "done" /\ Types \subseteq vm.got
  /\ paper.kind = "form" =>
       "dakos" \in vm.got /\ paper.form = ViewModel(vm) /\ paper.slips = Slips(ViewModel(vm))
  /\ paper.kind = "report" => paper.report = WeeklyReport(vm)

PapersInv == WorldInv /\ ReadInv /\ PaperInv

LEMMA NothingIsRead ==
  ASSUME NEW s, vm' = [NothingRead EXCEPT !.status = s]
  PROVE  /\ vm' = [status |-> vm'.status, dakos |-> vm'.dakos, got |-> vm'.got, rows |-> vm'.rows,
                   mag |-> vm'.mag, plan |-> vm'.plan]
         /\ vm'.dakos = {} /\ vm'.got = {} /\ vm'.rows = {} /\ DOMAIN vm'.plan = {}
<1> DEFINE none == [u \in {} |-> Nobody]
<1>1. vm' = [status |-> s, dakos |-> {}, got |-> {}, rows |-> {}, mag |-> {}, plan |-> none]
  BY DEF NothingRead
<1>2. DOMAIN none = {}
  OBVIOUS
<1> HIDE DEF none
<1>3. /\ vm'.status = s /\ vm'.dakos = {} /\ vm'.got = {} /\ vm'.rows = {} /\ vm'.mag = {}
      /\ vm'.plan = none
  BY <1>1
<1> QED BY <1>1, <1>2, <1>3

LEMMA PapersStart ==
  ASSUME PapersInit \/ PapersIdle
  PROVE  PapersInv
<1>1. rows \in Plans \union {{}} /\ activeDakos \subseteq Dakos /\ closedLater \subseteq Dakos /\ rows \subseteq seen
  BY DEF PapersInit, PapersIdle
<1>2. \E a, b : steady = [rows |-> a, active |-> b] /\ a = rows /\ b = activeDakos
  BY DEF PapersInit, PapersIdle
<1>3. WorldInv
  BY <1>1, <1>2 DEF WorldInv
<1>4. vm = [status |-> "none", dakos |-> {}, got |-> {}, rows |-> {}, mag |-> {}, plan |-> [u \in {} |-> Nobody]]
  BY DEF PapersInit, PapersIdle, NothingRead
<1>5. /\ vm = [status |-> vm.status, dakos |-> vm.dakos, got |-> vm.got, rows |-> vm.rows,
               mag |-> vm.mag, plan |-> vm.plan]
      /\ vm.dakos = {} /\ vm.got = {} /\ vm.rows = {} /\ DOMAIN vm.plan = {}
  BY <1>4
<1>6. IsFiniteSet(DOMAIN vm.plan)
  BY <1>5, FS_EmptySet
<1>7. ReadInv
  BY <1>5, <1>6 DEF ReadInv, Types
<1>8. PaperInv
  BY DEF PapersInit, PapersIdle, NoPaper, PaperInv
<1> QED BY <1>3, <1>7, <1>8 DEF PapersInv

\* While nothing is printed, a change leaves what was read.
LEMMA WeekChanges ==
  ASSUME PapersInv, Change,
         rows' \in Plans \union {{}}, activeDakos' \subseteq Dakos,
         steady' = [rows |-> steady'.rows, active |-> steady'.active],
         steady'.rows \subseteq rows', steady'.rows \subseteq steady.rows,
         steady'.active \subseteq activeDakos', steady'.active \subseteq steady.active,
         rows' \subseteq seen', seen \subseteq seen'
  PROVE  PapersInv'
<1>1. phase # "done" /\ UNCHANGED <<historical, closedLater, phase, vm, paper>>
  BY DEF Change
<1>2. WorldInv'
  BY <1>1 DEF PapersInv, WorldInv
<1>3. ReadInv'
  <2>1. IF Types \subseteq vm.got THEN steady'.rows \subseteq vm.rows /\ vm.rows \subseteq seen' ELSE vm.rows = {}
    BY DEF PapersInv, ReadInv
  <2>2. "dakos" \in vm.got =>
          steady'.active \subseteq vm.dakos /\ (historical => closedLater \subseteq vm.dakos)
    BY DEF PapersInv, ReadInv
  <2> QED BY <1>1, <2>1, <2>2 DEF PapersInv, ReadInv
<1>4. paper.kind = "none"
  BY <1>1 DEF PapersInv, PaperInv
<1>5. PaperInv'
  BY <1>1, <1>4 DEF PaperInv
<1> QED BY <1>2, <1>3, <1>5 DEF PapersInv

LEMMA PapersKeep ==
  ASSUME PapersInv, PapersNext
  PROVE  PapersInv'
<1> USE DEF PapersInv
<1>0. /\ steady = [rows |-> steady.rows, active |-> steady.active]
      /\ steady.rows \subseteq rows /\ steady.active \subseteq activeDakos /\ rows \subseteq seen
      /\ rows \in Plans \union {{}} /\ activeDakos \subseteq Dakos /\ closedLater \subseteq Dakos
  BY DEF WorldInv
<1>1. CASE EditPlan
  <2>1. Change /\ rows' \in Plans /\ activeDakos' = activeDakos /\ seen' = seen \union rows'
    BY <1>1 DEF EditPlan
  <2>2. steady' = [rows |-> steady.rows \intersect rows', active |-> steady.active]
    BY <1>0, <1>1 DEF EditPlan
  <2>3. /\ steady' = [rows |-> steady'.rows, active |-> steady'.active]
        /\ steady'.rows = steady.rows \intersect rows' /\ steady'.active = steady.active
    BY <2>2
  <2>4. /\ rows' \in Plans \union {{}} /\ activeDakos' \subseteq Dakos
        /\ steady'.rows \subseteq rows' /\ steady'.rows \subseteq steady.rows
        /\ steady'.active \subseteq activeDakos' /\ steady'.active \subseteq steady.active
        /\ rows' \subseteq seen' /\ seen \subseteq seen'
    BY <1>0, <2>1, <2>3
  <2> QED BY <2>1, <2>3, <2>4, WeekChanges
<1>2. CASE EditRoster
  <2>1. Change /\ UNCHANGED <<activeDakos, rows, steady, seen>>
    BY <1>2 DEF EditRoster
  <2> QED BY <1>0, <2>1, WeekChanges
<1>3. CASE SetDakoStatus
  <2>1. Change /\ UNCHANGED <<rows, seen>> /\ activeDakos' \subseteq Dakos
    BY <1>0, <1>3 DEF SetDakoStatus
  <2>2. steady' = [rows |-> steady.rows, active |-> steady.active \intersect activeDakos']
    BY <1>0, <1>3 DEF SetDakoStatus
  <2>3. /\ steady' = [rows |-> steady'.rows, active |-> steady'.active]
        /\ steady'.rows = steady.rows /\ steady'.active = steady.active \intersect activeDakos'
    BY <2>2
  <2>4. /\ rows' \in Plans \union {{}}
        /\ steady'.rows \subseteq rows' /\ steady'.rows \subseteq steady.rows
        /\ steady'.active \subseteq activeDakos' /\ steady'.active \subseteq steady.active
        /\ rows' \subseteq seen' /\ seen \subseteq seen'
    BY <1>0, <2>1, <2>3
  <2> QED BY <2>1, <2>3, <2>4, WeekChanges
<1>4. CASE SetWeekStatus
  <2>1. Change /\ UNCHANGED <<activeDakos, rows, steady, seen>>
    BY <1>4 DEF SetWeekStatus
  <2> QED BY <1>0, <2>1, WeekChanges
<1>5. ASSUME NEW next \in {"form", "report"}, Begin(next) PROVE PapersInv'
  <2>1. phase = "idle" /\ phase' = next /\ UNCHANGED <<worldVars, paper, steady, seen>>
    BY <1>5 DEF Begin
  <2>2. vm' = [NothingRead EXCEPT !.status = weekStatus]
    BY <1>5 DEF Begin
  <2>3. WorldInv'
    BY <2>1 DEF WorldInv, worldVars
  <2>4. ReadInv'
    <3>1. /\ vm' = [status |-> vm'.status, dakos |-> vm'.dakos, got |-> vm'.got, rows |-> vm'.rows,
                    mag |-> vm'.mag, plan |-> vm'.plan]
          /\ vm'.dakos = {} /\ vm'.got = {} /\ vm'.rows = {} /\ DOMAIN vm'.plan = {}
      BY <2>2, NothingIsRead
    <3>2. IsFiniteSet(DOMAIN vm'.plan)
      BY <3>1, FS_EmptySet
    <3> QED BY <3>1, <3>2 DEF ReadInv, Types
  <2>5. paper.kind = "none"
    BY <2>1 DEF PaperInv
  <2>6. PaperInv'
    BY <2>1, <2>5 DEF PaperInv
  <2> QED BY <2>3, <2>4, <2>6
<1>6. CASE ReadRows
  <2>1. /\ phase \in {"form", "report"} /\ ~(Types \subseteq vm.got)
        /\ vm' = [vm EXCEPT !.got = @ \union Types, !.rows = @ \union {r \in rows : r.type \in Types}]
        /\ UNCHANGED <<worldVars, phase, paper, steady, seen>>
    BY <1>6 DEF ReadRows, Statement
  <2>2. vm.rows = {} /\ {r \in rows : r.type \in Types} = rows
    BY <1>0, <2>1, PlansArePlans DEF IsPlan, ReadInv
  <2>3. vm' = [status |-> vm.status, dakos |-> vm.dakos, got |-> vm.got \union Types, rows |-> rows,
               mag |-> vm.mag, plan |-> vm.plan]
    BY <2>1, <2>2 DEF ReadInv
  <2>4. WorldInv'
    BY <2>1 DEF WorldInv, worldVars
  <2>5. ReadInv'
    <3>1. /\ vm' = [status |-> vm'.status, dakos |-> vm'.dakos, got |-> vm'.got, rows |-> vm'.rows,
                    mag |-> vm'.mag, plan |-> vm'.plan]
          /\ vm'.dakos = vm.dakos /\ vm'.got = vm.got \union Types /\ vm'.rows = rows /\ vm'.plan = vm.plan
      BY <2>3
    <3>2. vm'.got \in {Types, Types \union {"dakos"}}
      BY <3>1 DEF ReadInv
    <3>3. "dakos" \in vm'.got => "dakos" \in vm.got
      BY <3>1 DEF Types
    <3>4. Types \subseteq vm'.got
      BY <3>1
    <3>5. UNCHANGED <<rows, steady, seen, historical, closedLater>>
      BY <2>1 DEF worldVars
    <3> QED BY <1>0, <3>1, <3>2, <3>3, <3>4, <3>5 DEF ReadInv
  <2>6. paper.kind = "none"
    BY <2>1 DEF PaperInv
  <2>7. PaperInv'
    BY <2>1, <2>6 DEF PaperInv
  <2> QED BY <2>4, <2>5, <2>7
<1>7. CASE ReadDakos
  <2>1. /\ phase = "form"
        /\ vm' = [vm EXCEPT !.got = @ \union {"dakos"}, !.dakos = Applicable]
        /\ UNCHANGED <<worldVars, phase, paper, steady, seen>>
    BY <1>7 DEF ReadDakos
  <2>2. vm' = [status |-> vm.status, dakos |-> Applicable, got |-> vm.got \union {"dakos"}, rows |-> vm.rows,
               mag |-> vm.mag, plan |-> vm.plan]
    BY <2>1 DEF ReadInv
  <2>3. WorldInv'
    BY <2>1 DEF WorldInv, worldVars
  <2>4. ReadInv'
    <3>1. /\ vm' = [status |-> vm'.status, dakos |-> vm'.dakos, got |-> vm'.got, rows |-> vm'.rows,
                    mag |-> vm'.mag, plan |-> vm'.plan]
          /\ vm'.dakos = Applicable /\ vm'.got = vm.got \union {"dakos"}
          /\ vm'.rows = vm.rows /\ vm'.plan = vm.plan
      BY <2>2
    <3>2. vm'.got \in {{"dakos"}, Types \union {"dakos"}} /\ (Types \subseteq vm'.got <=> Types \subseteq vm.got)
      BY <3>1 DEF ReadInv, Types
    <3>3. UNCHANGED <<rows, activeDakos, steady, seen, historical, closedLater>>
      BY <2>1 DEF worldVars
    <3>4. /\ Applicable \subseteq Dakos /\ steady.active \subseteq Applicable
          /\ historical => closedLater \subseteq Applicable
      BY <1>0 DEF Applicable
    <3> QED BY <3>1, <3>2, <3>3, <3>4 DEF ReadInv
  <2>5. paper.kind = "none"
    BY <2>1 DEF PaperInv
  <2>6. PaperInv'
    BY <2>1, <2>5 DEF PaperInv
  <2> QED BY <2>3, <2>4, <2>6
<1>8. CASE PrintForm
  <2>1. /\ vm.got = Types \union {"dakos"} /\ phase' = "done"
        /\ vm' = [vm EXCEPT !.mag = roster]
        /\ UNCHANGED <<worldVars, steady, seen>>
    BY <1>8 DEF PrintForm
  <2>2. paper' = [kind |-> "form", form |-> ViewModel(vm'), slips |-> Slips(ViewModel(vm'))]
    BY <1>8 DEF PrintForm, SlipSource
  <2>3. vm' = [status |-> vm.status, dakos |-> vm.dakos, got |-> vm.got, rows |-> vm.rows,
               mag |-> roster, plan |-> vm.plan]
    BY <2>1 DEF ReadInv
  <2>4. WorldInv'
    BY <2>1 DEF WorldInv, worldVars
  <2>5. /\ vm' = [status |-> vm'.status, dakos |-> vm'.dakos, got |-> vm'.got, rows |-> vm'.rows,
                  mag |-> vm'.mag, plan |-> vm'.plan]
        /\ vm'.dakos = vm.dakos /\ vm'.got = vm.got /\ vm'.rows = vm.rows /\ vm'.plan = vm.plan
    BY <2>3
  <2>6. ReadInv'
    BY <2>1, <2>5 DEF ReadInv, worldVars
  <2>7. /\ paper'.kind = "form" /\ paper'.form = ViewModel(vm') /\ paper'.slips = Slips(ViewModel(vm'))
    BY <2>2
  <2>8. PaperInv'
    BY <2>1, <2>5, <2>7 DEF PaperInv
  <2> QED BY <2>4, <2>6, <2>8
<1>9. CASE PrintReport
  <2>1. /\ vm.got = Types /\ phase' = "done"
        /\ UNCHANGED <<worldVars, steady, seen>>
        /\ paper' = [kind |-> "report", report |-> WeeklyReport(vm')]
    BY <1>9 DEF PrintReport
  <2>2. PICK plan \in Proposals : vm' = [vm EXCEPT !.plan = plan]
    BY <1>9 DEF PrintReport
  <2>3. vm' = [status |-> vm.status, dakos |-> vm.dakos, got |-> vm.got, rows |-> vm.rows,
               mag |-> vm.mag, plan |-> plan]
    BY <2>2 DEF ReadInv
  <2>4. WorldInv'
    BY <2>1 DEF WorldInv, worldVars
  <2>5. /\ vm' = [status |-> vm'.status, dakos |-> vm'.dakos, got |-> vm'.got, rows |-> vm'.rows,
                  mag |-> vm'.mag, plan |-> vm'.plan]
        /\ vm'.dakos = vm.dakos /\ vm'.got = vm.got /\ vm'.rows = vm.rows /\ vm'.plan = plan
    BY <2>3
  <2>6. IsFiniteSet(DOMAIN plan)
    <3>1. DOMAIN plan = activeDakos \X Types \/ DOMAIN plan = {}
      BY <2>2 DEF Proposals
    <3>2. IsFiniteSet(activeDakos)
      BY <1>0, PapersAssumption, FS_Subset
    <3>3. IsFiniteSet(Types)
      <4>1. Types = ({"SUGO"} \union {"RESERBA"}) \union {"RESERBA_II"}
        BY DEF Types
      <4> QED BY <4>1, FS_Singleton, FS_Union
    <3>4. IsFiniteSet(activeDakos \X Types)
      BY <3>2, <3>3, FS_Product
    <3> QED BY <3>1, <3>4, FS_EmptySet
  <2>7. ReadInv'
    BY <2>1, <2>5, <2>6 DEF ReadInv, worldVars
  <2>8. paper'.kind = "report" /\ paper'.report = WeeklyReport(vm')
    BY <2>1
  <2>9. PaperInv'
    BY <2>1, <2>5, <2>8 DEF PaperInv
  <2> QED BY <2>4, <2>7, <2>9
<1>10. CASE BeginForm
  BY <1>5, <1>10 DEF BeginForm
<1>11. CASE BeginReport
  BY <1>5, <1>11 DEF BeginReport
<1> QED BY <1>1, <1>2, <1>3, <1>4, <1>6, <1>7, <1>8, <1>9, <1>10, <1>11 DEF PapersNext

LEMMA PapersHold ==
  ASSUME PapersInv
  PROVE  FormIsTruthful /\ SlipsMatchForm /\ PastDakosStay /\ ReportIsTruthful /\ ReportsAgree
<1>1. IsPlan(rows) /\ IsPlan(vm.rows) /\ vm.dakos \subseteq Dakos
  BY PlansArePlans DEF PapersInv, WorldInv, ReadInv
<1>2. ReportsAgree
  BY <1>1, PlanReportsAgree
<1>3. paper.kind = "form" =>
        /\ paper.form = ViewModel(vm) /\ paper.slips = Slips(ViewModel(vm))
        /\ steady.rows \subseteq vm.rows /\ vm.rows \subseteq seen
        /\ steady.active \subseteq vm.dakos /\ (historical => closedLater \subseteq vm.dakos)
  BY DEF PapersInv, PaperInv, ReadInv
<1>4. paper.kind = "report" =>
        /\ paper.report = WeeklyReport(vm)
        /\ vm.rows \subseteq seen
        /\ IsFiniteSet(DOMAIN vm.plan)
  BY DEF PapersInv, PaperInv, ReadInv
<1> DEFINE onForm == Assigned(ViewModel(vm))
           slips == Slips(ViewModel(vm))
<1>5. /\ \A x \in onForm : \A z \in onForm \ {x} : x.who # z.who
      /\ \A r \in vm.rows : r.dako \in vm.dakos =>
           [dako |-> r.dako, who |-> r.teacher, type |-> r.type] \in onForm
      /\ \A x \in onForm : \E r \in vm.rows : r.dako = x.dako /\ r.teacher = x.who /\ r.type = x.type
      /\ \A i, j \in DOMAIN slips : i # j => slips[i].who # slips[j].who
  BY <1>1, FormTells
<1> HIDE DEF onForm, slips
<1>6. FormIsTruthful
  <2> SUFFICES ASSUME paper.kind = "form"
               PROVE  /\ \A x \in onForm : \A z \in onForm \ {x} : x.who # z.who
                      /\ \A r \in steady.rows :
                           r.dako \in steady.active => [dako |-> r.dako, who |-> r.teacher, type |-> r.type] \in onForm
                      /\ \A x \in onForm : \E r \in seen : r.dako = x.dako /\ r.teacher = x.who /\ r.type = x.type
    BY <1>3 DEF FormIsTruthful, onForm
  <2>1. \A r \in steady.rows :
          r.dako \in steady.active => [dako |-> r.dako, who |-> r.teacher, type |-> r.type] \in onForm
    BY <1>3, <1>5
  <2>2. \A x \in onForm : \E r \in seen : r.dako = x.dako /\ r.teacher = x.who /\ r.type = x.type
    BY <1>3, <1>5
  <2> QED BY <1>5, <2>1, <2>2
<1>7. SlipsMatchForm
  <2> SUFFICES ASSUME paper.kind = "form"
               PROVE  /\ paper.slips = Slips(paper.form)
                      /\ \A i, j \in DOMAIN paper.slips : i # j => paper.slips[i].who # paper.slips[j].who
    BY DEF SlipsMatchForm
  <2>1. paper.slips = slips
    BY <1>3 DEF slips
  <2>2. paper.slips = Slips(paper.form)
    BY <1>3
  <2> QED BY <1>5, <2>1, <2>2
<1>8. PastDakosStay
  <2> SUFFICES ASSUME paper.kind = "form", historical
               PROVE  closedLater \subseteq {paper.form.a[i].dako : i \in DOMAIN paper.form.a}
    BY DEF PastDakosStay
  <2>1. vm.dakos \subseteq {ViewModel(vm).a[i].dako : i \in DOMAIN ViewModel(vm).a}
    BY <1>1, FormListsDakos
  <2> QED BY <1>3, <2>1
<1>9. ReportIsTruthful
  <2> SUFFICES ASSUME paper.kind = "report" PROVE ReportIsTruthful
    BY DEF ReportIsTruthful
  <2> DEFINE outcome == WeeklyReport(vm)
             slots == outcome.slots
  <2>1. /\ Cardinality({x.slot : x \in slots}) = Cardinality(slots)
        /\ \A r \in vm.rows : \E x \in slots : x.slot = <<r.dako, r.type>> /\ x.who = r.teacher
        /\ \A x \in slots : x.who # Nobody =>
             \E r \in vm.rows : x.slot = <<r.dako, r.type>> /\ x.who = r.teacher
        /\ outcome.assigned = Cardinality(vm.rows)
        /\ OfSources(outcome.bySource) = outcome.assigned
    BY <1>1, <1>4, ReportTells
  <2>2. paper.report = outcome
    BY <1>4
  <2> HIDE DEF outcome
  <2>3. \A x \in slots : x.who # Nobody => \E r \in seen : x.slot = <<r.dako, r.type>> /\ x.who = r.teacher
    BY <1>4, <2>1
  <2> QED BY <2>1, <2>2, <2>3 DEF ReportIsTruthful
<1> QED BY <1>2, <1>6, <1>7, <1>8, <1>9

LEMMA PapersRest ==
  ASSUME PapersInv, UNCHANGED paperVars
  PROVE  PapersInv'
BY DEF PapersInv, WorldInv, ReadInv, PaperInv, paperVars

\* For any plans, rosters, dakos and moments at which they change: a form and a report tell nothing that
\* never was and miss nothing that stayed, and the reports over the same rows agree.
THEOREM PapersStayTruthful == Spec => []PapersAreTruthful
<1>1. Init => PapersInv
  BY PapersStart DEF Init
<1>2. PapersInv /\ [Next]_interfaceVars => PapersInv'
  BY OnePaperAtATime, PapersKeep, PapersRest
<1>3. PapersInv => PapersAreTruthful
  BY PapersHold DEF PapersAreTruthful
<1> QED BY <1>1, <1>2, <1>3, PTL DEF Spec

-----------------------------------------------------------------------------
(* Calendar: what a day number is called (year, month, day and ISO week) follows from the   *)
(* lengths of years and months, and so does the day an anniversary is kept on.              *)

(* Years *)

LEMMA MultiplesCounted ==
  ASSUME NEW n \in Nat
  PROVE  /\ (n + 1) \div 4 = n \div 4 + (IF (n + 1) % 4 = 0 THEN 1 ELSE 0)
         /\ (n + 1) \div 100 = n \div 100 + (IF (n + 1) % 100 = 0 THEN 1 ELSE 0)
         /\ (n + 1) \div 400 = n \div 400 + (IF (n + 1) % 400 = 0 THEN 1 ELSE 0)
<1>1. (n + 1) \div 4 = n \div 4 + (IF (n + 1) % 4 = 0 THEN 1 ELSE 0)
  BY SMT
<1>2. (n + 1) \div 100 = n \div 100 + (IF (n + 1) % 100 = 0 THEN 1 ELSE 0)
  BY SMT
<1>3. (n + 1) \div 400 = n \div 400 + (IF (n + 1) % 400 = 0 THEN 1 ELSE 0)
  BY SMT
<1> QED BY <1>1, <1>2, <1>3, SMT

\* The days of a year.
YearLength(v) == IF IsLeap(v) THEN 366 ELSE 365

LEMMA YearIsAdded ==
  ASSUME NEW v \in Nat, v > 0
  PROVE  DaysBefore(v) \in Int /\ DaysBefore(v + 1) = DaysBefore(v) + YearLength(v)
<1> DEFINE n == v - 1
<1>1. n \in Nat /\ n + 1 = v
  BY SMT
<1>2. /\ v \div 4 = n \div 4 + (IF v % 4 = 0 THEN 1 ELSE 0)
      /\ v \div 100 = n \div 100 + (IF v % 100 = 0 THEN 1 ELSE 0)
      /\ v \div 400 = n \div 400 + (IF v % 400 = 0 THEN 1 ELSE 0)
  BY <1>1, MultiplesCounted, SMT
<1>3. (v % 400 = 0 => v % 100 = 0) /\ (v % 100 = 0 => v % 4 = 0)
  BY SMT
<1>4. YearLength(v) = 365 + (IF v % 4 = 0 THEN 1 ELSE 0) - (IF v % 100 = 0 THEN 1 ELSE 0)
                        + (IF v % 400 = 0 THEN 1 ELSE 0)
  BY <1>3, SMT DEF YearLength, IsLeap
<1>5. DaysBefore(v) = 365 * n + n \div 4 - n \div 100 + n \div 400
  BY SMT DEF DaysBefore
<1>6. DaysBefore(v + 1) = 365 * v + v \div 4 - v \div 100 + v \div 400
  BY SMT DEF DaysBefore
<1>7. n \div 4 \in Int /\ n \div 100 \in Int /\ n \div 400 \in Int
  BY <1>1, SMT
<1> HIDE DEF n
<1> QED BY <1>1, <1>2, <1>4, <1>5, <1>6, <1>7, SMT

\* Of the multiples of 4 there are more than of those of 100.
LEMMA FoursAndHundreds ==
  ASSUME NEW n \in Nat, NEW m \in Nat, n <= m
  PROVE  n \div 4 - n \div 100 <= m \div 4 - m \div 100
<1> DEFINE q == n \div 100
           r == n % 100
           u == m \div 100
           v == m % 100
<1>1. n = 100 * q + r /\ r \in 0..99 /\ q \in Nat
  BY SMT
<1>2. m = 100 * u + v /\ v \in 0..99 /\ u \in Nat
  BY SMT
<1> HIDE DEF q, r, u, v
<1>3. n \div 4 = 25 * q + r \div 4 /\ m \div 4 = 25 * u + v \div 4
  BY <1>1, <1>2, SMT
<1>4. r \div 4 \in 0..24 /\ v \div 4 \in 0..24
  BY <1>1, <1>2, SMT
<1>5. q <= u /\ (q = u => r <= v)
  BY <1>1, <1>2, SMT
<1>6. q = u => r \div 4 <= v \div 4
  BY <1>1, <1>2, <1>5, SMT
<1>7. 24 * q + r \div 4 <= 24 * u + v \div 4
  BY <1>1, <1>2, <1>4, <1>5, <1>6, SMT
<1>8. n \div 4 - q = 24 * q + r \div 4 /\ m \div 4 - u = 24 * u + v \div 4
  BY <1>1, <1>2, <1>3, <1>4, SMT
<1> QED BY <1>7, <1>8, SMT DEF q, u

LEMMA YearsFollow ==
  ASSUME NEW a \in Nat, NEW b \in Nat, 0 < a, a <= b
  PROVE  /\ DaysBefore(a) \in Int /\ DaysBefore(b) \in Int
         /\ DaysBefore(a) + 365 * (b - a) <= DaysBefore(b)
         /\ 365 * (a - 1) <= DaysBefore(a) /\ DaysBefore(a) <= 366 * (a - 1)
<1> DEFINE n == a - 1
           m == b - 1
<1>1. n \in Nat /\ m \in Nat /\ n <= m /\ a = n + 1 /\ b = m + 1
  BY SMT
<1>2. DaysBefore(a) = 365 * n + (n \div 4 - n \div 100) + n \div 400
  BY <1>1, SMT DEF DaysBefore
<1>3. DaysBefore(b) = 365 * m + (m \div 4 - m \div 100) + m \div 400
  BY <1>1, SMT DEF DaysBefore
<1> HIDE DEF n, m
<1>4. n \div 4 - n \div 100 <= m \div 4 - m \div 100
  BY <1>1, FoursAndHundreds
<1>5. n \div 400 <= m \div 400
  BY <1>1, SMT
<1>6. /\ n \div 4 \in Nat /\ n \div 100 \in Nat /\ n \div 400 \in Nat
      /\ m \div 4 \in Nat /\ m \div 100 \in Nat /\ m \div 400 \in Nat
  BY <1>1, SMT
<1>7. n \div 100 <= n \div 4 /\ n \div 400 <= n \div 100 /\ n \div 4 <= n
  BY <1>1, SMT
<1> QED BY <1>1, <1>2, <1>3, <1>4, <1>5, <1>6, <1>7, SMT

LEMMA YearIs ==
  ASSUME NEW v \in Nat, v > 0, NEW n \in Int, DaysBefore(v) < n, n <= DaysBefore(v + 1)
  PROVE  YearOf(n) = v
<1> DEFINE In(w) == DaysBefore(w) < n /\ n <= DaysBefore(w + 1)
           S == (n \div 366)..(n \div 365 + 1)
<1>1. /\ DaysBefore(v) \in Int /\ 365 * (v - 1) <= DaysBefore(v)
      /\ DaysBefore(v + 1) \in Int /\ DaysBefore(v + 1) <= 366 * v
  <2>1. v + 1 \in Nat /\ 0 < v + 1 /\ (v + 1) - 1 = v
    BY SMT
  <2> QED BY <2>1, YearsFollow, SMT
<1>2. n > 365 * (v - 1) /\ n <= 366 * v /\ n > 0
  BY <1>1, SMT
<1>3. v - 1 <= n \div 365 /\ n \div 366 <= v
  BY <1>2, SMT
<1>4. v \in S
  BY <1>2, <1>3, SMT
<1>5. ASSUME NEW w \in S, In(w) PROVE w = v
  <2>1. w \in Int /\ w >= 0
    BY <1>2, SMT
  <2>2. w # 0
    <3>1. DaysBefore(1) = 0
      BY SMT DEF DaysBefore
    <3> QED BY <1>2, <1>5, <3>1, SMT
  <2>3. w \in Nat /\ w > 0
    BY <2>1, <2>2, SMT
  <2>4. CASE w < v
    <3>1. w + 1 \in Nat /\ 0 < w + 1 /\ w + 1 <= v
      BY <2>3, <2>4, SMT
    <3>2. DaysBefore(w + 1) + 365 * (v - (w + 1)) <= DaysBefore(v) /\ DaysBefore(w + 1) \in Int
      BY <3>1, YearsFollow
    <3> QED BY <1>1, <1>5, <2>3, <3>1, <3>2, SMT
  <2>5. CASE w > v
    <3>1. v + 1 \in Nat /\ 0 < v + 1 /\ v + 1 <= w
      BY <2>3, <2>5, SMT
    <3>2. DaysBefore(v + 1) + 365 * (w - (v + 1)) <= DaysBefore(w) /\ DaysBefore(w) \in Int
      BY <2>3, <3>1, YearsFollow
    <3> QED BY <1>1, <1>5, <2>3, <3>1, <3>2, SMT
  <2> QED BY <2>3, <2>4, <2>5, SMT
<1> HIDE DEF S
<1>6. YearOf(n) = CHOOSE w \in S : In(w)
  BY DEF YearOf, S
<1> HIDE DEF In
<1>7. In(v)
  BY DEF In
<1> QED BY <1>4, <1>5, <1>6, <1>7

(* Months *)

LEMMA MonthTable ==
  /\ CommonMonths[1] = 0 /\ CommonMonths[2] = 31 /\ CommonMonths[3] = 59 /\ CommonMonths[4] = 90
  /\ CommonMonths[5] = 120 /\ CommonMonths[6] = 151 /\ CommonMonths[7] = 181 /\ CommonMonths[8] = 212
  /\ CommonMonths[9] = 243 /\ CommonMonths[10] = 273 /\ CommonMonths[11] = 304 /\ CommonMonths[12] = 334
BY SMT DEF CommonMonths

LEMMA MonthFacts ==
  ASSUME NEW v \in Nat, NEW m \in 1..12
  PROVE  /\ DaysBeforeMonth(v, m) \in Nat /\ MonthLength(v, m) \in Nat
         /\ 28 <= MonthLength(v, m) /\ MonthLength(v, m) <= 31
         /\ m < 12 => DaysBeforeMonth(v, m) + MonthLength(v, m) = DaysBeforeMonth(v, m + 1)
         /\ m = 12 => DaysBeforeMonth(v, m) + MonthLength(v, m) = YearLength(v)
         /\ m = 1 => DaysBeforeMonth(v, m) = 0 /\ MonthLength(v, m) = 31
         /\ m = 12 => MonthLength(v, m) = 31
         /\ MonthLength(v, m) = 31 \/ (m < 12 /\ MonthLength(v, m + 1) >= 31)
<1>1. m \in {1, 2, 3, 4, 5, 6, 7, 8, 9, 10, 11, 12}
  BY SMT
<1>2. IsLeap(v) \in BOOLEAN
  BY DEF IsLeap
<1> DEFINE leap == IsLeap(v)
           Before(k) == CommonMonths[k] + (IF k > 2 /\ leap THEN 1 ELSE 0)
           Long(k) == CASE k \in {4, 6, 9, 11} -> 30
                        [] k = 2 -> IF leap THEN 29 ELSE 28
                        [] OTHER -> 31
<1>3. \A k : DaysBeforeMonth(v, k) = Before(k) /\ MonthLength(v, k) = Long(k)
  BY SMT DEF DaysBeforeMonth, MonthLength
<1>4. YearLength(v) = IF leap THEN 366 ELSE 365
  BY SMT DEF YearLength
<1> HIDE DEF leap
<1>5. /\ Before(1) = 0 /\ Before(2) = 31
      /\ Before(3) = 59 + (IF leap THEN 1 ELSE 0) /\ Before(4) = 90 + (IF leap THEN 1 ELSE 0)
      /\ Before(5) = 120 + (IF leap THEN 1 ELSE 0) /\ Before(6) = 151 + (IF leap THEN 1 ELSE 0)
      /\ Before(7) = 181 + (IF leap THEN 1 ELSE 0) /\ Before(8) = 212 + (IF leap THEN 1 ELSE 0)
      /\ Before(9) = 243 + (IF leap THEN 1 ELSE 0) /\ Before(10) = 273 + (IF leap THEN 1 ELSE 0)
      /\ Before(11) = 304 + (IF leap THEN 1 ELSE 0) /\ Before(12) = 334 + (IF leap THEN 1 ELSE 0)
  BY MonthTable, SMT
<1>6. /\ Long(1) = 31 /\ Long(2) = (IF leap THEN 29 ELSE 28) /\ Long(3) = 31 /\ Long(4) = 30
      /\ Long(5) = 31 /\ Long(6) = 30 /\ Long(7) = 31 /\ Long(8) = 31
      /\ Long(9) = 30 /\ Long(10) = 31 /\ Long(11) = 30 /\ Long(12) = 31
  BY SMT
<1> HIDE DEF Before, Long
<1>7. /\ Before(m) \in Nat /\ Long(m) \in Nat /\ 28 <= Long(m) /\ Long(m) <= 31
      /\ m < 12 => Before(m) + Long(m) = Before(m + 1)
      /\ m = 12 => Before(m) + Long(m) = IF leap THEN 366 ELSE 365
      /\ m = 1 => Before(m) = 0 /\ Long(m) = 31
      /\ m = 12 => Long(m) = 31
      /\ Long(m) = 31 \/ (m < 12 /\ Long(m + 1) >= 31)
  BY <1>1, <1>5, <1>6, SMT
<1> QED BY <1>3, <1>4, <1>7, SMT

LEMMA DateInYear ==
  ASSUME NEW v \in Nat, v > 0, NEW m \in 1..12, NEW d \in Int
  PROVE  /\ DateUTC(v, m, d) = DaysBefore(v) + DaysBeforeMonth(v, m) + d
         /\ DateUTC(v, m + 1, d) = DaysBefore(v) + DaysBeforeMonth(v, m) + MonthLength(v, m) + d
<1>1. (m - 1) \div 12 = 0 /\ (m - 1) % 12 = m - 1
  BY SMT
<1>2. v + 0 = v /\ 1 + (m - 1) = m
  BY SMT
<1>3. DateUTC(v, m, d) = DaysBefore(v) + DaysBeforeMonth(v, m) + d
  BY <1>1, <1>2, SMT DEF DateUTC
<1>4. CASE m < 12
  <2>1. (m + 1 - 1) \div 12 = 0 /\ (m + 1 - 1) % 12 = m /\ 1 + m = m + 1
    BY <1>4, SMT
  <2>2. DateUTC(v, m + 1, d) = DaysBefore(v) + DaysBeforeMonth(v, m + 1) + d
    BY <1>2, <2>1, SMT DEF DateUTC
  <2>3. /\ DaysBeforeMonth(v, m + 1) = DaysBeforeMonth(v, m) + MonthLength(v, m)
        /\ DaysBeforeMonth(v, m) \in Nat /\ MonthLength(v, m) \in Nat
    BY <1>4, MonthFacts, Zenon
  <2>4. DaysBefore(v) \in Int
    BY YearIsAdded
  <2> QED BY <1>3, <2>2, <2>3, <2>4, SMT
<1>5. CASE m = 12
  <2>1. (m + 1 - 1) \div 12 = 1 /\ (m + 1 - 1) % 12 = 0
    BY <1>5, SMT
  <2>2. DateUTC(v, m + 1, d) = DaysBefore(v + 1) + DaysBeforeMonth(v + 1, 1) + d
    BY <2>1, SMT DEF DateUTC
  <2>3. DaysBeforeMonth(v + 1, 1) = 0
    BY MonthFacts, SMT
  <2>4. DaysBefore(v + 1) = DaysBefore(v) + YearLength(v) /\ DaysBefore(v) \in Int
    BY YearIsAdded
  <2>5. /\ DaysBeforeMonth(v, m) + MonthLength(v, m) = YearLength(v)
        /\ DaysBeforeMonth(v, m) \in Nat /\ MonthLength(v, m) \in Nat
    BY <1>5, MonthFacts, Zenon
  <2> QED BY <1>3, <2>2, <2>3, <2>4, <2>5, SMT
<1> QED BY <1>4, <1>5, SMT

LEMMA MonthsFollow ==
  ASSUME NEW v \in Nat, NEW m \in 1..12, NEW k \in 1..12, m < k
  PROVE  DaysBeforeMonth(v, m) + MonthLength(v, m) <= DaysBeforeMonth(v, k)
<1> DEFINE Before(j) == DaysBeforeMonth(v, j)
<1>1. ASSUME NEW j \in 1..12
      PROVE  Before(j) \in Nat /\ (j < 12 => Before(j) <= Before(j + 1))
  <2>1. /\ Before(j) \in Nat /\ MonthLength(v, j) \in Nat
        /\ j < 12 => Before(j) + MonthLength(v, j) = Before(j + 1)
    BY MonthFacts, Zenon
  <2> QED BY <2>1, SMT
<1>2. DaysBeforeMonth(v, m) + MonthLength(v, m) = Before(m + 1)
  <2>1. m < 12
    BY SMT
  <2> QED BY <2>1, MonthFacts, Zenon
<1> HIDE DEF Before
<1>3. /\ Before(1) <= Before(2) /\ Before(2) <= Before(3) /\ Before(3) <= Before(4) /\ Before(4) <= Before(5)
      /\ Before(5) <= Before(6) /\ Before(6) <= Before(7) /\ Before(7) <= Before(8) /\ Before(8) <= Before(9)
      /\ Before(9) <= Before(10) /\ Before(10) <= Before(11) /\ Before(11) <= Before(12)
  <2>1. \A j \in 1..11 : j \in 1..12 /\ j < 12
    BY SMT
  <2>2. \A j \in 1..11 : Before(j) <= Before(j + 1)
    BY <1>1, <2>1
  <2> QED BY <2>2, SMT
<1>4. Before(m + 1) <= Before(k)
  BY <1>1, <1>3, SMT
<1> QED BY <1>2, <1>4 DEF Before

\* What a day is called.
LEMMA DateIs ==
  ASSUME NEW v \in Nat, v > 0, NEW m \in 1..12, NEW d \in Int, 1 <= d, d <= MonthLength(v, m)
  PROVE  LET n == DateUTC(v, m, d) IN
         /\ n = DaysBefore(v) + DaysBeforeMonth(v, m) + d
         /\ n \in Int /\ DaysBefore(v) < n /\ n <= DaysBefore(v + 1)
         /\ YearOf(n) = v /\ MonthOf(n) = m /\ DayOf(n) = d
<1> DEFINE n == DateUTC(v, m, d)
           From(k) == DateUTC(v, k, 0)
<1>1. /\ n = DaysBefore(v) + DaysBeforeMonth(v, m) + d
      /\ \A k \in 1..12 : /\ From(k) = DaysBefore(v) + DaysBeforeMonth(v, k)
                          /\ From(k + 1) = DaysBefore(v) + DaysBeforeMonth(v, k) + MonthLength(v, k)
  <2>1. n = DaysBefore(v) + DaysBeforeMonth(v, m) + d
    BY DateInYear
  <2>2. ASSUME NEW k \in 1..12
        PROVE  /\ From(k) = DaysBefore(v) + DaysBeforeMonth(v, k)
               /\ From(k + 1) = DaysBefore(v) + DaysBeforeMonth(v, k) + MonthLength(v, k)
    <3>1. /\ DateUTC(v, k, 0) = DaysBefore(v) + DaysBeforeMonth(v, k) + 0
          /\ DateUTC(v, k + 1, 0) = DaysBefore(v) + DaysBeforeMonth(v, k) + MonthLength(v, k) + 0
      BY DateInYear
    <3>2. DaysBeforeMonth(v, k) \in Nat /\ MonthLength(v, k) \in Nat
      BY MonthFacts, Zenon
    <3>3. DaysBefore(v) \in Int
      BY YearIsAdded
    <3> QED BY <3>1, <3>2, <3>3, SMT
  <2> QED BY <2>1, <2>2
<1>2. \A k \in 1..12 : /\ DaysBeforeMonth(v, k) \in Nat /\ MonthLength(v, k) \in Nat
                       /\ DaysBeforeMonth(v, k) + MonthLength(v, k) <= YearLength(v)
  <2> TAKE k \in 1..12
  <2>1. DaysBeforeMonth(v, k) \in Nat /\ MonthLength(v, k) \in Nat
    BY MonthFacts, Zenon
  <2>2. CASE k = 12
    BY <2>1, <2>2, MonthFacts, SMT
  <2>3. CASE k < 12
    <3>1. DaysBeforeMonth(v, k) + MonthLength(v, k) <= DaysBeforeMonth(v, 12)
      BY <2>3, MonthsFollow, SMT
    <3>2. /\ DaysBeforeMonth(v, 12) \in Int /\ MonthLength(v, 12) = 31
          /\ DaysBeforeMonth(v, 12) + MonthLength(v, 12) = YearLength(v)
      BY MonthFacts, SMT
    <3> QED BY <2>1, <3>1, <3>2, SMT
  <2> QED BY <2>1, <2>2, <2>3, SMT
<1>3. DaysBefore(v) \in Int /\ DaysBefore(v + 1) = DaysBefore(v) + YearLength(v) /\ YearLength(v) \in Int
  BY YearIsAdded, SMT DEF YearLength
<1> HIDE DEF n, From
<1>4. n \in Int /\ DaysBefore(v) < n /\ n <= DaysBefore(v + 1)
  BY <1>1, <1>2, <1>3, SMT
<1>5. YearOf(n) = v
  BY <1>4, YearIs
<1> DEFINE In(k) == From(k) < n /\ n <= From(k + 1)
<1>6. MonthOf(n) = CHOOSE k \in 1..12 : In(k)
  BY <1>5 DEF MonthOf, From
<1>7. In(m)
  BY <1>1, <1>2, <1>3, SMT
<1>8. ASSUME NEW k \in 1..12, In(k) PROVE k = m
  <2>1. CASE k < m
    <3>1. DaysBeforeMonth(v, k) + MonthLength(v, k) <= DaysBeforeMonth(v, m)
      BY <2>1, MonthsFollow
    <3> QED BY <1>1, <1>2, <1>3, <1>8, <3>1, SMT
  <2>2. CASE k > m
    <3>1. DaysBeforeMonth(v, m) + MonthLength(v, m) <= DaysBeforeMonth(v, k)
      BY <2>2, MonthsFollow, SMT
    <3> QED BY <1>1, <1>2, <1>3, <1>8, <3>1, SMT
  <2> QED BY <2>1, <2>2, SMT
<1> HIDE DEF In
<1>9. MonthOf(n) = m
  BY <1>6, <1>7, <1>8
<1>10. DayOf(n) = d
  <2>1. DayOf(n) = n - From(m)
    BY <1>5, <1>9 DEF DayOf, From
  <2> QED BY <1>1, <1>2, <1>3, <2>1, SMT
<1> QED BY <1>1, <1>4, <1>5, <1>9, <1>10 DEF n

(* Days *)

Valid(t) ==
  /\ t = [y |-> t.y, m |-> t.m, d |-> t.d]
  /\ t.y \in Nat /\ t.y > 0 /\ t.m \in 1..12
  /\ t.d \in Nat /\ 1 <= t.d /\ t.d <= MonthLength(t.y, t.m)

NumberOf(t) == DateUTC(t.y, t.m, t.d)

LEMMA TomorrowIs ==
  ASSUME NEW t, Valid(t)
  PROVE  /\ Valid(Tomorrow(t)) /\ NumberOf(Tomorrow(t)) = NumberOf(t) + 1
         /\ Tomorrow(t).y \in {t.y, t.y + 1}
<1>1. /\ t = [y |-> t.y, m |-> t.m, d |-> t.d]
      /\ t.y \in Nat /\ t.y > 0 /\ t.m \in 1..12
      /\ t.d \in Nat /\ 1 <= t.d /\ t.d <= MonthLength(t.y, t.m)
  BY DEF Valid
<1>2. /\ MonthLength(t.y, t.m) \in Nat /\ DaysBeforeMonth(t.y, t.m) \in Nat /\ DaysBefore(t.y) \in Int
  BY <1>1, MonthFacts, YearIsAdded, Zenon
<1>3. NumberOf(t) = DaysBefore(t.y) + DaysBeforeMonth(t.y, t.m) + t.d
  BY <1>1, DateInYear, SMT DEF NumberOf
<1>4. CASE t.d < MonthLength(t.y, t.m)
  <2>1. Tomorrow(t) = [y |-> t.y, m |-> t.m, d |-> t.d + 1]
    <3>1. Tomorrow(t) = [t EXCEPT !.d = @ + 1]
      <4>1. t.d # MonthLength(t.y, t.m)
        BY <1>1, <1>2, <1>4, SMT
      <4> QED BY <1>4, <4>1, Zenon DEF Tomorrow
    <3> QED BY <1>1, <3>1
  <2> DEFINE u == Tomorrow(t)
  <2>2. u = [y |-> u.y, m |-> u.m, d |-> u.d] /\ u.y = t.y /\ u.m = t.m /\ u.d = t.d + 1
    BY <2>1
  <2> HIDE DEF u
  <2>3. Valid(u)
    BY <1>1, <1>2, <1>4, <2>2, SMT DEF Valid
  <2>4. NumberOf(u) = DaysBefore(t.y) + DaysBeforeMonth(t.y, t.m) + (t.d + 1)
    BY <1>1, <2>2, DateInYear, SMT DEF NumberOf
  <2>5. NumberOf(u) = NumberOf(t) + 1 /\ u.y \in {t.y, t.y + 1}
    BY <1>1, <1>2, <1>3, <2>2, <2>4, SMT
  <2> QED BY <2>3, <2>5 DEF u
<1>5. CASE t.d = MonthLength(t.y, t.m) /\ t.m < 12
  <2>1. Tomorrow(t) = [y |-> t.y, m |-> t.m + 1, d |-> 1]
    <3>1. Tomorrow(t) = [t EXCEPT !.d = 1, !.m = @ + 1]
      <4>1. ~(t.d < MonthLength(t.y, t.m))
        BY <1>1, <1>2, <1>5, SMT
      <4> QED BY <1>5, <4>1, Zenon DEF Tomorrow
    <3> QED BY <1>1, <3>1
  <2> DEFINE u == Tomorrow(t)
  <2>2. u = [y |-> u.y, m |-> u.m, d |-> u.d] /\ u.y = t.y /\ u.m = t.m + 1 /\ u.d = 1
    BY <2>1
  <2> HIDE DEF u
  <2>3. u.m \in 1..12
    BY <1>1, <1>5, <2>2, SMT
  <2>4. 28 <= MonthLength(u.y, u.m) /\ MonthLength(u.y, u.m) \in Nat
    BY <1>1, <2>2, <2>3, MonthFacts, Zenon
  <2>5. Valid(u)
    BY <1>1, <2>2, <2>3, <2>4, SMT DEF Valid
  <2>6. NumberOf(u) = DaysBefore(t.y) + DaysBeforeMonth(t.y, t.m) + MonthLength(t.y, t.m) + 1
    BY <1>1, <2>2, DateInYear, SMT DEF NumberOf
  <2>7. NumberOf(u) = NumberOf(t) + 1 /\ u.y \in {t.y, t.y + 1}
    BY <1>1, <1>2, <1>3, <1>5, <2>2, <2>6, SMT
  <2> QED BY <2>5, <2>7 DEF u
<1>6. CASE t.d = MonthLength(t.y, t.m) /\ t.m = 12
  <2>1. Tomorrow(t) = [y |-> t.y + 1, m |-> 1, d |-> 1]
    <3>1. ~(t.d < MonthLength(t.y, t.m)) /\ ~(t.m < 12)
      BY <1>1, <1>2, <1>6, SMT
    <3> QED BY <3>1, Zenon DEF Tomorrow
  <2> DEFINE u == Tomorrow(t)
  <2>2. u = [y |-> u.y, m |-> u.m, d |-> u.d] /\ u.y = t.y + 1 /\ u.m = 1 /\ u.d = 1
    BY <2>1
  <2> HIDE DEF u
  <2>3. u.m \in 1..12 /\ u.y \in Nat /\ u.y > 0
    BY <1>1, <2>2, SMT
  <2>4. 28 <= MonthLength(u.y, u.m) /\ MonthLength(u.y, u.m) \in Nat /\ DaysBeforeMonth(u.y, u.m) = 0
    BY <2>2, <2>3, MonthFacts, Zenon
  <2>5. Valid(u)
    BY <2>2, <2>3, <2>4, SMT DEF Valid
  <2>6. NumberOf(u) = DaysBefore(u.y) + DaysBeforeMonth(u.y, u.m) + u.d
    BY <2>2, <2>3, DateInYear, SMT DEF NumberOf
  <2>7. DaysBefore(u.y) = DaysBefore(t.y) + YearLength(t.y)
    BY <1>1, <2>2, YearIsAdded
  <2>8. DaysBeforeMonth(t.y, t.m) + MonthLength(t.y, t.m) = YearLength(t.y)
    BY <1>1, <1>6, MonthFacts, Zenon
  <2>9. NumberOf(u) = NumberOf(t) + 1 /\ u.y \in {t.y, t.y + 1}
    BY <1>1, <1>2, <1>3, <1>6, <2>2, <2>4, <2>6, <2>7, <2>8, SMT
  <2> QED BY <2>5, <2>9 DEF u
<1> QED BY <1>1, <1>2, <1>4, <1>5, <1>6, SMT

(* Weeks *)

LEMMA Mondays ==
  ASSUME NEW n \in Int
  PROVE  /\ FromMonday(n) \in 0..6 /\ n - FromMonday(n) \in Int
         /\ FromMonday(n - FromMonday(n)) = 0
         /\ FromMonday(n + 1) = (FromMonday(n) + 1) % 7
         /\ FromMonday(n + 7) = FromMonday(n) /\ FromMonday(n - 7) = FromMonday(n)
BY SMT DEF FromMonday

LEMMA DayOfWeek ==
  ASSUME NEW n \in Int, FromMonday(n) = 0, NEW k \in 0..6
  PROVE  FromMonday(n + k) = k
BY SMT DEF FromMonday

LEMMA MondaysApart ==
  ASSUME NEW a \in Int, NEW b \in Int, FromMonday(a) = 0, FromMonday(b) = 0
  PROVE  b - a = 7 * ((b - a) \div 7) /\ (b - a) \div 7 \in Int
BY SMT DEF FromMonday

LEMMA WeekOneIs ==
  ASSUME NEW v \in Nat, v > 0
  PROVE  /\ WeekOneMonday(v) \in Int /\ FromMonday(WeekOneMonday(v)) = 0
         /\ DaysBefore(v) - 2 <= WeekOneMonday(v) /\ WeekOneMonday(v) <= DaysBefore(v) + 4
         /\ \A n \in Int : FromMonday(n) = 0 /\ DaysBefore(v) - 2 <= n /\ n <= DaysBefore(v) + 4
                           => n = WeekOneMonday(v)
         /\ DaysBefore(v) + 4 - WeekOneMonday(v) \in 0..6
<1> DEFINE jan4 == DateUTC(v, 1, 4)
<1>1. jan4 = DaysBefore(v) + 4 /\ DaysBefore(v) \in Int
  <2>1. jan4 = DaysBefore(v) + DaysBeforeMonth(v, 1) + 4
    BY DateInYear, SMT
  <2>2. 1 \in 1..12
    BY SMT
  <2>3. DaysBeforeMonth(v, 1) = 0
    BY <2>2, MonthFacts, Zenon
  <2>4. DaysBefore(v) \in Int
    BY YearIsAdded
  <2> HIDE DEF jan4
  <2> QED BY <2>1, <2>3, <2>4, SMT
<1>2. WeekOneMonday(v) = jan4 - FromMonday(jan4)
  BY DEF WeekOneMonday
<1> HIDE DEF jan4
<1>3. jan4 \in Int
  BY <1>1, SMT
<1>4. FromMonday(jan4) \in 0..6 /\ FromMonday(jan4 - FromMonday(jan4)) = 0
  BY <1>3, Mondays
<1>5. ASSUME NEW n \in Int, FromMonday(n) = 0, DaysBefore(v) - 2 <= n, n <= DaysBefore(v) + 4
      PROVE  n = WeekOneMonday(v)
  <2>1. jan4 - n \in 0..6 /\ n + (jan4 - n) = jan4
    BY <1>1, <1>5, SMT
  <2>2. FromMonday(jan4) = jan4 - n
    BY <1>5, <2>1, DayOfWeek
  <2> QED BY <1>2, <1>3, <2>2, SMT
<1> QED BY <1>1, <1>2, <1>3, <1>4, <1>5, SMT

\* All days of a week have its number.
LEMMA SameWeek ==
  ASSUME NEW n \in Int, FromMonday(n) = 0, NEW k \in 0..6
  PROVE  IsoWeek(n + k) = IsoWeek(n)
<1>1. FromMonday(n + k) = k
  BY DayOfWeek
<1>2. (n + k) - FromMonday(n + k) + 3 = n - FromMonday(n) + 3
  BY <1>1, SMT
<1> QED BY <1>2 DEF IsoWeek

LEMMA WeekOf ==
  ASSUME NEW v \in Nat, v > 0, NEW n \in Int, FromMonday(n) = 0,
         DaysBefore(v) < n + 3, n + 3 <= DaysBefore(v + 1)
  PROVE  LET w == (n - WeekOneMonday(v)) \div 7 + 1 IN
         /\ IsoWeek(n) = [year |-> v, week |-> w]
         /\ w \in Nat /\ w >= 1
         /\ IsoWeekStart(v, w) = n
         /\ n <= WeekOneMonday(v + 1) - 7
<1> DEFINE one == WeekOneMonday(v)
           q == (n - one) \div 7
           thursday == n - FromMonday(n) + 3
<1>1. /\ one \in Int /\ FromMonday(one) = 0 /\ DaysBefore(v) - 2 <= one /\ one <= DaysBefore(v) + 4
      /\ DaysBefore(v) \in Int
  BY WeekOneIs, YearIsAdded
<1>2. n - one = 7 * q /\ q \in Int
  BY <1>1, MondaysApart
<1>3. thursday = n + 3
  BY SMT
<1>4. YearOf(thursday) = v
  BY <1>3, YearIs, SMT
<1>5. IsoWeek(n) = [year |-> v, week |-> (2 * (thursday - one) + 7) \div 14 + 1]
  BY <1>4 DEF IsoWeek
<1> HIDE DEF one, q, thursday
<1>6. q >= 0
  BY <1>1, <1>2, SMT
<1>7. (2 * (thursday - one) + 7) \div 14 = q
  <2>1. 2 * (thursday - one) + 7 = 14 * q + 13
    BY <1>1, <1>2, <1>3, SMT
  <2>2. (14 * q + 13) \div 14 = q
    BY <1>2, SMT
  <2> QED BY <2>1, <2>2
<1>8. IsoWeekStart(v, q + 1) = n
  BY <1>1, <1>2, SMT DEF IsoWeekStart, one
<1> DEFINE next == WeekOneMonday(v + 1)
<1>9. /\ next \in Int /\ FromMonday(next) = 0
      /\ DaysBefore(v + 1) - 2 <= next /\ next <= DaysBefore(v + 1) + 4 /\ DaysBefore(v + 1) \in Int
  <2>1. v + 1 \in Nat /\ v + 1 > 0
    BY SMT
  <2> QED BY <2>1, WeekOneIs, YearIsAdded
<1>10. n <= next - 7
  <2>1. next - n = 7 * ((next - n) \div 7) /\ (next - n) \div 7 \in Int
    BY <1>9, MondaysApart
  <2>2. next - n > 0
    BY <1>9, SMT
  <2> DEFINE p == (next - n) \div 7
  <2> HIDE DEF next, p
  <2>3. next - n = 7 * p /\ p \in Int
    BY <2>1 DEF p
  <2> QED BY <1>9, <2>2, <2>3, SMT
<1>11. q + 1 \in Nat /\ q + 1 >= 1
  BY <1>2, <1>6, SMT
<1>12. /\ IsoWeek(n) = [year |-> v, week |-> q + 1] /\ q + 1 \in Nat /\ q + 1 >= 1
       /\ IsoWeekStart(v, q + 1) = n /\ n <= next - 7
  BY <1>5, <1>7, <1>8, <1>10, <1>11
<1> QED BY <1>12 DEF q, one, next

\* A year ends with the week before the first of the next.
LEMMA LastWeekIs ==
  ASSUME NEW v \in Nat, v > 0
  PROVE  IsoWeeksInYear(v) = (WeekOneMonday(v + 1) - 7 - WeekOneMonday(v)) \div 7 + 1
<1> DEFINE next == WeekOneMonday(v + 1)
           monday == next - 7
           dec28 == DateUTC(v, 12, 28)
           k == DaysBefore(v + 1) + 4 - next
<1>1. v + 1 \in Nat /\ v + 1 > 0 /\ 12 \in 1..12 /\ 28 \in Int
  BY SMT
<1>2. /\ next \in Int /\ FromMonday(next) = 0 /\ k \in 0..6
      /\ DaysBefore(v + 1) \in Int
  BY <1>1, WeekOneIs, YearIsAdded
<1>3. DaysBefore(v) \in Int /\ DaysBefore(v + 1) = DaysBefore(v) + YearLength(v)
  BY YearIsAdded
<1>4. YearLength(v) >= 365 /\ YearLength(v) \in Int
  BY SMT DEF YearLength
<1>5. /\ DaysBeforeMonth(v, 12) + MonthLength(v, 12) = YearLength(v)
      /\ MonthLength(v, 12) = 31 /\ DaysBeforeMonth(v, 12) \in Nat
  BY <1>1, MonthFacts, Zenon
<1>6. dec28 = DaysBefore(v) + DaysBeforeMonth(v, 12) + 28
  BY <1>1, DateInYear
<1> HIDE DEF next, dec28
<1>7. monday \in Int /\ FromMonday(monday) = 0
  BY <1>2, Mondays
<1>8. DaysBefore(v) < monday + 3 /\ monday + 3 <= DaysBefore(v + 1)
  BY <1>2, <1>3, <1>4, SMT
<1>9. IsoWeek(monday) = [year |-> v, week |-> (monday - WeekOneMonday(v)) \div 7 + 1]
  BY <1>7, <1>8, WeekOf
<1>10. dec28 = monday + k
  BY <1>2, <1>3, <1>4, <1>5, <1>6, SMT
<1>11. IsoWeek(dec28) = IsoWeek(monday)
  <2> HIDE DEF monday, k
  <2> QED BY <1>2, <1>7, <1>10, SameWeek
<1>12. IsoWeeksInYear(v) = IsoWeek(dec28).week
  BY DEF IsoWeeksInYear, dec28
<1> QED BY <1>9, <1>11, <1>12 DEF next

LEMMA WeekFits ==
  ASSUME NEW v \in Nat, v > 0, NEW n \in Int, FromMonday(n) = 0,
         DaysBefore(v) < n + 3, n + 3 <= DaysBefore(v + 1), NEW k \in 0..6, NEW moment, moment = n + k
  PROVE  LET w == IsoWeek(moment) IN
         /\ moment \in IsoWeekStart(w.year, w.week)..IsoWeekEnd(w.year, w.week)
         /\ w.week \in 1..IsoWeeksInYear(w.year)
         /\ AdjacentWeek(w.year, w.week, 1) = IsoWeek(moment + 7)
         /\ AdjacentWeek(w.year, w.week, -1) = IsoWeek(moment - 7)
<1> DEFINE w == IsoWeek(moment)
           number == (n - WeekOneMonday(v)) \div 7 + 1
<1>1. w = IsoWeek(n)
  BY SameWeek
<1>2. /\ IsoWeek(n) = [year |-> v, week |-> number]
      /\ number \in Nat /\ number >= 1 /\ IsoWeekStart(v, number) = n /\ n <= WeekOneMonday(v + 1) - 7
  BY WeekOf
<1>3. w.year = v /\ w.week = number
  BY <1>1, <1>2
<1>4. IsoWeeksInYear(v) = (WeekOneMonday(v + 1) - 7 - WeekOneMonday(v)) \div 7 + 1
  BY LastWeekIs
<1>5. number <= IsoWeeksInYear(v) /\ IsoWeeksInYear(v) \in Int
  <2>1. v + 1 \in Nat /\ v + 1 > 0
    BY SMT
  <2>2. WeekOneMonday(v) \in Int /\ WeekOneMonday(v + 1) \in Int
    BY <2>1, WeekOneIs
  <2> QED BY <1>2, <1>4, <2>2, SMT
<1> HIDE DEF w, number
<1>6. moment \in IsoWeekStart(v, number)..IsoWeekEnd(v, number)
  <2>1. IsoWeekEnd(v, number) = n + 6
    BY <1>2 DEF IsoWeekEnd
  <2> QED BY <1>2, <2>1, SMT
<1>7. AdjacentWeek(v, number, 1) = IsoWeek(moment + 7)
  <2>1. AdjacentWeek(v, number, 1) = IsoWeek(n + 7 * 1)
    BY <1>2 DEF AdjacentWeek
  <2>2. n + 7 * 1 = n + 7 /\ moment + 7 = (n + 7) + k /\ n + 7 \in Int
    BY SMT
  <2>3. FromMonday(n + 7) = 0
    BY Mondays
  <2>4. IsoWeek((n + 7) + k) = IsoWeek(n + 7)
    BY <2>2, <2>3, SameWeek
  <2> QED BY <2>1, <2>2, <2>4
<1>8. AdjacentWeek(v, number, -1) = IsoWeek(moment - 7)
  <2>1. AdjacentWeek(v, number, -1) = IsoWeek(n + 7 * (-1))
    BY <1>2 DEF AdjacentWeek
  <2>2. n + 7 * (-1) = n - 7 /\ moment - 7 = (n - 7) + k /\ n - 7 \in Int
    BY SMT
  <2>3. FromMonday(n - 7) = 0
    BY Mondays
  <2>4. IsoWeek((n - 7) + k) = IsoWeek(n - 7)
    BY <2>2, <2>3, SameWeek
  <2> QED BY <2>1, <2>2, <2>4
<1>9. number \in 1..IsoWeeksInYear(v)
  BY <1>2, <1>5, SMT
<1>10. /\ moment \in IsoWeekStart(w.year, w.week)..IsoWeekEnd(w.year, w.week)
       /\ w.week \in 1..IsoWeeksInYear(w.year)
       /\ AdjacentWeek(w.year, w.week, 1) = IsoWeek(moment + 7)
       /\ AdjacentWeek(w.year, w.week, -1) = IsoWeek(moment - 7)
  BY <1>3, <1>6, <1>7, <1>8, <1>9
<1> QED BY <1>10 DEF w

(* The walk *)

WalkInv ==
  /\ Valid(today) /\ today.y > 99
  /\ dayNumber = NumberOf(today)
  /\ weekday = FromMonday(dayNumber)
  /\ isoWeek = [year |-> isoWeek.year, week |-> isoWeek.week]
  /\ isoWeek.year \in Nat /\ isoWeek.year > 0
  /\ DaysBefore(isoWeek.year) < dayNumber - weekday + 3
  /\ dayNumber - weekday + 3 <= DaysBefore(isoWeek.year + 1)
  /\ isoWeek.week = (dayNumber - weekday - WeekOneMonday(isoWeek.year)) \div 7 + 1

LEMMA WalkStarts ==
  ASSUME InitWalk
  PROVE  WalkInv
<1> DEFINE v == FirstYear
<1>1. v \in Nat /\ v > 99 /\ v > 0 /\ FromMonday(DateUTC(v, 1, 1)) = 0
  BY WalkAssumption, SMT
<1>2. 1 \in 1..12 /\ 1 \in Int
  BY SMT
<1>3. MonthLength(v, 1) = 31 /\ DaysBeforeMonth(v, 1) = 0
  BY <1>1, <1>2, MonthFacts, Zenon
<1>4. DateUTC(v, 1, 1) = DaysBefore(v) + DaysBeforeMonth(v, 1) + 1
  BY <1>1, <1>2, DateInYear
<1>5. /\ DaysBefore(v) \in Int /\ DaysBefore(v + 1) = DaysBefore(v) + YearLength(v)
      /\ YearLength(v) >= 365 /\ YearLength(v) \in Int
  BY <1>1, YearIsAdded, SMT DEF YearLength
<1>6. today = [y |-> v, m |-> 1, d |-> 1] /\ isoWeek = [year |-> v, week |-> 1] /\ weekday = 0
      /\ dayNumber = DateUTC(v, 1, 1)
  BY DEF InitWalk
<1> HIDE DEF v
<1>7. /\ today = [y |-> today.y, m |-> today.m, d |-> today.d] /\ today.y = v /\ today.m = 1 /\ today.d = 1
      /\ isoWeek = [year |-> isoWeek.year, week |-> isoWeek.week] /\ isoWeek.year = v /\ isoWeek.week = 1
  BY <1>6
<1>8. dayNumber = DaysBefore(v) + 1
  BY <1>3, <1>4, <1>5, <1>6, SMT
<1>9. dayNumber = WeekOneMonday(v)
  BY <1>1, <1>5, <1>6, <1>8, WeekOneIs, SMT
<1>10. Valid(today) /\ dayNumber = NumberOf(today) /\ today.y > 99
  BY <1>1, <1>2, <1>3, <1>6, <1>7, SMT DEF Valid, NumberOf
<1>11. isoWeek.week = (dayNumber - weekday - WeekOneMonday(v)) \div 7 + 1
  <2>1. dayNumber - weekday - WeekOneMonday(v) = 0
    BY <1>5, <1>6, <1>8, <1>9, SMT
  <2> QED BY <1>7, <2>1, SMT
<1>12. DaysBefore(v) < dayNumber - weekday + 3 /\ dayNumber - weekday + 3 <= DaysBefore(v + 1)
  BY <1>5, <1>6, <1>8, SMT
<1>13. weekday = FromMonday(dayNumber)
  BY <1>1, <1>6
<1> QED BY <1>1, <1>7, <1>10, <1>11, <1>12, <1>13 DEF WalkInv

\* The fourth of January is in the week of a Monday just when that Monday begins a year's first week.
LEMMA FourthIs ==
  ASSUME NEW t, Valid(t), FromMonday(NumberOf(t)) = 0,
         NEW v \in Nat, v > 0,
         DaysBefore(v) < NumberOf(t) - 4, NumberOf(t) - 4 <= DaysBefore(v + 1)
  PROVE  HoldsFourth(t) <=> NumberOf(t) + 3 > DaysBefore(v + 1)
<1> DEFINE n == NumberOf(t)
<1>1. /\ t.y \in Nat /\ t.y > 0 /\ t.m \in 1..12
      /\ t.d \in Nat /\ 1 <= t.d /\ t.d <= MonthLength(t.y, t.m)
  BY DEF Valid
<1>2. n = DaysBefore(t.y) + DaysBeforeMonth(t.y, t.m) + t.d /\ n \in Int
      /\ DaysBefore(t.y) < n /\ n <= DaysBefore(t.y + 1)
  <2>1. t.d \in Int
    BY <1>1, SMT
  <2> QED BY <1>1, <2>1, DateIs DEF NumberOf
<1>3. /\ MonthLength(t.y, t.m) \in Nat /\ DaysBeforeMonth(t.y, t.m) \in Nat
      /\ t.m = 1 => DaysBeforeMonth(t.y, t.m) = 0
      /\ t.m = 12 => DaysBeforeMonth(t.y, t.m) + MonthLength(t.y, t.m) = YearLength(t.y) /\ MonthLength(t.y, t.m) = 31
  BY <1>1, MonthFacts, Zenon
<1>4. DaysBefore(t.y) \in Int /\ DaysBefore(t.y + 1) = DaysBefore(t.y) + YearLength(t.y) /\ YearLength(t.y) \in Int
  BY <1>1, YearIsAdded, SMT DEF YearLength
<1>5. DaysBefore(v) \in Int /\ DaysBefore(v + 1) = DaysBefore(v) + YearLength(v) /\ YearLength(v) \in Int /\ YearLength(v) >= 365
  BY YearIsAdded, SMT DEF YearLength
<1>6. YearOf(n - 4) = v
  BY <1>2, YearIs, SMT
<1> HIDE DEF n
<1>7. ASSUME HoldsFourth(t) PROVE n + 3 > DaysBefore(v + 1)
  <2>1. CASE t.m = 1 /\ t.d <= 4
    <3>1. n = DaysBefore(t.y) + t.d
      BY <1>1, <1>2, <1>3, <1>4, <2>1, SMT
    <3>2. n - 4 <= DaysBefore(t.y)
      BY <1>1, <1>4, <2>1, <3>1, SMT
    <3>3. ~(n + 3 <= DaysBefore(v + 1))
      <4> SUFFICES ASSUME n + 3 <= DaysBefore(v + 1) PROVE FALSE
        OBVIOUS
      <4>1. DaysBefore(v) < n /\ n <= DaysBefore(v + 1)
        BY <1>2, <1>5, SMT DEF n
      <4>2. YearOf(n) = v
        BY <1>2, <4>1, YearIs
      <4>3. YearOf(n) = t.y
        BY <1>1, <1>2, YearIs
      <4> QED BY <1>2, <1>5, <3>2, <4>2, <4>3, SMT DEF n
    <3> QED BY <1>2, <1>5, <3>3, SMT
  <2>2. CASE t.m = 12 /\ t.d >= 29
    <3>1. n = DaysBefore(t.y + 1) - 31 + t.d
      BY <1>1, <1>2, <1>3, <1>4, <2>2, SMT
    <3>2. YearLength(t.y) >= 365
      BY SMT DEF YearLength
    <3>3. t.d <= 31
      BY <1>1, <1>3, <2>2, SMT
    <3>4. DaysBefore(t.y) < n - 4 /\ n - 4 <= DaysBefore(t.y + 1)
      BY <1>1, <1>2, <1>4, <2>2, <3>1, <3>2, <3>3, SMT
    <3>5. YearOf(n - 4) = t.y
      BY <1>1, <1>2, <3>4, YearIs, SMT
    <3>6. t.y = v
      BY <1>6, <3>5
    <3> QED BY <1>1, <1>2, <1>4, <2>2, <3>1, <3>6, SMT
  <2> QED BY <1>7, <2>1, <2>2 DEF HoldsFourth
<1>8. ASSUME n + 3 > DaysBefore(v + 1) PROVE HoldsFourth(t)
  <2> DEFINE e == DaysBefore(v + 1)
  <2>1. n \in Int /\ e \in Int /\ n > e - 3 /\ n <= e + 4
    BY <1>2, <1>5, <1>8, SMT DEF n
  <2>2. v + 1 \in Nat /\ v + 1 > 0 /\ 1 \in 1..12 /\ 12 \in 1..12
    BY SMT
  <2>3. /\ DaysBeforeMonth(v, 12) + MonthLength(v, 12) = YearLength(v)
        /\ MonthLength(v, 12) = 31 /\ DaysBeforeMonth(v, 12) \in Nat
    BY <2>2, MonthFacts, Zenon
  <2>4. MonthLength(v + 1, 1) = 31 /\ DaysBeforeMonth(v + 1, 1) = 0
    BY <2>2, MonthFacts, Zenon
  <2>5. MonthOf(n) = t.m /\ DayOf(n) = t.d
    <3>1. t.d \in Int
      BY <1>1, SMT
    <3> QED BY <1>1, <3>1, DateIs DEF n, NumberOf
  <2>6. CASE n <= e
    <3> DEFINE d == 31 - (e - n)
    <3>1. d \in Int /\ 1 <= d /\ d <= MonthLength(v, 12) /\ d >= 29
      BY <2>1, <2>3, <2>6, SMT
    <3>2. DateUTC(v, 12, d) = DaysBefore(v) + DaysBeforeMonth(v, 12) + d
      BY <2>2, <3>1, DateInYear
    <3>3. DateUTC(v, 12, d) = n
      BY <1>5, <2>1, <2>3, <3>2, SMT
    <3>4. MonthOf(n) = 12 /\ DayOf(n) = d
      BY <2>2, <3>1, <3>3, DateIs
    <3> QED BY <2>5, <3>1, <3>4 DEF HoldsFourth
  <2>7. CASE n > e
    <3> DEFINE d == n - e
    <3>1. d \in Int /\ 1 <= d /\ d <= MonthLength(v + 1, 1) /\ d <= 4
      BY <2>1, <2>4, <2>7, SMT
    <3>2. DateUTC(v + 1, 1, d) = e + DaysBeforeMonth(v + 1, 1) + d
      BY <2>2, <3>1, DateInYear
    <3>3. DateUTC(v + 1, 1, d) = n
      BY <2>1, <2>4, <3>2, SMT
    <3>4. MonthOf(n) = 1 /\ DayOf(n) = d
      BY <2>2, <3>1, <3>3, DateIs
    <3> QED BY <2>5, <3>1, <3>4 DEF HoldsFourth
  <2> QED BY <2>1, <2>6, <2>7, SMT
<1> QED BY <1>7, <1>8 DEF n

LEMMA WalkKeeps ==
  ASSUME WalkInv, NextWalk
  PROVE  WalkInv'
<1> DEFINE v == isoWeek.year
           n == dayNumber
           monday == dayNumber - weekday
<1>1. /\ Valid(today) /\ today.y > 99 /\ today.y \in Nat
      /\ n = NumberOf(today) /\ weekday = FromMonday(n)
      /\ isoWeek = [year |-> v, week |-> isoWeek.week] /\ v \in Nat /\ v > 0
      /\ DaysBefore(v) < monday + 3 /\ monday + 3 <= DaysBefore(v + 1)
      /\ isoWeek.week = (monday - WeekOneMonday(v)) \div 7 + 1
  BY DEF WalkInv, Valid
<1>2. n \in Int
  <2>1. today.d \in Int
    BY <1>1, SMT DEF Valid
  <2> QED BY <1>1, <2>1, DateIs DEF Valid, NumberOf
<1>3. today' = Tomorrow(today) /\ weekday' = (weekday + 1) % 7 /\ dayNumber' = n + 1
  BY DEF NextWalk
<1>4. Valid(today') /\ dayNumber' = NumberOf(today') /\ today'.y \in {today.y, today.y + 1}
  BY <1>1, <1>3, TomorrowIs
<1>5. today'.y > 99
  BY <1>1, <1>4, SMT
<1>6. weekday' = FromMonday(dayNumber') /\ weekday \in 0..6 /\ FromMonday(monday) = 0 /\ monday \in Int
  BY <1>1, <1>2, <1>3, Mondays
<1>7. /\ DaysBefore(v) \in Int /\ DaysBefore(v + 1) = DaysBefore(v) + YearLength(v)
      /\ YearLength(v) >= 365 /\ YearLength(v) \in Int
  BY <1>1, YearIsAdded, SMT DEF YearLength
<1>8. CASE weekday' # 0
  <2>1. isoWeek' = isoWeek
    BY <1>8 DEF NextWalk
  <2>2. weekday' = weekday + 1
    BY <1>3, <1>6, <1>8, SMT
  <2>3. dayNumber' - weekday' = monday
    BY <1>2, <1>3, <1>6, <2>2, SMT
  <2> HIDE DEF v, n, monday
  <2> QED BY <1>1, <1>4, <1>5, <1>6, <2>1, <2>3 DEF WalkInv, v
<1>9. CASE weekday' = 0
  <2>1. weekday = 6
    BY <1>3, <1>6, <1>9, SMT
  <2>2. dayNumber' = monday + 7 /\ dayNumber' \in Int /\ dayNumber' - weekday' = dayNumber'
        /\ dayNumber' - 4 = monday + 3
    BY <1>2, <1>3, <1>9, <2>1, SMT
  <2>3. FromMonday(dayNumber') = 0
    BY <1>6, <1>9
  <2>4. HoldsFourth(today') <=> dayNumber' + 3 > DaysBefore(v + 1)
    <3>1. DaysBefore(v) < dayNumber' - 4 /\ dayNumber' - 4 <= DaysBefore(v + 1)
      BY <1>1, <2>2
    <3> QED BY <1>1, <1>4, <2>3, <3>1, FourthIs
  <2> HIDE DEF monday, n
  <2>5. CASE HoldsFourth(today')
    <3>1. isoWeek' = [year |-> v + 1, week |-> 1]
      BY <1>9, <2>5 DEF NextWalk, v
    <3>2. isoWeek' = [year |-> isoWeek'.year, week |-> isoWeek'.week] /\ isoWeek'.year = v + 1 /\ isoWeek'.week = 1
      BY <3>1
    <3>3. v + 1 \in Nat /\ v + 1 > 0
      BY <1>1, SMT
    <3>4. DaysBefore(v + 1) < dayNumber' + 3 /\ dayNumber' <= DaysBefore(v + 1) + 4
      BY <1>1, <1>6, <1>7, <2>2, <2>4, <2>5, SMT
    <3>5. dayNumber' = WeekOneMonday(v + 1)
      <4>1. DaysBefore(v + 1) - 2 <= dayNumber' /\ dayNumber' <= DaysBefore(v + 1) + 4
        BY <1>7, <2>2, <3>4, SMT
      <4> QED BY <2>2, <2>3, <3>3, <4>1, WeekOneIs
    <3>6. /\ DaysBefore(v + 1) \in Int /\ DaysBefore((v + 1) + 1) = DaysBefore(v + 1) + YearLength(v + 1)
          /\ YearLength(v + 1) >= 365 /\ YearLength(v + 1) \in Int
      BY <3>3, YearIsAdded, SMT DEF YearLength
    <3>7. dayNumber' + 3 <= DaysBefore((v + 1) + 1)
      BY <2>2, <3>4, <3>6, SMT
    <3>8. 1 = (dayNumber' - weekday' - WeekOneMonday(v + 1)) \div 7 + 1
      <4>1. dayNumber' - weekday' - WeekOneMonday(v + 1) = 0
        BY <1>9, <2>2, <3>5, SMT
      <4> QED BY <4>1, SMT
    <3> HIDE DEF v
    <3> QED BY <1>4, <1>5, <1>6, <2>2, <3>2, <3>3, <3>4, <3>7, <3>8 DEF WalkInv
  <2>6. CASE ~HoldsFourth(today')
    <3>1. isoWeek' = [year |-> v, week |-> isoWeek.week + 1]
      <4>1. isoWeek' = [isoWeek EXCEPT !.week = @ + 1]
        BY <1>9, <2>6 DEF NextWalk
      <4> HIDE DEF v
      <4> QED BY <1>1, <4>1
    <3>2. isoWeek' = [year |-> isoWeek'.year, week |-> isoWeek'.week] /\ isoWeek'.year = v
          /\ isoWeek'.week = isoWeek.week + 1
      BY <3>1
    <3>3. DaysBefore(v) < dayNumber' + 3 /\ dayNumber' + 3 <= DaysBefore(v + 1)
      BY <1>1, <1>6, <1>7, <2>2, <2>4, <2>6, SMT
    <3>4. isoWeek.week + 1 = (dayNumber' - weekday' - WeekOneMonday(v)) \div 7 + 1
      <4>1. WeekOneMonday(v) \in Int
        BY <1>1, WeekOneIs
      <4>2. dayNumber' - weekday' - WeekOneMonday(v) = (monday - WeekOneMonday(v)) + 7
        BY <1>6, <2>2, <4>1, SMT
      <4> DEFINE x == monday - WeekOneMonday(v)
      <4>3. x \in Int /\ isoWeek.week = x \div 7 + 1
        BY <1>1, <1>6, <4>1, SMT
      <4> HIDE DEF x
      <4>4. (x + 7) \div 7 = x \div 7 + 1
        BY <4>3, SMT
      <4> QED BY <4>2, <4>3, <4>4, SMT DEF x
    <3> HIDE DEF v
    <3> QED BY <1>1, <1>4, <1>5, <1>6, <2>2, <3>2, <3>3, <3>4 DEF WalkInv
  <2> QED BY <2>5, <2>6
<1> QED BY <1>8, <1>9

LEMMA WeeksHold ==
  ASSUME WalkInv
  PROVE  WeeksAgree
<1> DEFINE v == isoWeek.year
           monday == dayNumber - weekday
<1>1. /\ Valid(today) /\ dayNumber = NumberOf(today) /\ weekday = FromMonday(dayNumber)
      /\ isoWeek = [year |-> v, week |-> isoWeek.week] /\ v \in Nat /\ v > 0
      /\ DaysBefore(v) < monday + 3 /\ monday + 3 <= DaysBefore(v + 1)
      /\ isoWeek.week = (monday - WeekOneMonday(v)) \div 7 + 1
  BY DEF WalkInv
<1>2. dayNumber \in Int
  <2>1. today.d \in Int
    BY <1>1, SMT DEF Valid
  <2> QED BY <1>1, <2>1, DateIs DEF Valid, NumberOf
<1>3. weekday \in 0..6 /\ FromMonday(monday) = 0 /\ monday \in Int
  BY <1>1, <1>2, Mondays
<1>4. dayNumber = monday + weekday
  BY <1>2, <1>3, SMT
<1> HIDE DEF monday
<1>5. IsoWeek(dayNumber) = isoWeek
  <2>1. IsoWeek(monday) = [year |-> v, week |-> (monday - WeekOneMonday(v)) \div 7 + 1]
    BY <1>1, <1>3, WeekOf
  <2>2. IsoWeek(dayNumber) = IsoWeek(monday)
    BY <1>3, <1>4, SameWeek
  <2> HIDE DEF v
  <2> QED BY <1>1, <2>1, <2>2
<1>6. LET w == IsoWeek(dayNumber) IN
      /\ dayNumber \in IsoWeekStart(w.year, w.week)..IsoWeekEnd(w.year, w.week)
      /\ w.week \in 1..IsoWeeksInYear(w.year)
      /\ AdjacentWeek(w.year, w.week, 1) = IsoWeek(dayNumber + 7)
      /\ AdjacentWeek(w.year, w.week, -1) = IsoWeek(dayNumber - 7)
  BY <1>1, <1>3, <1>4, WeekFits
<1> QED BY <1>5, <1>6, Zenon DEF WeeksAgree

\* The weeks that begin after the Monday before a day of this year and not after its last day are known.
LEMMA MonthsHold ==
  ASSUME WalkInv
  PROVE  MonthsCovered
<1> DEFINE v == today.y
           m == today.m
           first == DateUTC(v, m, 1)
           start == first - FromMonday(first)
           last == DateUTC(v, m + 1, 0)
           count == (last - start) \div 7 + 1
           weeks == MonthWeeks(v, m)
           MondayAt(i) == start + 7 * (i - 1)
<1>1. /\ v \in Nat /\ v > 99 /\ m \in 1..12
      /\ today.d \in Nat /\ 1 <= today.d /\ today.d <= MonthLength(v, m)
      /\ dayNumber = DateUTC(v, m, today.d)
      /\ weekday = FromMonday(dayNumber)
  BY DEF WalkInv, Valid, NumberOf
<1>2. MonthLength(v, m) \in Nat /\ DaysBeforeMonth(v, m) \in Nat /\ 28 <= MonthLength(v, m)
  BY <1>1, MonthFacts, Zenon
<1>3. weeks = [i \in 1..count |-> IsoWeek(MondayAt(i))]
  BY DEF MonthWeeks
<1> HIDE DEF v, m, weeks
<1>4. /\ v > 0 /\ DaysBefore(v) \in Int
      /\ first = DaysBefore(v) + DaysBeforeMonth(v, m) + 1
      /\ last = DaysBefore(v) + DaysBeforeMonth(v, m) + MonthLength(v, m) + 0
      /\ dayNumber = DaysBefore(v) + DaysBeforeMonth(v, m) + today.d
  <2>1. v > 0 /\ 1 \in Int /\ 0 \in Int /\ today.d \in Int
    BY <1>1, SMT
  <2> QED BY <1>1, <2>1, DateInYear, YearIsAdded
<1> HIDE DEF first, last
<1>5. first \in Int /\ last \in Int /\ dayNumber \in Int /\ first <= dayNumber /\ dayNumber <= last
  BY <1>1, <1>2, <1>4, SMT
<1>6. FromMonday(first) \in 0..6 /\ start \in Int /\ FromMonday(start) = 0
  BY <1>5, Mondays
<1> DEFINE k == FromMonday(first)
<1>7. first = start + k /\ k \in 0..6
  BY <1>5, <1>6, SMT
<1> HIDE DEF start, k
<1>8. count \in Nat /\ count >= 1
  BY <1>5, <1>6, <1>7, SMT
<1>9. \A i \in 1..count : MondayAt(i) \in Int /\ FromMonday(MondayAt(i)) = 0 /\ start <= MondayAt(i) /\ MondayAt(i) <= last
  <2> TAKE i \in 1..count
  <2>1. i \in Int /\ 1 <= i /\ i <= (last - start) \div 7 + 1
    BY <1>5, <1>6, SMT
  <2>2. 7 * ((last - start) \div 7) <= last - start
    BY <1>5, <1>6, SMT
  <2>3. MondayAt(i) \in Int /\ start <= MondayAt(i)
    BY <1>6, <2>1, SMT
  <2>4. MondayAt(i) <= last
    BY <1>5, <1>6, <2>1, <2>2, SMT
  <2>5. FromMonday(MondayAt(i)) = 0
    <3>1. (start - 1) % 7 = 0
      BY <1>6 DEF FromMonday
    <3>2. (MondayAt(i) - 1) % 7 = 0
      BY <1>6, <2>1, <3>1, SMT
    <3> QED BY <3>2 DEF FromMonday
  <2> QED BY <2>3, <2>4, <2>5
<1> HIDE DEF count
\* Each of them has a number.
<1>10. ASSUME NEW i \in 1..count
       PROVE  /\ IsoWeekStart(IsoWeek(MondayAt(i)).year, IsoWeek(MondayAt(i)).week) = MondayAt(i)
              /\ IsoWeekEnd(IsoWeek(MondayAt(i)).year, IsoWeek(MondayAt(i)).week) = MondayAt(i) + 6
  <2> DEFINE n == MondayAt(i)
  <2>1. n \in Int /\ FromMonday(n) = 0 /\ start <= n /\ n <= last
    BY <1>9
  <2> HIDE DEF n
  <2>2. DaysBefore(v + 1) = DaysBefore(v) + YearLength(v) /\ YearLength(v) \in Int /\ YearLength(v) >= 365
    BY <1>1, <1>4, YearIsAdded, SMT DEF YearLength
  <2>3. v + 1 \in Nat /\ v + 1 > 0 /\ v - 1 \in Nat /\ v - 1 > 0 /\ (v - 1) + 1 = v
    BY <1>1, SMT
  <2>4. /\ DaysBefore((v + 1) + 1) = DaysBefore(v + 1) + YearLength(v + 1)
        /\ YearLength(v + 1) \in Int /\ YearLength(v + 1) >= 365
    BY <2>3, YearIsAdded, SMT DEF YearLength
  <2>5. /\ DaysBefore(v - 1) \in Int /\ DaysBefore(v) = DaysBefore(v - 1) + YearLength(v - 1)
        /\ YearLength(v - 1) \in Int /\ YearLength(v - 1) >= 365
    <3>1. DaysBefore((v - 1) + 1) = DaysBefore(v - 1) + YearLength(v - 1) /\ DaysBefore(v - 1) \in Int
      BY <2>3, YearIsAdded
    <3> QED BY <2>3, <3>1, SMT DEF YearLength
  <2>6. DaysBeforeMonth(v, m) + MonthLength(v, m) <= YearLength(v)
    <3>1. m = 12 => DaysBeforeMonth(v, m) + MonthLength(v, m) = YearLength(v)
      BY <1>1, MonthFacts, Zenon
    <3>2. 12 \in 1..12 /\ 1 \in Int
      BY SMT
    <3>3. /\ DaysBeforeMonth(v, 12) + MonthLength(v, 12) = YearLength(v)
          /\ MonthLength(v, 12) \in Nat /\ DaysBeforeMonth(v, 12) \in Nat
      BY <1>1, <3>2, MonthFacts, Zenon
    <3>4. m < 12 => DaysBeforeMonth(v, m) + MonthLength(v, m) <= DaysBeforeMonth(v, 12)
      BY <1>1, <3>2, MonthsFollow
    <3> QED BY <1>1, <1>2, <2>2, <3>1, <3>3, <3>4, SMT
  <2>7. DaysBefore(v) - 5 <= n /\ n <= DaysBefore(v + 1)
    BY <1>2, <1>4, <1>5, <1>6, <1>7, <2>1, <2>2, <2>6, SMT
  <2>8. \E u \in Nat : u > 0 /\ DaysBefore(u) < n + 3 /\ n + 3 <= DaysBefore(u + 1)
    <3>1. CASE n + 3 <= DaysBefore(v)
      <4>1. DaysBefore(v - 1) < n + 3 /\ n + 3 <= DaysBefore((v - 1) + 1)
        BY <1>4, <2>1, <2>3, <2>5, <2>7, <3>1, SMT
      <4> QED BY <2>3, <4>1, Zenon
    <3>2. CASE DaysBefore(v) < n + 3 /\ n + 3 <= DaysBefore(v + 1)
      BY <1>1, <1>4, <3>2, Zenon
    <3>3. CASE DaysBefore(v + 1) < n + 3
      <4>1. n + 3 <= DaysBefore((v + 1) + 1)
        BY <1>4, <2>1, <2>2, <2>4, <2>7, SMT
      <4> QED BY <2>3, <3>3, <4>1, Zenon
    <3> QED BY <1>4, <2>1, <2>2, <3>1, <3>2, <3>3, SMT
  <2>9. PICK u \in Nat : u > 0 /\ DaysBefore(u) < n + 3 /\ n + 3 <= DaysBefore(u + 1)
    BY <2>8
  <2> DEFINE w == (n - WeekOneMonday(u)) \div 7 + 1
  <2>10. IsoWeek(n) = [year |-> u, week |-> w] /\ IsoWeekStart(u, w) = n
    BY <2>1, <2>9, WeekOf
  <2> HIDE DEF w
  <2>11. IsoWeek(n).year = u /\ IsoWeek(n).week = w
    BY <2>10
  <2>12. IsoWeekEnd(u, w) = n + 6
    BY <2>10 DEF IsoWeekEnd
  <2>13. IsoWeekStart(IsoWeek(n).year, IsoWeek(n).week) = n /\ IsoWeekEnd(IsoWeek(n).year, IsoWeek(n).week) = n + 6
    BY <2>10, <2>11, <2>12
  <2> QED BY <2>13 DEF n
<1>11. DOMAIN weeks = 1..count /\ \A i \in 1..count : weeks[i] = IsoWeek(MondayAt(i))
  BY <1>3
\* The week of today is one of them.
<1>12. \E i \in DOMAIN weeks : weeks[i] = isoWeek
  <2> DEFINE monday == dayNumber - FromMonday(dayNumber)
             j == (monday - start) \div 7 + 1
  <2>1. FromMonday(dayNumber) \in 0..6 /\ monday \in Int /\ FromMonday(monday) = 0
    BY <1>5, Mondays
  <2>2. dayNumber = monday + FromMonday(dayNumber)
    BY <1>5, <2>1, SMT
  <2> HIDE DEF monday
  <2>3. monday - start = 7 * ((monday - start) \div 7) /\ (monday - start) \div 7 \in Int
    BY <1>6, <2>1, MondaysApart
  <2> DEFINE q == (monday - start) \div 7
  <2>4. monday - start = 7 * q /\ q \in Int /\ j = q + 1
    BY <2>3
  <2> HIDE DEF q, j
  <2>5. monday > start - 7 /\ monday <= last
    BY <1>5, <1>6, <1>7, <2>1, <2>2, SMT
  <2>6. q >= 0
    BY <1>6, <2>1, <2>4, <2>5, SMT
  <2>7. q <= (last - start) \div 7
    <3>1. 7 * q <= last - start
      BY <1>5, <1>6, <2>1, <2>4, <2>5, SMT
    <3> QED BY <1>5, <1>6, <2>4, <3>1, SMT
  <2>8. j \in 1..count
    BY <1>5, <1>6, <2>4, <2>6, <2>7, SMT DEF count
  <2>9. MondayAt(j) = monday
    BY <1>6, <2>1, <2>4, SMT
  <2>10. IsoWeek(dayNumber) = IsoWeek(monday)
    BY <2>1, <2>2, SameWeek
  <2>11. IsoWeek(dayNumber) = isoWeek
    BY WeeksHold DEF WeeksAgree
  <2>12. weeks[j] = isoWeek
    BY <1>11, <2>8, <2>9, <2>10, <2>11
  <2> QED BY <1>11, <2>8, <2>12
\* Each of them has a day in the month.
<1>13. ASSUME NEW i \in DOMAIN weeks
       PROVE  \E n \in IsoWeekStart(weeks[i].year, weeks[i].week)..IsoWeekEnd(weeks[i].year, weeks[i].week) :
                YearOf(n) = v /\ MonthOf(n) = m
  <2>1. i \in 1..count /\ weeks[i] = IsoWeek(MondayAt(i)) /\ i \in Int /\ i >= 1
    BY <1>8, <1>11, SMT
  <2> DEFINE a == MondayAt(i)
             n == IF a < first THEN first ELSE a
             d == n - first + 1
  <2>2. /\ IsoWeekStart(weeks[i].year, weeks[i].week) = a
        /\ IsoWeekEnd(weeks[i].year, weeks[i].week) = a + 6
    BY <1>10, <2>1
  <2>3. a \in Int /\ start <= a /\ a <= last
    BY <1>9, <2>1
  <2> HIDE DEF a
  <2>4. n \in a..(a + 6)
    BY <1>5, <1>6, <1>7, <2>3, SMT
  <2>5. d \in Int /\ 1 <= d /\ d <= MonthLength(v, m)
    BY <1>2, <1>4, <1>5, <2>3, SMT
  <2>6. DateUTC(v, m, d) = DaysBefore(v) + DaysBeforeMonth(v, m) + d
    BY <1>1, <1>4, <2>5, DateInYear
  <2>7. DateUTC(v, m, d) = n
    BY <1>2, <1>4, <1>5, <2>3, <2>6, SMT
  <2>8. YearOf(n) = v /\ MonthOf(n) = m
    BY <1>1, <1>4, <2>5, <2>7, DateIs
  <2> HIDE DEF n
  <2> QED BY <2>2, <2>4, <2>8
\* They follow each other.
<1>14. ASSUME NEW i \in DOMAIN weeks \ {1}
       PROVE  weeks[i] = AdjacentWeek(weeks[i - 1].year, weeks[i - 1].week, 1)
  <2>1. i \in 1..count /\ i - 1 \in 1..count
    BY <1>8, <1>11, SMT
  <2>2. weeks[i] = IsoWeek(MondayAt(i)) /\ weeks[i - 1] = IsoWeek(MondayAt(i - 1))
    BY <1>11, <2>1
  <2>3. IsoWeekStart(weeks[i - 1].year, weeks[i - 1].week) = MondayAt(i - 1)
    BY <1>10, <2>1, <2>2
  <2>4. MondayAt(i - 1) + 7 * 1 = MondayAt(i)
    BY <1>6, <1>8, <2>1, SMT
  <2> HIDE DEF MondayAt
  <2> QED BY <2>2, <2>3, <2>4 DEF AdjacentWeek
<1> HIDE DEF MondayAt
<1> QED BY <1>12, <1>13, <1>14 DEF MonthsCovered, v, m, weeks

(* Anniversaries *)

IsDate(date) == date.m \in 1..12 /\ date.d \in 1..31

\* The day of the month an anniversary is kept on.
KeptDay(date, v) == IF date.d <= MonthLength(v, date.m) THEN date.d ELSE MonthLength(v, date.m)

LEMMA AnniversaryIs ==
  ASSUME NEW date, IsDate(date), NEW v \in Nat, v > 0
  PROVE  LET n == AnniversaryIn(date, v) IN
         /\ KeptDay(date, v) \in Nat /\ 1 <= KeptDay(date, v) /\ KeptDay(date, v) <= MonthLength(v, date.m)
         /\ n = DateUTC(v, date.m, KeptDay(date, v))
         /\ n = DaysBefore(v) + DaysBeforeMonth(v, date.m) + KeptDay(date, v)
         /\ n \in Int /\ DaysBefore(v) < n /\ n <= DaysBefore(v + 1)
         /\ YearOf(n) = v /\ MonthOf(n) = date.m /\ DayOf(n) = KeptDay(date, v)
<1> DEFINE m == date.m
           d == date.d
           long == MonthLength(v, m)
           k == KeptDay(date, v)
<1>1. m \in 1..12 /\ d \in Int /\ 1 <= d /\ d <= 31
  BY SMT DEF IsDate
<1>2. /\ long \in Nat /\ 28 <= long /\ long <= 31 /\ DaysBeforeMonth(v, m) \in Nat
      /\ long = 31 \/ (m < 12 /\ MonthLength(v, m + 1) >= 31)
      /\ m < 12 => DaysBeforeMonth(v, m) + long = DaysBeforeMonth(v, m + 1)
  BY <1>1, MonthFacts, Zenon
<1>3. k = IF d <= long THEN d ELSE long
  BY DEF KeptDay
<1> HIDE DEF m, d, long, k
<1>4. k \in Nat /\ 1 <= k /\ k <= long /\ k \in Int
  BY <1>1, <1>2, <1>3, SMT
<1>5. DaysBefore(v) \in Int
  BY YearIsAdded
<1>6. AnniversaryIn(date, v) = DateUTC(v, m, k)
  <2>1. CASE d <= long
    <3>1. MonthOf(DateUTC(v, m, d)) = m
      BY <1>1, <2>1, DateIs DEF long
    <3> QED BY <1>3, <2>1, <3>1 DEF AnniversaryIn, m, d
  <2>2. CASE d > long
    <3> DEFINE over == d - long
    <3>1. m + 1 \in 1..12 /\ over \in Int /\ 1 <= over /\ over <= MonthLength(v, m + 1) /\ k = long
      <4>1. m < 12 /\ MonthLength(v, m + 1) >= 31
        BY <1>1, <1>2, <2>2, SMT
      <4>2. m + 1 \in 1..12
        BY <1>1, <4>1, SMT
      <4>3. MonthLength(v, m + 1) \in Nat
        BY <4>2, MonthFacts, Zenon
      <4> QED BY <1>1, <1>2, <1>3, <2>2, <4>1, <4>2, <4>3, SMT
    <3>2. DateUTC(v, m, d) = DaysBefore(v) + DaysBeforeMonth(v, m) + d
      BY <1>1, DateInYear
    <3>3. DateUTC(v, m + 1, over) = DaysBefore(v) + DaysBeforeMonth(v, m) + long + over
      BY <1>1, <3>1, DateInYear DEF long
    <3>4. DateUTC(v, m, d) = DateUTC(v, m + 1, over)
      BY <1>1, <1>2, <1>5, <3>2, <3>3, SMT
    <3>5. MonthOf(DateUTC(v, m, d)) = m + 1
      BY <3>1, <3>4, DateIs
    <3>6. m + 1 # m
      BY <1>1, SMT
    <3>7. AnniversaryIn(date, v) = DateUTC(v, m + 1, 0)
      BY <3>5, <3>6 DEF AnniversaryIn, m, d
    <3>8. DateUTC(v, m + 1, 0) = DaysBefore(v) + DaysBeforeMonth(v, m) + long + 0
      <4>1. 0 \in Int
        BY SMT
      <4> QED BY <1>1, <4>1, DateInYear DEF long
    <3>9. DateUTC(v, m, k) = DaysBefore(v) + DaysBeforeMonth(v, m) + k
      BY <1>1, <1>4, DateInYear
    <3> QED BY <1>2, <1>5, <3>1, <3>7, <3>8, <3>9, SMT
  <2> QED BY <1>1, <1>2, <2>1, <2>2, SMT
<1>7. LET n == DateUTC(v, m, k) IN
      /\ n = DaysBefore(v) + DaysBeforeMonth(v, m) + k
      /\ n \in Int /\ DaysBefore(v) < n /\ n <= DaysBefore(v + 1)
      /\ YearOf(n) = v /\ MonthOf(n) = m /\ DayOf(n) = k
  BY <1>1, <1>4, DateIs DEF long
<1> QED BY <1>4, <1>6, <1>7, Zenon DEF m, k, long

LEMMA KeptIs ==
  ASSUME NEW date, IsDate(date), NEW t, Valid(t)
  PROVE  Kept(date, t) <=> AnniversaryIn(date, t.y) = NumberOf(t)
<1> DEFINE long == MonthLength(t.y, t.m)
<1>1. /\ t.y \in Nat /\ t.y > 0 /\ t.m \in 1..12
      /\ t.d \in Nat /\ t.d \in Int /\ 1 <= t.d /\ t.d <= long
  BY SMT DEF Valid
<1>2. date.d \in Int /\ long \in Int
  <2>1. long \in Nat
    BY <1>1, MonthFacts, Zenon
  <2> QED BY <2>1, SMT DEF IsDate
<1>3. /\ AnniversaryIn(date, t.y) = DateUTC(t.y, date.m, KeptDay(date, t.y))
      /\ MonthOf(AnniversaryIn(date, t.y)) = date.m /\ DayOf(AnniversaryIn(date, t.y)) = KeptDay(date, t.y)
  BY <1>1, AnniversaryIs
<1>4. MonthOf(NumberOf(t)) = t.m /\ DayOf(NumberOf(t)) = t.d
  BY <1>1, DateIs DEF NumberOf
<1>5. AnniversaryIn(date, t.y) = NumberOf(t) <=> date.m = t.m /\ KeptDay(date, t.y) = t.d
  BY <1>3, <1>4 DEF NumberOf
<1> HIDE DEF long
<1>6. date.m = t.m => KeptDay(date, t.y) = IF date.d <= long THEN date.d ELSE long
  BY DEF KeptDay, long
<1>7. Kept(date, t) <=> t.m = date.m /\ (t.d = date.d \/ (date.d > long /\ t.d = long))
  BY DEF Kept, long
<1> QED BY <1>1, <1>2, <1>5, <1>6, <1>7, SMT

\* A month before a day is at least 28 days before it.
LEMMA MonthBefore ==
  ASSUME NEW v \in Nat, v > 1, NEW m \in 1..12, NEW d \in Int, 1 <= d, d <= MonthLength(v, m)
  PROVE  LET n == DateUTC(v, m, d) IN MonthEarlier(n) \in Int /\ MonthEarlier(n) < n - 1
<1> DEFINE n == DateUTC(v, m, d)
<1>1. /\ n = DaysBefore(v) + DaysBeforeMonth(v, m) + d /\ n \in Int
      /\ YearOf(n) = v /\ MonthOf(n) = m /\ DayOf(n) = d
  BY DateIs, SMT
<1> HIDE DEF n
<1>2. MonthEarlier(n) = DateUTC(v, m - 1, d)
  BY <1>1 DEF MonthEarlier
<1>3. DaysBefore(v) \in Int /\ DaysBeforeMonth(v, m) \in Nat
  <2>1. v > 0
    BY SMT
  <2> QED BY <2>1, MonthFacts, YearIsAdded, Zenon
<1>4. CASE m > 1
  <2> DEFINE p == m - 1
  <2>1. p \in 1..12 /\ p < 12 /\ p + 1 = m /\ v > 0
    BY <1>4, SMT
  <2>2. /\ MonthLength(v, p) \in Nat /\ 28 <= MonthLength(v, p) /\ DaysBeforeMonth(v, p) \in Nat
        /\ DaysBeforeMonth(v, p) + MonthLength(v, p) = DaysBeforeMonth(v, p + 1)
    BY <2>1, MonthFacts, Zenon
  <2>3. DateUTC(v, p, d) = DaysBefore(v) + DaysBeforeMonth(v, p) + d
    BY <2>1, DateInYear
  <2> QED BY <1>1, <1>2, <1>3, <2>1, <2>2, <2>3, SMT DEF n
<1>5. CASE m = 1
  <2> DEFINE u == v - 1
  <2>1. u \in Nat /\ u > 0 /\ u + 1 = v /\ 12 \in 1..12
    BY SMT
  <2>2. DateUTC(v, m - 1, d) = DaysBefore(u) + DaysBeforeMonth(u, 12) + d
    <3> DEFINE k == m - 1 - 1
    <3>1. k \in Int /\ k + 12 = 11
      BY <1>5, SMT
    <3> HIDE DEF k
    <3>3. k \div 12 = -1 /\ k % 12 = 11
      BY <3>1, SMT
    <3>2. v + (-1) = u /\ 1 + 11 = 12
      BY SMT
    <3> HIDE DEF u
    <3>4. DateUTC(v, m - 1, d) = DaysBefore(v + k \div 12) + DaysBeforeMonth(v + k \div 12, 1 + (k % 12)) + d
      BY DEF DateUTC, k
    <3> QED BY <3>2, <3>3, <3>4
  <2>3. DaysBefore(u) \in Int /\ DaysBefore(v) = DaysBefore(u) + YearLength(u)
    BY <2>1, YearIsAdded
  <2>4. /\ DaysBeforeMonth(u, 12) + MonthLength(u, 12) = YearLength(u)
        /\ MonthLength(u, 12) = 31 /\ DaysBeforeMonth(u, 12) \in Nat
    BY <2>1, MonthFacts, Zenon
  <2>5. DaysBeforeMonth(v, m) = 0
    BY <1>5, MonthFacts, Zenon
  <2> QED BY <1>1, <1>2, <1>3, <2>2, <2>3, <2>4, <2>5, SMT DEF n
<1> QED BY <1>4, <1>5, SMT DEF n

\* From one year to the next an anniversary moves by 364 to 367 days.
LEMMA AnniversariesApart ==
  ASSUME NEW date, IsDate(date), NEW v \in Nat, v > 0
  PROVE  AnniversaryIn(date, v + 1) - AnniversaryIn(date, v) \in 364..367
<1> DEFINE m == date.m
           l == IF IsLeap(v) THEN 1 ELSE 0
           e == IF IsLeap(v + 1) THEN 1 ELSE 0
           c == CommonMonths[m]
<1>1. m \in 1..12 /\ date.d \in Int /\ v + 1 \in Nat /\ v + 1 > 0
  BY SMT DEF IsDate
<1>2. /\ AnniversaryIn(date, v) = DaysBefore(v) + DaysBeforeMonth(v, m) + KeptDay(date, v)
      /\ AnniversaryIn(date, v + 1) = DaysBefore(v + 1) + DaysBeforeMonth(v + 1, m) + KeptDay(date, v + 1)
      /\ KeptDay(date, v) \in Nat /\ KeptDay(date, v + 1) \in Nat
  BY <1>1, AnniversaryIs
<1>3. DaysBefore(v) \in Int /\ DaysBefore(v + 1) = DaysBefore(v) + YearLength(v)
  BY YearIsAdded
<1>4. l \in 0..1 /\ e \in 0..1 /\ YearLength(v) = 365 + l
  BY SMT DEF YearLength
<1>5. DaysBeforeMonth(v, m) = c + (IF m > 2 THEN l ELSE 0) /\ DaysBeforeMonth(v + 1, m) = c + (IF m > 2 THEN e ELSE 0)
  BY SMT DEF DaysBeforeMonth
<1>6. c \in Int
  <2>1. m \in {1, 2, 3, 4, 5, 6, 7, 8, 9, 10, 11, 12}
    BY <1>1, SMT
  <2> QED BY <2>1, MonthTable, SMT
<1>7. m # 2 => MonthLength(v + 1, m) = MonthLength(v, m)
  BY SMT DEF MonthLength
<1>8. m = 2 => MonthLength(v + 1, m) = 28 + e /\ MonthLength(v, m) = 28 + l
  BY SMT DEF MonthLength
<1>9. MonthLength(v, m) \in Int /\ MonthLength(v + 1, m) \in Int
  <2>1. MonthLength(v, m) \in Nat /\ MonthLength(v + 1, m) \in Nat
    BY <1>1, MonthFacts, Zenon
  <2> QED BY <2>1, SMT
<1>10. /\ KeptDay(date, v) = IF date.d <= MonthLength(v, m) THEN date.d ELSE MonthLength(v, m)
       /\ KeptDay(date, v + 1) = IF date.d <= MonthLength(v + 1, m) THEN date.d ELSE MonthLength(v + 1, m)
  BY DEF KeptDay
<1> HIDE DEF m, l, e, c
<1>11. KeptDay(date, v + 1) - KeptDay(date, v) \in -1..1 /\ (m # 2 => KeptDay(date, v + 1) = KeptDay(date, v))
  BY <1>1, <1>4, <1>7, <1>8, <1>9, <1>10, SMT
<1>12. CASE m > 2
  BY <1>1, <1>2, <1>3, <1>4, <1>5, <1>6, <1>11, <1>12, SMT
<1>13. CASE ~(m > 2)
  BY <1>1, <1>2, <1>3, <1>4, <1>5, <1>6, <1>11, <1>13, SMT
<1> QED BY <1>12, <1>13

LEMMA NextIs ==
  ASSUME NEW date, IsDate(date), NEW t, Valid(t)
  PROVE  LET n == NumberOf(t)
             next == NextAnniversary(date, n)
         IN /\ n \in Int /\ DaysBefore(t.y) < n /\ n <= DaysBefore(t.y + 1)
            /\ AnniversaryIn(date, t.y) >= n => next = AnniversaryIn(date, t.y)
            /\ AnniversaryIn(date, t.y) < n => next = AnniversaryIn(date, t.y + 1)
            /\ next - n \in 0..366
<1> DEFINE n == NumberOf(t)
           next == NextAnniversary(date, n)
           this == AnniversaryIn(date, t.y)
           later == AnniversaryIn(date, t.y + 1)
<1>1. /\ t.y \in Nat /\ t.y > 0 /\ t.m \in 1..12 /\ t.d \in Int /\ 1 <= t.d /\ t.d <= MonthLength(t.y, t.m)
      /\ t.y + 1 \in Nat /\ t.y + 1 > 0
  BY SMT DEF Valid
<1>2. n \in Int /\ DaysBefore(t.y) < n /\ n <= DaysBefore(t.y + 1) /\ YearOf(n) = t.y
  BY <1>1, DateIs DEF NumberOf
<1>3. /\ this \in Int /\ DaysBefore(t.y) < this /\ this <= DaysBefore(t.y + 1)
      /\ later \in Int /\ DaysBefore(t.y + 1) < later
  BY <1>1, AnniversaryIs
<1>4. later - this \in 364..367
  BY <1>1, AnniversariesApart
<1>5. /\ DaysBefore(t.y) \in Int /\ DaysBefore(t.y + 1) = DaysBefore(t.y) + YearLength(t.y)
      /\ YearLength(t.y) \in 365..366
  <2>1. YearLength(t.y) \in 365..366
    BY SMT DEF YearLength
  <2> QED BY <1>1, <2>1, YearIsAdded
<1>6. next = IF this < n THEN later ELSE this
  BY <1>2 DEF NextAnniversary
<1> HIDE DEF n, next, this, later
<1>7. (this >= n => next = this) /\ (this < n => next = later)
  BY <1>2, <1>3, <1>6, SMT
<1>8. next - n \in 0..366
  BY <1>2, <1>3, <1>4, <1>5, <1>7, SMT
<1> QED BY <1>2, <1>7, <1>8 DEF n, next, this, later

\* The next anniversary is a day of this year or the next, kept as the anniversary of that year.
LEMMA NextIsKept ==
  ASSUME NEW date, IsDate(date), NEW t, Valid(t)
  PROVE  LET next == NextAnniversary(date, NumberOf(t))
             v == YearOf(next)
         IN /\ v \in {t.y, t.y + 1} /\ v \in Nat /\ v > 0 /\ next = AnniversaryIn(date, v)
            /\ next = DateUTC(v, date.m, KeptDay(date, v))
            /\ MonthOf(next) = date.m /\ DayOf(next) = KeptDay(date, v) /\ next \in Int
<1>1. t.y \in Nat /\ t.y > 0 /\ t.y + 1 \in Nat /\ t.y + 1 > 0 /\ NumberOf(t) \in Int
  <2>1. t.y \in Nat /\ t.y > 0 /\ t.y + 1 \in Nat /\ t.y + 1 > 0
    BY SMT DEF Valid
  <2> QED BY <2>1, NextIs
<1> DEFINE next == NextAnniversary(date, NumberOf(t))
<1>2. PICK v \in {t.y, t.y + 1} : next = AnniversaryIn(date, v)
  <2>1. AnniversaryIn(date, t.y) \in Int
    BY <1>1, AnniversaryIs
  <2>2. AnniversaryIn(date, t.y) >= NumberOf(t) \/ AnniversaryIn(date, t.y) < NumberOf(t)
    BY <1>1, <2>1, SMT
  <2> QED BY <2>2, NextIs
<1>3. v \in Nat /\ v > 0
  BY <1>1, <1>2
<1> HIDE DEF next
<1>4. /\ next = DateUTC(v, date.m, KeptDay(date, v)) /\ next \in Int
      /\ YearOf(next) = v /\ MonthOf(next) = date.m /\ DayOf(next) = KeptDay(date, v)
  BY <1>2, <1>3, AnniversaryIs
<1> QED BY <1>2, <1>3, <1>4 DEF next

LEMMA StageIs ==
  ASSUME NEW date, IsDate(date), NEW t, Valid(t), t.y > 99
  PROVE  LET n == NumberOf(t) IN
         /\ Stage(date, n) = "TODAY" <=> NextAnniversary(date, n) = n
         /\ Stage(date, n) = "ONE_DAY_BEFORE" <=> NextAnniversary(date, n) = n + 1
<1> DEFINE n == NumberOf(t)
           next == NextAnniversary(date, n)
           v == YearOf(next)
           k == KeptDay(date, v)
<1>1. n \in Int /\ next \in Int
  BY NextIs, NextIsKept
<1>2. v \in Nat /\ v > 1 /\ v > 0
  <2>1. t.y \in Nat /\ v \in {t.y, t.y + 1}
    BY NextIsKept DEF Valid
  <2> HIDE DEF v
  <2> QED BY <2>1, SMT
<1>3. next = DateUTC(v, date.m, k)
  BY NextIsKept
<1>4. MonthEarlier(next) \in Int /\ MonthEarlier(next) < next - 1
  <2>1. k \in Nat /\ 1 <= k /\ k <= MonthLength(v, date.m) /\ date.m \in 1..12
    BY <1>2, AnniversaryIs DEF IsDate
  <2>2. k \in Int
    BY <2>1, SMT
  <2> HIDE DEF v, k, next
  <2> QED BY <1>2, <1>3, <2>1, <2>2, MonthBefore
<1>5. Stage(date, n) = CASE next = n -> "TODAY"
                         [] next - n = 1 -> "ONE_DAY_BEFORE"
                         [] MonthEarlier(next) = n -> "ONE_MONTH_BEFORE"
                         [] OTHER -> IF next - n <= 30 THEN "APPROACHING" ELSE "NONE"
  BY DEF Stage
<1> DEFINE stage == Stage(date, n)
<1> HIDE DEF v, k, next, n, stage
<1>6. CASE next = n
  <2>1. next - n # 1 /\ MonthEarlier(next) # n /\ next # n + 1
    BY <1>1, <1>4, <1>6, SMT
  <2>2. stage = "TODAY"
    BY <1>5, <1>6, <2>1, Zenon DEF stage
  <2> QED BY <1>6, <2>1, <2>2 DEF stage, next, n
<1>7. CASE next - n = 1
  <2>1. next # n /\ MonthEarlier(next) # n /\ next = n + 1
    BY <1>1, <1>4, <1>7, SMT
  <2>2. stage = "ONE_DAY_BEFORE"
    BY <1>5, <1>7, <2>1, Zenon DEF stage
  <2> QED BY <2>1, <2>2 DEF stage, next, n
<1>8. CASE next # n /\ next - n # 1
  <2>1. next # n + 1
    BY <1>1, <1>8, SMT
  <2>2. stage \in {"ONE_MONTH_BEFORE", "APPROACHING", "NONE"}
    <3>1. CASE MonthEarlier(next) = n
      BY <1>5, <1>8, <3>1, Zenon DEF stage
    <3>2. CASE MonthEarlier(next) # n
      BY <1>5, <1>8, <3>2, Zenon DEF stage
    <3> QED BY <3>1, <3>2
  <2>3. stage # "TODAY" /\ stage # "ONE_DAY_BEFORE"
    BY <2>2
  <2> QED BY <1>8, <2>1, <2>3 DEF stage, next, n
<1> QED BY <1>6, <1>7, <1>8

LEMMA TodayIsKept ==
  ASSUME NEW date, IsDate(date), NEW t, Valid(t)
  PROVE  NextAnniversary(date, NumberOf(t)) = NumberOf(t) <=> Kept(date, t)
<1> DEFINE n == NumberOf(t)
           next == NextAnniversary(date, n)
           this == AnniversaryIn(date, t.y)
           later == AnniversaryIn(date, t.y + 1)
<1>1. t.y \in Nat /\ t.y > 0 /\ t.y + 1 \in Nat /\ t.y + 1 > 0
  BY SMT DEF Valid
<1>2. /\ n \in Int /\ n <= DaysBefore(t.y + 1)
      /\ this >= n => next = this
      /\ this < n => next = later
  BY NextIs
<1>3. this \in Int /\ later \in Int /\ DaysBefore(t.y + 1) < later
  BY <1>1, AnniversaryIs
<1>4. DaysBefore(t.y + 1) \in Int
  BY <1>1, YearIsAdded
<1>5. Kept(date, t) <=> this = n
  BY KeptIs
<1> HIDE DEF n, next, this, later
<1>6. next = n <=> this = n
  BY <1>2, <1>3, <1>4, SMT
<1> QED BY <1>5, <1>6 DEF n, next, this, later

LEMMA TomorrowIsKept ==
  ASSUME NEW date, IsDate(date), NEW t, Valid(t)
  PROVE  NextAnniversary(date, NumberOf(t)) = NumberOf(t) + 1 <=> Kept(date, Tomorrow(t))
<1> DEFINE n == NumberOf(t)
           next == NextAnniversary(date, n)
           u == Tomorrow(t)
           this == AnniversaryIn(date, t.y)
           later == AnniversaryIn(date, t.y + 1)
<1>1. t.y \in Nat /\ t.y > 0 /\ t.y + 1 \in Nat /\ t.y + 1 > 0
  BY SMT DEF Valid
<1>2. Valid(u) /\ NumberOf(u) = n + 1 /\ u.y \in {t.y, t.y + 1}
  BY TomorrowIs
<1>3. /\ n \in Int /\ n <= DaysBefore(t.y + 1)
      /\ this >= n => next = this
      /\ this < n => next = later
  BY NextIs
<1>4. this \in Int /\ later \in Int /\ this <= DaysBefore(t.y + 1) /\ DaysBefore(t.y + 1) < later
  BY <1>1, AnniversaryIs
<1>5. later - this \in 364..367
  BY <1>1, AnniversariesApart
<1>6. DaysBefore(t.y + 1) \in Int
  BY <1>1, YearIsAdded
<1>7. DaysBefore(u.y) < n + 1 /\ n + 1 <= DaysBefore(u.y + 1)
  BY <1>2, NextIs
<1>8. Kept(date, u) <=> AnniversaryIn(date, u.y) = n + 1
  BY <1>2, KeptIs
<1> HIDE DEF n, next, u
<1>9. CASE u.y = t.y
  <2>1. Kept(date, u) <=> this = n + 1
    BY <1>8, <1>9
  <2>2. n + 1 <= DaysBefore(t.y + 1)
    BY <1>7, <1>9
  <2> HIDE DEF this, later
  <2>3. next = n + 1 <=> this = n + 1
    BY <1>3, <1>4, <1>6, <2>2, SMT
  <2> QED BY <2>1, <2>3 DEF n, next, u
<1>10. CASE u.y = t.y + 1
  <2>1. Kept(date, u) <=> later = n + 1
    BY <1>8, <1>10
  <2>2. DaysBefore(t.y + 1) < n + 1
    BY <1>7, <1>10
  <2> HIDE DEF this, later
  <2>3. next = n + 1 <=> later = n + 1
    BY <1>3, <1>4, <1>5, <1>6, <2>2, SMT
  <2> QED BY <2>1, <2>3 DEF n, next, u
<1> QED BY <1>2, <1>9, <1>10

LEMMA AnniversariesHold ==
  ASSUME WalkInv
  PROVE  AnniversariesKept
<1>1. Valid(today) /\ dayNumber = NumberOf(today) /\ today.y > 99
  BY DEF WalkInv
<1>2. ASSUME NEW date \in Dates
      PROVE  /\ (Stage(date, dayNumber) = "TODAY") = Kept(date, today)
             /\ (Stage(date, dayNumber) = "ONE_DAY_BEFORE") = Kept(date, Tomorrow(today))
             /\ NextAnniversary(date, dayNumber) - dayNumber \in 0..366
  <2>1. IsDate(date)
    BY WalkAssumption DEF IsDate
  <2>2. Stage(date, dayNumber) = "TODAY" <=> Kept(date, today)
    BY <1>1, <2>1, StageIs, TodayIsKept
  <2>3. Stage(date, dayNumber) = "ONE_DAY_BEFORE" <=> Kept(date, Tomorrow(today))
    BY <1>1, <2>1, StageIs, TomorrowIsKept
  <2>4. NextAnniversary(date, dayNumber) - dayNumber \in 0..366
    BY <1>1, <2>1, NextIs
  <2>5. Kept(date, today) \in BOOLEAN /\ Kept(date, Tomorrow(today)) \in BOOLEAN
    BY DEF Kept
  <2> QED BY <2>2, <2>3, <2>4, <2>5, Zenon
<1> QED BY <1>2, Zenon DEF AnniversariesKept

\* Next anniversaries of the same day and month are one day.
LEMMA SameKey ==
  ASSUME NEW o, IsDate(o), NEW p, IsDate(p), NEW t, Valid(t),
         MonthOf(NextAnniversary(o, NumberOf(t))) = MonthOf(NextAnniversary(p, NumberOf(t))),
         DayOf(NextAnniversary(o, NumberOf(t))) = DayOf(NextAnniversary(p, NumberOf(t)))
  PROVE  YearOf(NextAnniversary(o, NumberOf(t))) >= YearOf(NextAnniversary(p, NumberOf(t)))
<1> DEFINE n == NumberOf(t)
           v == t.y
           a == NextAnniversary(o, n)
           b == NextAnniversary(p, n)
<1>1. v \in Nat /\ v > 0 /\ v + 1 \in Nat /\ v + 1 > 0
  BY SMT DEF Valid
<1>2. /\ YearOf(a) \in {v, v + 1} /\ YearOf(b) \in {v, v + 1}
      /\ MonthOf(a) = o.m /\ DayOf(a) = KeptDay(o, YearOf(a))
      /\ MonthOf(b) = p.m /\ DayOf(b) = KeptDay(p, YearOf(b))
      /\ a = AnniversaryIn(o, YearOf(a)) /\ b = AnniversaryIn(p, YearOf(b))
  BY NextIsKept
<1>3. o.m = p.m /\ KeptDay(o, YearOf(a)) = KeptDay(p, YearOf(b))
  BY <1>2
<1>4. SUFFICES ASSUME YearOf(a) = v, YearOf(b) = v + 1 PROVE FALSE
  BY <1>1, <1>2, SMT
<1>5. n \in Int /\ (AnniversaryIn(o, v) < n => a = AnniversaryIn(o, v + 1))
      /\ (AnniversaryIn(p, v) >= n => b = AnniversaryIn(p, v))
  BY NextIs
<1>6. /\ YearOf(AnniversaryIn(o, v + 1)) = v + 1 /\ YearOf(AnniversaryIn(p, v)) = v
      /\ AnniversaryIn(o, v) = DaysBefore(v) + DaysBeforeMonth(v, o.m) + KeptDay(o, v)
      /\ AnniversaryIn(p, v) = DaysBefore(v) + DaysBeforeMonth(v, p.m) + KeptDay(p, v)
      /\ KeptDay(o, v) \in Nat /\ KeptDay(p, v) \in Nat
      /\ AnniversaryIn(o, v) \in Int /\ AnniversaryIn(p, v) \in Int
      /\ KeptDay(o, v) <= MonthLength(v, o.m)
      /\ KeptDay(p, v + 1) \in Nat
  BY <1>1, AnniversaryIs
<1>7. v # v + 1
  BY <1>1, SMT
<1>8. ~(AnniversaryIn(o, v) < n) /\ ~(AnniversaryIn(p, v) >= n)
  BY <1>4, <1>5, <1>6, <1>7
<1>9. DaysBefore(v) \in Int /\ DaysBeforeMonth(v, o.m) \in Nat /\ MonthLength(v, o.m) \in Nat
  BY <1>1, MonthFacts, YearIsAdded, Zenon DEF IsDate
<1>10. KeptDay(p, v) < KeptDay(o, v)
  <2>1. AnniversaryIn(p, v) < AnniversaryIn(o, v)
    BY <1>5, <1>6, <1>8, SMT
  <2> QED BY <1>3, <1>6, <1>9, <2>1, SMT
<1>11. KeptDay(p, v + 1) = KeptDay(o, v)
  BY <1>3, <1>4
<1>12. /\ KeptDay(p, v) = IF p.d <= MonthLength(v, p.m) THEN p.d ELSE MonthLength(v, p.m)
       /\ KeptDay(p, v + 1) = IF p.d <= MonthLength(v + 1, p.m) THEN p.d ELSE MonthLength(v + 1, p.m)
  BY DEF KeptDay
<1>13. p.d \in Int /\ MonthLength(v + 1, p.m) \in Nat
  <2>1. p.d \in Int
    BY SMT DEF IsDate
  <2>2. MonthLength(v + 1, p.m) \in Nat
    BY <1>1, MonthFacts, Zenon DEF IsDate
  <2> QED BY <2>1, <2>2
<1> QED BY <1>3, <1>6, <1>9, <1>10, <1>11, <1>12, <1>13, SMT

LEMMA SameDay ==
  ASSUME NEW o, IsDate(o), NEW p, IsDate(p), NEW t, Valid(t),
         MonthOf(NextAnniversary(o, NumberOf(t))) = MonthOf(NextAnniversary(p, NumberOf(t))),
         DayOf(NextAnniversary(o, NumberOf(t))) = DayOf(NextAnniversary(p, NumberOf(t)))
  PROVE  NextAnniversary(o, NumberOf(t)) = NextAnniversary(p, NumberOf(t))
<1> DEFINE a == NextAnniversary(o, NumberOf(t))
           b == NextAnniversary(p, NumberOf(t))
<1>1. /\ YearOf(a) \in Nat /\ YearOf(b) \in Nat
      /\ a = DateUTC(YearOf(a), o.m, KeptDay(o, YearOf(a))) /\ MonthOf(a) = o.m /\ DayOf(a) = KeptDay(o, YearOf(a))
      /\ b = DateUTC(YearOf(b), p.m, KeptDay(p, YearOf(b))) /\ MonthOf(b) = p.m /\ DayOf(b) = KeptDay(p, YearOf(b))
  BY NextIsKept
<1>2. YearOf(a) >= YearOf(b) /\ YearOf(b) >= YearOf(a)
  BY SameKey
<1>3. YearOf(a) = YearOf(b)
  <2> HIDE DEF a, b
  <2> QED BY <1>1, <1>2, SMT
<1> QED BY <1>1, <1>3

LEMMA GroupsHold ==
  ASSUME WalkInv
  PROVE  GroupsTogether
<1> DEFINE n == dayNumber
           When(o) == NextAnniversary(o, n)
           Key(o) == <<MonthOf(When(o)), DayOf(When(o))>>
           Group(o) == [date |-> When(o), oaths |-> {p \in Dates : When(p) = When(o)}]
           groups == AnniversaryGroups(Dates, n)
           kept == {o \in Dates : Kept(o, today)}
<1>1. Valid(today) /\ n = NumberOf(today) /\ \A o \in Dates : IsDate(o)
  BY WalkAssumption DEF WalkInv, IsDate
<1>2. ASSUME NEW o \in Dates, NEW p \in Dates PROVE Key(p) = Key(o) <=> When(p) = When(o)
  BY <1>1, SameDay
<1>3. groups = {Group(o) : o \in Dates}
  <2> DEFINE Row(o) == [oath |-> o, date |-> When(o), key |-> Key(o)]
             listed == {Row(o) : o \in Dates}
             Like(r) == {q.oath : q \in {p \in listed : p.key = r.key}}
  <2>1. groups = {[date |-> r.date, oaths |-> Like(r)] : r \in listed}
    BY DEF AnniversaryGroups
  <2> HIDE DEF When, Key
  <2>2. \A o \in Dates : Row(o).oath = o /\ Row(o).date = When(o) /\ Row(o).key = Key(o)
    OBVIOUS
  <2> HIDE DEF Row
  <2>3. ASSUME NEW o \in Dates PROVE Like(Row(o)) = {p \in Dates : When(p) = When(o)}
    BY <1>2, <2>2
  <2> HIDE DEF Like
  <2>4. \A o \in Dates : [date |-> Row(o).date, oaths |-> Like(Row(o))] = Group(o)
    BY <2>2, <2>3
  <2> HIDE DEF Group, groups
  <2> QED BY <2>1, <2>4
<1>4. \A o \in Dates : Cardinality({g \in groups : o \in g.oaths}) = 1
  <2> TAKE o \in Dates
  <2> HIDE DEF When, groups
  <2>1. \A p \in Dates : o \in Group(p).oaths <=> When(p) = When(o)
    OBVIOUS
  <2>2. \A p \in Dates : When(p) = When(o) => Group(p) = Group(o)
    OBVIOUS
  <2> HIDE DEF Group
  <2>3. {g \in groups : o \in g.oaths} = {Group(o)}
    BY <1>3, <2>1, <2>2
  <2> QED BY <2>3, FS_Singleton
<1>5. ASSUME kept # {} PROVE [date |-> n, oaths |-> kept] \in GroupsOfMonth(Dates, today.m, n)
  <2>1. \A o \in Dates : Kept(o, today) <=> When(o) = n
    BY <1>1, TodayIsKept
  <2>2. PICK o \in Dates : When(o) = n
    BY <1>5, <2>1
  <2>3. Group(o) = [date |-> n, oaths |-> kept]
    <3> HIDE DEF When, n
    <3> QED BY <2>1, <2>2
  <2>4. MonthOf(n) = today.m
    <3>1. today.d \in Int
      BY <1>1, SMT DEF Valid
    <3> QED BY <1>1, <3>1, DateIs DEF Valid, NumberOf
  <2>5. [date |-> n, oaths |-> kept] \in groups
    <3> HIDE DEF Group, groups, kept, n
    <3> QED BY <1>3, <2>3
  <2>6. [date |-> n, oaths |-> kept].date = n
    OBVIOUS
  <2> HIDE DEF kept
  <2> QED BY <2>4, <2>5, <2>6 DEF GroupsOfMonth
<1> QED BY <1>4, <1>5, Zenon DEF GroupsTogether

LEMMA WalkRests ==
  ASSUME WalkInv, UNCHANGED walkVars
  PROVE  WalkInv'
BY DEF WalkInv, Valid, NumberOf, walkVars

\* However long the walk and whatever dates are kept: ISO weeks, the weeks of a month, anniversaries with
\* their eves and the groups of a month agree with the days crossed off one by one.
THEOREM CalendarStaysRight == Spec => []CalendarIsRight
<1>1. Init => WalkInv
  BY WalkStarts DEF Init
<1>2. WalkInv /\ [Next]_interfaceVars => WalkInv'
  BY OnePaperAtATime, WalkKeeps, WalkRests
<1>3. WalkInv => CalendarIsRight
  BY WeeksHold, MonthsHold, AnniversariesHold, GroupsHold DEF CalendarIsRight
<1> QED BY <1>1, <1>2, <1>3, PTL DEF Spec
=============================================================================
