----------------------------- MODULE InstallationProofs -----------------------------
(***************************************************************************)
(* Proofs about the two components that look after the data of an          *)
(* installation: its backups and its launcher.                             *)
(*                                                                         *)
(* Backup and BackupScreen, for any calls, clock, faults and users of the  *)
(* page and of the routes.  Every step works on one call (StepOf), changes *)
(* the page alone (Browses), or lets time pass for all calls (Elapses).    *)
(* What a restore relies on is Undo: while no dump has taken the name of   *)
(* another, safety copies are distinct files that nothing else writes to.  *)
(*                                                                         *)
(* Launcher, for any launchers, ports, migration files, starts and faults: *)
(* migrations take effect once, and no secret is lost.  Neither rests on   *)
(* the start lock.  Migrations rest on the transaction that runs a file    *)
(* together with its record, and on files that are looked up in their      *)
(* order (InOrder); the password of the cluster on the order of its two    *)
(* writes (SecretsInv).  The note about the administrator holds as long as *)
(* nobody else is past the lock (AccountInv).                              *)
(***************************************************************************)
EXTENDS BackupScreen, Launcher, FiniteSetTheorems, TLAPS

-----------------------------------------------------------------------------
(* The backups: types *)

Rows == [some : Nat, rest : Nat]
DiskFiles == [is : {"none", "cut", "whole"}, of : Rows]
Users == {"", Operator, Other}
Places == {"off", "dump", "check", "safety", "dumping", "dumped", "drop", "restoring",
           "verify", "fail", "ok", "failed", "lost"}
CallRows == [pc : Places, op : {"", "create", "restore"}, from : {"", "page", "route"},
             by : Users, token : Nat, path : Paths \union {NoPath},
             safety : Safeties \union {NoPath}, found : Rows, held : Rows, before : Rows,
             alone : BOOLEAN, disturbed : BOOLEAN]
TokenRows == [id : Nat \ {0}, by : Users, kind : {"destination", "file"}, path : {Custom},
              fresh : BOOLEAN]

\* A restore that has named its safety copy.
Late(r) == r.op = "restore" /\ r.pc \in {"dumping", "dumped", "drop", "restoring", "verify"}

\* What the place of a call says about the call.
Formed(r) ==
  /\ r.pc = "dump" => r.op = "create"
  /\ r.pc \in {"check", "safety", "drop", "restoring", "verify"} => r.op = "restore"
  /\ r.pc \in {"dumping", "dumped"} => r.op \in {"create", "restore"}
  /\ r.op = "create" => r.path \in Backups \union {Custom}
  /\ r.op = "restore" => r.path \in Paths
  /\ Late(r) => r.safety \in Safeties
  /\ r.pc = "off" => r.from # "page"

Typed ==
  /\ call \in [Calls -> CallRows]
  /\ disk \in [Paths -> DiskFiles]
  /\ db \in Rows
  /\ tokens \in SUBSET TokenRows
  /\ second \in 1..MaxSecond
  /\ issued \in Nat
  /\ written \in Nat
  /\ \A c \in Calls : Formed(call[c])

-----------------------------------------------------------------------------
(* What a step does to the calls *)

\* At most somebody else has disturbed the call.
Same(r, s) ==
  /\ s \in CallRows
  /\ s.pc = r.pc /\ s.op = r.op /\ s.from = r.from /\ s.by = r.by /\ s.token = r.token
  /\ s.path = r.path /\ s.safety = r.safety /\ s.found = r.found /\ s.held = r.held
  /\ s.before = r.before
  /\ r.disturbed => s.disturbed

Touched(r) == [r EXCEPT !.disturbed = TRUE]

LEMMA TouchedRow ==
  ASSUME NEW r \in CallRows
  PROVE  Same(r, Touched(r)) /\ Touched(r).disturbed
BY DEF Same, Touched, CallRows

LEMMA SameForm ==
  ASSUME NEW r \in CallRows, NEW s, Same(r, s), Formed(r)
  PROVE  Formed(s)
BY DEF Same, Formed, Late

LEMMA IdleRow == Idle \in CallRows /\ Idle.pc = "off" /\ Idle.op = "" /\ Idle.from = "" /\ Idle.token = 0 /\ Formed(Idle)
BY DEF Idle, CallRows, Places, Users, Rows, NoData, NoToken, Formed, Late, Paths

\* A call that is over.
Over(r) ==
  /\ r \in CallRows
  /\ r.pc \in {"off", "ok", "failed", "lost"} /\ r.op = "" /\ r.token = 0
  /\ r.pc = "off" => r.from # "page"

LEMMA OverRow ==
  ASSUME NEW c \in Calls, call[c] \in CallRows, NEW how \in {"ok", "failed", "lost"}
  PROVE  /\ Over(Done(c, how)) /\ Formed(Done(c, how))
         /\ Done(c, how).from = "page" <=> call[c].from = "page"
<1> DEFINE told == [Idle EXCEPT !.pc = how, !.from = "page"]
<1>1. /\ told \in CallRows /\ told.pc = how /\ told.op = "" /\ told.token = 0
      /\ told.from = "page"
  BY DEF Idle, CallRows, Places, Users, Rows, NoData, NoToken, Paths
<1>2. Over(told) /\ Formed(told)
  BY <1>1 DEF Over, Formed, Late
<1>3. Over(Idle) /\ Formed(Idle) /\ Idle.from # "page"
  BY IdleRow DEF Over
<1>4. Done(c, how) = IF call[c].from = "page" THEN told ELSE Idle
  BY DEF Done
<1> QED BY <1>1, <1>2, <1>3, <1>4

\* The fields that an action on the call leaves alone.
KeptRow(r, s) ==
  /\ s.op = r.op /\ s.from = r.from /\ s.by = r.by /\ s.token = r.token /\ s.path = r.path
  /\ s.alone = r.alone /\ s.disturbed = r.disturbed

LEMMA ToRow ==
  ASSUME NEW c \in Calls, call[c] \in CallRows, NEW where \in Places
  PROVE  /\ To(c, where) \in CallRows
         /\ To(c, where).pc = where
         /\ LET s == To(c, where) r == call[c] IN
              /\ KeptRow(r, s) /\ s.held = r.held /\ s.safety = r.safety
              /\ s.found = r.found /\ s.before = r.before
BY DEF To, CallRows, KeptRow

LEMMA DumpingRow ==
  ASSUME NEW r \in CallRows, NEW data \in Rows, NEW copy \in Safeties \union {NoPath}
  PROVE  LET s == Dumping(r, data, copy) IN
           /\ s \in CallRows
           /\ s.pc = "dumping" /\ s.held = data /\ s.safety = copy
           /\ KeptRow(r, s) /\ s.found = r.found /\ s.before = r.before
<1> DEFINE a == [r EXCEPT !.pc = "dumping"]
           b == [a EXCEPT !.held = data]
           s == Dumping(r, data, copy)
<1>1. a \in CallRows /\ a.pc = "dumping" /\ KeptRow(r, a) /\ a.found = r.found /\ a.before = r.before
  BY DEF CallRows, Places, KeptRow
<1> HIDE DEF a
<1>2. /\ b \in CallRows /\ b.pc = "dumping" /\ b.held = data
      /\ KeptRow(r, b) /\ b.found = r.found /\ b.before = r.before
  BY <1>1 DEF CallRows, KeptRow
<1>3. s = [b EXCEPT !.safety = copy]
  BY DEF a, Dumping
<1> HIDE DEF b, s
<1>4. s \in CallRows
  BY <1>2, <1>3 DEF CallRows
<1>5. s.pc = "dumping" /\ s.held = data /\ s.safety = copy
  BY <1>2, <1>3 DEF CallRows
<1>6. KeptRow(r, s) /\ s.found = r.found /\ s.before = r.before
  BY <1>2, <1>3 DEF CallRows, KeptRow
<1> QED BY <1>4, <1>5, <1>6 DEF s

LEMMA RestoringRow ==
  ASSUME NEW r \in CallRows, NEW data \in Rows, NEW goal \in Rows
  PROVE  LET s == Restoring(r, data, goal) IN
           /\ s \in CallRows
           /\ s.pc = "restoring" /\ s.before = data /\ s.found = goal
           /\ KeptRow(r, s) /\ s.held = r.held /\ s.safety = r.safety
<1> DEFINE a == [r EXCEPT !.pc = "restoring"]
           b == [a EXCEPT !.before = data]
           s == Restoring(r, data, goal)
<1>1. a \in CallRows /\ a.pc = "restoring" /\ KeptRow(r, a) /\ a.held = r.held /\ a.safety = r.safety
  BY DEF CallRows, Places, KeptRow
<1> HIDE DEF a
<1>2. /\ b \in CallRows /\ b.pc = "restoring" /\ b.before = data
      /\ KeptRow(r, b) /\ b.held = r.held /\ b.safety = r.safety
  BY <1>1 DEF CallRows, KeptRow
<1>3. s = [b EXCEPT !.found = goal]
  BY DEF a, Restoring
<1> HIDE DEF b, s
<1>4. s \in CallRows
  BY <1>2, <1>3 DEF CallRows
<1>5. s.pc = "restoring" /\ s.before = data /\ s.found = goal
  BY <1>2, <1>3 DEF CallRows
<1>6. KeptRow(r, s) /\ s.held = r.held /\ s.safety = r.safety
  BY <1>2, <1>3 DEF CallRows, KeptRow
<1> QED BY <1>4, <1>5, <1>6 DEF s

\* A call at its first place.
Starting(s, from, user, op, id) ==
  /\ s \in CallRows /\ s.pc \in {"dump", "check"} /\ s.op = op /\ s.from = from
  /\ s.by = user /\ s.token = id /\ Formed(s)

LEMMA EnteredRow ==
  ASSUME NEW from \in {"page", "route"}, NEW user \in Users, NEW op \in {"create", "restore"},
         NEW id \in Nat, NEW path \in Paths, op = "restore" \/ path \in Backups \union {Custom}
  PROVE  Starting(Entered(from, user, op, id, path), from, user, op, id)
<1> DEFINE s == Entered(from, user, op, id, path)
<1> DEFINE first == IF op = "create" THEN "dump" ELSE "check"
           a == [Idle EXCEPT !.pc = first]
           b == [a EXCEPT !.op = op]
           d == [b EXCEPT !.from = from]
           e == [d EXCEPT !.by = user]
           g == [e EXCEPT !.token = id]
           h == [g EXCEPT !.path = path]
<1>0. s = h
  BY DEF Entered
<1>1. a \in CallRows /\ a.pc = first
  BY IdleRow DEF CallRows, Places
<1> HIDE DEF a
<1>2. b \in CallRows /\ b.pc = first /\ b.op = op
  BY <1>1 DEF CallRows
<1> HIDE DEF b
<1>3. d \in CallRows /\ d.pc = first /\ d.op = op /\ d.from = from
  BY <1>2 DEF CallRows
<1> HIDE DEF d
<1>4. e \in CallRows /\ e.pc = first /\ e.op = op /\ e.from = from /\ e.by = user
  BY <1>3 DEF CallRows
<1> HIDE DEF e
<1>5. /\ g \in CallRows /\ g.pc = first /\ g.op = op /\ g.from = from /\ g.by = user
      /\ g.token = id
  BY <1>4 DEF CallRows
<1> HIDE DEF g
<1>6. /\ h \in CallRows /\ h.pc = first /\ h.op = op /\ h.from = from /\ h.by = user
      /\ h.token = id /\ h.path = path
  BY <1>5 DEF CallRows
<1> HIDE DEF h
<1> HIDE DEF s
<1>7. s.pc \in {"dump", "check"} /\ Formed(s)
  BY <1>0, <1>6 DEF Formed, Late
<1> QED BY <1>0, <1>6, <1>7 DEF s, Starting

\* Somebody else's call changes, and this one at most by being disturbed.
Beside(c) ==
  /\ call' \in [Calls -> CallRows]
  /\ \A d \in Calls \ {c} : Same(call[d], call'[d])

\* Nobody else relies on what changes in the database.
Warned(c) == db' = db \/ \A d \in Calls \ {c} : Running(d) => (call'[d]).disturbed

LEMMA DisturbRows ==
  ASSUME Typed, NEW c \in Calls
  PROVE  /\ DOMAIN Disturb(c) = Calls /\ Disturb(c)[c] = call[c]
         /\ \A d \in Calls : Disturb(c)[d] \in CallRows
         /\ \A d \in Calls \ {c} : /\ Same(call[d], Disturb(c)[d])
                                   /\ Running(d) => Disturb(c)[d].disturbed
<1>1. \A d \in Calls : call[d] \in CallRows /\ Same(call[d], call[d])
  BY DEF Typed, Same
<1>2. \A d \in Calls : Same(call[d], Touched(call[d])) /\ Touched(call[d]).disturbed
  BY <1>1, TouchedRow
<1>3. \A d \in Calls : Disturb(c)[d] = IF d # c /\ Running(d) THEN Touched(call[d]) ELSE call[d]
  BY DEF Disturb, Touched
<1>4. DOMAIN Disturb(c) = Calls
  BY DEF Disturb
<1> HIDE DEF Disturb, Touched, Running
<1>5. \A d \in Calls : Disturb(c)[d] \in CallRows
  BY <1>1, <1>2, <1>3 DEF Same
<1> QED BY <1>1, <1>2, <1>3, <1>4, <1>5

\* The two ways in which actions change call.
LEMMA AfterUpdate ==
  ASSUME Typed, NEW c \in Calls, NEW s \in CallRows, Update(c, s)
  PROVE  /\ Beside(c) /\ call'[c] = s
         /\ \A d \in Calls \ {c} : call'[d] = call[d]
<1>1. \A d \in Calls : call[d] \in CallRows /\ Same(call[d], call[d])
  BY DEF Typed, Same
<1> QED BY <1>1 DEF Typed, Update, Beside

LEMMA AfterDisturb ==
  ASSUME Typed, NEW c \in Calls, NEW s \in CallRows, call' = [Disturb(c) EXCEPT ![c] = s]
  PROVE  /\ Beside(c) /\ call'[c] = s
         /\ \A d \in Calls \ {c} : Running(d) => (call'[d]).disturbed
<1> HIDE DEF Running, Disturb
<1>1. DOMAIN call' = Calls /\ call'[c] = s /\ \A d \in Calls \ {c} : call'[d] = Disturb(c)[d]
  BY DisturbRows
<1>2. \A d \in Calls : call'[d] \in CallRows
  BY <1>1, DisturbRows
<1>3. call' = [d \in Calls |-> call'[d]]
  BY DEF Disturb
<1>4. call' \in [Calls -> CallRows]
  BY <1>2, <1>3
<1>5. \A d \in Calls \ {c} : Same(call[d], call'[d]) /\ (Running(d) => (call'[d]).disturbed)
  BY <1>1, DisturbRows
<1> QED BY <1>1, <1>4, <1>5 DEF Beside

-----------------------------------------------------------------------------
(* What every step on one call does *)

\* The copy a restore relies on, and what it knows of the database.
Undo(c) ==
  LET r == call[c] IN
    /\ Late(r) /\ ~reused =>
         /\ disk[r.safety].is # "none" /\ disk[r.safety].of = r.held
         /\ r.pc # "dumping" => disk[r.safety].is = "whole"
    /\ Late(r) /\ ~r.disturbed =>
         r.held = IF r.pc \in {"restoring", "verify"} THEN r.before ELSE db
    /\ r.pc \in {"restoring", "verify"} /\ ~r.disturbed =>
         db.some = r.found.some /\ (r.pc = "verify" => db.rest = r.found.rest)

\* Only a safety copy of the call itself, or one that takes the name of another, is touched.
CopiesKept(c) ==
  /\ reused => reused'
  /\ \A p \in Safeties : \/ disk'[p] = disk[p] \/ disk[p].is = "none" \/ reused'
                         \/ (Late(call[c]) /\ p = call[c].safety)
  /\ LET s == call'[c] IN
       Late(s) => \/ reused' \/ disk[s.safety].is = "none"
                  \/ (Late(call[c]) /\ s.safety = call[c].safety)

StepOf(c) ==
  /\ Beside(c) /\ Formed(call'[c]) /\ Warned(c) /\ CopiesKept(c)
  /\ disk' \in [Paths -> DiskFiles] /\ db' \in Rows
  /\ UNCHANGED <<second, written>>

Serves(c) ==
  /\ StepOf(c) /\ UNCHANGED issued
  /\ call[c].pc \notin {"off", "ok", "failed", "lost"}
  /\ (call'[c]).pc # "off" \/ (call'[c]).from # "page"
  /\ (call'[c]).from = "page" <=> call[c].from = "page"
  /\ (call'[c]).token \in {call[c].token, 0}
  /\ \/ tokens' = tokens /\ spent' = spent
     \/ tokens' = {t \in tokens : t.id # call[c].token} /\ spent' = spent \union {call[c].token}

LEMMA SafetiesAreThere == Safeties \subseteq Paths /\ Custom \in Paths /\ Backups \subseteq Paths
BY DEF Paths

\* A step that changes the call alone, and keeps its fields.
Advances(c, s) ==
  /\ Update(c, s) /\ UNCHANGED <<db, disk, reused, second, issued, written>>
  /\ \/ Over(s) /\ (s.from = "page" <=> call[c].from = "page") /\ Formed(s)
     \/ \E where \in Places : s = To(c, where) /\ Formed(s)

LEMMA Advancing ==
  ASSUME Typed, NEW c \in Calls, NEW s, Advances(c, s), Undo(c),
         ~Late(s) \/ (Late(call[c]) /\ s.pc \in {"dumped", "drop"} /\ call[c].pc \in {"dumped", "drop"})
  PROVE  /\ StepOf(c) /\ Undo(c)' /\ call'[c] = s
         /\ s.from = "page" <=> call[c].from = "page"
         /\ s.token \in {call[c].token, 0}
<1> DEFINE r == call[c]
<1>1. r \in CallRows /\ Formed(r)
  BY DEF Typed
<1>2. /\ s \in CallRows /\ Formed(s) /\ s.token \in {r.token, 0}
      /\ s.from = "page" <=> r.from = "page"
      /\ Late(s) => s.safety = r.safety /\ s.held = r.held /\ s.disturbed = r.disturbed
      /\ s.pc \notin {"restoring", "verify"} \/ s.op = r.op
  <2>1. CASE Over(s) /\ (s.from = "page" <=> r.from = "page") /\ Formed(s)
    BY <2>1 DEF Over, Late
  <2>2. CASE \E where \in Places : s = To(c, where) /\ Formed(s)
    BY <1>1, <2>2, ToRow DEF KeptRow
  <2> QED BY <2>1, <2>2 DEF Advances
<1>3. Beside(c) /\ call'[c] = s
  BY <1>2, AfterUpdate DEF Advances
<1>4. UNCHANGED <<db, disk, reused, second, issued, written>>
  BY DEF Advances
<1>5. CopiesKept(c) /\ Warned(c)
  BY <1>2, <1>3, <1>4 DEF CopiesKept, Warned
<1>6. StepOf(c)
  BY <1>2, <1>3, <1>4, <1>5 DEF StepOf, Typed
<1>7. s.pc \in {"restoring", "verify"} => Late(s)
  BY <1>2 DEF Formed, Late
<1>8. Undo(c)'
  BY <1>2, <1>3, <1>4, <1>7 DEF Undo, Late
<1> QED BY <1>2, <1>3, <1>6, <1>8

\* pg_dump, pg_restore and the tests between them.
LEMMA DumpStartsServes ==
  ASSUME Typed, NEW c \in Calls, DumpStarts(c), Undo(c)
  PROVE  Serves(c) /\ Undo(c)'
<1> DEFINE r == call[c]
           file == IF r.pc = "dump" THEN r.path ELSE [label |-> "pre-restore", at |-> second]
           copy == IF r.op = "restore" THEN file ELSE NoPath
           s == Dumping(r, db, copy)
           cut == [is |-> "cut", of |-> db]
<1>1. r \in CallRows /\ Formed(r) /\ db \in Rows /\ disk \in [Paths -> DiskFiles]
  BY DEF Typed
<1>2. r.pc \in {"dump", "safety"}
  BY DEF DumpStarts
<1>3. r.pc = "safety" => file \in Safeties
  BY DEF Typed, Safeties
<1>4. /\ r.pc = "dump" => r.op = "create" /\ file \in Backups \union {Custom}
      /\ r.pc = "safety" => r.op = "restore"
      /\ file \in Paths /\ copy \in Safeties \union {NoPath}
      /\ r.op = "restore" => copy = file /\ file \in Safeties
  BY <1>1, <1>2, <1>3, SafetiesAreThere DEF Formed
<1>5. /\ reused' = (reused \/ (file # Custom /\ disk[file].is # "none"))
      /\ disk' = [disk EXCEPT ![file] = cut]
      /\ call' = [Disturb(c) EXCEPT ![c] = s]
      /\ UNCHANGED <<db, tokens, exiting, bounds, spent>>
  BY DEF DumpStarts
<1>6. /\ s \in CallRows
      /\ s.pc = "dumping" /\ s.held = db /\ s.safety = copy
      /\ KeptRow(r, s) /\ s.found = r.found /\ s.before = r.before
  BY <1>1, <1>4, DumpingRow
<1>7. cut \in DiskFiles /\ cut.is = "cut" /\ cut.of = db
  BY <1>1 DEF DiskFiles
<1>8. Custom \notin Safeties
  BY PickedAssumption DEF Custom, Safeties
<1> HIDE DEF s, file, cut, copy
<1>9. Beside(c) /\ call'[c] = s
  BY <1>5, <1>6, AfterDisturb
<1>10. Formed(s)
  BY <1>1, <1>2, <1>4, <1>6 DEF Formed, Late, KeptRow
<1>11. disk' \in [Paths -> DiskFiles] /\ disk'[file] = cut /\ \A p \in Paths \ {file} : disk'[p] = disk[p]
  BY <1>1, <1>4, <1>5, <1>7
<1>12. CopiesKept(c)
  <2>1. reused => reused'
    BY <1>5
  <2>2. \A p \in Safeties : \/ disk'[p] = disk[p] \/ disk[p].is = "none" \/ reused'
    BY <1>5, <1>8, <1>11, SafetiesAreThere
  <2>3. Late(s) => reused' \/ disk[s.safety].is = "none"
    BY <1>4, <1>5, <1>6, <1>8 DEF Late, KeptRow
  <2> QED BY <1>9, <2>1, <2>2, <2>3 DEF CopiesKept
<1>13. StepOf(c)
  BY <1>1, <1>5, <1>9, <1>10, <1>11, <1>12 DEF StepOf, Warned, bounds
<1>14. Serves(c)
  BY <1>2, <1>5, <1>6, <1>9, <1>13 DEF Serves, KeptRow, bounds
<1>15. Late(s) => disk'[s.safety] = cut
  BY <1>4, <1>6, <1>11 DEF Late, KeptRow
<1>16. Undo(c)'
  BY <1>5, <1>6, <1>7, <1>9, <1>15 DEF Undo
<1> QED BY <1>14, <1>16

LEMMA NoFolderServes ==
  ASSUME Typed, NEW c \in Calls, NoFolder(c), Undo(c)
  PROVE  Serves(c) /\ Undo(c)'
<1> DEFINE s == To(c, "fail")
<1>1. /\ Update(c, s) /\ UNCHANGED <<world, second, issued, written, history>>
      /\ call[c].pc = "dump"
  BY DEF NoFolder
<1>2. call[c] \in CallRows /\ Formed(call[c])
  BY DEF Typed
<1>3. s.pc = "fail" /\ Formed(s) /\ ~Late(s)
  BY <1>2, ToRow DEF Formed, Late, Places, KeptRow
<1>4. Advances(c, s)
  BY <1>1, <1>3 DEF Advances, Places, world, history
<1>5. /\ StepOf(c) /\ Undo(c)' /\ call'[c] = s
      /\ s.from = "page" <=> call[c].from = "page"
      /\ s.token \in {call[c].token, 0}
  BY <1>3, <1>4, Advancing
<1> HIDE DEF s
<1> QED BY <1>1, <1>3, <1>5 DEF Serves, world, history

LEMMA DumpEndsServes ==
  ASSUME Typed, NEW c \in Calls, DumpEnds(c), Undo(c)
  PROVE  Serves(c) /\ Undo(c)'
<1> DEFINE r == call[c]
           file == Target(c)
           whole == [is |-> "whole", of |-> r.held]
           s == call'[c]
<1>1. r \in CallRows /\ Formed(r) /\ db \in Rows /\ disk \in [Paths -> DiskFiles]
  BY DEF Typed
<1>2. /\ r.pc = "dumping" /\ r.op \in {"create", "restore"}
      /\ UNCHANGED <<db, tokens, exiting, second, issued, written, history>>
  BY <1>1 DEF DumpEnds, Formed
<1>3. /\ r.op = "create" => ~Late(r) /\ file \in Backups \union {Custom}
      /\ r.op = "restore" => Late(r) /\ file = r.safety /\ file \in Safeties
      /\ file \in Paths
  BY <1>1, <1>2, SafetiesAreThere DEF Target, Formed, Late
<1>4. (Backups \union {Custom}) \intersect Safeties = {}
  BY PickedAssumption DEF Backups, Custom, Safeties
<1>5. whole \in DiskFiles /\ whole.is = "whole" /\ whole.of = r.held
  BY <1>1 DEF DiskFiles, CallRows
<1>6. \/ Update(c, Done(c, "lost"))
      \/ Update(c, To(c, "dumped")) /\ disk' = [disk EXCEPT ![file] = whole]
      \/ Update(c, To(c, "fail"))
  BY DEF DumpEnds
<1>7. disk' = disk \/ disk' = [disk EXCEPT ![file] = whole]
  BY DEF DumpEnds
<1>8. /\ Beside(c) /\ (\A d \in Calls \ {c} : call'[d] = call[d]) /\ Formed(s)
      /\ s.from = "page" <=> r.from = "page"
      /\ s.token \in {r.token, 0}
      /\ s.pc # "off" \/ s.from # "page"
      /\ \/ ~Late(s) /\ s.pc \notin {"restoring", "verify"}
         \/ /\ disk' = [disk EXCEPT ![file] = whole]
            /\ s.pc = "dumped" /\ KeptRow(r, s) /\ s.held = r.held /\ s.safety = r.safety
  <2>1. CASE Update(c, Done(c, "lost"))
    <3>1. Over(Done(c, "lost")) /\ Formed(Done(c, "lost")) /\ (Done(c, "lost").from = "page" <=> r.from = "page")
      BY <1>1, OverRow
    <3>2. Beside(c) /\ s = Done(c, "lost") /\ \A d \in Calls \ {c} : call'[d] = call[d]
      BY <2>1, <3>1, AfterUpdate DEF Over
    <3> QED BY <3>1, <3>2 DEF Over, Late
  <2>2. CASE Update(c, To(c, "dumped")) /\ disk' = [disk EXCEPT ![file] = whole]
    <3> DEFINE q == To(c, "dumped")
    <3>1. q \in CallRows /\ q.pc = "dumped" /\ KeptRow(r, q) /\ q.held = r.held /\ q.safety = r.safety
      BY <1>1, ToRow DEF Places
    <3> HIDE DEF q
    <3>2. Beside(c) /\ s = q /\ \A d \in Calls \ {c} : call'[d] = call[d]
      BY <2>2, <3>1, AfterUpdate DEF q
    <3>3. Formed(q)
      BY <1>1, <1>2, <3>1 DEF Formed, Late, KeptRow
    <3> QED BY <2>2, <3>1, <3>2, <3>3 DEF KeptRow
  <2>3. CASE Update(c, To(c, "fail"))
    <3> DEFINE q == To(c, "fail")
    <3>1. q \in CallRows /\ q.pc = "fail" /\ KeptRow(r, q)
      BY <1>1, ToRow DEF Places
    <3> HIDE DEF q
    <3>2. Beside(c) /\ s = q /\ \A d \in Calls \ {c} : call'[d] = call[d]
      BY <2>3, <3>1, AfterUpdate DEF q
    <3>3. Formed(q)
      BY <1>1, <1>2, <3>1 DEF Formed, Late, KeptRow
    <3> QED BY <3>1, <3>2, <3>3 DEF KeptRow, Late
  <2> QED BY <1>6, <2>1, <2>2, <2>3
<1> HIDE DEF s, file, whole
<1>9. disk' \in [Paths -> DiskFiles] /\ \A p \in Paths \ {file} : disk'[p] = disk[p]
  BY <1>1, <1>3, <1>5, <1>7
<1>10. /\ \A p \in Safeties : disk'[p] = disk[p] \/ (Late(r) /\ p = r.safety)
       /\ Late(s) => Late(r) /\ s.safety = r.safety
  BY <1>2, <1>3, <1>4, <1>8, <1>9, SafetiesAreThere DEF Late, KeptRow
<1>11. CopiesKept(c)
  BY <1>2, <1>10 DEF CopiesKept, s, history
<1>12. StepOf(c)
  BY <1>1, <1>2, <1>8, <1>9, <1>11 DEF StepOf, Warned, s
<1>13. Serves(c)
  BY <1>2, <1>8, <1>12 DEF Serves, s, history
<1>14. Late(s) => disk'[s.safety] = whole /\ s.held = r.held /\ s.disturbed = r.disturbed /\ Late(r)
  BY <1>1, <1>3, <1>8, <1>10 DEF KeptRow, Late
<1>15. Undo(c)'
  BY <1>2, <1>5, <1>8, <1>14 DEF Undo, s, Late
<1> QED BY <1>13, <1>15

LEMMA DumpedServes ==
  ASSUME Typed, NEW c \in Calls, Dumped(c), Undo(c)
  PROVE  Serves(c) /\ Undo(c)'
<1> DEFINE r == call[c]
           s == IF r.op = "create" THEN Done(c, "ok") ELSE To(c, "drop")
<1>1. r \in CallRows /\ Formed(r) /\ r.pc = "dumped"
  BY DEF Typed, Dumped
<1>2. /\ Update(c, s) /\ UNCHANGED <<db, disk, exiting, bounds, reused>>
      /\ \/ tokens' = tokens /\ spent' = spent
         \/ tokens' = {t \in tokens : t.id # r.token} /\ spent' = spent \union {r.token}
  BY DEF Dumped, Consume
<1>3. /\ Advances(c, s) /\ (s.pc # "off" \/ s.from # "page")
      /\ ~Late(s) \/ (Late(r) /\ s.pc = "drop")
  <2>1. CASE r.op = "create"
    <3>1. Over(s) /\ Formed(s) /\ (s.from = "page" <=> r.from = "page")
      BY <1>1, <2>1, OverRow
    <3> QED BY <1>2, <3>1 DEF Advances, bounds, Over, Late
  <2>2. CASE r.op # "create"
    <3>1. s = To(c, "drop") /\ s.pc = "drop" /\ KeptRow(r, s) /\ s.safety = r.safety
      BY <1>1, <2>2, ToRow DEF Places
    <3>2. Formed(s) /\ Late(r)
      BY <1>1, <2>2, <3>1 DEF Formed, Late, KeptRow
    <3> QED BY <1>2, <3>1, <3>2 DEF Advances, bounds, Late, Places
  <2> QED BY <2>1, <2>2
<1>4. /\ StepOf(c) /\ Undo(c)' /\ call'[c] = s
      /\ s.from = "page" <=> r.from = "page"
      /\ s.token \in {r.token, 0}
  BY <1>1, <1>3, Advancing
<1> HIDE DEF s
<1> QED BY <1>1, <1>2, <1>3, <1>4 DEF Serves, bounds

LEMMA CheckServes ==
  ASSUME Typed, NEW c \in Calls, Check(c), Undo(c)
  PROVE  Serves(c) /\ Undo(c)'
<1> DEFINE r == call[c]
           s == To(c, IF Listable(r.path) THEN "safety" ELSE "fail")
<1>1. r \in CallRows /\ Formed(r) /\ r.pc = "check"
  BY DEF Typed, Check
<1>2. s.pc \in {"safety", "fail"} /\ KeptRow(r, s)
  BY <1>1, ToRow DEF Places
<1>3. Formed(s) /\ ~Late(s)
  BY <1>1, <1>2 DEF Formed, Late, KeptRow
<1>4. Update(c, s) /\ UNCHANGED <<world, bounds, history>>
  BY DEF Check
<1>5. Advances(c, s)
  BY <1>3, <1>4 DEF Advances, Places, world, bounds, history
<1>6. /\ StepOf(c) /\ Undo(c)' /\ call'[c] = s
      /\ s.from = "page" <=> r.from = "page"
      /\ s.token \in {r.token, 0}
  BY <1>3, <1>5, Advancing
<1> HIDE DEF s
<1> QED BY <1>1, <1>2, <1>4, <1>6 DEF Serves, world, bounds, history

LEMMA FinishServes ==
  ASSUME Typed, NEW c \in Calls, Restored(c) \/ Failed(c), Undo(c)
  PROVE  Serves(c) /\ Undo(c)'
<1> DEFINE r == call[c]
           how == IF r.pc = "verify" THEN "ok" ELSE "failed"
           s == Done(c, how)
<1>1. r \in CallRows /\ Formed(r) /\ r.pc \in {"verify", "fail"}
  BY DEF Typed, Restored, Failed
<1>2. /\ Update(c, s) /\ UNCHANGED <<db, disk, bounds, reused>>
      /\ \/ tokens' = tokens /\ spent' = spent
         \/ tokens' = {t \in tokens : t.id # r.token} /\ spent' = spent \union {r.token}
  BY DEF Restored, Failed, Consume, world, bounds, history
<1>3. Over(s) /\ Formed(s) /\ (s.from = "page" <=> r.from = "page")
  BY <1>1, OverRow
<1> HIDE DEF s
<1>4. Advances(c, s) /\ ~Late(s)
  BY <1>2, <1>3 DEF Advances, bounds, Over, Late
<1>5. /\ StepOf(c) /\ Undo(c)' /\ call'[c] = s
      /\ s.from = "page" <=> r.from = "page"
      /\ s.token \in {r.token, 0}
  BY <1>1, <1>4, Advancing
<1> QED BY <1>1, <1>2, <1>3, <1>5 DEF Serves, bounds, Over

LEMMA RestoreStartsServes ==
  ASSUME Typed, NEW c \in Calls, RestoreStarts(c), Undo(c)
  PROVE  Serves(c) /\ Undo(c)'
<1> DEFINE r == call[c]
           goal == disk[r.path].of
           s == Restoring(r, db, goal)
<1>1. r \in CallRows /\ Formed(r) /\ db \in Rows /\ disk \in [Paths -> DiskFiles] /\ r.pc = "drop"
  BY DEF Typed, RestoreStarts
<1>2. r.op = "restore" /\ Late(r) /\ goal \in Rows
  BY <1>1 DEF Formed, Late, DiskFiles
<1>3. /\ s \in CallRows
      /\ s.pc = "restoring" /\ s.before = db /\ s.found = goal
      /\ KeptRow(r, s) /\ s.held = r.held /\ s.safety = r.safety
  BY <1>1, <1>2, RestoringRow
<1>4. /\ db' = [db EXCEPT !.some = goal.some]
      /\ call' = [Disturb(c) EXCEPT ![c] = s]
      /\ UNCHANGED <<disk, tokens, exiting, bounds, history>>
  BY DEF RestoreStarts
<1> HIDE DEF s, goal
<1>5. /\ Beside(c) /\ call'[c] = s
      /\ \A d \in Calls \ {c} : Running(d) => (call'[d]).disturbed
  BY <1>3, <1>4, AfterDisturb
<1>6. db' \in Rows /\ db'.some = goal.some
  BY <1>1, <1>2, <1>4 DEF Rows
<1>7. Formed(s) /\ Late(s)
  BY <1>1, <1>2, <1>3 DEF Formed, Late, KeptRow
<1>8. CopiesKept(c)
  BY <1>2, <1>3, <1>4, <1>5 DEF CopiesKept, history
<1>9. StepOf(c)
  BY <1>1, <1>4, <1>5, <1>6, <1>7, <1>8 DEF StepOf, Warned, bounds
<1>10. Serves(c)
  BY <1>1, <1>3, <1>4, <1>5, <1>9 DEF Serves, KeptRow, bounds, history
<1>11. Undo(c)'
  BY <1>1, <1>2, <1>3, <1>4, <1>5, <1>6, <1>7 DEF Undo, KeptRow, history
<1> QED BY <1>10, <1>11

LEMMA RestoreEndsServes ==
  ASSUME Typed, NEW c \in Calls, RestoreEnds(c), Undo(c)
  PROVE  Serves(c) /\ Undo(c)'
<1> DEFINE r == call[c]
           s == call'[c]
           q == To(c, "verify")
           e == To(c, "fail")
           l == Done(c, "lost")
<1>1. r \in CallRows /\ Formed(r) /\ db \in Rows /\ r.pc = "restoring"
  BY DEF Typed, RestoreEnds
<1>2. Late(r) /\ r.found \in Rows
  BY <1>1 DEF Formed, Late, CallRows
<1>3. /\ q \in CallRows /\ q.pc = "verify" /\ KeptRow(r, q) /\ q.held = r.held
      /\ q.safety = r.safety /\ q.found = r.found /\ q.before = r.before
      /\ e \in CallRows /\ e.pc = "fail" /\ KeptRow(r, e)
  BY <1>1, ToRow DEF Places
<1>4. Over(l) /\ Formed(l) /\ (l.from = "page" <=> r.from = "page")
  BY <1>1, OverRow
<1>5. Formed(q) /\ Formed(e) /\ ~Late(e) /\ ~Late(l) /\ Late(q)
  BY <1>1, <1>2, <1>3, <1>4 DEF Formed, Late, KeptRow, Over
<1> HIDE DEF q, e, l
<1>6. /\ UNCHANGED <<disk, tokens, exiting, second, issued, written, history>>
      /\ \/ /\ db' = [db EXCEPT !.rest = r.found.rest]
            /\ call' = [Disturb(c) EXCEPT ![c] = IF r.alone THEN l ELSE q]
         \/ /\ db' = db
            /\ call' = [Disturb(c) EXCEPT ![c] = IF r.alone THEN l ELSE e]
  BY DEF RestoreEnds, q, e, l
<1>7. /\ Beside(c) /\ (\A d \in Calls \ {c} : Running(d) => (call'[d]).disturbed)
      /\ \/ s = q /\ db' = [db EXCEPT !.rest = r.found.rest]
         \/ s = l \/ s = e
  <2>1. PICK x \in {l, q, e} : /\ call' = [Disturb(c) EXCEPT ![c] = x]
                               /\ x # q \/ db' = [db EXCEPT !.rest = r.found.rest]
    <3>1. q # e /\ q # l
      BY <1>3, <1>4 DEF Over
    <3>2. CASE r.alone
      BY <1>6, <3>1, <3>2
    <3>3. CASE ~r.alone
      BY <1>6, <3>1, <3>3
    <3> QED BY <3>2, <3>3
  <2>2. x \in CallRows
    BY <1>3, <1>4 DEF Over
  <2>3. /\ Beside(c) /\ call'[c] = x
        /\ \A d \in Calls \ {c} : Running(d) => (call'[d]).disturbed
    BY <2>1, <2>2, AfterDisturb
  <2> QED BY <2>1, <2>3
<1>8. db' \in Rows /\ (s = q => db'.some = db.some /\ db'.rest = r.found.rest)
  <2>1. [db EXCEPT !.rest = r.found.rest] \in Rows
    BY <1>1, <1>2 DEF Rows
  <2>2. s = q => db' = [db EXCEPT !.rest = r.found.rest]
    BY <1>3, <1>4, <1>5, <1>7
  <2> QED BY <1>1, <1>2, <1>6, <2>1, <2>2 DEF Rows
<1>9. /\ Formed(s) /\ (s.from = "page" <=> r.from = "page") /\ s.token \in {r.token, 0}
      /\ s.pc # "off" \/ s.from # "page"
      /\ Late(s) => s = q
  <2> HIDE DEF s
  <2>1. CASE s = q
    BY <1>3, <1>5, <2>1 DEF KeptRow
  <2>2. CASE s = l
    BY <1>4, <1>5, <2>2 DEF Over
  <2>3. CASE s = e
    BY <1>3, <1>5, <2>3 DEF KeptRow
  <2> QED BY <1>7, <2>1, <2>2, <2>3
<1> HIDE DEF s
<1>10. CopiesKept(c)
  BY <1>2, <1>3, <1>6, <1>9 DEF CopiesKept, history, s
<1>11. StepOf(c)
  BY <1>6, <1>7, <1>8, <1>9, <1>10 DEF StepOf, Warned, Typed, s
<1>12. Serves(c)
  BY <1>1, <1>6, <1>9, <1>11 DEF Serves, history, s
<1>13. s.pc \in {"restoring", "verify"} => s = q
  BY <1>3, <1>4, <1>7 DEF Over, s
<1>14. Undo(c)'
  BY <1>1, <1>2, <1>3, <1>6, <1>8, <1>9, <1>13 DEF Undo, KeptRow, history, s
<1> QED BY <1>12, <1>14

LEMMA ServesUndo ==
  ASSUME Typed, NEW c \in Calls, Serve(c), Undo(c)
  PROVE  Serves(c) /\ Undo(c)'
BY DumpStartsServes, NoFolderServes, DumpEndsServes, DumpedServes, CheckServes,
   RestoreStartsServes, RestoreEndsServes, FinishServes DEF Serve

-----------------------------------------------------------------------------
(* The start of a call, its answer, and the rest of the world *)

\* With a token, a call starts as what the token was issued for.
Deliberate(s) ==
  s.token # 0 => \E t \in tokens : /\ t.id = s.token /\ t.by = s.by
                                   /\ t.kind = IF s.op = "create" THEN "destination" ELSE "file"

Begins(c, from) ==
  /\ StepOf(c) /\ Undo(c)' /\ UNCHANGED <<spent, issued>>
  /\ call[c].pc = "off"
  /\ (call'[c]).from = "page" <=> from = "page"
  /\ Deliberate(call'[c])
  /\ tokens' \subseteq tokens /\ \A t \in tokens : t.fresh => t \in tokens'

\* A call that is over, or has done nothing yet, needs no copy.
LEMMA NewCall ==
  ASSUME Typed, NEW c \in Calls, NEW s \in CallRows, Update(c, s), Formed(s),
         s.pc \in {"dump", "check", "off", "ok", "failed", "lost"},
         UNCHANGED <<db, disk, second, written, reused>>
  PROVE  StepOf(c) /\ Undo(c)' /\ call'[c] = s
<1>1. Beside(c) /\ call'[c] = s
  BY AfterUpdate
<1>2. ~Late(s)
  BY DEF Late
<1>3. CopiesKept(c) /\ Warned(c)
  BY <1>1, <1>2 DEF CopiesKept, Warned
<1>4. StepOf(c)
  BY <1>1, <1>3 DEF StepOf, Typed
<1> QED BY <1>1, <1>2, <1>4 DEF Undo

LEMMA EnterBegins ==
  ASSUME Typed, NEW c \in Calls, NEW from \in {"page", "route"}, NEW user \in Users,
         NEW op \in {"create", "restore"}, NEW id \in Nat, NEW path \in Paths,
         op = "restore" \/ path \in Backups \union {Custom},
         Enter(c, from, user, op, id, path), call[c].pc = "off",
         UNCHANGED <<world, second, issued, written, history>>,
         id # 0 => \E t \in tokens : /\ t.id = id /\ t.by = user
                                     /\ t.kind = IF op = "create" THEN "destination" ELSE "file"
  PROVE  Begins(c, from)
<1> DEFINE s == Entered(from, user, op, id, path)
<1>0. Starting(Entered(from, user, op, id, path), from, user, op, id)
  BY EnteredRow
<1>1. /\ s \in CallRows /\ s.pc \in {"dump", "check"} /\ s.op = op /\ s.from = from
      /\ s.by = user /\ s.token = id /\ Formed(s)
  BY <1>0 DEF Starting
<1>2. Update(c, s)
  BY DEF Enter
<1> HIDE DEF s
<1>3. StepOf(c) /\ Undo(c)' /\ call'[c] = s
  BY <1>1, <1>2, NewCall DEF world, history
<1>4. Deliberate(s)
  BY <1>1 DEF Deliberate
<1> QED BY <1>1, <1>3, <1>4 DEF Begins, world, history

LEMMA DefaultBegins ==
  ASSUME Typed, NEW c \in Calls, NEW from \in {"page", "route"},
         CreateDefault(c, from) \/ \E p \in Backups \union Safeties : RestoreDefault(c, from, p)
  PROVE  Begins(c, from)
<1>1. PICK user \in Users, id \in Nat : user = "" /\ id = NoToken /\ id = 0
  BY DEF Users, NoToken
<1>2. CASE CreateDefault(c, from)
  <2> DEFINE path == [label |-> "pnk-backup", at |-> second]
  <2>1. path \in Backups /\ path \in Paths
    BY DEF Typed, Backups, Paths
  <2>2. PICK op \in {"create", "restore"} : op = "create"
    OBVIOUS
  <2>3. /\ Enter(c, from, user, op, id, path) /\ call[c].pc = "off"
        /\ UNCHANGED <<world, second, issued, written, history>>
    BY <1>1, <1>2, <2>2 DEF CreateDefault
  <2> HIDE DEF path
  <2> QED BY <1>1, <2>1, <2>3, EnterBegins
<1>3. CASE \E p \in Backups \union Safeties : RestoreDefault(c, from, p)
  <2>1. PICK p \in Backups \union Safeties : RestoreDefault(c, from, p)
    BY <1>3
  <2>2. PICK op \in {"create", "restore"} : op = "restore"
    OBVIOUS
  <2>3. /\ Enter(c, from, user, op, id, p) /\ call[c].pc = "off"
        /\ UNCHANGED <<world, second, issued, written, history>>
    BY <1>1, <2>1, <2>2 DEF RestoreDefault
  <2>4. p \in Paths
    BY SafetiesAreThere
  <2> QED BY <1>1, <2>2, <2>3, <2>4, EnterBegins
<1> QED BY <1>2, <1>3

LEMMA TokenBegins ==
  ASSUME Typed, NEW c \in Calls, NEW from \in {"page", "route"}, NEW user \in {Operator, Other},
         NEW op \in {"create", "restore"}, NEW id, WithToken(c, from, user, op, id)
  PROVE  Begins(c, from)
<1> DEFINE kind == IF op = "create" THEN "destination" ELSE "file"
           found == Resolvable(id, user, kind)
<1>1. call[c].pc = "off" /\ UNCHANGED <<db, disk, exiting, second, issued, written, history>>
  BY DEF WithToken
<1>2. CASE found # {}
  <2>1. PICK t \in found : Enter(c, from, user, op, id, t.path) /\ UNCHANGED tokens
    BY <1>2 DEF WithToken
  <2>2. t \in tokens /\ t \in TokenRows /\ t.id = id /\ t.by = user /\ t.kind = kind
    BY DEF Resolvable, Typed
  <2>3. id \in Nat /\ t.path = Custom /\ Custom \in Paths /\ user \in Users
    BY <2>2, SafetiesAreThere DEF TokenRows, Users
  <2> QED BY <1>1, <2>1, <2>2, <2>3, EnterBegins DEF world
<1>3. CASE found = {}
  <2> DEFINE told == [Idle EXCEPT !.pc = "failed", !.from = from]
             s == IF from = "page" THEN told ELSE Idle
             first == [Idle EXCEPT !.pc = "failed"]
  <2>1. Update(c, s) /\ tokens' = {t \in tokens : t.id # id \/ t.fresh}
    BY <1>3 DEF WithToken
  <2>2. first \in CallRows /\ first.pc = "failed" /\ first.op = "" /\ first.token = 0
    BY IdleRow DEF CallRows, Places
  <2>3. told = [first EXCEPT !.from = from]
    OBVIOUS
  <2> HIDE DEF first
  <2>4. told \in CallRows /\ told.pc = "failed" /\ told.op = "" /\ told.token = 0 /\ told.from = from
    BY <2>2, <2>3 DEF CallRows
  <2> HIDE DEF told
  <2>5. /\ s \in CallRows /\ s.pc \in {"off", "failed"} /\ s.op = "" /\ s.token = 0
        /\ s.from = "page" <=> from = "page"
        /\ s.pc = "off" => s.from # "page"
    BY <2>4, IdleRow
  <2> HIDE DEF s
  <2>6. Formed(s)
    BY <2>5 DEF Formed, Late
  <2>7. StepOf(c) /\ Undo(c)' /\ call'[c] = s
    BY <1>1, <2>1, <2>5, <2>6, NewCall DEF history
  <2> QED BY <1>1, <2>1, <2>5, <2>7 DEF Begins, Deliberate, history
<1> QED BY <1>2, <1>3

\* An answer that has been applied.
LEMMA AnswerEnds ==
  ASSUME Typed, NEW c \in Calls, Answer(c)
  PROVE  /\ StepOf(c) /\ Undo(c)' /\ UNCHANGED <<tokens, spent, issued, exiting, typing>>
         /\ call[c].from = "page" /\ (call'[c]).from # "page"
         /\ (call'[c]).pc = "off" /\ (call'[c]).token = 0
<1>1. Update(c, Idle) /\ call[c].from = "page" /\ UNCHANGED <<world, bounds, history, typing>>
  BY DEF Answer, Update
<1>2. StepOf(c) /\ Undo(c)' /\ call'[c] = Idle
  BY <1>1, IdleRow, NewCall DEF world, bounds, history
<1> QED BY <1>1, <1>2, IdleRow DEF world, bounds, history

\* The calls are disturbed together, or end together.
Elapses ==
  /\ call' \in [Calls -> CallRows]
  /\ \A d \in Calls : \/ Same(call[d], call'[d])
                      \/ /\ Over(call'[d]) /\ Formed(call'[d])
                         /\ (call'[d]).from = "page" <=> call[d].from = "page"
  /\ db' = db \/ \A d \in Calls : Running(d) => (call'[d]).disturbed
  /\ \A d \in Calls : call[d].pc = "off" => (call'[d]).pc = "off"
  /\ UNCHANGED <<disk, reused, spent, page, typing, issued>>
  /\ db' \in Rows /\ second' \in 1..MaxSecond /\ written' \in Nat
  /\ tokens' \in SUBSET TokenRows
  /\ \A u \in tokens' : \E t \in tokens : u.id = t.id
  /\ exiting \/ \A t \in tokens : \E u \in tokens' : u.id = t.id

LEMMA WorldElapses ==
  ASSUME Typed, (\E t \in tokens : Expire(t)) \/ Write \/ Tick \/ Exit, UNCHANGED screenVars
  PROVE  Elapses
<1>0. \A d \in Calls : call[d] \in CallRows /\ Same(call[d], call[d])
  BY DEF Typed, Same
<1>1. CASE \E t \in tokens : Expire(t)
  <2>1. PICK t \in tokens : Expire(t)
    BY <1>1
  <2> DEFINE old == [t EXCEPT !.fresh = FALSE]
  <2>2. t \in TokenRows /\ old \in TokenRows /\ old.id = t.id
    BY DEF Typed, TokenRows
  <2>3. /\ tokens' = (tokens \ {t}) \union {old}
        /\ UNCHANGED <<db, disk, exiting, call, second, issued, written, history>>
    BY <2>1 DEF Expire
  <2> HIDE DEF old
  <2> QED BY <1>0, <2>2, <2>3 DEF Elapses, Typed, history, screenVars
<1>2. CASE Write
  <2> DEFINE new == [some |-> written + 1, rest |-> written + 1]
  <2>1. new \in Rows /\ written + 1 \in Nat
    BY DEF Typed, Rows
  <2>2. /\ written' = written + 1 /\ db' = new
        /\ call' = [c \in Calls |-> IF Running(c) THEN Touched(call[c]) ELSE call[c]]
        /\ UNCHANGED <<disk, tokens, exiting, second, issued, history>>
    BY <1>2 DEF Write, Touched
  <2>3. \A d \in Calls : Same(call[d], Touched(call[d])) /\ Touched(call[d]).disturbed
    BY <1>0, TouchedRow
  <2> HIDE DEF new, Running
  <2>4. /\ \A d \in Calls : Same(call[d], call'[d]) /\ (Running(d) => (call'[d]).disturbed)
        /\ call' \in [Calls -> CallRows]
    <3> HIDE DEF Touched
    <3> QED BY <1>0, <2>2, <2>3 DEF Same
  <2>5. \A d \in Calls : call[d].pc = "off" => (call'[d]).pc = "off"
    BY <2>4 DEF Same
  <2> QED BY <2>1, <2>2, <2>4, <2>5 DEF Elapses, Typed, history, screenVars
<1>3. CASE Tick
  <2>1. second' = second + 1 /\ second < MaxSecond /\ UNCHANGED <<world, call, issued, written, history>>
    BY <1>3 DEF Tick
  <2>2. second' \in 1..MaxSecond
    BY <2>1, BoundAssumption DEF Typed
  <2> QED BY <1>0, <2>1, <2>2 DEF Elapses, Typed, world, history, screenVars
<1>4. CASE Exit
  <2>1. /\ exiting /\ tokens' = {} /\ UNCHANGED <<db, disk, bounds, history>>
        /\ DOMAIN call' = Calls
        /\ \A c \in Calls : call'[c] =
             IF call[c].pc \in {"dumping", "restoring"} THEN [call[c] EXCEPT !.alone = TRUE]
             ELSE IF Running(c) THEN Done(c, "lost") ELSE call[c]
    BY <1>4 DEF Exit
  <2>2. ASSUME NEW d \in Calls
        PROVE  \/ Same(call[d], call'[d])
               \/ /\ Over(call'[d]) /\ Formed(call'[d]) /\ Running(d)
                  /\ (call'[d]).from = "page" <=> call[d].from = "page"
    <3>1. CASE call[d].pc \in {"dumping", "restoring"}
      <4>1. call'[d] = [call[d] EXCEPT !.alone = TRUE]
        BY <2>1, <3>1
      <4> QED BY <1>0, <4>1 DEF Same, CallRows
    <3>2. CASE call[d].pc \notin {"dumping", "restoring"} /\ Running(d)
      BY <1>0, <2>1, <3>2, OverRow
    <3>3. CASE call[d].pc \notin {"dumping", "restoring"} /\ ~Running(d)
      BY <1>0, <2>1, <3>3
    <3> QED BY <3>1, <3>2, <3>3
  <2>3. call' \in [Calls -> CallRows]
    <3>1. \A d \in Calls : call'[d] \in CallRows
      BY <2>2 DEF Same, Over
    <3>2. call' = [d \in Calls |-> call'[d]]
      BY <1>4 DEF Exit
    <3> QED BY <3>1, <3>2
  <2>4. \A d \in Calls : call[d].pc = "off" => (call'[d]).pc = "off"
    BY <2>2 DEF Same, Running
  <2> QED BY <2>1, <2>2, <2>3, <2>4 DEF Elapses, Typed, bounds, history, screenVars
<1> QED BY <1>1, <1>2, <1>3, <1>4

-----------------------------------------------------------------------------
(* The restore: RestoreIsSafe *)

\* No two restores have the same safety copy.
Distinct ==
  ~reused => \A c, d \in Calls :
    Late(call[c]) /\ Late(call[d]) /\ c # d => call[c].safety # call[d].safety

UndoInv == Distinct /\ \A c \in Calls : Undo(c)

LEMMA UndoStays ==
  ASSUME NEW d \in Calls, Undo(d), Same(call[d], call'[d]),
         db' = db \/ (Running(d) => (call'[d]).disturbed),
         reused' \/ (~reused /\ (Late(call[d]) => disk'[call[d].safety] = disk[call[d].safety]))
  PROVE  Undo(d)'
<1> DEFINE r == call[d]
           s == call'[d]
<1>1. /\ s.pc = r.pc /\ s.op = r.op /\ s.safety = r.safety /\ s.held = r.held
      /\ s.before = r.before /\ s.found = r.found
      /\ r.disturbed => s.disturbed
  BY DEF Same
<1>2. Late(r) <=> Late(s)
  BY <1>1 DEF Late
<1>3. Late(r) \/ r.pc \in {"restoring", "verify"} => Running(d)
  BY DEF Late, Running
<1> QED BY <1>1, <1>2, <1>3 DEF Undo

LEMMA UndoByStep ==
  ASSUME Typed, UndoInv, NEW c \in Calls, StepOf(c), Undo(c)'
  PROVE  UndoInv'
<1>1. ASSUME NEW d \in Calls \ {c}
      PROVE  /\ Same(call[d], call'[d])
             /\ (Late(call[d]) <=> Late(call'[d])) /\ (call'[d]).safety = call[d].safety
             /\ Late(call[d]) => call[d].safety \in Safeties
  BY DEF StepOf, Beside, Same, Late, Typed, Formed
<1>2. ASSUME NEW d \in Calls \ {c}, Late(call[d]), ~reused'
      PROVE  /\ disk'[call[d].safety] = disk[call[d].safety]
             /\ disk[call[d].safety].is # "none"
  <2>1. ~reused /\ call[d].safety \in Safeties /\ disk[call[d].safety].is # "none"
    BY <1>1, <1>2 DEF UndoInv, Undo, StepOf, CopiesKept
  <2>2. Late(call[c]) => call[c].safety # call[d].safety
    BY <1>2, <2>1 DEF UndoInv, Distinct
  <2> QED BY <1>2, <2>1, <2>2 DEF StepOf, CopiesKept
<1>3. ASSUME NEW d \in Calls \ {c}
      PROVE  Undo(d)'
  <2>1. db' = db \/ (Running(d) => (call'[d]).disturbed)
    BY DEF StepOf, Warned
  <2>2. reused' \/ (~reused /\ (Late(call[d]) => disk'[call[d].safety] = disk[call[d].safety]))
    BY <1>2 DEF StepOf, CopiesKept
  <2>3. Same(call[d], call'[d]) /\ Undo(d)
    BY <1>1 DEF UndoInv
  <2> QED BY <2>1, <2>2, <2>3, UndoStays
<1>4. ASSUME ~reused', NEW d \in Calls \ {c}, Late(call[d]), Late(call'[c])
      PROVE  (call'[c]).safety # call[d].safety
  <2>1. ~reused
    BY <1>4 DEF StepOf, CopiesKept
  <2>2. \/ disk[(call'[c]).safety].is = "none"
        \/ Late(call[c]) /\ (call'[c]).safety = call[c].safety
    BY <1>4 DEF StepOf, CopiesKept
  <2> QED BY <1>2, <1>4, <2>1, <2>2 DEF UndoInv, Distinct
<1>5. Distinct'
  <2> SUFFICES ASSUME ~reused', NEW a \in Calls, NEW b \in Calls, a # b,
                      Late(call'[a]), Late(call'[b])
               PROVE  (call'[a]).safety # (call'[b]).safety
    BY DEF Distinct
  <2>1. ~reused
    BY DEF StepOf, CopiesKept
  <2>2. CASE a # c /\ b # c
    BY <1>1, <2>1, <2>2 DEF UndoInv, Distinct
  <2>3. CASE a = c
    BY <1>1, <1>4, <2>3
  <2>4. CASE b = c
    BY <1>1, <1>4, <2>4
  <2> QED BY <2>2, <2>3, <2>4
<1> QED BY <1>3, <1>5 DEF UndoInv

LEMMA UndoByTime ==
  ASSUME Typed, UndoInv, Elapses
  PROVE  UndoInv'
<1>1. ASSUME NEW d \in Calls
      PROVE  /\ Undo(d)'
             /\ Late(call'[d]) => Late(call[d]) /\ (call'[d]).safety = call[d].safety
  <2>1. CASE Same(call[d], call'[d])
    <3>1. /\ db' = db \/ (Running(d) => (call'[d]).disturbed)
          /\ disk' = disk /\ reused' = reused
      BY DEF Elapses
    <3>2. Undo(d)'
      BY <2>1, <3>1, UndoStays DEF UndoInv
    <3> QED BY <2>1, <3>2 DEF Same, Late
  <2>2. CASE Over(call'[d])
    BY <2>2 DEF Over, Late, Undo
  <2> QED BY <2>1, <2>2 DEF Elapses
<1>2. Distinct'
  BY <1>1 DEF UndoInv, Distinct, Elapses
<1> QED BY <1>1, <1>2 DEF UndoInv

LEMMA UndoIsSafe ==
  ASSUME Typed, UndoInv
  PROVE  RestoreIsSafe
<1>1. ASSUME NEW c \in Calls, call[c].op = "restore", call[c].pc \in {"restoring", "verify"}, ~reused
      PROVE  /\ disk[call[c].safety] = [is |-> "whole", of |-> call[c].held]
             /\ ~call[c].disturbed => call[c].held = call[c].before
  <2>1. Late(call[c]) /\ call[c].safety \in Paths
    BY <1>1, SafetiesAreThere DEF Late, Typed, Formed
  <2>2. disk[call[c].safety] \in DiskFiles
    BY <2>1 DEF Typed
  <2> QED BY <1>1, <2>1, <2>2 DEF UndoInv, Undo, DiskFiles
<1>2. ASSUME NEW c \in Calls, call[c].pc = "verify", ~call[c].disturbed
      PROVE  db = call[c].found
  <2>1. db \in Rows /\ call[c].found \in Rows
    BY DEF Typed, CallRows
  <2>2. db.some = call[c].found.some /\ db.rest = call[c].found.rest
    BY <1>2 DEF UndoInv, Undo
  <2> QED BY <2>1, <2>2 DEF Rows
<1> QED BY <1>1, <1>2 DEF RestoreIsSafe, UndoExists, SuccessIsWhole

-----------------------------------------------------------------------------
(* Types and tokens *)

TokenInv ==
  /\ \A t \in tokens : t.id <= issued /\ t.id \notin spent
  /\ spent \subseteq 0..issued
  /\ \A c \in Calls : call[c].token <= issued

\* What a step does to the tokens.
TokenStep ==
  \/ tokens' \subseteq tokens /\ spent' = spent /\ issued' = issued
  \/ /\ issued' = issued /\ \E c \in Calls : /\ tokens' = {t \in tokens : t.id # call[c].token}
                                             /\ spent' = spent \union {call[c].token}
  \/ /\ spent' = spent /\ issued' = issued + 1
     /\ \E new \in TokenRows : new.id = issued + 1 /\ tokens' \subseteq tokens \union {new}

LEMMA TypedByStep ==
  ASSUME Typed, NEW c \in Calls, StepOf(c), TokenStep
  PROVE  Typed'
<1>1. call' \in [Calls -> CallRows] /\ \A d \in Calls : Formed(call'[d])
  BY SameForm DEF StepOf, Beside, Typed
<1>2. tokens' \in SUBSET TokenRows /\ issued' \in Nat
  BY DEF Typed, TokenStep
<1> QED BY <1>1, <1>2 DEF Typed, StepOf

LEMMA TypedByTime ==
  ASSUME Typed, Elapses
  PROVE  Typed'
<1>1. \A d \in Calls : Formed(call'[d])
  BY SameForm DEF Elapses, Typed
<1> QED BY <1>1 DEF Typed, Elapses

LEMMA TokensByStep ==
  ASSUME Typed, TokenInv, TokenStep,
         \A d \in Calls : \/ (call'[d]).token \in {call[d].token, 0}
                          \/ \E t \in tokens : t.id = (call'[d]).token
  PROVE  TokenInv'
<1>1. \A c \in Calls : call[c].token \in 0..issued
  <2>1. \A c \in Calls : call[c].token \in Nat
    BY DEF Typed, CallRows
  <2> QED BY <2>1 DEF Typed, TokenInv
<1>2. \A t \in tokens : t.id \in Nat /\ t.id <= issued
  BY DEF Typed, TokenRows, TokenInv
<1>3. issued \in Nat /\ issued' \in Nat /\ issued <= issued'
  BY DEF Typed, TokenStep
<1>4. \A d \in Calls : (call'[d]).token <= issued'
  BY <1>1, <1>2, <1>3
<1>5. spent' \subseteq 0..issued'
  <2>1. spent' \subseteq 0..issued
    BY <1>1 DEF TokenStep, TokenInv
  <2> QED BY <1>3, <2>1
<1>6. \A t \in tokens' : t.id <= issued' /\ t.id \notin spent'
  <2>1. CASE tokens' \subseteq tokens /\ spent' = spent /\ issued' = issued
    BY <2>1 DEF TokenInv
  <2>2. CASE /\ issued' = issued
             /\ \E c \in Calls : /\ tokens' = {t \in tokens : t.id # call[c].token}
                                 /\ spent' = spent \union {call[c].token}
    BY <2>2 DEF TokenInv
  <2>3. CASE /\ spent' = spent /\ issued' = issued + 1
             /\ \E new \in TokenRows : new.id = issued + 1 /\ tokens' \subseteq tokens \union {new}
    <3>1. issued + 1 \notin spent
      BY <1>3 DEF TokenInv
    <3> QED BY <1>2, <1>3, <2>3, <3>1 DEF TokenInv
  <2> QED BY <2>1, <2>2, <2>3 DEF TokenStep
<1> QED BY <1>4, <1>5, <1>6 DEF TokenInv

LEMMA TokensByTime ==
  ASSUME Typed, TokenInv, Elapses
  PROVE  TokenInv'
<1>1. \A d \in Calls : (call'[d]).token \in {call[d].token, 0}
  BY DEF Elapses, Same, Over
<1>2. \A d \in Calls : (call'[d]).token <= issued
  BY <1>1 DEF TokenInv, Typed
<1> QED BY <1>2 DEF TokenInv, Elapses

\* The rules of the tokens, of one step.
Rules ==
  /\ \A t \in tokens : t.fresh /\ (\A u \in tokens' : u.id # t.id) => t.id \in spent' \/ exiting
  /\ \A c \in Calls : call[c].pc = "off" /\ Running(c)' /\ (call[c].token)' # NoToken =>
       /\ (call[c].token)' \notin spent
       /\ \E t \in tokens : /\ t.id = (call[c].token)' /\ t.by = (call[c].by)'
                            /\ t.kind = IF (call[c].op)' = "create" THEN "destination" ELSE "file"

LEMMA RulesOfServes ==
  ASSUME Typed, NEW c \in Calls, Serves(c)
  PROVE  Rules /\ TokenStep /\ \A d \in Calls : (call'[d]).token \in {call[d].token, 0}
<1>1. \A d \in Calls : call[d].pc = "off" => (call'[d]).pc = "off"
  BY DEF Serves, StepOf, Beside, Same
<1>2. \A t \in tokens : (\A u \in tokens' : u.id # t.id) => t.id \in spent'
  BY DEF Serves
<1>3. Rules
  BY <1>1, <1>2 DEF Rules, Running
<1>4. TokenStep
  BY DEF Serves, TokenStep
<1> QED BY <1>3, <1>4 DEF Serves, StepOf, Beside, Same

LEMMA RulesOfBegins ==
  ASSUME Typed, TokenInv, NEW c \in Calls, NEW from, Begins(c, from)
  PROVE  /\ Rules /\ TokenStep
         /\ \A d \in Calls : \/ (call'[d]).token \in {call[d].token, 0}
                             \/ \E t \in tokens : t.id = (call'[d]).token
<1>1. \A d \in Calls \ {c} : /\ call[d].pc = "off" => (call'[d]).pc = "off"
                             /\ (call'[d]).token = call[d].token
  BY DEF Begins, StepOf, Beside, Same
<1>2. \A t \in tokens : t.fresh => t \in tokens'
  BY DEF Begins
<1>3. (call'[c]).token = 0 \/
      (\E t \in tokens : /\ t.id = (call'[c]).token /\ t.by = (call'[c]).by
                         /\ t.kind = IF (call'[c]).op = "create" THEN "destination" ELSE "file")
  BY DEF Begins, Deliberate
<1>4. Rules
  BY <1>1, <1>2, <1>3 DEF Rules, Running, TokenInv, NoToken
<1>5. TokenStep
  BY DEF Begins, TokenStep
<1> QED BY <1>1, <1>3, <1>4, <1>5

LEMMA RulesOfTime ==
  ASSUME Typed, Elapses
  PROVE  Rules
<1>1. \A d \in Calls : call[d].pc = "off" => ~Running(d)'
  BY DEF Elapses, Running
<1> QED BY <1>1 DEF Rules, Elapses

-----------------------------------------------------------------------------
(* The page: one request at a time, and confirmed in its own dialog *)

Picks == [path : Paths \union {NoPath}, token : Nat]
Targets == Backups \union Safeties \union {NoPath}
PageRows == [create : Picks, pick : Picks, target : Targets, text : Paths \union {NoPath},
             busy : {Off, "create", "file", "row"}, picking : {Off, "save", "open"}]

\* A name in the field was typed while the dialogs were open that are open now.
PageOf(p, typed) ==
  /\ p \in PageRows
  /\ p.pick # Nothing => p.pick.path = Custom
  /\ p.pick # Nothing /\ p.text # NoPath => "file" \in typed
  /\ p.target # NoPath /\ p.text # NoPath => "row" \in typed

PageInv ==
  /\ PageOf(page, typing)
  /\ \A c, d \in Mine : c = d
  /\ page.busy = Off <=> Mine = {}

\* A step of the page without a request.
Browses ==
  /\ PageOf(page', typing') /\ page'.busy = page.busy
  /\ UNCHANGED <<db, disk, exiting, call, second, written, history>>
  /\ \/ UNCHANGED <<tokens, issued>>
     \/ \E kind \in {"destination", "file"} : Issue(Operator, kind, Custom)

LEMMA PathFacts ==
  /\ Backups \subseteq Paths /\ Safeties \subseteq Paths /\ Custom \in Paths
  /\ NoPath \notin Backups \union Safeties
  /\ [label |-> "pnk-backup", at |-> 0] \in Backups
BY BoundAssumption DEF Paths, Backups, Safeties, NoPath

LEMMA NameFacts ==
  ASSUME NEW p \in Paths
  PROVE  Name(p) \in Paths /\ (p \in Backups \union Safeties => Name(p) # NoPath)
<1>1. [label |-> "pnk-backup", at |-> 0] # NoPath
  BY PathFacts
<1> QED BY <1>1, PathFacts DEF Name

LEMMA NothingIsPick == Nothing \in Picks /\ Nothing.path = NoPath /\ NoPath \in Targets
BY DEF Nothing, Picks, NoToken, Targets

LEMMA BrowsingKeeps ==
  ASSUME Typed, PageInv,
         \/ DefaultLocation \/ CancelCreate \/ CancelPick \/ CancelRow
         \/ \E what \in {"save", "open"} : Ask(what)
         \/ NothingPicked
  PROVE  Browses
<1>0. page \in PageRows /\ PageOf(page, typing)
  BY DEF PageInv, PageOf
<1>1. CASE DefaultLocation
  <2> DEFINE v == [path |-> [label |-> "pnk-backup", at |-> second], token |-> NoToken]
  <2>1. v \in Picks
    BY DEF Picks, Paths, Backups, Typed, NoToken
  <2>2. /\ page' = [page EXCEPT !.create = v]
        /\ UNCHANGED <<world, call, second, issued, written, history, typing>>
    BY <1>1 DEF DefaultLocation, Opens
  <2> HIDE DEF v
  <2>3. page' \in PageRows /\ page'.busy = page.busy /\ page'.pick = page.pick
        /\ page'.target = page.target /\ page'.text = page.text
    BY <1>0, <2>1, <2>2 DEF PageRows
  <2> QED BY <1>0, <2>2, <2>3 DEF Browses, PageOf, world, history
<1>2. CASE CancelCreate
  <2>1. page' = [page EXCEPT !.create = Nothing] /\ UNCHANGED <<backupVars, typing>>
    BY <1>2 DEF CancelCreate, Set
  <2>2. page' \in PageRows /\ page'.busy = page.busy /\ page'.pick = page.pick
        /\ page'.target = page.target /\ page'.text = page.text
    BY <1>0, <2>1, NothingIsPick DEF PageRows
  <2> QED BY <1>0, <2>1, <2>2 DEF Browses, PageOf, backupVars, world, bounds, history
<1>3. CASE CancelPick
  <2>1. page' = [page EXCEPT !.pick = Nothing] /\ UNCHANGED <<backupVars, typing>>
    BY <1>3 DEF CancelPick, Set
  <2>2. page' \in PageRows /\ page'.busy = page.busy /\ page'.pick = Nothing
        /\ page'.target = page.target /\ page'.text = page.text
    BY <1>0, <2>1, NothingIsPick DEF PageRows
  <2> QED BY <1>0, <2>1, <2>2 DEF Browses, PageOf, backupVars, world, bounds, history
<1>4. CASE CancelRow
  <2>1. page' = [page EXCEPT !.target = NoPath] /\ UNCHANGED <<backupVars, typing>>
    BY <1>4 DEF CancelRow, Set
  <2>2. page' \in PageRows /\ page'.busy = page.busy /\ page'.pick = page.pick
        /\ page'.target = NoPath /\ page'.text = page.text
    BY <1>0, <2>1, NothingIsPick DEF PageRows
  <2> QED BY <1>0, <2>1, <2>2 DEF Browses, PageOf, backupVars, world, bounds, history
<1>5. CASE (\E what \in {"save", "open"} : Ask(what)) \/ NothingPicked
  <2>1. PICK what \in {Off, "save", "open"} :
          /\ page' = [page EXCEPT !.picking = what]
          /\ UNCHANGED <<world, call, second, issued, written, history, typing>>
    BY <1>5 DEF Ask, NothingPicked, Opens, Set, backupVars, bounds
  <2>2. page' \in PageRows /\ page'.busy = page.busy /\ page'.pick = page.pick
        /\ page'.target = page.target /\ page'.text = page.text
    BY <1>0, <2>1 DEF PageRows
  <2> QED BY <1>0, <2>1, <2>2 DEF Browses, PageOf, world, history
<1> QED BY <1>1, <1>2, <1>3, <1>4, <1>5

LEMMA OpeningKeeps ==
  ASSUME Typed, PageInv,
         \/ \E p \in Backups \union Safeties : OpenRow(p)
         \/ \E d \in {"file", "row"} : Type(d)
         \/ PlacePicked \/ FilePicked
  PROVE  Browses
<1>0. page \in PageRows /\ PageOf(page, typing)
  BY DEF PageInv, PageOf
<1>1. CASE \E p \in Backups \union Safeties : OpenRow(p)
  <2>1. PICK p \in Backups \union Safeties : OpenRow(p)
    BY <1>1
  <2> DEFINE a == [page EXCEPT !.target = p]
  <2>2. p \in Targets
    BY DEF Targets
  <2>3. /\ a \in PageRows /\ a.busy = page.busy /\ a.pick = page.pick /\ a.target = p
    BY <1>0, <2>2 DEF PageRows
  <2>4. page' = [a EXCEPT !.text = NoPath]
    BY <2>1 DEF OpenRow
  <2> HIDE DEF a
  <2>5. page' \in PageRows /\ page'.busy = page.busy /\ page'.pick = page.pick /\ page'.text = NoPath
    BY <2>3, <2>4 DEF PageRows
  <2>6. UNCHANGED <<world, call, second, issued, written, history>>
    BY <2>1 DEF OpenRow, Opens
  <2> QED BY <1>0, <2>5, <2>6 DEF Browses, PageOf, world, history
<1>2. CASE \E d \in {"file", "row"} : Type(d)
  <2>1. PICK d \in {"file", "row"} : Type(d)
    BY <1>2
  <2> DEFINE path == IF d = "file" THEN page.pick.path ELSE page.target
             v == Name(path)
  <2>2. /\ d \in Open /\ page' = [page EXCEPT !.text = v] /\ typing' = Open
        /\ UNCHANGED backupVars
    BY <2>1 DEF Type
  <2>3. path \in Paths
    BY <1>0, <2>2, PathFacts DEF Open, PageOf, PageRows, Targets
  <2>4. v \in Paths
    BY <2>3, NameFacts
  <2> HIDE DEF v, path
  <2>5. page' \in PageRows /\ page'.busy = page.busy /\ page'.pick = page.pick
        /\ page'.target = page.target
    BY <1>0, <2>2, <2>4 DEF PageRows
  <2>6. (page.pick # Nothing => "file" \in Open) /\ (page.target # NoPath => "row" \in Open)
    BY DEF Open
  <2> QED BY <1>0, <2>2, <2>5, <2>6 DEF Browses, PageOf, backupVars, world, bounds, history
<1>3. CASE PlacePicked
  <2> DEFINE v == [path |-> Custom, token |-> issued + 1]
             a == [page EXCEPT !.picking = Off]
  <2>1. v \in Picks
    BY PathFacts DEF Picks, Typed
  <2>2. page' = [a EXCEPT !.create = v]
    BY <1>3 DEF PlacePicked
  <2>3. a \in PageRows /\ a.busy = page.busy /\ a.pick = page.pick /\ a.target = page.target
        /\ a.text = page.text
    BY <1>0 DEF PageRows
  <2> HIDE DEF a, v
  <2>4. page' \in PageRows /\ page'.busy = page.busy /\ page'.pick = page.pick
        /\ page'.target = page.target /\ page'.text = page.text
    BY <2>1, <2>2, <2>3 DEF PageRows
  <2>5. /\ Issue(Operator, "destination", Custom)
        /\ UNCHANGED <<db, disk, exiting, call, second, written, history, typing>>
    BY <1>3 DEF PlacePicked
  <2> QED BY <1>0, <2>4, <2>5 DEF Browses, PageOf
<1>4. CASE FilePicked
  <2> DEFINE v == [path |-> Custom, token |-> issued + 1]
             a == [page EXCEPT !.picking = Off]
             b == [a EXCEPT !.text = NoPath]
  <2>1. v \in Picks /\ v.path = Custom
    BY PathFacts DEF Picks, Typed
  <2>2. page' = [b EXCEPT !.pick = v]
    BY <1>4 DEF FilePicked
  <2>3. a \in PageRows /\ a.busy = page.busy
    BY <1>0 DEF PageRows
  <2> HIDE DEF a, v
  <2>4. b \in PageRows /\ b.busy = page.busy /\ b.text = NoPath
    BY <2>3 DEF PageRows
  <2> HIDE DEF b
  <2>5. page' \in PageRows /\ page'.busy = page.busy /\ page'.pick = v /\ page'.text = NoPath
    BY <2>1, <2>2, <2>4 DEF PageRows
  <2>6. /\ Issue(Operator, "file", Custom)
        /\ UNCHANGED <<db, disk, exiting, call, second, written, history>>
    BY <1>4 DEF FilePicked
  <2> QED BY <2>1, <2>5, <2>6 DEF Browses, PageOf
<1> QED BY <1>1, <1>2, <1>3, <1>4

\* A button that sends a request, and only from a dialog in which its name was typed.
LEMMA RequestBegins ==
  ASSUME Typed, PageInv, NEW c \in Calls, Create(c) \/ RestoreFile(c) \/ RestoreRow(c)
  PROVE  /\ page.busy = Off /\ Begins(c, "page") /\ typing' = typing
         /\ \E what \in {"create", "file", "row"} :
              /\ page' = [page EXCEPT !.busy = what]
              /\ what \in {"file", "row"} => what \in typing
<1>0. page \in PageRows /\ PageOf(page, typing)
  BY DEF PageInv, PageOf
<1>1. PICK from \in {"page", "route"} : from = "page"
  OBVIOUS
<1>2. CASE Create(c)
  <2>1. PICK op \in {"create", "restore"} : op = "create"
    OBVIOUS
  <2>2. CreateDefault(c, from) \/ WithToken(c, from, Operator, op, page.create.token)
    BY <1>1, <1>2, <2>1 DEF Create
  <2>3. Begins(c, from)
    BY <2>2, DefaultBegins, TokenBegins
  <2> QED BY <1>1, <1>2, <2>3 DEF Create, Send
<1>3. CASE RestoreFile(c)
  <2>1. PICK op \in {"create", "restore"} : op = "restore"
    OBVIOUS
  <2>2. WithToken(c, from, Operator, op, page.pick.token)
    BY <1>1, <1>3, <2>1 DEF RestoreFile
  <2>3. Begins(c, from)
    BY <2>2, TokenBegins
  <2>4. page.pick.path = Custom /\ page.pick # Nothing /\ page.text = Name(page.pick.path)
    BY <1>0, <1>3 DEF RestoreFile, PageOf
  <2>5. "file" \in typing
    BY <1>0, <2>4, PathFacts DEF Name, PageOf
  <2> QED BY <1>1, <1>3, <2>3, <2>5 DEF RestoreFile, Send
<1>4. CASE RestoreRow(c)
  <2>1. page.target \in Backups \union Safeties /\ page.target \in Paths
    BY <1>0, <1>4, PathFacts DEF RestoreRow, PageRows, Targets
  <2>2. Begins(c, from)
    BY <1>1, <1>4, <2>1, DefaultBegins DEF RestoreRow
  <2>3. "row" \in typing
    BY <1>0, <1>4, <2>1, NameFacts DEF RestoreRow, PageOf
  <2> QED BY <1>1, <1>4, <2>2, <2>3 DEF RestoreRow, Send
<1> QED BY <1>2, <1>3, <1>4

LEMMA AnswerKeeps ==
  ASSUME Typed, PageInv, NEW c \in Calls, Answer(c)
  PROVE  PageOf(page', typing') /\ page'.busy = Off
<1> DEFINE ok == call[c].pc = "ok"
           v1 == IF ok /\ page.busy = "create" THEN Nothing ELSE page.create
           v2 == IF ok /\ page.busy = "file" THEN Nothing ELSE page.pick
           v3 == IF ok /\ page.busy = "row" THEN NoPath ELSE page.target
           v4 == IF ok /\ page.busy \in {"file", "row"} THEN NoPath ELSE page.text
           p1 == [page EXCEPT !.busy = Off]
           p2 == [p1 EXCEPT !.create = v1]
           p3 == [p2 EXCEPT !.pick = v2]
           p4 == [p3 EXCEPT !.target = v3]
<1>0. page \in PageRows /\ PageOf(page, typing)
  BY DEF PageInv, PageOf
<1>1. page' = [p4 EXCEPT !.text = v4] /\ typing' = typing
  BY DEF Answer
<1>2. /\ v1 \in Picks /\ v2 \in {Nothing, page.pick} /\ v2 \in Picks
      /\ v3 \in {NoPath, page.target} /\ v3 \in Targets
      /\ v4 \in {NoPath, page.text} /\ v4 \in Paths \union {NoPath}
  BY <1>0, NothingIsPick DEF PageRows
<1> HIDE DEF v1, v2, v3, v4
<1>3. p1 \in PageRows /\ p1.busy = Off
  BY <1>0 DEF PageRows
<1> HIDE DEF p1
<1>4. p2 \in PageRows /\ p2.busy = Off
  BY <1>2, <1>3 DEF PageRows
<1> HIDE DEF p2
<1>5. p3 \in PageRows /\ p3.busy = Off /\ p3.pick = v2
  BY <1>2, <1>4 DEF PageRows
<1> HIDE DEF p3
<1>6. p4 \in PageRows /\ p4.busy = Off /\ p4.pick = v2 /\ p4.target = v3
  BY <1>2, <1>5 DEF PageRows
<1> HIDE DEF p4
<1>7. page' \in PageRows /\ page'.busy = Off /\ page'.pick = v2 /\ page'.target = v3 /\ page'.text = v4
  BY <1>1, <1>2, <1>6 DEF PageRows
<1> QED BY <1>0, <1>1, <1>2, <1>7 DEF PageOf

\* The requests of the page, when nothing of the page is sent or answered.
LEMMA MineStays ==
  ASSUME PageInv, PageOf(page', typing'), page'.busy = page.busy,
         \A d \in Calls : (call'[d]).from = "page" <=> call[d].from = "page"
  PROVE  PageInv'
<1>1. Mine' = Mine
  BY DEF Mine
<1> QED BY <1>1 DEF PageInv

Inv == Typed /\ UndoInv /\ TokenInv /\ PageInv

\* What a step keeps of the page's promises and of the tokens'.
Kept == /\ Inv'
        /\ Rules
        /\ page.busy = Off /\ (page.busy)' \in {"file", "row"} => (page.busy)' \in typing

LEMMA PageSteps ==
  ASSUME Inv, Buttons
  PROVE  Kept
<1> USE DEF Inv
<1>1. CASE Browses
  <2>1. \A d \in Calls : call[d] \in CallRows /\ Same(call[d], call[d])
    BY DEF Typed, Same
  <2>2. TokenStep
    <3>1. CASE \E kind \in {"destination", "file"} : Issue(Operator, kind, Custom)
      <4>1. PICK kind \in {"destination", "file"} : Issue(Operator, kind, Custom)
        BY <3>1
      <4> DEFINE new == [id |-> issued + 1, by |-> Operator, kind |-> kind, path |-> Custom, fresh |-> TRUE]
      <4>2. new \in TokenRows /\ new.id = issued + 1
        <5>1. issued + 1 \in Nat \ {0} /\ Operator \in Users
          BY DEF Typed, Users
        <5> QED BY <5>1 DEF TokenRows
      <4>3. issued' = issued + 1 /\ tokens' \subseteq tokens \union {new}
        BY <4>1 DEF Issue
      <4> HIDE DEF new
      <4> QED BY <1>1, <4>2, <4>3 DEF TokenStep, Browses, history
    <3>2. CASE UNCHANGED <<tokens, issued>>
      BY <1>1, <3>2 DEF TokenStep, Browses, history
    <3> QED BY <1>1, <3>1, <3>2 DEF Browses
  <2>3. Typed'
    <3>1. tokens' \in SUBSET TokenRows /\ issued' \in Nat
      BY <2>2 DEF Typed, TokenStep
    <3> QED BY <1>1, <3>1 DEF Typed, Browses
  <2>4. UndoInv'
    BY <1>1 DEF UndoInv, Undo, Distinct, Browses, history
  <2>5. TokenInv'
    BY <1>1, <2>2, TokensByStep DEF Browses
  <2>6. PageInv'
    BY <1>1, MineStays DEF Browses
  <2>7. Rules
    <3>1. \A t \in tokens : t.fresh => t \in tokens'
      BY <1>1 DEF Browses, Issue
    <3> QED BY <1>1, <3>1 DEF Rules, Browses, Running
  <2>8. page'.busy = Off => page'.busy \notin {"file", "row"}
    BY DEF Off
  <2> QED BY <1>1, <2>3, <2>4, <2>5, <2>6, <2>7, <2>8 DEF Kept, Browses
<1>2. CASE \E c \in Calls : Create(c) \/ RestoreFile(c) \/ RestoreRow(c)
  <2>1. PICK c \in Calls : Create(c) \/ RestoreFile(c) \/ RestoreRow(c)
    BY <1>2
  <2>2. page.busy = Off /\ Begins(c, "page") /\ typing' = typing
    BY <2>1, RequestBegins
  <2>3. PICK what \in {"create", "file", "row"} :
          /\ page' = [page EXCEPT !.busy = what]
          /\ what \in {"file", "row"} => what \in typing
    BY <2>1, RequestBegins
  <2>4. /\ page' \in PageRows /\ page'.busy = what /\ page'.pick = page.pick
        /\ page'.target = page.target /\ page'.text = page.text
    BY <2>3 DEF PageInv, PageOf, PageRows
  <2>5. PageInv'
    <3>1. Mine = {}
      BY <2>2 DEF PageInv
    <3>2. \A d \in Calls \ {c} : (call'[d]).from = call[d].from
      BY <2>2 DEF Begins, StepOf, Beside, Same
    <3>3. Mine' = {c}
      BY <2>2, <3>1, <3>2 DEF Mine, Begins
    <3>4. what # Off
      BY DEF Off
    <3> QED BY <2>2, <2>4, <3>3, <3>4 DEF PageInv, PageOf
  <2>6. StepOf(c) /\ Undo(c)'
    BY <2>2 DEF Begins
  <2> QED BY <2>2, <2>3, <2>4, <2>5, <2>6, UndoByStep, TypedByStep, TokensByStep, RulesOfBegins DEF Kept
<1>3. CASE \E c \in Calls : Answer(c)
  <2>1. PICK c \in Calls : Answer(c)
    BY <1>3
  <2>2. /\ StepOf(c) /\ Undo(c)' /\ UNCHANGED <<tokens, spent, issued, exiting, typing>>
        /\ call[c].from = "page" /\ (call'[c]).from # "page"
        /\ (call'[c]).pc = "off" /\ (call'[c]).token = 0
    BY <2>1, AnswerEnds
  <2>3. TokenStep
    BY <2>2 DEF TokenStep
  <2>4. \A d \in Calls \ {c} : /\ call[d].pc = "off" => (call'[d]).pc = "off"
                               /\ (call'[d]).token = call[d].token
                               /\ (call'[d]).from = call[d].from
    BY <2>2 DEF StepOf, Beside, Same
  <2>5. PageInv'
    <3>1. \A d \in Calls \ {c} : call[d].from # "page"
      BY <2>2 DEF PageInv, Mine
    <3>2. Mine' = {}
      BY <2>2, <2>4, <3>1 DEF Mine
    <3> QED BY <2>1, <3>2, AnswerKeeps DEF PageInv
  <2>6. TokenInv'
    BY <2>2, <2>3, <2>4, TokensByStep
  <2>7. Rules
    BY <2>2, <2>4 DEF Rules, Running
  <2>8. page'.busy = Off
    BY <2>1, AnswerKeeps
  <2> QED BY <2>2, <2>3, <2>5, <2>6, <2>7, <2>8, UndoByStep, TypedByStep DEF Kept, Off
<1> QED BY <1>1, <1>2, <1>3, BrowsingKeeps, OpeningKeeps DEF Buttons

LEMMA OtherSteps ==
  ASSUME Inv, (\E c \in Calls : OtherCalls(c)) \/ (NextServer /\ UNCHANGED screenVars)
  PROVE  Kept
<1> USE DEF Inv
<1>0. page' = page /\ typing' = typing
  BY DEF OtherCalls, screenVars
<1>1. CASE \E c \in Calls : OtherCalls(c)
  <2>1. PICK c \in Calls : OtherCalls(c)
    BY <1>1
  <2>2. PICK from \in {"page", "route"} : from = "route"
    OBVIOUS
  <2>3. Begins(c, from)
    <3>1. CASE \E id \in 1..issued, user \in {Operator, Other}, op \in {"create", "restore"} :
                 WithToken(c, "route", user, op, id)
      BY <2>2, <3>1, TokenBegins
    <3>2. CASE CreateDefault(c, "route") \/ \E p \in Backups \union Safeties : RestoreDefault(c, "route", p)
      BY <2>2, <3>2, DefaultBegins
    <3> QED BY <2>1, <3>1, <3>2 DEF OtherCalls
  <2>4. \A d \in Calls : (call'[d]).from = "page" <=> call[d].from = "page"
    BY <2>2, <2>3 DEF Begins, StepOf, Beside, Same, Typed, Formed
  <2>5. PageInv'
    BY <1>0, <2>4, MineStays DEF PageInv
  <2>6. StepOf(c) /\ Undo(c)'
    BY <2>3 DEF Begins
  <2> QED BY <1>0, <2>3, <2>5, <2>6, UndoByStep, TypedByStep, TokensByStep, RulesOfBegins DEF Kept, Off
<1>2. CASE \E c \in Calls : Serve(c)
  <2>1. PICK c \in Calls : Serve(c)
    BY <1>2
  <2>2. Serves(c) /\ Undo(c)' /\ StepOf(c)
    BY <2>1, ServesUndo DEF UndoInv, Serves
  <2>3. \A d \in Calls : (call'[d]).from = "page" <=> call[d].from = "page"
    BY <2>2 DEF Serves, StepOf, Beside, Same
  <2>4. PageInv'
    BY <1>0, <2>3, MineStays DEF PageInv
  <2> QED BY <1>0, <2>2, <2>4, UndoByStep, TypedByStep, TokensByStep, RulesOfServes DEF Kept, Off
<1>3. CASE ((\E t \in tokens : Expire(t)) \/ Write \/ Tick \/ Exit) /\ UNCHANGED screenVars
  <2>1. Elapses
    BY <1>3, WorldElapses
  <2>2. \A d \in Calls : (call'[d]).from = "page" <=> call[d].from = "page"
    BY <2>1 DEF Elapses, Same
  <2>3. PageInv'
    BY <1>0, <2>2, MineStays DEF PageInv
  <2> QED BY <1>0, <2>1, <2>3, UndoByTime, TypedByTime, TokensByTime, RulesOfTime DEF Kept, Off
<1> QED BY <1>1, <1>2, <1>3 DEF NextServer

-----------------------------------------------------------------------------
(* Theorems *)

LEMMA InvHoldsAtFirst ==
  ASSUME InitScreen
  PROVE  Inv
<1>1. db \in Rows /\ NoData \in Rows
  BY DEF InitScreen, InitBackup, Rows, NoData
<1>2. \A c \in Calls : call[c] = Idle
  BY DEF InitScreen, InitBackup
<1>3. call \in [Calls -> CallRows] /\ \A c \in Calls : Formed(call[c])
  <2>1. call = [c \in Calls |-> Idle]
    BY DEF InitScreen, InitBackup
  <2> HIDE DEF Idle
  <2> QED BY <2>1, IdleRow
<1>4. disk \in [Paths -> DiskFiles]
  <2> DEFINE full == [is |-> "whole", of |-> NoData]
  <2>1. full \in DiskFiles /\ NoFile \in DiskFiles
    BY <1>1 DEF DiskFiles, NoFile
  <2>2. disk = [p \in Paths |-> IF p \in {[label |-> "pnk-backup", at |-> 0], Custom}
                                THEN full ELSE NoFile]
    BY DEF InitScreen, InitBackup
  <2> HIDE DEF full, NoFile
  <2> QED BY <2>1, <2>2
<1>5. Typed
  BY <1>1, <1>3, <1>4, BoundAssumption DEF Typed, InitScreen, InitBackup
<1>6. UndoInv
  BY <1>2, IdleRow DEF UndoInv, Undo, Distinct, Late
<1>7. TokenInv
  <2>1. tokens = {} /\ issued = 0 /\ spent = {}
    BY DEF InitScreen, InitBackup
  <2>2. \A c \in Calls : call[c].token = 0
    BY <1>2, IdleRow
  <2> QED BY <2>1, <2>2 DEF TokenInv
<1>8. PageInv
  <2>1. page = [create |-> Nothing, pick |-> Nothing, target |-> NoPath,
                text |-> NoPath, busy |-> Off, picking |-> Off]
    BY DEF InitScreen
  <2>2. /\ page \in PageRows /\ page.pick = Nothing /\ page.target = NoPath /\ page.busy = Off
    BY <2>1, NothingIsPick DEF PageRows
  <2>3. Mine = {}
    BY <1>2, IdleRow DEF Mine
  <2> QED BY <2>2, <2>3 DEF PageInv, PageOf
<1> QED BY <1>5, <1>6, <1>7, <1>8 DEF Inv

LEMMA InvHoldsOn ==
  ASSUME Inv, [NextScreen]_vars
  PROVE  Inv' /\ (UNCHANGED vars \/ Kept)
<1>1. CASE Buttons
  BY <1>1, PageSteps DEF Kept
<1>2. CASE (\E c \in Calls : OtherCalls(c)) \/ (NextServer /\ UNCHANGED screenVars)
  BY <1>2, OtherSteps DEF Kept
<1>3. CASE UNCHANGED vars
  <2>1. UNCHANGED <<db, disk, tokens, exiting, call, second, issued, written, inputs, reused, spent,
                    page, typing>>
    BY <1>3 DEF vars, backupVars, world, bounds, history, screenVars
  <2>2. Typed' /\ UndoInv'
    BY <2>1 DEF Inv, Typed, UndoInv, Undo, Distinct
  <2>3. TokenInv' /\ PageInv'
    BY <2>1 DEF Inv, TokenInv, PageInv, PageOf, Mine
  <2> QED BY <1>3, <2>2, <2>3 DEF Inv
<1> QED BY <1>1, <1>2, <1>3 DEF NextScreen

LEMMA AlwaysInv == SpecScreen => []Inv
<1>1. InitScreen => Inv
  BY InvHoldsAtFirst
<1>2. Inv /\ [NextScreen]_vars => Inv'
  BY InvHoldsOn
<1> QED BY <1>1, <1>2, PTL DEF SpecScreen

\* While a restore works its safety copy is on disk, whole, with the rows it replaces; and a
\* restore that nobody disturbed ends with the database it was told to restore.
THEOREM RestoresAreSafe == SpecScreen => []RestoreIsSafe
<1>1. Inv => RestoreIsSafe
  BY UndoIsSafe DEF Inv
<1> QED BY <1>1, AlwaysInv, PTL

\* The page never has two requests under way, and it is busy exactly while it has one.
THEOREM PageSendsOne == SpecScreen => []OneAtATime
<1>1. Inv => OneAtATime
  <2> SUFFICES ASSUME Inv PROVE OneAtATime
    OBVIOUS
  <2>1. page.busy = Off <=> Mine = {}
    BY DEF Inv, PageInv
  <2>2. Cardinality(Mine) <= 1
    <3>1. CASE Mine = {}
      BY <3>1, FS_EmptySet
    <3>2. CASE Mine # {}
      <4>1. PICK c \in Mine : TRUE
        BY <3>2
      <4>2. Mine = {c}
        BY <4>1 DEF Inv, PageInv
      <4>3. Cardinality({c}) = 1
        BY FS_Singleton
      <4> QED BY <4>2, <4>3
    <3> QED BY <3>1, <3>2
  <2> QED BY <2>1, <2>2 DEF OneAtATime
<1> QED BY <1>1, AlwaysInv, PTL

\* Tokens are used up by a success alone and for what they were issued for, and a restore
\* of the page is sent only after its name was typed with its dialog open.
THEOREM DestructionIsConfirmed == SpecScreen => UsesAreDeliberate
<1>1. Inv /\ [NextScreen]_vars => [Rules]_backupVars
  BY InvHoldsOn DEF Kept, vars
<1>2. Inv /\ [NextScreen]_vars =>
        [page.busy = Off /\ (page.busy)' \in {"file", "row"} => (page.busy)' \in typing]_vars
  BY InvHoldsOn DEF Kept
<1>3. SpecScreen => [][Rules]_backupVars
  BY <1>1, AlwaysInv, PTL DEF SpecScreen
<1>4. SpecScreen => ConfirmedHere
  BY <1>2, AlwaysInv, PTL DEF SpecScreen, ConfirmedHere
<1> QED BY <1>3, <1>4 DEF UsesAreDeliberate, TokenRules, Rules

-----------------------------------------------------------------------------
(* The launcher: what a step does *)

Fields == {"pw", "pg", "app", "file", "secret"}

\* The parts of the state that exist for every launcher.
Shaped ==
  /\ DOMAIN pc = Launchers
  /\ DOMAIN my = Launchers
  /\ \A l \in Launchers : DOMAIN my[l] = Fields

Unmoved == <<env, cluster, recorded, effects, admin, note, draws, doubled>>

Harmless == {"off", "look", "unstale", "lock", "reclaim", "pid"}
Section == {"settled", "ports", "initdb", "pgstart", "pgwait", "database", "migrate", "apply",
            "admin", "tool", "note", "spawn", "health"}
\* Places where a launcher holds nothing that anybody could disturb.
Plain == (Harmless \union Section) \ {"off", "apply", "tool", "note", "initdb"}

\* A step of l that only moves l, to the end or from one place to a plain one.
Moves(l) ==
  /\ UNCHANGED Unmoved
  /\ DOMAIN my' = Launchers /\ DOMAIN pc' = Launchers
  /\ \A k \in Launchers \ {l} : my'[k] = my[k] /\ pc'[k] = pc[k]
  /\ DOMAIN my'[l] = Fields
  /\ my'[l].pw = my[l].pw /\ my'[l].file = my[l].file /\ my'[l].secret = my[l].secret
  /\ pc[l] \notin {"off", "secrets"} \/ pc'[l] = "off"
  /\ pc'[l] \in Plain \union {"off", "initdb"}
  /\ pc[l] \in Section \/ pc'[l] \notin Section \/ Watch
  /\ broken => broken'

LEMMA MovesQuietly ==
  ASSUME Shaped, NEW l \in Launchers,
         \/ Look(l) \/ Unstale(l) \/ TryLock(l) \/ Reclaim(l) \/ WritePid(l)
         \/ Settled(l) \/ ResolvePorts(l) \/ PgStart(l) \/ PgWait(l) \/ Database(l)
         \/ Spawn(l) \/ Health(l) \/ KillLauncher(l)
  PROVE  Moves(l)
<1> USE DEF Shaped, Moves, Unmoved, Harmless, Section, Plain, Goto, Fail, Mishap, Runs,
            files, database, ghosts
<1>1. CASE Look(l)
  BY <1>1 DEF Look
<1>2. CASE Unstale(l)
  BY <1>2 DEF Unstale
<1>3. CASE TryLock(l)
  BY <1>3 DEF TryLock
<1>4. CASE Reclaim(l)
  BY <1>4 DEF Reclaim
<1>5. CASE WritePid(l)
  BY <1>5 DEF WritePid, Watch
<1>6. CASE Settled(l)
  BY <1>6 DEF Settled
<1>7. CASE ResolvePorts(l)
  <2> DEFINE a == config'.pg
             b == config'.app
  <2>1. \/ my' = [my EXCEPT ![l].pg = a, ![l].app = b] /\ Goto(l, "initdb")
        \/ Fail(l) /\ UNCHANGED my
    BY <1>7 DEF ResolvePorts
  <2>2. UNCHANGED <<Unmoved, broken>> /\ pc[l] = "ports"
    BY <1>7 DEF ResolvePorts
  <2>3. CASE my' = [my EXCEPT ![l].pg = a, ![l].app = b] /\ Goto(l, "initdb")
    <3> DEFINE first == [my EXCEPT ![l].pg = a]
    <3>1. my' = [first EXCEPT ![l].app = b]
      BY <2>3
    <3>2. /\ DOMAIN first = Launchers /\ DOMAIN first[l] = Fields
          /\ \A k \in Launchers \ {l} : first[k] = my[k]
          /\ first[l].pw = my[l].pw /\ first[l].file = my[l].file
          /\ first[l].secret = my[l].secret
      BY DEF Fields
    <3> HIDE DEF first
    <3>3. /\ DOMAIN my' = Launchers /\ DOMAIN my'[l] = Fields
          /\ \A k \in Launchers \ {l} : my'[k] = my[k]
          /\ my'[l].pw = my[l].pw /\ my'[l].file = my[l].file
          /\ my'[l].secret = my[l].secret
      BY <3>1, <3>2 DEF Fields
    <3> QED BY <2>2, <2>3, <3>3
  <2>4. CASE Fail(l) /\ UNCHANGED my
    BY <2>2, <2>4
  <2> QED BY <2>1, <2>3, <2>4
<1>8. CASE PgStart(l)
  BY <1>8 DEF PgStart
<1>9. CASE PgWait(l)
  BY <1>9 DEF PgWait
<1>10. CASE Database(l)
  BY <1>10 DEF Database
<1>11. CASE Spawn(l)
  BY <1>11 DEF Spawn
<1>12. CASE Health(l)
  BY <1>12 DEF Health
<1>13. CASE KillLauncher(l)
  BY <1>13 DEF KillLauncher
<1> QED BY <1>1, <1>2, <1>3, <1>4, <1>5, <1>6, <1>7, <1>8, <1>9, <1>10, <1>11, <1>12, <1>13

\* The launchers are left alone, or they all end.
LEMMA WorldMoves ==
  ASSUME Shaped,
         \/ \E a \in Apps : AppReady(a) \/ AppExits(a)
         \/ \E by \in {"console", "stop"} : End(by)
         \/ EndPg \/ EndFiles \/ PowerOff \/ UNCHANGED launcherVars
  PROVE  /\ UNCHANGED <<Unmoved, my, broken>>
         /\ pc' = pc \/ pc' = [l \in Launchers |-> "off"]
<1> USE DEF Unmoved, files, database, ghosts
<1>1. CASE \E a \in Apps : AppReady(a) \/ AppExits(a)
  BY <1>1 DEF AppReady, AppExits
<1>2. CASE \E by \in {"console", "stop"} : End(by)
  BY <1>2 DEF End
<1>3. CASE EndPg \/ EndFiles \/ PowerOff
  BY <1>3 DEF EndPg, EndFiles, PowerOff
<1>4. CASE UNCHANGED launcherVars
  BY <1>4 DEF launcherVars
<1> QED BY <1>1, <1>2, <1>3, <1>4

\* The steps that write what the invariants are about.
Writes(l) ==
  \/ Launch(l) \/ WriteSecrets(l) \/ InitDb(l) \/ Migrate(l) \/ Apply(l)
  \/ CountUsers(l) \/ Bootstrap(l) \/ WriteNote(l)

World ==
  /\ UNCHANGED <<Unmoved, my, broken>>
  /\ pc' = pc \/ pc' = [l \in Launchers |-> "off"]

LEMMA StepIs ==
  ASSUME Shaped, [NextLauncher]_launcherVars
  PROVE  World \/ \E l \in Launchers : Moves(l) \/ Writes(l)
<1>1. ASSUME NEW l \in Launchers, Launch(l) \/ Step(l) \/ KillLauncher(l)
      PROVE  Moves(l) \/ Writes(l)
  BY <1>1, MovesQuietly DEF Step, Writes
<1> QED BY <1>1, WorldMoves DEF NextLauncher, World

LEMMA ShapedNext ==
  ASSUME Shaped, [NextLauncher]_launcherVars
  PROVE  Shaped'
<1>1. CASE World
  BY <1>1 DEF World, Shaped, Unmoved
<1>2. ASSUME NEW l \in Launchers, Moves(l) PROVE Shaped'
  BY <1>2 DEF Moves, Shaped
<1>3. ASSUME NEW l \in Launchers, Writes(l) PROVE Shaped'
  <2>1. CASE Launch(l)
    BY <2>1 DEF Launch, Shaped, Goto, Fresh, Fields
  <2>2. CASE Migrate(l)
    BY <2>2 DEF Migrate, Shaped, Goto, Fail, Fields
  <2>3. CASE CountUsers(l)
    BY <2>3 DEF CountUsers, Shaped, Goto, Fields
  <2>4. CASE WriteSecrets(l) \/ InitDb(l) \/ Apply(l) \/ Bootstrap(l) \/ WriteNote(l)
    BY <2>4 DEF WriteSecrets, InitDb, Apply, Bootstrap, WriteNote, Shaped, Goto, Fail
  <2> QED BY <1>3, <2>1, <2>2, <2>3, <2>4 DEF Writes
<1> QED BY <1>1, <1>2, <1>3, StepIs

-----------------------------------------------------------------------------
(* Migrations *)

\* A launcher has looked up, or applied, every file before the one it is at.
InOrder ==
  \A l \in Launchers :
    /\ my[l].file \in 1..(Files + 1)
    /\ \A e \in 1..(my[l].file - 1) : e \in recorded
    /\ pc[l] = "apply" => my[l].file \in 1..Files

MigrationsInv ==
  /\ recorded \subseteq 1..Files
  /\ effects \in [1..Files -> Nat]
  /\ InOrder /\ MigrationsOnce

LEMMA MigrationsInvNext ==
  ASSUME Shaped, MigrationsInv, [NextLauncher]_launcherVars
  PROVE  MigrationsInv'
<1> USE LauncherAssumption
<1>1. CASE World
  BY <1>1 DEF World, MigrationsInv, InOrder, MigrationsOnce, Unmoved
<1>2. ASSUME NEW l \in Launchers, Moves(l) PROVE MigrationsInv'
  BY <1>2 DEF Moves, Plain, Harmless, Section, Unmoved, MigrationsInv, InOrder, MigrationsOnce
<1>3. ASSUME NEW l \in Launchers, Launch(l) PROVE MigrationsInv'
  <2>1. UNCHANGED <<recorded, effects>> /\ pc'[l] # "apply" /\ my'[l].file = 1
    BY <1>3 DEF Launch, Shaped, Goto, Fresh, database
  <2>2. \A k \in Launchers \ {l} : my'[k] = my[k] /\ pc'[k] = pc[k]
    BY <1>3 DEF Launch, Shaped, Goto
  <2> QED BY <2>1, <2>2 DEF MigrationsInv, InOrder, MigrationsOnce
<1>4. ASSUME NEW l \in Launchers,
             WriteSecrets(l) \/ InitDb(l) \/ CountUsers(l) \/ Bootstrap(l) \/ WriteNote(l)
      PROVE  MigrationsInv'
  <2>1. /\ UNCHANGED <<recorded, effects>>
        /\ pc'[l] # "apply" /\ my'[l].file = my[l].file
        /\ \A k \in Launchers \ {l} : my'[k] = my[k] /\ pc'[k] = pc[k]
    BY <1>4 DEF WriteSecrets, InitDb, CountUsers, Bootstrap, WriteNote, Shaped, Fields, Goto, Fail,
                database
  <2> QED BY <2>1 DEF MigrationsInv, InOrder, MigrationsOnce
<1>5. ASSUME NEW l \in Launchers, Migrate(l) PROVE MigrationsInv'
  <2>1. /\ UNCHANGED <<recorded, effects>>
        /\ \A k \in Launchers \ {l} : my'[k] = my[k] /\ pc'[k] = pc[k]
    BY <1>5 DEF Migrate, Shaped, Goto, Fail
  <2>2. \/ my' = my /\ pc'[l] # "apply"
        \/ /\ my[l].file <= Files /\ my[l].file \in recorded
           /\ my' = [my EXCEPT ![l].file = @ + 1]
           /\ pc'[l] # "apply"
        \/ my[l].file <= Files /\ my' = my
    BY <1>5 DEF Migrate, Shaped, Goto, Fail, MigrationsInv, InOrder
  <2>3. CASE /\ my[l].file <= Files /\ my[l].file \in recorded
             /\ my' = [my EXCEPT ![l].file = @ + 1]
             /\ pc'[l] # "apply"
    <3>1. my'[l].file = my[l].file + 1
      BY <2>3 DEF Shaped, Fields
    <3> QED BY <2>1, <2>3, <3>1 DEF MigrationsInv, InOrder, MigrationsOnce
  <2>4. CASE \/ my' = my /\ pc'[l] # "apply"
             \/ my[l].file <= Files /\ my' = my
    BY <2>1, <2>4 DEF MigrationsInv, InOrder, MigrationsOnce
  <2> QED BY <2>2, <2>3, <2>4
<1>6. ASSUME NEW l \in Launchers, Apply(l) PROVE MigrationsInv'
  <2>1. my' = my /\ pc[l] = "apply" /\ pc'[l] # "apply"
        /\ \A k \in Launchers \ {l} : pc'[k] = pc[k]
    BY <1>6 DEF Apply, Shaped, Goto, Fail
  <2>2. PICK f \in 1..Files : f = my[l].file /\ \A e \in 1..(f - 1) : e \in recorded
    BY <2>1 DEF MigrationsInv, InOrder
  <2>3. CASE UNCHANGED <<recorded, effects>>
    BY <2>1, <2>3 DEF MigrationsInv, InOrder, MigrationsOnce
  <2>4. CASE /\ f \notin recorded
             /\ effects' = [effects EXCEPT ![f] = @ + 1]
             /\ recorded' = recorded \union {f}
    <3>1. recorded' \subseteq 1..Files /\ effects' \in [1..Files -> Nat]
      BY <2>4 DEF MigrationsInv
    <3>2. InOrder'
      BY <2>1, <2>4 DEF MigrationsInv, InOrder
    <3>3. \A g \in 1..Files : effects'[g] = IF g \in recorded' THEN 1 ELSE 0
      <4>1. effects[f] = 0 /\ effects'[f] = 1
        BY <2>4 DEF MigrationsInv, MigrationsOnce
      <4> QED BY <2>4, <4>1 DEF MigrationsInv, MigrationsOnce
    <3>4. \A g \in recorded' : \A e \in 1..(g - 1) : e \in recorded'
      BY <2>2, <2>4 DEF MigrationsInv, MigrationsOnce
    <3> QED BY <3>1, <3>2, <3>3, <3>4 DEF MigrationsInv, MigrationsOnce
  <2> QED BY <1>6, <2>2, <2>3, <2>4 DEF Apply
<1> QED BY <1>1, <1>2, <1>3, <1>4, <1>5, <1>6, StepIs DEF Writes

\* However launchers overlap, are killed and start again, a migration file takes effect
\* once and in its order, exactly when schema_migrations says so (scripts/migrate.ts).
THEOREM MigrationsRunOnce == SpecLauncher => []MigrationsOnce
<1>1. InitLauncher => Shaped /\ MigrationsInv
  BY LauncherAssumption DEF InitLauncher, Shaped, MigrationsInv, InOrder, MigrationsOnce, Fresh, Fields
<1>2. Shaped /\ MigrationsInv /\ [NextLauncher]_launcherVars => (Shaped /\ MigrationsInv)'
  BY ShapedNext, MigrationsInvNext
<1>3. MigrationsInv => MigrationsOnce
  BY DEF MigrationsInv
<1> QED BY <1>1, <1>2, <1>3, PTL DEF SpecLauncher

-----------------------------------------------------------------------------
(* The password of the cluster *)

\* As long as no two first launches have drawn at once: one launcher at most has a password
\* that is not on disk yet, and then there is neither a file nor a cluster; all others
\* work with the password of the file.
SecretsInv ==
  /\ draws \in Nat
  /\ \A l \in Launchers : pc[l] = "secrets" => my[l].pw # 0
  /\ ~doubled =>
       /\ SecretsFirst
       /\ env = 0 => \A l \in Launchers : pc[l] \in {"off", "secrets"}
       /\ \A l \in Launchers : /\ pc[l] = "secrets" => env = 0
                               /\ pc[l] \notin {"off", "secrets"} => my[l].pw = env
       /\ \A k, l \in Launchers : pc[k] = "secrets" /\ pc[l] = "secrets" => k = l

LEMMA SecretsInvNext ==
  ASSUME Shaped, SecretsInv, [NextLauncher]_launcherVars
  PROVE  SecretsInv'
<1>1. CASE World
  BY <1>1 DEF World, SecretsInv, SecretsFirst, Unmoved
<1>2. ASSUME NEW l \in Launchers, Moves(l) PROVE SecretsInv'
  BY <1>2 DEF Moves, Plain, Harmless, Section, Unmoved, SecretsInv, SecretsFirst
<1>3. ASSUME NEW l \in Launchers, Launch(l) PROVE SecretsInv'
  <2>1. /\ UNCHANGED <<env, cluster>> /\ pc[l] = "off"
        /\ \A k \in Launchers \ {l} : my'[k] = my[k] /\ pc'[k] = pc[k]
    BY <1>3 DEF Launch, Shaped, Goto, database
  <2>2. CASE env # 0
    <3>1. pc'[l] = "look" /\ my'[l].pw = env /\ UNCHANGED <<draws, doubled>>
      BY <1>3, <2>2 DEF Launch, Shaped, Goto, Fresh
    <3> QED BY <2>1, <2>2, <3>1 DEF SecretsInv, SecretsFirst
  <2>3. CASE env = 0
    <3>1. /\ pc'[l] = "secrets" /\ my'[l].pw = draws + 1 /\ draws' = draws + 1
          /\ ~doubled' => ~doubled /\ \A k \in Launchers : pc[k] # "secrets"
      BY <1>3, <2>3 DEF Launch, Shaped, Goto, Fresh
    <3> QED BY <2>1, <2>3, <3>1 DEF SecretsInv, SecretsFirst
  <2> QED BY <2>2, <2>3
<1>4. ASSUME NEW l \in Launchers, WriteSecrets(l) PROVE SecretsInv'
  <2>1. /\ pc[l] = "secrets" /\ pc'[l] = "look" /\ env' = my[l].pw
        /\ UNCHANGED <<cluster, my, draws, doubled>>
        /\ \A k \in Launchers \ {l} : pc'[k] = pc[k]
    BY <1>4 DEF WriteSecrets, Shaped, Goto, database, ghosts
  <2> QED BY <2>1 DEF SecretsInv, SecretsFirst
<1>5. ASSUME NEW l \in Launchers, InitDb(l) PROVE SecretsInv'
  BY <1>5 DEF InitDb, Shaped, Goto, files, ghosts, SecretsInv, SecretsFirst
<1>6. ASSUME NEW l \in Launchers,
             Migrate(l) \/ Apply(l) \/ CountUsers(l) \/ Bootstrap(l) \/ WriteNote(l)
      PROVE  SecretsInv'
  <2>1. /\ UNCHANGED <<env, cluster, doubled>> /\ draws' \in Nat
        /\ pc[l] \notin {"off", "secrets"} /\ pc'[l] # "secrets"
        /\ my'[l].pw = my[l].pw
        /\ \A k \in Launchers \ {l} : my'[k] = my[k] /\ pc'[k] = pc[k]
    BY <1>6 DEF Migrate, Apply, CountUsers, Bootstrap, WriteNote, Shaped, Fields, Goto, Fail,
                files, database, ghosts, SecretsInv
  <2> QED BY <2>1 DEF SecretsInv, SecretsFirst
<1> QED BY <1>1, <1>2, <1>3, <1>4, <1>5, <1>6, StepIs DEF Writes

-----------------------------------------------------------------------------
(* The password of the administrator *)

\* As long as no two launchers have been past the lock at once: who makes the administrator
\* has found none, and notes the password it has made.
AccountInv ==
  /\ draws \in Nat
  /\ ~broken =>
       /\ \A k, l \in Launchers : InSection(k) /\ InSection(l) => k = l
       /\ note # 0 => note = admin
       /\ \A l \in Launchers : /\ pc[l] = "tool" => admin = 0
                               /\ pc[l] = "note" => admin = my[l].secret

LEMMA AccountInvNext ==
  ASSUME Shaped, AccountInv, [NextLauncher]_launcherVars
  PROVE  AccountInv'
<1> USE DEF InSection
<1>1. CASE World
  BY <1>1 DEF World, AccountInv, Unmoved
<1>2. ASSUME NEW l \in Launchers, Moves(l) PROVE AccountInv'
  <2>1. pc'[l] \notin {"tool", "note"} /\ UNCHANGED <<draws, note, admin>>
        /\ \A k \in Launchers \ {l} : my'[k] = my[k] /\ pc'[k] = pc[k]
    BY <1>2 DEF Moves, Plain, Unmoved
  <2>2. ~broken' => \A k, m \in Launchers : InSection(k)' /\ InSection(m)' => k = m
    BY <1>2 DEF Moves, Section, Watch, AccountInv
  <2>3. broken => broken'
    BY <1>2 DEF Moves
  <2> QED BY <2>1, <2>2, <2>3 DEF AccountInv
<1>3. ASSUME NEW l \in Launchers, Launch(l) \/ WriteSecrets(l) PROVE AccountInv'
  <2>1. /\ UNCHANGED <<note, admin, broken>> /\ pc'[l] \in {"look", "secrets"} /\ draws' \in Nat
        /\ \A k \in Launchers \ {l} : my'[k] = my[k] /\ pc'[k] = pc[k]
    BY <1>3 DEF Launch, WriteSecrets, Shaped, Goto, database, ghosts, AccountInv
  <2> QED BY <2>1 DEF AccountInv
<1>4. ASSUME NEW l \in Launchers, InitDb(l) \/ Migrate(l) \/ Apply(l) PROVE AccountInv'
  <2>1. /\ UNCHANGED <<note, admin, broken, draws>> /\ InSection(l)
        /\ pc'[l] \notin {"tool", "note"}
        /\ \A k \in Launchers \ {l} : my'[k] = my[k] /\ pc'[k] = pc[k]
    BY <1>4 DEF InitDb, Migrate, Apply, Shaped, Goto, Fail, files, database, ghosts
  <2> QED BY <2>1 DEF AccountInv
<1>5. ASSUME NEW l \in Launchers, CountUsers(l) PROVE AccountInv'
  <2>1. /\ UNCHANGED <<note, admin, broken>> /\ InSection(l) /\ draws' \in Nat
        /\ pc'[l] \in {"tool", "spawn"} /\ (pc'[l] = "tool" => admin = 0)
        /\ \A k \in Launchers \ {l} : my'[k] = my[k] /\ pc'[k] = pc[k]
    BY <1>5 DEF CountUsers, Shaped, Goto, files, database, AccountInv
  <2> QED BY <2>1 DEF AccountInv
<1>6. ASSUME NEW l \in Launchers, Bootstrap(l) PROVE AccountInv'
  <2>1. /\ UNCHANGED <<note, broken, draws, my>> /\ pc[l] = "tool"
        /\ \A k \in Launchers \ {l} : pc'[k] = pc[k]
        /\ \/ pc'[l] = "off" /\ admin' = admin
           \/ pc'[l] = "note" /\ admin' = IF admin = 0 THEN my[l].secret ELSE admin
    BY <1>6 DEF Bootstrap, Shaped, Goto, Fail, ghosts
  <2> QED BY <2>1 DEF AccountInv
<1>7. ASSUME NEW l \in Launchers, WriteNote(l) PROVE AccountInv'
  <2>1. /\ UNCHANGED <<admin, broken, draws, my>> /\ pc[l] = "note" /\ pc'[l] = "spawn"
        /\ note' = my[l].secret
        /\ \A k \in Launchers \ {l} : pc'[k] = pc[k]
    BY <1>7 DEF WriteNote, Shaped, Goto, database, ghosts
  <2> QED BY <2>1 DEF AccountInv
<1> QED BY <1>1, <1>2, <1>3, <1>4, <1>5, <1>6, <1>7, StepIs DEF Writes

\* Wherever launchers are killed: .env opens the cluster unless two first launches drew at the
\* same time, and the password left for the operator is the administrator's unless two
\* launchers were past the lock at the same time (ensureSecrets, bootstrapInitialAdmin).
THEOREM SecretsAreKept == SpecLauncher => []SecretsKept
<1>1. InitLauncher => Shaped /\ SecretsInv /\ AccountInv
  BY DEF InitLauncher, Shaped, SecretsInv, SecretsFirst, AccountInv, InSection, Fresh, Fields
<1>2. Shaped /\ SecretsInv /\ AccountInv /\ [NextLauncher]_launcherVars
        => (Shaped /\ SecretsInv /\ AccountInv)'
  BY ShapedNext, SecretsInvNext, AccountInvNext
<1>3. SecretsInv /\ AccountInv => SecretsKept
  BY DEF SecretsInv, AccountInv, SecretsKept, SecretsFirst, NoteOpensAccount
<1> QED BY <1>1, <1>2, <1>3, PTL DEF SpecLauncher
=============================================================================
