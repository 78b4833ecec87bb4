----------------------------------- MODULE Backup -----------------------------------
(***************************************************************************)
(* Backup and restore on the server (backup.service.ts): pg_dump into the  *)
(* backups folder or to a place picked in a native dialog, and pg_restore  *)
(* over the database of the running application.                           *)
(*                                                                         *)
(* pg_dump, pg_restore and the native dialogs are processes of their own;  *)
(* every one of them is awaited, so calls overlap, the application writes  *)
(* on while a restore runs, and the restart after one ends them all.       *)
(***************************************************************************)
EXTENDS Naturals, FiniteSets

CONSTANTS
  Calls,        \* server calls, each served once
  Picked,       \* the path picked in the dialogs, outside the backups folder
  MaxSecond,    \* bound: the clock, in seconds
  MaxInputs     \* bound: what happens from outside, of any kind: dialogs that are opened,
                \* calls of others, writes, faults, ticks, times that run out

ASSUME PickedAssumption == Picked \notin {"pnk-backup", "pre-restore"}
ASSUME BoundAssumption == MaxSecond \in Nat \ {0}

VARIABLES
  db,           \* the database, in two parts; its audit rows are left out
  disk,         \* the dump files
  tokens,       \* pickTokens
  call,         \* of each call: where it is and what it works on
  exiting,      \* scheduleAppRestart has been called
  second, issued, written, inputs,      \* the clock, two counters and the bound
  reused,       \* history: dumps that fell into the second of another of their name
  spent         \* history: tokens that have led to a success

world == <<db, disk, tokens, exiting>>
bounds == <<second, issued, written, inputs>>
history == <<reused, spent>>
backupVars == <<world, call, bounds, history>>

Backups == [label : {"pnk-backup"}, at : 0..MaxSecond]
Safeties == [label : {"pre-restore"}, at : 1..MaxSecond]
Custom == [label |-> Picked, at |-> 0]
Paths == Backups \union Safeties \union {Custom}
NoPath == [label |-> "", at |-> 0]

NoData == [some |-> 0, rest |-> 0]
NoFile == [is |-> "none", of |-> NoData]
NoToken == 0
Idle == [pc |-> "off", op |-> "", from |-> "", by |-> "", token |-> NoToken, path |-> NoPath,
         safety |-> NoPath, found |-> NoData, held |-> NoData, before |-> NoData, alone |-> FALSE, disturbed |-> FALSE]

Running(c) == call[c].pc \notin {"off", "ok", "failed", "lost"}
Restores(c) == call[c].op = "restore" /\ Running(c)
Input == inputs < MaxInputs /\ inputs' = inputs + 1
Fault == Input
Spare == UNCHANGED inputs

InitBackup ==
  /\ db = [some |-> 1, rest |-> 1]
  /\ disk = [p \in Paths |-> IF p \in {[label |-> "pnk-backup", at |-> 0], Custom}
                             THEN [is |-> "whole", of |-> NoData] ELSE NoFile]
  /\ tokens = {} /\ call = [c \in Calls |-> Idle]
  /\ exiting = FALSE
  /\ second = 1 /\ issued = 0 /\ written = 1 /\ inputs = 0
  /\ reused = FALSE /\ spent = {}

\* inspectBackupFile, validateBackupIntegrity: the table of contents can be listed, which
\* it can be in a file that was cut off, too.
Listable(p) == disk[p].is # "none"

Update(c, f) == call' = [call EXCEPT ![c] = f]
To(c, where) == [call[c] EXCEPT !.pc = where]
Dumping(r, data, copy) == [r EXCEPT !.pc = "dumping", !.held = data, !.safety = copy]
Restoring(r, data, target) == [r EXCEPT !.pc = "restoring", !.before = data, !.found = target]

\* The answer is kept for the page; a call of the routes is over.
Done(c, how) == IF call[c].from = "page" THEN [Idle EXCEPT !.pc = how, !.from = "page"] ELSE Idle

\* Another call, or a write, changes what call c relies on.
Disturb(c) == [d \in Calls |-> IF d # c /\ Running(d) THEN [call[d] EXCEPT !.disturbed = TRUE] ELSE call[d]]

-----------------------------------------------------------------------------
(* Pick tokens *)

\* issuePickToken: tokens whose time has run out are dropped on the way.
Issue(user, kind, path) ==
  /\ issued' = issued + 1
  /\ tokens' = {t \in tokens : t.fresh}
                 \union {[id |-> issued + 1, by |-> user, kind |-> kind, path |-> path, fresh |-> TRUE]}

Expire(t) ==
  /\ t \in tokens /\ t.fresh /\ Input
  /\ tokens' = (tokens \ {t}) \union {[t EXCEPT !.fresh = FALSE]}
  /\ UNCHANGED <<db, disk, exiting, call, second, issued, written, history>>

\* Mutant: the kind of the token is not compared.
Resolvable_AnyKind(id, user, kind) == {t \in tokens : t.id = id /\ t.fresh /\ t.by = user}

\* resolvePickToken
Resolvable(id, user, kind) == {t \in tokens : t.id = id /\ t.fresh /\ t.by = user /\ t.kind = kind}

\* Mutant: a token serves until its time has run out.
Consume_Never(id) == UNCHANGED tokens

\* consumePickToken, after a success.
Consume(id) == tokens' = {t \in tokens : t.id # id}

-----------------------------------------------------------------------------
(* The start of a call *)

Entered(from, user, op, id, path) ==
  [Idle EXCEPT !.pc = IF op = "create" THEN "dump" ELSE "check",
               !.op = op, !.from = from, !.by = user, !.token = id, !.path = path]
Enter(c, from, user, op, id, path) == Update(c, Entered(from, user, op, id, path))

\* createBackup without a token: the name carries the second.
CreateDefault(c, from) ==
  /\ call[c].pc = "off"
  /\ Enter(c, from, "", "create", NoToken, [label |-> "pnk-backup", at |-> second])
  /\ UNCHANGED <<world, second, issued, written, history>>

\* restoreBackup; the typed confirmation has been compared with the name.
RestoreDefault(c, from, path) ==
  /\ call[c].pc = "off"
  /\ path # Custom /\ disk[path].is # "none"
  /\ Enter(c, from, "", "restore", NoToken, path)
  /\ UNCHANGED <<world, second, issued, written, history>>

\* createBackup and restoreFromFile with the token of a dialog.
WithToken(c, from, user, op, id) ==
  /\ call[c].pc = "off"
  /\ LET found == Resolvable(id, user, IF op = "create" THEN "destination" ELSE "file") IN
     IF found # {}
     THEN \E t \in found : Enter(c, from, user, op, id, t.path) /\ UNCHANGED tokens
     ELSE /\ Update(c, IF from = "page" THEN [Idle EXCEPT !.pc = "failed", !.from = from] ELSE Idle)
          /\ tokens' = {t \in tokens : t.id # id \/ t.fresh}
  /\ UNCHANGED <<db, disk, exiting, second, issued, written, history>>

-----------------------------------------------------------------------------
(* pg_dump *)

\* The file that call c dumps to now: its own, or the safety copy of a restore.
Target(c) == IF call[c].op = "create" THEN call[c].path ELSE call[c].safety

\* pg_dump takes its snapshot and truncates the file.
DumpStarts(c) ==
  /\ call[c].pc \in {"dump", "safety"}
  /\ LET file == IF call[c].pc = "dump" THEN call[c].path
                 ELSE [label |-> "pre-restore", at |-> second]
     IN /\ reused' = (reused \/ (file # Custom /\ disk[file].is # "none"))
        /\ disk' = [disk EXCEPT ![file] = [is |-> "cut", of |-> db]]
        /\ call' = [Disturb(c) EXCEPT
             ![c] = Dumping(call[c], db, IF call[c].op = "restore" THEN file ELSE NoPath)]
  /\ UNCHANGED <<db, tokens, exiting, bounds, spent>>

\* The folder that was picked is no longer there.
NoFolder(c) ==
  /\ call[c].pc = "dump" /\ call[c].path = Custom /\ Fault
  /\ Update(c, To(c, "fail"))
  /\ UNCHANGED <<world, second, issued, written, history>>

\* Mutant: a restore goes on when its safety copy has failed.
DumpEnds_Optional(c) ==
  /\ call[c].pc = "dumping"
  /\ \/ /\ disk' = [disk EXCEPT ![Target(c)] = [is |-> "whole", of |-> call[c].held]]
        /\ Update(c, IF call[c].alone THEN Done(c, "lost") ELSE To(c, "dumped"))
        /\ Spare
     \/ /\ Fault
        /\ Update(c, CASE call[c].alone -> Done(c, "lost")
                       [] call[c].op = "restore" -> To(c, "dumped") [] OTHER -> To(c, "fail"))
        /\ UNCHANGED disk
  /\ UNCHANGED <<db, tokens, exiting, second, issued, written, history>>

\* The dump is complete, or its tool has failed and left what it had written.
DumpEnds(c) ==
  /\ call[c].pc = "dumping"
  /\ \/ /\ disk' = [disk EXCEPT ![Target(c)] = [is |-> "whole", of |-> call[c].held]]
        /\ Update(c, IF call[c].alone THEN Done(c, "lost") ELSE To(c, "dumped"))
        /\ Spare
     \/ /\ Fault
        /\ Update(c, IF call[c].alone THEN Done(c, "lost") ELSE To(c, "fail"))
        /\ UNCHANGED disk
  /\ UNCHANGED <<db, tokens, exiting, second, issued, written, history>>

\* Validated with pg_restore --list: a backup is done, a restore begins.
Dumped(c) ==
  /\ call[c].pc = "dumped"
  /\ IF call[c].op = "create"
     THEN /\ Update(c, Done(c, "ok"))
          /\ Consume(call[c].token)
          /\ spent' = spent \union {call[c].token}
     ELSE /\ Update(c, To(c, "drop"))
          /\ UNCHANGED <<tokens, spent>>
  /\ UNCHANGED <<db, disk, exiting, bounds, reused>>

-----------------------------------------------------------------------------
(* pg_restore *)

\* assertRestoreTarget and validateBackupIntegrity
Check(c) ==
  /\ call[c].pc = "check"
  /\ Update(c, To(c, IF Listable(call[c].path) THEN "safety" ELSE "fail"))
  /\ UNCHANGED <<world, bounds, history>>

\* --clean: objects are dropped and recreated one by one, outside a transaction.
RestoreStarts(c) ==
  /\ call[c].pc = "drop"
  /\ db' = [db EXCEPT !.some = disk[call[c].path].of.some]
  /\ call' = [Disturb(c) EXCEPT ![c] = Restoring(call[c], db, disk[call[c].path].of)]
  /\ UNCHANGED <<disk, tokens, exiting, bounds, history>>

\* Mutant: the exit code of pg_restore is ignored.
RestoreEnds_Ignored(c) ==
  /\ call[c].pc = "restoring"
  /\ \/ /\ disk[call[c].path].is = "whole"
        /\ db' = [db EXCEPT !.rest = call[c].found.rest]
        /\ Spare
     \/ /\ disk[call[c].path].is # "whole" /\ Spare /\ UNCHANGED db
     \/ /\ Fault /\ UNCHANGED db
  /\ call' = [Disturb(c) EXCEPT ![c] = IF call[c].alone THEN Done(c, "lost") ELSE To(c, "verify")]
  /\ UNCHANGED <<disk, tokens, exiting, second, issued, written, history>>

\* It comes to the end of the archive, or fails: the file is cut off, an object is in use.
RestoreEnds(c) ==
  /\ call[c].pc = "restoring"
  /\ \/ /\ disk[call[c].path].is = "whole"
        /\ db' = [db EXCEPT !.rest = call[c].found.rest]
        /\ call' = [Disturb(c) EXCEPT ![c] = IF call[c].alone THEN Done(c, "lost") ELSE To(c, "verify")]
        /\ Spare
     \/ /\ IF disk[call[c].path].is = "whole" THEN Fault ELSE Spare
        /\ call' = [Disturb(c) EXCEPT ![c] = IF call[c].alone THEN Done(c, "lost") ELSE To(c, "fail")]
        /\ UNCHANGED db
  /\ UNCHANGED <<disk, tokens, exiting, second, issued, written, history>>

\* verifyRestoredDatabase, closeDbClient, and the restart is scheduled.
Restored(c) ==
  /\ call[c].pc = "verify"
  /\ Update(c, Done(c, "ok"))
  /\ Consume(call[c].token)
  /\ spent' = spent \union {call[c].token}
  /\ exiting' = TRUE
  /\ UNCHANGED <<db, disk, bounds, reused>>

\* The error is recorded, if that is possible, and thrown on.
Failed(c) ==
  /\ call[c].pc = "fail"
  /\ Update(c, Done(c, "failed"))
  /\ UNCHANGED <<world, bounds, history>>

-----------------------------------------------------------------------------
(* The rest of the world *)

\* The application goes on serving.
Write ==
  /\ Input /\ written' = written + 1
  /\ db' = [some |-> written + 1, rest |-> written + 1]
  /\ call' = [c \in Calls |-> IF Running(c) THEN [call[c] EXCEPT !.disturbed = TRUE] ELSE call[c]]
  /\ UNCHANGED <<disk, tokens, exiting, second, issued, history>>

Tick ==
  /\ second < MaxSecond /\ Input
  /\ second' = second + 1
  /\ UNCHANGED <<world, call, issued, written, history>>

\* Three seconds after a restore the process exits: its tools finish alone, the calls and
\* the tokens are gone.
Exit ==
  /\ exiting /\ exiting' = FALSE
  /\ tokens' = {}
  /\ call' = [c \in Calls |->
       IF call[c].pc \in {"dumping", "restoring"} THEN [call[c] EXCEPT !.alone = TRUE]
       ELSE IF Running(c) THEN Done(c, "lost") ELSE call[c]]
  /\ UNCHANGED <<db, disk, bounds, history>>

Serve(c) ==
  \/ DumpStarts(c) \/ NoFolder(c) \/ DumpEnds(c) \/ Dumped(c) \/ Check(c)
  \/ RestoreStarts(c) \/ RestoreEnds(c) \/ Restored(c) \/ Failed(c)

NextServer ==
  \/ \E c \in Calls : Serve(c)
  \/ \E t \in tokens : Expire(t)
  \/ Write \/ Tick \/ Exit

-----------------------------------------------------------------------------
(* Properties *)

\* Guard 4: from the moment a restore drops the first object, its safety copy is in the
\* backups folder, whole, and holds the rows that are being replaced unless somebody has
\* changed them since; and unless a dump of the same second has taken the name of another.
UndoExists ==
  \A c \in Calls : call[c].op = "restore" /\ call[c].pc \in {"restoring", "verify"} /\ ~reused =>
    /\ disk[call[c].safety] = [is |-> "whole", of |-> call[c].held]
    /\ ~call[c].disturbed => call[c].held = call[c].before

\* A restore that was left alone and reports success has replaced the whole database:
\* the one it was told to restore, and not a mixture of two.
SuccessIsWhole ==
  \A c \in Calls : call[c].pc = "verify" /\ ~call[c].disturbed => db = call[c].found

\* "It is consumed only when the operation SUCCEEDS": a token that is still good is taken
\* away by nothing but a success with it and the end of the process; once it has been
\* successful no operation starts with it; and what starts is what was picked for: a file
\* chosen to be restored is never dumped over.
TokenRules ==
  [][ /\ \A t \in tokens : t.fresh /\ (\A u \in tokens' : u.id # t.id) => t.id \in spent' \/ exiting
      /\ \A c \in Calls : call[c].pc = "off" /\ Running(c)' /\ (call[c].token)' # NoToken =>
           /\ (call[c].token)' \notin spent
           /\ \E t \in tokens : /\ t.id = (call[c].token)' /\ t.by = (call[c].by)'
                                /\ t.kind = IF (call[c].op)' = "create" THEN "destination" ELSE "file"
    ]_backupVars

\* A restore can be undone until it is known to be whole.
RestoreIsSafe == UndoExists /\ SuccessIsWhole
=============================================================================
