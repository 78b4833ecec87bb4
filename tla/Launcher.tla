---------------------------------- MODULE Launcher ----------------------------------
(***************************************************************************)
(* The launcher of the packaged application (launcher/launcher.mjs): every *)
(* double click is a process of its own that finds or makes the secrets,   *)
(* takes the start lock, brings up PostgreSQL, the schema, the first       *)
(* administrator and the application, and then holds the console.          *)
(*                                                                         *)
(* Launchers share nothing but files, ports and processes.  One step is    *)
(* one file operation, child process or await; launchers overlap, `stop`   *)
(* runs beside them, and any process may be killed between two steps.      *)
(***************************************************************************)
EXTENDS Naturals, FiniteSets, FiniteSetsExt

CONSTANTS
  Launchers,
  Patient,      \* the launcher started again and again; the others MaxStarts times
  PgPorts, AppPorts,   \* ports in the order they are tried
  Files,        \* the number of migration files
  MaxStarts,    \* bound: starts of the other launchers
  MaxFaults     \* bound: kills, exits, stops, timeouts

ASSUME LauncherAssumption ==
  /\ Patient \in Launchers
  /\ PgPorts \subseteq Nat \ {0} /\ AppPorts \subseteq Nat \ {0}
  /\ Files \in Nat /\ MaxStarts \in Nat /\ MaxFaults \in Nat

VARIABLES
  \* files of the data folder
  env,          \* the database password of .env; 0 when there is none
  lock,         \* run/launcher.lock: who made it and whether the pid is in it
  appPid,
  config,       \* config.json: the ports; 0 when there is none
  note,         \* the password in FIRST-RUN-ADMIN-PASSWORD.txt
  \* the cluster
  cluster,      \* the password it was made with; 0 before initdb
  pg,           \* the port of the postmaster; 0 when it does not run
  recorded,     \* schema_migrations
  effects,      \* how often the statements of a file have been run
  admin,        \* the password of the first administrator
  \* processes
  apps,         \* of the application: [up, port, pg, pw]; port 0 when dead
  pc, my,       \* of the launchers
  console,      \* a launcher holds a console
  ending,       \* who shuts everything down, a console or the stop command
  \* history and bounds
  draws, doubled, broken, starts, faults

files == <<env, lock, appPid, config, note>>
database == <<cluster, pg, recorded, effects, admin>>
ghosts == <<draws, doubled, broken, starts, faults>>
launcherVars == <<files, database, apps, pc, my, console, ending, ghosts>>

Nobody == "nobody"
NoLock == [by |-> Nobody, written |-> FALSE]
Dead == [up |-> FALSE, port |-> 0, pg |-> 0, pw |-> 0]
Fresh == [pw |-> 0, pg |-> 0, app |-> 0, file |-> 1, secret |-> 0]
Apps == AppPorts \union {Max(AppPorts) + 1}     \* one process more than there are ports

Alive(a) == a # 0 /\ apps[a].port # 0
Runs(l) == l # Nobody /\ pc[l] # "off"

\* GET /api/health: the application answers and reaches its database.
Healthy(port) ==
  \E a \in Apps : /\ apps[a].up /\ apps[a].port = port
                  /\ pg # 0 /\ apps[a].pg = pg /\ apps[a].pw = cluster

\* currentState and healthOk
AlreadyRunning == Alive(appPid) /\ config.app # 0 /\ Healthy(config.app)

InSection(l) ==
  pc[l] \in {"settled", "ports", "initdb", "pgstart", "pgwait", "database", "migrate", "apply",
             "admin", "tool", "note", "spawn", "health"}

InitLauncher ==
  /\ \E installed \in BOOLEAN :
       LET pw == IF installed THEN 1 ELSE 0 IN
       /\ env = pw /\ cluster = pw /\ admin = pw /\ draws = pw
       /\ recorded = IF installed THEN 1..Files ELSE {}
       /\ effects = [f \in 1..Files |-> pw]
       /\ config = IF installed THEN [pg |-> Min(PgPorts), app |-> Min(AppPorts)]
                   ELSE [pg |-> 0, app |-> 0]
  /\ lock = NoLock /\ appPid = 0 /\ note = 0
  /\ pg = 0
  /\ apps = [a \in Apps |-> Dead]
  /\ pc = [l \in Launchers |-> "off"]
  /\ my = [l \in Launchers |-> Fresh]
  /\ console = FALSE /\ ending = "off"
  /\ doubled = FALSE /\ broken = FALSE
  /\ \E alone \in BOOLEAN :       \* bound: with more launchers a fault less
       /\ starts = IF alone THEN MaxStarts ELSE 0
       /\ faults = IF alone THEN 0 ELSE 1

Goto(l, where) == pc' = [pc EXCEPT ![l] = where]

\* Two launchers are past the lock at the same time.
Watch == broken' = (broken \/ \E k, l \in Launchers : k # l /\ InSection(k)' /\ InSection(l)')

Mishap == faults < MaxFaults /\ faults' = faults + 1

-----------------------------------------------------------------------------
(* Secrets and the look without the lock *)

\* A double click; ensureSecrets reads .env.
Launch(l) ==
  /\ pc[l] = "off"
  /\ l # Patient => starts < MaxStarts
  /\ starts' = IF l = Patient THEN starts ELSE starts + 1
  /\ lock' = IF lock.by = l THEN [lock EXCEPT !.by = Nobody] ELSE lock    \* a new process, a new pid
  /\ IF env # 0
     THEN /\ my' = [my EXCEPT ![l] = [Fresh EXCEPT !.pw = env]]
          /\ Goto(l, "look")
          /\ UNCHANGED <<draws, doubled>>
     ELSE /\ draws' = draws + 1
          /\ my' = [my EXCEPT ![l] = [Fresh EXCEPT !.pw = draws + 1]]
          /\ doubled' = (doubled \/ \E k \in Launchers : pc[k] = "secrets")
          /\ Goto(l, "secrets")
  /\ UNCHANGED <<env, appPid, config, note, database, apps, console, ending, broken, faults>>

\* Mutant: the secrets are written when the cluster has been made.
WriteSecrets_Late(l) ==
  /\ pc[l] = "secrets"
  /\ env' = IF cluster # 0 THEN my[l].pw ELSE env
  /\ Goto(l, "look")
  /\ UNCHANGED <<lock, appPid, config, note, database, apps, my, console, ending, ghosts>>

WriteSecrets(l) ==
  /\ pc[l] = "secrets"
  /\ env' = my[l].pw
  /\ Goto(l, "look")
  /\ UNCHANGED <<lock, appPid, config, note, database, apps, my, console, ending, ghosts>>

\* Already running: surface it.  A pid of nobody is removed, a step later.
Look(l) ==
  /\ pc[l] = "look"
  /\ Goto(l, CASE AlreadyRunning -> "off"
               [] appPid # 0 /\ ~Alive(appPid) -> "unstale"
               [] OTHER -> "lock")
  /\ UNCHANGED <<files, database, apps, my, console, ending, ghosts>>

Unstale(l) ==
  /\ pc[l] = "unstale"
  /\ appPid' = 0
  /\ Goto(l, "lock")
  /\ UNCHANGED <<env, lock, config, note, database, apps, my, console, ending, ghosts>>

-----------------------------------------------------------------------------
(* acquireStartLock *)

\* openSync "wx"; or the holder is read from the file that is there.
TryLock(l) ==
  /\ pc[l] = "lock"
  /\ IF lock = NoLock
     THEN /\ lock' = [by |-> l, written |-> FALSE]
          /\ Goto(l, "pid")
          /\ UNCHANGED faults
     ELSE /\ IF lock.written /\ Runs(lock.by)
             THEN Mishap /\ Goto(l, "off")       \* waited for a minute
             ELSE UNCHANGED faults /\ Goto(l, "reclaim")
          /\ UNCHANGED lock
  /\ UNCHANGED <<env, appPid, config, note, database, apps, my, console, ending, draws, doubled,
                 broken, starts>>

\* Mutant: a stale lock is never taken away.
Reclaim_Never(l) ==
  /\ pc[l] = "reclaim"
  /\ Goto(l, "lock")
  /\ UNCHANGED <<files, database, apps, my, console, ending, ghosts>>

\* Stale when it was read: removed, whosever it has become.
Reclaim(l) ==
  /\ pc[l] = "reclaim"
  /\ lock' = NoLock
  /\ Goto(l, "lock")
  /\ UNCHANGED <<env, appPid, config, note, database, apps, my, console, ending, ghosts>>

\* The pid is written through the descriptor: into the lock, if it is still this one.
WritePid(l) ==
  /\ pc[l] = "pid"
  /\ lock' = IF lock.by = l THEN [lock EXCEPT !.written = TRUE] ELSE lock
  /\ Goto(l, "settled")
  /\ Watch
  /\ UNCHANGED <<env, appPid, config, note, database, apps, my, console, ending, draws, doubled,
                 starts, faults>>

Released(l) == IF lock.by = l /\ lock.written THEN NoLock ELSE lock

-----------------------------------------------------------------------------
(* Under the lock *)

Settled(l) ==
  /\ pc[l] = "settled"
  /\ Goto(l, IF AlreadyRunning THEN "off" ELSE "ports")
  /\ lock' = IF AlreadyRunning THEN Released(l) ELSE lock
  /\ UNCHANGED <<env, appPid, config, note, database, apps, my, console, ending, ghosts>>

PgFree(p) == pg # p
AppFree(p) == \A a \in Apps : apps[a].port # p

\* The catch of cmdStart: whatever runs on our data directory is stopped.
Fail(l) ==
  /\ lock' = Released(l)
  /\ pg' = 0
  /\ Goto(l, "off")

\* resolvePorts: the ports of config.json while they are free, else the first ones free.
ResolvePorts(l) ==
  /\ pc[l] = "ports"
  /\ LET Pick(Free(_), saved, ports) ==
           IF saved # 0 /\ Free(saved) THEN saved ELSE Min({p \in ports : Free(p)})
         chosen == [pg |-> Pick(PgFree, config.pg, PgPorts), app |-> Pick(AppFree, config.app, AppPorts)]
     IN IF \E p \in AppPorts : AppFree(p)
        THEN /\ config' = chosen
             /\ my' = [my EXCEPT ![l].pg = chosen.pg, ![l].app = chosen.app]
             /\ Goto(l, "initdb")
             /\ UNCHANGED <<lock, pg>>
        ELSE Fail(l) /\ UNCHANGED <<config, my>>
  /\ UNCHANGED <<env, appPid, note, cluster, recorded, effects, admin, apps, console, ending, ghosts>>

InitDb(l) ==
  /\ pc[l] = "initdb"
  /\ cluster' = IF cluster = 0 THEN my[l].pw ELSE cluster
  /\ Goto(l, "pgstart")
  /\ UNCHANGED <<files, pg, recorded, effects, admin, apps, my, console, ending, ghosts>>

\* pg.start: nothing to do for a postmaster that runs, on whatever port.
PgStart(l) ==
  /\ pc[l] = "pgstart"
  /\ pg' = IF pg = 0 THEN my[l].pg ELSE pg
  /\ Goto(l, "pgwait")
  /\ UNCHANGED <<files, cluster, recorded, effects, admin, apps, my, console, ending, ghosts>>

Ready(l) == pg = my[l].pg
Knows(l) == Ready(l) /\ cluster = my[l].pw

\* waitUntilReady
PgWait(l) ==
  /\ pc[l] = "pgwait"
  /\ IF Ready(l) THEN Goto(l, "database") /\ UNCHANGED <<lock, pg>> ELSE Fail(l)
  /\ UNCHANGED <<env, appPid, config, note, cluster, recorded, effects, admin, apps, my, console, ending, ghosts>>

\* databaseExists, createDatabase, and the migration tool is started.
Database(l) ==
  /\ pc[l] = "database"
  /\ IF Knows(l) THEN Goto(l, "migrate") /\ UNCHANGED <<lock, pg>> ELSE Fail(l)
  /\ UNCHANGED <<env, appPid, config, note, cluster, recorded, effects, admin, apps, my, console, ending, ghosts>>

\* scripts/migrate.ts: has the next file been applied?
Migrate(l) ==
  /\ pc[l] = "migrate"
  /\ IF ~Knows(l) THEN Fail(l) /\ UNCHANGED my
     ELSE /\ UNCHANGED <<lock, pg>>
          /\ CASE my[l].file > Files -> Goto(l, "admin") /\ UNCHANGED my
               [] my[l].file \in recorded -> my' = [my EXCEPT ![l].file = @ + 1] /\ UNCHANGED pc
               [] OTHER -> Goto(l, "apply") /\ UNCHANGED my
  /\ UNCHANGED <<env, appPid, config, note, cluster, recorded, effects, admin, apps, console, ending, ghosts>>

\* Mutant: the file is recorded after its transaction, and may already be there.
Apply_RecordedLater(l) ==
  /\ pc[l] = "apply"
  /\ IF ~Knows(l) THEN Fail(l) /\ UNCHANGED <<recorded, effects, my>>
     ELSE /\ effects' = [effects EXCEPT ![my[l].file] = IF @ > 1 THEN @ ELSE @ + 1]
          /\ \/ recorded' = recorded \union {my[l].file}
             \/ UNCHANGED recorded
          /\ Goto(l, "migrate")
          /\ UNCHANGED <<my, lock, pg>>
  /\ UNCHANGED <<env, appPid, config, note, cluster, admin, apps, console, ending, ghosts>>

\* The statements of a file and its record, in one transaction; a record that is there
\* already ends the tool.
Apply(l) ==
  /\ pc[l] = "apply"
  /\ IF ~Knows(l) \/ my[l].file \in recorded
     THEN Fail(l) /\ UNCHANGED <<recorded, effects, my>>
     ELSE /\ effects' = [effects EXCEPT ![my[l].file] = @ + 1]
          /\ recorded' = recorded \union {my[l].file}
          /\ Goto(l, "migrate")
          /\ UNCHANGED <<my, lock, pg>>
  /\ UNCHANGED <<env, appPid, config, note, cluster, admin, apps, console, ending, ghosts>>

-----------------------------------------------------------------------------
(* The first administrator *)

\* Mutant: the tool is left to find out whether there are users.
CountUsers_Not(l) ==
  /\ pc[l] = "admin"
  /\ IF Knows(l) /\ (admin = 0 \/ note = 0)
     THEN /\ draws' = draws + 1
          /\ my' = [my EXCEPT ![l].secret = draws + 1]
          /\ Goto(l, "tool")
     ELSE Goto(l, "spawn") /\ UNCHANGED <<draws, my>>
  /\ UNCHANGED <<files, database, apps, console, ending, doubled, broken, starts, faults>>

\* userCount: a query that fails counts as "there are users".
CountUsers(l) ==
  /\ pc[l] = "admin"
  /\ IF Knows(l) /\ admin = 0
     THEN /\ draws' = draws + 1
          /\ my' = [my EXCEPT ![l].secret = draws + 1]
          /\ Goto(l, "tool")
     ELSE Goto(l, "spawn") /\ UNCHANGED <<draws, my>>
  /\ UNCHANGED <<files, database, apps, console, ending, doubled, broken, starts, faults>>

\* bootstrapInitialAdmin: "never duplicates, never overwrites", and succeeds either way.
Bootstrap(l) ==
  /\ pc[l] = "tool"
  /\ IF Knows(l)
     THEN /\ admin' = IF admin = 0 THEN my[l].secret ELSE admin
          /\ Goto(l, "note")
          /\ UNCHANGED <<lock, pg>>
     ELSE Fail(l) /\ UNCHANGED admin
  /\ UNCHANGED <<env, appPid, config, note, cluster, recorded, effects, apps, my, console, ending, ghosts>>

WriteNote(l) ==
  /\ pc[l] = "note"
  /\ note' = my[l].secret
  /\ Goto(l, "spawn")
  /\ UNCHANGED <<env, lock, appPid, config, database, apps, my, console, ending, ghosts>>

-----------------------------------------------------------------------------
(* The application *)

\* spawn and app.pid; a process whose port is taken is gone at once.
Spawn(l) ==
  /\ pc[l] = "spawn"
  /\ \E a \in Apps :
       /\ ~Alive(a) /\ \A b \in Apps : ~Alive(b) => a <= b
       /\ apps' = IF AppFree(my[l].app)
                  THEN [apps EXCEPT ![a] = [up |-> FALSE, port |-> my[l].app, pg |-> my[l].pg,
                                            pw |-> my[l].pw]]
                  ELSE apps
       /\ appPid' = a
  /\ Goto(l, "health")
  /\ UNCHANGED <<env, lock, config, note, database, my, console, ending, ghosts>>

AppReady(a) ==
  /\ Alive(a) /\ ~apps[a].up
  /\ apps' = [apps EXCEPT ![a].up = TRUE]
  /\ UNCHANGED <<files, database, pc, my, console, ending, ghosts>>

\* waitForHealth; when it gives up the launcher returns without cleaning up.
Health(l) ==
  /\ pc[l] = "health"
  /\ Goto(l, "off")
  /\ IF Healthy(my[l].app)
     THEN /\ lock' = Released(l)
          /\ console' = TRUE       \* holdUntilShutdown
          /\ UNCHANGED faults
     ELSE /\ \/ Mishap             \* it is slow
             \/ UNCHANGED faults  \* it never will
                /\ ~\E a \in Apps : apps[a].port = my[l].app /\ apps[a].pg = pg /\ apps[a].pw = cluster
          /\ UNCHANGED <<lock, console>>
  /\ UNCHANGED <<env, appPid, config, note, database, apps, my, ending, draws, doubled, broken, starts>>

-----------------------------------------------------------------------------
(* The end *)

\* cmdStop and the shutdown of holdUntilShutdown: the application first,
End(by) ==
  /\ ending = "off" /\ Mishap
  /\ by = "console" => console
  /\ ending' = by
  /\ IF Alive(appPid) THEN apps' = [apps EXCEPT ![appPid] = Dead] /\ UNCHANGED appPid
     ELSE /\ appPid' = IF by = "stop" THEN 0 ELSE appPid
          /\ UNCHANGED apps
  /\ UNCHANGED <<env, lock, config, note, database, pc, my, console, draws, doubled, broken, starts>>

\* then PostgreSQL,
EndPg ==
  /\ ending \in {"console", "stop"}
  /\ pg' = 0
  /\ ending' = "files"
  /\ UNCHANGED <<files, cluster, recorded, effects, admin, apps, pc, my, console, ghosts>>

\* then the supervisor and the files of run/, whosever they are.
EndFiles ==
  /\ ending = "files"
  /\ lock' = NoLock
  /\ console' = FALSE
  /\ ending' = "off"
  /\ UNCHANGED <<env, appPid, config, note, database, apps, pc, my, ghosts>>

\* The task manager.
KillLauncher(l) ==
  /\ Runs(l) /\ Mishap
  /\ Goto(l, "off")
  /\ UNCHANGED <<files, database, apps, my, console, ending, draws, doubled, broken, starts>>

\* A crash, or scheduleAppRestart after a restore.
AppExits(a) ==
  /\ Alive(a) /\ Mishap
  /\ apps' = [apps EXCEPT ![a] = Dead]
  /\ UNCHANGED <<files, database, pc, my, console, ending, draws, doubled, broken, starts>>

\* The machine is switched off.
PowerOff ==
  /\ Mishap
  /\ apps' = [a \in Apps |-> Dead]
  /\ pg' = 0
  /\ pc' = [l \in Launchers |-> "off"]
  /\ console' = FALSE /\ ending' = "off"
  /\ UNCHANGED <<files, cluster, recorded, effects, admin, my, draws, doubled, broken, starts>>

-----------------------------------------------------------------------------
Step(l) ==
  \/ WriteSecrets(l) \/ Look(l) \/ Unstale(l) \/ TryLock(l) \/ Reclaim(l) \/ WritePid(l)
  \/ Settled(l) \/ ResolvePorts(l) \/ InitDb(l) \/ PgStart(l) \/ PgWait(l) \/ Database(l)
  \/ Migrate(l) \/ Apply(l) \/ CountUsers(l) \/ Bootstrap(l) \/ WriteNote(l)
  \/ Spawn(l) \/ Health(l)

NextLauncher ==
  \/ \E l \in Launchers : Launch(l) \/ Step(l) \/ KillLauncher(l)
  \/ \E a \in Apps : AppReady(a) \/ AppExits(a)
  \/ \E by \in {"console", "stop"} : End(by)
  \/ EndPg \/ EndFiles \/ PowerOff

\* Processes run, and somebody who finds the application down starts it again.
FairnessLauncher ==
  /\ \A l \in Launchers : WF_launcherVars(Step(l))
  /\ \A a \in Apps : WF_launcherVars(AppReady(a))
  /\ WF_launcherVars(Launch(Patient))
  /\ WF_launcherVars(EndPg \/ EndFiles)

SpecLauncher == InitLauncher /\ [][NextLauncher]_launcherVars /\ FairnessLauncher

-----------------------------------------------------------------------------
(* Properties *)

\* A migration file takes effect once, in the order of the files, and exactly when
\* schema_migrations says so, however launchers overlap and are killed.
MigrationsOnce ==
  /\ \A f \in 1..Files : effects[f] = IF f \in recorded THEN 1 ELSE 0
  /\ \A f \in recorded : \A e \in 1..(f - 1) : e \in recorded

\* .env opens the cluster: the password is on disk before the cluster is made with it.
\* (Two first launches that draw at the same time break this: see Serialized.)
SecretsFirst == cluster # 0 /\ ~doubled => env = cluster

\* What the lock is for: as long as launches are serialised, the password left for the
\* operator is the administrator's.
NoteOpensAccount == note # 0 /\ ~broken => note = admin

\* No secret is lost between the file that keeps it and the cluster that asks for it.
SecretsKept == SecretsFirst /\ NoteOpensAccount

\* "concurrent launches are serialized by an exclusive lock in run/, and a lock left
\* behind by a crashed launcher is reclaimed" (launcher.mjs:24-25).
Serialized == \A k, l \in Launchers : InSection(k) /\ InSection(l) => k = l

\* However it was killed, closed or stopped, starting the application again brings it
\* back in the end, though not always at the next start: a leftover postmaster takes
\* the port, is not found on another one, and is stopped.
Recovers == starts = MaxStarts => []<>AlreadyRunning
=============================================================================
