-------------------------------- MODULE BackupScreen --------------------------------
(***************************************************************************)
(* The backup section of the settings page (backup-actions.tsx), over the  *)
(* server of Backup: one operator with one page, beside other callers of   *)
(* the same routes.  The native dialogs are windows of the desktop, not of *)
(* the browser: while one is open the page can be used, and what was       *)
(* picked arrives at a page that has moved on.                             *)
(***************************************************************************)
EXTENDS Backup

CONSTANTS Operator, Other

VARIABLES
  page,       \* the state of the component
  typing      \* history: the dialog that was on top when the name was typed

screenVars == <<page, typing>>
vars == <<backupVars, screenVars>>

Mine == {c \in Calls : call[c].from = "page"}      \* the requests of the page

\* The name the operator sees: of a copy kept elsewhere it is that of the first backup.
Name(p) == IF p = Custom THEN [label |-> "pnk-backup", at |-> 0] ELSE p

Nothing == [path |-> NoPath, token |-> NoToken]
Off == "off"

InitScreen ==
  /\ InitBackup
  /\ page = [create |-> Nothing, pick |-> Nothing, target |-> NoPath,
             text |-> NoPath, busy |-> Off, picking |-> Off]
  /\ typing = {}

Set(f) == page' = f /\ UNCHANGED <<backupVars, typing>>
Opens == Input /\ UNCHANGED <<world, call, second, issued, written, history>>
Open == {d \in {"file", "row"} : IF d = "file" THEN page.pick # Nothing ELSE page.target # NoPath}

-----------------------------------------------------------------------------
(* Buttons *)

\* The dialog that asks for the location holds no data and is left out.
DefaultLocation ==
  /\ page.create = Nothing
  /\ page' = [page EXCEPT !.create = [path |-> [label |-> "pnk-backup", at |-> second],
                                      token |-> NoToken]]
  /\ Opens /\ UNCHANGED typing

CancelCreate == page.busy = Off /\ page.create # Nothing /\ Set([page EXCEPT !.create = Nothing])
CancelPick == page.busy = Off /\ page.pick # Nothing /\ Set([page EXCEPT !.pick = Nothing])
CancelRow == page.busy = Off /\ page.target # NoPath /\ Set([page EXCEPT !.target = NoPath])

\* Mutant: the name typed for another dialog stays in the field.
OpenRow_KeepsText(p) ==
  /\ disk[p].is # "none" /\ p # Custom
  /\ page' = [page EXCEPT !.target = p]
  /\ Opens /\ UNCHANGED typing

\* Restore... in the row of a backup.
OpenRow(p) ==
  /\ disk[p].is # "none" /\ p # Custom
  /\ page' = [page EXCEPT !.target = p, !.text = NoPath]
  /\ typing' = {}
  /\ Opens

\* The dialogs share one field; any other text is as good as none.
Type(d) ==
  /\ d \in Open
  /\ page' = [page EXCEPT !.text = Name(IF d = "file" THEN page.pick.path ELSE page.target)]
  /\ typing' = Open
  /\ UNCHANGED backupVars

-----------------------------------------------------------------------------
(* The native dialogs *)

Ask(what) ==
  /\ page.picking = Off
  /\ page' = [page EXCEPT !.picking = what]
  /\ Opens /\ UNCHANGED typing

\* Cancelled, timed out, or not available.
NothingPicked == page.picking # Off /\ Set([page EXCEPT !.picking = Off])

\* pickBackupDestination and the rest of handleCustomDestination
PlacePicked ==
  /\ page.picking = "save"
  /\ Issue(Operator, "destination", Custom)
  /\ page' = [page EXCEPT !.picking = Off,
                          !.create = [path |-> Custom, token |-> issued + 1]]
  /\ UNCHANGED <<db, disk, exiting, call, second, written, inputs, history, typing>>

\* pickRestoreFile and the rest of handlePickRestoreFile
FilePicked ==
  /\ page.picking = "open" /\ Listable(Custom)
  /\ Issue(Operator, "file", Custom)
  /\ page' = [page EXCEPT !.picking = Off, !.text = NoPath,
                          !.pick = [path |-> Custom, token |-> issued + 1]]
  /\ typing' = {}
  /\ UNCHANGED <<db, disk, exiting, call, second, written, inputs, history>>

-----------------------------------------------------------------------------
(* Requests *)

Send(what) == page' = [page EXCEPT !.busy = what] /\ Spare /\ UNCHANGED typing

Create(c) ==
  /\ page.busy = Off /\ page.create # Nothing
  /\ Send("create")
  /\ IF page.create.token = NoToken THEN CreateDefault(c, "page")
     ELSE WithToken(c, "page", Operator, "create", page.create.token)

\* Mutant: the button does not look at `busy`.
RestoreFile_NotBusy(c) ==
  /\ page.pick # Nothing /\ page.text = Name(page.pick.path)
  /\ Send("file")
  /\ WithToken(c, "page", Operator, "restore", page.pick.token)

RestoreFile(c) ==
  /\ page.busy = Off /\ page.pick # Nothing /\ page.text = Name(page.pick.path)
  /\ Send("file")
  /\ WithToken(c, "page", Operator, "restore", page.pick.token)

RestoreRow(c) ==
  /\ page.busy = Off /\ page.target # NoPath /\ page.text = Name(page.target)
  /\ Send("row")
  /\ RestoreDefault(c, "page", page.target)

Answered(c) == call[c].pc \in {"ok", "failed", "lost"}

\* The answer is applied to the page as it is now.
Answer(c) ==
  /\ Answered(c) /\ call[c].from = "page"
  /\ call' = [call EXCEPT ![c] = Idle]
  /\ page' = [page EXCEPT !.busy = Off,
       !.create = IF call[c].pc = "ok" /\ page.busy = "create" THEN Nothing ELSE @,
       !.pick   = IF call[c].pc = "ok" /\ page.busy = "file" THEN Nothing ELSE @,
       !.target = IF call[c].pc = "ok" /\ page.busy = "row" THEN NoPath ELSE @,
       !.text   = IF call[c].pc = "ok" /\ page.busy \in {"file", "row"} THEN NoPath ELSE @]
  /\ UNCHANGED <<world, bounds, history, typing>>

-----------------------------------------------------------------------------
OtherCalls(c) ==
  /\ \/ CreateDefault(c, "route")
     \/ \E p \in Backups \union Safeties : RestoreDefault(c, "route", p)
     \/ \E id \in 1..issued, user \in {Operator, Other}, op \in {"create", "restore"} :
          WithToken(c, "route", user, op, id)
  /\ Input /\ UNCHANGED screenVars

Buttons ==
  \/ DefaultLocation \/ CancelCreate \/ CancelPick \/ CancelRow
  \/ \E p \in Backups \union Safeties : OpenRow(p)
  \/ \E d \in {"file", "row"} : Type(d)
  \/ \E what \in {"save", "open"} : Ask(what)
  \/ NothingPicked \/ PlacePicked \/ FilePicked
  \/ \E c \in Calls : Create(c) \/ RestoreFile(c) \/ RestoreRow(c) \/ Answer(c)

NextScreen ==
  \/ Buttons
  \/ \E c \in Calls : OtherCalls(c)
  \/ NextServer /\ UNCHANGED screenVars

SpecScreen == InitScreen /\ [][NextScreen]_vars

-----------------------------------------------------------------------------
(* Properties *)

\* The page has one request under way at a time, and an answer is applied to the dialog
\* it belongs to.
OneAtATime ==
  /\ Cardinality(Mine) <= 1
  /\ page.busy = Off <=> Mine = {}

\* A restore is confirmed in its own dialog: when it is sent, its name has been typed
\* since that dialog opened, and not into another one with the same field.
ConfirmedHere ==
  [][page.busy = Off /\ (page.busy)' \in {"file", "row"} => (page.busy)' \in typing]_vars

\* What is destroyed was chosen and confirmed: by the token in the server, by the typed
\* name on the page.
UsesAreDeliberate == TokenRules /\ ConfirmedHere
=============================================================================
