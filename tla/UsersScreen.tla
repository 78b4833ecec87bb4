--------------------------------- MODULE UsersScreen ---------------------------------
(***************************************************************************)
(* The page of user accounts (users-client.tsx): its dialogs, and the one   *)
(* flag that every request sets and every answer clears.  The filters of    *)
(* the list send requests whatever is under way, so a change may still be   *)
(* under way when the flag is down and the buttons are back.                *)
(***************************************************************************)
EXTENDS Naturals

CONSTANTS
  Accounts,      \* the rows that may be changed
  Forms,         \* complete and valid entries of the create dialog
  MaxMoves       \* bound: what the user does

NoRow == "no row"
Empty == "empty"

ASSUME UsersAssumption == NoRow \notin Accounts /\ Empty \notin Forms

VARIABLES
  dialog,      \* [kind, row, temp]
  entry,       \* the create dialog: a member of Forms, or Empty
  editName,    \* the row whose name was put into the field
  roleChoice,  \* the row whose role was put into the select
  confirmText, \* the row for which DEACTIVATE stands in the field, or NoRow
  busyFlag,    \* busy
  calls,       \* requests under way
  made,        \* history: the entries the server made accounts of
  moves

usersVars == <<dialog, entry, editName, roleChoice, confirmText, busyFlag, calls, made, moves>>

NoDialog == [kind |-> "none", row |-> NoRow, temp |-> Empty]
Of(kind, row) == [NoDialog EXCEPT !.kind = kind, !.row = row]

UsersInit ==
  /\ dialog = NoDialog /\ entry = Empty
  /\ editName = NoRow /\ roleChoice = NoRow /\ confirmText = NoRow
  /\ busyFlag = FALSE /\ calls = {} /\ made = {} /\ moves = 0

Move == moves < MaxMoves /\ moves' = moves + 1
EntryFields == <<entry, editName, roleChoice, confirmText>>

\* call: each request sets the flag.
Call(r) == calls' = calls \union {r} /\ busyFlag' = TRUE /\ UNCHANGED <<dialog, made>>

-----------------------------------------------------------------------------
(* Opening and closing *)

openCreateDialog ==
  /\ Move
  /\ dialog' = Of("create", NoRow)
  /\ UNCHANGED <<EntryFields, busyFlag, calls, made>>

OpenEdit(row) ==
  /\ Move /\ ~busyFlag
  /\ dialog' = Of("edit", row) /\ editName' = row
  /\ UNCHANGED <<entry, roleChoice, confirmText, busyFlag, calls, made>>

OpenRole(row) ==
  /\ Move /\ ~busyFlag
  /\ dialog' = Of("role", row) /\ roleChoice' = row
  /\ UNCHANGED <<entry, editName, confirmText, busyFlag, calls, made>>

\* Mutant: what was typed for another account is still in the field.
OpenStatus_KeepsText(row) ==
  /\ Move /\ ~busyFlag
  /\ dialog' = Of("status", row)
  /\ UNCHANGED <<EntryFields, busyFlag, calls, made>>

OpenStatus(row) ==
  /\ Move /\ ~busyFlag
  /\ dialog' = Of("status", row) /\ confirmText' = NoRow
  /\ UNCHANGED <<entry, editName, roleChoice, busyFlag, calls, made>>

\* Escape, the backdrop and Cancel: an entry stays for the next create dialog.
Close ==
  /\ dialog # NoDialog
  /\ dialog' = NoDialog
  /\ UNCHANGED <<EntryFields, busyFlag, calls, made, moves>>

\* The fields can be changed while a request is under way.
TypeEntry(f) ==
  /\ Move /\ dialog.kind = "create"
  /\ entry' = f
  /\ UNCHANGED <<dialog, editName, roleChoice, confirmText, busyFlag, calls, made>>

TypeConfirm ==
  /\ Move /\ dialog.kind = "status"
  /\ confirmText' = dialog.row
  /\ UNCHANGED <<dialog, entry, editName, roleChoice, busyFlag, calls, made>>

-----------------------------------------------------------------------------
(* Requests *)

submitCreate ==
  /\ Move /\ dialog.kind = "create" /\ ~busyFlag /\ entry # Empty
  /\ Call([do |-> "create", entry |-> entry])
  /\ UNCHANGED EntryFields

submitEdit ==
  /\ Move /\ dialog.kind = "edit" /\ ~busyFlag
  /\ Call([do |-> "edit", row |-> dialog.row, said |-> editName])
  /\ UNCHANGED EntryFields

submitRole ==
  /\ Move /\ dialog.kind = "role" /\ ~busyFlag
  /\ Call([do |-> "role", row |-> dialog.row, said |-> roleChoice])
  /\ UNCHANGED EntryFields

submitStatus ==
  /\ Move /\ dialog.kind = "status" /\ ~busyFlag /\ confirmText # NoRow
  /\ Call([do |-> "status", row |-> dialog.row, said |-> confirmText])
  /\ UNCHANGED EntryFields

submitReactivate(row) ==
  /\ Move /\ ~busyFlag
  /\ Call([do |-> "reactivate", row |-> row])
  /\ UNCHANGED EntryFields

submitReset(row) ==
  /\ Move /\ ~busyFlag
  /\ Call([do |-> "reset", row |-> row])
  /\ UNCHANGED EntryFields

\* The search with its debounce, the selects and Reset.
refreshList ==
  /\ Move
  /\ Call([do |-> "list"])
  /\ UNCHANGED EntryFields

-----------------------------------------------------------------------------
(* Answers *)

Done(r) == calls' = calls \ {r} /\ busyFlag' = FALSE

\* Mutant: the dialog shows what stands in the form when the answer comes.
Created_FormOfNow(r) ==
  /\ r.do = "create"
  /\ dialog' = [NoDialog EXCEPT !.kind = "temp", !.temp = entry]
  /\ entry' = Empty /\ made' = made \union {r.entry}
  /\ calls' = (calls \ {r}) \union {[do |-> "list"]} /\ busyFlag' = TRUE
  /\ UNCHANGED <<editName, roleChoice, confirmText>>

\* The closure of the request holds the entry it sent.  The list is loaded anew.
Created(r) ==
  /\ r.do = "create"
  /\ dialog' = [NoDialog EXCEPT !.kind = "temp", !.temp = r.entry]
  /\ entry' = Empty /\ made' = made \union {r.entry}
  /\ calls' = (calls \ {r}) \union {[do |-> "list"]} /\ busyFlag' = TRUE
  /\ UNCHANGED <<editName, roleChoice, confirmText>>

\* Whatever dialog is open by then is closed.
Patched(r) ==
  /\ r.do \in {"edit", "role", "status"}
  /\ dialog' = NoDialog
  /\ confirmText' = IF r.do = "status" THEN NoRow ELSE confirmText
  /\ Done(r) /\ UNCHANGED <<entry, editName, roleChoice, made>>

WasReset(r) ==
  /\ r.do = "reset"
  /\ dialog' = Of("temp", r.row)
  /\ Done(r) /\ UNCHANGED <<EntryFields, made>>

Listed(r) ==
  /\ r.do \in {"list", "reactivate"}
  /\ Done(r) /\ UNCHANGED <<EntryFields, dialog, made>>

\* A refusal or a lost answer shows its message and leaves dialog and fields.
Failed(r) == Done(r) /\ UNCHANGED <<EntryFields, dialog, made>>

UsersNext ==
  \/ \E row \in Accounts : OpenEdit(row) \/ OpenRole(row) \/ OpenStatus(row)
                           \/ submitReactivate(row) \/ submitReset(row)
  \/ \E f \in Forms \union {Empty} : TypeEntry(f)
  \/ openCreateDialog \/ Close \/ TypeConfirm
  \/ submitCreate \/ submitEdit \/ submitRole \/ submitStatus \/ refreshList
  \/ \E r \in calls : /\ UNCHANGED moves
                      /\ \/ Created(r) \/ Patched(r) \/ WasReset(r)
                         \/ Listed(r) \/ Failed(r)

-----------------------------------------------------------------------------
(* Properties *)

\* An account is deactivated, renamed or given a role only with what was put or typed
\* into the dialog opened for it, although answers and list refreshes bring the buttons
\* back and close dialogs in between.
ChangesAreForTheirRow ==
  \A r \in calls : r.do \in {"edit", "role", "status"} => r.said = r.row

\* The one time the password of a new account is shown, it is the one the account was
\* made with, whatever was typed while the request was under way.
ShownPasswordWorks ==
  dialog.kind = "temp" => dialog.row \in Accounts \/ dialog.temp \in made
=============================================================================
