--------------------------------- MODULE FormScreens ---------------------------------
(***************************************************************************)
(* Two kinds of dialog that hold the user until the server has answered:    *)
(* those of the Magtuturo page (magtuturo-actions.tsx) and the confirmation *)
(* of the teacher and dako forms (confirm-submit.tsx), whose two buttons    *)
(* share one form and the field that tells them apart.                      *)
(***************************************************************************)
EXTENDS Naturals

CONSTANTS
  Seats,        \* of the roster, "none" not among them
  Names,        \* teachers who are listed as eligible
  Buttons,      \* of a form
  MarkedButtons, \* those that add a field of their own: "Add Another"
  MaxActs       \* bound: what the user does

NoSeat == "none"

ASSUME FormScreensAssumption ==
  NoSeat \notin Seats \union Names \union Buttons /\ MarkedButtons \subseteq Buttons

VARIABLES
  assignSeat,   \* the seat of the assignment dialog
  selectedName, \* the teacher selected
  elig,         \* the list is there
  genOpen,      \* the generation dialog
  posted,       \* the request under way
  \* the form and its confirmation
  valid,        \* what the form holds passes its constraints
  confirming,   \* buttons whose confirmation is open
  armed,        \* buttons that have submitted
  field,        \* buttons whose field is in the form
  submitted,    \* the form's action under way: [by, with]
  acts

seatVars == <<assignSeat, selectedName, elig, genOpen, posted>>
formVars == <<valid, confirming, armed, field, submitted>>
formScreenVars == <<seatVars, formVars, acts>>

NoPost == [do |-> "none", seat |-> NoSeat, name |-> NoSeat]
NoSubmit == [by |-> NoSeat, with |-> {}]

FormsInit ==
  /\ assignSeat = NoSeat /\ selectedName = NoSeat /\ elig = FALSE /\ genOpen = FALSE
  /\ posted = NoPost
  /\ valid = FALSE /\ confirming = {} /\ armed = {} /\ field = {} /\ submitted = NoSubmit
  /\ acts = 0

Act == acts < MaxActs /\ acts' = acts + 1
Posting == posted # NoPost

-----------------------------------------------------------------------------
(* Magtuturo *)

OpenSeat(seat) ==
  /\ Act /\ ~Posting
  /\ assignSeat' = seat
  /\ UNCHANGED <<selectedName, elig, genOpen, posted, formVars>>

\* The list asked for when a seat was opened, or none if that failed.
Eligible ==
  /\ assignSeat # NoSeat /\ ~elig
  /\ elig' = TRUE
  /\ UNCHANGED <<assignSeat, selectedName, genOpen, posted, formVars, acts>>

Select(t) ==
  /\ Act /\ assignSeat # NoSeat /\ elig /\ ~Posting
  /\ selectedName' = t
  /\ UNCHANGED <<assignSeat, elig, genOpen, posted, formVars>>

\* Mutant: Escape closes the dialog whatever is under way.
EscapeSeat_AnyTime ==
  /\ assignSeat # NoSeat
  /\ assignSeat' = NoSeat
  /\ UNCHANGED <<selectedName, elig, genOpen, posted, formVars, acts>>

\* Escape leaves the selection, Cancel drops it.
EscapeSeat ==
  /\ assignSeat # NoSeat /\ ~Posting
  /\ assignSeat' = NoSeat
  /\ UNCHANGED <<selectedName, elig, genOpen, posted, formVars, acts>>

CancelSeat ==
  /\ assignSeat # NoSeat /\ ~Posting
  /\ assignSeat' = NoSeat /\ selectedName' = NoSeat
  /\ UNCHANGED <<elig, genOpen, posted, formVars, acts>>

Assign ==
  /\ Act /\ assignSeat # NoSeat /\ selectedName # NoSeat /\ ~Posting
  /\ posted' = [do |-> "assign", seat |-> assignSeat, name |-> selectedName]
  /\ UNCHANGED <<assignSeat, selectedName, elig, genOpen, formVars>>

clearSeat(seat) ==
  /\ Act /\ ~Posting
  /\ posted' = [do |-> "clear", seat |-> seat, name |-> NoSeat]
  /\ UNCHANGED <<assignSeat, selectedName, elig, genOpen, formVars>>

\* The two buttons, Cancel and Escape.
ToggleGenerate ==
  /\ Act /\ ~Posting
  /\ genOpen' = ~genOpen
  /\ UNCHANGED <<assignSeat, selectedName, elig, posted, formVars>>

generate ==
  /\ Act /\ genOpen /\ ~Posting
  /\ posted' = [NoPost EXCEPT !.do = "generate"]
  /\ UNCHANGED <<assignSeat, selectedName, elig, genOpen, formVars>>

\* Done, the dialogs of the request are closed; failed, they stay with its message.
Ran(ok) ==
  /\ Posting
  /\ posted' = NoPost
  /\ IF ~ok THEN UNCHANGED <<assignSeat, selectedName, genOpen>>
     ELSE IF posted.do = "generate" THEN genOpen' = FALSE /\ UNCHANGED <<assignSeat, selectedName>>
     ELSE assignSeat' = NoSeat /\ selectedName' = NoSeat /\ UNCHANGED genOpen
  /\ UNCHANGED <<elig, formVars, acts>>

-----------------------------------------------------------------------------
(* ConfirmSubmit *)

Sending == submitted # NoSubmit
Busy(b) == b \in armed \/ Sending

\* Entries are made in the form; it may come to pass its constraints or to fail them.
Fill ==
  /\ Act /\ valid' = ~valid
  /\ UNCHANGED <<seatVars, confirming, armed, field, submitted>>

openConfirm(b) ==
  /\ Act /\ ~Busy(b)
  /\ confirming' = confirming \union {b}
  /\ UNCHANGED <<seatVars, valid, armed, field, submitted>>

cancelConfirm(b) ==
  /\ b \in confirming /\ ~Busy(b)
  /\ confirming' = confirming \ {b}
  /\ UNCHANGED <<seatVars, valid, armed, field, submitted, acts>>

\* Mutant: the dialog is armed before the form is validated.
confirm_ArmsFirst(b) ==
  /\ Act /\ b \in confirming /\ ~Busy(b)
  /\ armed' = armed \union {b}
  /\ IF ~valid THEN UNCHANGED <<confirming, field, submitted>>
     ELSE /\ field' = field \union ({b} \intersect MarkedButtons)
          /\ submitted' = [by |-> b, with |-> field']
          /\ UNCHANGED confirming
  /\ UNCHANGED <<seatVars, valid>>

confirm(b) ==
  /\ Act /\ b \in confirming /\ ~Busy(b)
  /\ IF ~valid THEN confirming' = confirming \ {b} /\ UNCHANGED <<armed, field, submitted>>
     ELSE /\ field' = field \union ({b} \intersect MarkedButtons)
          /\ submitted' = [by |-> b, with |-> field']
          /\ armed' = armed \union {b} /\ UNCHANGED confirming
  /\ UNCHANGED <<seatVars, valid>>

\* Mutant: the field stays in the form.
Settled_KeepsField ==
  /\ Sending
  /\ submitted' = NoSubmit /\ armed' = {} /\ confirming' = {}
  /\ valid' \in BOOLEAN
  /\ UNCHANGED <<seatVars, field, acts>>

\* The action has settled, with an error on the form or with a new page: the effect of
\* every button, or its cleanup.
FormSettled ==
  /\ Sending
  /\ submitted' = NoSubmit /\ armed' = {} /\ confirming' = {} /\ field' = {}
  /\ valid' \in BOOLEAN
  /\ UNCHANGED <<seatVars, acts>>

FormsNext ==
  \/ \E seat \in Seats : OpenSeat(seat) \/ clearSeat(seat)
  \/ \E t \in Names : Select(t)
  \/ Eligible \/ EscapeSeat \/ CancelSeat \/ Assign \/ ToggleGenerate \/ generate
  \/ \E ok \in BOOLEAN : Ran(ok)
  \/ \E b \in Buttons : openConfirm(b) \/ cancelConfirm(b) \/ confirm(b)
  \/ Fill \/ FormSettled

-----------------------------------------------------------------------------
(* Properties *)

\* The answer to an assignment finds the dialog it was confirmed in, with the teacher
\* selected in it, and closes no other one (run).
AnswersOwnDialog ==
  posted.do = "assign" => assignSeat = posted.seat /\ selectedName = posted.name

\* A submission carries the intent of the button that was confirmed, never one left over
\* from an earlier attempt, and a dialog is locked only while it is being answered
\* (confirm-submit.tsx: "the modal can never lock the UI").
SubmitsAsConfirmed ==
  /\ Sending => submitted.with = {submitted.by} \intersect MarkedButtons
  /\ \A b \in armed : Sending
=============================================================================
