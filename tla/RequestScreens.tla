-------------------------------- MODULE RequestScreens --------------------------------
(***************************************************************************)
(* Three clients that send one request at a time and shut the controls that *)
(* would mislead its answer: the Generate Suguan dialog of the dashboard    *)
(* (generate-button.tsx), account recovery (forgot-password-client.tsx) and *)
(* the historical backfill (historical-client.tsx).                         *)
(***************************************************************************)
EXTENDS Naturals

CONSTANTS
  IsoWeeks,      \* of the year, positive
  Emails,
  Records,       \* historical rows on the page
  MaxTaps        \* bound: what the user does

No == "no"

ASSUME RequestScreensAssumption ==
  /\ IsoWeeks # {} /\ Emails # {} /\ 0 \notin IsoWeeks /\ No \notin Emails \union Records

VARIABLES
  generator,   \* [open, week, manual, blocked]: blocked is the week of the notice, or 0
  generating,  \* the request of the dialog: [week, manual], or Rest
  opened,      \* the week the schedule page was opened for by a manual choice
  recovery,    \* [step, email, sent, code, ticket]: sent and ticket are the e-mail the last
               \* code went to and the e-mail the ticket is good for, or No
  recovering,  \* the request of the recovery: [do, email]
  backfill,    \* [rows, confirming, correcting, down]
  recording,   \* the request of the backfill: [do, row]
  taps

requestVars ==
  <<generator, generating, opened, recovery, recovering, backfill, recording, taps>>

Resting == [week |-> 0, manual |-> FALSE]
Quiet == [do |-> No, email |-> No]
Unasked == [do |-> No, row |-> No]

RequestsInit ==
  /\ \E w \in IsoWeeks :
       generator = [open |-> FALSE, week |-> w, manual |-> FALSE, blocked |-> 0]
  /\ generating = Resting /\ opened = Resting
  /\ recovery = 
       [step |-> "email", email |-> No, sent |-> No, code |-> FALSE, ticket |-> No]
  /\ recovering = Quiet
  /\ backfill = [rows |-> 0, confirming |-> FALSE, correcting |-> No, down |-> FALSE]
  /\ recording = Unasked /\ taps = 0

RequestsIdle == RequestsInit /\ generator.week = CHOOSE w \in IsoWeeks : TRUE

Tap == taps < MaxTaps /\ taps' = taps + 1
generatorVars == <<generator, generating, opened>>
recoveryVars == <<recovery, recovering>>
backfillVars == <<backfill, recording>>

-----------------------------------------------------------------------------
(* GenerateSuguanButton *)

OpenGenerator ==
  /\ Tap /\ generating = Resting
  /\ generator' = [generator EXCEPT !.open = TRUE, !.blocked = 0]
  /\ UNCHANGED <<generating, opened, recoveryVars, backfillVars>>

\* Escape and the backdrop close it whatever is under way.
CloseGenerator ==
  /\ generator.open
  /\ generator' = [generator EXCEPT !.open = FALSE]
  /\ UNCHANGED <<generating, opened, recoveryVars, backfillVars, taps>>

\* Mutant: the notice stays when another week is chosen.
ChooseWeek_KeepsNotice(w, manual) ==
  /\ Tap /\ generator.open /\ generating = Resting
  /\ generator' = [generator EXCEPT !.week = w, !.manual = manual]
  /\ UNCHANGED <<generating, opened, recoveryVars, backfillVars>>

ChooseWeek(w, manual) ==
  /\ Tap /\ generator.open /\ generating = Resting
  /\ generator' = [generator EXCEPT !.week = w, !.manual = manual, !.blocked = 0]
  /\ UNCHANGED <<generating, opened, recoveryVars, backfillVars>>

Generate ==
  /\ Tap /\ generator.open /\ generating = Resting
  /\ generator' = [generator EXCEPT !.blocked = 0]
  /\ generating' = [week |-> generator.week, manual |-> generator.manual]
  /\ UNCHANGED <<opened, recoveryVars, backfillVars>>

\* Blocked for want of availability, the dialog stays with the notice; otherwise it is
\* closed, and a manual choice that is let through opens the schedule of its week.
GenerateAnswer(how) ==
  /\ generating # Resting
  /\ generating' = Resting
  /\ generator' = IF how = "blocked" THEN [generator EXCEPT !.blocked = generating.week]
                  ELSE [generator EXCEPT !.open = FALSE]
  /\ opened' = IF how = "ok" /\ generating.manual THEN generating ELSE opened
  /\ UNCHANGED <<recoveryVars, backfillVars, taps>>

-----------------------------------------------------------------------------
(* ForgotPasswordClient *)

\* Mutant: the field can be typed in while a code is being sent.
TypeEmail_AnyTime(e) ==
  /\ Tap /\ recovery.step = "email"
  /\ recovery' = [recovery EXCEPT !.email = e]
  /\ UNCHANGED <<recovering, generatorVars, backfillVars>>

TypeEmail(e) ==
  /\ Tap /\ recovery.step = "email" /\ recovering = Quiet
  /\ recovery' = [recovery EXCEPT !.email = e]
  /\ UNCHANGED <<recovering, generatorVars, backfillVars>>

Request(do) ==
  /\ recovering' = [do |-> do, email |-> IF do = "reset" THEN recovery.ticket ELSE recovery.email]
  /\ UNCHANGED <<recovery, generatorVars, backfillVars>>

\* submitEmail, and resend once its minute is over.
SendCode ==
  /\ Tap /\ recovering = Quiet /\ recovery.email # No
  /\ \/ recovery.step = "email" /\ Request("send")
     \/ recovery.step = "verify" /\ Request("resend")

TypeCode ==
  /\ Tap /\ recovery.step = "verify" /\ recovering = Quiet
  /\ recovery' = [recovery EXCEPT !.code = TRUE]
  /\ UNCHANGED <<recovering, generatorVars, backfillVars>>

submitCode ==
  /\ Tap /\ recovery.step = "verify" /\ recovering = Quiet /\ recovery.code
  /\ Request("verify")

\* Use a different email
DifferentEmail ==
  /\ Tap /\ recovery.step = "verify" /\ recovering = Quiet
  /\ recovery' = [recovery EXCEPT !.step = "email", !.code = FALSE]
  /\ UNCHANGED <<recovering, generatorVars, backfillVars>>

submitPassword ==
  /\ Tap /\ recovery.step = "reset" /\ recovering = Quiet
  /\ Request("reset")

\* The answer to a request for a code is the same whatever became of it.
RecoveryAnswer(ok) ==
  /\ recovering # Quiet
  /\ recovering' = Quiet
  /\ recovery' =
       CASE recovering.do = "send" ->
              [recovery EXCEPT !.step = "verify", !.sent = recovering.email, !.code = FALSE]
         [] recovering.do = "resend" ->
              [recovery EXCEPT !.sent = recovering.email, !.code = FALSE]
         [] recovering.do = "verify" /\ ok ->
              [recovery EXCEPT !.step = "reset", !.ticket = recovering.email]
         [] recovering.do = "verify" /\ ~ok -> [recovery EXCEPT !.code = FALSE]
         [] recovering.do = "reset" /\ ok ->
              [recovery EXCEPT !.step = "done", !.ticket = No, !.code = FALSE]
         [] recovering.do = "reset" /\ ~ok -> recovery
  /\ UNCHANGED <<generatorVars, backfillVars, taps>>

-----------------------------------------------------------------------------
(* HistoricalClient *)

Recording == recording # Unasked
Backfill(next) == backfill' = next /\ UNCHANGED <<recording, generatorVars, recoveryVars>>

addRow == Tap /\ ~backfill.down /\ ~Recording /\ Backfill([backfill EXCEPT !.rows = @ + 1])

RemoveRow ==
  /\ Tap /\ ~backfill.down /\ ~Recording /\ backfill.rows > 0
  /\ Backfill([backfill EXCEPT !.rows = @ - 1])

\* The first press reviews, the second records.
record ==
  /\ Tap /\ ~backfill.down /\ ~Recording /\ backfill.rows > 0
  /\ IF ~backfill.confirming THEN Backfill([backfill EXCEPT !.confirming = TRUE])
     ELSE /\ recording' = [do |-> "record", row |-> No]
          /\ UNCHANGED <<backfill, generatorVars, recoveryVars>>

CancelRecord ==
  /\ ~backfill.down /\ backfill.confirming /\ ~Recording /\ UNCHANGED taps
  /\ Backfill([backfill EXCEPT !.confirming = FALSE])

\* Mutant: another record can be opened while a correction is under way.
OpenCorrection_WhilePending(r) ==
  Tap /\ ~backfill.down /\ Backfill([backfill EXCEPT !.correcting = r])

OpenCorrection(r) ==
  Tap /\ ~backfill.down /\ ~Recording /\ Backfill([backfill EXCEPT !.correcting = r])

\* Escape closes it whatever is under way.
CloseCorrection ==
  /\ ~backfill.down /\ backfill.correcting # No /\ UNCHANGED taps
  /\ Backfill([backfill EXCEPT !.correcting = No])

applyCorrection ==
  /\ Tap /\ ~backfill.down /\ ~Recording /\ backfill.correcting # No
  /\ recording' = [do |-> "correct", row |-> backfill.correcting]
  /\ UNCHANGED <<backfill, generatorVars, recoveryVars>>

\* A lost answer is caught by nobody and takes the page down.
BackfillAnswer(how) ==
  /\ ~backfill.down /\ Recording
  /\ recording' = Unasked
  /\ backfill' =
       CASE how = "lost" -> [backfill EXCEPT !.down = TRUE]
         [] how = "ok" /\ recording.do = "record" ->
              [backfill EXCEPT !.rows = 0, !.confirming = FALSE]
         [] how = "no" /\ recording.do = "record" -> [backfill EXCEPT !.confirming = FALSE]
         [] how = "ok" /\ recording.do = "correct" -> [backfill EXCEPT !.correcting = No]
         [] how = "no" /\ recording.do = "correct" -> backfill
  /\ UNCHANGED <<generatorVars, recoveryVars, taps>>

RequestsNext ==
  \/ OpenGenerator \/ CloseGenerator \/ Generate
  \/ \E w \in IsoWeeks, manual \in BOOLEAN : ChooseWeek(w, manual)
  \/ \E how \in {"ok", "no", "blocked"} : GenerateAnswer(how)
  \/ \E e \in Emails : TypeEmail(e)
  \/ SendCode \/ TypeCode \/ submitCode \/ DifferentEmail \/ submitPassword
  \/ \E ok \in BOOLEAN : RecoveryAnswer(ok)
  \/ addRow \/ RemoveRow \/ record \/ CancelRecord \/ CloseCorrection \/ applyCorrection
  \/ \E r \in Records : OpenCorrection(r)
  \/ \E how \in {"ok", "no", "lost"} : BackfillAnswer(how)

-----------------------------------------------------------------------------
(* Properties *)

\* The notice names the week that is selected, in the dialog that is open or will be.
NoticeIsForSelection == generator.blocked \in {0, generator.week}

\* A code that is typed was sent to the e-mail the page verifies it for, and the ticket
\* is that e-mail's and gone once it is used, whatever was typed while a request was
\* under way.
TicketIsForEmail ==
  /\ recovery.step \in {"verify", "reset"} => recovery.sent = recovery.email
  /\ recovery.step = "reset" => recovery.ticket = recovery.email
  /\ recovering.do = "reset" => recovering.email = recovery.email
  /\ recovery.step = "done" => recovery.ticket = No

\* The answer to a correction closes no other record's dialog.
CorrectionClosesItsOwn ==
  recording.do = "correct" => backfill.correcting \in {No, recording.row}
=============================================================================
