------------------------------- MODULE ScheduleScreen -------------------------------
(***************************************************************************)
(* The weekly schedule page (schedule-actions.tsx): the dialogs by which a *)
(* slot is given to a teacher, the generation with its gate and its        *)
(* warning, and the correction windows.  Requests answer late and in any   *)
(* order, or not at all; the server may refuse or lose each of them.       *)
(*                                                                         *)
(* Escape closes a dialog whatever is under way, a dialog does not trap    *)
(* the keyboard, and the buttons of the table look at nothing: a dialog    *)
(* can be closed, and another opened, before its requests have answered.   *)
(* An error nobody catches inside a transition takes the page down.        *)
(* What is typed or picked carries the dialog it was put into.             *)
(***************************************************************************)
EXTENDS Naturals, FiniteSets

CONSTANTS
  Rows,          \* the slots of the week
  Taken,         \* those with an assignment: Override, the others Delegate
  Staff,
  Fit,           \* [Rows -> [Staff -> {"fits", "soft", "hard"}]], what the server says
  MaxPresses     \* bound: buttons pressed

None == "none"

ASSUME ScheduleAssumption ==
  /\ Taken \subseteq Rows /\ None \notin Rows \union Staff
  /\ Fit \in [Rows -> [Staff -> {"fits", "soft", "hard"}]]

VARIABLES
  slot,       \* the slot dialog: [row, list, pick, exception, review, reason, in]
  gen,        \* [modal, mode, warning, generating]
  unlock,     \* the emergency dialog: [open, mode, secret, reason, asked]
  revise,     \* the revision dialog: [open, mode, reason, nth], nth counts its openings
  known,      \* the correction window as last heard of
  flight,     \* requests that have not answered
  status,     \* of the week, as the page was rendered
  down,       \* an error took the page down
  presses

scheduleVars == <<slot, gen, unlock, revise, known, flight, status, down, presses>>

NoSlot == [row |-> None, list |-> None, pick |-> None, exception |-> FALSE,
           review |-> FALSE, reason |-> None, in |-> None]
NoGen == [modal |-> FALSE, mode |-> "auto", warning |-> FALSE, generating |-> FALSE]
NoUnlock == [open |-> FALSE, mode |-> "begin", secret |-> FALSE, reason |-> FALSE, asked |-> FALSE]
NoRevise == [open |-> FALSE, mode |-> "begin", reason |-> 0, nth |-> 0]
Modes == {"auto", "destinado"}

Fresh ==
  /\ slot = NoSlot /\ gen = NoGen /\ unlock = NoUnlock
  /\ revise = NoRevise /\ known = None /\ down = FALSE /\ presses = 0

ScheduleInit == Fresh /\ status \in {"DRAFT", "FINALIZED", "PUBLISHED"} /\ flight = {[do |-> "look"]}
ScheduleIdle == Fresh /\ status = "DRAFT" /\ flight = {}

\* The look at the correction window on mount is no transition.
pending == \E r \in flight : r # [do |-> "look"]
editable == status = "DRAFT" \/ known = "me"

Press == ~down /\ presses < MaxPresses /\ presses' = presses + 1
Send(r) == flight' = flight \union {r}
Only(x, y) == UNCHANGED <<x, y, revise, known, status, down>>

-----------------------------------------------------------------------------
(* Delegate and Override *)

\* Mutant: what was picked for the slot before stays picked.
OpenSlot_KeepsPick(r) ==
  /\ Press /\ editable
  /\ slot' = [NoSlot EXCEPT !.row = r, !.pick = slot.pick, !.in = slot.in]
  /\ Send([do |-> "candidates", row |-> r])
  /\ Only(gen, unlock)

OpenSlot(r) ==
  /\ Press /\ editable
  /\ slot' = [NoSlot EXCEPT !.row = r]
  /\ Send([do |-> "candidates", row |-> r])
  /\ Only(gen, unlock)

CloseSlot ==
  /\ ~down /\ slot.row # None
  /\ slot' = [slot EXCEPT !.row = None, !.list = None, !.review = FALSE]
  /\ UNCHANGED <<flight, presses>> /\ Only(gen, unlock)

\* What the dialog says of a teacher comes from the list it holds.
Says(t) == Fit[slot.list][t]

\* Mutant: exception mode offers everybody.
Offered_Everybody == {t \in Staff : Says(t) = "fits" \/ slot.exception}

Offered == {t \in Staff : Says(t) = "fits" \/ (slot.exception /\ Says(t) = "soft")}

Pick(t) ==
  /\ Press /\ ~pending /\ slot.row # None /\ slot.list # None /\ ~slot.review
  /\ t \in Offered
  /\ slot' = [slot EXCEPT !.pick = t, !.in = slot.row]
  /\ UNCHANGED flight /\ Only(gen, unlock)

\* There is a field for the reason in an override and in exception mode.
TypeReason ==
  /\ Press /\ ~pending /\ slot.row # None /\ ~slot.review
  /\ slot.row \in Taken \/ slot.exception
  /\ slot' = [slot EXCEPT !.reason = slot.row]
  /\ UNCHANGED flight /\ Only(gen, unlock)

\* A list that failed to load is asked for again, one that is there is used.
ToggleException ==
  /\ Press /\ ~pending /\ slot.row # None /\ ~slot.review
  /\ slot' = [slot EXCEPT !.exception = ~@, !.pick = None]
  /\ IF ~slot.exception /\ slot.list = None THEN Send([do |-> "candidates", row |-> slot.row])
     ELSE UNCHANGED flight
  /\ Only(gen, unlock)

Selected == slot.list # None /\ slot.pick # None
Reasoned == slot.row \in Taken => slot.reason # None

ProceedToReview ==
  /\ Press /\ ~pending /\ slot.row # None /\ ~slot.review
  /\ Selected /\ Reasoned
  /\ Says(slot.pick) = "fits" \/ slot.exception
  /\ slot' = [slot EXCEPT !.review = TRUE]
  /\ UNCHANGED flight /\ Only(gen, unlock)

\* It returns to the choice with the answer of a refusal too.
Back ==
  /\ ~down /\ ~pending /\ slot.review
  /\ slot' = [slot EXCEPT !.review = FALSE]
  /\ UNCHANGED <<flight, presses>> /\ Only(gen, unlock)

ApplySlot ==
  /\ Press /\ ~pending /\ slot.review /\ Selected /\ Reasoned
  /\ Send([do |-> "apply", row |-> slot.row, who |-> slot.pick, in |-> slot.in,
           says |-> Says(slot.pick), reason |-> slot.reason])
  /\ UNCHANGED slot /\ Only(gen, unlock)

-----------------------------------------------------------------------------
(* Generation *)

OpenGenerate ==
  /\ Press /\ status = "DRAFT" /\ ~pending /\ ~gen.generating
  /\ gen' = [gen EXCEPT !.modal = TRUE]
  /\ UNCHANGED flight /\ Only(slot, unlock)

Choose(m) ==
  /\ Press /\ gen.modal /\ ~gen.generating
  /\ gen' = [gen EXCEPT !.mode = m]
  /\ UNCHANGED flight /\ Only(slot, unlock)

CloseGenerate ==
  /\ ~down /\ (gen.modal \/ gen.warning)
  /\ gen' = [gen EXCEPT !.modal = FALSE, !.warning = FALSE]
  /\ UNCHANGED <<flight, presses>> /\ Only(slot, unlock)

ConfirmGenerate ==
  /\ Press /\ gen.modal /\ ~gen.generating
  /\ gen' = [gen EXCEPT !.generating = TRUE]
  /\ Send([do |-> "gate", mode |-> gen.mode])
  /\ Only(slot, unlock)

\* Mutant: the button of the warning does not look at what is under way.
Proceed_WhilePending ==
  /\ Press /\ gen.warning
  /\ gen' = [gen EXCEPT !.warning = FALSE, !.generating = TRUE]
  /\ Send([do |-> "generate", mode |-> gen.mode])
  /\ Only(slot, unlock)

\* generate() from the warning: the mode is the one the modal shows now.
Proceed ==
  /\ Press /\ gen.warning /\ ~pending
  /\ gen' = [gen EXCEPT !.warning = FALSE, !.generating = TRUE]
  /\ Send([do |-> "generate", mode |-> gen.mode])
  /\ Only(slot, unlock)

\* finalize and publish
SetStatus ==
  /\ Press /\ ~pending /\ status # "PUBLISHED"
  /\ Send([do |-> "status"])
  /\ Only(slot, gen) /\ UNCHANGED unlock

-----------------------------------------------------------------------------
(* Correction windows *)

OpenEmergency ==
  /\ Press /\ status = "PUBLISHED" /\ ~pending
  /\ unlock' = [NoUnlock EXCEPT !.open = TRUE, !.mode = unlock.mode]
  /\ Send([do |-> "mode"])
  /\ Only(slot, gen)

\* Mutant: the secret stays in the field behind the closed dialog.
CloseEmergency_KeepsSecret ==
  /\ ~down /\ unlock.open
  /\ unlock' = [unlock EXCEPT !.open = FALSE, !.reason = FALSE]
  /\ UNCHANGED <<flight, presses>> /\ Only(slot, gen)

CloseEmergency ==
  /\ ~down /\ unlock.open
  /\ unlock' = [unlock EXCEPT !.open = FALSE, !.secret = FALSE, !.reason = FALSE]
  /\ UNCHANGED <<flight, presses>> /\ Only(slot, gen)

TypeSecret ==
  /\ Press /\ ~pending /\ unlock.open /\ unlock.mode = "begin"
  /\ unlock' = [unlock EXCEPT !.secret = TRUE, !.reason = TRUE]
  /\ UNCHANGED flight /\ Only(slot, gen)

\* Mutant: the button does not wait for the state of the window.
SubmitEmergency_AtOnce ==
  /\ Press /\ unlock.open
  /\ unlock.mode = "begin" => unlock.secret /\ unlock.reason
  /\ Send([do |-> "unlock", mode |-> unlock.mode, asked |-> unlock.asked])
  /\ UNCHANGED unlock /\ Only(slot, gen)

SubmitEmergency ==
  /\ Press /\ ~pending /\ unlock.open
  /\ unlock.mode = "begin" => unlock.secret /\ unlock.reason
  /\ Send([do |-> "unlock", mode |-> unlock.mode, asked |-> unlock.asked])
  /\ UNCHANGED unlock /\ Only(slot, gen)

\* Mutant: the reason typed the last time is still there.
OpenRevision_KeepsReason(mode) ==
  /\ Press /\ status = "FINALIZED" /\ ~pending
  /\ mode = (IF known = None THEN "begin" ELSE "end")
  /\ revise' = [revise EXCEPT !.open = TRUE, !.mode = mode, !.nth = @ + 1]
  /\ UNCHANGED <<slot, gen, unlock, known, flight, status, down>>

OpenRevision(mode) ==
  /\ Press /\ status = "FINALIZED" /\ ~pending
  /\ mode = (IF known = None THEN "begin" ELSE "end")
  /\ revise' = [open |-> TRUE, mode |-> mode, reason |-> 0, nth |-> revise.nth + 1]
  /\ UNCHANGED <<slot, gen, unlock, known, flight, status, down>>

\* It leaves the reason in the field.
CloseRevision ==
  /\ ~down /\ revise.open
  /\ revise' = [revise EXCEPT !.open = FALSE]
  /\ UNCHANGED <<slot, gen, unlock, known, flight, status, down, presses>>

TypeRevision ==
  /\ Press /\ ~pending /\ revise.open /\ revise.mode = "begin"
  /\ revise' = [revise EXCEPT !.reason = revise.nth]
  /\ UNCHANGED <<slot, gen, unlock, known, flight, status, down>>

SubmitRevision ==
  /\ Press /\ ~pending /\ revise.open
  /\ revise.mode = "begin" => revise.reason # 0
  /\ Send([do |-> "revise", of |-> revise])
  /\ UNCHANGED <<slot, gen, unlock, revise, known, status, down>>

\* The list of the unavailable is only shown.
OpenUnavailable ==
  /\ Press /\ ~pending /\ editable
  /\ Send([do |-> "unavailable"])
  /\ UNCHANGED <<slot, gen, unlock, revise, known, status, down>>

-----------------------------------------------------------------------------
(* Answers: "ok", "no" (refused) or "lost" *)

Gone(r) == flight' = flight \ {r}
Then(r, next) == flight' = (flight \ {r}) \union {next}
PageDown == down' = TRUE /\ flight' = {} /\ UNCHANGED <<slot, gen, unlock, revise, known, status>>

\* fetchCandidates catches nothing; whatever dialog is open by now gets the list.
Candidates(r, how) ==
  /\ r.do = "candidates"
  /\ IF how = "lost" THEN PageDown
     ELSE /\ slot' = IF how = "ok" THEN [slot EXCEPT !.list = r.row] ELSE slot
          /\ Gone(r) /\ Only(gen, unlock)

\* Saved, the dialog that is open is closed; refused or lost, it is back at the choice.
Applied(r, how) ==
  /\ r.do = "apply"
  /\ slot' = IF how = "ok" THEN [slot EXCEPT !.row = None, !.list = None, !.review = FALSE]
             ELSE [slot EXCEPT !.review = FALSE]
  /\ Gone(r) /\ Only(gen, unlock)

\* A gate that is open is followed by the count of the absent, which nothing catches.
Gate(r, how) ==
  /\ r.do = "gate"
  /\ IF how = "ok"
     THEN gen' = [gen EXCEPT !.modal = FALSE] /\ Then(r, [do |-> "count", mode |-> r.mode])
     ELSE gen' = [gen EXCEPT !.generating = FALSE] /\ Gone(r)
  /\ Only(slot, unlock)

Count(r, how) ==
  /\ r.do = "count"
  /\ IF how = "lost" THEN PageDown
     ELSE /\ \/ /\ how = "ok"       \* some were absent: the operator decides
                /\ gen' = [gen EXCEPT !.generating = FALSE, !.warning = TRUE]
                /\ Gone(r)
             \/ /\ gen' = gen
                /\ Then(r, [do |-> "generate", mode |-> r.mode])
          /\ Only(slot, unlock)

Reload(s) ==
  /\ slot' = NoSlot /\ gen' = NoGen /\ unlock' = NoUnlock /\ revise' = NoRevise
  /\ known' = None
  /\ flight' = {[do |-> "look"]} /\ status' = s /\ UNCHANGED down

\* finalize and publish catch nothing.
StatusSet(r, how) ==
  /\ r.do = "status"
  /\ CASE how = "ok" -> Reload(IF status = "DRAFT" THEN "FINALIZED" ELSE "PUBLISHED")
       [] how = "no" -> Gone(r) /\ Only(slot, gen) /\ UNCHANGED unlock
       [] how = "lost" -> PageDown

\* Generated, the page loads anew; blocked, the modal is back.
Generated(r, how) ==
  /\ r.do = "generate"
  /\ IF how = "ok" THEN Reload(status)
     ELSE /\ \E blocked \in BOOLEAN :
               gen' = [gen EXCEPT !.generating = FALSE, !.modal = @ \/ (blocked /\ how = "no")]
          /\ Gone(r) /\ Only(slot, unlock)

\* refreshCorrection leaves what it knows when the answer is lost.
Look(r, how) ==
  /\ r.do \in {"look", "relook"}
  /\ \E w \in {None, "me", "other"} :
       known' = IF how = "lost" \/ status = "DRAFT" THEN known ELSE w
  /\ Gone(r) /\ UNCHANGED <<slot, gen, unlock, revise, status, down>>

Mode(r, how) ==
  /\ r.do = "mode"
  /\ \E m \in {"begin", "end"} :
       unlock' = [unlock EXCEPT !.mode = IF how = "ok" THEN m ELSE "begin", !.asked = unlock.open]
  /\ Gone(r) /\ Only(slot, gen)

\* A refusal clears the secret, a lost answer leaves it in the field.
Unlocked(r, how) ==
  /\ r.do = "unlock"
  /\ unlock' = IF how = "ok"
               THEN [unlock EXCEPT !.open = FALSE, !.secret = FALSE, !.reason = FALSE]
               ELSE [unlock EXCEPT !.secret = @ /\ how = "lost"]
  /\ IF how = "ok" THEN Then(r, [do |-> "relook"]) ELSE Gone(r)
  /\ Only(slot, gen)

\* Whatever revision dialog is open by now is closed.
Revised(r, how) ==
  /\ r.do = "revise"
  /\ revise' = IF how = "ok" THEN [revise EXCEPT !.open = FALSE, !.reason = 0] ELSE revise
  /\ IF how = "ok" THEN Then(r, [do |-> "relook"]) ELSE Gone(r)
  /\ UNCHANGED <<slot, gen, unlock, known, status, down>>

\* openUnavailable catches nothing.
Unavailable(r, how) ==
  /\ r.do = "unavailable"
  /\ IF how = "lost" THEN PageDown ELSE Gone(r) /\ Only(slot, gen) /\ UNCHANGED unlock

Answer ==
  /\ ~down /\ UNCHANGED presses
  /\ \E r \in flight, how \in {"ok", "no", "lost"} :
       \/ Candidates(r, how) \/ Applied(r, how)
       \/ Gate(r, how) \/ Count(r, how) \/ Generated(r, how)
       \/ StatusSet(r, how) \/ Look(r, how) \/ Mode(r, how) \/ Unlocked(r, how)
       \/ Revised(r, how) \/ Unavailable(r, how)

ScheduleNext ==
  \/ \E r \in Rows : OpenSlot(r)
  \/ \E t \in Staff : Pick(t)
  \/ CloseSlot \/ TypeReason \/ ToggleException \/ ProceedToReview \/ Back \/ ApplySlot
  \/ \E m \in Modes : Choose(m)
  \/ OpenGenerate \/ CloseGenerate \/ ConfirmGenerate \/ Proceed \/ SetStatus
  \/ OpenEmergency \/ CloseEmergency \/ TypeSecret \/ SubmitEmergency
  \/ \E mode \in {"begin", "end"} : OpenRevision(mode)
  \/ CloseRevision \/ TypeRevision \/ SubmitRevision \/ OpenUnavailable
  \/ Answer

-----------------------------------------------------------------------------
(* Properties *)

Under(what) == {r \in flight : r.do \in what}

\* What is sent for a slot was picked, and its reason typed, in the dialog of that slot,
\* and the dialog never said of the teacher that no override can bypass it (applySlot).
AppliedAsPicked ==
  \A r \in Under({"apply"}) :
    r.in = r.row /\ r.reason \in {None, r.row} /\ r.says # "hard"

\* One generation at a time, from the gate to the answer, and the page says so exactly
\* while it lasts (schedule-actions.tsx, `generating`).
OneGeneration ==
  /\ Cardinality(Under({"gate", "count", "generate"})) <= 1
  /\ ~down => (gen.generating <=> Under({"gate", "count", "generate"}) # {})

\* The secret does not outlive its dialog; an emergency correction is begun or ended after
\* a look at the window made for its dialog, and a revision is begun with a reason typed
\* since its dialog was opened.
WindowsAreDeliberate ==
  /\ unlock.secret => unlock.open
  /\ \A r \in Under({"unlock"}) : r.asked
  /\ \A r \in Under({"revise"}) : r.of.mode = "begin" => r.of.reason = r.of.nth
=============================================================================
