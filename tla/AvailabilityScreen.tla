----------------------------- MODULE AvailabilityScreen -----------------------------
(***************************************************************************)
(* The weekly availability page: the filter form above the list            *)
(* (filter-form.tsx), which writes what is chosen into the URL, the links   *)
(* to other weeks (availability/page.tsx), and the editor with its unsaved  *)
(* drafts (availability-editor.tsx).                                       *)
(*                                                                         *)
(* The links change only the query of the URL: the framework keeps both     *)
(* components, with their state, and renders them with new values.  A later *)
(* navigation supersedes one under way.                                    *)
(***************************************************************************)
EXTENDS Naturals, Sequences, SequencesExt

CONSTANTS
  Weeks,
  Texts,          \* what can be typed into the search
  Selects,        \* what can be selected
  Encoded,        \* the teachers of the list
  MaxInputs       \* bound: what the user does

Blank == "blank"

ASSUME AvailabilityScreenAssumption ==
  /\ Weeks # {} /\ 0 \notin Weeks /\ Blank \notin Texts \union Selects

VARIABLES
  shown,     \* what the page was rendered for: [week, q, s]
  going,     \* where the router is on its way to
  local,     \* what the controls show: [q, s]
  applied,   \* appliedKey: what the form takes the URL to hold
  inFlight,  \* a push of the form has not been acknowledged
  timer,     \* the debounce as the form knows it: a sequence of at most one push
  loose,     \* timeouts the form no longer knows, older than timer
  mixed,     \* history: a link or a select came before the form had settled, or an input
             \* after a link before its page was there
  want,      \* history: the filters the user last asked for
  dirty,     \* the teachers with unsaved drafts
  saving,    \* the requests of the editor under way
  inputs

filterVars == <<shown, going, local, applied, inFlight, timer, loose, mixed, want>>
editorVars == <<dirty, saving>>
availScreenVars == <<filterVars, editorVars, inputs>>

Nowhere == [week |-> 0, q |-> Blank, s |-> Blank]
Seed(page) == [q |-> page.q, s |-> page.s]
At(week, f) == [week |-> week, q |-> f.q, s |-> f.s]
First == CHOOSE w \in Weeks : TRUE

AvailScreenInit ==
  /\ shown = At(First, [q |-> Blank, s |-> Blank]) /\ going = Nowhere
  /\ local = Seed(shown) /\ applied = local
  /\ inFlight = FALSE /\ timer = <<>> /\ loose = <<>> /\ mixed = FALSE /\ want = local
  /\ dirty = {} /\ saving = {} /\ inputs = 0

Input == inputs < MaxInputs /\ inputs' = inputs + 1
AtRest == going = Nowhere /\ timer = <<>>          \* as far as the form knows
Settled == AtRest /\ loose = <<>>
Leaving == going # Nowhere /\ ~inFlight            \* a link was followed

-----------------------------------------------------------------------------
(* FilterForm *)

\* Mutant: the page's values are taken over whatever is under way.
Effect_AnyTime(page, l, a, f, t) ==
  IF Seed(page) = a THEN local' = l /\ applied' = a /\ inFlight' = FALSE
  ELSE local' = Seed(page) /\ applied' = Seed(page) /\ inFlight' = f

\* The effect of every rendering: an acknowledged push, or values from elsewhere, which
\* are taken over unless a push or a debounce of the form is pending.
Effect(page, l, a, f, t) ==
  IF Seed(page) = a THEN local' = l /\ applied' = a /\ inFlight' = FALSE
  ELSE IF f \/ t # <<>> THEN local' = l /\ applied' = a /\ inFlight' = f
  ELSE local' = Seed(page) /\ applied' = Seed(page) /\ inFlight' = f

\* push forgets the debounce, it does not clear it.
Push(l, next, week, left) ==
  /\ going' = At(week, next)
  /\ timer' = <<>> /\ loose' = left
  /\ Effect(shown, l, next, TRUE, <<>>)
  /\ UNCHANGED shown

\* Each push carries the week of the rendering that armed it, by `preserve`.
OnText(x) ==
  /\ Input
  /\ timer' = <<[f |-> [local EXCEPT !.q = x], week |-> shown.week]>>
  /\ Effect(shown, [local EXCEPT !.q = x], applied, inFlight, timer')
  /\ mixed' = (mixed \/ Leaving) /\ want' = [want EXCEPT !.q = x]
  /\ UNCHANGED <<shown, going, loose, editorVars>>

OnSelect(y) ==
  /\ Input
  /\ Push([local EXCEPT !.s = y], [local EXCEPT !.s = y], shown.week, loose \o timer)
  /\ mixed' = (mixed \/ ~AtRest) /\ want' = [want EXCEPT !.s = y]
  /\ UNCHANGED editorVars

\* Mutant: Enter leaves the debounce running.
Submit_KeepsTimer ==
  /\ Input
  /\ Push(local, local, shown.week, loose \o timer)
  /\ mixed' = (mixed \/ Leaving)
  /\ UNCHANGED <<want, editorVars>>

\* Enter
Submit ==
  /\ Input
  /\ Push(local, local, shown.week, loose)
  /\ mixed' = (mixed \/ Leaving)
  /\ UNCHANGED <<want, editorVars>>

Timeout ==
  /\ loose \o timer # <<>>
  /\ LET due == Head(loose \o timer)
     IN  Push(local, due.f, due.week, IF loose # <<>> THEN Tail(loose) \o timer ELSE <<>>)
  /\ UNCHANGED <<mixed, want, editorVars, inputs>>

\* The links to other weeks, with the filters of the page, and Reset.
Follow(w, reset) ==
  /\ Input
  /\ reset => w = shown.week
  /\ going' = At(w, IF reset THEN [q |-> Blank, s |-> Blank] ELSE Seed(shown))
  /\ mixed' = (mixed \/ ~AtRest)
  /\ want' = IF reset THEN [q |-> Blank, s |-> Blank] ELSE want
  /\ UNCHANGED <<shown, local, applied, inFlight, timer, loose, editorVars>>

Arrive ==
  /\ going # Nowhere
  /\ shown' = going /\ going' = Nowhere
  /\ Effect(going, local, applied, inFlight, timer)
  /\ UNCHANGED <<timer, loose, mixed, want, editorVars, inputs>>

-----------------------------------------------------------------------------
(* AvailabilityEditor *)

\* Mutant: the fields can be changed while a save is under way.
Edit_WhilePending(t) ==
  /\ Input
  /\ dirty' = dirty \union {t}
  /\ UNCHANGED <<filterVars, saving>>

Edit(t) ==
  /\ Input /\ saving = {}
  /\ dirty' = dirty \union {t}
  /\ UNCHANGED <<filterVars, saving>>

ResetUnsaved ==
  /\ Input /\ saving = {}
  /\ dirty' = {}
  /\ UNCHANGED <<filterVars, saving>>

\* saveAll sends the drafts for the week of the page.
SaveAll ==
  /\ Input /\ saving = {} /\ dirty # {}
  /\ saving' = {[do |-> "save", week |-> shown.week, who |-> dirty]}
  /\ UNCHANGED <<filterVars, dirty>>

FillBlanks ==
  /\ Input /\ saving = {}
  /\ saving' = {[do |-> "fill", week |-> shown.week, who |-> {}]}
  /\ UNCHANGED <<filterVars, dirty>>

\* Saved, all drafts are gone; refused or lost, they stay.
Saved(r, ok) ==
  /\ r \in saving
  /\ saving' = saving \ {r}
  /\ dirty' = IF ok /\ r.do = "save" THEN {} ELSE dirty
  /\ UNCHANGED <<filterVars, inputs>>

AvailScreenNext ==
  \/ \E x \in Texts : OnText(x)
  \/ \E y \in Selects : OnSelect(y)
  \/ Submit \/ Timeout \/ Arrive
  \/ \E w \in Weeks, reset \in BOOLEAN : Follow(w, reset)
  \/ \E t \in Encoded : Edit(t)
  \/ ResetUnsaved \/ SaveAll \/ FillBlanks
  \/ \E r \in saving, ok \in BOOLEAN : Saved(r, ok)

-----------------------------------------------------------------------------
(* Properties *)

\* A user who lets the form come to rest before a select or a link gets the list filtered
\* by what was asked for last, and the controls say so, however keystrokes, pushes and
\* renderings meet: no keystroke is overwritten by an earlier answer.
FilterSettles ==
  Settled /\ ~mixed => Seed(shown) = want /\ local = want

\* A save takes no draft away that it did not carry.
DraftsKept ==
  [][\A r \in saving \ saving' :
       dirty \ dirty' \subseteq r.who]_availScreenVars
=============================================================================
