-------------------------------- MODULE AnnualScreen --------------------------------
(***************************************************************************)
(* The annual matrix (annual-client.tsx): the dialogs of a cell, one       *)
(* request at a time, and the scrolling of the three tables and of the bar *)
(* on top of the first, kept at one position.                              *)
(***************************************************************************)
EXTENDS Naturals, FiniteSets, FiniteSetsExt

CONSTANTS
  Cells,          \* assignments of the matrix
  Heirs,          \* teachers who can replace
  Tracks, Bar,    \* what scrolls together: the tables and the bar
  Content,        \* [Tracks -> Nat]: how far the own content of a table would scroll
  MaxClicks,      \* bound: clicks in the dialogs
  MaxScrolls      \* bound: scrolls by the user

NoOne == "no one"

ASSUME AnnualAssumption ==
  /\ Cells # {} /\ NoOne \notin Cells \union Heirs \union Tracks
  /\ IsFiniteSet(Tracks) /\ Bar \in Tracks /\ Tracks # {Bar} /\ Content \in [Tracks -> Nat]

VARIABLES
  open,       \* the cells whose week can be written, by the page as rendered
  step,       \* the dialog: [kind, cell, mode, list]
  chosen,     \* [reason, heir]: of the radio buttons, with the cell they were set for
  asked,      \* the request under way: [do, cell, reason, heir]
  error,      \* a failure is to be shown
  clicks,
  at,         \* the position of each track
  echo,       \* the position this page gave it, as tagged
  moved,      \* tracks with a scroll event to come
  source,     \* the track of the animation frame asked for
  given,      \* history: where the user last put each track since all was at rest
  scrolls

dialogVars == <<open, step, chosen, asked, error, clicks>>
scrollVars == <<at, echo, moved, source, given, scrolls>>
annualVars == <<dialogVars, scrollVars>>

NoStep == [kind |-> "none", cell |-> NoOne, mode |-> "", list |-> {}]
NoChoice == [reason |-> NoOne, heir |-> NoOne, for |-> NoOne]
NoAsk == [do |-> "none", cell |-> NoOne, reason |-> NoOne, heir |-> NoOne, for |-> NoOne]
NoTag == 1 + Max({Content[t] : t \in Tracks})     \* no position

busy == asked # NoAsk

DialogFresh ==
  /\ open = Cells /\ step = NoStep /\ chosen = NoChoice /\ asked = NoAsk
  /\ error = FALSE /\ clicks = 0

-----------------------------------------------------------------------------
(* The dialogs of a cell *)

Click == clicks < MaxClicks /\ clicks' = clicks + 1
Set(s, c) == step' = s /\ chosen' = c /\ UNCHANGED <<open, asked, error>>

\* Mutant: a cell opens whatever is under way.
OpenAction_WhileBusy(c) ==
  /\ Click /\ c \in open
  /\ step' = [NoStep EXCEPT !.kind = "action", !.cell = c]
  /\ error' = FALSE /\ UNCHANGED <<open, chosen, asked>>

OpenAction(c) ==
  /\ Click /\ c \in open /\ ~busy
  /\ step' = [NoStep EXCEPT !.kind = "action", !.cell = c]
  /\ error' = FALSE /\ UNCHANGED <<open, chosen, asked>>

\* closeModal: Cancel, the backdrop or Escape, whatever is under way.
CloseModal ==
  /\ step # NoStep
  /\ step' = NoStep /\ chosen' = NoChoice /\ error' = FALSE
  /\ UNCHANGED <<open, asked, clicks>>

ChooseClear ==
  /\ Click /\ step.kind = "action" /\ ~busy
  /\ Set([step EXCEPT !.kind = "clear-reason"], [chosen EXCEPT !.reason = NoOne])

ChooseModify ==
  /\ Click /\ step.kind = "action" /\ ~busy
  /\ Set([step EXCEPT !.kind = "absent-reason", !.mode = "modify"], NoChoice)

\* The radio buttons can be set while a request is under way.
SetReason ==
  /\ Click /\ step.kind \in {"clear-reason", "absent-reason"}
  /\ Set(step, [chosen EXCEPT !.reason = step.cell])

SetHeir(h) ==
  /\ Click /\ step.kind = "replacement" /\ h \in step.list
  /\ Set(step, [chosen EXCEPT !.heir = h, !.for = step.cell])

Ask(what) ==
  /\ asked' = [do |-> what, cell |-> step.cell, heir |-> chosen.heir, for |-> chosen.for,
               reason |-> IF step.kind = "replacement" THEN step.cell ELSE chosen.reason]
  /\ UNCHANGED <<open, step, chosen, error>>

ClearOf(what) ==
  /\ Click /\ step.kind = "clear-reason" /\ ~busy /\ chosen.reason # NoOne
  /\ IF what = "change" THEN Ask("clear")
     ELSE Set([step EXCEPT !.kind = "absent-reason", !.mode = "clear"],
              [chosen EXCEPT !.reason = NoOne])

Absent ==
  /\ Click /\ step.kind = "absent-reason" /\ ~busy /\ chosen.reason # NoOne
  /\ Ask(IF step.mode = "clear" THEN "clear" ELSE "load")

Replace ==
  /\ Click /\ step.kind = "replacement" /\ ~busy /\ chosen.heir # NoOne
  /\ Ask("replace")

\* Any answer of a change closes the dialog, and a failure with it: the message set
\* for it is cleared again by closeModal.  Refreshed, the page may find weeks locked.
Changed ==
  /\ asked.do \in {"clear", "replace"}
  /\ open' \in SUBSET Cells
  /\ asked' = NoAsk /\ step' = NoStep /\ chosen' = NoChoice /\ error' = FALSE
  /\ UNCHANGED clicks

\* The list opens the last dialog, also one cancelled meanwhile.
ListLoaded(list) ==
  /\ asked.do = "load"
  /\ step' = [kind |-> "replacement", cell |-> asked.cell, mode |-> "", list |-> list]
  /\ chosen' = [chosen EXCEPT !.heir = NoOne]
  /\ asked' = NoAsk /\ UNCHANGED <<open, error, clicks>>

LoadFailed ==
  /\ asked.do = "load"
  /\ asked' = NoAsk /\ step' = NoStep /\ chosen' = NoChoice /\ error' = FALSE
  /\ UNCHANGED <<open, clicks>>

DialogNext ==
  \/ \E c \in Cells : OpenAction(c)
  \/ \E h \in Heirs : SetHeir(h)
  \/ \E what \in {"change", "absent"} : ClearOf(what)
  \/ \E list \in SUBSET Heirs : ListLoaded(list)
  \/ CloseModal \/ ChooseClear \/ ChooseModify \/ SetReason \/ Absent \/ Replace
  \/ Changed \/ LoadFailed

-----------------------------------------------------------------------------
(* Scrolling *)

\* Mutant: every table has columns of its own width.
Reach_Own(t) == Content[t]

\* A week has one width in all tables, the widest, and the bar on top is made as long as
\* the first table: all tracks scroll as far.
Reach(t) == Max({Content[u] : u \in Tracks})

Least(a, b) == IF a < b THEN a ELSE b
Rest == moved = {} /\ source = NoOne

\* On opening, the tables are put at the current week, without a tag, and the bar follows.
Opened(week) ==
  /\ at = [t \in Tracks |-> IF t = Bar THEN 0 ELSE Least(week, Reach(t))]
  /\ moved = {t \in Tracks : at[t] # 0}
  /\ echo = [t \in Tracks |-> NoTag] /\ source = NoOne
  /\ given = [t \in Tracks |-> Least(week, Reach(t))] /\ scrolls = 0

\* Positions do not change between the events of a frame and its animation callback.
UserScrolls(t, x) ==
  /\ scrolls < MaxScrolls /\ source = NoOne /\ x # at[t]
  /\ at' = [at EXCEPT ![t] = x]
  /\ moved' = moved \union {t}
  /\ given' = [u \in Tracks |-> IF u = t THEN x ELSE IF Rest THEN NoTag ELSE given[u]]
  /\ scrolls' = scrolls + 1
  /\ UNCHANGED <<echo, source>>

\* Mutant: an event is taken for the user's whoever caused it.
OnScroll_NoEcho(t) ==
  /\ t \in moved
  /\ moved' = moved \ {t}
  /\ source' = t
  /\ UNCHANGED <<at, echo, given, scrolls>>

\* The events of a frame come in any order.
OnScroll(t) ==
  /\ t \in moved
  /\ moved' = moved \ {t}
  /\ IF at[t] = echo[t] THEN UNCHANGED <<echo, source>>
     ELSE echo' = [echo EXCEPT ![t] = NoTag] /\ source' = t
  /\ UNCHANGED <<at, given, scrolls>>

\* applySyncFrom, after the events of the frame: a position beyond the end is cut off.
Frame ==
  /\ source # NoOne /\ moved = {}
  /\ LET left == at[source]
         follow == {t \in Tracks \ {source} : at[t] # left}
         where(t) == Least(left, Reach(t))
     IN  /\ echo' = [t \in Tracks |-> IF t \in follow THEN left ELSE echo[t]]
         /\ at' = [t \in Tracks |-> IF t \in follow THEN where(t) ELSE at[t]]
         /\ moved' = moved \union {t \in follow : where(t) # at[t]}
  /\ source' = NoOne
  /\ UNCHANGED <<given, scrolls>>

ScrollNext ==
  \/ \E t \in Tracks : \E x \in 0..Reach(t) : UserScrolls(t, x)
  \/ \E t \in Tracks : OnScroll(t)
  \/ Frame

-----------------------------------------------------------------------------
(* Properties *)

\* A change is asked for with the reason and the replacement chosen for its own cell, and
\* its answer never closes, nor its list opens over, the dialog of another one.
OwnCellOnly ==
  busy => /\ asked.reason = asked.cell
          /\ asked.do = "replace" => asked.for = asked.cell
          /\ step # NoStep => step.cell = asked.cell

\* When scrolling has come to rest, all tracks stand where the user put one of them.
RestsWhereScrolled ==
  Rest => \E u \in Tracks : \A t \in Tracks : at[t] = given[u]
=============================================================================
