------------------------------ MODULE NotificationBell ------------------------------
(***************************************************************************)
(* The bell of one user (components/notification-bell.tsx) beside the      *)
(* scans that fill it.  It loads the list when it is mounted, opened and   *)
(* when the window gets the focus, so that several loads may be on their   *)
(* way; their answers arrive in any order.                                 *)
(***************************************************************************)
EXTENDS Notices

CONSTANTS
  Viewer,     \* the user who looks at the bell
  MaxLoads,   \* bound: requests of the bell for the list
  MaxMarks    \* bound: clicks on "mark read"

ASSUME BellAssumption == Viewer \in Users /\ MaxLoads \in Nat /\ MaxMarks \in Nat

VARIABLES
  mounted,    \* the bell is on a page; bound: then one day of scans that do not fail
  read,      \* notifications with a readAt
  loads,     \* lists on their way: sets of [note, read]
  items,     \* the list of the panel
  marking,   \* the notifications of the request under way, its button is disabled
  answered,  \* that request has been served
  loaded, marks

bellVars == <<mounted, read, loads, items, marking, answered, loaded, marks>>
vars == <<noticeVars, bellVars>>

\* listNotificationsForUser
ListOf(u) == {[note |-> m, read |-> m \in read] : m \in {k \in sent : k.to = u}}

InitBell ==
  /\ InitNotices
  /\ mounted \in BOOLEAN
  /\ read = {} /\ loads = {} /\ items = {} /\ marking = {} /\ answered = FALSE
  /\ loaded = 0 /\ marks = 0

\* load: the server reads the list when the request arrives.
Load ==
  /\ mounted /\ loaded < MaxLoads
  /\ loaded' = loaded + 1
  /\ loads' = loads \union {ListOf(Viewer)}
  /\ UNCHANGED <<noticeVars, mounted, read, items, marking, answered, marks>>

\* Its answer replaces the list, or is lost and leaves it alone.
Loaded ==
  /\ \E l \in loads :
       /\ loads' = loads \ {l}
       /\ items' \in {l, items}
  /\ UNCHANGED <<noticeVars, mounted, read, marking, answered, loaded, marks>>

\* Mutant: the list says "read" before the server has.
MarkRead_Optimistic(i) ==
  /\ marks < MaxMarks
  /\ marking = {} /\ i \in items /\ ~i.read
  /\ marks' = marks + 1
  /\ marking' = {i.note}
  /\ items' = (items \ {i}) \union {[i EXCEPT !.read = TRUE]}
  /\ answered' = FALSE
  /\ UNCHANGED <<noticeVars, mounted, read, loads, loaded>>

\* markRead
MarkRead(i) ==
  /\ marks < MaxMarks
  /\ marking = {} /\ i \in items /\ ~i.read
  /\ marks' = marks + 1
  /\ marking' = {i.note}
  /\ answered' = FALSE
  /\ UNCHANGED <<noticeVars, mounted, read, loads, items, loaded>>

\* markNotificationsRead updates the user's own rows that are unread.
Serve ==
  /\ marking # {} /\ ~answered
  /\ read' = read \union {m \in marking : m \in sent /\ m.to = Viewer}
  /\ answered' = TRUE
  /\ UNCHANGED <<noticeVars, mounted, loads, items, marking, loaded, marks>>

\* Only an answer that is ok changes the list; the request may be lost before or after.
Marked ==
  /\ marking # {}
  /\ items' \in {items, IF answered THEN {IF i.note \in marking THEN [i EXCEPT !.read = TRUE] ELSE i
                                            : i \in items} ELSE items}
  /\ marking' = {}
  /\ answered' = FALSE
  /\ UNCHANGED <<noticeVars, mounted, read, loads, loaded, marks>>

NextBell ==
  \/ /\ NextNotices
     /\ mounted => <<scans, events, day>>' = <<scans, events, day>>
     /\ UNCHANGED bellVars
  \/ Load \/ Loaded \/ Serve \/ Marked
  \/ \E i \in items : MarkRead(i)

SpecBell == InitBell /\ [][NextBell]_vars /\ Fairness

-----------------------------------------------------------------------------
(* Properties *)

\* No notification looks read that is not: the answers of loads and of marks may
\* cross in any order, and a failed mark leaves the reminder where it was.
NothingLooksRead ==
  /\ \A i \in items : i.read => i.note \in read
  /\ \A i \in items : i.note \in sent /\ i.note.to = Viewer
=============================================================================
