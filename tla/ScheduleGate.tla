---------------------------- MODULE ScheduleGate ----------------------------
(***************************************************************************)
(* What the correction service promises about the schedule of one week,    *)
(* whatever the interleaving of the requests that reach it:                *)
(*                                                                         *)
(*  - at most one correction window is open, and it opens in the status    *)
(*    it was asked for;                                                    *)
(*  - a request may revise the schedule only after it was admitted, and it *)
(*    is admitted only while the week is DRAFT or while its user holds the *)
(*    open window;                                                         *)
(*  - the schedule is regenerated only while the week is DRAFT.            *)
(*                                                                         *)
(* The promise says nothing about the order of the statuses: setWeekStatus *)
(* does not keep one when two of its calls overlap (see README).           *)
(***************************************************************************)
EXTENDS Naturals

CONSTANTS
  Users,     \* accounts that call the API
  Requests   \* request handlers that may be in flight at the same time

VARIABLES
  status,    \* weeks.status
  window,    \* the open correction window, or NoWindow
  admitted,  \* requests, with their users, that passed the gate and have not finished
  revision   \* number of committed changes of the week's assignments

gateVars == <<status, window, admitted, revision>>

Statuses == {"DRAFT", "FINALIZED", "PUBLISHED"}

\* The two kinds of window; each is named after the status it opens in.
WindowRoles == {"FINALIZED", "PUBLISHED"}

NoWindow == [open |-> FALSE]

Window(u, r) == [open |-> TRUE, holder |-> u, role |-> r]

Init ==
  /\ status = "DRAFT"
  /\ window = NoWindow
  /\ admitted = {}
  /\ revision = 0

Move(s) ==
  /\ status' = s
  /\ UNCHANGED <<window, admitted, revision>>

Open(u, r) ==
  /\ window = NoWindow
  /\ status = r
  /\ window' = Window(u, r)
  /\ UNCHANGED <<status, admitted, revision>>

\* By endScheduleCorrection, or because the time to live has elapsed.
Close ==
  /\ window # NoWindow
  /\ window' = NoWindow
  /\ UNCHANGED <<status, admitted, revision>>

Admit(p, u) ==
  /\ \/ status = "DRAFT"
     \/ \E r \in WindowRoles : window = Window(u, r)
  /\ admitted' = admitted \union {<<p, u>>}
  /\ UNCHANGED <<status, window, revision>>

Revise(p, u) ==
  /\ <<p, u>> \in admitted
  /\ admitted' = admitted \ {<<p, u>>}
  /\ revision' = revision + 1
  /\ UNCHANGED <<status, window>>

\* The request fails after it was admitted and rolls back.
Withdraw(p, u) ==
  /\ <<p, u>> \in admitted
  /\ admitted' = admitted \ {<<p, u>>}
  /\ UNCHANGED <<status, window, revision>>

Regenerate ==
  /\ status = "DRAFT"
  /\ revision' = revision + 1
  /\ UNCHANGED <<status, window, admitted>>

Next ==
  \/ \E s \in Statuses : Move(s)
  \/ \E u \in Users, r \in WindowRoles : Open(u, r)
  \/ Close
  \/ \E p \in Requests, u \in Users : Admit(p, u) \/ Revise(p, u) \/ Withdraw(p, u)
  \/ Regenerate

Spec == Init /\ [][Next]_gateVars
=============================================================================
