------------------------ MODULE MCScheduleCorrection ------------------------
(* Instances of ScheduleCorrection for TLC: an administrator and a super    *)
(* administrator, each with the one role of its account.                     *)
EXTENDS ScheduleCorrection

CONSTANTS ana, sol   \* ADMIN and SUPER_ADMIN

RolesOfUsers ==
  [u \in Users |-> IF u = sol THEN {"SUPER_ADMIN"} ELSE {"ADMIN"}]
=============================================================================
