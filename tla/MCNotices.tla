------------------------------- MODULE MCNotices -------------------------------
\* Instances of the bell and the notices for TLC: the end of a February without a 29th.
EXTENDS NotificationBell

MCSubjects ==
  { [id |-> "locale", kind |-> "DAKO", date |-> [y |-> 1990, m |-> 2, d |-> 28]],
    [id |-> "guro1", kind |-> "OATH", date |-> [y |-> 2012, m |-> 2, d |-> 29]],
    [id |-> "guro2", kind |-> "OATH", date |-> [y |-> 2010, m |-> 2, d |-> 28]] }

MCFirstDay == DateUTC(2023, 2, 27)
MCLastDay == DateUTC(2023, 2, 28)
=============================================================================
