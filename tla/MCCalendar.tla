----------------------------- MODULE MCCalendar -----------------------------
(* A small instance of Scheduling with its calendar: a Sunday with the end   *)
(* of a month, and the Monday after it.                                      *)
EXTENDS Calendar, MCScheduling

MCSunday == 0
MCMonthStarts == {-5, 1, 6}
MCDays == {-1, 0, 1, 2}
=============================================================================
