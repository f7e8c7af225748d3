------------------------------ MODULE Calendar ------------------------------
(***************************************************************************)
(* GET /interviews/calendar (server/router.go) and Service.Calendar        *)
(* (interview/service.go), read from the interviews of Scheduling.         *)
(*                                                                         *)
(* The answer is one read of the interviews.  Days are numbers, and a day  *)
(* is DayLength instants long; the anchor of a request counts with its     *)
(* day only.  Where weeks and months begin among the numbers is given by   *)
(* the constants, as it is by package time in the code.                    *)
(***************************************************************************)
EXTENDS Scheduling, Integers, FiniteSets

CONSTANTS
  DayLength,    \* number of instants of a day
  Sunday,       \* a day that is a Sunday
  MonthStarts,  \* the days that are the first of a month
  Days          \* the days asked for

ASSUME CalendarAssumption ==
  /\ DayLength \in Nat \ {0}
  /\ Sunday \in Int
  /\ Days \subseteq Int
  /\ MonthStarts \subseteq Int
  /\ \A d \in Days : (\E m \in MonthStarts : m <= d) /\ (\E m \in MonthStarts : d < m)

Weekday(d) == (d - Sunday) % 7   \* Sunday is 0

StartOfMonth(d) == CHOOSE m \in MonthStarts :
                     m <= d /\ \A n \in MonthStarts : n <= d => n <= m
NextMonth(m) == CHOOSE n \in MonthStarts :
                  m < n /\ \A k \in MonthStarts : m < k => n <= k

(* Mutant: weeks begin the day after a Sunday, for Sundays too. *)
RangeOfSundayIsNextWeek(view, d) ==
  CASE view = "day" -> [from |-> d, to |-> d + 1]
    [] view = "month" -> [from |-> StartOfMonth(d), to |-> NextMonth(StartOfMonth(d))]
    [] view = "week" -> LET start == d - (Weekday(d) - 1)
                        IN [from |-> start, to |-> start + 7]

(* The first day of the slice, and the first after it. *)
calendarRange(view, d) ==
  CASE view = "day" -> [from |-> d, to |-> d + 1]
    [] view = "month" -> [from |-> StartOfMonth(d), to |-> NextMonth(StartOfMonth(d))]
    [] view = "week" -> LET weekday == IF Weekday(d) = 0 THEN 7 ELSE Weekday(d)
                            start == d - (weekday - 1)
                        IN [from |-> start, to |-> start + 7]

Slice(view, d) == LET range == calendarRange(view, d)
                  IN [starts |-> range.from * DayLength, ends |-> range.to * DayLength]

earlier(j, k) == \/ interviews[j].starts < interviews[k].starts
                 \/ interviews[j].starts = interviews[k].starts /\ j < k

(* The ids of the interviews that overlap the slice, cancelled ones        *)
(* included, each after the ones that are earlier.                         *)
CalendarItems(view, d) ==
  LET items == {k \in DOMAIN interviews : overlaps(interviews[k], Slice(view, d))}
      place(k) == Cardinality({j \in items : earlier(j, k)}) + 1
  IN [n \in 1..Cardinality(items) |-> CHOOSE k \in items : place(k) = n]
-----------------------------------------------------------------------------
(* A week is the days from a Monday to the next Sunday. *)
SameWeek(d) == {e \in (d - 6)..(d + 6) :
                  (e - Sunday - 1) \div 7 = (d - Sunday - 1) \div 7}
SameMonth(d) == LET start == StartOfMonth(d)
                IN start..(NextMonth(start) - 1)

ShownOn(days) == UNION {Range(CalendarItems("day", d)) : d \in days}

(* The week and the month of any day show the interviews that their days   *)
(* show, also if one lies across midnight at the end of the week or month  *)
(* (README, Interview scheduling: "Supports day/week/month calendar slices *)
(* for interview events"); and whatever refuses a request as a conflict is *)
(* shown on one of the days that the request is for.                       *)
CalendarShowsItsDays ==
  /\ \A d \in Days :
       /\ Range(CalendarItems("week", d)) = ShownOn(SameWeek(d))
       /\ Range(CalendarItems("month", d)) = ShownOn(SameMonth(d))
  /\ \A w \in Workers : pc[w] = "begun" =>
       Conflicts(item[w], target[w]) \subseteq
         ShownOn((item[w].starts \div DayLength)..(item[w].ends \div DayLength))
=============================================================================
