------------------------------ MODULE Schedule ------------------------------
(***************************************************************************)
(* The dates of recurring billing: compute_next_due, over a calendar.      *)
(*                                                                         *)
(* A date is a day number.  The calendar gives, for every day, its place   *)
(* in its month and the length of that month, so that the first day of the *)
(* month of d is d - DayOf[d] + 1.  Hours are left out: a due date keeps   *)
(* the hour of the one it is computed from.                                *)
(***************************************************************************)
EXTENDS Integers, FiniteSets

CONSTANTS
  Days,      \* the days the calendar covers
  DayOf,     \* day of the month
  LengthOf,  \* number of days of the month of a day
  Week,      \* days of a week
  DefaultInterval,  \* of a CUSTOM plan that gives none
  Nothing    \* NULL

\* The months follow one another: they are runs of days, each as long as
\* LengthOf says.
ASSUME CalendarAssumption ==
  /\ Days \subseteq Int
  /\ DayOf \in [Days -> Nat] /\ LengthOf \in [Days -> Nat]
  /\ \A d \in Days :
       /\ DayOf[d] \in 1..LengthOf[d]
       /\ \A k \in 1..LengthOf[d] :
            d - DayOf[d] + k \in Days =>
              /\ DayOf[d - DayOf[d] + k] = k
              /\ LengthOf[d - DayOf[d] + k] = LengthOf[d]
       /\ d - DayOf[d] + LengthOf[d] + 1 \in Days =>
            DayOf[d - DayOf[d] + LengthOf[d] + 1] = 1
  /\ Week \in Nat \ {0} /\ DefaultInterval \in Nat \ {0}
  /\ Nothing \notin Int

\* RecurringConfig: recurrence_type, and day_of_month, day_of_week or
\* interval_days, which may be any integer.  The days of a month start at 1.
Plan == [type : {"MONTHLY", "WEEKLY", "CUSTOM", "TERM"},
         day : (Nat \ {0}) \cup {Nothing}, weekday : 0..(Week - 1) \cup {Nothing},
         every : Int \cup {Nothing}]

Given(value, default) == IF value = Nothing THEN default ELSE value

Lesser(a, b) == IF a <= b THEN a ELSE b

BeforeMonth(d)    == d - DayOf[d]
NextMonthStart(d) == BeforeMonth(d) + LengthOf[d] + 1

\* A day of the month of d, or its last day when it is shorter.
InMonth(d, day) == BeforeMonth(d) + Lesser(day, LengthOf[d])

\* Mutant of Monthly: the date is compared before it is clamped, so that the last
\* day of a short month is found again.
MonthlyLate(day, from) ==
  IF BeforeMonth(from) + day > from THEN InMonth(from, day)
  ELSE InMonth(NextMonthStart(from), day)

Monthly(day, from) ==
  IF InMonth(from, day) > from THEN InMonth(from, day)
  ELSE InMonth(NextMonthStart(from), day)

Weekly(weekday, from) ==
  LET ahead == (weekday - (from % Week)) % Week
  IN  from + IF ahead = 0 THEN Week ELSE ahead

\* `interval_days or 30`, in days of a CUSTOM plan.
Interval(plan) == IF plan.every \in {0, Nothing} THEN DefaultInterval ELSE plan.every

\* The dates of such a plan go back in time.
Backwards(plan) == plan.type = "CUSTOM" /\ Interval(plan) < 0

NextDue(plan, from) ==
  CASE plan.type = "MONTHLY" -> Monthly(Given(plan.day, DayOf[from]), from)
    [] plan.type = "WEEKLY"  -> Weekly(Given(plan.weekday, from % Week), from)
    [] plan.type = "CUSTOM"  -> from + Interval(plan)
    [] plan.type = "TERM"    -> Nothing
=============================================================================
