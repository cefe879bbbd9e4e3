---------------------------- MODULE MCObligations ----------------------------
(* A small instance of Obligations for TLC: months of three and two days by   *)
(* turns, day 0 being the last of a long one, and weeks of two days.          *)
EXTENDS Obligations, TLC

MCDays     == -2..9
MCInMonths == [d \in MCDays |-> (d + 2) % 5]
MCDayOf    == [d \in MCDays |-> 1 + IF MCInMonths[d] < 3 THEN MCInMonths[d] ELSE MCInMonths[d] - 3]
MCLengthOf == [d \in MCDays |-> IF MCInMonths[d] < 3 THEN 3 ELSE 2]

NoPlan  == [type |-> "MONTHLY", day |-> Nothing, weekday |-> Nothing, every |-> Nothing]
MCPlans == {NoPlan, [NoPlan EXCEPT !.day = 3], [NoPlan EXCEPT !.type = "WEEKLY"],
            [NoPlan EXCEPT !.type = "CUSTOM", !.every = 1],
            [NoPlan EXCEPT !.type = "CUSTOM", !.every = -1], [NoPlan EXCEPT !.type = "TERM"]}
MCSeries == {1}
MCOwner  == [c \in MCSeries |-> "p1"]
MCRent   == [c \in MCSeries |-> 1]
MCDates  == {1}
=============================================================================
