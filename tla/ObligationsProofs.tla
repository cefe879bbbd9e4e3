-------------------------- MODULE ObligationsProofs --------------------------
(***************************************************************************)
(* Proofs about Schedule and Obligations, for any payers, series, plans    *)
(* and calendar: however requests, payments, crashes and the two jobs      *)
(* interleave, the cycles of a series form one chain whose dates advance,  *)
(* what payers owe is explained by what was billed and paid until a        *)
(* session commits over a row that changed since it read it, and no        *)
(* obligation is reminded of twice a day.                                  *)
(***************************************************************************)
EXTENDS Obligations, SumsProofs, FiniteSetTheorems, SequenceTheorems, TLAPS

-----------------------------------------------------------------------------
(* The calendar: compute_next_due never repeats a cycle and never skips one, *)
(* for every calendar whose months follow one another.                       *)

\* The day a monthly plan bills in the month of d: its own, or the last of a shorter
\* month.
Bills(own, d) == DayOf[d] = Lesser(own, LengthOf[d])

LEMMA DayType ==
  ASSUME NEW d \in Days
  PROVE  /\ d \in Int /\ DayOf[d] \in Nat /\ LengthOf[d] \in Nat
         /\ 1 <= DayOf[d] /\ DayOf[d] <= LengthOf[d]
  BY CalendarAssumption

\* The days of the month of d, in order.
LEMMA SameMonth ==
  ASSUME NEW d \in Days, NEW e \in Days, BeforeMonth(d) < e, e < NextMonthStart(d)
  PROVE  DayOf[e] = e - BeforeMonth(d) /\ LengthOf[e] = LengthOf[d]
<1> DEFINE k == e - BeforeMonth(d)
<1>1. k \in 1..LengthOf[d] /\ d - DayOf[d] + k = e
  BY DayType DEF BeforeMonth, NextMonthStart
<1> QED
  BY <1>1, CalendarAssumption DEF BeforeMonth

\* The month after that of d begins with its first day.
LEMMA NextMonth ==
  ASSUME NEW d \in Days, NextMonthStart(d) \in Days
  PROVE  /\ DayOf[NextMonthStart(d)] = 1
         /\ BeforeMonth(NextMonthStart(d)) = NextMonthStart(d) - 1
         /\ NextMonthStart(d) > d
  BY DayType, CalendarAssumption DEF BeforeMonth, NextMonthStart

\* The month's own day is in the month.
LEMMA InMonthBounds ==
  ASSUME NEW d \in Days, NEW own \in Nat \ {0}
  PROVE  /\ InMonth(d, own) \in Int
         /\ BeforeMonth(d) < InMonth(d, own) /\ InMonth(d, own) < NextMonthStart(d)
  BY DayType DEF InMonth, BeforeMonth, NextMonthStart, Lesser

\* A monthly plan goes on to a later day; with day_of_month above the length of a month
\* too, where the day is clamped before it is compared.
LEMMA MonthlyLater ==
  ASSUME NEW from \in Days, NextMonthStart(from) \in Days, NEW own \in Nat \ {0}
  PROVE  Monthly(own, from) \in Int /\ Monthly(own, from) > from
<1>1. CASE InMonth(from, own) > from
  BY <1>1, InMonthBounds DEF Monthly
<1>2. CASE ~(InMonth(from, own) > from)
  <2>1. Monthly(own, from) = InMonth(NextMonthStart(from), own)
    BY <1>2 DEF Monthly
  <2> QED
    BY <2>1, InMonthBounds, NextMonth, DayType DEF NextMonthStart, BeforeMonth
<1> QED
  BY <1>1, <1>2

\* The day found is the plan's day of its month, or the last of a shorter one.
LEMMA MonthlyBills ==
  ASSUME NEW from \in Days, NextMonthStart(from) \in Days, NEW own \in Nat \ {0},
         Monthly(own, from) \in Days
  PROVE  Bills(own, Monthly(own, from))
<1>1. ASSUME NEW d \in Days, InMonth(d, own) \in Days PROVE Bills(own, InMonth(d, own))
  <2>1. DayOf[InMonth(d, own)] = InMonth(d, own) - BeforeMonth(d)
        /\ LengthOf[InMonth(d, own)] = LengthOf[d]
    BY <1>1, InMonthBounds, SameMonth
  <2> QED
    BY <2>1, DayType DEF InMonth, BeforeMonth, Bills, Lesser
<1> QED
  BY <1>1 DEF Monthly

\* No day between is one.
LEMMA MonthlySkipsNone ==
  ASSUME NEW from \in Days, NextMonthStart(from) \in Days, NEW own \in Nat \ {0},
         NEW d \in Days, from < d, d < Monthly(own, from)
  PROVE  ~Bills(own, d)
<1> DEFINE start == NextMonthStart(from)
<1>1. CASE InMonth(from, own) > from
  <2>1. d < InMonth(from, own)
    BY <1>1 DEF Monthly
  <2>2. DayOf[d] = d - BeforeMonth(from) /\ LengthOf[d] = LengthOf[from]
    BY <2>1, InMonthBounds, SameMonth, DayType DEF BeforeMonth
  <2> QED
    BY <2>1, <2>2, DayType DEF InMonth, BeforeMonth, Bills, Lesser
<1>2. CASE ~(InMonth(from, own) > from)
  <2>1. d < InMonth(start, own)
    BY <1>2 DEF Monthly
  <2>2. CASE d < start
    <3>1. DayOf[d] = d - BeforeMonth(from) /\ LengthOf[d] = LengthOf[from]
      BY <2>2, SameMonth, DayType DEF BeforeMonth
    <3> QED
      BY <1>2, <3>1, DayType DEF InMonth, BeforeMonth, Bills, Lesser
  <2>3. CASE ~(d < start)
    <3>1. start \in Days /\ BeforeMonth(start) = start - 1
      BY NextMonth
    <3> HIDE DEF start
    <3>2. BeforeMonth(start) < d /\ d < NextMonthStart(start)
      BY <2>1, <2>3, <3>1, InMonthBounds, DayType DEF NextMonthStart, BeforeMonth
    <3>3. DayOf[d] = d - BeforeMonth(start) /\ LengthOf[d] = LengthOf[start]
      BY <3>1, <3>2, SameMonth
    <3> QED
      BY <2>1, <3>1, <3>3, DayType DEF InMonth, BeforeMonth, Bills, Lesser
  <2> QED
    BY <2>2, <2>3
<1> QED
  BY <1>1, <1>2

\* A weekly plan goes on by one day to a whole week.
LEMMA WeeklyLater ==
  ASSUME NEW from \in Int, NEW weekday \in Int
  PROVE  Weekly(weekday, from) \in (from + 1)..(from + Week)
<1> DEFINE ahead == (weekday - (from % Week)) % Week
<1>1. Week \in Nat \ {0}
  BY CalendarAssumption
<1>2. from % Week \in Int
  BY <1>1
<1>3. ahead \in 0..(Week - 1)
  BY <1>1, <1>2
<1> QED
  BY <1>1, <1>3 DEF Weekly

\* A CUSTOM plan adds its interval as it is given: a negative one goes back in time,
\* and 0 is no interval.
LEMMA CustomDue ==
  ASSUME NEW plan \in Plan, plan.type = "CUSTOM", NEW from \in Int
  PROVE  /\ NextDue(plan, from) \in Int
         /\ NextDue(plan, from) > from <=> ~Backwards(plan)
<1>1. NextDue(plan, from) = from + Interval(plan)
  BY DEF NextDue
<1>2. Interval(plan) \in Int \ {0}
  BY CalendarAssumption DEF Interval, Plan
<1>3. Backwards(plan) <=> Interval(plan) < 0
  BY DEF Backwards
<1> QED
  BY <1>1, <1>2, <1>3

\* Every cycle is due later than the one before, so that no plan bills a period twice,
\* exactly when its interval_days is not negative: compute_next_due adds what a
\* request gave as it is.
THEOREM NextDueLater ==
  ASSUME NEW plan \in Plan, NEW from \in Days, NextMonthStart(from) \in Days
  PROVE  \/ plan.type = "TERM" /\ NextDue(plan, from) = Nothing
         \/ /\ NextDue(plan, from) \in Int
            /\ NextDue(plan, from) > from <=> ~Backwards(plan)
<1>1. CASE plan.type = "MONTHLY"
  <2>1. Given(plan.day, DayOf[from]) \in Nat \ {0}
    BY DayType DEF Given, Plan
  <2> QED
    BY <1>1, <2>1, MonthlyLater DEF NextDue, Backwards
<1>2. CASE plan.type = "WEEKLY"
  <2>1. Week \in Nat \ {0} /\ from \in Int
    BY CalendarAssumption, DayType
  <2>2. Given(plan.weekday, from % Week) \in Int
    BY <2>1 DEF Given, Plan
  <2> DEFINE next == Weekly(Given(plan.weekday, from % Week), from)
  <2>3. next \in (from + 1)..(from + Week)
    BY <2>1, <2>2, WeeklyLater
  <2>4. NextDue(plan, from) = next /\ ~Backwards(plan)
    BY <1>2 DEF NextDue, Backwards
  <2> HIDE DEF next
  <2> QED
    BY <2>1, <2>3, <2>4
<1>3. CASE plan.type = "CUSTOM"
  BY <1>3, CustomDue, DayType
<1>4. CASE plan.type = "TERM"
  BY <1>4 DEF NextDue
<1> QED
  BY <1>1, <1>2, <1>3, <1>4 DEF Plan

\* A monthly plan with day_of_month bills once in every month, on that day or the last:
\* the next due date is the first such day after the one it is computed from.
THEOREM MonthlyIsFirst ==
  ASSUME NEW from \in Days, NextMonthStart(from) \in Days, NEW own \in Nat \ {0},
         Monthly(own, from) \in Days
  PROVE  /\ Bills(own, Monthly(own, from)) /\ Monthly(own, from) > from
         /\ \A d \in Days : from < d /\ d < Monthly(own, from) => ~Bills(own, d)
  BY MonthlyBills, MonthlyLater, MonthlySkipsNone

-----------------------------------------------------------------------------
(* Rows, and what sessions have read of them                                *)

Meta == [base : Int \cup {Nothing}, rate : Int, sent : Int \cup {Nothing}]
Row  == [payer : Payers, due : Int, paid : Int, balance : Int,
         status : ObligationStatus \cup {"GONE"}, date : Int \cup {Nothing},
         meta : Meta \cup {Nothing}, from : Nat, series : Series \cup {0}]
Config == [ob : Nat, plan : Plan, auto : BOOLEAN, next : Int \cup {Nothing}]

\* The dates a due series may have: the job never sees one the calendar lacks, but
\* in a series that goes back, which does not look at the calendar.
Reach(row) ==
  row.next \in 0..MaxDay \cup Dates \/ (Backwards(row.plan) /\ row.next \in Int)

RowsOK ==
  /\ day \in 0..MaxDay
  /\ ob \in Seq(Row) /\ \A o \in Ids : ob[o].from < o
  /\ config \in [Series -> Config] /\ \A c \in Series : config[c].ob <= Len(ob)
  /\ credit \in [Payers -> Nat \cup {Nothing}]
  /\ \A o \in Ids : ob[o].status # "GONE" => Registered(ob[o].payer)

\* What a request has read.
ApiOK ==
  /\ api.op = "update" => api.row \in Row
  /\ api.op = "series" => api.on \in Series /\ api.config \in Config
  /\ api.op = "create" => api.payer \in Payers /\ Registered(api.payer) /\ api.credit \in Nat
  /\ api.op = "remove" => api.payer \in Payers

\* A row of recurring_configs the billing job has read is that of now, as far as
\* the job alone writes it.
Current(c, row) ==
  /\ row \in Config /\ row.ob \in Ids
  /\ config[c].ob \in {0, row.ob} /\ config[c].plan = row.plan
  /\ Reach(row)
  /\ c \in moved \/ config[c].next = row.next

BillingFields ==
  {"pc", "at", "batch", "rows", "fresh", "series", "config", "row", "credit", "events"}

BatchOK ==
  /\ billing = [f \in BillingFields |-> billing[f]]
  /\ billing.pc \in {"idle", "next", "read", "made", "publish"}
  /\ billing.batch \subseteq Series
  /\ billing.at \in 0..day
  /\ \A c \in billing.batch : Reach(config[c])
  /\ billing.fresh => \A c \in billing.batch : Current(c, billing.rows[c])

CycleOK ==
  LET c == billing.series
      o == billing.config.ob
  IN
  /\ billing.pc \in {"read", "made"} =>
       /\ c \in billing.batch /\ Current(c, billing.config)
       /\ billing.row \in Row /\ billing.row.meta # Nothing
       /\ billing.row.payer = ob[o].payer /\ billing.row.series = ob[o].series
  /\ billing.pc = "made" => billing.credit \in Nat

ReminderFields == {"pc", "at", "offset", "page", "events"}

RemindersOK ==
  /\ reminders = [f \in ReminderFields |-> reminders[f]]
  /\ reminders.pc \in {"idle", "page", "publish"} /\ reminders.page \subseteq Ids
  /\ reminders.at \in Int

\* Two series never share an obligation; the cycles of one are its own.
ChainOK ==
  /\ RolledOnce
  /\ \A c, d \in Series : c # d /\ config[c].ob # 0 => config[c].ob # config[d].ob
  /\ \A c \in Series : config[c].ob # 0 =>
       ob[config[c].ob].series = c /\ ob[config[c].ob].status # "GONE"
  /\ \A o \in Ids : ob[o].from # 0 =>
       ob[o].series \in Series /\ ob[ob[o].from].series = ob[o].series

DatesOK ==
  /\ PeriodsAdvance
  /\ \A c \in Series :
       ~Backwards(config[c].plan) =>
         /\ config[c].next # Nothing => config[c].next >= 0
         /\ config[c].ob # 0 /\ c \notin moved =>
              /\ ob[config[c].ob].date \in Int
              /\ config[c].next # Nothing => config[c].next > ob[config[c].ob].date

CycleInv == RowsOK /\ ApiOK /\ BatchOK /\ CycleOK /\ RemindersOK /\ ChainOK /\ DatesOK

-----------------------------------------------------------------------------
(* Rows                                                                    *)

\* Two versions of a row, of the same obligation.
Same(row, new) ==
  new \in Row /\ new.from = row.from /\ new.series = row.series /\ new.payer = row.payer

Fields == {"payer", "due", "paid", "balance", "status", "date", "meta", "from", "series"}

\* A commit of changed columns leaves a row of the same obligation, whatever it read.
LEMMA FlushRow ==
  ASSUME NEW current \in Row, NEW read \in Row, NEW new \in Row, Same(read, new)
  PROVE  /\ Same(current, Flush(current, read, new))
         /\ Flush(current, read, new).status
              = IF new.status = read.status THEN current.status ELSE new.status
         /\ Flush(current, read, new).date
              = IF new.date = read.date THEN current.date ELSE new.date
<1>1. DOMAIN current = Fields
  BY DEF Row, Fields
<1> DEFINE row == Flush(current, read, new)
<1>2. row = [f \in Fields |-> IF new[f] = read[f] THEN current[f] ELSE new[f]]
  BY <1>1 DEF Flush
<1>3. /\ row.payer = current.payer /\ row.from = current.from /\ row.series = current.series
      /\ row.due \in Int /\ row.paid \in Int /\ row.balance \in Int
      /\ row.status = IF new.status = read.status THEN current.status ELSE new.status
      /\ row.date = IF new.date = read.date THEN current.date ELSE new.date
      /\ row.meta \in Meta \cup {Nothing}
  BY <1>2 DEF Same, Row, Fields
<1>4. row.status \in ObligationStatus \cup {"GONE"} /\ row.date \in Int \cup {Nothing}
  BY <1>3 DEF Row
<1>5. row \in Row
  BY <1>2, <1>3, <1>4 DEF Row, Fields
<1> QED
  BY <1>3, <1>5 DEF Same

\* What a manager writes is a row, and never a deleted one.
LEMMA EditRow ==
  ASSUME NEW row \in Row, NEW new \in Edits(row)
  PROVE  /\ Same(row, new)
         /\ new.status = row.status \/ new.status # "GONE"
<1>1. NoMeta \in Meta
  BY ObligationsAssumption DEF NoMeta, Meta
<1>2. CASE \E a \in Amounts : new = [row EXCEPT !.due = a, !.balance = a - row.paid]
  <2>1. PICK a \in Amounts : new = [row EXCEPT !.due = a, !.balance = a - row.paid]
    BY <1>2
  <2>2. a \in Int
    BY ObligationsAssumption
  <2>3. a - row.paid \in Int
    BY <2>2 DEF Row
  <2> QED
    BY <2>1, <2>2, <2>3 DEF Row, Same
<1>3. CASE \E s \in ObligationStatus : new = [row EXCEPT !.status = s]
  BY <1>3 DEF Row, Same, ObligationStatus, Open
<1>4. CASE \E d \in Dates : new = [row EXCEPT !.date = d]
  <2>1. Dates \subseteq Int
    BY ObligationsAssumption
  <2> QED
    BY <1>4, <2>1 DEF Row, Same
<1>5. CASE \E m \in {NoMeta, Nothing} : new = [row EXCEPT !.meta = m]
  BY <1>1, <1>5 DEF Row, Same
<1> QED
  BY <1>2, <1>3, <1>4, <1>5 DEF Edits

LEMMA FlushConfig ==
  ASSUME NEW current \in Config, NEW read \in Config, NEW new \in Config,
         new.ob = read.ob, new.plan = read.plan
  PROVE  /\ Flush(current, read, new) \in Config
         /\ Flush(current, read, new).ob = current.ob
         /\ Flush(current, read, new).plan = current.plan
         /\ Flush(current, read, new).next
              = IF new.next = read.next THEN current.next ELSE new.next
<1>1. DOMAIN current = {"ob", "plan", "auto", "next"}
  BY DEF Config
<1> DEFINE row == Flush(current, read, new)
<1>2. row = [f \in {"ob", "plan", "auto", "next"} |->
               IF new[f] = read[f] THEN current[f] ELSE new[f]]
  BY <1>1 DEF Flush
<1>3. /\ row.ob = current.ob /\ row.plan = current.plan
      /\ row.next = IF new.next = read.next THEN current.next ELSE new.next
  BY <1>2
<1>4. row.auto = current.auto \/ row.auto = new.auto
  BY <1>2
<1>5. row.ob \in Nat /\ row.plan \in Plan /\ row.next \in Int \cup {Nothing}
  BY <1>3 DEF Config
<1>6. row.auto \in BOOLEAN
  BY <1>4 DEF Config
<1>7. row \in Config
  BY <1>2, <1>5, <1>6 DEF Config
<1> QED
  BY <1>3, <1>7

\* A payment of an obligation leaves it the obligation it was.
LEMMA PaidRow ==
  ASSUME NEW row \in Row, NEW amount \in Int
  PROVE  Same(row, Paid(row, amount)) /\ Paid(row, amount).date = row.date
         /\ Paid(row, amount).meta = row.meta /\ Paid(row, amount).status # "GONE"
<1> DEFINE left == row.due - (row.paid + amount)
<1>1. left \in Int /\ row.paid + amount \in Int
  BY DEF Row
<1>2. Paid(row, amount) =
        IF left <= 0 THEN [row EXCEPT !.paid = @ + amount, !.balance = 0, !.status = "SETTLED"]
        ELSE [row EXCEPT !.paid = @ + amount, !.balance = left, !.status = "PARTIAL"]
  BY DEF Paid
<1> HIDE DEF left
<1> DEFINE to(balance, status) == [row EXCEPT !.paid = @ + amount, !.balance = balance,
                                              !.status = status]
<1>3. ASSUME NEW balance \in Int, NEW status \in ObligationStatus
      PROVE  Same(row, to(balance, status)) /\ to(balance, status).date = row.date
             /\ to(balance, status).meta = row.meta /\ to(balance, status).status = status
  BY <1>1 DEF Row, Same
<1>4. Paid(row, amount) = to(0, "SETTLED") \/ Paid(row, amount) = to(left, "PARTIAL")
  BY <1>2
<1>5. {"SETTLED", "PARTIAL"} \subseteq ObligationStatus
  BY DEF ObligationStatus, Open
<1> HIDE DEF to
<1> QED
  BY <1>1, <1>3, <1>4, <1>5

\* So does credit, of which no more is used than there is.
LEMMA CreditRow ==
  ASSUME NEW row \in Row, row.status # "GONE", NEW available \in Nat
  PROVE  LET made == ApplyCredit(row, available) IN
         /\ Same(row, made.row) /\ made.row.date = row.date
         /\ made.row.status # "GONE" /\ made.credit \in Nat
<1> DEFINE usage == Lesser(available, row.balance)
<1>1. usage \in Int /\ available - usage \in Nat
  BY DEF Lesser, Row
<1>2. CASE available <= 0
  BY <1>2 DEF ApplyCredit, Same
<1>3. CASE ~(available <= 0)
  <2>1. ApplyCredit(row, available) = [row |-> Paid(row, usage), credit |-> available - usage]
    BY <1>3 DEF ApplyCredit
  <2> HIDE DEF usage
  <2> QED
    BY <1>1, <2>1, PaidRow
<1> QED
  BY <1>2, <1>3

LEMMA MadeRow ==
  ASSUME NEW p \in Payers, NEW due \in Int, NEW date \in Int \cup {Nothing}
  PROVE  /\ NewRow(p, due, date) \in Row
         /\ NewRow(p, due, date).from = 0 /\ NewRow(p, due, date).series = 0
         /\ NewRow(p, due, date).payer = p /\ NewRow(p, due, date).status = "PENDING"
         /\ NewRow(p, due, date).date = date
<1>1. NoMeta \in Meta
  BY DEF NoMeta, Meta
<1> QED
  BY <1>1 DEF NewRow, Row, ObligationStatus, Open

-----------------------------------------------------------------------------
(* Initially                                                               *)

LEMMA RowsInit == Init => RowsOK
<1> SUFFICES ASSUME Init PROVE RowsOK
  OBVIOUS
<1> USE ObligationsAssumption
<1>1. Cardinality(Series) \in Nat /\ Series = 1..Cardinality(Series)
  BY FS_CardinalityType
<1>2. ASSUME NEW c \in Series
      PROVE  FirstCycle(c) \in Row /\ FirstCycle(c).from = 0 /\ FirstCycle(c).payer \in Payers
  <2> DEFINE new == NewRow(Owner[c], Rent[c], 0)
  <2>1. new \in Row /\ new.from = 0
    BY MadeRow
  <2>2. new.meta \in Meta
    BY DEF NewRow, NoMeta, Meta
  <2> DEFINE meta == [new.meta EXCEPT !.rate = Rate]
  <2>3. FirstCycle(c) = [new EXCEPT !.meta = meta, !.series = c]
    BY <2>1 DEF FirstCycle, Row
  <2> HIDE DEF new
  <2>4. meta \in Meta
    BY <2>2 DEF Meta
  <2> HIDE DEF meta
  <2> QED
    BY <2>1, <2>3, <2>4 DEF Row
<1>3. ob = [c \in 1..Cardinality(Series) |-> FirstCycle(c)]
  BY <1>1 DEF Init
<1>4. ob \in Seq(Row) /\ Len(ob) = Cardinality(Series)
  BY <1>1, <1>2, <1>3
<1>5. 0 \in Days /\ NextMonthStart(0) \in Days
  OBVIOUS
<1>6. config \in [Series -> Config] /\ \A c \in Series : config[c].ob = c
  <2>1. PICK plan \in [Series -> Plans] :
          config = [c \in Series |-> [ob |-> c, plan |-> plan[c], auto |-> TRUE,
                                      next |-> NextDue(plan[c], 0)]]
    BY DEF Init
  <2>2. ASSUME NEW c \in Series PROVE NextDue(plan[c], 0) \in Int \cup {Nothing}
    BY <1>5, NextDueLater
  <2>3. ASSUME NEW c \in Series PROVE plan[c] \in Plan /\ c \in Nat
    BY <1>1
  <2> QED
    BY <2>1, <2>2, <2>3 DEF Config
<1>7. \A o \in Ids : o \in Series /\ o > 0 /\ ob[o] = FirstCycle(o)
  BY <1>1, <1>3, <1>4 DEF Ids
<1>8. credit \in [Payers -> Nat \cup {Nothing}] /\ \A p \in Payers : Registered(p)
  BY CalendarAssumption DEF Init, Registered
<1>9. \A o \in Ids : ob[o].from < o /\ Registered(ob[o].payer)
  BY <1>2, <1>7, <1>8
<1>10. \A c \in Series : config[c].ob <= Len(ob)
  BY <1>1, <1>4, <1>6
<1>11. day \in 0..MaxDay
  BY DEF Init
<1> QED
  BY <1>4, <1>6, <1>8, <1>9, <1>10, <1>11 DEF RowsOK

\* What the job holds is a record of those fields.
LEMMA Shape ==
  ASSUME NEW pc, NEW at, NEW batch, NEW read, NEW fresh, NEW series, NEW one, NEW row,
         NEW left, NEW events
  PROVE  LET b == [pc |-> pc, at |-> at, batch |-> batch, rows |-> read, fresh |-> fresh,
                   series |-> series, config |-> one, row |-> row, credit |-> left,
                   events |-> events]
         IN  b = [f \in BillingFields |-> b[f]]
  BY DEF BillingFields

LEMMA CycleInit == Init => CycleInv
<1> SUFFICES ASSUME Init PROVE CycleInv
  OBVIOUS
<1>1. RowsOK
  BY RowsInit
<1>2. ApiOK /\ BatchOK /\ CycleOK /\ RemindersOK
  <2>1. ApiOK
    BY DEF Init, ApiOK, NoRequest
  <2>2. billing = NoBilling /\ day \in Nat
    BY <1>1 DEF Init, RowsOK
  <2>3. billing = [f \in BillingFields |-> billing[f]]
    BY <2>2, Shape DEF NoBilling
  <2>4. billing.batch = {} /\ billing.at = 0 /\ billing.pc = "idle"
    BY <2>2 DEF NoBilling
  <2>5. BatchOK /\ CycleOK
    BY <2>2, <2>3, <2>4 DEF BatchOK, CycleOK
  <2>6. RemindersOK
    BY DEF Init, RemindersOK, NoReminders, ReminderFields
  <2> QED
    BY <2>1, <2>5, <2>6
<1>3. ob = [c \in Series |-> FirstCycle(c)] /\ Ids = Series
  <2>1. Cardinality(Series) \in Nat /\ Series = 1..Cardinality(Series)
    BY FS_CardinalityType, ObligationsAssumption
  <2>2. ob = [c \in 1..Cardinality(Series) |-> FirstCycle(c)]
    BY <2>1 DEF Init
  <2>3. Len(ob) = Cardinality(Series)
    BY <2>1, <2>2
  <2> QED
    BY <2>1, <2>2, <2>3 DEF Ids
<1>4. \A c \in Series : /\ FirstCycle(c).from = 0 /\ FirstCycle(c).series = c
                        /\ FirstCycle(c).date = 0 /\ FirstCycle(c).status = "PENDING"
  BY DEF FirstCycle, NewRow
<1>5. \A c \in Series :
        /\ config[c].ob = c
        /\ ~Backwards(config[c].plan) =>
             (config[c].next # Nothing => config[c].next > 0 /\ config[c].next \in Int)
  <2>1. PICK plan \in [Series -> Plans] :
          config = [c \in Series |-> [ob |-> c, plan |-> plan[c], auto |-> TRUE,
                                      next |-> NextDue(plan[c], 0)]]
    BY DEF Init
  <2>2. 0 \in Days /\ NextMonthStart(0) \in Days
    BY ObligationsAssumption
  <2>3. ASSUME NEW c \in Series
        PROVE  ~Backwards(plan[c]) =>
                 (NextDue(plan[c], 0) # Nothing =>
                    NextDue(plan[c], 0) > 0 /\ NextDue(plan[c], 0) \in Int)
    BY <2>2, NextDueLater, ObligationsAssumption
  <2> QED
    BY <2>1, <2>3
<1>6. ChainOK
  BY <1>3, <1>4, <1>5, ObligationsAssumption DEF ChainOK, RolledOnce
<1>7. DatesOK
  BY <1>3, <1>4, <1>5 DEF DatesOK, PeriodsAdvance
<1> QED
  BY <1>1, <1>2, <1>6, <1>7 DEF CycleInv

-----------------------------------------------------------------------------
(* Steps other than those of the billing job                               *)

\* What requests, payments and reminders may do to the rows while the billing job
\* works on them: obligations keep their place in a chain, new ones begin none, a
\* date moves only by a manager, a series keeps its plan and stops or stays where it
\* is, at an obligation that exists.
Kept ==
  /\ RowsOK' /\ day <= day' /\ moved \subseteq moved'
  /\ Len(ob) <= Len(ob')
  /\ \A o \in Ids : /\ ob'[o].from = ob[o].from /\ ob'[o].series = ob[o].series
                    /\ ob'[o].payer = ob[o].payer
                    /\ ob'[o].date = ob[o].date \/ ob[o].series \in moved'
  /\ \A o \in Ids' : o \notin Ids => ob'[o].from = 0
  /\ \A c \in Series : /\ config'[c].ob = config[c].ob \/ config'[c].ob = 0
                       /\ config'[c].plan = config[c].plan
                       /\ \/ config'[c].next = config[c].next
                          \/ config'[c].next \in Dates /\ c \in moved'
                       /\ config'[c].ob # 0 => ob'[config'[c].ob].status # "GONE"

LEMMA KeptIds == RowsOK /\ Kept => Ids \subseteq Ids' /\ Ids \subseteq Nat \ {0} /\ Ids' \subseteq Nat \ {0}
  BY LenProperties DEF RowsOK, Kept, Ids

LEMMA KeptBilling ==
  ASSUME RowsOK, BatchOK, CycleOK, Kept, billing' = billing
  PROVE  BatchOK' /\ CycleOK'
<1>1. Ids \subseteq Ids'
  BY KeptIds
<1>2. day \in Int /\ day' \in Int
  BY DEF RowsOK, Kept
<1>4. BatchOK'
  <2>1. \A c \in billing.batch : Reach(config'[c])
    <3> SUFFICES ASSUME NEW c \in billing.batch PROVE Reach(config'[c])
      OBVIOUS
    <3>1. c \in Series /\ Reach(config[c])
      BY DEF BatchOK
    <3>2. /\ config'[c].plan = config[c].plan
          /\ config'[c].next = config[c].next \/ config'[c].next \in Dates
      BY <3>1 DEF Kept
    <3>3. CASE config'[c].next = config[c].next
      BY <3>1, <3>2, <3>3 DEF Reach, Backwards, Interval
    <3>4. CASE config'[c].next \in Dates
      BY <3>4 DEF Reach
    <3> QED
      BY <3>2, <3>3, <3>4
  <2>2. billing.at \in 0..day'
    BY <1>2 DEF BatchOK, Kept
  <2>3. billing.fresh => \A c \in billing.batch : Current(c, billing.rows[c])'
    <3> SUFFICES ASSUME billing.fresh, NEW c \in billing.batch
                 PROVE  Current(c, billing.rows[c])'
      OBVIOUS
    <3>1. Current(c, billing.rows[c]) /\ c \in Series
      BY DEF BatchOK
    <3> QED
      BY <1>1, <3>1 DEF Current, Kept
  <2> QED
    BY <2>1, <2>2, <2>3 DEF BatchOK, Kept
<1>5. CycleOK'
  <2>1. CASE billing.pc \notin {"read", "made"}
    BY <2>1 DEF CycleOK, Kept
  <2>2. CASE billing.pc \in {"read", "made"}
    <3>1. billing.series \in Series /\ Current(billing.series, billing.config)
      BY <2>2 DEF CycleOK, BatchOK
    <3>2. Current(billing.series, billing.config)'
      BY <1>1, <3>1 DEF Current, Kept
    <3>3. billing.config.ob \in Ids
      BY <3>1 DEF Current
    <3> QED
      BY <2>2, <3>1, <3>2, <3>3 DEF CycleOK, Kept
  <2> QED
    BY <2>1, <2>2
<1> QED
  BY <1>4, <1>5

LEMMA KeptChain ==
  ASSUME RowsOK, ChainOK, Kept
  PROVE  ChainOK'
<1>1. Ids \subseteq Ids' /\ Ids' \subseteq Nat \ {0} /\ Ids \subseteq Nat \ {0}
  BY KeptIds
<1>2. \A o \in Ids' : ob'[o].from # 0 => /\ o \in Ids /\ ob'[o].from = ob[o].from
                                         /\ ob[o].from \in Ids
  <2> SUFFICES ASSUME NEW o \in Ids', ob'[o].from # 0
               PROVE  /\ o \in Ids /\ ob'[o].from = ob[o].from
                      /\ ob[o].from \in Ids
    OBVIOUS
  <2>1. o \in Ids /\ ob'[o].from = ob[o].from
    BY DEF Kept
  <2>2. ob[o] \in Row /\ ob[o].from < o
    BY <2>1, ElementOfSeq DEF RowsOK, Ids
  <2>3. Len(ob) \in Nat
    BY LenProperties DEF RowsOK
  <2> QED
    BY <2>1, <2>2, <2>3 DEF Row, Ids
<1>3. \A c \in Series : config'[c].ob # 0 => config'[c].ob = config[c].ob /\ config[c].ob \in Ids
  <2> SUFFICES ASSUME NEW c \in Series, config'[c].ob # 0
               PROVE  config'[c].ob = config[c].ob /\ config[c].ob \in Ids
    OBVIOUS
  <2>1. config'[c].ob = config[c].ob
    BY DEF Kept
  <2>2. config[c].ob \in Nat /\ config[c].ob <= Len(ob) /\ Len(ob) \in Nat
    BY LenProperties DEF RowsOK, Config
  <2> QED
    BY <2>1, <2>2 DEF Ids
<1>4. RolledOnce'
  <2>1. ASSUME NEW o \in Ids', NEW u \in Ids', o # u, ob'[o].from = ob'[u].from, ob'[o].from # 0
        PROVE  FALSE
    BY <1>2, <2>1 DEF ChainOK, RolledOnce
  <2>2. ASSUME NEW c \in Series, config'[c].ob # 0, NEW o \in Ids'
        PROVE  ob'[o].from # config'[c].ob
    BY <1>2, <1>3, <2>2 DEF ChainOK, RolledOnce
  <2> QED
    BY <2>1, <2>2 DEF RolledOnce
<1>5. \A c, d \in Series : c # d /\ config'[c].ob # 0 => config'[c].ob # config'[d].ob
  BY <1>3 DEF ChainOK
<1>6. \A c \in Series : config'[c].ob # 0 =>
        ob'[config'[c].ob].series = c /\ ob'[config'[c].ob].status # "GONE"
  BY <1>3 DEF ChainOK, Kept
<1>7. \A o \in Ids' : ob'[o].from # 0 =>
        ob'[o].series \in Series /\ ob'[ob'[o].from].series = ob'[o].series
  BY <1>2 DEF ChainOK, Kept
<1> QED
  BY <1>4, <1>5, <1>6, <1>7 DEF ChainOK

LEMMA KeptDates ==
  ASSUME RowsOK, ChainOK, DatesOK, Kept
  PROVE  DatesOK'
<1>1. \A o \in Ids' : ob'[o].from # 0 => /\ o \in Ids /\ ob'[o].from = ob[o].from
                                         /\ ob[o].from \in Ids
  <2> SUFFICES ASSUME NEW o \in Ids', ob'[o].from # 0
               PROVE  /\ o \in Ids /\ ob'[o].from = ob[o].from
                      /\ ob[o].from \in Ids
    OBVIOUS
  <2>1. o \in Ids /\ ob'[o].from = ob[o].from
    BY DEF Kept
  <2>2. ob[o] \in Row /\ ob[o].from < o
    BY <2>1, ElementOfSeq DEF RowsOK, Ids
  <2>3. Len(ob) \in Nat
    BY LenProperties DEF RowsOK
  <2> QED
    BY <2>1, <2>2, <2>3 DEF Row, Ids
<1>2. PeriodsAdvance'
  <2> SUFFICES ASSUME NEW o \in Ids', ob'[o].from # 0, ob'[o].series \notin moved',
                      ~Backwards(config'[ob'[o].series].plan)
               PROVE  ob'[o].date > ob'[ob'[o].from].date
    BY DEF PeriodsAdvance
  <2> DEFINE u == ob[o].from
  <2>1. o \in Ids /\ ob'[o].from = u /\ u # 0 /\ u \in Ids
    BY <1>1
  <2>2. /\ ob[u].series = ob[o].series /\ ob'[o].series = ob[o].series
        /\ ~Backwards(config[ob[o].series].plan)
    BY <2>1 DEF ChainOK, Kept
  <2>3. ob'[o].date = ob[o].date /\ ob'[u].date = ob[u].date /\ ob[o].series \notin moved
    BY <2>1, <2>2 DEF Kept
  <2>4. ob[o].date > ob[u].date
    BY <2>1, <2>2, <2>3 DEF DatesOK, PeriodsAdvance
  <2> QED
    BY <2>1, <2>3, <2>4
<1>4. ASSUME NEW c \in Series, ~Backwards(config'[c].plan), config'[c].next # Nothing
      PROVE  config'[c].next >= 0
  <2>1. ~Backwards(config[c].plan)
    BY <1>4 DEF Kept
  <2>2. CASE config'[c].next = config[c].next
    BY <1>4, <2>1, <2>2 DEF DatesOK
  <2>3. CASE config'[c].next \in Dates
    <3>1. config'[c].next \in Nat
      BY <2>3, ObligationsAssumption
    <3> QED
      BY <3>1
  <2> QED
    BY <2>2, <2>3 DEF Kept
<1>3. ASSUME NEW c \in Series, config'[c].ob # 0, c \notin moved', ~Backwards(config'[c].plan)
      PROVE  /\ ob'[config'[c].ob].date \in Int
             /\ config'[c].next # Nothing => config'[c].next > ob'[config'[c].ob].date
  <2> DEFINE o == config[c].ob
  <2>1. /\ config'[c].ob = o /\ o # 0 /\ config'[c].next = config[c].next /\ c \notin moved
        /\ ~Backwards(config[c].plan)
    BY <1>3 DEF Kept
  <2>2. o \in Ids
    BY <2>1, LenProperties DEF RowsOK, Config, Ids
  <2>3. ob[o].series = c
    BY <2>1 DEF ChainOK
  <2>4. ob'[o].date = ob[o].date
    BY <1>3, <2>2, <2>3 DEF Kept
  <2> QED
    BY <2>1, <2>4 DEF DatesOK
<1> QED
  BY <1>2, <1>3, <1>4 DEF DatesOK

LEMMA KeptInv ==
  ASSUME CycleInv, Kept, ApiOK', RemindersOK', billing' = billing \/ (BatchOK' /\ CycleOK')
  PROVE  CycleInv'
  BY KeptBilling, KeptChain, KeptDates DEF CycleInv, Kept

\* The obligation of a series that has one exists.
LEMMA SeriesAlive ==
  ASSUME CycleInv
  PROVE  \A c \in Series : config[c].ob # 0 =>
           config[c].ob \in Ids /\ ob[config[c].ob].status # "GONE"
<1>1. \A c \in Series : config[c].ob \in Nat /\ config[c].ob <= Len(ob)
  BY DEF CycleInv, RowsOK, Config
<1>2. Len(ob) \in Nat
  BY LenProperties DEF CycleInv, RowsOK
<1> QED
  BY <1>1, <1>2 DEF CycleInv, ChainOK, Ids

\* A step that touches no row.
LEMMA StillKept ==
  ASSUME CycleInv, UNCHANGED <<day, rows, moved>>
  PROVE  Kept
<1>1. Ids' = Ids /\ Len(ob) \in Nat /\ day \in Int
  BY LenProperties DEF rows, Ids, CycleInv, RowsOK
<1>2. RowsOK'
  BY <1>1 DEF CycleInv, RowsOK, rows, Registered
<1> QED
  BY <1>1, <1>2, SeriesAlive DEF Kept, rows

LEMMA RowAt ==
  ASSUME RowsOK, NEW o \in Ids
  PROVE  /\ ob[o] \in Row /\ o \in Nat \ {0} /\ Len(ob) \in Nat /\ o <= Len(ob)
         /\ ob[o].from < o
  BY LenProperties, ElementOfSeq DEF RowsOK, Ids

LEMMA ExistsId == \A o : Exists(o) => o \in Ids /\ ob[o].status # "GONE"
  BY DEF Exists

\* One obligation changes.
LEMMA ObSet ==
  ASSUME RowsOK, NEW o \in Ids, NEW new, Same(ob[o], new), ob' = [ob EXCEPT ![o] = new]
  PROVE  /\ ob' \in Seq(Row) /\ Len(ob') = Len(ob) /\ Ids' = Ids
         /\ ob'[o] = new /\ \A u \in Ids : u # o => ob'[u] = ob[u]
         /\ \A u \in Ids : Same(ob[u], ob'[u]) /\ ob'[u].from < u
<1>1. o \in 1..Len(ob) /\ ob \in Seq(Row) /\ new \in Row
  BY DEF Ids, RowsOK, Same
<1>2. /\ ob' \in Seq(Row) /\ Len(ob') = Len(ob)
      /\ \A u \in 1..Len(ob) : ob'[u] = IF u = o THEN new ELSE ob[u]
  BY <1>1, ExceptSeq
<1>3. ASSUME NEW u \in Ids PROVE Same(ob[u], ob'[u]) /\ ob'[u].from < u
  BY <1>2, RowAt DEF Same, Ids
<1> QED
  BY <1>1, <1>2, <1>3 DEF Ids

-----------------------------------------------------------------------------
(* Requests are taken, answered, or lost                                   *)

LEMMA QuietInv ==
  ASSUME CycleInv, UNCHANGED <<day, rows, billing, reminders, moved>>, ApiOK'
  PROVE  CycleInv'
<1>1. Kept
  BY StillKept
<1>2. Ids' = Ids
  BY DEF rows, Ids
<1>3. RemindersOK'
  BY <1>2 DEF CycleInv, RemindersOK
<1> QED
  BY <1>1, <1>3, KeptInv

LEMMA NoRequestOK == api' = NoRequest => ApiOK'
  BY DEF ApiOK, NoRequest

LEMMA AskInv ==
  ASSUME CycleInv,
         \/ \E o \in Ids : Update(o) \/ Cancel(o) \/ Delete(o)
         \/ \E c \in Series : UpdateSeries(c)
         \/ \E p \in Payers : Create(p) \/ RemovePayer(p) \/ RemoveGroup(p)
  PROVE  CycleInv'
<1>1. UNCHANGED <<day, rows, billing, reminders, moved>>
  BY DEF Update, Cancel, Delete, UpdateSeries, Create, RemovePayer, RemoveGroup, RemoveWith,
         OnObligation, Request, marks
<1>2. RowsOK
  BY DEF CycleInv
<1>3. ASSUME NEW o \in Ids, Update(o) PROVE ApiOK'
  BY <1>2, <1>3, RowAt DEF Update, OnObligation, Request, ApiOK, NoRequest
<1>4. ASSUME NEW o \in Ids, Cancel(o) \/ Delete(o) PROVE ApiOK'
  BY <1>4 DEF Cancel, Delete, OnObligation, Request, ApiOK, NoRequest
<1>5. ASSUME NEW c \in Series, UpdateSeries(c) PROVE ApiOK'
  BY <1>2, <1>5 DEF UpdateSeries, Request, ApiOK, NoRequest, RowsOK
<1>6. ASSUME NEW p \in Payers, Create(p) PROVE ApiOK'
  <2>1. credit[p] \in Nat /\ credit' = credit
    BY <1>1, <1>2, <1>6 DEF Create, Registered, RowsOK, rows
  <2> QED
    BY <1>6, <2>1 DEF Create, Request, ApiOK, NoRequest, Registered
<1>7. ASSUME NEW p \in Payers, RemovePayer(p) \/ RemoveGroup(p) PROVE ApiOK'
  BY <1>7 DEF RemovePayer, RemoveGroup, RemoveWith, Request, ApiOK, NoRequest
<1>8. ApiOK'
  BY <1>3, <1>4, <1>5, <1>6, <1>7
<1> QED
  BY <1>1, <1>8, QuietInv

LEMMA ConflictInv == CycleInv /\ (Conflict \/ ApiCrash) => CycleInv'
<1> SUFFICES ASSUME CycleInv, Conflict \/ ApiCrash PROVE CycleInv'
  OBVIOUS
<1>1. UNCHANGED <<day, rows, billing, reminders, moved>> /\ api' = NoRequest
  BY DEF Conflict, ApiCrash, Reply, marks
<1> QED
  BY <1>1, NoRequestOK, QuietInv

-----------------------------------------------------------------------------
(* Requests commit                                                         *)

LEMMA UpdateInv == CycleInv /\ CommitUpdate => CycleInv'
<1> SUFFICES ASSUME CycleInv, CommitUpdate PROVE CycleInv'
  OBVIOUS
<1> DEFINE o == api.on
<1>1. RowsOK /\ o \in Ids /\ ob[o].status # "GONE" /\ api.row \in Row /\ ob[o] \in Row
  BY RowAt DEF CommitUpdate, Exists, CycleInv, ApiOK
<1>2. PICK new \in Edits(api.row) :
        /\ ob' = [ob EXCEPT ![o] = Flush(ob[o], api.row, new)]
        /\ moved' = IF new.date = api.row.date THEN moved
                    ELSE moved \cup {Flush(ob[o], api.row, new).series}
  BY DEF CommitUpdate
<1> DEFINE after == Flush(ob[o], api.row, new)
<1>3. /\ Same(ob[o], after) /\ after.status # "GONE"
      /\ after.date = IF new.date = api.row.date THEN ob[o].date ELSE new.date
  BY <1>1, EditRow, FlushRow DEF Same
<1> HIDE DEF after
<1>4. moved' = IF new.date = api.row.date THEN moved ELSE moved \cup {ob[o].series}
  BY <1>2, <1>3 DEF after, Same
<1>5. /\ ob' \in Seq(Row) /\ Len(ob') = Len(ob) /\ Ids' = Ids
      /\ ob'[o] = after /\ \A u \in Ids : u # o => ob'[u] = ob[u]
      /\ \A u \in Ids : Same(ob[u], ob'[u]) /\ ob'[u].from < u
  BY <1>1, <1>2, <1>3, ObSet DEF after
<1>6. UNCHANGED <<day, config, credit, billing, reminders>> /\ api' = NoRequest
  BY DEF CommitUpdate, Reply
<1>7. RowsOK'
  BY <1>1, <1>3, <1>5, <1>6 DEF RowsOK, Registered, Same
<1>8. Kept
  <2>1. \A u \in Ids : ob'[u].status = "GONE" => ob[u].status = "GONE"
    BY <1>3, <1>5
  <2>2. \A u \in Ids : ob'[u].date = ob[u].date \/ ob[u].series \in moved'
    BY <1>3, <1>4, <1>5
  <2>3. \A c \in Series : config[c].ob # 0 =>
          config[c].ob \in Ids /\ ob[config[c].ob].status # "GONE"
    BY SeriesAlive
  <2>4. day \in Int /\ Len(ob) \in Nat
    BY <1>1, LenProperties DEF RowsOK
  <2> QED
    BY <1>4, <1>5, <1>6, <1>7, <2>1, <2>2, <2>3, <2>4 DEF Kept, Same
<1>9. RemindersOK'
  BY <1>5, <1>6 DEF CycleInv, RemindersOK
<1> QED
  BY <1>6, <1>8, <1>9, NoRequestOK, KeptInv

LEMMA SeriesInv == CycleInv /\ CommitSeries => CycleInv'
<1> SUFFICES ASSUME CycleInv, CommitSeries PROVE CycleInv'
  OBVIOUS
<1> DEFINE c == api.on
<1>1. RowsOK /\ c \in Series /\ api.config \in Config /\ config[c] \in Config
  BY DEF CommitSeries, CycleInv, ApiOK, RowsOK
<1>2. PICK new : /\ \/ \E auto \in BOOLEAN : new = [api.config EXCEPT !.auto = auto] /\ moved' = moved
                    \/ \E next \in Dates : new = [api.config EXCEPT !.next = next]
                                           /\ moved' = moved \cup {c}
                 /\ config' = [config EXCEPT ![c] = Flush(@, api.config, new)]
  BY DEF CommitSeries
<1>3. /\ new \in Config /\ new.ob = api.config.ob /\ new.plan = api.config.plan
      /\ new.next = api.config.next \/ (new.next \in Dates /\ c \in moved')
  <2>1. CASE \E auto \in BOOLEAN : new = [api.config EXCEPT !.auto = auto]
    BY <1>1, <2>1 DEF Config
  <2>2. CASE /\ \E next \in Dates : new = [api.config EXCEPT !.next = next]
             /\ moved' = moved \cup {c}
    <3>1. Dates \subseteq Int
      BY ObligationsAssumption
    <3> QED
      BY <1>1, <2>2, <3>1 DEF Config
  <2> QED
    BY <1>2, <2>1, <2>2
<1> DEFINE after == Flush(config[c], api.config, new)
<1>4. /\ after \in Config /\ after.ob = config[c].ob /\ after.plan = config[c].plan
      /\ after.next = config[c].next \/ (after.next \in Dates /\ c \in moved')
  <2>1. /\ after \in Config /\ after.ob = config[c].ob /\ after.plan = config[c].plan
        /\ after.next = IF new.next = api.config.next THEN config[c].next ELSE new.next
    <3>1. config[c] \in Config /\ api.config \in Config /\ new \in Config
          /\ new.ob = api.config.ob /\ new.plan = api.config.plan
      BY <1>1, <1>3
    <3> DEFINE current == config[c]
               read    == api.config
    <3>2. /\ current \in Config /\ read \in Config /\ new \in Config
          /\ new.ob = read.ob /\ new.plan = read.plan
      BY <3>1
    <3> HIDE DEF current, read
    <3>3. /\ Flush(current, read, new) \in Config /\ Flush(current, read, new).ob = current.ob
          /\ Flush(current, read, new).plan = current.plan
          /\ Flush(current, read, new).next
               = IF new.next = read.next THEN current.next ELSE new.next
      BY <3>2, FlushConfig
    <3> QED
      BY <3>3 DEF current, read
  <2> QED
    BY <1>3, <2>1
<1>5. config' = [config EXCEPT ![c] = after]
  BY <1>2
<1> HIDE DEF after
<1>6. UNCHANGED <<day, ob, credit, billing, reminders>> /\ api' = NoRequest /\ moved \subseteq moved'
  BY <1>2 DEF CommitSeries, Reply
<1>7. Ids' = Ids /\ Len(ob) \in Nat /\ day \in Int
  BY <1>1, <1>6, LenProperties DEF Ids, RowsOK
<1>8. RowsOK'
  BY <1>1, <1>4, <1>5, <1>6, <1>7 DEF RowsOK, Registered
<1>9. \A d \in Series : /\ config'[d].ob = config[d].ob /\ config'[d].plan = config[d].plan
                        /\ \/ config'[d].next = config[d].next
                           \/ config'[d].next \in Dates /\ d \in moved'
  BY <1>1, <1>4, <1>5 DEF RowsOK
<1>10. Kept
  BY <1>6, <1>7, <1>8, <1>9, SeriesAlive DEF Kept
<1>11. RemindersOK'
  BY <1>6, <1>7 DEF CycleInv, RemindersOK
<1> QED
  BY <1>6, <1>10, <1>11, NoRequestOK, KeptInv

\* A commit that changes one obligation and stops some series.
LEMMA SetAndStop ==
  ASSUME CycleInv, NEW o \in Ids, NEW new, Same(ob[o], new),
         new.status = "GONE" \/ ob[o].status # "GONE", new.date = ob[o].date,
         ob' = [ob EXCEPT ![o] = new],
         config' \in [Series -> Config],
         \A c \in Series : /\ config'[c].ob \in {0, config[c].ob}
                           /\ config'[c].next = config[c].next /\ config'[c].plan = config[c].plan
                           /\ config'[c].ob = o => new.status # "GONE",
         UNCHANGED <<day, credit, billing, reminders, moved>>
  PROVE  Kept /\ Ids' = Ids /\ RemindersOK'
<1>1. RowsOK
  BY DEF CycleInv
<1>2. /\ ob' \in Seq(Row) /\ Len(ob') = Len(ob) /\ Ids' = Ids
      /\ ob'[o] = new /\ \A u \in Ids : u # o => ob'[u] = ob[u]
      /\ \A u \in Ids : Same(ob[u], ob'[u]) /\ ob'[u].from < u
  BY <1>1, ObSet
<1>3. \A u \in Ids : ob[u].status = "GONE" => ob'[u].status = "GONE"
  BY <1>2
<1>4. day \in Int /\ Len(ob) \in Nat /\ 0 <= Len(ob)
  BY <1>1, LenProperties DEF RowsOK
<1>5. RowsOK'
  BY <1>1, <1>2, <1>3, <1>4 DEF RowsOK, Registered, Same
<1>6. \A c \in Series : config'[c].ob # 0 => ob'[config'[c].ob].status # "GONE"
  BY <1>2, SeriesAlive
<1>7. \A u \in Ids : ob'[u].date = ob[u].date
  BY <1>2
<1>8. Kept
  BY <1>2, <1>4, <1>5, <1>6, <1>7 DEF Kept, Same
<1> QED
  BY <1>2, <1>8 DEF CycleInv, RemindersOK

LEMMA CancelInv == CycleInv /\ CommitCancel => CycleInv'
<1> SUFFICES ASSUME CycleInv, CommitCancel PROVE CycleInv'
  OBVIOUS
<1> DEFINE o == api.on
           new == [ob[o] EXCEPT !.status = "VOIDED"]
<1>1. RowsOK /\ o \in Ids /\ ob[o] \in Row /\ ob[o].status # "GONE"
  BY RowAt DEF CommitCancel, Exists, CycleInv
<1>2. Same(ob[o], new) /\ new.status # "GONE" /\ new.date = ob[o].date
  BY <1>1 DEF Same, Row, ObligationStatus
<1>3. ob' = [ob EXCEPT ![o] = new]
  BY DEF CommitCancel
<1> HIDE DEF new
<1>4. \A c \in Series : /\ config'[c] \in Config /\ config'[c].ob = config[c].ob
                        /\ config'[c].next = config[c].next
                        /\ config'[c].plan = config[c].plan
  BY <1>1 DEF CommitCancel, RowsOK, Config
<1>5. config' \in [Series -> Config]
  BY <1>4 DEF CommitCancel
<1>6. UNCHANGED <<day, credit, billing, reminders, moved>> /\ api' = NoRequest
  BY DEF CommitCancel, Reply
<1>7. Kept /\ RemindersOK'
  <2>1. \A c \in Series : /\ config'[c].ob \in {0, config[c].ob}
                          /\ config'[c].next = config[c].next
                          /\ config'[c].plan = config[c].plan
                          /\ config'[c].ob = o => new.status # "GONE"
    BY <1>2, <1>4
  <2> HIDE DEF o
  <2> QED
    BY <1>1, <1>2, <1>3, <1>5, <1>6, <2>1, SetAndStop
<1> QED
  BY <1>6, <1>7, NoRequestOK, KeptInv

\* A deleted obligation takes its series with it.
LEMMA DeleteInv == CycleInv /\ CommitDelete => CycleInv'
<1> SUFFICES ASSUME CycleInv, CommitDelete PROVE CycleInv'
  OBVIOUS
<1> DEFINE o == api.on
           new == [ob[o] EXCEPT !.status = "GONE"]
<1>1. RowsOK /\ o \in Ids /\ ob[o] \in Row /\ ob[o].status # "GONE"
  BY RowAt DEF CommitDelete, Exists, CycleInv
<1>2. Same(ob[o], new) /\ new.status = "GONE" /\ new.date = ob[o].date
  BY <1>1 DEF Same, Row
<1>3. ob' = [ob EXCEPT ![o] = new]
  BY DEF CommitDelete
<1> HIDE DEF new
<1>4. config' = [c \in Series |-> IF c \in api.series \cup SeriesOf(o)
                                  THEN [config[c] EXCEPT !.ob = 0] ELSE config[c]]
  BY DEF CommitDelete
<1>5. \A c \in Series : /\ config'[c] \in Config /\ config'[c].ob \in {0, config[c].ob}
                        /\ config'[c].next = config[c].next
                        /\ config'[c].plan = config[c].plan
                        /\ config'[c].ob # o
  BY <1>1, <1>4, RowAt DEF RowsOK, Config, SeriesOf
<1>6. config' \in [Series -> Config]
  BY <1>4, <1>5
<1>7. UNCHANGED <<day, credit, billing, reminders, moved>> /\ api' = NoRequest
  BY DEF CommitDelete, Reply
<1>8. Kept /\ RemindersOK'
  BY <1>1, <1>2, <1>3, <1>5, <1>6, <1>7, SetAndStop
<1> QED
  BY <1>7, <1>8, NoRequestOK, KeptInv

\* The job with no batch, as between two runs or before it publishes.
LEMMA NoBatch ==
  ASSUME day' \in Nat, NEW pc \in {"idle", "publish"}, NEW events, NEW batch, batch = {},
         billing' = [pc |-> pc, at |-> 0, batch |-> batch, rows |-> Nothing, fresh |-> TRUE,
                     series |-> 0, config |-> Nothing, row |-> Nothing, credit |-> 0,
                     events |-> events]
  PROVE  BatchOK' /\ CycleOK'
<1>1. billing' = [f \in BillingFields |-> billing'[f]]
  BY Shape
<1>2. billing'.pc = pc /\ billing'.at = 0
  OBVIOUS
<1>3. billing'.batch = batch
  OBVIOUS
<1>4. BatchOK'
  BY <1>1, <1>2, <1>3 DEF BatchOK
<1>5. CycleOK'
  BY <1>2 DEF CycleOK
<1> QED
  BY <1>4, <1>5

\* A payer goes with every obligation, and no series of the payer goes on.
LEMMA RemoveInv == CycleInv /\ CommitRemove => CycleInv'
<1> SUFFICES ASSUME CycleInv, CommitRemove PROVE CycleInv'
  OBVIOUS
<1> DEFINE p == api.payer
<1>1. RowsOK /\ p \in Payers /\ api.all = ObsOf(p)
  BY DEF CommitRemove, CycleInv, ApiOK
<1>2. Len(ob) \in Nat /\ \A o \in Ids : ob[o] \in Row /\ ob[o].from < o
  BY <1>1, RowAt, LenProperties DEF RowsOK
<1>3. ob' = [o \in 1..Len(ob) |-> IF o \in api.all THEN [ob[o] EXCEPT !.status = "GONE"]
                                  ELSE ob[o]]
  BY DEF CommitRemove, Ids
<1>4. ASSUME NEW o \in Ids PROVE [ob[o] EXCEPT !.status = "GONE"] \in Row
  BY <1>2 DEF Row
<1>5. ob' \in [1..Len(ob) -> Row]
  BY <1>2, <1>3, <1>4 DEF Ids
<1>6. ob' \in Seq(Row) /\ Len(ob') = Len(ob)
  BY <1>2, <1>5
<1>7. Ids' = Ids
  BY <1>6 DEF Ids
<1>8. \A o \in Ids : /\ Same(ob[o], ob'[o]) /\ ob'[o].from < o /\ ob'[o].date = ob[o].date
                     /\ ob'[o].status = IF o \in api.all THEN "GONE" ELSE ob[o].status
  BY <1>2, <1>3, <1>4 DEF Same, Row, Ids
<1>9. \A c \in Series : /\ config'[c] \in Config
                        /\ config'[c].ob = IF config[c].ob \in api.all THEN 0 ELSE config[c].ob
                        /\ config'[c].next = config[c].next
                        /\ config'[c].plan = config[c].plan
  BY <1>1 DEF CommitRemove, RowsOK, Config
<1>10. config' \in [Series -> Config] /\ credit' = [credit EXCEPT ![p] = Nothing]
  BY <1>9 DEF CommitRemove
<1>11. UNCHANGED <<day, reminders, moved>> /\ api' = NoRequest
  BY DEF CommitRemove, Reply, marks
<1>12. \A o \in Ids : ob'[o].status # "GONE" => credit'[ob'[o].payer] # Nothing
  BY <1>1, <1>2, <1>8, <1>10 DEF ObsOf, RowsOK, Registered, Same, Row
<1>13. \A c \in Series : config'[c].ob <= Len(ob)
  BY <1>1, <1>2, <1>9 DEF RowsOK
<1>14. RowsOK'
  BY <1>1, <1>6, <1>7, <1>8, <1>10, <1>11, <1>12, <1>13 DEF RowsOK, Registered
<1>15. \A c \in Series : config'[c].ob # 0 => ob'[config'[c].ob].status # "GONE"
  BY <1>8, <1>9, SeriesAlive
<1>16. day \in Int
  BY <1>1 DEF RowsOK
<1>17. Kept
  BY <1>2, <1>6, <1>7, <1>8, <1>9, <1>11, <1>14, <1>15, <1>16 DEF Kept, Same
<1>18. RemindersOK'
  BY <1>7, <1>11 DEF CycleInv, RemindersOK
<1>19. billing' = billing \/ (BatchOK' /\ CycleOK')
  <2>1. CASE billing' = billing
    BY <2>1
  <2>2. CASE billing' = JobEnds
    <3>1. day' \in Nat
      BY <1>1, <1>11, ObligationsAssumption DEF RowsOK
    <3> QED
      BY <2>2, <3>1, NoBatch DEF JobEnds, NoBilling
  <2> QED
    BY <2>1, <2>2 DEF CommitRemove
<1> QED
  BY <1>11, <1>17, <1>18, <1>19, NoRequestOK, KeptInv

\* A new row at the end.
LEMMA ObAdd ==
  ASSUME NEW rowsNow \in Seq(Row), NEW new \in Row
  PROVE  LET all == Append(rowsNow, new) IN
         /\ all \in Seq(Row) /\ Len(all) = Len(rowsNow) + 1
         /\ \A o \in 1..Len(rowsNow) : all[o] = rowsNow[o]
         /\ all[Len(rowsNow) + 1] = new
  BY AppendProperties

LEMMA CreateInv == CycleInv /\ CommitCreate => CycleInv'
<1> SUFFICES ASSUME CycleInv, CommitCreate PROVE CycleInv'
  OBVIOUS
<1> DEFINE p == api.payer
<1>1. RowsOK /\ p \in Payers /\ Registered(p) /\ api.credit \in Nat
  BY DEF CommitCreate, CycleInv, ApiOK
<1>2. PICK a \in Amounts, date \in Dates \cup {Nothing} :
        LET made == ApplyCredit(NewRow(p, a, date), api.credit) IN
        /\ ob' = Append(ob, made.row)
        /\ credit' = IF made.credit = api.credit THEN credit
                     ELSE [credit EXCEPT ![p] = made.credit]
  BY DEF CommitCreate
<1> DEFINE made == ApplyCredit(NewRow(p, a, date), api.credit)
<1>3. a \in Int /\ date \in Int \cup {Nothing}
  BY ObligationsAssumption
<1>4. /\ made.row \in Row /\ made.row.from = 0 /\ made.row.payer = p
      /\ made.row.status # "GONE" /\ made.credit \in Nat
  <2> DEFINE row == NewRow(p, a, date)
  <2>1. row \in Row /\ row.from = 0 /\ row.payer = p /\ row.status # "GONE"
    BY <1>1, <1>3, MadeRow
  <2> HIDE DEF row
  <2>2. /\ Same(row, ApplyCredit(row, api.credit).row)
        /\ ApplyCredit(row, api.credit).row.status # "GONE"
        /\ ApplyCredit(row, api.credit).credit \in Nat
    BY <1>1, <2>1, CreditRow
  <2> QED
    BY <2>1, <2>2 DEF Same, row
<1>5. ob' = Append(ob, made.row)
      /\ credit' = IF made.credit = api.credit THEN credit ELSE [credit EXCEPT ![p] = made.credit]
  BY <1>2
<1> HIDE DEF made
<1>6. Len(ob) \in Nat /\ ob \in Seq(Row) /\ \A o \in Ids : ob[o] \in Row /\ ob[o].from < o
  BY <1>1, RowAt, LenProperties DEF RowsOK
<1>7. /\ ob' \in Seq(Row) /\ Len(ob') = Len(ob) + 1
      /\ \A o \in Ids : ob'[o] = ob[o]
      /\ ob'[Len(ob) + 1] = made.row
  BY <1>4, <1>5, <1>6, ObAdd DEF Ids
<1>8. Ids \subseteq Ids' /\ \A o \in Ids' : o \in Ids \/ o = Len(ob) + 1
  BY <1>6, <1>7 DEF Ids
<1>9. UNCHANGED <<day, config, billing, reminders, moved>> /\ api' = NoRequest
  BY DEF CommitCreate, Reply
<1>10. credit' \in [Payers -> Nat \cup {Nothing}]
       /\ \A q \in Payers : credit[q] # Nothing => credit'[q] # Nothing
  BY <1>1, <1>4, <1>5, CalendarAssumption DEF RowsOK
<1>11. \A o \in Ids' : ob'[o].from < o /\ (ob'[o].status # "GONE" => credit'[ob'[o].payer] # Nothing)
  <2>1. ASSUME NEW o \in Ids
        PROVE  ob'[o].from < o /\ (ob'[o].status # "GONE" => credit'[ob'[o].payer] # Nothing)
    BY <1>1, <1>6, <1>7, <1>10 DEF RowsOK, Registered, Row
  <2>2. made.row.from < Len(ob) + 1 /\ credit'[made.row.payer] # Nothing
    BY <1>1, <1>4, <1>6, <1>10 DEF Registered
  <2> QED
    BY <1>7, <1>8, <2>1, <2>2
<1>12. \A c \in Series : config[c].ob <= Len(ob')
  BY <1>1, <1>6, <1>7 DEF RowsOK, Config
<1>13. RowsOK'
  BY <1>1, <1>7, <1>9, <1>10, <1>11, <1>12 DEF RowsOK, Registered
<1>14. \A c \in Series : config[c].ob # 0 =>
         config[c].ob \in Ids /\ ob[config[c].ob].status # "GONE"
  BY SeriesAlive
<1>15. day \in Int /\ Len(ob) <= Len(ob')
  BY <1>1, <1>6, <1>7 DEF RowsOK
<1>16. Kept
  BY <1>4, <1>7, <1>8, <1>9, <1>13, <1>14, <1>15 DEF Kept
<1>17. RemindersOK'
  BY <1>8, <1>9 DEF CycleInv, RemindersOK
<1> QED
  BY <1>9, <1>16, <1>17, NoRequestOK, KeptInv

-----------------------------------------------------------------------------
(* Payments, reminders and time                                            *)

LEMMA PayInv == ASSUME CycleInv, NEW o \in Ids, NEW amount \in Amounts, Pay(o, amount)
                PROVE  CycleInv'
<1> DEFINE row  == ob[o]
           over == IF amount > row.balance THEN amount - row.balance ELSE 0
           new  == Paid(row, amount - over)
<1>1. RowsOK /\ row \in Row /\ row.status # "GONE" /\ amount \in Int
  BY RowAt, ObligationsAssumption DEF Pay, Exists, CycleInv
<1>2. over \in Nat
  BY <1>1 DEF Row
<1>3. /\ ob' = [ob EXCEPT ![o] = new]
      /\ credit' = [credit EXCEPT ![row.payer] = @ + over]
      /\ UNCHANGED <<day, config, api, billing, reminders, moved>>
  BY DEF Pay, marks
<1> HIDE DEF over
<1>4. Same(row, new) /\ new.status # "GONE" /\ new.date = row.date
  BY <1>1, <1>2, PaidRow
<1> HIDE DEF new
<1>5. row.payer \in Payers /\ credit[row.payer] \in Nat
  BY <1>1 DEF RowsOK, Registered, Row
<1>6. credit' \in [Payers -> Nat \cup {Nothing}]
      /\ \A q \in Payers : credit[q] # Nothing => credit'[q] # Nothing
  BY <1>1, <1>2, <1>3, <1>5, CalendarAssumption DEF RowsOK
<1> HIDE DEF row
<1>7. /\ ob' \in Seq(Row) /\ Len(ob') = Len(ob) /\ Ids' = Ids
      /\ ob'[o] = new /\ \A u \in Ids : u # o => ob'[u] = ob[u]
      /\ \A u \in Ids : Same(ob[u], ob'[u]) /\ ob'[u].from < u
  BY <1>1, <1>3, <1>4, ObSet DEF row
<1>8. \A u \in Ids : /\ ob'[u].status = "GONE" => ob[u].status = "GONE"
                     /\ ob[u].status = "GONE" => ob'[u].status = "GONE" \/ u = o
                     /\ ob'[u].date = ob[u].date
  BY <1>1, <1>4, <1>7 DEF row
<1>9. day \in Int /\ Len(ob) \in Nat
  BY <1>1, LenProperties DEF RowsOK
<1>10. \A u \in Ids : ob'[u].status # "GONE" => credit'[ob'[u].payer] # Nothing
  <2> SUFFICES ASSUME NEW u \in Ids, ob'[u].status # "GONE"
               PROVE  credit'[ob'[u].payer] # Nothing
    OBVIOUS
  <2>1. ob[u].status # "GONE" /\ ob'[u].payer = ob[u].payer /\ ob[u] \in Row
    BY <1>1, <1>7, <1>8, RowAt DEF Same, row
  <2>2. ob[u].payer \in Payers /\ credit[ob[u].payer] # Nothing
    BY <1>1, <2>1 DEF RowsOK, Registered, Row
  <2> QED
    BY <1>6, <2>1, <2>2
<1>11. RowsOK'
  BY <1>1, <1>3, <1>6, <1>7, <1>9, <1>10 DEF RowsOK, Registered
<1>12. \A c \in Series : config[c].ob # 0 =>
         config[c].ob \in Ids /\ ob[config[c].ob].status # "GONE"
  BY SeriesAlive
<1>13. Kept
  BY <1>3, <1>7, <1>8, <1>9, <1>11, <1>12 DEF Kept, Same
<1>14. RemindersOK' /\ ApiOK'
  <2>1. api.op = "create" => credit'[api.payer] # Nothing
    BY <1>6 DEF CycleInv, ApiOK, Registered
  <2> QED
    BY <1>3, <1>7, <2>1 DEF CycleInv, RemindersOK, ApiOK, Registered
<1> QED
  BY <1>3, <1>13, <1>14, KeptInv

LEMMA PagesInv ==
  ASSUME CycleInv, StartReminders \/ ReadPage \/ PublishReminders
  PROVE  CycleInv'
<1>1. UNCHANGED <<day, rows, billing, moved, api>>
  BY DEF StartReminders, ReadPage, PublishReminders, unreminded, rows, marks
<1>2. Ids' = Ids /\ day \in Int
  BY <1>1 DEF rows, Ids, CycleInv, RowsOK
<1> DEFINE start(pc, at, events) ==
             [pc |-> pc, at |-> at, offset |-> 0, page |-> {}, events |-> events]
<1>0. ASSUME NEW pc \in {"idle", "page", "publish"}, NEW at \in Int, NEW events,
             reminders' = start(pc, at, events)
      PROVE  RemindersOK'
  BY <1>0 DEF RemindersOK, ReminderFields
<1>3. ASSUME StartReminders PROVE RemindersOK'
  <2>1. reminders' = start("page", day, <<>>)
    BY <1>1, <1>3 DEF StartReminders, NoReminders
  <2> HIDE DEF start
  <2> QED
    BY <1>0, <1>2, <2>1
<1>4. ASSUME ReadPage PROVE RemindersOK'
  <2>1. CASE \E pc \in {"idle", "publish"} : reminders' = start(pc, reminders.at, reminders.events)
    <3> HIDE DEF start
    <3> QED
      BY <1>0, <2>1 DEF CycleInv, RemindersOK
  <2>2. CASE \E page \in SUBSET Ids :
               reminders' = [reminders EXCEPT !.page = page, !.offset = @ + PageSize]
    BY <1>2, <2>2 DEF CycleInv, RemindersOK, ReminderFields
  <2>3. \A size : kSubset(size, ToRemind) \subseteq SUBSET Ids
    BY DEF kSubset, ToRemind
  <2> QED
    BY <1>4, <2>1, <2>2, <2>3 DEF ReadPage, NoReminders
<1>5. ASSUME PublishReminders PROVE RemindersOK'
  <2>1. reminders' = start("idle", reminders.at, <<>>)
    BY <1>5 DEF PublishReminders, NoReminders
  <2> HIDE DEF start
  <2> QED
    BY <1>0, <2>1 DEF CycleInv, RemindersOK
<1>6. RemindersOK'
  BY <1>3, <1>4, <1>5
<1>7. Kept
  BY <1>1, StillKept
<1>8. ApiOK'
  BY <1>1 DEF CycleInv, ApiOK, rows, Registered
<1> QED
  BY <1>1, <1>6, <1>7, <1>8, KeptInv

LEMMA RemindInv == ASSUME CycleInv, NEW o \in reminders.page, Remind(o) PROVE CycleInv'
<1> DEFINE meta == IF ob[o].meta = Nothing THEN NoMeta ELSE ob[o].meta
           new  == [ob[o] EXCEPT !.meta = [meta EXCEPT !.sent = reminders.at]]
<1>1. RowsOK /\ o \in Ids /\ ob[o] \in Row /\ RemindersOK
  BY RowAt DEF CycleInv, RemindersOK
<1>2. UNCHANGED <<day, config, credit, billing, moved, api>>
  BY DEF Remind, unreminded, marks
<1>3. /\ reminders' = [f \in ReminderFields |-> reminders'[f]]
      /\ reminders'.pc \in {"idle", "page", "publish"} /\ reminders'.page \subseteq Ids
      /\ reminders'.at \in Int
  <2>1. reminders' = [reminders EXCEPT !.page = @ \ {o}, !.pc = "publish", !.page = {}]
        \/ reminders' = [reminders EXCEPT !.page = @ \ {o}]
        \/ reminders' = [reminders EXCEPT !.page = @ \ {o},
                           !.events = Append(reminders.events, <<o, reminders.at>>)]
    BY <1>1 DEF Remind, RemindersOK, ReminderFields
  <2>2. /\ reminders' = [f \in ReminderFields |-> reminders'[f]]
        /\ reminders'.page \subseteq reminders.page \/ reminders'.page = {}
        /\ reminders'.at = reminders.at
        /\ reminders'.pc = reminders.pc \/ reminders'.pc = "publish"
    BY <1>1, <2>1 DEF RemindersOK, ReminderFields
  <2> QED
    BY <1>1, <2>2 DEF RemindersOK
<1>4. CASE ob' = ob
  <2>1. Ids' = Ids
    BY <1>4 DEF Ids
  <2>2. Kept
    BY <1>2, <1>4, StillKept DEF rows
  <2>3. RemindersOK' /\ ApiOK'
    BY <1>2, <1>3, <2>1 DEF CycleInv, RemindersOK, ApiOK, Registered
  <2> QED
    BY <1>2, <2>2, <2>3, KeptInv
<1>5. CASE ~(ob' = ob)
  <2>1. Exists(o) /\ ob' = [ob EXCEPT ![o].meta = [meta EXCEPT !.sent = reminders.at]]
    BY <1>5 DEF Remind
  <2>2. ob' = [ob EXCEPT ![o] = new]
    BY <2>1
  <2>3. meta \in Meta
    BY <1>1 DEF Row, NoMeta, Meta
  <2> HIDE DEF meta
  <2>4. [meta EXCEPT !.sent = reminders.at] \in Meta
    BY <1>1, <2>3 DEF Meta, RemindersOK
  <2>5. Same(ob[o], new) /\ new.status = ob[o].status /\ new.date = ob[o].date
    BY <1>1, <2>4 DEF Same, Row
  <2> HIDE DEF new
  <2>6. ob[o].status # "GONE"
    BY <2>1 DEF Exists
  <2>7. /\ ob' \in Seq(Row) /\ Len(ob') = Len(ob) /\ Ids' = Ids
        /\ ob'[o] = new /\ \A u \in Ids : u # o => ob'[u] = ob[u]
        /\ \A u \in Ids : Same(ob[u], ob'[u]) /\ ob'[u].from < u
    BY <1>1, <2>2, <2>5, ObSet
  <2>8. \A u \in Ids : ob'[u].status = ob[u].status /\ ob'[u].date = ob[u].date
    BY <2>5, <2>7
  <2>9. RowsOK'
    BY <1>1, <1>2, <2>7, <2>8 DEF RowsOK, Registered, Same
  <2>10. day \in Int /\ Len(ob) \in Nat
    BY <1>1, LenProperties DEF RowsOK
  <2>11. \A c \in Series : config[c].ob # 0 =>
          config[c].ob \in Ids /\ ob[config[c].ob].status # "GONE"
    BY SeriesAlive
  <2>12. Kept
    BY <1>2, <2>7, <2>8, <2>9, <2>10, <2>11 DEF Kept, Same
  <2>13. RemindersOK' /\ ApiOK'
    BY <1>2, <1>3, <2>7 DEF CycleInv, RemindersOK, ApiOK, Registered
  <2> QED
    BY <1>2, <2>12, <2>13, KeptInv
<1> QED
  BY <1>4, <1>5

LEMMA TickInv == CycleInv /\ Tick => CycleInv'
<1> SUFFICES ASSUME CycleInv, Tick PROVE CycleInv'
  OBVIOUS
<1>1. /\ UNCHANGED <<ob, config, credit, billing, reminders, moved, api>>
      /\ day' = day + 1 /\ day < MaxDay
  BY DEF Tick, rows, marks
<1>2. Ids' = Ids /\ day \in 0..MaxDay /\ Len(ob) \in Nat /\ MaxDay \in Nat
  BY <1>1, LenProperties, ObligationsAssumption DEF Ids, CycleInv, RowsOK
<1>3. RowsOK'
  BY <1>1, <1>2 DEF CycleInv, RowsOK, Registered
<1>4. Kept
  BY <1>1, <1>2, <1>3, SeriesAlive DEF Kept
<1>5. RemindersOK' /\ ApiOK'
  BY <1>1, <1>2 DEF CycleInv, RemindersOK, ApiOK, Registered
<1> QED
  BY <1>1, <1>4, <1>5, KeptInv

-----------------------------------------------------------------------------
(* The billing job                                                         *)

\* A step of the job that touches no row.
LEMMA JobInv ==
  ASSUME CycleInv, UNCHANGED <<day, rows, api, reminders, moved>>, BatchOK', CycleOK'
  PROVE  CycleInv'
<1>1. Ids' = Ids
  BY DEF rows, Ids
<1>2. RowsOK' /\ ApiOK' /\ RemindersOK'
  BY <1>1 DEF CycleInv, RowsOK, ApiOK, RemindersOK, rows, Registered
<1>3. ChainOK' /\ DatesOK'
  BY <1>1 DEF CycleInv, ChainOK, DatesOK, RolledOnce, PeriodsAdvance, rows
<1> QED
  BY <1>2, <1>3 DEF CycleInv

\* The job after a rollback, or after a commit: the rest of the batch is as it was.
LEMMA RollbackOK ==
  ASSUME RowsOK, BatchOK, NEW c \in billing.batch, billing.pc # "idle", NEW events,
         billing' = [RolledBack(c) EXCEPT !.events = events],
         UNCHANGED <<day, moved>>, \A d \in billing.batch \ {c} : config'[d] = config[d]
  PROVE  BatchOK' /\ CycleOK'
<1>1. billing' = [pc |-> "next", at |-> billing.at, batch |-> billing.batch \ {c},
                  rows |-> Nothing, fresh |-> FALSE, series |-> 0, config |-> Nothing,
                  row |-> Nothing, credit |-> 0, events |-> events]
  BY DEF RolledBack, NoBilling
<1>2. billing.at \in 0..day /\ billing.batch \subseteq Series
      /\ \A d \in billing.batch : Reach(config[d])
  BY DEF BatchOK
<1>3. billing' = [f \in BillingFields |-> billing'[f]]
  BY <1>1, Shape
<1> QED
  BY <1>1, <1>2, <1>3 DEF BatchOK, CycleOK, Reach

LEMMA SelectInv == CycleInv /\ SelectDue => CycleInv'
<1> SUFFICES ASSUME CycleInv, SelectDue PROVE CycleInv'
  OBVIOUS
<1> DEFINE at == IF billing.pc = "idle" THEN day ELSE billing.at
<1>1. UNCHANGED <<day, rows, api, reminders, moved>>
  BY DEF SelectDue, unbilled, rows
<1>2. RowsOK /\ day \in 0..MaxDay /\ MaxDay \in Nat /\ billing.at \in 0..day
  BY ObligationsAssumption DEF CycleInv, RowsOK, BatchOK
<1>3. at \in 0..day
  BY <1>2
<1>4. billing' = IF DueSeries(at) = {}
                 THEN [NoBilling EXCEPT !.pc = IF billing.events = <<>> THEN "idle" ELSE "publish",
                                        !.events = billing.events]
                 ELSE [NoBilling EXCEPT !.pc = "next", !.at = at, !.batch = DueSeries(at),
                                        !.rows = config, !.events = billing.events]
  BY DEF SelectDue
<1> HIDE DEF at
<1>5. CASE DueSeries(at) = {}
  <2>1. day' \in Nat
    BY <1>1, <1>2
  <2>2. \E pc \in {"idle", "publish"} :
          billing' = [NoBilling EXCEPT !.pc = pc, !.events = billing.events]
    BY <1>4, <1>5
  <2>3. BatchOK' /\ CycleOK'
    BY <2>1, <2>2, NoBatch DEF NoBilling
  <2> QED
    BY <1>1, <2>3, JobInv
<1>6. CASE DueSeries(at) # {}
  <2>1. billing' = [pc |-> "next", at |-> at, batch |-> DueSeries(at), rows |-> config,
                    fresh |-> TRUE, series |-> 0, config |-> Nothing, row |-> Nothing,
                    credit |-> 0, events |-> billing.events]
    BY <1>4, <1>6 DEF NoBilling
  <2>2. ASSUME NEW c \in DueSeries(at)
        PROVE  c \in Series /\ Reach(config[c]) /\ Current(c, config[c])
    <3>1. c \in Series /\ config[c] \in Config /\ config[c].ob # 0 /\ config[c].ob <= Len(ob)
          /\ config[c].next # Nothing /\ config[c].next <= at
      BY <1>2 DEF DueSeries, RowsOK
    <3>2. config[c].ob \in Ids
      BY <1>2, <3>1, LenProperties DEF Config, Ids, RowsOK
    <3>3. config[c].next \in 0..MaxDay \/ (Backwards(config[c].plan) /\ config[c].next \in Int)
      BY <1>2, <1>3, <3>1 DEF Config, CycleInv, DatesOK
    <3> QED
      BY <3>1, <3>2, <3>3 DEF Current, Reach
  <2>3. Ids' = Ids /\ config' = config /\ moved' = moved /\ day' = day
    BY <1>1 DEF rows, Ids
  <2>4. billing' = [f \in BillingFields |-> billing'[f]]
    BY <2>1, Shape
  <2>5. BatchOK'
    BY <1>3, <2>1, <2>2, <2>3, <2>4 DEF BatchOK, DueSeries, Current, Reach
  <2>6. CycleOK'
    BY <2>1 DEF CycleOK
  <2> QED
    BY <1>1, <2>5, <2>6, JobInv
<1> QED
  BY <1>5, <1>6

LEMMA ReadCycleInv == ASSUME CycleInv, NEW c \in Series, ReadCycle(c) PROVE CycleInv'
<1>0. PICK row : row = IF billing.fresh THEN billing.rows[c] ELSE config[c]
  OBVIOUS
<1>1. UNCHANGED <<day, rows, api, reminders, moved>>
  BY DEF ReadCycle, unbilled, rows
<1>2. RowsOK /\ BatchOK /\ billing.pc = "next" /\ c \in billing.batch /\ day' \in Nat
  BY <1>1, ObligationsAssumption DEF ReadCycle, CycleInv, RowsOK
<1>3. Ids' = Ids /\ config' = config /\ moved' = moved /\ day' = day /\ ob' = ob
  BY <1>1 DEF rows, Ids
<1>4. billing' =
       IF row.ob = 0 THEN JobEnds
       ELSE IF ~Exists(row.ob) THEN [billing EXCEPT !.batch = @ \ {c}]
       ELSE IF ob[row.ob].meta = Nothing THEN RolledBack(c)
       ELSE [billing EXCEPT !.pc = "read", !.series = c, !.config = row, !.row = ob[row.ob]]
  BY <1>0 DEF ReadCycle
<1>5. row.ob # 0 => Current(c, row)
  <2>1. CASE billing.fresh
    BY <1>0, <1>2, <2>1 DEF BatchOK
  <2>2. CASE ~billing.fresh
    <3>1. config[c] \in Config /\ config[c].ob <= Len(ob) /\ Reach(config[c])
      BY <1>2 DEF RowsOK, BatchOK
    <3> QED
      BY <1>0, <1>2, <2>2, <3>1, LenProperties DEF Current, Config, Ids, RowsOK
  <2> QED
    BY <2>1, <2>2
<1>6. CASE row.ob = 0
  <2>1. BatchOK' /\ CycleOK'
    BY <1>2, <1>4, <1>6, NoBatch DEF JobEnds, NoBilling
  <2> QED
    BY <1>1, <2>1, JobInv
<1>7. CASE row.ob # 0 /\ ~Exists(row.ob)
  <2>1. billing' = [billing EXCEPT !.batch = @ \ {c}]
    BY <1>4, <1>7
  <2>2. BatchOK'
    BY <1>2, <1>3, <2>1 DEF BatchOK, BillingFields, Current, Reach
  <2>3. CycleOK'
    BY <1>2, <2>1 DEF CycleOK, BatchOK, BillingFields
  <2> QED
    BY <1>1, <2>2, <2>3, JobInv
<1>8. CASE row.ob # 0 /\ Exists(row.ob) /\ ob[row.ob].meta = Nothing
  <2>1. billing' = RolledBack(c)
    BY <1>4, <1>8
  <2>2. billing' = [RolledBack(c) EXCEPT !.events = billing.events]
    BY <2>1 DEF RolledBack, NoBilling
  <2>3. BatchOK' /\ CycleOK'
    BY <1>2, <1>3, <2>2, RollbackOK
  <2> QED
    BY <1>1, <2>3, JobInv
<1>9. CASE row.ob # 0 /\ Exists(row.ob) /\ ob[row.ob].meta # Nothing
  <2>1. billing' = [billing EXCEPT !.pc = "read", !.series = c, !.config = row, !.row = ob[row.ob]]
    BY <1>4, <1>9
  <2>2. /\ billing' = [f \in BillingFields |-> billing'[f]]
        /\ billing'.pc = "read" /\ billing'.series = c /\ billing'.config = row
        /\ billing'.row = ob[row.ob] /\ billing'.at = billing.at
        /\ billing'.batch = billing.batch /\ billing'.fresh = billing.fresh
        /\ billing'.rows = billing.rows
    BY <1>2, <2>1 DEF BatchOK, BillingFields
  <2>3. BatchOK'
    BY <1>2, <1>3, <2>2 DEF BatchOK, Current, Reach
  <2>4. ob[row.ob] \in Row /\ Current(c, row)
    BY <1>2, <1>5, <1>9, RowAt DEF Exists
  <2>5. Current(c, row)'
    BY <1>3, <2>4 DEF Current, Reach
  <2>6. CycleOK'
    BY <1>2, <1>3, <1>9, <2>2, <2>4, <2>5 DEF CycleOK, Current
  <2> QED
    BY <1>1, <2>3, <2>6, JobInv
<1> QED
  BY <1>6, <1>7, <1>8, <1>9

\* Neither the INSERT nor a failure touches a row that was there.
LEMMA InsertInv == CycleInv /\ (InsertCycle \/ CycleFails) => CycleInv'
<1> SUFFICES ASSUME CycleInv, InsertCycle \/ CycleFails PROVE CycleInv'
  OBVIOUS
<1> DEFINE p == billing.row.payer
<1>1. UNCHANGED <<day, rows, api, reminders, moved>>
  BY DEF InsertCycle, CycleFails, unbilled, rows
<1>2. Ids' = Ids /\ config' = config /\ moved' = moved /\ day' = day /\ ob' = ob
  BY <1>1 DEF rows, Ids
<1>3. RowsOK /\ BatchOK /\ CycleOK /\ billing.pc \in {"read", "made"}
  BY DEF InsertCycle, CycleFails, CycleInv
<1>4. CASE billing' = JobEnds
  <2>1. day' \in Nat
    BY <1>1, <1>3, ObligationsAssumption DEF RowsOK
  <2>2. BatchOK' /\ CycleOK'
    BY <1>4, <2>1, NoBatch DEF JobEnds, NoBilling
  <2> QED
    BY <1>1, <2>2, JobInv
<1>5. CASE billing' = [billing EXCEPT !.pc = "made", !.credit = credit[p]] /\ Registered(p)
  <2>1. /\ billing' = [f \in BillingFields |-> billing'[f]]
        /\ billing'.pc = "made" /\ billing'.series = billing.series
        /\ billing'.config = billing.config
        /\ billing'.row = billing.row /\ billing'.at = billing.at
        /\ billing'.batch = billing.batch /\ billing'.fresh = billing.fresh
        /\ billing'.rows = billing.rows /\ billing'.credit = credit[p]
    BY <1>3, <1>5 DEF BatchOK, BillingFields
  <2>2. BatchOK'
    BY <1>2, <1>3, <2>1 DEF BatchOK, Current, Reach
  <2>3. p \in Payers /\ credit[p] \in Nat
    BY <1>3, <1>5 DEF CycleOK, RowsOK, Registered, Row
  <2>4. CycleOK'
    BY <1>2, <1>3, <2>1, <2>3 DEF CycleOK, Current, Reach
  <2> QED
    BY <1>1, <2>2, <2>4, JobInv
<1> QED
  BY <1>4, <1>5 DEF InsertCycle, CycleFails

\* The cycle that follows a row, and the row once it is rolled over.
LEMMA NextCycleRow ==
  ASSUME NEW row \in Row, row.meta # Nothing, NEW date \in Int, billing.config.ob \in Nat
  PROVE  LET cycle == NextCycle(row, date) IN
         /\ cycle \in Row /\ cycle.from = billing.config.ob /\ cycle.series = row.series
         /\ cycle.payer = row.payer /\ cycle.date = date /\ cycle.status # "GONE"
<1>1. row.meta \in Meta /\ row.payer \in Payers /\ row.balance \in Int /\ row.due \in Int
      /\ row.series \in Series \cup {0}
  BY DEF Row
<1>2. BaseAmount(row) \in Int
  BY <1>1 DEF BaseAmount, Given, Meta
<1>3. Penalty(row) \in Int
  <2>1. row.meta.rate \in Int
    BY <1>1 DEF Meta
  <2>2. row.balance * row.meta.rate \in Int
    BY <1>1, <2>1
  <2> QED
    BY <2>2 DEF Penalty
<1> DEFINE due == BaseAmount(row) + row.balance + Penalty(row)
           meta == [row.meta EXCEPT !.base = BaseAmount(row)]
           start == NewRow(row.payer, due, date)
<1>4. due \in Int
  BY <1>1, <1>2, <1>3
<1>5. meta \in Meta
  BY <1>1, <1>2 DEF Meta
<1>6. NextCycle(row, date) = [start EXCEPT !.meta = meta, !.from = billing.config.ob,
                                           !.series = row.series]
  BY DEF NextCycle
<1> HIDE DEF due, meta
<1>7. start \in Row /\ start.payer = row.payer /\ start.status = "PENDING" /\ start.date = date
  BY <1>1, <1>4, MadeRow
<1> HIDE DEF start
<1> QED
  BY <1>1, <1>5, <1>6, <1>7 DEF Row

LEMMA RolledRow ==
  ASSUME NEW current \in Row, current.status # "GONE", NEW read \in Row
  PROVE  /\ Same(current, Rolled(current, read)) /\ Rolled(current, read).status # "GONE"
         /\ Rolled(current, read).date = current.date
  BY DEF Rolled, Same, Row, ObligationStatus

\* The commit of a new cycle, by what it makes of the rows.
Extended(c, o, date, next) ==
  /\ c \in Series /\ o \in Ids /\ config[c].ob = o /\ date \in Int
  /\ next \in Int \cup {Nothing}
  /\ ~Backwards(config[c].plan) => (next # Nothing => next > date /\ next >= 0)
  /\ c \in moved \/ config[c].next = date
  /\ ob' \in Seq(Row) /\ Len(ob') = Len(ob) + 1
  /\ \A u \in Ids : /\ Same(ob[u], ob'[u]) /\ ob'[u].date = ob[u].date
                    /\ ob'[u].status = "GONE" <=> ob[u].status = "GONE"
  /\ LET new == ob'[Len(ob) + 1] IN
     /\ new \in Row /\ new.from = o /\ new.series = ob[o].series /\ new.date = date
     /\ new.status # "GONE"
  /\ config' = [config EXCEPT ![c] = [@ EXCEPT !.ob = Len(ob) + 1, !.next = next]]
  /\ moved' = moved

LEMMA ExtendedChain ==
  ASSUME CycleInv, NEW c, NEW o, NEW date, NEW next, Extended(c, o, date, next)
  PROVE  ChainOK' /\ DatesOK'
<1> DEFINE new == Len(ob) + 1
<1>1. RowsOK /\ ChainOK /\ DatesOK
  BY DEF CycleInv
<1>2. c \in Series /\ o \in Ids /\ config[c].ob = o /\ Len(ob) \in Nat
  BY <1>1, LenProperties DEF Extended, RowsOK
<1>3. new \notin Ids /\ new # 0 /\ new \in Nat /\ Ids' = Ids \cup {new} /\ o # 0 /\ o # new
  BY <1>2 DEF Extended, Ids
<1>4. /\ \A u \in Ids : /\ ob'[u].from = ob[u].from /\ ob'[u].series = ob[u].series
                        /\ ob'[u].date = ob[u].date
                        /\ (ob'[u].status = "GONE" <=> ob[u].status = "GONE")
      /\ ob'[new].from = o /\ ob'[new].series = ob[o].series /\ ob'[new].date = date
      /\ ob'[new].status # "GONE"
  BY DEF Extended, Same
<1>5. \A u \in Ids : ob[u].from # 0 => ob[u].from \in Ids
  <2> SUFFICES ASSUME NEW u \in Ids, ob[u].from # 0 PROVE ob[u].from \in Ids
    OBVIOUS
  <2>1. ob[u].from \in Nat /\ ob[u].from < u /\ u <= Len(ob) /\ u \in Nat
    BY <1>1, RowAt DEF Row
  <2> QED
    BY <1>2, <2>1 DEF Ids
<1>6. \A d \in Series : config[d].ob # 0 => config[d].ob \in Ids
  BY <1>1, <1>2 DEF RowsOK, Config, Ids
<1>7. /\ config'[c].ob = new /\ config'[c].next = next /\ config'[c].plan = config[c].plan
      /\ \A d \in Series : d # c => config'[d] = config[d]
  <2>1. config[c] \in Config /\ config \in [Series -> Config]
    BY <1>1, <1>2 DEF RowsOK
  <2> QED
    BY <1>2, <2>1 DEF Extended, Config
<1> HIDE DEF new
<1>8. \A u \in Ids : ob[u].from # o
  BY <1>1, <1>2, <1>3 DEF ChainOK, RolledOnce
<1>9. RolledOnce'
  <2>1. ASSUME NEW u \in Ids', NEW v \in Ids', u # v, ob'[u].from = ob'[v].from, ob'[u].from # 0
        PROVE  FALSE
    <3>1. CASE u \in Ids /\ v \in Ids
      BY <1>1, <1>4, <2>1, <3>1 DEF ChainOK, RolledOnce
    <3>2. CASE u = new \/ v = new
      BY <1>3, <1>4, <1>8, <2>1, <3>2
    <3> QED
      BY <1>3, <3>1, <3>2
  <2>2. ASSUME NEW d \in Series, config'[d].ob # 0, NEW u \in Ids'
        PROVE  ob'[u].from # config'[d].ob
    <3>1. CASE d = c
      <4>1. ob'[u].from # new
        BY <1>3, <1>4, <1>5
      <4> QED
        BY <1>7, <3>1, <4>1
    <3>2. CASE d # c
      <4>1. config'[d].ob = config[d].ob /\ config[d].ob # o /\ config[d].ob \in Ids
        BY <1>1, <1>2, <1>3, <1>6, <1>7, <2>2, <3>2 DEF ChainOK
      <4>2. CASE u = new
        BY <1>4, <4>1, <4>2
      <4>3. CASE u \in Ids
        BY <1>1, <1>4, <2>2, <4>1, <4>3 DEF ChainOK, RolledOnce
      <4> QED
        BY <1>3, <4>2, <4>3
    <3> QED
      BY <3>1, <3>2
  <2> QED
    BY <2>1, <2>2 DEF RolledOnce
<1>10. \A d, e \in Series : d # e /\ config'[d].ob # 0 => config'[d].ob # config'[e].ob
  BY <1>1, <1>3, <1>6, <1>7 DEF ChainOK
<1>11. \A d \in Series : config'[d].ob # 0 =>
         ob'[config'[d].ob].series = d /\ ob'[config'[d].ob].status # "GONE"
  BY <1>1, <1>2, <1>3, <1>4, <1>6, <1>7 DEF ChainOK
<1>12. \A u \in Ids' : ob'[u].from # 0 =>
         ob'[u].series \in Series /\ ob'[ob'[u].from].series = ob'[u].series
  BY <1>1, <1>2, <1>3, <1>4, <1>5 DEF ChainOK
<1>13. ChainOK'
  BY <1>9, <1>10, <1>11, <1>12 DEF ChainOK
<1>14. /\ date \in Int /\ moved' = moved
       /\ ~Backwards(config[c].plan) => (next # Nothing => next > date /\ next >= 0)
       /\ c \in moved \/ config[c].next = date
  BY DEF Extended
<1>15. ob[o].series = c
  BY <1>1, <1>2, <1>3 DEF ChainOK
<1>16. PeriodsAdvance'
  <2> SUFFICES ASSUME NEW u \in Ids', ob'[u].from # 0, ob'[u].series \notin moved',
                      ~Backwards(config'[ob'[u].series].plan)
               PROVE  ob'[u].date > ob'[ob'[u].from].date
    BY DEF PeriodsAdvance
  <2>0. ~Backwards(config[ob'[u].series].plan)
    BY <1>7, <1>12
  <2>1. CASE u \in Ids
    BY <2>0, <1>1, <1>4, <1>5, <1>14, <2>1 DEF DatesOK, PeriodsAdvance
  <2>2. CASE u = new
    <3>1. c \notin moved /\ config[c].next = date /\ ~Backwards(config[c].plan)
      BY <1>4, <1>14, <1>15, <2>0, <2>2
    <3>2. date > ob[o].date
      BY <1>1, <1>2, <1>3, <1>14, <3>1, CalendarAssumption DEF DatesOK
    <3> QED
      BY <1>2, <1>4, <2>2, <3>2
  <2> QED
    BY <1>3, <2>1, <2>2
<1>18. ASSUME NEW d \in Series, ~Backwards(config'[d].plan), config'[d].next # Nothing
       PROVE  config'[d].next >= 0
  BY <1>1, <1>7, <1>14, <1>18 DEF DatesOK
<1>17. ASSUME NEW d \in Series, config'[d].ob # 0, d \notin moved', ~Backwards(config'[d].plan)
       PROVE  /\ ob'[config'[d].ob].date \in Int
              /\ config'[d].next # Nothing => config'[d].next > ob'[config'[d].ob].date
  <2>1. CASE d = c
    BY <1>4, <1>7, <1>14, <1>17, <2>1
  <2>2. CASE d # c
    BY <1>1, <1>4, <1>6, <1>7, <1>14, <1>17, <2>2 DEF DatesOK
  <2> QED
    BY <2>1, <2>2
<1>19. DatesOK'
  BY <1>16, <1>17, <1>18 DEF DatesOK
<1> QED
  BY <1>13, <1>19

LEMMA CommitCycleInv == CycleInv /\ CommitCycle => CycleInv'
<1> SUFFICES ASSUME CycleInv, CommitCycle PROVE CycleInv'
  OBVIOUS
<1> DEFINE c    == billing.series
           o    == billing.config.ob
           row  == billing.row
           date == billing.config.next
           next == NextDue(billing.config.plan, date)
           made == ApplyCredit(NextCycle(row, date), billing.credit)
           old  == Rolled(ob[o], row)
<1>1. RowsOK /\ BatchOK /\ CycleOK /\ billing.pc = "made" /\ config[c].ob # 0
  BY DEF CommitCycle, CycleInv
<1>2. /\ c \in Series /\ c \in billing.batch /\ o \in Ids
      /\ config[c].ob = o /\ ob[o].status # "GONE"
      /\ billing.config \in Config /\ billing.config.plan = config[c].plan
      /\ Reach(billing.config) /\ (c \in moved \/ config[c].next = date)
      /\ row \in Row /\ row.meta # Nothing /\ row.payer = ob[o].payer /\ row.series = ob[o].series
      /\ billing.credit \in Nat
  BY <1>1, SeriesAlive DEF CycleOK, BatchOK, Current
<1>4. /\ date \in Int /\ next \in Int \cup {Nothing}
      /\ ~Backwards(config[c].plan) => (next # Nothing => next > date /\ next >= 0)
  <2>1. CASE ~Backwards(billing.config.plan)
    <3>1. MaxDay \in Nat /\ Dates \subseteq Nat
          /\ \A d \in 0..MaxDay \cup Dates : d \in Days /\ NextMonthStart(d) \in Days
      BY ObligationsAssumption
    <3>2. date \in 0..MaxDay \cup Dates
      BY <1>2, <2>1 DEF Reach
    <3>3. billing.config.plan \in Plan
      BY <1>2 DEF Config
    <3>4. date \in Nat /\ date \in Days /\ NextMonthStart(date) \in Days
      <4> HIDE DEF date
      <4> QED
        BY <3>1, <3>2
    <3>5. next = Nothing \/ (next \in Int /\ next > date)
      BY <2>1, <3>3, <3>4, NextDueLater
    <3> QED
      BY <3>4, <3>5
  <2>2. CASE Backwards(billing.config.plan)
    <3>1. date \in Int
      <4>1. 0..MaxDay \cup Dates \subseteq Int
        BY ObligationsAssumption
      <4> QED
        BY <1>2, <4>1 DEF Reach
    <3>2. billing.config.plan \in Plan /\ billing.config.plan.type = "CUSTOM"
      BY <1>2, <2>2 DEF Config, Backwards
    <3>3. next \in Int
      BY <3>1, <3>2, CustomDue
    <3> QED
      BY <1>2, <2>2, <3>1, <3>3
  <2> QED
    BY <2>1, <2>2
<1>5. ob[o] \in Row /\ ob \in Seq(Row) /\ Len(ob) \in Nat /\ o \in Nat
  BY <1>1, <1>2, RowAt DEF RowsOK
<1>6. /\ made.row \in Row /\ made.row.from = o /\ made.row.series = ob[o].series
      /\ made.row.payer = ob[o].payer /\ made.row.date = date /\ made.row.status # "GONE"
      /\ made.credit \in Nat
  <2> DEFINE cycle == NextCycle(row, date)
  <2>1. /\ cycle \in Row /\ cycle.from = o /\ cycle.series = row.series
        /\ cycle.payer = row.payer /\ cycle.date = date /\ cycle.status # "GONE"
    BY <1>2, <1>4, <1>5, NextCycleRow
  <2> HIDE DEF cycle
  <2>2. /\ Same(cycle, ApplyCredit(cycle, billing.credit).row)
        /\ ApplyCredit(cycle, billing.credit).row.date = cycle.date
        /\ ApplyCredit(cycle, billing.credit).row.status # "GONE"
        /\ ApplyCredit(cycle, billing.credit).credit \in Nat
    BY <1>2, <2>1, CreditRow
  <2> QED
    BY <1>2, <2>1, <2>2 DEF Same, cycle
<1>7. Same(ob[o], old) /\ old.status # "GONE" /\ old.date = ob[o].date
  BY <1>2, <1>5, RolledRow
<1>8. /\ ob' = Append([ob EXCEPT ![o] = old], made.row)
      /\ config' = [config EXCEPT ![c] = [@ EXCEPT !.ob = Len(ob) + 1, !.next = next]]
      /\ credit' = IF made.credit = billing.credit THEN credit
                   ELSE [credit EXCEPT ![row.payer] = made.credit]
      /\ \E events : billing' = [RolledBack(c) EXCEPT !.events = events]
  BY DEF CommitCycle, MovedOn
<1>9. UNCHANGED <<day, api, reminders, moved>>
  BY DEF CommitCycle, unbilled
<1> HIDE DEF made, old, next, row, date
<1>10. /\ ob' \in Seq(Row) /\ Len(ob') = Len(ob) + 1
       /\ ob'[o] = old /\ ob'[Len(ob) + 1] = made.row
       /\ \A u \in Ids : u # o => ob'[u] = ob[u]
  <2> DEFINE rolled == [ob EXCEPT ![o] = old]
  <2>1. o \in 1..Len(ob) /\ old \in Row
    BY <1>2, <1>7 DEF Ids, Same
  <2>2. /\ rolled \in Seq(Row) /\ Len(rolled) = Len(ob)
        /\ \A u \in 1..Len(ob) : rolled[u] = IF u = o THEN old ELSE ob[u]
    BY <1>5, <2>1, ExceptSeq
  <2> HIDE DEF rolled
  <2>3. /\ ob' \in Seq(Row) /\ Len(ob') = Len(rolled) + 1
        /\ \A u \in 1..Len(rolled) : ob'[u] = rolled[u]
        /\ ob'[Len(rolled) + 1] = made.row
    BY <1>6, <1>8, <2>2, ObAdd DEF rolled
  <2> QED
    BY <2>1, <2>2, <2>3 DEF Ids
<1>11. \A u \in Ids : /\ Same(ob[u], ob'[u]) /\ ob'[u].date = ob[u].date
                      /\ ob'[u].status = "GONE" <=> ob[u].status = "GONE"
  <2> SUFFICES ASSUME NEW u \in Ids
               PROVE  /\ Same(ob[u], ob'[u]) /\ ob'[u].date = ob[u].date
                      /\ ob'[u].status = "GONE" <=> ob[u].status = "GONE"
    OBVIOUS
  <2>1. CASE u = o
    BY <1>2, <1>7, <1>10, <2>1
  <2>2. CASE u # o
    BY <1>1, <1>10, <2>2, RowAt DEF Same
  <2> QED
    BY <2>1, <2>2
<1>12. Extended(c, o, date, next)
  BY <1>2, <1>4, <1>6, <1>8, <1>9, <1>10, <1>11 DEF Extended
<1>13. ChainOK' /\ DatesOK'
  BY <1>12, ExtendedChain
<1>14. /\ config' \in [Series -> Config] /\ config'[c].ob = Len(ob) + 1
       /\ \A d \in Series : d # c => config'[d] = config[d]
  <2>1. config[c] \in Config /\ config \in [Series -> Config] /\ Len(ob) + 1 \in Nat
    BY <1>1, <1>2, <1>5 DEF RowsOK
  <2>2. [config[c] EXCEPT !.ob = Len(ob) + 1, !.next = next] \in Config
    BY <1>4, <2>1 DEF Config
  <2> QED
    BY <1>2, <1>8, <2>1, <2>2 DEF Config
<1>15. credit' \in [Payers -> Nat \cup {Nothing}]
       /\ \A q \in Payers : credit[q] # Nothing => credit'[q] # Nothing
  <2>1. credit \in [Payers -> Nat \cup {Nothing}] /\ made.credit \in Nat
        /\ made.credit # Nothing
    BY <1>1, <1>6, CalendarAssumption DEF RowsOK
  <2> QED
    BY <1>8, <2>1
<1>16. RowsOK'
  <2>1. Ids' = Ids \cup {Len(ob) + 1} /\ Len(ob) + 1 \notin Ids
    BY <1>5, <1>10 DEF Ids
  <2>2. \A u \in Ids' : ob'[u].from < u
    <3>1. ASSUME NEW u \in Ids PROVE ob'[u].from < u
      BY <1>1, <1>11, RowAt DEF Same
    <3>2. o < Len(ob) + 1
      BY <1>2, <1>5 DEF Ids
    <3> QED
      BY <1>6, <1>10, <2>1, <3>1, <3>2
  <2>3. \A u \in Ids' : ob'[u].status # "GONE" => credit'[ob'[u].payer] # Nothing
    <3>1. ASSUME NEW u \in Ids, ob[u].status # "GONE" PROVE credit'[ob[u].payer] # Nothing
      <4>1. ob[u].payer \in Payers /\ credit[ob[u].payer] # Nothing
        BY <1>1, <3>1, RowAt DEF RowsOK, Registered, Row
      <4> QED
        BY <1>15, <4>1
    <3>2. \A u \in Ids : ob'[u].payer = ob[u].payer
      BY <1>11 DEF Same
    <3> QED
      BY <1>2, <1>6, <1>10, <1>11, <2>1, <3>1, <3>2
  <2>4. \A d \in Series : config'[d].ob <= Len(ob')
    <3>1. \A d \in Series : config[d].ob \in Nat /\ config[d].ob <= Len(ob)
      BY <1>1 DEF RowsOK, Config
    <3> QED
      BY <1>5, <1>10, <1>14, <3>1
  <2> QED
    BY <1>1, <1>9, <1>10, <1>14, <1>15, <2>2, <2>3, <2>4 DEF RowsOK, Registered
<1>17. BatchOK' /\ CycleOK'
  BY <1>1, <1>2, <1>8, <1>9, <1>14, RollbackOK DEF BatchOK
<1>18. ApiOK'
  BY <1>9, <1>15 DEF CycleInv, ApiOK, Registered
<1>19. RemindersOK'
  <2>1. Ids \subseteq Ids'
    BY <1>5, <1>10 DEF Ids
  <2> QED
    BY <1>9, <2>1 DEF CycleInv, RemindersOK
<1> QED
  BY <1>13, <1>16, <1>17, <1>18, <1>19 DEF CycleInv

LEMMA PublishInv == CycleInv /\ PublishCycles => CycleInv'
<1> SUFFICES ASSUME CycleInv, PublishCycles PROVE CycleInv'
  OBVIOUS
<1>1. UNCHANGED <<day, rows, api, reminders, moved>> /\ billing' = NoBilling
  BY DEF PublishCycles, unbilled, rows
<1>2. day' \in Nat
  BY <1>1, ObligationsAssumption DEF CycleInv, RowsOK
<1>3. BatchOK' /\ CycleOK'
  BY <1>1, <1>2, NoBatch DEF NoBilling
<1> QED
  BY <1>1, <1>3, JobInv

LEMMA WorkerCrashInv == CycleInv /\ WorkerCrash => CycleInv'
<1> SUFFICES ASSUME CycleInv, WorkerCrash PROVE CycleInv'
  OBVIOUS
<1>1. /\ UNCHANGED <<day, rows, api, moved>> /\ billing' = NoBilling
      /\ reminders' = [pc |-> "idle", at |-> reminders.at, offset |-> 0, page |-> {},
                       events |-> <<>>]
  BY DEF WorkerCrash, NoReminders, marks
<1>2. day' \in Nat /\ Ids' = Ids
  BY <1>1, ObligationsAssumption DEF CycleInv, RowsOK, rows, Ids
<1>3. BatchOK' /\ CycleOK'
  BY <1>1, <1>2, NoBatch DEF NoBilling
<1>4. RemindersOK'
  BY <1>1 DEF CycleInv, RemindersOK, ReminderFields
<1>5. RowsOK' /\ ApiOK'
  BY <1>1, <1>2 DEF CycleInv, RowsOK, ApiOK, rows, Registered
<1>6. ChainOK' /\ DatesOK'
  BY <1>1, <1>2 DEF CycleInv, ChainOK, DatesOK, RolledOnce, PeriodsAdvance, rows
<1> QED
  BY <1>3, <1>4, <1>5, <1>6 DEF CycleInv

-----------------------------------------------------------------------------
(* Always                                                                  *)

LEMMA CycleNext == CycleInv /\ [Next]_vars => CycleInv'
<1> SUFFICES ASSUME CycleInv, [Next]_vars PROVE CycleInv'
  OBVIOUS
<1>1. CASE UNCHANGED vars
  <2>1. ApiOK'
    BY <1>1 DEF vars, rows, CycleInv, ApiOK, Registered
  <2> QED
    BY <1>1, <2>1, QuietInv DEF vars, marks
<1>2. CASE Commit
  BY <1>2, ConflictInv, UpdateInv, SeriesInv, CancelInv, DeleteInv, RemoveInv, CreateInv DEF Commit
<1>3. CASE BillingStep
  BY <1>3, SelectInv, ReadCycleInv, InsertInv, CommitCycleInv, PublishInv DEF BillingStep
<1>4. CASE StartReminders \/ ReminderStep
  BY <1>4, PagesInv, RemindInv DEF ReminderStep
<1>5. CASE \E o \in Ids, amount \in Amounts : Pay(o, amount)
  BY <1>5, PayInv
<1>6. CASE Tick \/ WorkerCrash \/ ApiCrash
  BY <1>6, TickInv, WorkerCrashInv, ConflictInv
<1>7. CASE \/ \E o \in Ids : Update(o) \/ Cancel(o) \/ Delete(o)
           \/ \E c \in Series : UpdateSeries(c)
           \/ \E p \in Payers : Create(p) \/ RemovePayer(p) \/ RemoveGroup(p)
  BY <1>7, AskInv
<1> QED
  BY <1>1, <1>2, <1>3, <1>4, <1>5, <1>6, <1>7 DEF Next

LEMMA CyclesAlways == Spec => []CycleInv
  BY CycleInit, CycleNext, PTL DEF Spec

\* The rows keep their types whatever interleaves; the credit of a payer never falls
\* below zero, and an obligation is billed from an earlier one.
THEOREM TypeCorrect == Spec => []TypeOK
<1>1. CycleInv => TypeOK
  <2> SUFFICES ASSUME CycleInv PROVE TypeOK
    OBVIOUS
  <2>1. \A o \in Ids : ob[o] \in Row /\ ob[o].from \in 0..(o - 1)
    BY RowAt DEF CycleInv, Row
  <2>2. \A c \in Series : config[c].ob \in {0} \cup Ids
    BY LenProperties DEF CycleInv, RowsOK, Config, Ids
  <2>3. day \in Nat
    BY ObligationsAssumption DEF CycleInv, RowsOK
  <2> QED
    BY <2>1, <2>2, <2>3 DEF CycleInv, RowsOK, BatchOK, RemindersOK, TypeOK, Row
<1> QED
  BY <1>1, CyclesAlways, PTL

\* No cycle is rolled over twice and no running series is left behind in its chain,
\* whatever requests change between what _run_billing_cycle_sync reads and commits.
THEOREM CyclesChain == Spec => []RolledOnce
<1>1. CycleInv => RolledOnce
  BY DEF CycleInv, ChainOK
<1> QED
  BY <1>1, CyclesAlways, PTL

\* No period is billed twice: each cycle is due later than the one it follows, by
\* compute_next_due, unless a manager has moved a date of the series or its
\* interval_days is negative.
THEOREM CyclesAdvance == Spec => []PeriodsAdvance
<1>1. CycleInv => PeriodsAdvance
  BY DEF CycleInv, DatesOK
<1> QED
  BY <1>1, CyclesAlways, PTL

-----------------------------------------------------------------------------
(* Money: what is owed, by row                                             *)

\* What a payer owes in a table of obligations.
DebtIn(all, p) ==
  SumOver([o \in 1..Len(all) |-> Owed(all[o])], {o \in 1..Len(all) : all[o].payer = p})

LEMMA OwedInt == \A row \in Row : Owed(row) \in Int
  BY DEF Owed, Row

\* The sum is over a finite set, of integers.
LEMMA DebtParts ==
  ASSUME NEW all \in Seq(Row), NEW p
  PROVE  /\ IsFiniteSet({o \in 1..Len(all) : all[o].payer = p})
         /\ \A o \in 1..Len(all) : all[o] \in Row /\ Owed(all[o]) \in Int
         /\ DebtIn(all, p) \in Int
<1> DEFINE S == {o \in 1..Len(all) : all[o].payer = p}
           f == [o \in 1..Len(all) |-> Owed(all[o])]
<1>1. IsFiniteSet(S)
  <2>1. IsFiniteSet(1..Len(all))
    BY FS_Interval
  <2> QED
    BY <2>1, FS_Subset
<1>2. \A o \in 1..Len(all) : all[o] \in Row /\ Owed(all[o]) \in Int
  BY OwedInt
<1>3. \A o \in S : f[o] \in Int
  BY <1>2
<1> HIDE DEF f, S
<1>4. SumOver(f, S) \in Int
  BY <1>1, <1>3, SumInt
<1> QED
  BY <1>1, <1>2, <1>4 DEF f, S, DebtIn

\* Two tables in which a payer owes the same on every row.
LEMMA DebtSame ==
  ASSUME NEW all \in Seq(Row), NEW new \in Seq(Row), NEW p, Len(new) = Len(all),
         \A o \in 1..Len(all) : new[o].payer = all[o].payer,
         \A o \in 1..Len(all) : all[o].payer = p => Owed(new[o]) = Owed(all[o])
  PROVE  DebtIn(new, p) = DebtIn(all, p)
<1> DEFINE S == {o \in 1..Len(all) : all[o].payer = p}
           e == [o \in 1..Len(all) |-> Owed(all[o])]
           f == [o \in 1..Len(all) |-> Owed(new[o])]
<1>1. \A o \in S : e[o] = f[o]
  OBVIOUS
<1>2. {o \in 1..Len(new) : new[o].payer = p} = S
  OBVIOUS
<1>3. IsFiniteSet(S)
  BY DebtParts
<1>4. DebtIn(all, p) = SumOver(e, S) /\ DebtIn(new, p) = SumOver(f, S)
  BY <1>2 DEF DebtIn
<1> HIDE DEF e, f, S
<1> QED
  BY <1>1, <1>3, <1>4, SumSame

\* One row changes.
OneChanged(new, old, o) ==
  /\ Len(new) = Len(old) /\ new[o].payer = old[o].payer
  /\ \A u \in 1..Len(old) : u # o => new[u] = old[u]

LEMMA DebtSet ==
  ASSUME NEW all \in Seq(Row), NEW after \in Seq(Row), NEW o \in 1..Len(all),
         OneChanged(after, all, o), NEW p
  PROVE  DebtIn(after, p)
           = DebtIn(all, p) + IF p = all[o].payer THEN Owed(after[o]) - Owed(all[o]) ELSE 0
<1> DEFINE S == {u \in 1..Len(all) : all[u].payer = p}
           e == [u \in 1..Len(all) |-> Owed(all[u])]
           f == [u \in 1..Len(all) |-> Owed(after[u])]
<1>1. /\ Len(after) = Len(all) /\ after[o].payer = all[o].payer
      /\ \A u \in 1..Len(all) : u # o => after[u] = all[u]
  BY DEF OneChanged
<1>2. {u \in 1..Len(after) : after[u].payer = p} = S
  BY <1>1
<1>3. /\ IsFiniteSet(S) /\ DebtIn(all, p) \in Int
      /\ \A u \in 1..Len(all) : Owed(all[u]) \in Int /\ Owed(after[u]) \in Int
  BY <1>1, DebtParts, OwedInt
<1>4. DebtIn(all, p) = SumOver(e, S) /\ DebtIn(after, p) = SumOver(f, S)
  BY <1>1, <1>2 DEF DebtIn
<1>5. CASE p = all[o].payer
  <2>1. /\ o \in S /\ f[o] = Owed(after[o]) /\ e[o] = Owed(all[o])
        /\ \A u \in S : e[u] \in Int /\ f[u] \in Int
        /\ \A u \in S \ {o} : e[u] = f[u]
    BY <1>1, <1>3, <1>5
  <2> HIDE DEF e, f, S
  <2>2. SumOver(f, S) = SumOver(e, S) + f[o] - e[o]
    BY <1>3, <2>1, SumChange
  <2>3. f[o] \in Int /\ e[o] \in Int
    BY <2>1
  <2> QED
    BY <1>3, <1>4, <1>5, <2>1, <2>2, <2>3
<1>6. CASE p # all[o].payer
  <2>1. \A u \in S : e[u] = f[u]
    BY <1>1, <1>6
  <2> HIDE DEF e, f, S
  <2>2. SumOver(f, S) = SumOver(e, S)
    BY <1>3, <2>1, SumSame
  <2> QED
    BY <1>3, <1>4, <1>6, <2>2
<1> QED
  BY <1>5, <1>6

\* A row is added.
LEMMA DebtAdd ==
  ASSUME NEW all \in Seq(Row), NEW new \in Row, NEW p
  PROVE  DebtIn(Append(all, new), p)
           = DebtIn(all, p) + IF p = new.payer THEN Owed(new) ELSE 0
<1> DEFINE after == Append(all, new)
           n == Len(all) + 1
           S == {u \in 1..Len(all) : all[u].payer = p}
           T == {u \in 1..Len(after) : after[u].payer = p}
           e == [u \in 1..Len(all) |-> Owed(all[u])]
           f == [u \in 1..Len(after) |-> Owed(after[u])]
<1>1. /\ after \in Seq(Row) /\ Len(after) = n /\ Len(all) \in Nat
      /\ \A u \in 1..Len(all) : after[u] = all[u]
      /\ after[n] = new
  BY ObAdd, LenProperties
<1> HIDE DEF after
<1>2. /\ IsFiniteSet(S) /\ DebtIn(all, p) \in Int /\ Owed(new) \in Int
      /\ \A u \in 1..n : Owed(after[u]) \in Int
  BY <1>1, DebtParts, OwedInt
<1>3. DebtIn(all, p) = SumOver(e, S) /\ DebtIn(after, p) = SumOver(f, T)
  BY DEF DebtIn
<1>4. /\ n \notin S /\ f[n] = Owed(new)
      /\ T = IF p = new.payer THEN S \cup {n} ELSE S
      /\ \A u \in S : e[u] = f[u]
      /\ \A u \in S \cup {n} : f[u] \in Int
  BY <1>1, <1>2
<1> HIDE DEF e, f, S, T, n
<1>5. SumOver(f, S) = SumOver(e, S)
  BY <1>2, <1>4, SumSame
<1>6. SumOver(f, S \cup {n}) = f[n] + SumOver(f, S)
  BY <1>2, <1>4, SumAdd
<1> QED
  BY <1>2, <1>3, <1>4, <1>5, <1>6 DEF after

-----------------------------------------------------------------------------
(* Money: the rows                                                         *)

Balanced(row) == row.balance = row.due - row.paid

\* A payment takes what it brings off what is owed; nothing is left over.
LEMMA PaidOwes ==
  ASSUME NEW row \in Row, Balanced(row), NEW amount \in Int, amount <= row.balance
  PROVE  /\ Balanced(Paid(row, amount))
         /\ Owed(Paid(row, amount)) = row.balance - amount
<1> DEFINE left == row.due - (row.paid + amount)
<1>1. /\ row.due \in Int /\ row.paid \in Int /\ row.balance \in Int
      /\ left = row.balance - amount /\ left >= 0
  BY DEF Row, Balanced
<1>2. Paid(row, amount) =
        IF left <= 0 THEN [row EXCEPT !.paid = @ + amount, !.balance = 0, !.status = "SETTLED"]
        ELSE [row EXCEPT !.paid = @ + amount, !.balance = left, !.status = "PARTIAL"]
  BY DEF Paid
<1>3. /\ Paid(row, amount).due = row.due /\ Paid(row, amount).paid = row.paid + amount
      /\ Paid(row, amount).balance = left
      /\ Paid(row, amount).status = IF left <= 0 THEN "SETTLED" ELSE "PARTIAL"
  <2>1. CASE left <= 0
    <3>1. left = 0
      BY <1>1, <2>1
    <3> HIDE DEF left
    <3> QED
      BY <1>2, <2>1, <3>1 DEF Row
  <2>2. CASE ~(left <= 0)
    <3> HIDE DEF left
    <3> QED
      BY <1>2, <2>2 DEF Row
  <2> QED
    BY <2>1, <2>2
<1>4. left = row.due - (row.paid + amount)
  OBVIOUS
<1> HIDE DEF left
<1>5. Owed(Paid(row, amount)) = left
  BY <1>1, <1>3 DEF Owed, Open
<1> QED
  BY <1>1, <1>3, <1>4, <1>5 DEF Balanced

\* Credit used on a row that is open is taken off it.
LEMMA CreditOwes ==
  ASSUME NEW row \in Row, Balanced(row), row.status = "PENDING", NEW available \in Nat
  PROVE  LET made == ApplyCredit(row, available) IN
         /\ Balanced(made.row)
         /\ Owed(made.row) - made.credit = row.balance - available
<1> DEFINE usage == Lesser(available, row.balance)
<1>1. row.balance \in Int /\ usage \in Int /\ usage <= row.balance
  BY DEF Lesser, Row
<1>2. CASE available <= 0
  BY <1>1, <1>2 DEF ApplyCredit, Owed, Open
<1>3. CASE ~(available <= 0)
  <2>1. ApplyCredit(row, available) = [row |-> Paid(row, usage), credit |-> available - usage]
    BY <1>3 DEF ApplyCredit
  <2> HIDE DEF usage
  <2>2. Balanced(Paid(row, usage)) /\ Owed(Paid(row, usage)) = row.balance - usage
    BY <1>1, PaidOwes
  <2> QED
    BY <1>1, <2>1, <2>2
<1> QED
  BY <1>2, <1>3

LEMMA NewOwes ==
  ASSUME NEW p \in Payers, NEW due \in Int, NEW date \in Int \cup {Nothing}
  PROVE  /\ NewRow(p, due, date).balance = due /\ Balanced(NewRow(p, due, date))
         /\ Owed(NewRow(p, due, date)) = due
  BY DEF NewRow, Balanced, Owed, Open

\* What a manager changes leaves the balance what is left of the amount.
LEMMA EditBalanced ==
  ASSUME NEW row \in Row, Balanced(row), NEW new \in Edits(row)
  PROVE  Balanced(new)
<1>1. CASE \E a \in Amounts : new = [row EXCEPT !.due = a, !.balance = a - row.paid]
  <2>1. PICK a \in Amounts : new = [row EXCEPT !.due = a, !.balance = a - row.paid]
    BY <1>1
  <2>2. a \in Int /\ row.paid \in Int
    BY ObligationsAssumption DEF Row
  <2> QED
    BY <2>1, <2>2 DEF Row, Balanced
<1>2. CASE \E s \in ObligationStatus : new = [row EXCEPT !.status = s]
  BY <1>2 DEF Row, Balanced
<1>3. CASE \E d \in Dates : new = [row EXCEPT !.date = d]
  BY <1>3 DEF Row, Balanced
<1>4. CASE \E m \in {NoMeta, Nothing} : new = [row EXCEPT !.meta = m]
  BY <1>4 DEF Row, Balanced
<1> QED
  BY <1>1, <1>2, <1>3, <1>4 DEF Edits

\* A commit over the row as it was read writes the row as it is meant.
LEMMA FlushFresh ==
  ASSUME NEW row \in Row, NEW new \in Row
  PROVE  Flush(row, row, new) = new
<1>1. DOMAIN row = Fields /\ row = [f \in Fields |-> row[f]] /\ new = [f \in Fields |-> new[f]]
  BY DEF Row, Fields
<1>2. Flush(row, row, new) = [f \in Fields |-> new[f]]
  BY <1>1 DEF Flush
<1> QED
  BY <1>1, <1>2

\* A cycle starts with all of its amount due.
LEMMA NextCycleOwes ==
  ASSUME NEW row \in Row, row.meta # Nothing, NEW date \in Int, billing.config.ob \in Nat
  PROVE  LET cycle == NextCycle(row, date) IN
         /\ BaseAmount(row) \in Int /\ Penalty(row) \in Int
         /\ cycle.balance = BaseAmount(row) + row.balance + Penalty(row)
         /\ Balanced(cycle) /\ cycle.status = "PENDING"
<1>1. row.meta \in Meta /\ row.balance \in Int /\ row.due \in Int /\ row.payer \in Payers
  BY DEF Row
<1>2. BaseAmount(row) \in Int
  BY <1>1 DEF BaseAmount, Given, Meta
<1>3. Penalty(row) \in Int
  <2>1. row.meta.rate \in Int
    BY <1>1 DEF Meta
  <2>2. row.balance * row.meta.rate \in Int
    BY <1>1, <2>1
  <2> QED
    BY <2>2 DEF Penalty
<1> DEFINE due == BaseAmount(row) + row.balance + Penalty(row)
           meta == [row.meta EXCEPT !.base = BaseAmount(row)]
<1>4. due \in Int
  BY <1>1, <1>2, <1>3
<1>5. NextCycle(row, date) = [NewRow(row.payer, due, date) EXCEPT
                                !.meta = meta, !.from = billing.config.ob, !.series = row.series]
  BY DEF NextCycle
<1> HIDE DEF due, meta
<1>6. /\ NextCycle(row, date).balance = due /\ NextCycle(row, date).due = due
      /\ NextCycle(row, date).paid = 0 /\ NextCycle(row, date).status = "PENDING"
  BY <1>5 DEF NewRow
<1> QED
  BY <1>2, <1>3, <1>4, <1>6 DEF Balanced, due

-----------------------------------------------------------------------------
(* Money: the invariant                                                    *)

Explained ==
  \A p \in Payers :
    Registered(p) => Debt(p) - credit[p] = billed[p] + adjusted[p] - received[p]

MoneyOK ==
  /\ billed \in [Payers -> Int] /\ adjusted \in [Payers -> Int] /\ received \in [Payers -> Int]
  /\ raced \in BOOLEAN

\* Until a session commits over rows changed since it read them, the balance of an
\* obligation is what is left of it, and debts are explained.
Fresh ==
  /\ \A o \in Ids : Balanced(ob[o])
  /\ Explained

DebtInv == CycleInv /\ MoneyOK /\ (~raced => Fresh)

LEMMA DebtIsIn == \A p : Debt(p) = DebtIn(ob, p)
  BY DEF Debt, DebtIn, Ids

LEMMA DebtIsInNext == \A p : Debt(p)' = DebtIn(ob', p)
  BY DEF Debt, DebtIn, Ids

\* The table `new` has x more than `old` for q, and the same for the others.
Adds(new, old, q, x) == \A p \in Payers : new[p] = old[p] + IF p = q THEN x ELSE 0

\* So are the debts in two tables, and the credit of others is the same.
Owes(new, old, q, x) ==
  \A p \in Payers : DebtIn(new, p) = DebtIn(old, p) + IF p = q THEN x ELSE 0
CreditAdds(new, old, q, x) ==
  /\ old[q] \in Nat /\ new[q] = old[q] + x
  /\ \A p \in Payers \ {q} : new[p] = old[p]

LEMMA AddsTo ==
  ASSUME NEW old \in [Payers -> Int], NEW q \in Payers, NEW x \in Int, NEW new,
         new = [old EXCEPT ![q] = @ + x]
  PROVE  new \in [Payers -> Int] /\ Adds(new, old, q, x)
  BY DEF Adds

LEMMA AddsNothing ==
  ASSUME NEW old \in [Payers -> Int], NEW q, NEW new, new = old
  PROVE  new \in [Payers -> Int] /\ Adds(new, old, q, 0)
  BY DEF Adds

\* One payer's debt, credit and history move together.
LEMMA MoneyMoves ==
  ASSUME RowsOK, MoneyOK, Explained,
         NEW q \in Payers, NEW d \in Int, NEW c \in Int, NEW b \in Int, NEW a \in Int,
         NEW r \in Int, Owes(ob', ob, q, d),
         CreditAdds(credit', credit, q, c),
         Adds(billed', billed, q, b), Adds(adjusted', adjusted, q, a),
         Adds(received', received, q, r), d - c = b + a - r
  PROVE  Explained'
<1> SUFFICES ASSUME NEW p \in Payers, credit'[p] # Nothing
             PROVE  Debt(p)' - credit'[p] = billed'[p] + adjusted'[p] - received'[p]
  BY DEF Explained, Registered
<1>1. /\ billed[p] \in Int /\ adjusted[p] \in Int /\ received[p] \in Int
      /\ credit[p] \in Nat \cup {Nothing} /\ DebtIn(ob, p) \in Int
  BY DebtParts DEF MoneyOK, RowsOK
<1>2. credit[p] \in Nat /\ credit[p] # Nothing
  BY <1>1, CalendarAssumption DEF CreditAdds
<1>3. DebtIn(ob, p) - credit[p] = billed[p] + adjusted[p] - received[p]
  BY <1>2, DebtIsIn DEF Registered, Explained
<1>4. Debt(p)' = DebtIn(ob', p)
  BY DebtIsInNext
<1> QED
  BY <1>1, <1>2, <1>3, <1>4 DEF Adds, Owes, CreditAdds

\* A step that moves no money.
LEMMA MoneyStill ==
  ASSUME DebtInv, CycleInv', UNCHANGED <<ob, credit, money>>, raced' \in BOOLEAN,
         raced => raced'
  PROVE  DebtInv'
<1>1. UNCHANGED <<ob, credit, billed, received, adjusted>> /\ Ids' = Ids
  BY DEF money, Ids
<1>2. MoneyOK'
  BY <1>1 DEF DebtInv, MoneyOK
<1>3. ASSUME ~raced' PROVE Fresh'
  <2>1. Fresh
    BY <1>3 DEF DebtInv, MoneyOK
  <2>2. Explained'
    BY <1>1, <2>1 DEF Fresh, Registered, Explained, Debt
  <2> QED
    BY <1>1, <1>3, <2>1, <2>2 DEF Fresh
<1> QED
  BY <1>2, <1>3 DEF DebtInv

LEMMA OwesSet ==
  ASSUME NEW all \in Seq(Row), NEW after \in Seq(Row), NEW o \in 1..Len(all),
         OneChanged(after, all, o)
  PROVE  Owes(after, all, all[o].payer, Owed(after[o]) - Owed(all[o]))
  BY DebtSet DEF Owes

LEMMA OwesAdd ==
  ASSUME NEW all \in Seq(Row), NEW new \in Row
  PROVE  Owes(Append(all, new), all, new.payer, Owed(new))
  BY DebtAdd DEF Owes

\* One obligation changes, by x in what is owed, with as much in the history.
LEMMA MoneyOnRow ==
  ASSUME DebtInv, CycleInv', NEW o \in Ids, OneChanged(ob', ob, o),
         NEW c \in Int, NEW a \in Int, NEW r \in Int,
         CreditAdds(credit', credit, ob[o].payer, c),
         adjusted' \in [Payers -> Int], Adds(adjusted', adjusted, ob[o].payer, a),
         received' \in [Payers -> Int], Adds(received', received, ob[o].payer, r),
         raced' \in BOOLEAN, raced => raced',
         ~raced' => /\ Balanced(ob[o]) => Balanced(ob'[o])
                    /\ Balanced(ob[o]) => Owed(ob'[o]) - Owed(ob[o]) - c = a - r,
         UNCHANGED billed
  PROVE  DebtInv'
<1> DEFINE q == ob[o].payer
           d == Owed(ob'[o]) - Owed(ob[o])
<1>1. /\ RowsOK /\ MoneyOK /\ o \in 1..Len(ob) /\ ob \in Seq(Row) /\ ob' \in Seq(Row)
      /\ Ids' = Ids
  BY DEF DebtInv, CycleInv, RowsOK, Ids, OneChanged
<1>2. ob[o] \in Row /\ ob'[o] \in Row
  BY <1>1 DEF OneChanged
<1>3. d \in Int /\ q \in Payers
  BY <1>2, OwedInt DEF Row
<1>4. /\ CreditAdds(credit', credit, q, c) /\ Adds(adjusted', adjusted, q, a)
      /\ Adds(received', received, q, r)
  OBVIOUS
<1>5. Owes(ob', ob, q, d)
  BY <1>1, OwesSet
<1>6. Adds(billed', billed, q, 0) /\ billed' \in [Payers -> Int]
  BY <1>1, AddsNothing DEF MoneyOK
<1>7. MoneyOK'
  BY <1>6 DEF MoneyOK
<1>8. ASSUME ~raced' PROVE Fresh'
  <2>1. Fresh
    BY <1>8 DEF DebtInv, MoneyOK
  <2>2. Balanced(ob[o])
    BY <2>1 DEF Fresh
  <2>3. d - c = 0 + a - r
    BY <1>3, <1>8, <2>2
  <2> HIDE DEF d, q
  <2>4. Explained'
    <3>1. Explained /\ 0 \in Int
      BY <2>1 DEF Fresh
    <3> QED
      BY <1>1, <1>3, <1>4, <1>5, <1>6, <2>3, <3>1, MoneyMoves
  <2>5. \A u \in Ids : Balanced(ob'[u])
    BY <1>1, <1>8, <2>1, <2>2 DEF Fresh, OneChanged, Ids
  <2> QED
    BY <1>1, <2>4, <2>5 DEF Fresh
<1> QED
  BY <1>7, <1>8 DEF DebtInv

\* A change of one obligation that is recorded as what managers changed.
LEMMA MoneyAdjusted ==
  ASSUME DebtInv, CycleInv', NEW o \in Ids, ob[o].status # "GONE", NEW new, Same(ob[o], new),
         ob' = [ob EXCEPT ![o] = new], ~raced' /\ Balanced(ob[o]) => Balanced(new),
         Adjust(new.payer, ob[o], new),
         UNCHANGED <<credit, billed, received>>, raced' \in BOOLEAN, raced => raced'
  PROVE  DebtInv'
<1>1. RowsOK /\ MoneyOK /\ new \in Row /\ ob[o] \in Row /\ new.payer = ob[o].payer
      /\ new.payer \in Payers
  BY RowAt DEF DebtInv, CycleInv, Same, Row
<1>2. OneChanged(ob', ob, o) /\ ob'[o] = new
  BY <1>1, ObSet DEF OneChanged, Ids
<1> DEFINE q == ob[o].payer
           d == Owed(new) - Owed(ob[o])
<1>3. d \in Int /\ Owed(new) \in Int /\ Owed(ob[o]) \in Int
  BY <1>1, OwedInt
<1>4. adjusted' = [adjusted EXCEPT ![q] = @ + d]
  BY <1>1, <1>3 DEF Adjust, MoneyOK
<1>5. CreditAdds(credit', credit, q, 0)
  BY <1>1 DEF RowsOK, Registered, CreditAdds
<1>6. Owed(ob'[o]) - Owed(ob[o]) - 0 = d - 0
  BY <1>2, <1>3
<1> HIDE DEF d
<1>7. adjusted' \in [Payers -> Int] /\ Adds(adjusted', adjusted, q, d)
  BY <1>1, <1>3, <1>4, AddsTo DEF MoneyOK
<1>8. received' \in [Payers -> Int] /\ Adds(received', received, q, 0)
  BY <1>1, AddsNothing DEF MoneyOK
<1>9. 0 \in Int /\ (~raced' => (Balanced(ob[o]) => Balanced(ob'[o])))
  BY <1>2
<1> QED
  BY <1>2, <1>3, <1>5, <1>6, <1>7, <1>8, <1>9, MoneyOnRow

-----------------------------------------------------------------------------
(* Money: initially, and what moves none                                   *)

LEMMA DebtInit == Init => DebtInv
<1> SUFFICES ASSUME Init PROVE DebtInv
  OBVIOUS
<1>1. CycleInv
  BY CycleInit
<1>2. /\ ob = [c \in Series |-> FirstCycle(c)] /\ Ids = Series /\ IsFiniteSet(Series)
      /\ Rent \in [Series -> Nat \ {0}] /\ Owner \in [Series -> Payers]
  <2>1. Cardinality(Series) \in Nat /\ Series = 1..Cardinality(Series)
    BY FS_CardinalityType, ObligationsAssumption
  <2>2. ob = [c \in 1..Cardinality(Series) |-> FirstCycle(c)]
    BY <2>1 DEF Init
  <2>3. Len(ob) = Cardinality(Series)
    BY <2>1, <2>2
  <2> QED
    BY <2>1, <2>2, <2>3, ObligationsAssumption DEF Ids
<1>3. ASSUME NEW c \in Series
      PROVE  /\ Owed(FirstCycle(c)) = Rent[c] /\ FirstCycle(c).payer = Owner[c]
             /\ Balanced(FirstCycle(c))
  <2>1. Rent[c] \in Int
    BY <1>2
  <2>2. /\ FirstCycle(c).payer = Owner[c] /\ FirstCycle(c).due = Rent[c]
        /\ FirstCycle(c).paid = 0 /\ FirstCycle(c).balance = Rent[c]
        /\ FirstCycle(c).status = "PENDING"
    BY DEF FirstCycle, NewRow
  <2> QED
    BY <2>1, <2>2 DEF Owed, Open, Balanced
<1>4. ASSUME NEW p \in Payers
      PROVE  /\ Debt(p) = SumOver(Rent, {c \in Series : Owner[c] = p})
             /\ SumOver(Rent, {c \in Series : Owner[c] = p}) \in Int
  <2> DEFINE S == {c \in Series : Owner[c] = p}
             f == [o \in Ids |-> Owed(ob[o])]
  <2>1. IsFiniteSet(S)
    BY <1>2, FS_Subset
  <2>2. \A c \in S : Rent[c] \in Int /\ f[c] = Rent[c]
    BY <1>2, <1>3
  <2>3. {o \in Ids : ob[o].payer = p} = S
    BY <1>2, <1>3
  <2>4. Debt(p) = SumOver(f, S)
    BY <2>3 DEF Debt
  <2> HIDE DEF S, f
  <2>5. SumOver(f, S) = SumOver(Rent, S) /\ SumOver(Rent, S) \in Int
    BY <2>1, <2>2, SumSame, SumInt
  <2> QED
    BY <2>4, <2>5 DEF S
<1>5. /\ credit = [p \in Payers |-> 0]
      /\ billed = [p \in Payers |-> SumOver(Rent, {c \in Series : Owner[c] = p})]
      /\ received = [p \in Payers |-> 0] /\ adjusted = [p \in Payers |-> 0]
      /\ raced = FALSE 
  BY DEF Init
<1>6. MoneyOK
  <2>1. raced \in BOOLEAN
    BY <1>5
  <2>2. billed \in [Payers -> Int]
    BY <1>4, <1>5
  <2>3. received \in [Payers -> Int] /\ adjusted \in [Payers -> Int]
    BY <1>5
  <2> QED
    BY <2>1, <2>2, <2>3 DEF MoneyOK
<1>7. Explained
  BY <1>4, <1>5 DEF Explained
<1>8. \A o \in Ids : Balanced(ob[o])
  BY <1>2, <1>3
<1> QED
  BY <1>1, <1>5, <1>6, <1>7, <1>8 DEF DebtInv, Fresh

LEMMA MoneyQuiet ==
  ASSUME DebtInv, CycleInv', UNCHANGED <<ob, credit, money, raced>>
  PROVE  DebtInv'
<1>1. raced' \in BOOLEAN /\ (raced => raced')
  BY DEF DebtInv, MoneyOK
<1> QED
  BY <1>1, MoneyStill

LEMMA QuietSteps ==
  ASSUME DebtInv, CycleInv',
         \/ \E o \in Ids : Update(o) \/ Cancel(o) \/ Delete(o)
         \/ \E c \in Series : UpdateSeries(c)
         \/ \E p \in Payers : Create(p) \/ RemovePayer(p) \/ RemoveGroup(p)
         \/ Conflict \/ ApiCrash \/ CommitSeries \/ Tick
         \/ StartReminders \/ ReadPage \/ PublishReminders
         \/ UNCHANGED vars
  PROVE  DebtInv'
<1>1. UNCHANGED <<ob, credit, money, raced, billing>>
  BY DEF Update, Cancel, Delete, UpdateSeries, Create, RemovePayer, RemoveGroup, RemoveWith,
         OnObligation, Request, Conflict, ApiCrash, CommitSeries, Tick, StartReminders, ReadPage,
         PublishReminders, unreminded, rows, marks, vars
<1> QED
  BY <1>1, MoneyQuiet

\* The billing job reads, inserts, fails and publishes.
LEMMA JobReads ==
  ASSUME DebtInv, CycleInv',
         \/ SelectDue \/ InsertCycle \/ CycleFails \/ PublishCycles \/ WorkerCrash
         \/ \E c \in Series : ReadCycle(c)
  PROVE  DebtInv'
<1>1. UNCHANGED <<ob, credit, money, raced>>
  BY DEF SelectDue, InsertCycle, CycleFails, PublishCycles, WorkerCrash, ReadCycle, unbilled,
         rows, money, marks
<1> QED
  BY <1>1, MoneyQuiet

-----------------------------------------------------------------------------
(* Money: requests                                                         *)

LEMMA UpdateDebt == DebtInv /\ CycleInv' /\ CommitUpdate => DebtInv'
<1> SUFFICES ASSUME DebtInv, CycleInv', CommitUpdate PROVE DebtInv'
  OBVIOUS
<1> DEFINE o == api.on
<1>1. /\ RowsOK /\ o \in Ids /\ ob[o].status # "GONE" /\ api.row \in Row /\ ob[o] \in Row
      /\ raced \in BOOLEAN
  BY RowAt DEF CommitUpdate, Exists, DebtInv, CycleInv, ApiOK, MoneyOK
<1>2. PICK new \in Edits(api.row) :
        /\ ob' = [ob EXCEPT ![o] = Flush(ob[o], api.row, new)]
        /\ Adjust(Flush(ob[o], api.row, new).payer, ob[o], Flush(ob[o], api.row, new))
  BY DEF CommitUpdate
<1> DEFINE after == Flush(ob[o], api.row, new)
<1>3. Same(ob[o], after)
  BY <1>1, EditRow, FlushRow DEF Same
<1>4. raced' = (raced \/ ob[o] # api.row)
      /\ UNCHANGED <<credit, billed, received>>
  BY DEF CommitUpdate
<1>5. ~raced' /\ Balanced(ob[o]) => Balanced(after)
  BY <1>1, <1>4, EditRow, EditBalanced, FlushFresh DEF Same
<1> HIDE DEF after
<1>6. ob' = [ob EXCEPT ![o] = after] /\ Adjust(after.payer, ob[o], after)
  BY <1>2 DEF after
<1> QED
  BY <1>1, <1>3, <1>4, <1>5, <1>6, MoneyAdjusted

LEMMA StatusDebt ==
  ASSUME DebtInv, CycleInv', CommitCancel \/ CommitDelete
  PROVE  DebtInv'
<1>1. PICK status \in {"VOIDED", "GONE"} :
        LET o == api.on
            new == [ob[o] EXCEPT !.status = status]
        IN  /\ Exists(o) /\ ob' = [ob EXCEPT ![o] = new] /\ Adjust(new.payer, ob[o], new)
            /\ raced' = (raced \/ ob[o] # api.row)
            /\ UNCHANGED <<credit, billed, received>>
  BY DEF CommitCancel, CommitDelete
<1> DEFINE o == api.on
           new == [ob[o] EXCEPT !.status = status]
<1>2. o \in Ids /\ ob[o] \in Row /\ ob[o].status # "GONE" /\ raced \in BOOLEAN
  BY <1>1, RowAt DEF Exists, DebtInv, CycleInv, MoneyOK
<1>3. Same(ob[o], new) /\ (Balanced(ob[o]) => Balanced(new))
  BY <1>2 DEF Same, Row, ObligationStatus, Balanced
<1> HIDE DEF new
<1>4. /\ ob' = [ob EXCEPT ![o] = new] /\ Adjust(new.payer, ob[o], new)
      /\ raced' = (raced \/ ob[o] # api.row)
      /\ UNCHANGED <<credit, billed, received>>
  BY <1>1 DEF new
<1> QED
  BY <1>2, <1>3, <1>4, MoneyAdjusted

\* A payer goes with all debts; those of the others stay.
LEMMA RemoveDebt == DebtInv /\ CycleInv' /\ CommitRemove => DebtInv'
<1> SUFFICES ASSUME DebtInv, CycleInv', CommitRemove PROVE DebtInv'
  OBVIOUS
<1> DEFINE p == api.payer
<1>1. RowsOK /\ p \in Payers /\ api.all = ObsOf(p) /\ ob \in Seq(Row) /\ ob' \in Seq(Row)
      /\ Len(ob) \in Nat
  BY LenProperties DEF CommitRemove, DebtInv, CycleInv, ApiOK, RowsOK
<1>2. /\ ob' = [o \in Ids |-> IF o \in api.all THEN [ob[o] EXCEPT !.status = "GONE"] ELSE ob[o]]
      /\ credit' = [credit EXCEPT ![p] = Nothing]
      /\ UNCHANGED <<billed, received, adjusted, raced>>
  BY DEF CommitRemove, money, marks
<1>3. Len(ob') = Len(ob) /\ Ids' = Ids
  BY <1>1, <1>2 DEF Ids
<1>4. \A o \in Ids : /\ ob[o] \in Row /\ ob'[o].payer = ob[o].payer
                     /\ o \notin api.all => ob'[o] = ob[o]
                     /\ Balanced(ob[o]) => Balanced(ob'[o])
  BY <1>1, <1>2, RowAt DEF Row, Balanced
<1>5. ASSUME NEW q \in Payers, credit'[q] # Nothing
      PROVE  q # p /\ credit'[q] = credit[q] /\ Debt(q)' = Debt(q)
  <2>1. q # p /\ credit'[q] = credit[q]
    BY <1>1, <1>2, <1>5 DEF RowsOK
  <2>2. \A o \in 1..Len(ob) : ob[o].payer = q => Owed(ob'[o]) = Owed(ob[o])
    BY <1>1, <1>4, <2>1 DEF ObsOf, Ids
  <2>3. DebtIn(ob', q) = DebtIn(ob, q)
    BY <1>1, <1>3, <1>4, <2>2, DebtSame DEF Ids
  <2> QED
    BY <2>1, <2>3, DebtIsIn, DebtIsInNext
<1>6. MoneyOK'
  BY <1>2 DEF DebtInv, MoneyOK
<1>7. ASSUME ~raced' PROVE Fresh'
  <2>1. Fresh
    BY <1>2, <1>7 DEF DebtInv
  <2>2. Explained'
    BY <1>2, <1>5, <2>1 DEF Fresh, Explained, Registered
  <2> QED
    BY <1>3, <1>4, <2>1, <2>2 DEF Fresh
<1> QED
  BY <1>6, <1>7 DEF DebtInv

-----------------------------------------------------------------------------
(* Money: what bills and what pays                                         *)

LEMMA CreateDebt == DebtInv /\ CycleInv' /\ CommitCreate => DebtInv'
<1> SUFFICES ASSUME DebtInv, CycleInv', CommitCreate PROVE DebtInv'
  OBVIOUS
<1> DEFINE q == api.payer
<1>1. /\ RowsOK /\ MoneyOK /\ q \in Payers /\ credit[q] \in Nat /\ api.credit \in Nat
      /\ ob \in Seq(Row) /\ Len(ob) \in Nat
  BY LenProperties DEF CommitCreate, DebtInv, CycleInv, ApiOK, RowsOK, Registered
<1>2. PICK a \in Amounts, date \in Dates \cup {Nothing} :
        LET made == ApplyCredit(NewRow(q, a, date), api.credit) IN
        /\ ob' = Append(ob, made.row)
        /\ credit' = IF made.credit = api.credit THEN credit
                     ELSE [credit EXCEPT ![q] = made.credit]
        /\ billed' = [billed EXCEPT ![q] = @ + a]
  BY DEF CommitCreate
<1> DEFINE made == ApplyCredit(NewRow(q, a, date), api.credit)
<1>3. a \in Int /\ date \in Int \cup {Nothing}
  BY ObligationsAssumption
<1>4. /\ made.row \in Row /\ made.row.payer = q /\ made.credit \in Nat
      /\ Balanced(made.row) /\ Owed(made.row) - made.credit = a - api.credit
  <2> DEFINE row == NewRow(q, a, date)
  <2>1. /\ row \in Row /\ row.payer = q /\ row.status = "PENDING"
        /\ row.balance = a /\ Balanced(row)
    BY <1>1, <1>3, MadeRow, NewOwes
  <2> HIDE DEF row
  <2>2. /\ Same(row, ApplyCredit(row, api.credit).row)
        /\ ApplyCredit(row, api.credit).credit \in Nat
        /\ Balanced(ApplyCredit(row, api.credit).row)
        /\ Owed(ApplyCredit(row, api.credit).row) - ApplyCredit(row, api.credit).credit
             = row.balance - api.credit
    BY <1>1, <2>1, CreditRow, CreditOwes
  <2> QED
    BY <2>1, <2>2 DEF Same, row
<1>5. /\ ob' = Append(ob, made.row)
      /\ credit' = IF made.credit = api.credit THEN credit ELSE [credit EXCEPT ![q] = made.credit]
      /\ billed' = [billed EXCEPT ![q] = @ + a]
      /\ raced' = (raced \/ credit[q] # api.credit)
      /\ UNCHANGED <<billing, received, adjusted>>
  BY <1>2 DEF CommitCreate
<1> DEFINE d == Owed(made.row)
           c == made.credit - api.credit
<1> HIDE DEF made
<1>6. d \in Int /\ c \in Int /\ d - c = a
  BY <1>1, <1>3, <1>4, OwedInt
<1>7. Owes(ob', ob, q, d)
  BY <1>1, <1>4, <1>5, OwesAdd
<1> HIDE DEF d
<1>8. /\ billed' \in [Payers -> Int] /\ Adds(billed', billed, q, a)
      /\ adjusted' \in [Payers -> Int] /\ Adds(adjusted', adjusted, q, 0)
      /\ received' \in [Payers -> Int] /\ Adds(received', received, q, 0)
  <2> HIDE DEF q
  <2>1. billed' \in [Payers -> Int] /\ Adds(billed', billed, q, a)
    BY <1>1, <1>3, <1>5, AddsTo DEF MoneyOK
  <2>2. /\ adjusted' \in [Payers -> Int] /\ Adds(adjusted', adjusted, q, 0)
        /\ received' \in [Payers -> Int] /\ Adds(received', received, q, 0)
    BY <1>1, <1>5, AddsNothing DEF MoneyOK
  <2> QED
    BY <2>1, <2>2
<1>9. MoneyOK'
  BY <1>1, <1>5, <1>8 DEF MoneyOK
<1>10. ASSUME ~raced' PROVE Fresh'
  <2>1. Fresh /\ credit[q] = api.credit
    BY <1>1, <1>5, <1>10 DEF DebtInv, MoneyOK
  <2>2. CreditAdds(credit', credit, q, c)
    BY <1>1, <1>4, <1>5, <2>1 DEF CreditAdds, RowsOK
  <2> HIDE DEF c, q
  <2>3. Explained'
    <3>1. Explained /\ 0 \in Int /\ d - c = a + 0 - 0
      BY <1>3, <1>6, <2>1 DEF Fresh
    <3> QED
      BY <1>1, <1>3, <1>6, <1>7, <1>8, <2>2, <3>1, MoneyMoves
  <2>4. /\ Ids' = Ids \cup {Len(ob) + 1} /\ ob'[Len(ob) + 1] = made.row
        /\ \A u \in Ids : ob'[u] = ob[u]
    BY <1>1, <1>4, <1>5, ObAdd DEF Ids
  <2> QED
    BY <1>4, <2>1, <2>3, <2>4 DEF Fresh
<1> QED
  BY <1>9, <1>10 DEF DebtInv

\* A payment is taken off the obligation, and what is over it goes to credit.
LEMMA PayDebt ==
  ASSUME DebtInv, CycleInv', NEW o \in Ids, NEW amount \in Amounts, Pay(o, amount)
  PROVE  DebtInv'
<1> DEFINE row  == ob[o]
           over == IF amount > row.balance THEN amount - row.balance ELSE 0
           new  == Paid(row, amount - over)
           q    == row.payer
<1>1. /\ RowsOK /\ MoneyOK /\ row \in Row /\ row.status \in Open /\ amount \in Int
      /\ row.balance \in Int /\ q \in Payers
  BY RowAt, ObligationsAssumption DEF Pay, DebtInv, CycleInv, Row
<1>2. over \in Nat /\ amount - over \in Int /\ amount - over <= row.balance
  BY <1>1
<1>3. /\ ob' = [ob EXCEPT ![o] = new]
      /\ credit' = [credit EXCEPT ![q] = @ + over]
      /\ received' = [received EXCEPT ![q] = @ + amount]
      /\ UNCHANGED <<billed, adjusted, raced>>
  BY DEF Pay, marks
<1>4. credit[q] \in Nat
  BY <1>1 DEF RowsOK, Registered, Open
<1> HIDE DEF over
<1>5. Same(row, new)
  BY <1>1, <1>2, PaidRow
<1>6. Balanced(row) => Balanced(new) /\ Owed(new) = row.balance - (amount - over)
  BY <1>1, <1>2, PaidOwes
<1>7. Owed(row) = row.balance
  BY <1>1 DEF Owed
<1> HIDE DEF new
<1>8. OneChanged(ob', ob, o) /\ ob'[o] = new
  BY <1>1, <1>3, <1>5, ObSet DEF OneChanged, Ids, Same
<1> HIDE DEF q
<1>9. CreditAdds(credit', credit, q, over) /\ over \in Int
  BY <1>1, <1>2, <1>3, <1>4 DEF CreditAdds, RowsOK
<1>10. /\ received' \in [Payers -> Int] /\ Adds(received', received, q, amount)
       /\ adjusted' \in [Payers -> Int] /\ Adds(adjusted', adjusted, q, 0)
  BY <1>1, <1>3, AddsTo, AddsNothing DEF MoneyOK
<1>11. raced' \in BOOLEAN /\ (raced => raced')
  BY <1>1, <1>3 DEF MoneyOK
<1>12. Balanced(row) => Balanced(new) /\ Owed(new) - Owed(row) - over = 0 - amount
  BY <1>1, <1>2, <1>6, <1>7
<1>13. UNCHANGED billed /\ 0 \in Int
  BY <1>3
<1> QED
  BY <1>1, <1>8, <1>9, <1>10, <1>11, <1>12, <1>13, MoneyOnRow DEF q

\* A reminder writes the meta of its obligation.
LEMMA RemindDebt ==
  ASSUME DebtInv, CycleInv', NEW o \in reminders.page, Remind(o)
  PROVE  DebtInv'
<1> DEFINE meta == IF ob[o].meta = Nothing THEN NoMeta ELSE ob[o].meta
           new  == [ob[o] EXCEPT !.meta = [meta EXCEPT !.sent = reminders.at]]
<1>1. /\ RowsOK /\ MoneyOK /\ o \in Ids /\ ob[o] \in Row /\ RemindersOK
  BY RowAt DEF DebtInv, CycleInv, RemindersOK
<1>2. UNCHANGED <<credit, billed, received, adjusted, raced>>
  BY DEF Remind, unreminded, money, marks
<1>3. CASE ob' = ob
  BY <1>2, <1>3, MoneyQuiet DEF money
<1>4. CASE ~(ob' = ob)
  <2>1. Exists(o) /\ ob' = [ob EXCEPT ![o] = new]
    BY <1>4 DEF Remind
  <2>2. meta \in Meta
    BY <1>1 DEF Row, NoMeta, Meta
  <2> HIDE DEF meta
  <2>3. [meta EXCEPT !.sent = reminders.at] \in Meta
    BY <1>1, <2>2 DEF Meta, RemindersOK
  <2>4. /\ Same(ob[o], new) /\ new.status = ob[o].status /\ new.balance = ob[o].balance
        /\ Balanced(ob[o]) => Balanced(new)
    BY <1>1, <2>3 DEF Same, Row, Balanced
  <2> HIDE DEF new
  <2>5. Owed(new) = Owed(ob[o]) /\ Owed(ob[o]) \in Int
    BY <1>1, <2>4, OwedInt DEF Owed
  <2>6. OneChanged(ob', ob, o) /\ ob'[o] = new
    BY <1>1, <2>1, <2>4, ObSet DEF OneChanged, Ids, Same
  <2> DEFINE q == ob[o].payer
  <2>7. credit[q] \in Nat /\ q \in Payers
    BY <1>1, <2>1 DEF RowsOK, Registered, Exists, Row
  <2>8. CreditAdds(credit', credit, q, 0) /\ 0 \in Int
    BY <1>2, <2>7 DEF CreditAdds
  <2>9. /\ received' \in [Payers -> Int] /\ Adds(received', received, q, 0)
        /\ adjusted' \in [Payers -> Int] /\ Adds(adjusted', adjusted, q, 0)
    BY <1>1, <1>2, AddsNothing DEF MoneyOK
  <2>10. raced' \in BOOLEAN /\ (raced => raced')
    BY <1>1, <1>2 DEF MoneyOK
  <2>11. Owed(new) - Owed(ob[o]) - 0 = 0 - 0
    BY <2>5
  <2> QED
    BY <1>1, <1>2, <2>4, <2>6, <2>8, <2>9, <2>10, <2>11, MoneyOnRow
<1> QED
  BY <1>3, <1>4

\* The arrears of a cycle that is rolled over are carried into the next one, once:
\* what is new is the rent, the penalty and the balance of a cycle that was closed.
LEMMA CycleDebt == DebtInv /\ CycleInv' /\ CommitCycle => DebtInv'
<1> SUFFICES ASSUME DebtInv, CycleInv', CommitCycle PROVE DebtInv'
  OBVIOUS
<1> DEFINE c    == billing.series
           o    == billing.config.ob
           row  == billing.row
           date == billing.config.next
           q    == row.payer
           made == ApplyCredit(NextCycle(row, date), billing.credit)
           old  == Rolled(ob[o], row)
           b    == BaseAmount(row) + Penalty(row) + (row.balance - Owed(row))
<1>1. /\ RowsOK /\ MoneyOK /\ BatchOK /\ CycleOK /\ billing.pc = "made"
      /\ config[c].ob # 0 /\ ob \in Seq(Row) /\ Len(ob) \in Nat
  BY LenProperties DEF CommitCycle, DebtInv, CycleInv, RowsOK
<1>2. /\ o \in Ids /\ ob[o].status # "GONE" /\ billing.config \in Config
      /\ Reach(billing.config)
      /\ row \in Row /\ row.meta # Nothing /\ q = ob[o].payer
      /\ billing.credit \in Nat
  BY <1>1, SeriesAlive DEF DebtInv, CycleOK, BatchOK, Current
<1>3. date \in Int /\ o \in Nat /\ ob[o] \in Row /\ q \in Payers
  <2>1. ob[o] \in Row /\ o \in Nat /\ q \in Payers
    BY <1>1, <1>2, RowAt DEF Row
  <2>2. 0..MaxDay \cup Dates \subseteq Int
    BY ObligationsAssumption
  <2>3. date \in Int
    BY <1>2, <2>2 DEF Reach
  <2> QED
    BY <2>1, <2>3
<1>4. credit[q] \in Nat
  BY <1>1, <1>2, <1>3 DEF RowsOK, Registered
<1>5. /\ BaseAmount(row) \in Int /\ Penalty(row) \in Int
      /\ NextCycle(row, date).balance = BaseAmount(row) + row.balance + Penalty(row)
      /\ Balanced(NextCycle(row, date)) /\ NextCycle(row, date).status = "PENDING"
      /\ NextCycle(row, date) \in Row /\ NextCycle(row, date).payer = q
  BY <1>2, <1>3, NextCycleOwes, NextCycleRow
<1>6. row.balance \in Int /\ Owed(row) \in Int
  BY <1>2, OwedInt DEF Row
<1>7. /\ made.row \in Row /\ made.row.payer = q /\ made.credit \in Nat
      /\ Balanced(made.row)
      /\ Owed(made.row) - made.credit
           = BaseAmount(row) + row.balance + Penalty(row) - billing.credit
  <2> DEFINE cycle == NextCycle(row, date)
  <2>1. /\ cycle \in Row /\ Balanced(cycle) /\ cycle.status = "PENDING" /\ cycle.payer = q
        /\ cycle.balance = BaseAmount(row) + row.balance + Penalty(row)
    BY <1>5
  <2> HIDE DEF cycle
  <2>2. /\ Same(cycle, ApplyCredit(cycle, billing.credit).row)
        /\ ApplyCredit(cycle, billing.credit).credit \in Nat
        /\ Balanced(ApplyCredit(cycle, billing.credit).row)
        /\ Owed(ApplyCredit(cycle, billing.credit).row)
             - ApplyCredit(cycle, billing.credit).credit = cycle.balance - billing.credit
    BY <1>2, <2>1, CreditRow, CreditOwes
  <2> QED
    <3> DEFINE used == ApplyCredit(cycle, billing.credit)
    <3>1. used.row \in Row /\ used.row.payer = q
      BY <2>1, <2>2 DEF Same
    <3>2. Owed(used.row) - used.credit
            = BaseAmount(row) + row.balance + Penalty(row) - billing.credit
      <4>1. Owed(used.row) - used.credit = cycle.balance - billing.credit
        BY <2>2
      <4>2. cycle.balance = BaseAmount(row) + row.balance + Penalty(row)
        BY <2>1
      <4>3. /\ BaseAmount(row) \in Int /\ row.balance \in Int /\ Penalty(row) \in Int
            /\ billing.credit \in Int
        BY <1>2, <1>5, <1>6
      <4> HIDE DEF used, row
      <4> QED
        BY <4>1, <4>2, <4>3
    <3>3. used.credit \in Nat /\ Balanced(used.row)
      BY <2>2
    <3> QED
      BY <3>1, <3>2, <3>3 DEF cycle
<1>8. /\ ob' = Append([ob EXCEPT ![o] = old], made.row)
      /\ credit' = IF made.credit = billing.credit THEN credit
                   ELSE [credit EXCEPT ![q] = made.credit]
      /\ billed' = [billed EXCEPT ![q] = @ + BaseAmount(row) + Penalty(row)
                                           + (row.balance - Owed(row))]
      /\ raced' = (raced \/ ob[o] # row \/ credit[q] # billing.credit)
      /\ UNCHANGED <<received, adjusted>>
  BY DEF CommitCycle, unbilled
<1>9. Same(ob[o], old)
  BY <1>2, <1>3, RolledRow
<1>11. ob[o] = row => /\ Owed(old) = 0
                      /\ Balanced(old) <=> Balanced(ob[o])
  BY <1>2 DEF Rolled, Owed, Open, Balanced, Row
<1> DEFINE rolled == [ob EXCEPT ![o] = old]
<1>12. rolled \in Seq(Row) /\ OneChanged(rolled, ob, o) /\ rolled[o] = old /\ Len(rolled) = Len(ob)
  <2>1. o \in 1..Len(ob) /\ old \in Row /\ old.payer = ob[o].payer
    BY <1>2, <1>9 DEF Ids, Same
  <2> HIDE DEF old, o
  <2>2. /\ rolled \in Seq(Row) /\ Len(rolled) = Len(ob)
        /\ \A u \in 1..Len(ob) : rolled[u] = IF u = o THEN old ELSE ob[u]
    BY <1>1, <2>1, ExceptSeq
  <2> HIDE DEF rolled
  <2> QED
    BY <2>1, <2>2 DEF OneChanged
<1>13. ob' = Append(rolled, made.row)
  BY <1>8
<1> HIDE DEF rolled, made, old
<1> DEFINE d == Owed(made.row) + Owed(old) - Owed(ob[o])
           k == made.credit - billing.credit
<1>14. Owes(ob', ob, q, d)
  <2>1. Owes(rolled, ob, q, Owed(old) - Owed(ob[o]))
    BY <1>1, <1>2, <1>12, OwesSet DEF Ids
  <2>2. Owes(ob', rolled, q, Owed(made.row))
    BY <1>7, <1>12, <1>13, OwesAdd
  <2>3. old \in Row /\ ob[o] \in Row /\ made.row \in Row /\ ob' \in Seq(Row)
    BY <1>3, <1>7, <1>9 DEF Same, CycleInv, RowsOK
  <2>4. Owed(old) \in Int /\ Owed(ob[o]) \in Int /\ Owed(made.row) \in Int
    BY <2>3, OwedInt
  <2>5. \A p \in Payers : DebtIn(rolled, p) \in Int /\ DebtIn(ob, p) \in Int
    BY <1>1, <1>12, DebtParts
  <2> QED
    BY <2>1, <2>2, <2>4, <2>5 DEF Owes
<1>15. b \in Int /\ billed' = [billed EXCEPT ![q] = @ + b]
  <2>1. b \in Int
    BY <1>5, <1>6
  <2>2. billed[q] + BaseAmount(row) + Penalty(row) + (row.balance - Owed(row)) = billed[q] + b
    BY <1>1, <1>3, <1>5, <1>6 DEF MoneyOK
  <2> QED
    BY <1>8, <2>1, <2>2
<1>16. /\ billed' \in [Payers -> Int] /\ Adds(billed', billed, q, b)
       /\ adjusted' \in [Payers -> Int] /\ Adds(adjusted', adjusted, q, 0)
       /\ received' \in [Payers -> Int] /\ Adds(received', received, q, 0)
  <2> HIDE DEF q, b
  <2>1. billed' \in [Payers -> Int] /\ Adds(billed', billed, q, b)
    BY <1>1, <1>3, <1>15, AddsTo DEF MoneyOK
  <2>2. /\ adjusted' \in [Payers -> Int] /\ Adds(adjusted', adjusted, q, 0)
        /\ received' \in [Payers -> Int] /\ Adds(received', received, q, 0)
    BY <1>1, <1>8, AddsNothing DEF MoneyOK
  <2> QED
    BY <2>1, <2>2
<1>17. MoneyOK'
  BY <1>1, <1>8, <1>16 DEF MoneyOK
<1>18. ASSUME ~raced' PROVE Fresh'
  <2>1. Fresh /\ credit[q] = billing.credit /\ ob[o] = row
    BY <1>1, <1>8, <1>18 DEF DebtInv, MoneyOK, Fresh
  <2>2. CreditAdds(credit', credit, q, k)
    <3>1. credit \in [Payers -> Nat \cup {Nothing}] /\ billing.credit \in Nat
      BY <1>1, <1>2 DEF RowsOK
    <3>2. credit' = IF made.credit = billing.credit THEN credit
                    ELSE [credit EXCEPT ![q] = made.credit]
      BY <1>8
    <3> HIDE DEF q
    <3>3. credit'[q] = credit[q] + k
      BY <1>3, <1>7, <2>1, <3>1, <3>2
    <3> QED
      BY <1>4, <3>2, <3>3 DEF CreditAdds
  <2>3. d \in Int /\ k \in Int /\ d - k = b
    <3>1. Owed(made.row) \in Int /\ Owed(old) = 0 /\ Owed(ob[o]) = Owed(row)
      BY <1>7, <1>11, <2>1, OwedInt
    <3>2. Owed(made.row) - made.credit
            = BaseAmount(row) + row.balance + Penalty(row) - billing.credit
      BY <1>7
    <3>3. /\ row.balance \in Int /\ Owed(row) \in Int /\ made.credit \in Int
          /\ BaseAmount(row) \in Int /\ Penalty(row) \in Int /\ billing.credit \in Int
      BY <1>2, <1>5, <1>6, <1>7
    <3> HIDE DEF row, o
    <3> QED
      BY <3>1, <3>2, <3>3
  <2> HIDE DEF b, d, k, q
  <2>4. Explained'
    <3>1. Explained /\ 0 \in Int /\ d - k = b + 0 - 0
      BY <1>15, <2>1, <2>3 DEF Fresh
    <3> QED
      BY <1>1, <1>3, <1>14, <1>15, <1>16, <2>2, <2>3, <3>1, MoneyMoves
  <2>5. /\ Ids' = Ids \cup {Len(ob) + 1} /\ ob'[Len(ob) + 1] = made.row
        /\ \A u \in Ids : ob'[u] = rolled[u]
    BY <1>1, <1>7, <1>12, <1>13, ObAdd DEF Ids
  <2>6. \A u \in Ids : Balanced(rolled[u])
    BY <1>11, <1>12, <2>1 DEF Fresh, OneChanged, Ids
  <2> QED
    BY <1>7, <2>4, <2>5, <2>6 DEF Fresh
<1> QED
  BY <1>17, <1>18 DEF DebtInv

LEMMA DebtNext == DebtInv /\ [Next]_vars => DebtInv'
<1> SUFFICES ASSUME DebtInv, [Next]_vars PROVE DebtInv'
  OBVIOUS
<1>1. CycleInv'
  BY CycleNext DEF DebtInv
<1>2. CASE Commit
  BY <1>1, <1>2, QuietSteps, UpdateDebt, StatusDebt, RemoveDebt, CreateDebt DEF Commit
<1>3. CASE BillingStep
  BY <1>1, <1>3, JobReads, CycleDebt DEF BillingStep
<1>4. CASE StartReminders \/ ReminderStep
  BY <1>1, <1>4, QuietSteps, RemindDebt DEF ReminderStep
<1>5. CASE \E o \in Ids, amount \in Amounts : Pay(o, amount)
  BY <1>1, <1>5, PayDebt
<1>6. CASE Tick \/ WorkerCrash \/ ApiCrash \/ UNCHANGED vars
  BY <1>1, <1>6, QuietSteps, JobReads
<1>7. CASE \/ \E o \in Ids : Update(o) \/ Cancel(o) \/ Delete(o)
           \/ \E c \in Series : UpdateSeries(c)
           \/ \E p \in Payers : Create(p) \/ RemovePayer(p) \/ RemoveGroup(p)
  BY <1>1, <1>7, QuietSteps
<1> QED
  BY <1>2, <1>3, <1>4, <1>5, <1>6, <1>7 DEF Next

\* What a payer owes, less credit, is what rents, penalties, one-off amounts and
\* managers' changes made of it, less what was received: a rollover of
\* _run_billing_cycle_sync carries arrears over once, and
\* apply_credit_to_obligation uses credit once, until a session commits over rows
\* that changed since it read them.
THEOREM DebtsExplained == Spec => []DebtExplained
<1>1. DebtInv => DebtExplained
  BY DEF DebtInv, Fresh, Explained, DebtExplained
<1> QED
  BY <1>1, DebtInit, DebtNext, PTL DEF Spec

-----------------------------------------------------------------------------
(* Reminders: what has been marked, and what goes out                      *)

\* An obligation whose marks are not to be relied on; one that is marked today.
Spoiled(o) == raced \/ o \in wiped
Marked(o)  == Spoiled(o) \/ SentToday(o)

\* Events of one run of the job, no obligation twice.
OfOneRun(events) ==
  /\ events \in Seq(Nat \X Int)
  /\ \A i \in 1..Len(events) : events[i] \in Ids \X {reminders.at}
  /\ \A i, j \in 1..Len(events) : i # j /\ events[i] = events[j] => Spoiled(events[i][1])

\* The obligations whose events the job keeps are marked.
EventsOK ==
  /\ OfOneRun(reminders.events)
  /\ reminders.pc = "page" =>
       \A i \in 1..Len(reminders.events) : Marked(reminders.events[i][1])

\* What has gone out is of a day before that of a run that is under way.
OnceOK ==
  \A e \in DOMAIN reminded :
    /\ e[2] \in Int /\ e[2] <= reminders.at /\ (reminders.pc # "idle" => e[2] < reminders.at)
    /\ reminded[e] = 1 \/ Spoiled(e[1])

RemindedInv == DebtInv /\ EventsOK /\ OnceOK

\* What spoils a mark stays; what does not leaves it on its row.
MarksKept ==
  /\ Ids \subseteq Ids' /\ (raced => raced') /\ wiped \subseteq wiped'
  /\ \A o \in Ids : Spoiled(o)' \/ ob'[o].meta = ob[o].meta

LEMMA KeptReminders ==
  ASSUME RemindedInv, DebtInv', UNCHANGED <<reminders, reminded>>, MarksKept
  PROVE  RemindedInv'
<1>1. \A o : Spoiled(o) => Spoiled(o)'
  BY DEF MarksKept, Spoiled
<1>2. \A o \in Ids : Marked(o) => Marked(o)'
  BY <1>1 DEF MarksKept, Marked, SentToday
<1>3. \A i \in 1..Len(reminders.events) : reminders.events[i][1] \in Ids
  BY DEF RemindedInv, EventsOK, OfOneRun
<1>4. /\ reminders.events \in Seq(Nat \X Int)
      /\ \A i \in 1..Len(reminders.events) : reminders.events[i] \in Ids' \X {reminders.at}
  BY DEF MarksKept, RemindedInv, EventsOK, OfOneRun
<1>5. EventsOK'
  BY <1>1, <1>2, <1>3, <1>4 DEF RemindedInv, EventsOK, OfOneRun
<1>6. OnceOK'
  BY <1>1 DEF RemindedInv, OnceOK
<1> QED
  BY <1>5, <1>6 DEF RemindedInv

LEMMA RemindedInit == Init => RemindedInv
<1> SUFFICES ASSUME Init PROVE RemindedInv
  OBVIOUS
<1>1. reminders.events = <<>> /\ DOMAIN reminded = {}
  BY DEF Init, NoReminders, EmptyBag, SetToBag
<1> QED
  BY <1>1, DebtInit DEF RemindedInv, EventsOK, OfOneRun, OnceOK

\* Steps that touch no row, or only their status.
LEMMA QuietMarks ==
  ASSUME RemindedInv, DebtInv', UNCHANGED <<ob, reminders, reminded, wiped>>, raced => raced'
  PROVE  RemindedInv'
<1>1. MarksKept
  BY DEF MarksKept, Ids
<1> QED
  BY <1>1, KeptReminders

LEMMA QuietReminders ==
  ASSUME RemindedInv, DebtInv',
         \/ \E o \in Ids : Update(o) \/ Cancel(o) \/ Delete(o)
         \/ \E c \in Series : UpdateSeries(c)
         \/ \E p \in Payers : Create(p) \/ RemovePayer(p) \/ RemoveGroup(p)
         \/ Conflict \/ ApiCrash \/ CommitSeries \/ Tick
         \/ SelectDue \/ InsertCycle \/ CycleFails \/ PublishCycles \/ \E c \in Series : ReadCycle(c)
         \/ UNCHANGED vars
  PROVE  RemindedInv'
<1>1. UNCHANGED <<ob, reminders, reminded, wiped, raced>>
  BY DEF Update, Cancel, Delete, UpdateSeries, Create, RemovePayer, RemoveGroup, RemoveWith,
         OnObligation, Request, Conflict, ApiCrash, CommitSeries, Tick, SelectDue, InsertCycle,
         CycleFails, PublishCycles, ReadCycle, unbilled, rows, marks, vars
<1> QED
  BY <1>1, QuietMarks

\* One row changes; its meta does not, or it is spoiled.
LEMMA RowMarks ==
  ASSUME RemindedInv, DebtInv', NEW o \in Ids, OneChanged(ob', ob, o),
         UNCHANGED <<reminders, reminded>>, raced => raced', wiped \subseteq wiped',
         Spoiled(o)' \/ ob'[o].meta = ob[o].meta
  PROVE  RemindedInv'
<1>1. MarksKept
  BY DEF MarksKept, OneChanged, Ids
<1> QED
  BY <1>1, KeptReminders

LEMMA UpdateReminders == RemindedInv /\ DebtInv' /\ CommitUpdate => RemindedInv'
<1> SUFFICES ASSUME RemindedInv, DebtInv', CommitUpdate PROVE RemindedInv'
  OBVIOUS
<1> DEFINE o == api.on
<1>1. RowsOK /\ o \in Ids /\ ob[o] \in Row /\ api.row \in Row
  BY RowAt DEF CommitUpdate, Exists, RemindedInv, DebtInv, CycleInv, ApiOK
<1>2. PICK new \in Edits(api.row) :
        /\ ob' = [ob EXCEPT ![o] = Flush(ob[o], api.row, new)]
        /\ wiped' = IF new.meta = api.row.meta THEN wiped ELSE wiped \cup {o}
  BY DEF CommitUpdate
<1> DEFINE after == Flush(ob[o], api.row, new)
<1>3. Same(ob[o], after)
  BY <1>1, EditRow, FlushRow DEF Same
<1>4. o \in wiped' \/ after.meta = ob[o].meta
  BY <1>1, <1>2 DEF Flush, Row
<1>5. UNCHANGED <<reminders, reminded>> /\ (raced => raced') /\ wiped \subseteq wiped'
  BY <1>2 DEF CommitUpdate
<1> HIDE DEF after
<1>6. OneChanged(ob', ob, o) /\ ob'[o] = after
  BY <1>1, <1>2, <1>3, ObSet DEF OneChanged, Ids, Same, after
<1> QED
  BY <1>1, <1>4, <1>5, <1>6, RowMarks DEF Spoiled

LEMMA StatusReminders ==
  ASSUME RemindedInv, DebtInv', CommitCancel \/ CommitDelete \/ CommitRemove
  PROVE  RemindedInv'
<1>1. UNCHANGED <<reminders, reminded, wiped>> /\ (raced => raced')
  <2>1. raced \in BOOLEAN
    BY DEF RemindedInv, DebtInv, MoneyOK
  <2>2. CommitCancel \/ CommitDelete => raced' = (raced \/ ob[api.on] # api.row)
    BY DEF CommitCancel, CommitDelete
  <2>3. CommitRemove => raced' = raced
    BY DEF CommitRemove, marks
  <2>4. raced => raced'
    BY <2>1, <2>2, <2>3
  <2>5. UNCHANGED <<reminders, reminded, wiped>>
    BY DEF CommitCancel, CommitDelete, CommitRemove, marks
  <2> QED
    BY <2>4, <2>5
<1>2. ob \in Seq(Row) /\ Len(ob) \in Nat /\ \A u \in Ids : ob[u] \in Row
  BY LenProperties, RowAt DEF RemindedInv, DebtInv, CycleInv, RowsOK
<1>3. CASE CommitRemove
  <2>1. ob' = [u \in Ids |-> IF u \in api.all THEN [ob[u] EXCEPT !.status = "GONE"] ELSE ob[u]]
    BY <1>3 DEF CommitRemove
  <2>2. Ids' = Ids
    BY <1>2, <2>1 DEF Ids
  <2>3. \A u \in Ids : ob'[u].meta = ob[u].meta
    BY <1>2, <2>1 DEF Row
  <2> QED
    BY <1>1, <2>2, <2>3, KeptReminders DEF MarksKept
<1>4. CASE CommitCancel \/ CommitDelete
  <2>1. PICK status \in {"VOIDED", "GONE"} :
          Exists(api.on) /\ ob' = [ob EXCEPT ![api.on] = [ob[api.on] EXCEPT !.status = status]]
    BY <1>4 DEF CommitCancel, CommitDelete
  <2> DEFINE o == api.on
             new == [ob[o] EXCEPT !.status = status]
  <2>2. o \in Ids /\ ob[o] \in Row /\ RowsOK
    BY <1>2, <2>1 DEF Exists, RemindedInv, DebtInv, CycleInv
  <2>3. Same(ob[o], new) /\ new.meta = ob[o].meta
    BY <2>2 DEF Same, Row, ObligationStatus
  <2> HIDE DEF new
  <2>4. OneChanged(ob', ob, o) /\ ob'[o] = new
    BY <2>1, <2>2, <2>3, ObSet DEF OneChanged, Ids, Same, new
  <2> QED
    BY <1>1, <2>2, <2>3, <2>4, RowMarks
<1> QED
  BY <1>3, <1>4

\* An event that is in a bag more than once has been kept more than once.
LEMMA BagOfOnce ==
  ASSUME NEW events \in Seq(Nat \X Int), NEW e \in DOMAIN BagOf(events)
  PROVE  /\ \E i \in 1..Len(events) : events[i] = e
         /\ \/ BagOf(events)[e] = 1
            \/ \E i, j \in 1..Len(events) : i # j /\ events[i] = e /\ events[j] = e
<1> DEFINE S == {i \in 1..Len(events) : events[i] = e}
<1>1. DOMAIN events = 1..Len(events)
  OBVIOUS
<1>2. PICK i \in 1..Len(events) : events[i] = e
  BY <1>1 DEF BagOf
<1>3. BagOf(events)[e] = Cardinality(S)
  BY <1>1, <1>2 DEF BagOf
<1>4. CASE \E j \in S : j # i
  BY <1>2, <1>4
<1>5. CASE ~ \E j \in S : j # i
  <2>1. S = {i}
    BY <1>2, <1>5
  <2> HIDE DEF S
  <2> QED
    BY <1>2, <1>3, <2>1, FS_Singleton
<1> QED
  BY <1>2, <1>4, <1>5

\* What goes out was not out yet.
LEMMA GoOut ==
  ASSUME OnceOK, reminders.pc # "idle", reminders.at \in Int, NEW events, OfOneRun(events),
         reminded' = reminded (+) BagOf(events)
  PROVE  \A e \in DOMAIN reminded' :
           /\ e[2] \in Int /\ e[2] <= reminders.at
           /\ reminded'[e] = 1 \/ Spoiled(e[1])
<1> DEFINE bag == BagOf(events)
<1>1. /\ DOMAIN reminded' = DOMAIN reminded \cup DOMAIN bag
      /\ \A e \in DOMAIN reminded' :
           reminded'[e] = (IF e \in DOMAIN reminded THEN reminded[e] ELSE 0)
                            + (IF e \in DOMAIN bag THEN bag[e] ELSE 0)
  BY DEF (+)
<1>2. ASSUME NEW e \in DOMAIN bag
      PROVE  /\ e[2] = reminders.at
             /\ bag[e] = 1 \/ Spoiled(e[1])
  <2>1. /\ \E i \in 1..Len(events) : events[i] = e
        /\ \/ bag[e] = 1
           \/ \E i, j \in 1..Len(events) : i # j /\ events[i] = e /\ events[j] = e
    BY BagOfOnce DEF OfOneRun
  <2> HIDE DEF bag
  <2> QED
    BY <2>1 DEF OfOneRun
<1> HIDE DEF bag
<1> SUFFICES ASSUME NEW e \in DOMAIN reminded'
             PROVE  /\ e[2] \in Int /\ e[2] <= reminders.at
                    /\ reminded'[e] = 1 \/ Spoiled(e[1])
  OBVIOUS
<1>3. CASE e \in DOMAIN reminded
  <2>1. e[2] \in Int /\ e[2] < reminders.at /\ (reminded[e] = 1 \/ Spoiled(e[1]))
    BY <1>3 DEF OnceOK
  <2>2. e \notin DOMAIN bag
    BY <1>2, <2>1
  <2> QED
    BY <1>1, <1>3, <2>1, <2>2
<1>4. CASE e \notin DOMAIN reminded
  BY <1>1, <1>2, <1>4
<1> QED
  BY <1>3, <1>4

\* The first of the events a run has kept are such events too.
LEMMA FirstOfRun ==
  ASSUME NEW events, OfOneRun(events), NEW n \in 0..(Len(events) - 1)
  PROVE  OfOneRun(SubSeq(events, 1, n))
<1> DEFINE first == SubSeq(events, 1, n)
<1>1. events \in Seq(Nat \X Int) /\ Len(events) \in Nat
  BY LenProperties DEF OfOneRun
<1>2. /\ first \in Seq(Nat \X Int) /\ Len(first) = n
      /\ \A i \in 1..n : first[i] = events[i]
  BY <1>1, SubSeqProperties
<1> HIDE DEF first
<1>3. \A i \in 1..n : i \in 1..Len(events)
  BY <1>1
<1> QED
  BY <1>2, <1>3 DEF OfOneRun, first

-----------------------------------------------------------------------------
(* Reminders: the other sessions                                           *)

LEMMA CreateReminders == RemindedInv /\ DebtInv' /\ CommitCreate => RemindedInv'
<1> SUFFICES ASSUME RemindedInv, DebtInv', CommitCreate PROVE RemindedInv'
  OBVIOUS
<1>1. PICK row : ob' = Append(ob, row)
  BY DEF CommitCreate
<1>2. ob \in Seq(Row) /\ Len(ob) \in Nat /\ ob' \in Seq(Row) /\ raced \in BOOLEAN
  BY LenProperties DEF RemindedInv, DebtInv, CycleInv, RowsOK, MoneyOK
<1>3. Len(ob') = Len(ob) + 1 /\ \A u \in 1..Len(ob) : ob'[u] = ob[u]
  BY <1>1, <1>2
<1>4. UNCHANGED <<reminders, reminded, wiped>>
      /\ raced' = (raced \/ credit[api.payer] # api.credit)
  BY DEF CommitCreate
<1>5. raced => raced'
  BY <1>2, <1>4
<1>6. MarksKept
  BY <1>2, <1>3, <1>4, <1>5 DEF MarksKept, Ids
<1> QED
  BY <1>4, <1>6, KeptReminders

LEMMA PayReminders ==
  ASSUME RemindedInv, DebtInv', NEW o \in Ids, NEW amount \in Amounts, Pay(o, amount)
  PROVE  RemindedInv'
<1> DEFINE row  == ob[o]
           over == IF amount > row.balance THEN amount - row.balance ELSE 0
           new  == Paid(row, amount - over)
<1>1. RowsOK /\ row \in Row /\ amount \in Int /\ row.balance \in Int
  BY RowAt, ObligationsAssumption DEF RemindedInv, DebtInv, CycleInv, Row
<1>2. amount - over \in Int
  BY <1>1
<1>3. ob' = [ob EXCEPT ![o] = new] /\ UNCHANGED <<reminders, reminded, raced, wiped>>
  BY DEF Pay, marks
<1> HIDE DEF over
<1>4. Same(row, new) /\ new.meta = row.meta
  BY <1>1, <1>2, PaidRow
<1> HIDE DEF new
<1>5. OneChanged(ob', ob, o) /\ ob'[o] = new
  BY <1>1, <1>3, <1>4, ObSet DEF OneChanged, Ids, Same
<1> QED
  BY <1>3, <1>4, <1>5, RowMarks

\* The commit of a cycle writes the meta of the old one as it was read: without a
\* race, as it is.
LEMMA CycleReminders == RemindedInv /\ DebtInv' /\ CommitCycle => RemindedInv'
<1> SUFFICES ASSUME RemindedInv, DebtInv', CommitCycle PROVE RemindedInv'
  OBVIOUS
<1> DEFINE o   == billing.config.ob
           old == Rolled(ob[o], billing.row)
<1>1. /\ RowsOK /\ ob \in Seq(Row) /\ Len(ob) \in Nat /\ ob' \in Seq(Row) /\ raced \in BOOLEAN
      /\ billing.pc = "made" /\ CycleOK
  BY LenProperties DEF CommitCycle, RemindedInv, DebtInv, CycleInv, RowsOK, MoneyOK
<1>2. o \in Ids /\ ob[o] \in Row /\ ob[o].status # "GONE"
  <2>1. billing.series \in Series /\ config[billing.series].ob = o /\ o # 0
    BY <1>1 DEF CommitCycle, RemindedInv, DebtInv, CycleInv, BatchOK, CycleOK, Current
  <2> QED
    BY <1>1, <2>1, RowAt, SeriesAlive DEF RemindedInv, DebtInv
<1>3. PICK row : ob' = Append([ob EXCEPT ![o] = old], row)
  BY DEF CommitCycle
<1>4. UNCHANGED <<reminders, reminded, wiped>>
      /\ raced' = (raced \/ ob[o] # billing.row \/ credit[billing.row.payer] # billing.credit)
  BY DEF CommitCycle, unbilled
<1>5. raced => raced'
  BY <1>1, <1>4
<1>6. raced' \/ old.meta = ob[o].meta
  BY <1>2, <1>4 DEF Rolled, Row
<1>7. old \in Row
  BY <1>1, <1>2, RolledRow DEF CycleOK, Same
<1> DEFINE rolled == [ob EXCEPT ![o] = old]
<1> HIDE DEF old
<1>8. /\ rolled \in Seq(Row) /\ Len(rolled) = Len(ob)
      /\ \A u \in 1..Len(ob) : rolled[u] = IF u = o THEN old ELSE ob[u]
  <2>1. o \in 1..Len(ob)
    BY <1>2 DEF Ids
  <2> QED
    BY <1>1, <1>7, <2>1, ExceptSeq
<1>9. ob' = Append(rolled, row)
  BY <1>3
<1> HIDE DEF rolled
<1>10. Len(ob') = Len(ob) + 1 /\ \A u \in 1..Len(ob) : ob'[u] = rolled[u]
  BY <1>1, <1>8, <1>9
<1>11. MarksKept
  BY <1>1, <1>4, <1>5, <1>6, <1>8, <1>10 DEF MarksKept, Ids, Spoiled
<1> QED
  BY <1>4, <1>11, KeptReminders

-----------------------------------------------------------------------------
(* Reminders: the job                                                      *)

LEMMA NoEventsOK == reminders'.events = <<>> => EventsOK'
<1> SUFFICES ASSUME reminders'.events = <<>> PROVE EventsOK'
  OBVIOUS
<1>1. reminders'.events \in Seq(Nat \X Int) /\ Len(reminders'.events) = 0
  OBVIOUS
<1> QED
  BY <1>1 DEF EventsOK, OfOneRun

\* A run begins, is published, or dies.
LEMMA RunReminders ==
  ASSUME RemindedInv, DebtInv', StartReminders \/ WorkerCrash \/ PublishReminders
  PROVE  RemindedInv'
<1>1. UNCHANGED <<ob, raced, wiped>>
  BY DEF StartReminders, WorkerCrash, PublishReminders, unreminded, rows, marks
<1>2. reminders'.events = <<>>
  BY DEF StartReminders, WorkerCrash, PublishReminders, NoReminders
<1>3. reminders.at \in Int /\ day \in Int /\ OnceOK
  BY DEF RemindedInv, DebtInv, CycleInv, RemindersOK, RowsOK
<1>4. \A e : (Spoiled(e))' <=> Spoiled(e)
  BY <1>1 DEF Spoiled
<1>5. CASE StartReminders
  <2>1. reminders'.at = day /\ reminders.at < day /\ reminded' = reminded
    BY <1>5 DEF StartReminders, NoReminders
  <2>2. OnceOK'
    BY <1>3, <1>4, <2>1 DEF OnceOK
  <2> QED
    BY <1>2, <2>2, NoEventsOK DEF RemindedInv
<1>6. CASE WorkerCrash
  <2>1. reminders'.at = reminders.at /\ reminders'.pc = "idle" /\ reminded' = reminded
    BY <1>6 DEF WorkerCrash, NoReminders
  <2>2. OnceOK'
    BY <1>3, <1>4, <2>1 DEF OnceOK
  <2> QED
    BY <1>2, <2>2, NoEventsOK DEF RemindedInv
<1>7. CASE PublishReminders
  <2>1. reminders'.at = reminders.at /\ reminders'.pc = "idle" /\ reminders.pc # "idle"
    BY <1>7 DEF PublishReminders, NoReminders
  <2>2. \E events : OfOneRun(events) /\ reminded' = reminded (+) BagOf(events)
    <3>1. OfOneRun(reminders.events)
      BY DEF RemindedInv, EventsOK
    <3>2. \/ reminded' = reminded (+) BagOf(reminders.events)
          \/ \E sent \in 0..(Len(reminders.events) - 1) :
               reminded' = reminded (+) BagOf(SubSeq(reminders.events, 1, sent))
      BY <1>7 DEF PublishReminders, Published
    <3> QED
      BY <3>1, <3>2, FirstOfRun
  <2>3. OnceOK'
    BY <1>3, <1>4, <2>1, <2>2, GoOut DEF OnceOK
  <2> QED
    BY <1>2, <2>3, NoEventsOK DEF RemindedInv
<1> QED
  BY <1>5, <1>6, <1>7

\* A step of a run that keeps its events and marks no row.
LEMMA SameEvents ==
  ASSUME RemindedInv, DebtInv', UNCHANGED <<ob, raced, wiped, reminded>>,
         reminders.pc = "page", reminders'.at = reminders.at, reminders'.events = reminders.events
  PROVE  RemindedInv'
<1>1. \A o : Spoiled(o)' <=> Spoiled(o)
  BY DEF Spoiled
<1>2. \A o : Marked(o)' <=> Marked(o)
  BY <1>1 DEF Marked, SentToday
<1>3. Ids' = Ids
  BY DEF Ids
<1>4. EventsOK'
  BY <1>1, <1>2, <1>3 DEF RemindedInv, EventsOK, OfOneRun
<1>5. OnceOK'
  BY <1>1 DEF RemindedInv, OnceOK
<1> QED
  BY <1>4, <1>5 DEF RemindedInv

LEMMA PageReminders == RemindedInv /\ DebtInv' /\ ReadPage => RemindedInv'
<1> SUFFICES ASSUME RemindedInv, DebtInv', ReadPage PROVE RemindedInv'
  OBVIOUS
<1>1. UNCHANGED <<ob, raced, wiped, reminded>> /\ reminders.pc = "page"
  BY DEF ReadPage, unreminded, marks
<1>2. reminders = [f \in ReminderFields |-> reminders[f]]
  BY DEF RemindedInv, DebtInv, CycleInv, RemindersOK
<1>3. reminders'.at = reminders.at /\ reminders'.events = reminders.events
  <2>1. CASE \E pc \in {"idle", "publish"} :
               reminders' = [NoReminders EXCEPT !.at = reminders.at, !.events = reminders.events,
                                                !.pc = pc]
    BY <2>1 DEF NoReminders
  <2>2. CASE \E page : reminders' = [reminders EXCEPT !.page = page, !.offset = @ + PageSize]
    BY <1>2, <2>2 DEF ReminderFields
  <2> QED
    BY <2>1, <2>2 DEF ReadPage
<1> QED
  BY <1>1, <1>3, SameEvents

\* An obligation is reminded of if it has not been marked, and marked.
LEMMA RemindReminders ==
  ASSUME RemindedInv, DebtInv', NEW o \in reminders.page, Remind(o)
  PROVE  RemindedInv'
<1> DEFINE meta == IF ob[o].meta = Nothing THEN NoMeta ELSE ob[o].meta
           new  == [ob[o] EXCEPT !.meta = [meta EXCEPT !.sent = reminders.at]]
           at   == reminders.at
           kept == reminders.events
           last == Len(kept) + 1
<1>1. /\ RowsOK /\ o \in Ids /\ ob[o] \in Row /\ at \in Int /\ o \in Nat
      /\ reminders = [f \in ReminderFields |-> reminders[f]]
  BY RowAt DEF RemindedInv, DebtInv, CycleInv, RemindersOK
<1>2. UNCHANGED <<raced, wiped, reminded>> /\ reminders.pc = "page"
  BY DEF Remind, unreminded, marks
<1>3. CASE /\ ob' = ob
           /\ \/ reminders' = [reminders EXCEPT !.page = @ \ {o}, !.pc = "publish", !.page = {}]
              \/ reminders' = [reminders EXCEPT !.page = @ \ {o}]
  <2>1. reminders'.at = reminders.at /\ reminders'.events = reminders.events
    BY <1>1, <1>3 DEF ReminderFields
  <2> QED
    BY <1>2, <1>3, <2>1, SameEvents
<1>4. CASE /\ ~SentToday(o) /\ ob' = [ob EXCEPT ![o] = new]
           /\ reminders' = [reminders EXCEPT !.page = @ \ {o}, !.events = Append(@, <<o, at>>)]
  <2>1. reminders'.at = at /\ reminders'.pc = "page" /\ reminders'.events = Append(kept, <<o, at>>)
    BY <1>1, <1>2, <1>4 DEF ReminderFields
  <2>2. OfOneRun(kept) /\ \A i \in 1..Len(kept) : Marked(kept[i][1])
    BY <1>2 DEF RemindedInv, EventsOK
  <2>3. /\ Append(kept, <<o, at>>) \in Seq(Nat \X Int) /\ Len(Append(kept, <<o, at>>)) = last
        /\ \A i \in 1..Len(kept) : Append(kept, <<o, at>>)[i] = kept[i]
        /\ Append(kept, <<o, at>>)[last] = <<o, at>> /\ Len(kept) \in Nat
    BY <1>1, <2>2, AppendProperties, LenProperties DEF OfOneRun
  <2>4. meta \in Meta
    BY <1>1 DEF Row, NoMeta, Meta
  <2> HIDE DEF meta
  <2>5. [meta EXCEPT !.sent = at] \in Meta /\ [meta EXCEPT !.sent = at].sent = at
    BY <1>1, <2>4 DEF Meta
  <2>6. Same(ob[o], new) /\ new.meta = [meta EXCEPT !.sent = at]
    BY <1>1, <2>5 DEF Same, Row
  <2>7. new.meta # Nothing /\ new.meta.sent = at
    BY <2>5, <2>6, MetaAssumption DEF Meta
  <2> HIDE DEF new
  <2>8. Ids' = Ids /\ ob'[o] = new /\ \A u \in Ids : u # o => ob'[u] = ob[u]
    BY <1>1, <1>4, <2>6, ObSet
  <2>9. \A u : Spoiled(u)' <=> Spoiled(u)
    BY <1>2 DEF Spoiled
  <2>10. Marked(o)' /\ \A u \in Ids : Marked(u) => Marked(u)'
    BY <2>1, <2>7, <2>8, <2>9 DEF Marked, SentToday
  <2> DEFINE events == reminders'.events
  <2>11. \A i \in 1..Len(kept) : /\ kept[i] \in Ids \X {at} /\ kept[i][1] \in Ids
                                 /\ kept[i] = <<o, at>> => Spoiled(o)
    <3>1. \A i \in 1..Len(kept) : kept[i] \in Ids \X {at} /\ kept[i][1] \in Ids
      BY <2>2 DEF OfOneRun
    <3>2. \A i \in 1..Len(kept) : kept[i] = <<o, at>> => Marked(o)
      BY <2>2
    <3> QED
      BY <1>4, <3>1, <3>2 DEF Marked
  <2>12. /\ events \in Seq(Nat \X Int) /\ Len(events) = last
         /\ \A i \in 1..Len(kept) : events[i] = kept[i]
         /\ events[last] = <<o, at>>
    BY <2>1, <2>3
  <2> HIDE DEF events
  <2>13. \A i \in 1..last : i \in 1..Len(kept) \/ i = last
    BY <2>3
  <2>14. \A i \in 1..last : /\ events[i] \in Ids \X {at} /\ events[i][1] \in Ids
                            /\ events[i][1] = o \/ Marked(events[i][1])
    <3>1. ASSUME NEW i \in 1..Len(kept)
          PROVE  /\ events[i] \in Ids \X {at} /\ events[i][1] \in Ids
                 /\ events[i][1] = o \/ Marked(events[i][1])
      <4>1. events[i] = kept[i]
        BY <2>12
      <4> QED
        BY <2>2, <2>11, <4>1
    <3>2. events[last] \in Ids \X {at} /\ events[last][1] = o
      BY <1>1, <2>12
    <3> QED
      BY <1>1, <2>13, <3>1, <3>2
  <2>15. \A i, j \in 1..last : i # j /\ events[i] = events[j] => Spoiled(events[i][1])
    <3>1. \A i, j \in 1..Len(kept) : i # j /\ kept[i] = kept[j] => Spoiled(kept[i][1])
      BY <2>2 DEF OfOneRun
    <3>2. ASSUME NEW i \in 1..Len(kept), events[i] = events[last]
          PROVE  Spoiled(events[i][1]) /\ Spoiled(events[last][1])
      <4>1. kept[i] = <<o, at>> /\ events[i] = <<o, at>> /\ events[i][1] = o /\ events[last][1] = o
        BY <2>12, <3>2
      <4> QED
        BY <2>11, <4>1
    <3> QED
      BY <2>12, <2>13, <3>1, <3>2
  <2>16. EventsOK'
    <3>1. OfOneRun(reminders.events)'
      BY <2>1, <2>8, <2>9, <2>12, <2>14, <2>15 DEF OfOneRun, events
    <3>2. \A i \in 1..last : events[i][1] \in {u \in Ids : Marked(u)'}
      BY <2>10, <2>14
    <3>3. \A i \in 1..Len(reminders'.events) :
            reminders'.events[i][1] \in {u \in Ids : Marked(u)'}
      BY <2>12, <3>2 DEF events
    <3>4. \A i \in 1..Len(reminders'.events) : Marked(reminders.events[i][1])'
      BY <3>3 DEF Marked, SentToday, Spoiled
    <3> QED
      BY <3>1, <3>4 DEF EventsOK
  <2>17. OnceOK'
    BY <1>2, <2>1, <2>9 DEF RemindedInv, OnceOK
  <2> QED
    BY <2>16, <2>17 DEF RemindedInv
<1> QED
  BY <1>3, <1>4 DEF Remind

LEMMA RemindedNext == RemindedInv /\ [Next]_vars => RemindedInv'
<1> SUFFICES ASSUME RemindedInv, [Next]_vars PROVE RemindedInv'
  OBVIOUS
<1>1. DebtInv'
  BY DebtNext DEF RemindedInv
<1>2. CASE Commit
  BY <1>1, <1>2, QuietReminders, UpdateReminders, StatusReminders, CreateReminders DEF Commit
<1>3. CASE BillingStep
  BY <1>1, <1>3, QuietReminders, CycleReminders DEF BillingStep
<1>4. CASE StartReminders \/ ReminderStep
  BY <1>1, <1>4, RunReminders, PageReminders, RemindReminders DEF ReminderStep
<1>5. CASE \E o \in Ids, amount \in Amounts : Pay(o, amount)
  BY <1>1, <1>5, PayReminders
<1>6. CASE Tick \/ WorkerCrash \/ ApiCrash \/ UNCHANGED vars
  BY <1>1, <1>6, QuietReminders, RunReminders
<1>7. CASE \/ \E o \in Ids : Update(o) \/ Cancel(o) \/ Delete(o)
           \/ \E c \in Series : UpdateSeries(c)
           \/ \E p \in Payers : Create(p) \/ RemovePayer(p) \/ RemoveGroup(p)
  BY <1>1, <1>7, QuietReminders
<1> QED
  BY <1>2, <1>3, <1>4, <1>5, <1>6, <1>7 DEF Next

\* An obligation is reminded of once a day: the page of _run_reminders_cycle_sync may repeat
\* it, a run may die after it has marked some and another begin, but what is marked
\* in meta is skipped; until a manager replaces the meta, or a session commits over
\* rows that changed since it read them.
THEOREM RemindersOnce == Spec => []RemindedOnce
<1>1. RemindedInv => RemindedOnce
  BY DEF RemindedInv, OnceOK, RemindedOnce, BagToSet, Spoiled
<1> QED
  BY <1>1, RemindedInit, RemindedNext, PTL DEF Spec
=============================================================================
