----------------------------- MODULE Obligations -----------------------------
(***************************************************************************)
(* What payers owe: obligations, the recurring series that bill a new      *)
(* cycle, the credit of a payer, and the two jobs of the worker that roll  *)
(* the cycles over and remind.  Three parties write the same rows without  *)
(* a version: a request of the API process (its event loop runs one at a   *)
(* time from its SELECT to its commit), the billing job in a thread of the *)
(* worker, and the reminders job in another.  Payments come in as single   *)
(* steps here; their own interleavings are the subject of Reconciliation.  *)
(*                                                                         *)
(* A SELECT is a step that copies committed rows into the session; a       *)
(* commit writes the columns the session has changed.  Both places that    *)
(* create a recurring series call a method ObligationService does not have *)
(* and roll back, so series exist only initially.                          *)
(***************************************************************************)
EXTENDS Integers, Sequences, FiniteSets, FiniteSetsExt, Bags, Schedule, Sums

CONSTANTS
  Payers,
  Series,         \* recurring series (rows of recurring_configs): 1, 2, ...
  Owner,          \* the payer of each series
  Plans,          \* schedules a series may have
  Rent,           \* amount_due of the first cycle of a series
  Rate,           \* meta.penalty_rate of the first cycles
  Amounts,        \* amounts requests and payments name
  Dates,          \* dates requests name
  PageSize,       \* rows the reminders job reads at a time
  Ahead, Behind,  \* reminders go out this long before and after the due date
  MaxDay,         \* bound: days that pass
  ReminderDays,   \* bound: the days the reminders job runs on
  MaxRequests,    \* bound: requests to the API
  MaxPayments,    \* bound: payments
  MaxFaults,      \* bound: process restarts and failed publishes
  MaxObligations  \* bound: a series whose interval is negative never stops

ASSUME ObligationsAssumption ==
  /\ IsFiniteSet(Payers) /\ IsFiniteSet(Series)
  /\ Series = 1..Cardinality(Series)
  /\ Owner \in [Series -> Payers]
  /\ Plans \subseteq Plan
  /\ Rent \in [Series -> Nat \ {0}] /\ Rate \in Nat
  /\ Amounts \subseteq Nat \ {0} /\ Dates \subseteq Nat
  /\ PageSize \in Nat \ {0} /\ Ahead \in Nat \ {0} /\ Behind \in Nat \ {0}
  /\ \A d \in 0..MaxDay \cup Dates : d \in Days /\ NextMonthStart(d) \in Days
  /\ MaxDay \in Nat /\ MaxRequests \in Nat /\ MaxPayments \in Nat /\ MaxFaults \in Nat
  /\ MaxObligations \in Nat

\* NULL is not an object.
ASSUME MetaAssumption ==
  Nothing \notin [base : Int \cup {Nothing}, rate : Int, sent : Int \cup {Nothing}]

Open == {"PENDING", "PARTIAL", "OVERDUE"}
ObligationStatus == Open \cup {"SETTLED", "VOIDED", "ROLLED"}

VARIABLES
  day,       \* today, in the time zone of the business
  ob,        \* the obligations, in the order of their creation
  config,    \* recurring_configs
  credit,    \* credit_balance of the payers
  api,       \* the request being served
  billing,   \* the billing job
  reminders, \* the reminders job
  told,      \* OBLIGATION_CREATED and OBLIGATION_CANCELLED events published
  reminded,  \* today's OBLIGATION_DUE events (history)
  billed, received, adjusted,   \* history: money, for each payer
  raced,     \* history: a session has committed over rows changed since it read
  moved,     \* history: series a manager has moved a date of
  wiped,     \* history: obligations whose meta a manager has replaced
  requests, payments, faults    \* bounds

rows   == <<ob, config, credit>>
money  == <<billed, received, adjusted>>
marks  == <<raced, moved, wiped>>
bounds == <<requests, payments, faults>>
vars   == <<day, rows, api, billing, reminders, told, reminded, money, marks, bounds>>

\* meta may be NULL, or hold base_amount, penalty_rate and reminder_sent_date.
NoMeta == [base |-> Nothing, rate |-> 0, sent |-> Nothing]

\* A row of obligations.  `from` is rolled_over_from and `series` the series it
\* was billed by (kept as history: a manager may replace meta).  "GONE" stands
\* for a deleted row, whose key is never used again.
NewRow(payer, due, date) ==
  [payer |-> payer, due |-> due, paid |-> 0, balance |-> due, status |-> "PENDING",
   date |-> date, meta |-> NoMeta, from |-> 0, series |-> 0]

NoRequest  == [op |-> "none", on |-> 0, row |-> Nothing, series |-> {}, config |-> Nothing,
               payer |-> Nothing, credit |-> 0, all |-> {}]
NoBilling  == [pc |-> "idle", at |-> 0, batch |-> {}, rows |-> Nothing, fresh |-> TRUE,
               series |-> 0, config |-> Nothing, row |-> Nothing, credit |-> 0,
               events |-> <<>>]
NoReminders == [pc |-> "idle", at |-> -1, offset |-> 0, page |-> {}, events |-> <<>>]

\* The billing job after an exception that leaves its loop: what it has billed until
\* then is still published.
JobEnds == [NoBilling EXCEPT !.pc = "publish", !.events = billing.events]

BagOf(events) == [e \in {events[i] : i \in DOMAIN events} |->
                    Cardinality({i \in DOMAIN events : events[i] = e})]

Ids          == 1..Len(ob)
Exists(o)    == o \in Ids /\ ob[o].status # "GONE"
SeriesOf(o)  == {c \in Series : config[c].ob = o}
ObsOf(p)     == {o \in Ids : ob[o].payer = p /\ ob[o].status # "GONE"}
Registered(p) == credit[p] # Nothing

\* What a payer still owes on an obligation.
Owed(row) == IF row.status \in Open THEN row.balance ELSE 0

FirstCycle(c) ==
  [NewRow(Owner[c], Rent[c], 0) EXCEPT !.meta.rate = Rate, !.series = c]

\* A row of recurring_configs (ob = 0 for a deleted one).  end_date and
\* grace_period_days are stored and never read.
Init ==
  /\ day = 0
  /\ ob = [c \in Series |-> FirstCycle(c)]
  /\ \E plan \in [Series -> Plans] :
       config = [c \in Series |-> [ob |-> c, plan |-> plan[c], auto |-> TRUE,
                                   next |-> NextDue(plan[c], 0)]]
  /\ credit = [p \in Payers |-> 0]
  /\ api = NoRequest /\ billing = NoBilling /\ reminders = NoReminders
  /\ told = EmptyBag /\ reminded = EmptyBag
  /\ billed = [p \in Payers |-> SumOver(Rent, {c \in Series : Owner[c] = p})]
  /\ received = [p \in Payers |-> 0] /\ adjusted = [p \in Payers |-> 0]
  /\ raced = FALSE /\ moved = {} /\ wiped = {}
  /\ requests = 0 /\ payments = 0 /\ faults = 0

-----------------------------------------------------------------------------
(* The database                                                            *)

\* The row after a session that read `read` commits `new` over `current`.
Flush(current, read, new) ==
  [f \in DOMAIN current |-> IF new[f] = read[f] THEN current[f] ELSE new[f]]

\* An obligation after an amount is paid to it, by a payment or from credit.
Paid(row, amount) ==
  LET left == row.due - (row.paid + amount) IN
  IF left <= 0 THEN [row EXCEPT !.paid = @ + amount, !.balance = 0, !.status = "SETTLED"]
  ELSE [row EXCEPT !.paid = @ + amount, !.balance = left, !.status = "PARTIAL"]

\* Mutants of ApplyCredit: the payer keeps what is used; more is used than there is.
ApplyCreditTwice(row, available) ==
  [row    |-> IF available <= 0 THEN row ELSE Paid(row, Lesser(available, row.balance)),
   credit |-> available]
ApplyCreditBeyond(row, available) ==
  [row    |-> IF available <= 0 THEN row ELSE Paid(row, row.balance),
   credit |-> IF available <= 0 THEN available ELSE available - row.balance]

\* apply_credit_to_obligation: the obligation, and the credit left.
ApplyCredit(row, available) ==
  IF available <= 0 THEN [row |-> row, credit |-> available]
  ELSE LET usage == Lesser(available, row.balance)
       IN  [row |-> Paid(row, usage), credit |-> available - usage]

-----------------------------------------------------------------------------
(* Requests: the SELECT ...                                                *)

Request(r) ==
  /\ api = NoRequest
  /\ requests < MaxRequests
  /\ requests' = requests + 1
  /\ api' = r
  /\ UNCHANGED <<day, rows, billing, reminders, told, reminded, money, marks, payments, faults>>

\* PATCH, cancel and DELETE read an obligation with its series, and refuse some
\* statuses.
OnObligation(op, o, refused) ==
  /\ Exists(o)
  /\ ob[o].status \notin refused
  /\ Request([NoRequest EXCEPT !.op = op, !.on = o, !.row = ob[o], !.series = SeriesOf(o)])

Update(o) == OnObligation("update", o, {"SETTLED", "VOIDED", "ROLLED"})
Cancel(o) == OnObligation("cancel", o, {"VOIDED", "ROLLED"})
Delete(o) == OnObligation("delete", o, {"SETTLED"})

UpdateSeries(c) ==
  /\ config[c].ob # 0
  /\ Request([NoRequest EXCEPT !.op = "series", !.on = c, !.config = config[c]])

Create(p) ==
  /\ Registered(p)
  /\ Request([NoRequest EXCEPT !.op = "create", !.payer = p, !.credit = credit[p]])

\* delete_payer refuses a payer with open obligations, delete_group does not look
\* at those of its payers; both cascade to every obligation.
RemoveWith(p) ==
  /\ Registered(p)
  /\ Request([NoRequest EXCEPT !.op = "remove", !.payer = p, !.all = ObsOf(p)])
RemovePayer(p) == RemoveWith(p) /\ \A o \in ObsOf(p) : ob[o].status \notin Open
RemoveGroup(p) == RemoveWith(p)

-----------------------------------------------------------------------------
(* ... and the commit                                                      *)

Reply == api' = NoRequest

\* The event of a request goes out after its commit; one that fails is swallowed by
\* a creation and answered 500 by a cancellation.
Announce(event) ==
  \/ told' = told (+) SetToBag({event}) /\ UNCHANGED faults
  \/ faults < MaxFaults /\ faults' = faults + 1 /\ UNCHANGED told

\* The new cycle of the billing job, inserted and not yet committed, keeps its payer
\* from being deleted, while the job's commit waits for the series that a removal
\* deletes first: the database ends one of the two.
Deadlocked(p) == /\ billing.pc = "made" /\ billing.row.payer = p
                 /\ config[billing.series].ob # 0

\* A commit that updates or deletes a row another session has deleted fails.
Conflict ==
  /\ \/ api.op \in {"update", "cancel", "delete"} /\ ~Exists(api.on)
     \/ api.op = "series" /\ config[api.on].ob = 0
     \/ api.op = "remove" /\ (Deadlocked(api.payer) \/ ~(ObsOf(api.payer) = api.all))
  /\ Reply
  /\ UNCHANGED <<day, rows, billing, reminders, told, reminded, money, marks, bounds>>

Adjust(p, before, after) == adjusted' = [adjusted EXCEPT ![p] = @ + Owed(after) - Owed(before)]

\* What update_obligation may make of a row: amount_due (and the balance with it),
\* status, due_date or meta, as given.
Edits(row) ==
  {[row EXCEPT !.due = a, !.balance = a - row.paid] : a \in Amounts}
    \cup {[row EXCEPT !.status = s] : s \in ObligationStatus}
    \cup {[row EXCEPT !.date = d] : d \in Dates}
    \cup {[row EXCEPT !.meta = m] : m \in {NoMeta, Nothing}}

CommitUpdate ==
  LET o == api.on IN
  /\ api.op = "update" /\ Exists(o)
  /\ \E new \in Edits(api.row) :
       LET after == Flush(ob[o], api.row, new) IN
       /\ ob' = [ob EXCEPT ![o] = after]
       /\ Adjust(after.payer, ob[o], after)
       /\ moved' = IF new.date = api.row.date THEN moved ELSE moved \cup {after.series}
       /\ wiped' = IF new.meta = api.row.meta THEN wiped ELSE wiped \cup {o}
  /\ raced' = (raced \/ ob[o] # api.row)
  /\ Reply
  /\ UNCHANGED <<day, config, credit, billing, reminders, told, reminded, billed, received, bounds>>

\* The columns a request gives of a series: auto_generate or next_due_date.
CommitSeries ==
  LET c == api.on
      Write(new) == [config EXCEPT ![c] = Flush(@, api.config, new)]
  IN
  /\ api.op = "series" /\ config[c].ob # 0
  /\ \/ \E auto \in BOOLEAN : config' = Write([api.config EXCEPT !.auto = auto])
        /\ UNCHANGED moved
     \/ \E next \in Dates : config' = Write([api.config EXCEPT !.next = next])
        /\ moved' = moved \cup {c}
  /\ Reply
  /\ UNCHANGED <<day, ob, credit, billing, reminders, told, reminded, money, raced, wiped, bounds>>

\* A recurring obligation that is cancelled stops its series.
CommitCancel ==
  LET o     == api.on
      after == [ob[o] EXCEPT !.status = "VOIDED"]
  IN
  /\ api.op = "cancel" /\ Exists(o)
  /\ ob' = [ob EXCEPT ![o] = after]
  /\ config' = [c \in Series |-> IF c \in api.series THEN [config[c] EXCEPT !.auto = FALSE]
                                 ELSE config[c]]
  /\ Adjust(after.payer, ob[o], after)
  /\ raced' = (raced \/ ob[o] # api.row)
  /\ Announce(<<"cancelled", o>>)
  /\ Reply
  /\ UNCHANGED <<day, credit, billing, reminders, reminded, billed, received, moved, wiped,
                 requests, payments>>

\* A deleted obligation takes its series with it, wherever that points by then.
CommitDelete ==
  LET o    == api.on
      gone == [ob[o] EXCEPT !.status = "GONE"]
  IN
  /\ api.op = "delete" /\ Exists(o)
  /\ ob' = [ob EXCEPT ![o] = gone]
  /\ config' = [c \in Series |-> IF c \in api.series \cup SeriesOf(o)
                                 THEN [config[c] EXCEPT !.ob = 0] ELSE config[c]]
  /\ Adjust(gone.payer, ob[o], gone)
  /\ raced' = (raced \/ ob[o] # api.row)
  /\ Reply
  /\ UNCHANGED <<day, credit, billing, reminders, told, reminded, billed, received, moved, wiped, bounds>>

\* A removal that goes through while a new cycle of the payer waits has ended the job.
CommitRemove ==
  LET p == api.payer IN
  /\ api.op = "remove" /\ ObsOf(p) = api.all
  /\ ob' = [o \in Ids |-> IF o \in api.all THEN [ob[o] EXCEPT !.status = "GONE"] ELSE ob[o]]
  /\ config' = [c \in Series |-> IF config[c].ob \in api.all THEN [config[c] EXCEPT !.ob = 0]
                                 ELSE config[c]]
  /\ credit' = [credit EXCEPT ![p] = Nothing]
  /\ billing' = IF billing.pc = "made" /\ billing.row.payer = p THEN JobEnds ELSE billing
  /\ Reply
  /\ UNCHANGED <<day, reminders, told, reminded, money, marks, bounds>>

\* create_obligation, and create_unified_payer_obligation for a payer it finds: a
\* one-off obligation, paid at once from the payer's credit.
CommitCreate ==
  LET p == api.payer IN
  /\ api.op = "create"
  /\ \E a \in Amounts, date \in Dates \cup {Nothing} :
       LET made == ApplyCredit(NewRow(p, a, date), api.credit) IN
       /\ ob' = Append(ob, made.row)
       /\ credit' = IF made.credit = api.credit THEN credit ELSE [credit EXCEPT ![p] = made.credit]
       /\ billed' = [billed EXCEPT ![p] = @ + a]
  /\ raced' = (raced \/ credit[p] # api.credit)
  /\ Announce(<<"created", Len(ob) + 1>>)
  /\ Reply
  /\ UNCHANGED <<day, config, billing, reminders, reminded, received, adjusted, moved, wiped,
                 requests, payments>>

-----------------------------------------------------------------------------
(* Payments                                                                *)

\* What _apply_payment does with an amount: to the obligation, the rest to credit.
Pay(o, amount) ==
  LET row  == ob[o]
      over == IF amount > row.balance THEN amount - row.balance ELSE 0
  IN
  /\ payments < MaxPayments
  /\ payments' = payments + 1
  /\ Exists(o) /\ row.status \in Open
  /\ ob' = [ob EXCEPT ![o] = Paid(row, amount - over)]
  /\ credit' = [credit EXCEPT ![row.payer] = @ + over]
  /\ received' = [received EXCEPT ![row.payer] = @ + amount]
  /\ UNCHANGED <<day, config, api, billing, reminders, told, reminded, billed, adjusted, marks,
                 requests, faults>>

-----------------------------------------------------------------------------
(* The billing job                                                         *)

unbilled == <<day, api, reminders, reminded, received, adjusted, moved, wiped, requests, payments>>

\* Mutant of DueSeries: what is due this moment is left for the next time.
DueBefore(at) ==
  {c \in Series : /\ config[c].ob # 0 /\ config[c].auto
                  /\ config[c].next # Nothing /\ config[c].next < at}

DueSeries(at) ==
  {c \in Series : /\ config[c].ob # 0 /\ config[c].auto
                  /\ config[c].next # Nothing /\ config[c].next <= at}

\* The job starts every few hours; it selects the series that are due again and
\* again, until there is none.
SelectDue ==
  LET at == IF billing.pc = "idle" THEN day ELSE billing.at IN
  /\ billing.pc = "idle" \/ (billing.pc = "next" /\ billing.batch = {})
  /\ billing' = IF DueSeries(at) = {}
                THEN [NoBilling EXCEPT !.pc = IF billing.events = <<>> THEN "idle" ELSE "publish",
                                       !.events = billing.events]
                ELSE [NoBilling EXCEPT !.pc = "next", !.at = at, !.batch = DueSeries(at),
                                       !.rows = config, !.events = billing.events]
  /\ UNCHANGED <<unbilled, rows, told, billed, raced, faults>>

\* The session after a series is billed, or its exception caught: its rows expired.
RolledBack(c) ==
  [NoBilling EXCEPT !.pc = "next", !.at = billing.at, !.batch = billing.batch \ {c},
                    !.fresh = FALSE, !.events = billing.events]

\* Read a series of the batch, again if a commit or a rollback has expired it, and
\* its obligation.  A deleted series ends the cycle, unless its row is still that
\* of the SELECT: then it has no obligation and is passed over.  An obligation
\* whose meta is NULL raises.
ReadCycle(c) ==
  LET row == IF billing.fresh THEN billing.rows[c] ELSE config[c] IN
  /\ billing.pc = "next" /\ c \in billing.batch
  /\ billing' =
       IF row.ob = 0 THEN JobEnds
       ELSE IF ~Exists(row.ob) THEN [billing EXCEPT !.batch = @ \ {c}]
       ELSE IF ob[row.ob].meta = Nothing THEN RolledBack(c)
       ELSE [billing EXCEPT !.pc = "read", !.series = c, !.config = row, !.row = ob[row.ob]]
  /\ UNCHANGED <<unbilled, rows, told, billed, raced, faults>>

\* The new obligation is inserted, unless its payer is gone, and the payer read.  The
\* INSERT locks the payer's row against deletion and no other: the old obligation
\* and the series are first written at the commit.  An INSERT or a commit that
\* fails ends the job: the handler of the exception reads the series before it
\* rolls the session back, which raises again.
InsertCycle ==
  LET p == billing.row.payer IN
  /\ billing.pc = "read"
  /\ Backwards(billing.config.plan) => Len(ob) < MaxObligations
  /\ billing' = IF Registered(p) THEN [billing EXCEPT !.pc = "made", !.credit = credit[p]]
                ELSE JobEnds
  /\ UNCHANGED <<unbilled, rows, told, billed, raced, faults>>

\* The series was deleted since, alone or with its obligation.
CycleFails ==
  /\ billing.pc = "made" /\ config[billing.series].ob = 0
  /\ billing' = JobEnds
  /\ UNCHANGED <<unbilled, rows, told, billed, raced, faults>>

BaseAmount(row) == Given(row.meta.base, row.due)

Penalty(row) ==
  IF row.balance > 0 /\ row.status \notin {"SETTLED", "VOIDED", "ROLLED"}
  THEN row.balance * row.meta.rate ELSE 0

\* The cycle that follows one, before any credit: the base amount, what is left of
\* the old one, whatever its status, and a penalty.
NextCycle(row, date) ==
  [NewRow(row.payer, BaseAmount(row) + row.balance + Penalty(row), date) EXCEPT
     !.meta = [row.meta EXCEPT !.base = BaseAmount(row)], !.from = billing.config.ob,
     !.series = row.series]

Rolled(current, read) ==
  IF read.status = "SETTLED" THEN current
  ELSE [current EXCEPT !.status = "ROLLED", !.meta = read.meta]

\* Mutant of MovedOn: the series stays at its old obligation.
StaysAt(row, o, next) == [row EXCEPT !.next = next]
MovedOn(row, o, next) == [row EXCEPT !.ob = o, !.next = next]

\* Mutant of Announced: the cycles before the newest are.
AnnouncedIfDue(next, at) == next # Nothing /\ next <= at

\* A cycle is announced only if its series is not due again at once.
Announced(next, at) == next = Nothing \/ next > at

\* The commit of a new cycle.
CommitCycle ==
  LET c    == billing.series
      o    == billing.config.ob
      row  == billing.row
      new  == Len(ob) + 1
      next == NextDue(billing.config.plan, billing.config.next)
      made == ApplyCredit(NextCycle(row, billing.config.next), billing.credit)
  IN
  /\ billing.pc = "made" /\ config[c].ob # 0
  /\ ob' = Append([ob EXCEPT ![o] = Rolled(@, row)], made.row)
  /\ config' = [config EXCEPT ![c] = MovedOn(@, new, next)]
  /\ credit' = IF made.credit = billing.credit THEN credit
               ELSE [credit EXCEPT ![row.payer] = made.credit]
  /\ billed' = [billed EXCEPT ![row.payer] = @ + BaseAmount(row) + Penalty(row)
                                               + (row.balance - Owed(row))]
  /\ raced' = (raced \/ ob[o] # row \/ credit[row.payer] # billing.credit)
  /\ billing' = [RolledBack(c) EXCEPT
                   !.events = IF Announced(next, billing.at) THEN Append(@, <<"created", new>>) ELSE @]
  /\ UNCHANGED <<unbilled, told, faults>>

\* The events of a job that go out at its end, one after the other; the first that
\* fails takes the rest with it.
Published(events) == BagOf(events)

PublishCycles ==
  /\ billing.pc = "publish"
  /\ billing' = NoBilling
  /\ \/ told' = told (+) Published(billing.events) /\ UNCHANGED faults
     \/ /\ faults < MaxFaults /\ faults' = faults + 1
        /\ \E sent \in 0..(Len(billing.events) - 1) :
             told' = told (+) Published(SubSeq(billing.events, 1, sent))
  /\ UNCHANGED <<unbilled, rows, billed, raced>>

-----------------------------------------------------------------------------
(* The reminders job                                                       *)

unreminded == <<day, config, credit, api, billing, told, money, marks, requests, payments>>

\* Once a day.
StartReminders ==
  /\ reminders.pc = "idle" /\ reminders.at < day /\ day \in ReminderDays
  /\ reminders' = [NoReminders EXCEPT !.pc = "page", !.at = day]
  /\ UNCHANGED <<unreminded, ob, reminded, faults>>

Targets == {reminders.at + Ahead, reminders.at, reminders.at - Behind}
ToRemind ==
  {o \in Ids : ob[o].status \in {"PENDING", "PARTIAL"} /\ ob[o].date \in Targets}

\* The next page; the query has no order, so it may be any rows of the result.
ReadPage ==
  LET size == Lesser(PageSize, Cardinality(ToRemind) - reminders.offset) IN
  /\ reminders.pc = "page" /\ reminders.page = {}
  /\ IF size <= 0
     THEN reminders' = [NoReminders EXCEPT !.at = reminders.at, !.events = reminders.events,
                          !.pc = IF reminders.events = <<>> THEN "idle" ELSE "publish"]
     ELSE \E page \in kSubset(size, ToRemind) :
            reminders' = [reminders EXCEPT !.page = page, !.offset = @ + PageSize]
  /\ UNCHANGED <<unreminded, ob, reminded, faults>>

\* Mutant of SentToday: nobody looks.
NeverSent(o) == FALSE
SentToday(o) == ob[o].meta # Nothing /\ ob[o].meta.sent = reminders.at

\* One obligation of the page: marked, and its event kept for the end.  One that
\* was deleted since ends the job.
Remind(o) ==
  LET rest == [reminders EXCEPT !.page = @ \ {o}]
      meta == IF ob[o].meta = Nothing THEN NoMeta ELSE ob[o].meta
  IN
  /\ reminders.pc = "page" /\ o \in reminders.page
  /\ IF ~Exists(o)
     THEN reminders' = [rest EXCEPT !.pc = "publish", !.page = {}] /\ UNCHANGED ob
     ELSE IF SentToday(o) \/ ob[o].date \notin Targets
     THEN reminders' = rest /\ UNCHANGED ob
     ELSE /\ ob' = [ob EXCEPT ![o].meta = [meta EXCEPT !.sent = reminders.at]]
          /\ reminders' = [rest EXCEPT !.events = Append(@, <<o, reminders.at>>)]
  /\ UNCHANGED <<unreminded, reminded, faults>>

PublishReminders ==
  /\ reminders.pc = "publish"
  /\ reminders' = [NoReminders EXCEPT !.at = reminders.at]
  /\ \/ reminded' = reminded (+) Published(reminders.events) /\ UNCHANGED faults
     \/ /\ faults < MaxFaults /\ faults' = faults + 1
        /\ \E sent \in 0..(Len(reminders.events) - 1) :
             reminded' = reminded (+) Published(SubSeq(reminders.events, 1, sent))
  /\ UNCHANGED <<unreminded, ob>>

-----------------------------------------------------------------------------
(* Time and faults                                                         *)

Tick ==
  /\ day < MaxDay
  /\ day' = day + 1
  /\ UNCHANGED <<rows, api, billing, reminders, told, reminded, money, marks, bounds>>

\* A process dies, and its sessions roll back; the worker's events are lost.
WorkerCrash ==
  /\ faults < MaxFaults /\ faults' = faults + 1
  /\ billing.pc # "idle" \/ reminders.pc # "idle"
  /\ billing' = NoBilling
  /\ reminders' = [NoReminders EXCEPT !.at = reminders.at]
  /\ UNCHANGED <<day, rows, api, told, reminded, money, marks, requests, payments>>

ApiCrash ==
  /\ faults < MaxFaults /\ faults' = faults + 1
  /\ api # NoRequest
  /\ Reply
  /\ UNCHANGED <<day, rows, billing, reminders, told, reminded, money, marks, requests, payments>>

-----------------------------------------------------------------------------
Commit == \/ Conflict \/ CommitUpdate \/ CommitSeries \/ CommitCancel \/ CommitDelete
          \/ CommitRemove \/ CommitCreate

BillingStep == \/ SelectDue \/ InsertCycle \/ CycleFails \/ CommitCycle \/ PublishCycles
               \/ \E c \in Series : ReadCycle(c)

ReminderStep == ReadPage \/ PublishReminders \/ \E o \in reminders.page : Remind(o)

Next ==
  \/ \E o \in Ids : Update(o) \/ Cancel(o) \/ Delete(o)
  \/ \E c \in Series : UpdateSeries(c)
  \/ \E p \in Payers : Create(p) \/ RemovePayer(p) \/ RemoveGroup(p)
  \/ Commit
  \/ \E o \in Ids, amount \in Amounts : Pay(o, amount)
  \/ BillingStep \/ StartReminders \/ ReminderStep
  \/ Tick \/ WorkerCrash \/ ApiCrash

Spec == Init /\ [][Next]_vars

\* The event loop finishes its request, the two threads run, and the scheduler
\* starts the billing job every few hours.
Fairness == /\ WF_vars(Commit) /\ WF_vars(BillingStep)
            /\ WF_vars(ReminderStep)

FairSpec == Spec /\ Fairness

-----------------------------------------------------------------------------
(* Properties                                                              *)

TypeOK ==
  /\ day \in Nat
  /\ \A o \in Ids : /\ ob[o].payer \in Payers
                    /\ ob[o].status \in ObligationStatus \cup {"GONE"}
                    /\ ob[o].due \in Int /\ ob[o].paid \in Int /\ ob[o].balance \in Int
                    /\ ob[o].from \in 0..(o - 1)
  /\ \A c \in Series : config[c].ob \in {0} \cup Ids
  /\ credit \in [Payers -> Nat \cup {Nothing}]
  /\ billing.pc \in {"idle", "next", "read", "made", "publish"} /\ billing.batch \subseteq Series
  /\ reminders.pc \in {"idle", "page", "publish"} /\ reminders.page \subseteq Ids

\* What a payer owes: a deleted row holds nothing.
Debt(p) == SumOver([o \in Ids |-> Owed(ob[o])], {o \in Ids : ob[o].payer = p})

\* What a payer owes, less the credit the payer has, is what was billed (rents,
\* penalties, one-off amounts) and what managers changed, less what was received:
\* a rollover carries arrears over exactly once, and credit is used once.  It can
\* fail only after a session committed over rows changed since it read them.
DebtExplained ==
  \A p \in Payers :
    Registered(p) /\ ~raced =>
      Debt(p) - credit[p] = billed[p] + adjusted[p] - received[p]

\* Cycles form a chain whatever is interleaved: none is rolled over twice, and a
\* series that runs is at the end of its chain.
RolledOnce ==
  /\ \A o, u \in Ids : o # u /\ ob[o].from = ob[u].from => ob[o].from = 0
  /\ \A c \in Series : config[c].ob # 0 => \A o \in Ids : ob[o].from # config[c].ob

\* A period is billed once: the date of a cycle is later than that of the cycle
\* before, unless a manager has moved one or the interval given is negative.
PeriodsAdvance ==
  \A o \in Ids :
    /\ ob[o].from # 0 /\ ob[o].series \notin moved
    /\ ~Backwards(config[ob[o].series].plan)
    => ob[o].date > ob[ob[o].from].date

\* An obligation is reminded of once a day, whatever the pages repeat, unless a
\* manager replaced its meta, or a race reopened it.
RemindedOnce ==
  \A e \in BagToSet(reminded) : reminded[e] = 1 \/ e[1] \in wiped \/ raced

\* A series that is due is rolled over, whatever crashes, until it is stopped; only
\* an obligation whose meta was set to NULL or a negative interval keeps the job in
\* its loop.
Stuck == \E c \in Series :
           config[c].ob # 0 /\ (ob[config[c].ob].meta = Nothing \/ Backwards(config[c].plan))

IsDue(c) == /\ config[c].ob # 0 /\ config[c].auto
            /\ config[c].next # Nothing /\ config[c].next <= day

DueIsRolled == \A c \in Series : IsDue(c) ~> ~IsDue(c) \/ Stuck

\* The newest cycle of a series, unless that is due again already, is told to its
\* payer in the end, unless the broker failed or the worker died: the job ends, and
\* what it billed goes out.
Settled(c) == config[c].ob # 0 /\ (config[c].next = Nothing \/ config[c].next > day)

NewestIsTold ==
  []<>(\A c \in Series :
         Settled(c) /\ ob[config[c].ob].from # 0 =>
           \/ <<"created", config[c].ob>> \in BagToSet(told)
           \/ faults > 0 \/ c \in moved \/ Stuck)
=============================================================================
