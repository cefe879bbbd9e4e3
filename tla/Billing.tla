------------------------------- MODULE Billing -------------------------------
(***************************************************************************)
(* The subscription and the prepaid wallet of one tenant: plans, top-ups   *)
(* through Paystack, usage deductions, suspension and its grace period,    *)
(* trials, and the monthly invoice.  Written by three kinds of sessions    *)
(* that never lock a row: threads and the event loop of the API process,   *)
(* the worker's event loop, and the worker's scheduled jobs in threads.    *)
(*                                                                         *)
(* As in Reconciliation, a SELECT is a step that copies committed columns  *)
(* into the session, and a commit writes the columns the session changed.  *)
(* assert_active and get_or_create_trial have no caller; no code sets the  *)
(* status CANCELLED or clears is_auto_deduct_enabled.                      *)
(***************************************************************************)
EXTENDS Sums

CONSTANTS
  Slots,          \* database sessions open at a time
  Plans, Starter, \* subscription plans; the one that gives a welcome credit
  Minimum,        \* wallet_minimum_kes of a plan
  MonthlyFee,     \* monthly_fee_kes of a plan
  Fee,            \* notification_fee_kes or invoice_fee_kes
  Refs,           \* Paystack references whose payment succeeded
  TopupAmount,    \* what was paid under a reference
  Usages,         \* usage events
  TrialDays, GraceDays,
  MonthDays,      \* days between two invoices
  Nothing,        \* NULL
  MaxDay,         \* bound: days that pass
  MaxSubscribes,  \* bound: requests to subscribe
  MaxVerifies,    \* bound: verifications of a top-up, by the user or a webhook
  MaxCrashes      \* bound: process restarts

ASSUME BillingAssumption ==
  /\ Starter \in Plans
  /\ Minimum \in [Plans -> Nat] /\ MonthlyFee \in [Plans -> Nat]
  /\ Fee \in Nat
  /\ TopupAmount \in [Refs -> Nat \ {0}]
  /\ TrialDays \in Nat /\ GraceDays \in Nat /\ MonthDays \in Nat \ {0}
  /\ MaxDay \in Nat /\ MaxSubscribes \in Nat /\ MaxVerifies \in Nat
  /\ MaxCrashes \in Nat
  /\ Nothing \notin Int
  /\ IsFiniteSet(Slots) /\ IsFiniteSet(Refs)

Status == {"NONE", "TRIAL", "ACTIVE", "SUSPENDED", "BLOCKED"}
Date   == Int \cup {Nothing}

\* A row of tenant_subscriptions, "NONE" for no row: status, plan_id,
\* trial_ends_at, suspended_at, grace_ends_at and the usage counters.
SubRow == [status : Status, plan : Plans, trialEnds : Date, since : Date,
           graceEnds : Date, count : Int]

VARIABLES
  sub,        \* the tenant's subscription
  balance,    \* tenant_wallets.balance_kes
  credited,   \* number of TOPUP wallet transactions of each reference
  welcomes,   \* number of WELCOME_CREDIT wallet transactions
  fees,       \* total of the SUBSCRIPTION wallet transactions
  invoiced,   \* the periods with a PlatformInvoice
  billed,     \* usage those invoices list
  spent,      \* usage fees taken from the wallet (history: the code keeps none)
  pending,    \* deliveries of each usage event in the queue
  run,        \* what each session is doing, and what it has read
  day,
  subscribes, verifies, crashes    \* bounds

wallet == <<balance, credited, welcomes, fees, spent>>
paper  == <<invoiced, billed>>
bounds == <<subscribes, verifies, crashes>>
vars   == <<sub, wallet, paper, pending, run, day, bounds>>

\* A session: the step it is at, its job and what the job is about, a time or a
\* period it has noted, and the columns it has read.
Session ==
  [pc : {"idle", "grant", "subscribe", "paystack", "topupWallet", "topup",
         "usageWallet", "deduct", "recheck", "low", "suspend", "ack",
         "expire", "enforce", "invoice", "invoiced"},
   job : {"none", "subscribe", "verify", "usage", "expire", "enforce", "invoice"},
   arg : Plans \cup Refs \cup Usages \cup {Nothing},
   at : Nat, sub : SubRow \cup {Nothing}, balance : Date, counted : {0, 1}]

Begun(job, pc, arg, at, read) ==
  [pc |-> pc, job |-> job, arg |-> arg, at |-> at, sub |-> read,
   balance |-> Nothing, counted |-> 0]
Idle == Begun("none", "idle", Nothing, 0, Nothing)

TypeOK ==
  /\ sub \in SubRow
  /\ balance \in Int
  /\ credited \in [Refs -> Nat]
  /\ welcomes \in Nat /\ fees \in Nat /\ billed \in Int /\ spent \in Nat
  /\ invoiced \subseteq Nat
  /\ pending \in [Usages -> Nat]
  /\ run \in [Slots -> Session]
  /\ day \in 0..MaxDay

Init ==
  /\ sub = [status |-> "NONE", plan |-> Starter, trialEnds |-> Nothing,
            since |-> Nothing, graceEnds |-> Nothing, count |-> 0]
  /\ balance = 0
  /\ credited = [r \in Refs |-> 0]
  /\ welcomes = 0 /\ fees = 0 /\ spent = 0
  /\ invoiced = {} /\ billed = 0
  /\ pending = [u \in Usages |-> 1]
  /\ run = [s \in Slots |-> Idle]
  /\ day = 0
  /\ subscribes = 0 /\ verifies = 0 /\ crashes = 0

-----------------------------------------------------------------------------
\* The row after a session that read `read` commits `new` over `current`.
Flush(current, read, new) ==
  [f \in DOMAIN current |-> IF new[f] = read[f] THEN current[f] ELSE new[f]]

FlushValue(current, read, new) == IF new = read THEN current ELSE new

End(s) == run' = [run EXCEPT ![s] = Idle]

\* At most one instance of a scheduled job, and one usage handler: those run on
\* the worker's event loop without waiting.
Alone(job) == \A u \in Slots : run[u].job # job

-----------------------------------------------------------------------------
(* subscribe (a thread of the API process)                                 *)

Subscribe(s, p) ==
  /\ run[s] = Idle
  /\ subscribes < MaxSubscribes
  /\ subscribes' = subscribes + 1
  /\ run' = [run EXCEPT ![s] =
               Begun("subscribe", IF sub.status = "NONE" THEN "subscribe" ELSE "grant",
                     p, 0, sub)]
  /\ UNCHANGED <<sub, wallet, paper, pending, day, verifies, crashes>>

\* _check_and_grant_welcome_credit, as a session that looks now finds it.
Welcome(p) == IF p = Starter /\ welcomes = 0 THEN Minimum[p] ELSE 0

\* Read the wallet and decide on the welcome credit: `balance` holds what was
\* read, `counted` whether there is a credit to grant.
Grant(s) ==
  /\ run[s].pc = "grant"
  /\ run' = [run EXCEPT ![s].balance = balance,
                        ![s].counted = IF Welcome(run[s].arg) > 0 THEN 1 ELSE 0,
                        ![s].pc = "subscribe"]
  /\ UNCHANGED <<sub, wallet, paper, pending, day, bounds>>

\* The commit of an existing subscription's change of plan.
Switch(s) ==
  LET r == run[s] IN
  /\ r.pc = "subscribe"
  /\ r.sub.status # "NONE"
  /\ sub' = Flush(sub, r.sub,
                  [r.sub EXCEPT !.plan = r.arg,
                                !.status = IF @ \in {"TRIAL", "SUSPENDED"} THEN "ACTIVE"
                                           ELSE @])
  /\ balance' = IF r.counted = 1 THEN r.balance + Minimum[r.arg] ELSE balance
  /\ welcomes' = welcomes + r.counted
  /\ End(s)
  /\ UNCHANGED <<credited, fees, spent, paper, pending, day, bounds>>

\* The commit of a first subscription, a trial; the unique collection_id lets
\* one of two requests through.
CreateTrial(s) ==
  LET r == run[s] IN
  /\ r.pc = "subscribe"
  /\ r.sub.status = "NONE"
  /\ \/ /\ sub.status # "NONE"
        /\ UNCHANGED <<sub, balance, welcomes>>
     \/ /\ sub.status = "NONE"
        /\ sub' = [sub EXCEPT !.status = "TRIAL", !.plan = r.arg,
                              !.trialEnds = day + TrialDays]
        /\ balance' = Welcome(r.arg)
        /\ welcomes' = IF Welcome(r.arg) > 0 THEN 1 ELSE 0
  /\ End(s)
  /\ UNCHANGED <<credited, fees, spent, paper, pending, day, bounds>>

-----------------------------------------------------------------------------
(* verify_topup (the event loop of the API process): called by the user    *)
(* who returns from Paystack, and by Paystack's webhook                    *)

\* Mutant of Verify: no look at what has been credited.
VerifyAgain(s, ref) ==
  /\ run[s] = Idle
  /\ verifies < MaxVerifies
  /\ verifies' = verifies + 1
  /\ run' = [run EXCEPT ![s] = Begun("verify", "paystack", ref, 0, Nothing)]
  /\ UNCHANGED <<sub, wallet, paper, pending, day, subscribes, crashes>>

\* A reference that is credited is answered at once; otherwise ask Paystack.
Verify(s, ref) ==
  /\ run[s] = Idle
  /\ verifies < MaxVerifies
  /\ verifies' = verifies + 1
  /\ run' = IF credited[ref] > 0 THEN run
            ELSE [run EXCEPT ![s] = Begun("verify", "paystack", ref, 0, Nothing)]
  /\ UNCHANGED <<sub, wallet, paper, pending, day, subscribes, crashes>>

\* Paystack has answered, and from here to the commit nothing is awaited.  The
\* request ends if Paystack fails or there is no subscription.
Answered(s) ==
  /\ run[s].pc = "paystack"
  /\ \A u \in Slots : run[u].pc \notin {"topupWallet", "topup"}
  /\ \/ End(s)
     \/ /\ sub.status # "NONE"
        /\ run' = [run EXCEPT ![s].sub = sub, ![s].pc = "topupWallet"]
  /\ UNCHANGED <<sub, wallet, paper, pending, day, bounds>>

TopupWallet(s) ==
  /\ run[s].pc = "topupWallet"
  /\ run' = [run EXCEPT ![s].balance = balance, ![s].pc = "topup"]
  /\ UNCHANGED <<sub, wallet, paper, pending, day, bounds>>

\* Mutant of Topup: the balance is set to what was paid.
TopupReplaces(s) ==
  LET r == run[s] IN
  /\ r.pc = "topup"
  /\ balance' = TopupAmount[r.arg]
  /\ credited' = [credited EXCEPT ![r.arg] = @ + 1]
  /\ End(s)
  /\ UNCHANGED <<sub, welcomes, fees, spent, paper, pending, day, bounds>>

Topup(s) ==
  LET r   == run[s]
      new == r.balance + TopupAmount[r.arg]
  IN
  /\ r.pc = "topup"
  /\ balance' = new
  /\ credited' = [credited EXCEPT ![r.arg] = @ + 1]
  /\ sub' = IF r.sub.status = "SUSPENDED" /\ new >= Minimum[r.sub.plan]
            THEN Flush(sub, r.sub, [r.sub EXCEPT !.status = "ACTIVE", !.since = Nothing,
                                                 !.graceEnds = Nothing])
            ELSE sub
  /\ End(s)
  /\ UNCHANGED <<welcomes, fees, spent, paper, pending, day, bounds>>

-----------------------------------------------------------------------------
(* deduct_usage (the worker's event loop)                                  *)

Usage(s, u) ==
  /\ run[s] = Idle
  /\ Alone("usage")
  /\ pending[u] > 0
  /\ pending' = [pending EXCEPT ![u] = @ - 1]
  /\ run' = [run EXCEPT ![s] =
               Begun("usage", IF sub.status \in {"NONE", "BLOCKED"} THEN "ack"
                              ELSE "usageWallet", u, 0, sub)]
  /\ UNCHANGED <<sub, wallet, paper, day, bounds>>

\* With too little in the wallet nothing is deducted, and the counter raised in
\* the session is committed only by a suspension.
UsageWallet(s) ==
  LET r == run[s] IN
  /\ r.pc = "usageWallet"
  /\ run' = [run EXCEPT ![s].balance = balance, ![s].counted = 1,
               ![s].pc = IF balance >= Fee THEN "deduct"
                         ELSE IF balance < Minimum[r.sub.plan] /\ r.sub.status = "ACTIVE"
                         THEN "suspend" ELSE "ack"]
  /\ UNCHANGED <<sub, wallet, paper, pending, day, bounds>>

\* Mutants of Deduct: the counter is not raised; the fee is taken unseen.
DeductUncounted(s) ==
  LET r == run[s] IN
  /\ r.pc = "deduct"
  /\ balance' = FlushValue(balance, r.balance, r.balance - Fee)
  /\ spent' = spent + Fee
  /\ run' = [run EXCEPT ![s].pc = "recheck"]
  /\ UNCHANGED <<sub, credited, welcomes, fees, paper, pending, day, bounds>>
DeductCurrent(s) ==
  LET r == run[s] IN
  /\ r.pc = "deduct"
  /\ balance' = balance - Fee
  /\ sub' = Flush(sub, r.sub, [r.sub EXCEPT !.count = @ + 1])
  /\ spent' = spent + Fee
  /\ run' = [run EXCEPT ![s].pc = "recheck"]
  /\ UNCHANGED <<credited, welcomes, fees, paper, pending, day, bounds>>

Deduct(s) ==
  LET r == run[s] IN
  /\ r.pc = "deduct"
  /\ balance' = FlushValue(balance, r.balance, r.balance - Fee)
  /\ sub' = Flush(sub, r.sub, [r.sub EXCEPT !.count = @ + 1])
  /\ spent' = spent + Fee
  /\ run' = [run EXCEPT ![s].pc = "recheck", ![s].counted = 0]
  /\ UNCHANGED <<credited, welcomes, fees, paper, pending, day, bounds>>

\* _check_and_suspend after the commit reads the wallet again, and the
\* subscription if the wallet is low.
Recheck(s) ==
  LET r == run[s] IN
  /\ r.pc = "recheck"
  /\ run' = [run EXCEPT ![s].balance = balance,
                        ![s].pc = IF balance >= Minimum[r.sub.plan] THEN "ack" ELSE "low"]
  /\ UNCHANGED <<sub, wallet, paper, pending, day, bounds>>

Low(s) ==
  /\ run[s].pc = "low"
  /\ run' = [run EXCEPT ![s].sub = sub,
                        ![s].pc = IF sub.status = "ACTIVE" THEN "suspend" ELSE "ack"]
  /\ UNCHANGED <<sub, wallet, paper, pending, day, bounds>>

\* Mutant of Suspended: the deadline of an earlier suspension is kept.
SuspendedOnce(row, now) ==
  [row EXCEPT !.status = "SUSPENDED", !.since = now,
              !.graceEnds = IF @ = Nothing THEN now + GraceDays ELSE @]

\* A new suspension.  Two times are never equal, so both dates are written.
Suspended(row, now) ==
  [row EXCEPT !.status = "SUSPENDED", !.since = now, !.graceEnds = now + GraceDays]

Suspend(s) ==
  LET r == run[s] IN
  /\ r.pc = "suspend"
  /\ sub' = Suspended(Flush(sub, r.sub, [r.sub EXCEPT !.count = @ + r.counted]), day)
  /\ run' = [run EXCEPT ![s].pc = "ack"]
  /\ UNCHANGED <<wallet, paper, pending, day, bounds>>

Ack(s) ==
  /\ run[s].pc = "ack"
  /\ End(s)
  /\ UNCHANGED <<sub, wallet, paper, pending, day, bounds>>

-----------------------------------------------------------------------------
(* Scheduled jobs (threads of the worker)                                  *)

TrialOver == sub.status = "TRIAL" /\ sub.trialEnds <= day

\* Mutants of GraceOver: a tenant that has the minimum is spared; the deadline
\* is not looked at.
GraceOverUnfunded ==
  /\ sub.status = "SUSPENDED" /\ sub.graceEnds # Nothing
  /\ sub.graceEnds <= day /\ balance < Minimum[sub.plan]
GraceOver ==
  sub.status = "SUSPENDED" /\ sub.graceEnds # Nothing /\ sub.graceEnds <= day

\* A job notes the time, or the period, and reads the rows it is about.
Job(s, job, at) ==
  /\ run[s] = Idle
  /\ Alone(job)
  /\ run' = [run EXCEPT ![s] = Begun(job, job, Nothing, at, sub)]
  /\ UNCHANGED <<sub, wallet, paper, pending, day, bounds>>

ExpireTrials(s) == TrialOver /\ Job(s, "expire", day)
EnforceGrace(s) == GraceOver /\ Job(s, "enforce", day)

\* The first of a month, for the month before, unless it has its invoice.
Invoice(s) ==
  LET period == day \div MonthDays IN
  /\ day > 0 /\ day % MonthDays = 0
  /\ sub.status = "ACTIVE" /\ period \notin invoiced
  /\ Job(s, "invoice", period)

Expire(s) ==
  /\ run[s].pc = "expire"
  /\ sub' = Suspended(sub, run[s].at)
  /\ End(s)
  /\ UNCHANGED <<wallet, paper, pending, day, bounds>>

\* Mutant of Enforce: the subscription is cancelled instead.
EnforceCancels(s) ==
  /\ run[s].pc = "enforce"
  /\ sub' = [sub EXCEPT !.status = "CANCELLED"]
  /\ End(s)
  /\ UNCHANGED <<wallet, paper, pending, day, bounds>>

Enforce(s) ==
  /\ run[s].pc = "enforce"
  /\ sub' = [sub EXCEPT !.status = "BLOCKED"]
  /\ End(s)
  /\ UNCHANGED <<wallet, paper, pending, day, bounds>>

InvoiceWallet(s) ==
  /\ run[s].pc = "invoice"
  /\ run' = [run EXCEPT ![s].balance = balance, ![s].pc = "invoiced"]
  /\ UNCHANGED <<sub, wallet, paper, pending, day, bounds>>

\* The invoice, the fee if the wallet covers it, and the counter's reset.
Invoiced(s) ==
  LET r       == run[s]
      fee     == MonthlyFee[r.sub.plan]
      charged == IF r.balance >= fee THEN fee ELSE 0
  IN
  /\ r.pc = "invoiced"
  /\ invoiced' = invoiced \cup {r.at}
  /\ billed' = billed + r.sub.count
  /\ balance' = FlushValue(balance, r.balance, r.balance - charged)
  /\ fees' = fees + charged
  /\ sub' = Flush(sub, r.sub, [r.sub EXCEPT !.count = 0])
  /\ End(s)
  /\ UNCHANGED <<credited, welcomes, spent, pending, day, bounds>>

-----------------------------------------------------------------------------
Tick ==
  /\ day < MaxDay
  /\ day' = day + 1
  /\ UNCHANGED <<sub, wallet, paper, pending, run, bounds>>

\* A process dies with its sessions; the worker's messages are delivered again.
Crash(jobs) ==
  LET dead == {s \in Slots : run[s].job \in jobs} IN
  /\ crashes < MaxCrashes
  /\ crashes' = crashes + 1
  /\ dead # {}
  /\ run' = [s \in Slots |-> IF s \in dead THEN Idle ELSE run[s]]
  /\ pending' = [u \in Usages |->
       pending[u] + Cardinality({s \in dead : run[s].job = "usage" /\ run[s].arg = u})]
  /\ UNCHANGED <<sub, wallet, paper, day, subscribes, verifies>>

ApiCrash    == Crash({"subscribe", "verify"})
WorkerCrash == Crash({"usage", "expire", "enforce", "invoice"})

Step(s) ==
  \/ Grant(s) \/ Switch(s) \/ CreateTrial(s)
  \/ Answered(s) \/ TopupWallet(s) \/ Topup(s)
  \/ UsageWallet(s) \/ Deduct(s) \/ Recheck(s) \/ Low(s) \/ Suspend(s) \/ Ack(s)
  \/ Expire(s) \/ Enforce(s) \/ InvoiceWallet(s) \/ Invoiced(s)

Next ==
  \/ \E s \in Slots, p \in Plans : Subscribe(s, p)
  \/ \E s \in Slots, ref \in Refs : Verify(s, ref)
  \/ \E s \in Slots, u \in Usages : Usage(s, u)
  \/ \E s \in Slots : ExpireTrials(s) \/ EnforceGrace(s) \/ Invoice(s) \/ Step(s)
  \/ Tick \/ ApiCrash \/ WorkerCrash

Spec == Init /\ [][Next]_vars

\* Threads and event loops run every session that has started; the daily jobs
\* run on every day.  Requests, invoices and the passing of days are free.
Fairness ==
  /\ \A s \in Slots : WF_vars(Step(s))
  /\ SF_vars(\E s \in Slots : ExpireTrials(s))
  /\ SF_vars(\E s \in Slots : EnforceGrace(s))

FairSpec == Spec /\ Fairness

-----------------------------------------------------------------------------
(* With any number of sessions                                             *)

\* "Do not allow balance to go negative": fees and the monthly charge are each
\* taken from a balance that was read before, by several sessions at a time.
WalletNeverNegative == balance >= 0

\* "Idempotent - safe to call multiple times" (verify_topup): a payment is credited
\* once, by the user's return, by the webhook, and by their repeats.
TopupOnce == \A r \in Refs : credited[r] <= 1

\* A request that comes once a payment is credited does not credit it again: what is
\* credited more than once was being verified by several sessions at that time.
TopupByWaiting == \A r \in Refs : credited[r] <= Cardinality(Slots)

\* The "one-time" credit: changes of plan that come later give no second one, those
\* that overlap one for each session.
WelcomeByWaiting == welcomes <= Cardinality(Slots)

\* A suspended tenant has a deadline, whichever of a top-up, a deduction, the
\* trial job and a change of plan wrote the row's columns last.  Without one,
\* the daily job would never find the row.
SuspendedHasGrace == sub.status = "SUSPENDED" => sub.graceEnds # Nothing

\* A suspension past its deadline does not last: the tenant has paid, is
\* blocked, or a deduction that read the row before it was suspended has just
\* suspended it again, with a new deadline.
GraceOverEnds ==
  LET over == sub.status = "SUSPENDED" /\ sub.graceEnds \in Int /\ sub.graceEnds <= day
  IN over ~> ~over

-----------------------------------------------------------------------------
(* With one session at a time, and crashes between its steps               *)

\* The balance is what came in less what was taken: no top-up, credit, usage
\* fee or monthly fee is lost or counted twice.
BalanceExplained ==
  balance + spent + fees =
    SumOver([r \in Refs |-> credited[r] * TopupAmount[r]], Refs) + welcomes * Minimum[Starter]

\* Each usage fee taken from the wallet is on an invoice or still counted for
\* the next, also when events are delivered again and plans change.
UsageIsInvoiced == spent <= Fee * (billed + sub.count)

\* A tenant is blocked only after the whole grace period of the suspension that
\* is running: an earlier suspension, ended by a change of plan, leaves its
\* dates in the row.
FullGrace ==
  [][sub'.status = "BLOCKED" /\ sub.status # "BLOCKED"
       => sub.status = "SUSPENDED" /\ day >= sub.since + GraceDays]_vars
=============================================================================
