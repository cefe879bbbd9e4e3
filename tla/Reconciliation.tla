--------------------------- MODULE Reconciliation ---------------------------
(***************************************************************************)
(* Where the money of a transaction goes: ReconciliationService (reconcile *)
(* in a thread per payment.received event, manual_match_transaction on the *)
(* event loop), and the two operations of the API process that write the   *)
(* same rows, create_obligation with its credit and cancel_obligation.     *)
(*                                                                         *)
(* The database runs at READ COMMITTED and no row is locked: every SELECT  *)
(* is an action of its own that reads committed rows, and every commit     *)
(* writes, of the rows the session changed, the columns whose new value    *)
(* differs from the value it read (operator Flush).                        *)
(***************************************************************************)
EXTENDS Integers, FiniteSets, Sums

CONSTANTS
  Txns, Obs, Payers,
  Slots,        \* database sessions open at a time
  Nothing,      \* NULL
  Amount,       \* amount of a transaction
  Due,          \* amount_due of an obligation
  PayerOf,      \* payer of an obligation
  Rank,         \* order by due_date, created_at
  Existing,     \* obligations there are at the start
  Legacy,       \* obligation a transaction was matched with before the table of
                \* allocations existed, or Nothing
  RoutesTo,     \* what the reference of a transaction may name:
                \* payers, "cp" (a collection point) or "nobody"
  Targets,      \* what a user may match a transaction with
  MaxMatches,   \* bound: manual matches requested
  MaxRepeats,   \* bound: payment.received events beyond the first of each
  MaxCrashes    \* bound: worker restarts

Open   == {"PENDING", "PARTIAL"}
Closed == {"MATCHED", "CATEGORIZED"}

TxnRow == [status : {"RAW", "UNMATCHED"} \cup Closed, ob : Obs \cup {Nothing},
           cp : BOOLEAN]
ObRow  == [status : {"ABSENT", "SETTLED", "VOIDED"} \cup Open, paid : Int,
           balance : Int]
Allocation == [id : Nat, txn : Txns, ob : Obs, payer : Payers, applied : Int,
               credited : Int]

ASSUME ReconciliationAssumption ==
  /\ IsFiniteSet(Txns) /\ IsFiniteSet(Obs) /\ IsFiniteSet(Payers) /\ IsFiniteSet(Slots)
  /\ Amount \in [Txns -> Nat \ {0}]
  /\ Due \in [Obs -> Nat \ {0}]
  /\ PayerOf \in [Obs -> Payers]
  /\ Rank \in [Obs -> Nat] /\ \A o, u \in Obs : Rank[o] = Rank[u] => o = u
  /\ Existing \subseteq Obs
  /\ Legacy \in [Txns -> Existing \cup {Nothing}]
  /\ \A t, u \in Txns : Legacy[t] = Legacy[u] /\ Legacy[t] # Nothing => t = u
  /\ RoutesTo \in [Txns -> SUBSET (Payers \cup {"cp", "nobody"})]
  /\ Targets \subseteq Obs \cup {"cp", Nothing}
  /\ Nothing \notin Obs \cup Payers \cup Txns

VARIABLES
  txn,       \* ingestion.transactions
  ob,        \* obligations.obligations
  credit,    \* payers.credit_balance
  alloc,     \* ingestion.transaction_allocations
  run,       \* what each session is doing, and what it has read
  pending,   \* payment.received events in the queue, for each transaction
  asked,     \* payment.manual_match events in the queue
  matches, repeats, crashes    \* bounds

db   == <<txn, ob, credit, alloc>>
bus  == <<pending, asked, matches, repeats, crashes>>
vars == <<db, run, bus>>

\* A session: the step it is at, and the rows as it read them.  A worker's
\* session holds the message it handles until it is "done" and acks.
Idle == [pc |-> "idle", job |-> "none", txn |-> Nothing, row |-> Nothing,
         ask |-> Nothing, to |-> Nothing, obRow |-> Nothing, credit |-> Nothing,
         undo |-> Nothing]

Session == [pc  : {"idle", "route", "pick", "unmatched", "categorized", "apply", "undo",
                   "undoPayer", "undone", "target", "overflow", "again", "done", "create"},
            job : {"none", "reconcile", "match", "forced", "create"},
            txn : Txns \cup {Nothing}, row : TxnRow \cup {Nothing},
            ask : Targets \cup {Nothing}, to : Obs \cup Payers \cup {Nothing},
            obRow : ObRow \cup {Nothing}, credit : Int \cup {Nothing},
            undo : Allocation \cup {Nothing}]

TypeOK ==
  /\ txn \in [Txns -> TxnRow]
  /\ ob \in [Obs -> ObRow]
  /\ credit \in [Payers -> Int]
  /\ \A a \in alloc : a \in Allocation
  /\ run \in [Slots -> Session]
  /\ pending \in [Txns -> Nat]
  /\ asked \subseteq Txns \X Targets

\* Mutant of AfterPayment: the status the tests still expect.
AfterPaymentPaid(o, row, applied) ==
  LET paid == row.paid + applied
      left == Due[o] - paid
  IN  IF left <= 0 THEN [status |-> "PAID", paid |-> paid, balance |-> 0]
                   ELSE [status |-> "PARTIAL", paid |-> paid, balance |-> left]

\* The row of an obligation, as read, after a payment is applied to it.
AfterPayment(o, row, applied) ==
  LET paid == row.paid + applied
      left == Due[o] - paid
  IN  IF left <= 0 THEN [status |-> "SETTLED", paid |-> paid, balance |-> 0]
                   ELSE [status |-> "PARTIAL", paid |-> paid, balance |-> left]

NewRow(o) == [status |-> "PENDING", paid |-> 0, balance |-> Due[o]]

Init ==
  /\ txn = [t \in Txns |->
              [status |-> IF Legacy[t] = Nothing THEN "RAW" ELSE "MATCHED",
               ob |-> Legacy[t], cp |-> FALSE]]
  /\ ob = [o \in Obs |->
             IF o \notin Existing THEN [status |-> "ABSENT", paid |-> 0, balance |-> 0]
             ELSE IF \E t \in Txns : Legacy[t] = o
             THEN AfterPayment(o, NewRow(o), Amount[CHOOSE t \in Txns : Legacy[t] = o])
             ELSE NewRow(o)]
  /\ credit = [p \in Payers |-> 0]
  /\ alloc = {}
  /\ run = [s \in Slots |-> Idle]
  /\ pending = [t \in Txns |-> IF Legacy[t] = Nothing THEN 1 ELSE 0]
  /\ asked = {}
  /\ matches = 0 /\ repeats = 0 /\ crashes = 0

-----------------------------------------------------------------------------
(* The ORM                                                                 *)

\* The row after a session that read `read` commits `new` over `current`.
Flush(current, read, new) ==
  [f \in DOMAIN current |-> IF new[f] = read[f] THEN current[f] ELSE new[f]]

FlushValue(current, read, new) == IF new = read THEN current ELSE new

\* A primary key no allocation has.
FreshId == CHOOSE i \in 1..(Cardinality(alloc) + 1) : \A a \in alloc : a.id # i

Goto(s, pc) == run' = [run EXCEPT ![s].pc = pc]

-----------------------------------------------------------------------------
(* reconcile                                                               *)

\* The obligation _find_best_obligation picks for the payer: an exact PENDING
\* one, else one the amount fits in, else any; the oldest of those.
Oldest(S) == CHOOSE o \in S : \A u \in S : Rank[o] <= Rank[u]

OpenOf(p) == {o \in Obs : PayerOf[o] = p /\ ob[o].status \in Open}

Best(p, amount) ==
  LET exact == {o \in OpenOf(p) : ob[o].status = "PENDING" /\ ob[o].balance = amount}
      fits  == {o \in OpenOf(p) : ob[o].balance >= amount}
  IN  IF exact # {} THEN Oldest(exact)
      ELSE IF fits # {} THEN Oldest(fits) ELSE Oldest(OpenOf(p))

\* Read the transaction; a MATCHED or CATEGORIZED one ends the run.
Reconcile(s, t) ==
  /\ run[s] = Idle
  /\ pending[t] > 0
  /\ pending' = [pending EXCEPT ![t] = @ - 1]
  /\ run' = [run EXCEPT ![s] =
               [Idle EXCEPT !.job = "reconcile", !.txn = t, !.row = txn[t],
                            !.pc = IF txn[t].status \in Closed THEN "done" ELSE "route"]]
  /\ UNCHANGED <<db, asked, matches, repeats, crashes>>

\* Look the reference up; a payer is read with its credit_balance.
Route(s) ==
  /\ run[s].pc = "route"
  /\ \E dest \in RoutesTo[run[s].txn] :
       run' = [run EXCEPT ![s] =
                 IF dest = "cp" THEN [@ EXCEPT !.pc = "categorized"]
                 ELSE IF dest = "nobody" THEN [@ EXCEPT !.pc = "unmatched"]
                 ELSE [@ EXCEPT !.pc = "pick", !.to = dest, !.credit = credit[dest]]]
  /\ UNCHANGED <<db, bus>>

\* One SELECT reads the open obligations, and so the one picked.
Pick(s) ==
  LET p == run[s].to
      o == Best(p, Amount[run[s].txn])
  IN
  /\ run[s].pc = "pick"
  /\ run' = [run EXCEPT ![s] =
               IF OpenOf(p) = {} THEN [@ EXCEPT !.pc = "unmatched"]
               ELSE [@ EXCEPT !.pc = "apply", !.to = o, !.obRow = ob[o]]]
  /\ UNCHANGED <<db, bus>>

Unmatched(s) ==
  LET r == run[s] IN
  /\ r.pc = "unmatched"
  /\ txn' = [txn EXCEPT ![r.txn] =
               Flush(@, r.row, [r.row EXCEPT !.status = "UNMATCHED"])]
  /\ Goto(s, "done")
  /\ UNCHANGED <<ob, credit, alloc, bus>>

\* What follows the commit of a match: a manual one runs reconcile again, for
\* its notifications.
Committed(s) == Goto(s, IF run[s].job = "match" THEN "again" ELSE "done")

\* The commit of _apply_payment, for reconcile and for a manual match.
Apply(s) ==
  LET r        == run[s]
      o        == r.to
      overflow == IF Amount[r.txn] > r.obRow.balance
                  THEN Amount[r.txn] - r.obRow.balance ELSE 0
      applied  == Amount[r.txn] - overflow
  IN
  /\ r.pc = "apply"
  /\ ob' = [ob EXCEPT ![o] = Flush(@, r.obRow, AfterPayment(o, r.obRow, applied))]
  /\ credit' = IF overflow = 0 THEN credit
               ELSE [credit EXCEPT ![PayerOf[o]] = r.credit + overflow]
  /\ txn' = [txn EXCEPT ![r.txn] =
               Flush(@, r.row, [r.row EXCEPT !.status = "MATCHED", !.ob = o])]
  /\ alloc' = alloc \cup {[id |-> FreshId, txn |-> r.txn, ob |-> o,
                           payer |-> PayerOf[o], applied |-> applied,
                           credited |-> overflow]}
  /\ Committed(s)
  /\ UNCHANGED bus

\* The link to a collection point, by either.
Categorized(s) ==
  LET r == run[s] IN
  /\ r.pc = "categorized"
  /\ txn' = [txn EXCEPT ![r.txn].status = "CATEGORIZED", ![r.txn].cp = TRUE]
  /\ Committed(s)
  /\ UNCHANGED <<ob, credit, alloc, bus>>

-----------------------------------------------------------------------------
(* manual_match_transaction                                                *)

\* POST /transactions/{id}/match only queues the request.
Ask(t, to) ==
  /\ matches < MaxMatches
  /\ matches' = matches + 1
  /\ asked' = asked \cup {<<t, to>>}
  /\ UNCHANGED <<db, run, pending, repeats, crashes>>

\* Mutants of Match: no rollback first; nothing done when there is nothing to
\* roll back.
MatchFrom(s, t, to, closed, open) ==
  /\ run[s] = Idle
  /\ \A u \in Slots : run[u].job # "match" \/ run[u].pc \in {"again", "done"}
  /\ <<t, to>> \in asked
  /\ asked' = asked \ {<<t, to>>}
  /\ run' = [run EXCEPT ![s] =
               [Idle EXCEPT !.job = "match", !.txn = t, !.row = txn[t], !.ask = to,
                            !.pc = IF txn[t].status \in Closed THEN closed ELSE open]]
  /\ UNCHANGED <<db, pending, matches, repeats, crashes>>
MatchWithoutUndo(s, t, to) == MatchFrom(s, t, to, "target", "target")
MatchOnlyMatched(s, t, to) == MatchFrom(s, t, to, "undo", "done")

\* The handler runs on the event loop, so one match is made at a time; it reads
\* the transaction, to roll it back first when it has been matched.
Match(s, t, to) ==
  /\ run[s] = Idle
  /\ \A u \in Slots : run[u].job # "match" \/ run[u].pc \in {"again", "done"}
  /\ <<t, to>> \in asked
  /\ asked' = asked \ {<<t, to>>}
  /\ run' = [run EXCEPT ![s] =
               [Idle EXCEPT !.job = "match", !.txn = t, !.row = txn[t], !.ask = to,
                            !.pc = IF txn[t].status \in Closed THEN "undo" ELSE "target"]]
  /\ UNCHANGED <<db, pending, matches, repeats, crashes>>

\* rollback_payment reads the allocation (any one, were there several) and its
\* obligation; a CATEGORIZED transaction only loses its link.
Undo(s) ==
  LET r == run[s] IN
  /\ r.pc = "undo"
  /\ \/ /\ r.row.status = "MATCHED"
        /\ \E a \in {x \in alloc : x.txn = r.txn} :
             run' = [run EXCEPT ![s].undo = a, ![s].obRow = ob[a.ob],
                                ![s].pc = IF a.credited > 0 THEN "undoPayer" ELSE "undone"]
        /\ UNCHANGED txn
     \/ /\ r.row.status = "MATCHED"
        /\ {x \in alloc : x.txn = r.txn} = {}
        /\ txn' = [txn EXCEPT ![r.txn] =
                     Flush(@, r.row, [r.row EXCEPT !.ob = Nothing, !.status = "UNMATCHED"])]
        /\ Goto(s, "target")
     \/ /\ r.row.status = "CATEGORIZED"
        /\ txn' = [txn EXCEPT ![r.txn] =
                     Flush(@, r.row, [r.row EXCEPT !.cp = FALSE, !.status = "UNMATCHED"])]
        /\ Goto(s, "target")
  /\ UNCHANGED <<ob, credit, alloc, bus>>

UndoPayer(s) ==
  /\ run[s].pc = "undoPayer"
  /\ run' = [run EXCEPT ![s].credit = credit[run[s].undo.payer], ![s].pc = "undone"]
  /\ UNCHANGED <<db, bus>>

\* Mutants of AfterUndo: amount_paid not reversed; the balance not computed
\* again; the obligation reset.
UndoKeepsPaid(o, row, applied)    == [row EXCEPT !.status = "PARTIAL"]
UndoKeepsBalance(o, row, applied) == [row EXCEPT !.paid = @ - applied]
UndoResets(o, row, applied) ==
  [status |-> "PENDING", paid |-> 0, balance |-> Due[o]]

\* The commit of rollback_payment.
AfterUndo(o, row, applied) ==
  LET paid == row.paid - applied IN
  [status  |-> IF paid <= 0 THEN "PENDING" ELSE "PARTIAL",
   paid    |-> IF paid <= 0 THEN 0 ELSE paid,
   balance |-> Due[o] - paid]

Undone(s) ==
  LET r == run[s]
      a == r.undo
  IN
  /\ r.pc = "undone"
  /\ ob' = [ob EXCEPT ![a.ob] = Flush(@, r.obRow, AfterUndo(a.ob, r.obRow, a.applied))]
  /\ credit' = IF a.credited = 0 THEN credit
               ELSE [credit EXCEPT ![a.payer] = r.credit - a.credited]
  /\ alloc' = alloc \ {a}
  /\ txn' = [txn EXCEPT ![r.txn] =
               Flush(@, r.row, [r.row EXCEPT !.ob = Nothing, !.status = "UNMATCHED"])]
  /\ Goto(s, "target")
  /\ UNCHANGED bus

\* The new target: an obligation, whatever its status, is read together with
\* the transaction, which the rollback's commit has expired.
Target(s) ==
  LET r == run[s] IN
  /\ r.pc = "target"
  /\ \/ r.ask = "cp" /\ Goto(s, "categorized")
     \/ r.ask = Nothing /\ Goto(s, "again")
     \/ /\ r.ask \in Obs
        /\ ob[r.ask].status = "ABSENT"
        /\ Goto(s, "done")
     \/ /\ r.ask \in Obs
        /\ ob[r.ask].status # "ABSENT"
        /\ run' = [run EXCEPT
                     ![s].row = IF r.row.status \in Closed THEN txn[r.txn] ELSE @,
                     ![s].to = r.ask, ![s].obRow = ob[r.ask],
                     ![s].pc = IF Amount[r.txn] > ob[r.ask].balance THEN "overflow"
                               ELSE "apply"]
  /\ UNCHANGED <<db, bus>>

\* An overflow makes _apply_payment load the payer.
Overflow(s) ==
  /\ run[s].pc = "overflow"
  /\ run' = [run EXCEPT ![s].credit = credit[PayerOf[run[s].to]], ![s].pc = "apply"]
  /\ UNCHANGED <<db, bus>>

\* The forced reconcile, in a thread: it matches a transaction that was left
\* without a target.
Again(s) ==
  LET t == run[s].txn IN
  /\ run[s].pc = "again"
  /\ run' = [run EXCEPT ![s].job = "forced", ![s].row = txn[t],
                        ![s].pc = IF txn[t].status \in Closed THEN "done" ELSE "route"]
  /\ UNCHANGED <<db, bus>>

\* The handler is over, and its message acked.
Done(s) ==
  /\ run[s].pc = "done"
  /\ run' = [run EXCEPT ![s] = Idle]
  /\ UNCHANGED <<db, bus>>

-----------------------------------------------------------------------------
(* The API process                                                         *)

\* create_obligation reads the payer ...
Create(s, o) ==
  /\ run[s] = Idle
  /\ ob[o].status = "ABSENT"
  /\ \A u \in Slots : run[u].job # "create"
  /\ run' = [run EXCEPT ![s] = [Idle EXCEPT !.job = "create", !.pc = "create", !.to = o,
                                            !.credit = credit[PayerOf[o]]]]
  /\ UNCHANGED <<db, bus>>

\* ... and commits the obligation with the credit apply_credit_to_obligation
\* took off the payer.
Created(s) ==
  LET r     == run[s]
      o     == r.to
      usage == IF r.credit <= 0 THEN 0
               ELSE IF r.credit < Due[o] THEN r.credit ELSE Due[o]
  IN
  /\ r.pc = "create"
  /\ ob' = [ob EXCEPT ![o] =
              [status  |-> IF usage = Due[o] THEN "SETTLED"
                           ELSE IF usage > 0 THEN "PARTIAL" ELSE "PENDING",
               paid    |-> usage,
               balance |-> Due[o] - usage]]
  /\ credit' = [credit EXCEPT ![PayerOf[o]] = FlushValue(@, r.credit, r.credit - usage)]
  /\ run' = [run EXCEPT ![s] = Idle]
  /\ UNCHANGED <<txn, alloc, bus>>

\* cancel_obligation; what it has read matters only for its guard.
Cancel(o) ==
  /\ ob[o].status \in Open \cup {"SETTLED"}
  /\ ob' = [ob EXCEPT ![o].status = "VOIDED"]
  /\ UNCHANGED <<txn, credit, alloc, run, bus>>

-----------------------------------------------------------------------------
(* Faults                                                                  *)

\* A payment.received event is repeated: a manual entry of a known reference.
Repeat(t) ==
  /\ repeats < MaxRepeats
  /\ repeats' = repeats + 1
  /\ pending' = [pending EXCEPT ![t] = @ + 1]
  /\ UNCHANGED <<db, run, asked, matches, crashes>>

\* The worker dies: its sessions roll back and its messages are redelivered.
WorkerCrash ==
  LET On(t)  == {s \in Slots : run[s].job = "reconcile" /\ run[s].txn = t}
      Asking == {s \in Slots : run[s].job \in {"match", "forced"}}
  IN
  /\ crashes < MaxCrashes
  /\ crashes' = crashes + 1
  /\ \E s \in Slots : run[s].job \notin {"none", "create"}
  /\ pending' = [t \in Txns |-> pending[t] + Cardinality(On(t))]
  /\ asked' = asked \cup {<<run[s].txn, run[s].ask>> : s \in Asking}
  /\ run' = [s \in Slots |-> IF run[s].job = "create" THEN run[s] ELSE Idle]
  /\ UNCHANGED <<db, matches, repeats>>

-----------------------------------------------------------------------------
\* The steps of a session that has started.
Step(s) ==
  \/ Route(s) \/ Pick(s) \/ Unmatched(s) \/ Apply(s) \/ Categorized(s)
  \/ Undo(s) \/ UndoPayer(s) \/ Undone(s) \/ Target(s) \/ Overflow(s) \/ Again(s)
  \/ Done(s) \/ Created(s)

Next ==
  \/ \E s \in Slots, t \in Txns : Reconcile(s, t)
  \/ \E s \in Slots, t \in Txns, to \in Targets : Match(s, t, to)
  \/ \E s \in Slots, o \in Obs : Create(s, o)
  \/ \E s \in Slots : Step(s)
  \/ \E t \in Txns, to \in Targets : Ask(t, to)
  \/ \E o \in Obs : Cancel(o)
  \/ \E t \in Txns : Repeat(t)
  \/ WorkerCrash

Spec == Init /\ [][Next]_vars

\* Threads and event loop run every session that has started, and the broker
\* keeps delivering what is queued.
Fairness ==
  /\ \A s \in Slots : WF_vars(Step(s))
  /\ WF_vars(\E s \in Slots, t \in Txns : Reconcile(s, t))
  /\ WF_vars(\E s \in Slots, t \in Txns, to \in Targets : Match(s, t, to))

FairSpec == Spec /\ Fairness

-----------------------------------------------------------------------------
(* Properties                                                              *)

AllocationsOf(t) == {a \in alloc : a.txn = t}
Allocated(o)     == SumOver([a \in alloc |-> a.applied], {a \in alloc : a.ob = o})

\* Matched before the table of allocations existed, and not rolled back since.
Unrecorded(t) ==
  /\ Legacy[t] # Nothing
  /\ txn[t].status = "MATCHED" /\ txn[t].ob = Legacy[t] /\ AllocationsOf(t) = {}

\* No money is made or lost: what the obligations have received and the payers
\* hold as credit is what the MATCHED transactions brought (_apply_payment,
\* rollback_payment and apply_credit_to_obligation, one after the other), and what
\* those brought that had no allocation to roll back.
MoneyConserved ==
  SumOver([o \in Obs |-> ob[o].paid], Obs) + SumOver(credit, Payers)
    = SumOver(Amount, {t \in Txns : txn[t].status = "MATCHED"})
        + SumOver(Amount, {t \in Txns : Legacy[t] # Nothing /\ ~Unrecorded(t)})

\* The allocation behind a match: a MATCHED transaction has exactly one, on the
\* obligation the transaction names, for the whole amount; any other
\* transaction has none, and only a CATEGORIZED one has a collection point.
MatchIsAllocated ==
  \A t \in Txns :
    /\ (txn[t].status = "CATEGORIZED") <=> txn[t].cp
    /\ IF txn[t].status = "MATCHED"
       THEN \/ Unrecorded(t)
            \/ \E a \in alloc : /\ AllocationsOf(t) = {a} /\ a.ob = txn[t].ob
                                /\ a.applied >= 0 /\ a.credited >= 0
                                /\ a.applied + a.credited = Amount[t]
       ELSE AllocationsOf(t) = {} /\ txn[t].ob = Nothing

\* The books of an obligation: the balance is what is left of the amount due,
\* never negative, everything allocated to it has been paid to it, and the status
\* says whether something, or all of it, was paid.
BooksAgree ==
  \A o \in Obs :
    ob[o].status # "ABSENT" =>
      /\ ob[o].balance = Due[o] - ob[o].paid /\ ob[o].balance >= 0
      /\ ob[o].paid >= Allocated(o)
      /\ ob[o].status = "SETTLED" => ob[o].balance = 0
      /\ ob[o].status = "PARTIAL" => ob[o].paid > 0
      /\ ob[o].status = "PENDING" => ob[o].paid = 0

\* What was paid to an obligation leaves it only with an allocation that is
\* rolled back, for exactly its amount.
PaidLeavesWithAllocation ==
  [][\A o \in Obs :
       ob'[o].paid < ob[o].paid =>
         \E a \in alloc \ alloc' : a.ob = o /\ ob[o].paid - ob'[o].paid = a.applied]_vars

\* A manual match in the queue is carried out, whatever crash comes between the
\* rollback of the old match and the new one.
MatchIsMade ==
  \A t \in Txns, o \in Obs \cap Targets :
    <<t, o>> \in asked /\ ob[o].status # "ABSENT"
      ~> txn[t].status = "MATCHED" /\ txn[t].ob = o

\* TransactionAllocation "tracks exactly how much of a single payment was
\* applied to an obligation" (models.py): it was paid to the obligation.
AllocatedIsPaid ==
  \A o \in Obs :
    ob[o].paid >= Allocated(o)
=============================================================================
