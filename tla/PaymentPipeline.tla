-------------------------- MODULE PaymentPipeline --------------------------
(***************************************************************************)
(* The path of a payment from the PSP's callback to its credit: the        *)
(* webhook gateway, the RabbitMQ queue "pesagrid-worker.worker", the       *)
(* worker's handlers, and the transactions table they share with the       *)
(* manual-entry endpoint of the API process.  One tenant (collection_id);  *)
(* the amounts, and the choice of the obligation, are in Reconciliation.   *)
(*                                                                         *)
(* Interleaving: one action per segment of a handler between two points    *)
(* where it waits (an await, a thread, a commit).  Delivery is merged with *)
(* the first read of the handler, since nothing is shared before it.  The  *)
(* SELECT and the INSERT of _store_transaction are two steps even between  *)
(* handlers of one event loop: what holds does not rest on there being one *)
(* worker process.                                                         *)
(***************************************************************************)
EXTENDS Naturals, FiniteSets

CONSTANTS
  Payments,       \* payments made by customers
  Callbacks,      \* callback deliveries of the PSPs (a PSP may repeat one), of
                  \* completed payments and in a shape the normalizers know
  Manuals,        \* requests to the manual-entry endpoint
  PaymentOf,      \* the payment a callback or a manual request reports
  RefOf,          \* the psp_ref it carries
  EmptyRef,       \* psp_ref = "": the callback has no reference field
  NullRef,        \* psp_ref = None: a manual entry without a reference
  Workers,        \* handler invocations the worker may run at a time
  MaxCrashes,     \* bound: process restarts (worker or API)
  MaxReconnects,  \* bound: broker connections lost while the worker lives
  MaxFailures     \* bound: publishes that raise

Sources == Callbacks \cup Manuals

\* A row takes the name of the callback or request that inserts it.
RowStatus == {"ABSENT", "RAW", "MANUAL", "UNMATCHED", "CATEGORIZED", "MATCHED"}
Outcome   == {"UNMATCHED", "CATEGORIZED", "MATCHED"}

\* Mutant of Closed: a MATCHED transaction is reconciled again.
ReopenMatched == {"CATEGORIZED"}

\* reconcile returns early on these.  (DUPLICATE is never assigned.)
Closed == {"CATEGORIZED", "MATCHED"}

\* Messages: a webhook.* event per callback; a payment.received event per
\* callback or manual request that publishes one.
Msg == {"webhook", "received"} \X Sources
Webhook(s)  == <<"webhook", s>>
Received(s) == <<"received", s>>

Stage == {"idle", "insert", "publish", "apply", "notify", "ack"}

(***************************************************************************)
(* The normalizers always give a callback some reference, the same one     *)
(* each time the PSP repeats the callback.                                 *)
(***************************************************************************)
ASSUME PipelineAssumption ==
  /\ Callbacks \cap Manuals = {}
  /\ PaymentOf \in [Sources -> Payments]
  /\ EmptyRef # NullRef
  /\ \A c \in Callbacks : RefOf[c] # NullRef
  /\ \A c, d \in Callbacks : PaymentOf[c] = PaymentOf[d] => RefOf[c] = RefOf[d]
  /\ MaxCrashes \in Nat /\ MaxReconnects \in Nat /\ MaxFailures \in Nat

VARIABLES
  answered,    \* callbacks the gateway has answered with HTTP 200
  broker,      \* state of every message in the queue
  row,         \* transactions.status of every row
  applied,     \* number of TransactionAllocation rows of every row
  notified,    \* outcomes for which an event about the row was published
  target,      \* the transaction_id a payment.received message carries
  stage,       \* where each handler invocation of the worker is
  held,        \* the message it handles
  seen,        \* the transaction status reconcile read
  live,        \* whether its channel still is the one it got the message on
  request,     \* progress of every manual-entry request
  crashes, reconnects, failures   \* faults so far

dbVars    == <<row, applied>>
taskVars  == <<stage, held, seen, live>>
faultVars == <<crashes, reconnects, failures>>
vars == <<answered, broker, dbVars, notified, target, taskVars, request,
          faultVars>>

TypeOK ==
  /\ answered \subseteq Callbacks
  /\ broker \in [Msg -> {"absent", "queued", "unacked", "acked"}]
  /\ row \in [Sources -> RowStatus]
  /\ applied \in [Sources -> Nat]
  /\ notified \in [Sources -> SUBSET Outcome]
  /\ target \in [Sources -> Sources]
  /\ stage \in [Workers -> Stage]
  /\ held \in [Workers -> Msg \cup {<<>>}]
  /\ seen \in [Workers -> RowStatus]
  /\ live \in [Workers -> BOOLEAN]
  /\ request \in [Manuals -> {"new", "insert", "publish", "done"}]
  /\ crashes \in 0..MaxCrashes
  /\ reconnects \in 0..MaxReconnects
  /\ failures \in 0..MaxFailures

Init ==
  /\ answered = {}
  /\ broker = [m \in Msg |-> "absent"]
  /\ row = [s \in Sources |-> "ABSENT"]
  /\ applied = [s \in Sources |-> 0]
  /\ notified = [s \in Sources |-> {}]
  /\ target = [s \in Sources |-> s]
  /\ stage = [w \in Workers |-> "idle"]
  /\ held = [w \in Workers |-> <<>>]
  /\ seen = [w \in Workers |-> "ABSENT"]
  /\ live = [w \in Workers |-> FALSE]
  /\ request = [m \in Manuals |-> "new"]
  /\ crashes = 0
  /\ reconnects = 0
  /\ failures = 0

-----------------------------------------------------------------------------
(* The transactions table                                                  *)

Stored == {s \in Sources : row[s] # "ABSENT"}

\* Mutant of Known: only transactions not yet reconciled are looked up.
KnownRaw(s) == {t \in Stored : RefOf[t] = RefOf[s] /\ row[t] = "RAW"}

\* Rows with the reference of s.
Known(s) == {t \in Stored : RefOf[t] = RefOf[s]}

\* The early check of _store_transaction: only for a reference that is truthy.
SeenBefore(s) == RefOf[s] \notin {EmptyRef, NullRef} /\ Known(s) # {}

\* uq_transaction_collection_psp_ref: NULLs are distinct, "" is not NULL.
Collides(s) == RefOf[s] # NullRef /\ Known(s) # {}

-----------------------------------------------------------------------------
(* The webhook gateway (API process)                                       *)

\* Answers 200 whether or not the event reached the broker.
Callback(c) ==
  /\ c \notin answered
  /\ answered' = answered \cup {c}
  /\ \/ /\ broker' = [broker EXCEPT ![Webhook(c)] = "queued"]
        /\ UNCHANGED failures
     \/ /\ failures < MaxFailures
        /\ failures' = failures + 1
        /\ UNCHANGED broker
  /\ UNCHANGED <<dbVars, notified, target, taskVars, request, crashes, reconnects>>

-----------------------------------------------------------------------------
(* The worker: handlers of webhook.* events                                *)

\* Mutant of Start: the queue is consumed with auto-ack.
StartAcked(w, m, st, status) ==
  /\ stage[w] = "idle"
  /\ broker[m] = "queued"
  /\ broker' = [broker EXCEPT ![m] = "acked"]
  /\ stage' = [stage EXCEPT ![w] = st]
  /\ held' = [held EXCEPT ![w] = m]
  /\ seen' = [seen EXCEPT ![w] = status]
  /\ live' = [live EXCEPT ![w] = TRUE]

Start(w, m, st, status) ==
  /\ stage[w] = "idle"
  /\ broker[m] = "queued"
  /\ broker' = [broker EXCEPT ![m] = "unacked"]
  /\ stage' = [stage EXCEPT ![w] = st]
  /\ held' = [held EXCEPT ![w] = m]
  /\ seen' = [seen EXCEPT ![w] = status]
  /\ live' = [live EXCEPT ![w] = TRUE]

\* Normalize and look the reference up.  A known one ends the handler:
\* ingest_normalized publishes only for a new row.
DeliverWebhook(w, c) ==
  /\ Start(w, Webhook(c), IF SeenBefore(c) THEN "ack" ELSE "insert", "ABSENT")
  /\ UNCHANGED <<answered, dbVars, notified, target, request, faultVars>>

\* Mutants of Insert: a status the enum does not have; no publish afterwards.
InsertAs(w, status, next) ==
  LET s == held[w][2] IN
  /\ stage[w] = "insert"
  /\ row' = IF Collides(s) THEN row ELSE [row EXCEPT ![s] = status]
  /\ stage' = [stage EXCEPT ![w] = IF Collides(s) THEN "ack" ELSE next]
  /\ UNCHANGED <<answered, broker, applied, notified, target, held, seen, live,
                 request, faultVars>>
InsertPending(w)   == InsertAs(w, "PENDING", "publish")
InsertNoPublish(w) == InsertAs(w, "RAW", "ack")

\* INSERT and commit; the unique constraint may raise, and the handler logs it.
Insert(w) ==
  LET s == held[w][2] IN
  /\ stage[w] = "insert"
  /\ \/ /\ Collides(s)
        /\ stage' = [stage EXCEPT ![w] = "ack"]
        /\ UNCHANGED row
     \/ /\ ~Collides(s)
        /\ row' = [row EXCEPT ![s] = "RAW"]
        /\ stage' = [stage EXCEPT ![w] = "publish"]
  /\ UNCHANGED <<answered, broker, applied, notified, target, held, seen, live,
                 request, faultVars>>

\* Publish payment.received for the row of s, or fail and go on.
SendReceived(s) ==
  \/ /\ broker' = [broker EXCEPT ![Received(s)] = "queued"]
     /\ UNCHANGED failures
  \/ /\ failures < MaxFailures
     /\ failures' = failures + 1
     /\ UNCHANGED broker

Publish(w) ==
  /\ stage[w] = "publish"
  /\ SendReceived(held[w][2])
  /\ stage' = [stage EXCEPT ![w] = "ack"]
  /\ UNCHANGED <<answered, dbVars, notified, target, held, seen, live, request,
                 crashes, reconnects>>

\* Every handler ends in an ack; one on a channel that was lost has no effect.
Ack(w) ==
  /\ stage[w] = "ack"
  /\ stage' = [stage EXCEPT ![w] = "idle"]
  /\ broker' = IF live[w] THEN [broker EXCEPT ![held[w]] = "acked"] ELSE broker
  /\ UNCHANGED <<answered, dbVars, notified, target, held, seen, live, request,
                 faultVars>>

-----------------------------------------------------------------------------
(* The worker: handle_payment_received                                     *)

\* Mutant of DeliverReceived: reconcile without its early return.
DeliverUnguarded(w, s) ==
  /\ Start(w, Received(s), "apply", row[target[s]])
  /\ UNCHANGED <<answered, dbVars, notified, target, request, faultVars>>

\* reconcile, in a thread, reads the transaction.  MATCHED and CATEGORIZED end
\* the handler without an event (force_notify is FALSE here).
DeliverReceived(w, s) ==
  /\ Start(w, Received(s),
           IF row[target[s]] \in Closed THEN "ack" ELSE "apply", row[target[s]])
  /\ UNCHANGED <<answered, dbVars, notified, target, request, faultVars>>

\* Mutant of Apply: a manual entry keeps its status.
ApplyKeepsManual(w) ==
  LET t == target[held[w][2]] IN
  /\ stage[w] = "apply"
  /\ \E o \in Outcome :
       /\ row' = IF seen[w] = "MANUAL" THEN row ELSE [row EXCEPT ![t] = o]
       /\ applied' = IF o = "MATCHED" THEN [applied EXCEPT ![t] = @ + 1] ELSE applied
       /\ seen' = [seen EXCEPT ![w] = o]
  /\ stage' = [stage EXCEPT ![w] = "notify"]
  /\ UNCHANGED <<answered, broker, notified, target, held, live, request, faultVars>>

\* reconcile commits: to a collection point, to an obligation with one more
\* allocation, or to neither, as the routing tables and the open obligations
\* say at that moment.  A status equal to the one read is not written.
Apply(w) ==
  LET t == target[held[w][2]] IN
  /\ stage[w] = "apply"
  /\ \E o \in Outcome :
       /\ row' = IF o = seen[w] THEN row ELSE [row EXCEPT ![t] = o]
       /\ applied' = IF o = "MATCHED" THEN [applied EXCEPT ![t] = @ + 1] ELSE applied
       /\ seen' = [seen EXCEPT ![w] = o]
  /\ stage' = [stage EXCEPT ![w] = "notify"]
  /\ UNCHANGED <<answered, broker, notified, target, held, live, request, faultVars>>

\* Mutant of Notify: the allocation is not looked up.
NotifyUnmatched(w) ==
  LET t == target[held[w][2]] IN
  /\ stage[w] = "notify"
  /\ notified' = [notified EXCEPT ![t] = @ \cup {"UNMATCHED"}]
  /\ stage' = [stage EXCEPT ![w] = "ack"]
  /\ UNCHANGED <<answered, broker, dbVars, target, held, seen, live, request,
                 faultVars>>

\* reconcile_transaction re-reads the row to choose the event (it has matched
\* an obligation or not); a publish that fails is logged and forgotten.
Notify(w) ==
  LET t     == target[held[w][2]]
      event == IF seen[w] = "CATEGORIZED" THEN "CATEGORIZED"
               ELSE IF applied[t] > 0 THEN "MATCHED" ELSE "UNMATCHED"
  IN
  /\ stage[w] = "notify"
  /\ \/ /\ notified' = [notified EXCEPT ![t] = @ \cup {event}]
        /\ UNCHANGED failures
     \/ /\ failures < MaxFailures
        /\ failures' = failures + 1
        /\ UNCHANGED notified
  /\ stage' = [stage EXCEPT ![w] = "ack"]
  /\ UNCHANGED <<answered, broker, dbVars, target, held, seen, live, request,
                 crashes, reconnects>>

-----------------------------------------------------------------------------
(* Manual entry (API process)                                              *)

\* A known reference gives the stored row, which is then published again.
ManualCheck(m) ==
  /\ request[m] = "new"
  /\ \/ /\ SeenBefore(m)
        /\ \E t \in Known(m) : target' = [target EXCEPT ![m] = t]
        /\ request' = [request EXCEPT ![m] = "publish"]
     \/ /\ ~SeenBefore(m)
        /\ request' = [request EXCEPT ![m] = "insert"]
        /\ UNCHANGED target
  /\ UNCHANGED <<answered, broker, dbVars, notified, taskVars, faultVars>>

ManualInsert(m) ==
  /\ request[m] = "insert"
  /\ \/ /\ Collides(m)
        /\ request' = [request EXCEPT ![m] = "done"]
        /\ UNCHANGED row
     \/ /\ ~Collides(m)
        /\ row' = [row EXCEPT ![m] = "MANUAL"]
        /\ request' = [request EXCEPT ![m] = "publish"]
  /\ UNCHANGED <<answered, broker, applied, notified, target, taskVars, faultVars>>

ManualPublish(m) ==
  /\ request[m] = "publish"
  /\ SendReceived(m)
  /\ request' = [request EXCEPT ![m] = "done"]
  /\ UNCHANGED <<answered, dbVars, notified, target, taskVars, crashes, reconnects>>

-----------------------------------------------------------------------------
(* Faults                                                                  *)

\* Deliveries without an ack go back to the queue.
Requeued == [m \in Msg |-> IF broker[m] = "unacked" THEN "queued" ELSE broker[m]]

\* The worker dies with all its handlers and open database transactions.
WorkerCrash ==
  /\ crashes < MaxCrashes
  /\ crashes' = crashes + 1
  /\ \E w \in Workers : stage[w] # "idle"
  /\ broker' = Requeued
  /\ stage' = [w \in Workers |-> "idle"]
  /\ UNCHANGED <<answered, dbVars, notified, target, held, seen, live, request,
                 reconnects, failures>>

\* The API process dies with the manual entries it is serving.
ApiCrash ==
  /\ crashes < MaxCrashes
  /\ crashes' = crashes + 1
  /\ \E m \in Manuals : request[m] \in {"insert", "publish"}
  /\ request' = [m \in Manuals |->
                   IF request[m] = "new" THEN "new" ELSE "done"]
  /\ UNCHANGED <<answered, broker, dbVars, notified, target, taskVars, reconnects,
                 failures>>

\* connect_robust replaces a lost connection under handlers that keep running:
\* their messages are queued again, and their acks are lost.
Reconnect ==
  /\ reconnects < MaxReconnects
  /\ reconnects' = reconnects + 1
  /\ \E w \in Workers : stage[w] # "idle"
  /\ broker' = Requeued
  /\ live' = [w \in Workers |-> FALSE]
  /\ UNCHANGED <<answered, dbVars, notified, target, stage, held, seen, request,
                 crashes, failures>>

-----------------------------------------------------------------------------
WebhookHandler(w) ==
  (\E c \in Callbacks : DeliverWebhook(w, c)) \/ Insert(w) \/ Publish(w)

ReceivedHandler(w) ==
  (\E s \in Sources : DeliverReceived(w, s)) \/ Apply(w) \/ Notify(w)

ManualEntry(m) == ManualCheck(m) \/ ManualInsert(m) \/ ManualPublish(m)

Next ==
  \/ \E c \in Callbacks : Callback(c)
  \/ \E w \in Workers : WebhookHandler(w) \/ ReceivedHandler(w) \/ Ack(w)
  \/ \E m \in Manuals : ManualEntry(m)
  \/ WorkerCrash \/ ApiCrash \/ Reconnect

Spec == Init /\ [][Next]_vars

(***************************************************************************)
(* The worker's event loop and thread pool run every handler that can      *)
(* move, and the broker keeps offering a queued message while a slot is    *)
(* free.  Callbacks, manual requests and faults need not happen; a request *)
(* in progress is run by the API's event loop.                             *)
(***************************************************************************)
Fairness ==
  /\ \A w \in Workers :
       /\ WF_vars(Insert(w))
       /\ WF_vars(Publish(w))
       /\ WF_vars(Apply(w))
       /\ WF_vars(Notify(w))
       /\ WF_vars(Ack(w))
  /\ \A c \in Callbacks : WF_vars(\E w \in Workers : DeliverWebhook(w, c))
  /\ \A s \in Sources : WF_vars(\E w \in Workers : DeliverReceived(w, s))
  /\ \A m \in Manuals : WF_vars(ManualInsert(m)) /\ WF_vars(ManualPublish(m))

FairSpec == Spec /\ Fairness

-----------------------------------------------------------------------------
(* Properties                                                              *)

(***************************************************************************)
(* A manual entry stands for a payment of its own: nothing else reports    *)
(* the payment, and nothing else carries its reference.                    *)
(***************************************************************************)
ManualsApart ==
  \A m \in Manuals, s \in Sources :
    s # m => /\ PaymentOf[s] # PaymentOf[m]
             /\ RefOf[m] \notin {EmptyRef, NullRef} => RefOf[s] # RefOf[m]

\* A payment is applied to an obligation at most once, over all the rows that
\* record it and all the deliveries that reconcile them: the retried webhooks,
\* the redeliveries after a crash and the two-step dedupe of _store_transaction
\* never add a second TransactionAllocation (reconciliation.reconcile).
CountedOnce ==
  \A s, t \in Sources :
    PaymentOf[s] = PaymentOf[t] /\ applied[s] > 0 /\ applied[t] > 0
      => s = t /\ applied[s] = 1

\* The status of a row tells where its money is: exactly the MATCHED rows have
\* an allocation (rollback_payment and the dashboards rely on the status).
StatusTellsAllocation ==
  \A s \in Sources : row[s] = "MATCHED" <=> applied[s] > 0

\* A reference is stored once per tenant, whoever wins the race between the
\* early check of _store_transaction and its INSERT.
OneRowPerReference ==
  \A s, t \in Stored : RefOf[s] = RefOf[t] /\ RefOf[s] # NullRef => s = t

\* The pipeline never takes a credit back: what is MATCHED or CATEGORIZED keeps
\* its status (a later delivery of the same transaction stops at the early
\* return of reconcile).
ClosedStays ==
  [][\A s \in Sources : row[s] \in Closed => row'[s] = row[s]]_vars

\* A payment whose callback reached the queue is stored, whatever crashes or
\* reconnections come between (the message is acked after the handler).
QueuedIsStored ==
  \A c \in Callbacks :
    broker[Webhook(c)] = "queued" ~> \E s \in Stored : PaymentOf[s] = PaymentOf[c]

Undisturbed == crashes = 0 /\ reconnects = 0 /\ failures = 0

\* mpesa_callback: "the worker picks it up asynchronously to normalize, ingest,
\* and reconcile": a payment whose callback reached the queue gets an outcome, as
\* long as nothing fails.  (One crash between the commit of a new row and the
\* publish of its event leaves the row RAW: the callback, delivered again, is a
\* known reference and publishes nothing.)
QueuedIsReconciled ==
  \A c \in Callbacks :
    broker[Webhook(c)] = "queued" ~>
      \/ \E s \in Stored : PaymentOf[s] = PaymentOf[c] /\ row[s] \in Outcome
      \/ ~Undisturbed

\* Whoever is matched is told: a MATCHED row gets its payment.matched or
\* payment.partial event (mvp.md, "Send acknowledgement after payment"), unless
\* its publish fails or the handler dies before it.
MatchedIsNotified ==
  \A s \in Sources : row[s] = "MATCHED" ~> "MATCHED" \in notified[s] \/ ~Undisturbed

(***************************************************************************)
(* The credits of the pipeline, as the abstract ledger sees them.          *)
(***************************************************************************)
Credits ==
  (UNION {{<<s, n>> : n \in 1..applied[s]} : s \in Sources})
    \cup {<<s, 0>> : s \in {t \in Sources : row[t] = "CATEGORIZED"}}

Ledger == INSTANCE PaymentLedger WITH Rows <- Sources, ledger <- Credits

\* The pipeline implements the ledger: every step credits at most one payment
\* that had no credit, and takes none back.
CreditsOnce == Ledger!Spec
=============================================================================
