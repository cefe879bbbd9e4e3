---------------------------- MODULE Notifications ----------------------------
(***************************************************************************)
(* What the worker sends: the handlers of the payment, obligation, config, *)
(* wallet and auth events, the dispatcher that finds a template, sends and *)
(* writes a notification_logs row, and the usage events that charge the    *)
(* business.  Every handler swallows what goes wrong and is acknowledged;  *)
(* a crash or a lost connection before that delivers its event again.      *)
(*                                                                         *)
(* A handler is a list of calls to the SMS and e-mail providers, and each  *)
(* call is an await: other handlers, a crash, or a request that changes a  *)
(* template or the preferences may come between it and the row.            *)
(***************************************************************************)
EXTENDS Integers, Sequences, FiniteSets

CONSTANTS
  Events,        \* events in the queue of the worker
  Payloads,      \* what an event may say: its kind and its contacts
  Slots,         \* handlers the worker runs at a time
  OwnerContacts, \* channels the business profile has a contact for
  Drafts,        \* templates a request may create
  Existing,      \* templates the business has to begin with
  Preferences,   \* values of the payment notification preferences
  Nothing,       \* NULL
  MaxRequests,   \* bound: requests that change templates or preferences
  MaxFaults      \* bound: crashes, lost connections, failed rows and publishes

Channels == {"sms", "email"}
Payment  == {"payment.matched", "payment.partial", "payment.unmatched", "payment.categorized"}
\* An obligation.due event of reminder_type "overdue" goes by obligation.overdue here.
ToPayer  == Payment \cup {"obligation.created", "obligation.due", "obligation.overdue",
                          "obligation.cancelled"}
Config   == {"config.psp.created", "config.psp.deleted", "config.collection_point.created"}
Topup    == {"billing.wallet.topup_success"}
Auth     == {"auth.welcome", "auth.password_reset", "auth.mfa_request"}
Kinds    == ToPayer \cup Config \cup Topup \cup Auth

\* "primary" is the auth_type of an account.
Payload == [kind : Kinds, contacts : SUBSET Channels, primary : Channels \cup {Nothing}]

ASSUME NotificationsAssumption ==
  /\ IsFiniteSet(Events) /\ IsFiniteSet(Slots) /\ Payloads \subseteq Payload
  /\ OwnerContacts \subseteq Channels
  /\ Preferences \subseteq [on : BOOLEAN, channels : SUBSET Channels]
  /\ MaxRequests \in Nat /\ MaxFaults \in Nat

VARIABLES
  event,      \* what each event says
  keyed,      \* RESEND_API_KEY is set
  queue,      \* events waiting in the queue
  acked,      \* events acknowledged
  job,        \* the handlers that run
  tasks,      \* usage events the dispatcher has still to publish (asyncio tasks)
  templates,  \* notification_templates of the business
  meta,       \* business_profiles.meta: the preferences
  rows,       \* notification_logs: how many of each event, channel and status
  calls,      \* how often the providers gave each answer (history)
  metered,    \* usage events published (history)
  aborted,    \* history: events one of whose rows could not be written
  requests, faults   \* bounds

log   == <<rows, calls, aborted>>
prefs == <<templates, meta, requests>>
world == <<event, keyed>>
bus   == <<world, queue, acked>>
vars  == <<bus, job, tasks, prefs, log, metered, faults>>

Status   == {"SENT", "FAILED", "SKIPPED"}
Answer   == {"ok", "error", "skipped", "raised"}
Audience == {"payer", "owner", "notice", "account"}

\* A call still to make; "ask" reads the preferences of the business first.
Step == [to : Audience, ch : Channels \cup {"ask"}]
Idle == [event |-> Nothing, todo |-> <<>>, answer |-> Nothing, acks |-> FALSE]

TypeOK ==
  /\ event \in [Events -> Payloads] /\ keyed \in BOOLEAN
  /\ queue \subseteq Events /\ acked \subseteq Events /\ aborted \subseteq Events
  /\ \A s \in Slots :
       /\ job[s].event \in Events \cup {Nothing} /\ job[s].acks \in BOOLEAN
       /\ \A i \in DOMAIN job[s].todo : job[s].todo[i] \in Step
       /\ job[s].answer \in Answer \cup {Nothing}
       /\ job[s].answer # Nothing => job[s].todo # <<>>
       /\ job[s].acks => job[s].event \notin queue \cup acked
  /\ \A s, r \in Slots : job[s].acks /\ job[r].acks /\ job[s].event = job[r].event => s = r
  /\ tasks \in [Events \X Channels -> Nat]
  /\ \A t, u \in templates : u.id = t.id => u = t
  /\ meta \in Preferences \cup {Nothing}
  /\ rows \in [Events \X Channels \X Status -> Nat]
  /\ calls \in [Events \X Audience \X Channels \X Answer -> Nat]
  /\ metered \in [Events \X {"payer", "owner"} \X Channels -> Nat]

Zero(S) == [x \in S |-> 0]

\* A row of notification_templates, from request n.
Template(n, draft) == [id |-> <<n, draft>>, type |-> draft.type, channel |-> draft.channel,
                       default |-> draft.default, active |-> TRUE]

Init ==
  /\ event \in [Events -> Payloads] /\ keyed \in BOOLEAN
  /\ queue = Events /\ acked = {} /\ aborted = {}
  /\ job = [s \in Slots |-> Idle]
  /\ tasks = Zero(Events \X Channels)
  /\ templates = {Template(0, d) : d \in Existing}
  /\ meta \in {Nothing} \cup Preferences
  /\ rows = Zero(Events \X Channels \X Status)
  /\ calls = Zero(Events \X Audience \X Channels \X Answer)
  /\ metered = Zero(Events \X {"payer", "owner"} \X Channels)
  /\ requests = 0 /\ faults = 0

Fault == faults < MaxFaults /\ faults' = faults + 1
Count(f, x) == [f EXCEPT ![x] = @ + 1]

-----------------------------------------------------------------------------
(* Templates                                                               *)

TypeFor(kind) ==
  CASE kind = "payment.matched"      -> "PAYMENT_RECEIPT_FULL"
    [] kind = "payment.partial"      -> "PAYMENT_RECEIPT"
    [] kind = "payment.categorized"  -> "COLLECTION_RECEIPT"
    [] kind = "payment.unmatched"    -> "CUSTOM"
    [] kind = "obligation.created"   -> "OBLIGATION_CREATED"
    [] kind = "obligation.cancelled" -> "OBLIGATION_CANCELLED"
    [] kind = "obligation.due"       -> "PAYMENT_REMINDER"
    [] kind = "obligation.overdue"   -> "OVERDUE_NOTICE"

\* The templates the system has of its own (SYSTEM_TEMPLATES).
Library(type, ch) ==
  \/ type \in {"OBLIGATION_CREATED", "PAYMENT_REMINDER", "OVERDUE_NOTICE", "PAYMENT_RECEIPT",
               "PAYMENT_RECEIPT_FULL"}
  \/ type \in {"OBLIGATION_CANCELLED", "COLLECTION_RECEIPT"} /\ ch = "sms"
  \/ type = "STATEMENT" /\ ch = "email"

\* Any active template of the business comes before the library's, whatever its channel
\* default; which one only decides the words.
HasTemplate(e, ch) ==
  LET type == TypeFor(event[e].kind)
  IN \/ \E t \in templates : t.type = type /\ t.active /\ t.channel \in {ch, "ALL"}
     \/ Library(type, ch)

Asked == requests < MaxRequests /\ requests' = requests + 1
Unchanged == UNCHANGED <<bus, job, tasks, log, metered, faults>>

\* A new default takes the place of the old ones, of the committed rows only: two new
\* defaults in one bulk request both stay.
Add(drafts) ==
  LET demoted == {t \in templates : t.default /\ \E d \in drafts :
                    d.default /\ d.type = t.type /\ d.channel = t.channel}
  IN templates' = (templates \ demoted) \cup {[t EXCEPT !.default = FALSE] : t \in demoted}
                    \cup {Template(requests', d) : d \in drafts}

CreateTemplate == Asked /\ (\E d \in Drafts : Add({d})) /\ Unchanged /\ UNCHANGED meta
CreateBulk == Asked /\ (\E ds \in SUBSET Drafts : Add(ds)) /\ Unchanged /\ UNCHANGED meta

\* An update touches the one row: it may make a second default.
UpdateTemplate ==
  /\ Asked
  /\ \E t \in templates, default \in BOOLEAN, active \in BOOLEAN :
       templates' = (templates \ {t})
                      \cup {[t EXCEPT !.default = default, !.active = active]}
  /\ Unchanged /\ UNCHANGED meta

DeleteTemplate ==
  /\ Asked /\ \E t \in templates : templates' = templates \ {t}
  /\ Unchanged /\ UNCHANGED meta

\* PATCH /notifications/settings.
UpdateSettings == Asked /\ meta' \in Preferences /\ Unchanged /\ UNCHANGED templates

\* POST /dashboard/settings/notifications answers the same, but it changes the loaded
\* value in place, which the session does not see as a change: only the first
\* preferences of a profile are stored.
UpdatePrefs ==
  /\ Asked
  /\ IF meta = Nothing THEN meta' \in Preferences ELSE UNCHANGED meta
  /\ Unchanged /\ UNCHANGED templates

-----------------------------------------------------------------------------
(* Handlers                                                                *)

Send(to, ch) == [to |-> to, ch |-> ch]

\* A call, if there is a contact for its channel.
Through(to, ch, contacts) == IF ch \in contacts THEN <<Send(to, ch)>> ELSE <<>>
TextThenMail(to, contacts) == Through(to, "sms", contacts) \o Through(to, "email", contacts)
MailThenText(to, contacts) == Through(to, "email", contacts) \o Through(to, "sms", contacts)

\* Mutant of CodeSteps: the other channel is never tried.
CodeStepsPrimary(contacts, primary) ==
  Through("account", primary, contacts) \o Through("account", "email", contacts)

\* The channel the account signs in with; then whatever contact there is.
CodeSteps(contacts, primary) ==
  Through("account", primary, contacts) \o MailThenText("account", contacts)

\* The handler of each event; those of the payments also tell the business.
\* (obligation.created has a second handler, which meters an invoice: see Billing.)
Handler(e) ==
  LET p == event[e]
  IN IF p.kind \in ToPayer
     THEN TextThenMail("payer", p.contacts)
            \o IF p.kind \in Payment THEN <<Send("owner", "ask")>> ELSE <<>>
     ELSE IF p.kind \in Config THEN Through("notice", "email", OwnerContacts)
     ELSE IF p.kind \in Topup THEN MailThenText("notice", OwnerContacts)
     ELSE CodeSteps(p.contacts, p.primary)

Deliver(s) ==
  /\ job[s].event = Nothing
  /\ \E e \in queue :
       /\ queue' = queue \ {e}
       /\ job' = [job EXCEPT ![s] = [event |-> e, todo |-> Handler(e), answer |-> Nothing,
                                     acks |-> TRUE]]
  /\ UNCHANGED <<world, acked, tasks, prefs, log, metered, faults>>

\* Slot s is about to make a call, or has the answer to it.
At(s, step)   == job[s].todo # <<>> /\ job[s].answer = Nothing /\ Head(job[s].todo) = step
Back(s, step) == job[s].todo # <<>> /\ job[s].answer # Nothing /\ Head(job[s].todo) = step

Goes(s, todo) == job' = [job EXCEPT ![s].todo = todo, ![s].answer = Nothing]

\* _notify_business reads the preferences when the payer has been told.
AskPreferences(s) ==
  /\ At(s, Send("owner", "ask"))
  /\ Goes(s, IF meta # Nothing /\ meta.on
             THEN MailThenText("owner", meta.channels \cap OwnerContacts)
             ELSE <<>>)
  /\ UNCHANGED <<bus, tasks, prefs, log, metered, faults>>

\* Without a key no mail is sent and none fails; the SMS call turns HTTP errors into an
\* answer and raises on a number it cannot parse.
Answers(ch) ==
  IF ch = "sms" THEN {"ok", "error", "raised"}
  ELSE IF keyed THEN {"ok", "raised"} ELSE {"skipped"}

Call(s) ==
  \E to \in Audience, ch \in Channels :
    /\ At(s, Send(to, ch))
    /\ to = "payer" => HasTemplate(job[s].event, ch)
    /\ \E a \in Answers(ch) :
         /\ job' = [job EXCEPT ![s].answer = a]
         /\ calls' = Count(calls, <<job[s].event, to, ch, a>>)
    /\ UNCHANGED <<bus, tasks, prefs, rows, aborted, metered, faults>>

Row(s, ch, status) == rows' = Count(rows, <<job[s].event, ch, status>>)

\* A row that cannot be written ends the dispatch, not the handler.
RowFails(s) ==
  /\ Fault
  /\ Goes(s, SelectSeq(job[s].todo, LAMBDA step : step.to # "payer"))
  /\ aborted' = aborted \cup {job[s].event}

\* No template: a SKIPPED row.
Skip(s) ==
  \E ch \in Channels :
    /\ At(s, Send("payer", ch))
    /\ ~HasTemplate(job[s].event, ch)
    /\ \/ Row(s, ch, "SKIPPED") /\ Goes(s, Tail(job[s].todo)) /\ UNCHANGED <<aborted, faults>>
       \/ RowFails(s) /\ UNCHANGED rows
    /\ UNCHANGED <<bus, tasks, prefs, calls, metered>>

\* The row of a call to the payer and, when it was sent, the task that will charge it.
\* A row that fails after a good call is tried once more, as FAILED, and not charged.
Sent(s, ch)    == Row(s, ch, "SENT") /\ tasks' = Count(tasks, <<job[s].event, ch>>)

\* Mutant of NotSent: a call that failed is charged as well.
NotSentCharged(s, ch) ==
  /\ Row(s, ch, IF job[s].answer = "skipped" THEN "SKIPPED" ELSE "FAILED")
  /\ tasks' = Count(tasks, <<job[s].event, ch>>)

NotSent(s, ch) ==
  /\ Row(s, ch, IF job[s].answer = "skipped" THEN "SKIPPED" ELSE "FAILED")
  /\ UNCHANGED tasks

\* Mutant of Rest: a failed SMS ends the dispatch.
RestUnlessFailed(s) == IF job[s].answer \in {"error", "raised"} THEN <<>> ELSE Tail(job[s].todo)

Rest(s) == Tail(job[s].todo)

ReturnPayer(s) ==
  \E ch \in Channels :
    /\ Back(s, Send("payer", ch))
    /\ \/ /\ IF job[s].answer = "ok" THEN Sent(s, ch) ELSE NotSent(s, ch)
          /\ Goes(s, Rest(s)) /\ UNCHANGED <<aborted, faults>>
       \/ /\ job[s].answer # "raised" /\ Fault
          /\ Row(s, ch, "FAILED")
          /\ Goes(s, Rest(s)) /\ UNCHANGED <<tasks, aborted>>
       \/ RowFails(s) /\ UNCHANGED <<rows, tasks>>
    /\ UNCHANGED <<bus, prefs, calls, metered>>

\* The business is charged for whatever did not raise, the SMS the provider refused and
\* the mail that was skipped included; it gets no row.
ReturnOwner(s) ==
  \E ch \in Channels :
    /\ Back(s, Send("owner", ch))
    /\ \/ job[s].answer = "raised" /\ UNCHANGED <<metered, faults>>
       \/ job[s].answer # "raised" /\ metered' = Count(metered, <<job[s].event, "owner", ch>>)
            /\ UNCHANGED faults
       \/ job[s].answer # "raised" /\ Fault /\ UNCHANGED metered
    /\ Goes(s, Rest(s))
    /\ UNCHANGED <<bus, tasks, prefs, log>>

ReturnNotice(s) ==
  /\ \E ch \in Channels : Back(s, Send("notice", ch))
  /\ Goes(s, Rest(s))
  /\ UNCHANGED <<bus, tasks, prefs, log, metered, faults>>

\* The first call that does not raise is the last; an SMS the provider refused counts.
ReturnAccount(s) ==
  /\ \E ch \in Channels : Back(s, Send("account", ch))
  /\ Goes(s, IF job[s].answer = "raised" THEN Tail(job[s].todo) ELSE <<>>)
  /\ UNCHANGED <<bus, tasks, prefs, log, metered, faults>>

\* Mutant of Finish: only a delivery that went well is acknowledged.
FinishUnlessFailed(s) ==
  /\ job[s].event # Nothing /\ job[s].todo = <<>>
  /\ job[s].event \notin aborted
  /\ acked' = IF job[s].acks THEN acked \cup {job[s].event} ELSE acked
  /\ job' = [job EXCEPT ![s] = Idle]
  /\ UNCHANGED <<world, queue, tasks, prefs, log, metered, faults>>

\* The acknowledgement of a lost connection goes nowhere.
Finish(s) ==
  /\ job[s].event # Nothing /\ job[s].todo = <<>>
  /\ acked' = IF job[s].acks THEN acked \cup {job[s].event} ELSE acked
  /\ job' = [job EXCEPT ![s] = Idle]
  /\ UNCHANGED <<world, queue, tasks, prefs, log, metered, faults>>

\* The usage event of one call; a publish that fails is forgotten.
PublishTask(t) ==
  /\ tasks[t] > 0
  /\ tasks' = [tasks EXCEPT ![t] = @ - 1]
  /\ \/ metered' = Count(metered, <<t[1], "payer", t[2]>>) /\ UNCHANGED faults
     \/ Fault /\ UNCHANGED metered
  /\ UNCHANGED <<bus, job, prefs, log>>

-----------------------------------------------------------------------------
(* Faults                                                                  *)

Unfinished == {job[s].event : s \in {r \in Slots : job[r].acks}}

\* The worker restarts: what was not acknowledged comes again, the tasks are lost.
Crash ==
  /\ Fault
  /\ queue' = queue \cup Unfinished
  /\ job' = [s \in Slots |-> Idle]
  /\ tasks' = Zero(Events \X Channels)
  /\ UNCHANGED <<world, acked, prefs, log, metered>>

\* The broker takes back what was delivered; the handlers run on.
LoseConnection ==
  /\ Fault
  /\ queue' = queue \cup Unfinished
  /\ job' = [s \in Slots |-> [job[s] EXCEPT !.acks = FALSE]]
  /\ UNCHANGED <<world, acked, tasks, prefs, log, metered>>

Work(s) ==
  \/ AskPreferences(s) \/ Call(s) \/ Skip(s)
  \/ ReturnPayer(s) \/ ReturnOwner(s) \/ ReturnNotice(s) \/ ReturnAccount(s)
  \/ Finish(s)

Next ==
  \/ CreateTemplate \/ CreateBulk \/ UpdateTemplate \/ DeleteTemplate
  \/ UpdateSettings \/ UpdatePrefs
  \/ \E s \in Slots : Deliver(s) \/ Work(s)
  \/ \E t \in Events \X Channels : PublishTask(t)
  \/ Crash \/ LoseConnection

Spec == Init /\ [][Next]_vars

\* The event loop runs every coroutine that can go on, and the calls to the providers
\* end (requests has a timeout of 10 s); the broker delivers again after a restart.
FairSpec ==
  /\ Spec
  /\ \A s \in Slots : WF_vars(Deliver(s)) /\ WF_vars(Work(s))
  /\ \A t \in Events \X Channels : WF_vars(PublishTask(t))

-----------------------------------------------------------------------------
(* Properties                                                              *)

Told(e, ch) == rows[<<e, ch, "SENT">>] + rows[<<e, ch, "FAILED">>] + rows[<<e, ch, "SKIPPED">>]

\* When the event of a payment or an obligation is acknowledged, every channel the payer
\* has a contact for has a row, whatever the other channel answered, unless a row could
\* not be written: dispatch goes on to the mail when the SMS fails.
EveryChannelLogged ==
  \A e \in acked \ aborted :
    event[e].kind \in ToPayer => \A ch \in event[e].contacts : Told(e, ch) > 0

\* The usage events of messages to payers, published or about to be, are no more than
\* the rows that say SENT, and those no more than the calls the provider accepted:
\* dispatch charges after the row, and the row follows the answer.
MeteredIsSent ==
  \A e \in Events, ch \in Channels :
    /\ metered[<<e, "payer", ch>>] + tasks[<<e, ch>>] <= rows[<<e, ch, "SENT">>]
    /\ rows[<<e, ch, "SENT">>] <= calls[<<e, "payer", ch, "ok">>]

\* A code is acknowledged only after a call for it came back, or after the calls to all
\* the contacts of the account raised: _send_auth_notification falls back on an
\* exception.  To come back is not to be sent: an SMS that send_sms answers with an
\* error, and a mail without a key, end the handler with the other contact untried.
CodeIsAnswered ==
  \A e \in acked :
    event[e].kind \in Auth =>
      \/ \E ch \in Channels, a \in Answer \ {"raised"} : calls[<<e, "account", ch, a>>] > 0
      \/ \A ch \in event[e].contacts : calls[<<e, "account", ch, "raised">>] > 0

\* Every event is acknowledged in the end, through crashes and lost connections: no
\* failure of a call or of a row keeps a handler from its end.
EventIsHandled == \A e \in Events : <>(e \in acked)
=============================================================================
