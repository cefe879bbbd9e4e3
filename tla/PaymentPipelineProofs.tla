----------------------- MODULE PaymentPipelineProofs -----------------------
(***************************************************************************)
(* Proofs about PaymentPipeline, for any sets of payments, callbacks,      *)
(* manual entries and handler invocations, and any number of crashes and   *)
(* failed publishes.                                                       *)
(*                                                                         *)
(* CountedOnce is not inductive.  Two reconciliations of one row would     *)
(* break it, so the invariant says why there is never a second one: a row  *)
(* has one payment.received event (OneEventPerRow, for which no manual     *)
(* entry may repeat a reference), and a message is in the hands of one     *)
(* handler at a time (HandledOnce, for which no connection may be lost     *)
(* under a running handler).                                               *)
(***************************************************************************)
EXTENDS PaymentPipeline, TLAPS

-----------------------------------------------------------------------------
(* Type correctness                                                        *)

\* Messages are told apart by their kind and their source.
LEMMA MsgFacts ==
  /\ Callbacks \subseteq Sources /\ Manuals \subseteq Sources
  /\ \A s \in Sources : Webhook(s) \in Msg /\ Received(s) \in Msg
  /\ \A s, t \in Sources : /\ Webhook(s) # Received(t)
                           /\ Webhook(s) = Webhook(t) => s = t
                           /\ Received(s) = Received(t) => s = t
  /\ \A s \in Sources : Webhook(s)[2] = s /\ Received(s)[2] = s
  BY DEF Sources, Webhook, Received, Msg

\* An assignment to one row keeps a table's type, whatever the key.
LEMMA ExceptType ==
  ASSUME NEW A, NEW S, NEW f \in [A -> S], NEW a, NEW v, a \in A => v \in S
  PROVE  [f EXCEPT ![a] = v] \in [A -> S]
  OBVIOUS

LEMMA InitTypeOK == Init => TypeOK
  BY PipelineAssumption DEF Init, TypeOK, Stage, RowStatus, Outcome

LEMMA NextTypeOK == TypeOK /\ [Next]_vars => TypeOK'
<1> SUFFICES ASSUME TypeOK, [Next]_vars PROVE TypeOK'
  OBVIOUS
<1> USE PipelineAssumption DEF TypeOK, Stage, RowStatus, Outcome
<1>1. ASSUME NEW c \in Callbacks, Callback(c) PROVE TypeOK'
  BY <1>1 DEF Callback, dbVars, taskVars
<1>2. ASSUME NEW w \in Workers, NEW c \in Callbacks, DeliverWebhook(w, c) PROVE TypeOK'
  BY <1>2 DEF DeliverWebhook, Start, dbVars, faultVars, Msg, Webhook, Sources
<1>3. ASSUME NEW w \in Workers, Insert(w) PROVE TypeOK'
  BY <1>3 DEF Insert, faultVars
<1>4. ASSUME NEW w \in Workers, Publish(w) PROVE TypeOK'
  BY <1>4 DEF Publish, SendReceived, dbVars
<1>5. ASSUME NEW w \in Workers, Ack(w) PROVE TypeOK'
  BY <1>5 DEF Ack, dbVars, faultVars
<1>6. ASSUME NEW w \in Workers, NEW s \in Sources, DeliverReceived(w, s) PROVE TypeOK'
  BY <1>6 DEF DeliverReceived, Start, dbVars, faultVars, Msg, Received
<1>7. ASSUME NEW w \in Workers, Apply(w) PROVE TypeOK'
  <2> DEFINE t == target[held[w][2]]
  <2>1. PICK o \in Outcome :
          /\ row' = IF o = seen[w] THEN row ELSE [row EXCEPT ![t] = o]
          /\ applied' = IF o = "MATCHED" THEN [applied EXCEPT ![t] = @ + 1] ELSE applied
          /\ seen' = [seen EXCEPT ![w] = o]
    BY <1>7 DEF Apply
  <2>2. row' \in [Sources -> RowStatus] /\ seen' \in [Workers -> RowStatus]
    BY <2>1
  <2>3. applied' \in [Sources -> Nat]
    <3>1. [applied EXCEPT ![t] = applied[t] + 1] \in [Sources -> Nat]
      BY ExceptType
    <3> QED
      BY <2>1, <3>1
  <2> QED
    BY <1>7, <2>2, <2>3 DEF Apply, faultVars
<1>8. ASSUME NEW w \in Workers, Notify(w) PROVE TypeOK'
  <2> DEFINE t == target[held[w][2]]
  <2> DEFINE event == IF seen[w] = "CATEGORIZED" THEN "CATEGORIZED"
                      ELSE IF applied[t] > 0 THEN "MATCHED" ELSE "UNMATCHED"
  <2>1. /\ event \in Outcome
        /\ \/ notified' = [notified EXCEPT ![t] = @ \cup {event}]
           \/ notified' = notified
    BY <1>8 DEF Notify
  <2>2. notified' \in [Sources -> SUBSET Outcome]
    <3>1. t \in Sources => notified[t] \cup {event} \in SUBSET Outcome
      BY <2>1
    <3>2. [notified EXCEPT ![t] = notified[t] \cup {event}]
            \in [Sources -> SUBSET Outcome]
      <4>1. notified \in [Sources -> SUBSET Outcome]
        OBVIOUS
      <4> HIDE DEF event, t, TypeOK, Outcome
      <4> QED
        BY <3>1, <4>1, ExceptType, Zenon
    <3> QED
      BY <2>1, <3>2
  <2>3. failures' \in 0..MaxFailures
    BY <1>8 DEF Notify
  <2> QED
    BY <1>8, <2>2, <2>3 DEF Notify, dbVars
<1>9. ASSUME NEW m \in Manuals, ManualCheck(m) PROVE TypeOK'
  <2>1. target' \in [Sources -> Sources]
    BY <1>9 DEF ManualCheck, Known, Stored
  <2>2. request' \in [Manuals -> {"new", "insert", "publish", "done"}]
    BY <1>9 DEF ManualCheck
  <2> QED
    BY <1>9, <2>1, <2>2 DEF ManualCheck, dbVars, taskVars, faultVars
<1>10. ASSUME NEW m \in Manuals, ManualInsert(m) PROVE TypeOK'
  BY <1>10 DEF ManualInsert, taskVars, faultVars
<1>11. ASSUME NEW m \in Manuals, ManualPublish(m) PROVE TypeOK'
  BY <1>11 DEF ManualPublish, SendReceived, dbVars, taskVars
<1>12. CASE WorkerCrash
  BY <1>12 DEF WorkerCrash, Requeued, dbVars
<1>13. CASE ApiCrash
  BY <1>13 DEF ApiCrash, dbVars, taskVars
<1>14. CASE Reconnect
  BY <1>14 DEF Reconnect, Requeued, dbVars
<1>15. CASE UNCHANGED vars
  BY <1>15 DEF vars, dbVars, taskVars, faultVars
<1> QED
  BY <1>1, <1>2, <1>3, <1>4, <1>5, <1>6, <1>7, <1>8, <1>9, <1>10, <1>11, <1>12,
     <1>13, <1>14, <1>15
  DEF Next, WebhookHandler, ReceivedHandler, ManualEntry

\* Every variable keeps its type: the rows, the messages and the handlers stay
\* among the states the code gives them (TransactionStatus, process_message).
THEOREM TypeCorrect == Spec => []TypeOK
  BY InitTypeOK, NextTypeOK, PTL DEF Spec

-----------------------------------------------------------------------------
(* The rows                                                                *)

\* A payment.received event is about a stored row, and so is a publish or a
\* reconciliation in progress.
EventsStored ==
  \A s \in Sources : broker[Received(s)] # "absent" => row[target[s]] # "ABSENT"

CallbacksOwn == \A c \in Callbacks : target[c] = c

RequestsStored ==
  \A m \in Manuals :
    /\ request[m] \in {"new", "insert"} =>
         target[m] = m /\ broker[Received(m)] = "absent"
    /\ request[m] = "publish" => row[target[m]] # "ABSENT"

TasksStored ==
  \A w \in Workers :
    /\ stage[w] # "idle" => held[w] \in Msg /\ broker[held[w]] # "absent"
    /\ stage[w] \in {"insert", "publish"} => \E c \in Callbacks : held[w] = Webhook(c)
    /\ stage[w] = "publish" => row[held[w][2]] # "ABSENT"
    /\ stage[w] \in {"apply", "notify"} =>
         \E s \in Sources : held[w] = Received(s) /\ row[target[s]] # "ABSENT"

EventHasRow == EventsStored /\ CallbacksOwn /\ RequestsStored /\ TasksStored

RowInv == TypeOK /\ EventHasRow /\ OneRowPerReference

LEMMA InitRowInv == Init => RowInv
<1> SUFFICES ASSUME Init PROVE RowInv
  OBVIOUS
<1>1. OneRowPerReference
  BY DEF Init, OneRowPerReference, Stored
<1>2. EventHasRow
  BY DEF Init, EventHasRow, EventsStored, CallbacksOwn, RequestsStored, TasksStored, EventsStored, TasksStored, Received, Msg, Sources
<1> QED
  BY <1>1, <1>2, InitTypeOK DEF RowInv

\* A row never disappears, so what is stored stays stored.
LEMMA StoredStays ==
  ASSUME TypeOK, [Next]_vars, NEW s \in Sources, row[s] # "ABSENT"
  PROVE  row'[s] # "ABSENT"
<1>1. ASSUME NEW w \in Workers, Insert(w) PROVE row'[s] # "ABSENT"
  BY <1>1 DEF Insert, TypeOK
<1>2. ASSUME NEW w \in Workers, Apply(w) PROVE row'[s] # "ABSENT"
  BY <1>2 DEF Apply, TypeOK, Outcome
<1>3. ASSUME NEW m \in Manuals, ManualInsert(m) PROVE row'[s] # "ABSENT"
  BY <1>3 DEF ManualInsert, TypeOK
<1> QED
  BY <1>1, <1>2, <1>3
  DEF Next, WebhookHandler, ReceivedHandler, ManualEntry, Callback, DeliverWebhook,
      Publish, Ack, DeliverReceived, Notify, ManualCheck, ManualPublish,
      WorkerCrash, ApiCrash, Reconnect, vars, dbVars

LEMMA NextOneRowPerReference == RowInv /\ [Next]_vars => OneRowPerReference'
<1> SUFFICES ASSUME RowInv, [Next]_vars
             PROVE  OneRowPerReference'
  OBVIOUS
<1>1. ASSUME \A s \in Sources : row'[s] # "ABSENT" => row[s] # "ABSENT"
      PROVE  OneRowPerReference'
  BY <1>1 DEF RowInv, OneRowPerReference, Stored
<1>2. ASSUME NEW x, NEW v, ~Collides(x), row' = [row EXCEPT ![x] = v]
      PROVE  OneRowPerReference'
  BY <1>2 DEF RowInv, OneRowPerReference, Stored, Collides, Known, TypeOK
<1>3. ASSUME NEW w \in Workers, Insert(w) PROVE OneRowPerReference'
  BY <1>1, <1>2, <1>3 DEF Insert
<1>4. ASSUME NEW w \in Workers, Apply(w) PROVE OneRowPerReference'
  <2>1. row[target[held[w][2]]] # "ABSENT"
    BY <1>4 DEF Apply, RowInv, EventHasRow, EventsStored, TasksStored, Received
  <2> QED
    BY <1>1, <1>4, <2>1 DEF Apply, RowInv, TypeOK
<1>5. ASSUME NEW m \in Manuals, ManualInsert(m) PROVE OneRowPerReference'
  BY <1>1, <1>2, <1>5 DEF ManualInsert
<1>6. CASE UNCHANGED row
  BY <1>1, <1>6
<1> QED
  BY <1>3, <1>4, <1>5, <1>6
  DEF Next, WebhookHandler, ReceivedHandler, ManualEntry, Callback, DeliverWebhook,
      Publish, Ack, DeliverReceived, Notify, ManualCheck, ManualPublish,
      WorkerCrash, ApiCrash, Reconnect, vars, dbVars


LEMMA NextEventHasRow == RowInv /\ [Next]_vars => EventHasRow'
<1> SUFFICES ASSUME RowInv, [Next]_vars PROVE EventHasRow'
  OBVIOUS
<1>0. TypeOK /\ EventHasRow /\ \A s \in Sources : row[s] # "ABSENT" => row'[s] # "ABSENT"
  BY StoredStays DEF RowInv
<1> USE MsgFacts DEF EventHasRow, EventsStored, CallbacksOwn, RequestsStored, TasksStored
<1>1. ASSUME NEW c \in Callbacks, Callback(c) PROVE EventHasRow'
  <2>1. UNCHANGED <<row, target, stage, held, request>>
    BY <1>1 DEF Callback, dbVars, taskVars
  <2>2. /\ \A s \in Sources : broker'[Received(s)] = broker[Received(s)]
        /\ \A m \in Msg : broker[m] # "absent" => broker'[m] # "absent"
    BY <1>0, <1>1 DEF Callback, TypeOK
  <2> QED
    BY <1>0, <2>1, <2>2
<1>2. ASSUME NEW w \in Workers, NEW c \in Callbacks, DeliverWebhook(w, c)
      PROVE  EventHasRow'
  BY <1>0, <1>2 DEF DeliverWebhook, Start, TypeOK, dbVars
<1>3. ASSUME NEW w \in Workers, Insert(w) PROVE EventHasRow'
  BY <1>0, <1>3 DEF Insert, TypeOK
<1>4. ASSUME NEW w \in Workers, Publish(w) PROVE EventHasRow'
  <2>1. PICK c \in Callbacks : held[w] = Webhook(c)
    BY <1>0, <1>4 DEF Publish
  <2>2. row[c] # "ABSENT" /\ target[c] = c /\ c \notin Manuals
    BY <1>0, <1>4, <2>1, PipelineAssumption DEF Publish
  <2>3. broker' = [broker EXCEPT ![Received(c)] = "queued"] \/ broker' = broker
    BY <1>4, <2>1 DEF Publish, SendReceived
  <2>4. /\ UNCHANGED <<row, target, held, request>>
        /\ stage' = [stage EXCEPT ![w] = "ack"]
    BY <1>4 DEF Publish, dbVars
  <2>5. /\ \A s \in Sources : s # c => broker'[Received(s)] = broker[Received(s)]
        /\ \A m \in Msg : broker[m] # "absent" => broker'[m] # "absent"
    BY <1>0, <2>3 DEF TypeOK
  <2>6. EventsStored' /\ CallbacksOwn' /\ RequestsStored'
    BY <1>0, <2>2, <2>4, <2>5
  <2>7. TasksStored'
    <3>1. \A v \in Workers : stage'[v] = IF v = w THEN "ack" ELSE stage[v]
      BY <1>0, <2>4 DEF TypeOK
    <3> QED
      BY <1>0, <1>4, <2>4, <2>5, <3>1 DEF Publish
  <2> QED
    BY <2>6, <2>7
<1>5. ASSUME NEW w \in Workers, Ack(w) PROVE EventHasRow'
  <2>1. \A m \in Msg : broker'[m] # "absent" <=> broker[m] # "absent"
    BY <1>0, <1>5 DEF Ack, TypeOK
  <2>2. /\ UNCHANGED <<row, target, held, request>>
        /\ stage' = [stage EXCEPT ![w] = "idle"]
    BY <1>5 DEF Ack, dbVars
  <2>3. EventsStored' /\ CallbacksOwn' /\ RequestsStored'
    BY <1>0, <2>1, <2>2
  <2>4. TasksStored'
    BY <1>0, <2>1, <2>2 DEF TypeOK
  <2> QED
    BY <2>3, <2>4
<1>6. ASSUME NEW w \in Workers, NEW s \in Sources, DeliverReceived(w, s)
      PROVE  EventHasRow'
  BY <1>0, <1>6 DEF DeliverReceived, Start, TypeOK, dbVars
<1>7. ASSUME NEW w \in Workers, Apply(w) PROVE EventHasRow'
  BY <1>0, <1>7 DEF Apply, TypeOK
<1>8. ASSUME NEW w \in Workers, Notify(w) PROVE EventHasRow'
  BY <1>0, <1>8 DEF Notify, TypeOK, dbVars
<1>9. ASSUME NEW m \in Manuals, ManualCheck(m) PROVE EventHasRow'
  <2>1. /\ UNCHANGED <<broker, row, stage, held>>
        /\ broker[Received(m)] = "absent"
        /\ m \notin Callbacks
    BY <1>0, <1>9, PipelineAssumption DEF ManualCheck, dbVars, taskVars
  <2>2. /\ \A s \in Sources : s # m => target'[s] = target[s]
        /\ target'[m] # target[m] => row[target'[m]] # "ABSENT"
        /\ \A k \in Manuals : k # m => request'[k] = request[k]
        /\ request'[m] = "insert" => target'[m] = target[m]
        /\ request'[m] = "publish" => row[target'[m]] # "ABSENT"
        /\ request'[m] \in {"insert", "publish"}
    BY <1>0, <1>9 DEF ManualCheck, Known, Stored, TypeOK
  <2>3. EventsStored' /\ CallbacksOwn'
    BY <1>0, <2>1, <2>2
  <2>4. RequestsStored'
    BY <1>0, <1>9, <2>1, <2>2 DEF ManualCheck
  <2>5. TasksStored'
    <3>1. \A w \in Workers, s \in Sources : stage[w] # "idle" /\ held[w] = Received(s) => s # m
      BY <1>0, <2>1
    <3> QED
      BY <1>0, <2>1, <2>2, <3>1
  <2> QED
    BY <2>3, <2>4, <2>5
<1>10. ASSUME NEW m \in Manuals, ManualInsert(m) PROVE EventHasRow'
  BY <1>0, <1>10 DEF ManualInsert, TypeOK, taskVars
<1>11. ASSUME NEW m \in Manuals, ManualPublish(m) PROVE EventHasRow'
  <2>1. /\ UNCHANGED <<row, target, stage, held>>
        /\ request' = [request EXCEPT ![m] = "done"]
        /\ request[m] = "publish"
    BY <1>11 DEF ManualPublish, dbVars, taskVars
  <2>2. /\ \A s \in Sources : s # m => broker'[Received(s)] = broker[Received(s)]
        /\ \A x \in Msg : broker[x] # "absent" => broker'[x] # "absent"
    BY <1>0, <1>11 DEF ManualPublish, SendReceived, TypeOK
  <2>3. EventsStored' /\ CallbacksOwn' /\ RequestsStored'
    BY <1>0, <2>1, <2>2 DEF TypeOK
  <2>4. TasksStored'
    BY <1>0, <2>1, <2>2
  <2> QED
    BY <2>3, <2>4
<1>12. CASE WorkerCrash
  BY <1>0, <1>12 DEF WorkerCrash, Requeued, TypeOK, dbVars
<1>13. CASE ApiCrash
  BY <1>0, <1>13 DEF ApiCrash, TypeOK, dbVars, taskVars
<1>14. CASE Reconnect
  BY <1>0, <1>14 DEF Reconnect, Requeued, TypeOK, dbVars
<1>15. CASE UNCHANGED vars
  BY <1>0, <1>15 DEF vars, dbVars, taskVars
<1> QED
  BY <1>1, <1>2, <1>3, <1>4, <1>5, <1>6, <1>7, <1>8, <1>9, <1>10, <1>11, <1>12,
     <1>13, <1>14, <1>15
  DEF Next, WebhookHandler, ReceivedHandler, ManualEntry

LEMMA NextRowInv == RowInv /\ [Next]_vars => RowInv'
  BY NextTypeOK, NextEventHasRow, NextOneRowPerReference DEF RowInv

\* The database never holds two rows with one reference, whatever handlers,
\* requests, crashes and reconnections interleave (_store_transaction).
THEOREM ReferencesUnique == Spec => []OneRowPerReference
<1>1. RowInv => OneRowPerReference
  BY DEF RowInv
<1> QED
  BY <1>1, InitRowInv, NextRowInv, PTL DEF Spec


-----------------------------------------------------------------------------
(* One reconciliation per row                                              *)

\* A message a handler holds is out with the broker, and with no other handler;
\* the event of a callback is published once.
HandledOnce ==
  /\ \A c \in Callbacks : c \notin answered => broker[Webhook(c)] = "absent"
  /\ \A w \in Workers : stage[w] # "idle" => broker[held[w]] = "unacked"
  /\ \A v, w \in Workers :
       v # w /\ stage[v] # "idle" /\ stage[w] # "idle" => held[v] # held[w]

\* Each event is about the row of its source, and whoever is about to publish
\* it is the first to.
OneEventPerRow ==
  /\ \A s \in Sources : target[s] = s
  /\ \A w \in Workers, c \in Callbacks :
       stage[w] = "publish" /\ held[w] = Webhook(c) => broker[Received(c)] = "absent"
  /\ \A m \in Manuals :
       /\ request[m] \in {"new", "insert"} => row[m] = "ABSENT"
       /\ request[m] = "publish" => broker[Received(m)] = "absent"

\* A reconciliation about to commit read the status the row still has.
ReadIsFresh ==
  \A w \in Workers, s \in Sources :
    stage[w] = "apply" /\ held[w] = Received(s) =>
      seen[w] = row[s] /\ row[s] \in {"RAW", "MANUAL", "UNMATCHED"}

\* The status says how many allocations there are.
AllocationsAgree ==
  \A s \in Sources : applied[s] = IF row[s] = "MATCHED" THEN 1 ELSE 0

OnceInv == RowInv /\ HandledOnce /\ OneEventPerRow /\ ReadIsFresh /\ AllocationsAgree

LEMMA InitOnceInv == Init => OnceInv
<1> SUFFICES ASSUME Init PROVE OnceInv
  OBVIOUS
<1>1. HandledOnce /\ ReadIsFresh
  BY MsgFacts DEF Init, HandledOnce, ReadIsFresh
<1>2. OneEventPerRow /\ AllocationsAgree
  BY MsgFacts DEF Init, OneEventPerRow, AllocationsAgree
<1> QED
  BY <1>1, <1>2, InitRowInv DEF OnceInv

LEMMA StartHandledOnce ==
  ASSUME TypeOK, HandledOnce, UNCHANGED answered,
         NEW w \in Workers, NEW m \in Msg, NEW st, NEW status,
         Start(w, m, st, status)
  PROVE  HandledOnce'
<1> USE MsgFacts DEF HandledOnce, Start, TypeOK
<1>1. /\ \A x \in Msg : broker'[x] = IF x = m THEN "unacked" ELSE broker[x]
      /\ broker[m] = "queued"
  OBVIOUS
<1>2. \A v \in Workers : v # w => stage'[v] = stage[v] /\ held'[v] = held[v]
  OBVIOUS
<1>3. held'[w] = m
  OBVIOUS
<1>4. \A v \in Workers : stage'[v] # "idle" => broker'[held'[v]] = "unacked"
  <2>1. \A v \in Workers : v # w /\ stage[v] # "idle" => broker[held[v]] = "unacked"
    OBVIOUS
  <2>2. \A v \in Workers : v # w /\ stage[v] # "idle" => broker'[held[v]] = "unacked"
    BY <2>1, <1>1
  <2> QED
    BY <1>1, <1>2, <1>3, <2>2
<1>5. \A v, u \in Workers :
        v # u /\ stage'[v] # "idle" /\ stage'[u] # "idle" => held'[v] # held'[u]
  <2>1. \A v \in Workers : v # w /\ stage[v] # "idle" => held[v] # m
    BY <1>1
  <2> QED
    BY <1>2, <1>3, <2>1
<1>6. \A c \in Callbacks : c \notin answered' => broker'[Webhook(c)] = "absent"
  BY <1>1
<1> QED
  BY <1>4, <1>5, <1>6

LEMMA NextHandledOnce ==
  ASSUME MaxReconnects = 0, OnceInv, [Next]_vars PROVE HandledOnce'
<1> USE MsgFacts DEF HandledOnce
<1>0. /\ TypeOK /\ TasksStored /\ HandledOnce
      /\ \A w \in Workers, s \in Sources :
           stage[w] = "publish" /\ held[w][2] = s => broker[Received(s)] = "absent"
      /\ \A m \in Manuals : request[m] = "publish" => broker[Received(m)] = "absent"
  BY PipelineAssumption DEF OnceInv, RowInv, EventHasRow, OneEventPerRow, TasksStored
<1>1. ASSUME NEW x \in Msg, broker[x] = "absent", UNCHANGED <<answered, held>>,
             \/ broker' = [broker EXCEPT ![x] = "queued"]
             \/ UNCHANGED broker,
             \A c \in Callbacks : x # Webhook(c),
             \A w \in Workers : stage'[w] # "idle" => stage[w] # "idle"
      PROVE  HandledOnce'
  <2>1. \A y \in Msg : y # x => broker'[y] = broker[y]
    BY <1>0, <1>1 DEF TypeOK
  <2>2. \A w \in Workers : stage[w] # "idle" => held[w] \in Msg /\ held[w] # x
    BY <1>0, <1>1 DEF TasksStored
  <2> QED
    BY <1>0, <1>1, <2>1, <2>2
<1>2. ASSUME NEW c \in Callbacks, Callback(c) PROVE HandledOnce'
  <2>1. /\ UNCHANGED <<stage, held>>
        /\ answered' = answered \cup {c} /\ broker[Webhook(c)] = "absent"
    BY <1>0, <1>2 DEF Callback, taskVars
  <2>2. \A y \in Msg : y # Webhook(c) => broker'[y] = broker[y]
    BY <1>0, <1>2 DEF Callback, TypeOK
  <2>3. \A w \in Workers : stage[w] # "idle" => held[w] \in Msg /\ held[w] # Webhook(c)
    BY <1>0, <2>1 DEF TasksStored
  <2> QED
    BY <1>0, <2>1, <2>2, <2>3
<1>3. ASSUME NEW w \in Workers, NEW c \in Callbacks, DeliverWebhook(w, c)
      PROVE  HandledOnce'
  <2> DEFINE st == IF SeenBefore(c) THEN "ack" ELSE "insert"
  <2>1. Webhook(c) \in Msg /\ UNCHANGED answered /\ Start(w, Webhook(c), st, "ABSENT")
    BY <1>3 DEF DeliverWebhook
  <2> HIDE DEF st
  <2> QED
    BY <1>0, <2>1, StartHandledOnce
<1>4. ASSUME NEW w \in Workers, Insert(w) PROVE HandledOnce'
  <2>1. /\ UNCHANGED <<answered, broker, held>>
        /\ \A v \in Workers : stage'[v] # "idle" => stage[v] # "idle"
    BY <1>0, <1>4 DEF Insert, TypeOK
  <2> QED
    BY <1>0, <2>1
<1>5. ASSUME NEW w \in Workers, Publish(w) PROVE HandledOnce'
  <2>1. PICK c \in Callbacks : held[w] = Webhook(c)
    BY <1>0, <1>5 DEF Publish, TasksStored
  <2>2. broker[Received(c)] = "absent"
    BY <1>0, <1>5, <2>1 DEF Publish
  <2> QED
    BY <1>0, <1>1, <1>5, <2>1, <2>2 DEF Publish, SendReceived, TypeOK
<1>6. ASSUME NEW w \in Workers, Ack(w) PROVE HandledOnce'
  <2>1. /\ UNCHANGED <<answered, held>>
        /\ \A v \in Workers : stage'[v] = IF v = w THEN "idle" ELSE stage[v]
        /\ held[w] \in Msg /\ broker[held[w]] = "unacked"
        /\ \A y \in Msg : y # held[w] => broker'[y] = broker[y]
        /\ broker'[held[w]] # "absent"
    BY <1>0, <1>6 DEF Ack, TypeOK, TasksStored
  <2>2. \A c \in Callbacks : c \notin answered => broker'[Webhook(c)] = "absent"
    BY <1>0, <2>1
  <2>3. \A v \in Workers : v # w /\ stage[v] # "idle" => held[v] \in Msg /\ held[v] # held[w]
    BY <1>0, <1>6 DEF Ack, TasksStored
  <2> QED
    BY <1>0, <2>1, <2>2, <2>3
<1>7. ASSUME NEW w \in Workers, NEW s \in Sources, DeliverReceived(w, s)
      PROVE  HandledOnce'
  BY <1>0, <1>7, StartHandledOnce DEF DeliverReceived
<1>8. ASSUME NEW w \in Workers, Apply(w) PROVE HandledOnce'
  BY <1>0, <1>8 DEF Apply, TypeOK
<1>9. ASSUME NEW w \in Workers, Notify(w) PROVE HandledOnce'
  BY <1>0, <1>9 DEF Notify, TypeOK
<1>10. ASSUME NEW m \in Manuals, ManualPublish(m) PROVE HandledOnce'
  BY <1>0, <1>1, <1>10 DEF ManualPublish, SendReceived, taskVars
<1>11. ASSUME UNCHANGED <<answered, broker, taskVars>> PROVE HandledOnce'
  BY <1>0, <1>11 DEF taskVars
<1>12. CASE WorkerCrash
  <2>1. \A w \in Workers : stage'[w] = "idle"
    BY <1>12 DEF WorkerCrash
  <2>2. \A c \in Callbacks : c \notin answered' => broker'[Webhook(c)] = "absent"
    BY <1>0, <1>12 DEF WorkerCrash, Requeued, TypeOK
  <2> QED
    BY <2>1, <2>2
<1>13. ~Reconnect
  BY <1>0, PipelineAssumption DEF Reconnect, TypeOK
<1> QED
  BY <1>2, <1>3, <1>4, <1>5, <1>6, <1>7, <1>8, <1>9, <1>10, <1>11, <1>12, <1>13
  DEF Next, WebhookHandler, ReceivedHandler, ManualEntry, ManualCheck, ManualInsert,
      ApiCrash, vars

\* What a handler about to insert or to reconcile knows about its row.
LEMMA HandlerFacts ==
  ASSUME OnceInv, NEW w \in Workers
  PROVE  /\ stage[w] \in {"insert", "publish"} =>
              \E c \in Callbacks : held[w] = Webhook(c) /\ held[w][2] = c
         /\ \A c \in Callbacks :
              ~Collides(c) => row[c] = "ABSENT" /\ broker[Received(c)] = "absent"
         /\ stage[w] = "apply" =>
              \E s \in Sources : /\ held[w] = Received(s) /\ target[held[w][2]] = s
                                 /\ seen[w] = row[s] /\ applied[s] = 0
                                 /\ row[s] \in {"RAW", "MANUAL", "UNMATCHED"}
<1> USE MsgFacts
<1>1. TypeOK /\ EventHasRow /\ OneEventPerRow /\ ReadIsFresh /\ AllocationsAgree
  BY DEF OnceInv, RowInv
<1>2. stage[w] \in {"insert", "publish"} =>
        \E c \in Callbacks : held[w] = Webhook(c) /\ held[w][2] = c
  BY <1>1 DEF EventHasRow, TasksStored
<1>3. ASSUME NEW c \in Callbacks, ~Collides(c)
      PROVE  row[c] = "ABSENT" /\ broker[Received(c)] = "absent"
  BY <1>1, <1>3, PipelineAssumption
  DEF Collides, Known, Stored, EventHasRow, EventsStored, CallbacksOwn
<1>4. ASSUME stage[w] = "apply"
      PROVE  \E s \in Sources : /\ held[w] = Received(s) /\ target[held[w][2]] = s
                                /\ seen[w] = row[s] /\ applied[s] = 0
                                /\ row[s] \in {"RAW", "MANUAL", "UNMATCHED"}
  <2>1. PICK s \in Sources : held[w] = Received(s)
    BY <1>1, <1>4 DEF EventHasRow, TasksStored
  <2> QED
    BY <1>1, <1>4, <2>1 DEF OneEventPerRow, ReadIsFresh, AllocationsAgree
<1> QED
  BY <1>2, <1>3, <1>4

\* The rows change in three ways only.
LEMMA RowSteps ==
  ASSUME OnceInv, [Next]_vars
  PROVE  \/ UNCHANGED <<row, applied>>
         \/ \E c \in Callbacks :
              /\ row[c] = "ABSENT" /\ broker[Received(c)] = "absent"
              /\ row' = [row EXCEPT ![c] = "RAW"] /\ UNCHANGED <<applied, broker, held, seen>>
              /\ \E w \in Workers : held[w] = Webhook(c) /\ stage' = [stage EXCEPT ![w] = "publish"]
         \/ \E m \in Manuals :
              /\ row[m] = "ABSENT"
              /\ row' = [row EXCEPT ![m] = "MANUAL"]
              /\ UNCHANGED <<applied, broker, stage, held, seen>>
         \/ \E w \in Workers, s \in Sources, o \in Outcome :
              /\ held[w] = Received(s) /\ stage[w] = "apply"
              /\ row[s] \in {"RAW", "MANUAL", "UNMATCHED"} /\ applied[s] = 0
              /\ row' = [row EXCEPT ![s] = o]
              /\ applied' = IF o = "MATCHED" THEN [applied EXCEPT ![s] = 1] ELSE applied
              /\ stage' = [stage EXCEPT ![w] = "notify"] /\ UNCHANGED <<broker, held>>
              /\ \A v \in Workers : v # w => seen'[v] = seen[v]
<1>0. TypeOK /\ OneEventPerRow
  BY DEF OnceInv, RowInv
<1>1. ASSUME NEW w \in Workers, Insert(w), row' # row
      PROVE  \E c \in Callbacks :
              /\ row[c] = "ABSENT" /\ broker[Received(c)] = "absent"
              /\ row' = [row EXCEPT ![c] = "RAW"] /\ UNCHANGED <<applied, broker, held, seen>>
              /\ held[w] = Webhook(c) /\ stage' = [stage EXCEPT ![w] = "publish"]
  BY <1>1, HandlerFacts DEF Insert
<1>2. ASSUME NEW w \in Workers, Apply(w)
      PROVE  \E s \in Sources, o \in Outcome :
              /\ held[w] = Received(s) /\ stage[w] = "apply"
              /\ row[s] \in {"RAW", "MANUAL", "UNMATCHED"} /\ applied[s] = 0
              /\ row' = [row EXCEPT ![s] = o]
              /\ applied' = IF o = "MATCHED" THEN [applied EXCEPT ![s] = 1] ELSE applied
              /\ stage' = [stage EXCEPT ![w] = "notify"] /\ UNCHANGED <<broker, held>>
              /\ \A v \in Workers : v # w => seen'[v] = seen[v]
  <2>1. PICK s \in Sources : /\ held[w] = Received(s) /\ target[held[w][2]] = s
                             /\ seen[w] = row[s] /\ applied[s] = 0
                             /\ row[s] \in {"RAW", "MANUAL", "UNMATCHED"}
    BY <1>2, HandlerFacts DEF Apply
  <2>2. PICK o \in Outcome :
          /\ row' = IF o = seen[w] THEN row ELSE [row EXCEPT ![s] = o]
          /\ applied' = IF o = "MATCHED" THEN [applied EXCEPT ![s] = @ + 1] ELSE applied
          /\ seen' = [seen EXCEPT ![w] = o]
    BY <1>2, <2>1 DEF Apply
  <2>3. row' = [row EXCEPT ![s] = o]
    BY <1>0, <2>1, <2>2 DEF TypeOK
  <2>4. applied' = IF o = "MATCHED" THEN [applied EXCEPT ![s] = 1] ELSE applied
    BY <2>1, <2>2
  <2>5. \A v \in Workers : v # w => seen'[v] = seen[v]
    BY <1>0, <2>2 DEF TypeOK
  <2>6. stage[w] = "apply" /\ stage' = [stage EXCEPT ![w] = "notify"] /\ UNCHANGED <<broker, held>>
    BY <1>2 DEF Apply
  <2> QED
    BY <2>1, <2>3, <2>4, <2>5, <2>6
<1>3. ASSUME NEW m \in Manuals, ManualInsert(m), row' # row
      PROVE  /\ row[m] = "ABSENT"
             /\ row' = [row EXCEPT ![m] = "MANUAL"]
             /\ UNCHANGED <<applied, broker, stage, held, seen>>
  BY <1>0, <1>3 DEF ManualInsert, OneEventPerRow, taskVars
<1>4. ASSUME NEW w \in Workers, Insert(w) PROVE UNCHANGED applied
  BY <1>4 DEF Insert
<1>5. ASSUME NEW m \in Manuals, ManualInsert(m) PROVE UNCHANGED applied
  BY <1>5 DEF ManualInsert
<1> QED
  BY <1>1, <1>2, <1>3, <1>4, <1>5
  DEF Next, WebhookHandler, ReceivedHandler, ManualEntry, Callback, DeliverWebhook,
      Publish, Ack, DeliverReceived, Notify, ManualCheck, ManualPublish,
      WorkerCrash, ApiCrash, Reconnect, vars, dbVars

\* With ManualsApart, a manual entry never meets the row of another source.
LEMMA EventsStayOwn ==
  ASSUME ManualsApart, OnceInv, [Next]_vars PROVE UNCHANGED target
<1>1. ASSUME NEW m \in Manuals, ManualCheck(m) PROVE ~SeenBefore(m)
  <2>1. row[m] = "ABSENT"
    BY <1>1 DEF OnceInv, OneEventPerRow, ManualCheck
  <2> QED
    BY <2>1 DEF SeenBefore, Known, Stored, ManualsApart
<1>2. ASSUME NEW m \in Manuals, ManualCheck(m) PROVE UNCHANGED target
  BY <1>1, <1>2 DEF ManualCheck
<1> QED
  BY <1>2
  DEF Next, WebhookHandler, ReceivedHandler, ManualEntry, Callback, DeliverWebhook,
      Insert, Publish, Ack, DeliverReceived, Apply, Notify, ManualInsert,
      ManualPublish, WorkerCrash, ApiCrash, Reconnect, vars

LEMMA NextOneEventPerRow ==
  ASSUME ManualsApart, OnceInv, [Next]_vars PROVE OneEventPerRow'
<1> USE MsgFacts
<1> DEFINE First == \A w \in Workers, c \in Callbacks :
                      stage[w] = "publish" /\ held[w] = Webhook(c)
                        => broker[Received(c)] = "absent"
<1> DEFINE FirstManual == \A m \in Manuals :
                            /\ request[m] \in {"new", "insert"} => row[m] = "ABSENT"
                            /\ request[m] = "publish" => broker[Received(m)] = "absent"
<1>0. /\ TypeOK /\ EventHasRow /\ HandledOnce /\ First /\ FirstManual
      /\ \A s \in Sources : target[s] = s
      /\ Callbacks \cap Manuals = {}
  BY PipelineAssumption DEF OnceInv, RowInv, OneEventPerRow
<1>1. \A s \in Sources : target'[s] = s
  BY <1>0, EventsStayOwn
<1> SUFFICES First' /\ FirstManual'
  BY <1>1 DEF OneEventPerRow
<1>2. ASSUME \A v \in Workers, c \in Callbacks :
               stage'[v] = "publish" /\ held'[v] = Webhook(c)
                 => stage[v] = "publish" /\ held[v] = Webhook(c),
             \A x \in Msg : broker[x] = "absent" => broker'[x] = "absent"
      PROVE  First'
  BY <1>0, <1>2
<1>3. ASSUME \A x \in Msg : broker[x] = "absent" => broker'[x] = "absent",
             \A m \in Manuals : request'[m] = request[m] /\ (row[m] = "ABSENT" => row'[m] = "ABSENT")
      PROVE  FirstManual'
  BY <1>0, <1>3
<1>4. ASSUME NEW w \in Workers, NEW m \in Msg, NEW st, NEW status,
             Start(w, m, st, status), st # "publish", UNCHANGED <<row, request>>
      PROVE  First' /\ FirstManual'
  <2>1. /\ \A v \in Workers, c \in Callbacks :
              stage'[v] = "publish" /\ held'[v] = Webhook(c)
                => stage[v] = "publish" /\ held[v] = Webhook(c)
        /\ \A x \in Msg : broker[x] = "absent" => broker'[x] = "absent"
    BY <1>0, <1>4 DEF Start, TypeOK
  <2> QED
    BY <1>2, <1>3, <1>4, <2>1
<1>5. ASSUME NEW c \in Callbacks, Callback(c) PROVE First' /\ FirstManual'
  <2>1. \A s \in Sources : broker'[Received(s)] = broker[Received(s)]
    BY <1>0, <1>5 DEF Callback, TypeOK
  <2> QED
    BY <1>0, <1>5, <2>1 DEF Callback, dbVars, taskVars
<1>6. ASSUME NEW w \in Workers, NEW c \in Callbacks, DeliverWebhook(w, c)
      PROVE  First' /\ FirstManual'
  BY <1>4, <1>6 DEF DeliverWebhook, dbVars
<1>7. ASSUME NEW w \in Workers, Insert(w) PROVE First' /\ FirstManual'
  <2>1. PICK c \in Callbacks : held[w] = Webhook(c) /\ held[w][2] = c
    BY <1>7, HandlerFacts DEF Insert
  <2>2. /\ UNCHANGED <<broker, held, request>>
        /\ \A v \in Workers : v # w => stage'[v] = stage[v]
        /\ \A m \in Manuals : row'[m] = row[m]
        /\ stage'[w] = "publish" => ~Collides(c)
    BY <1>0, <1>7, <2>1 DEF Insert, TypeOK
  <2>3. stage'[w] = "publish" => broker[Received(c)] = "absent"
    BY <2>2, HandlerFacts
  <2> QED
    BY <1>0, <1>3, <2>1, <2>2, <2>3
<1>8. ASSUME NEW w \in Workers, Publish(w) PROVE First' /\ FirstManual'
  <2>1. PICK c \in Callbacks : held[w] = Webhook(c) /\ held[w][2] = c
    BY <1>8, HandlerFacts DEF Publish
  <2>2. /\ UNCHANGED <<row, held, request>>
        /\ \A v \in Workers : stage'[v] = IF v = w THEN "ack" ELSE stage[v]
        /\ \A s \in Sources : s # c => broker'[Received(s)] = broker[Received(s)]
        /\ stage[w] = "publish"
    BY <1>0, <1>8, <2>1 DEF Publish, SendReceived, TypeOK, dbVars
  <2>3. \A v \in Workers : v # w /\ stage[v] = "publish" => held[v] # Webhook(c)
    BY <1>0, <2>1, <2>2 DEF HandledOnce
  <2>4. First'
    BY <1>0, <2>2, <2>3
  <2>5. FirstManual'
    BY <1>0, <2>2
  <2> QED
    BY <2>4, <2>5
<1>9. ASSUME NEW w \in Workers, Ack(w) PROVE First' /\ FirstManual'
  <2>1. /\ UNCHANGED <<row, held, request>>
        /\ \A v \in Workers : stage'[v] = IF v = w THEN "idle" ELSE stage[v]
        /\ broker[held[w]] = "unacked"
        /\ \A x \in Msg : x # held[w] => broker'[x] = broker[x]
    BY <1>0, <1>9 DEF Ack, TypeOK, HandledOnce, dbVars
  <2> QED
    BY <1>2, <1>3, <2>1
<1>10. ASSUME NEW w \in Workers, NEW s \in Sources, DeliverReceived(w, s)
       PROVE  First' /\ FirstManual'
  BY <1>4, <1>10 DEF DeliverReceived, dbVars
<1>11. ASSUME NEW w \in Workers, Apply(w) \/ Notify(w) PROVE First' /\ FirstManual'
  <2>1. /\ UNCHANGED <<broker, held, request>>
        /\ \A v \in Workers : stage'[v] = "publish" => stage[v] = "publish"
    BY <1>0, <1>11 DEF Apply, Notify, TypeOK
  <2>2. \A m \in Manuals : row[m] = "ABSENT" => row'[m] = "ABSENT"
    <3>1. CASE Apply(w)
      <4>1. PICK s \in Sources : target[held[w][2]] = s /\ row[s] # "ABSENT"
        BY <3>1, HandlerFacts DEF Apply
      <4> QED
        BY <1>0, <3>1, <4>1 DEF Apply, TypeOK
    <3>2. CASE Notify(w)
      BY <3>2 DEF Notify, dbVars
    <3> QED
      BY <1>11, <3>1, <3>2
  <2> QED
    BY <1>2, <1>3, <2>1, <2>2
<1>12. ASSUME NEW m \in Manuals, ManualEntry(m) PROVE First' /\ FirstManual'
  <2>1. /\ UNCHANGED <<stage, held>>
        /\ \A s \in Sources : s # m => broker'[Received(s)] = broker[Received(s)]
        /\ \A k \in Manuals : k # m => request'[k] = request[k] /\ row'[k] = row[k]
    BY <1>0, <1>12 DEF ManualEntry, ManualCheck, ManualInsert, ManualPublish,
                       SendReceived, TypeOK, taskVars, dbVars
  <2>2. First'
    BY <1>0, <2>1
  <2>3. request'[m] \in {"new", "insert"} => row'[m] = "ABSENT"
    BY <1>0, <1>12 DEF ManualEntry, ManualCheck, ManualInsert, ManualPublish, TypeOK, dbVars
  <2>4. request'[m] = "publish" => broker'[Received(m)] = "absent"
    BY <1>0, <1>12 DEF ManualEntry, ManualCheck, ManualInsert, ManualPublish, TypeOK,
                       EventHasRow, RequestsStored
  <2> QED
    BY <1>0, <2>1, <2>2, <2>3, <2>4
<1>13. CASE WorkerCrash \/ Reconnect
  <2>1. /\ UNCHANGED <<row, held, request>>
        /\ \A v \in Workers : stage'[v] = "publish" => stage[v] = "publish"
        /\ \A x \in Msg : broker[x] = "absent" => broker'[x] = "absent"
    BY <1>0, <1>13 DEF WorkerCrash, Reconnect, Requeued, dbVars, TypeOK
  <2> QED
    BY <1>2, <1>3, <2>1
<1>14. CASE ApiCrash
  <2>1. /\ UNCHANGED <<row, broker, stage, held>>
        /\ \A m \in Manuals : request'[m] = request[m] \/ request'[m] = "done"
    BY <1>0, <1>14 DEF ApiCrash, dbVars, taskVars, TypeOK
  <2> QED
    BY <1>0, <1>2, <2>1
<1>15. CASE UNCHANGED vars
  BY <1>2, <1>3, <1>15 DEF vars, dbVars, taskVars
<1> QED
  BY <1>5, <1>6, <1>7, <1>8, <1>9, <1>10, <1>11, <1>12, <1>13, <1>14, <1>15
  DEF Next, WebhookHandler, ReceivedHandler

LEMMA NextReadIsFresh ==
  ASSUME MaxReconnects = 0, ManualsApart, OnceInv, [Next]_vars PROVE ReadIsFresh'
<1> USE MsgFacts
<1>0. /\ TypeOK /\ EventHasRow /\ HandledOnce /\ OneEventPerRow /\ ReadIsFresh
      /\ \A s \in Sources : target[s] = s
  BY DEF OnceInv, RowInv, OneEventPerRow
<1>1. ASSUME NEW w \in Workers, NEW m \in Msg, NEW st, NEW status, UNCHANGED row,
             Start(w, m, st, status),
             \A s \in Sources : st = "apply" /\ m = Received(s) =>
               status = row[s] /\ row[s] \in {"RAW", "MANUAL", "UNMATCHED"}
      PROVE  ReadIsFresh'
  <2>1. \A v \in Workers : v # w => /\ stage'[v] = stage[v]
                                   /\ held'[v] = held[v] /\ seen'[v] = seen[v]
    BY <1>0, <1>1 DEF Start, TypeOK
  <2>2. stage'[w] = st /\ held'[w] = m /\ seen'[w] = status
    BY <1>0, <1>1 DEF Start, TypeOK
  <2> QED
    BY <1>0, <1>1, <2>1, <2>2 DEF ReadIsFresh
<1>2. ASSUME NEW w \in Workers, NEW c \in Callbacks, DeliverWebhook(w, c)
      PROVE  ReadIsFresh'
  BY <1>1, <1>2 DEF DeliverWebhook, dbVars
<1>3. ASSUME NEW w \in Workers, NEW s \in Sources, DeliverReceived(w, s)
      PROVE  ReadIsFresh'
  <2> DEFINE st == IF row[target[s]] \in Closed THEN "ack" ELSE "apply"
  <2>1. /\ UNCHANGED row /\ Start(w, Received(s), st, row[s])
    BY <1>0, <1>3 DEF DeliverReceived, dbVars
  <2>2. broker[Received(s)] # "absent"
    BY <1>3 DEF DeliverReceived, Start
  <2>3. row[s] \in RowStatus /\ row[s] # "ABSENT"
    BY <1>0, <2>2 DEF TypeOK, EventHasRow, EventsStored
  <2>4. st = "apply" => row[s] \in {"RAW", "MANUAL", "UNMATCHED"}
    BY <1>0, <2>3 DEF RowStatus, Closed
  <2> HIDE DEF st
  <2> QED
    BY <1>1, <2>1, <2>4
<1>4. ASSUME \A v \in Workers, s \in Sources :
               stage'[v] = "apply" /\ held'[v] = Received(s) =>
                 /\ stage[v] = "apply" /\ held[v] = Received(s)
                 /\ seen'[v] = seen[v] /\ row'[s] = row[s]
      PROVE  ReadIsFresh'
  BY <1>0, <1>4 DEF ReadIsFresh
<1>5. ASSUME NEW w \in Workers, Insert(w) \/ Apply(w) PROVE ReadIsFresh'
  <2>1. CASE UNCHANGED <<row, applied>> /\ Insert(w)
    BY <1>0, <1>4, <2>1 DEF Insert, TypeOK
  <2>2. CASE Insert(w) /\ row' # row
    <3>1. PICK c \in Callbacks :
             /\ row[c] = "ABSENT" /\ row' = [row EXCEPT ![c] = "RAW"]
             /\ UNCHANGED <<held, seen>> /\ stage' = [stage EXCEPT ![w] = "publish"]
      BY <2>2, HandlerFacts DEF Insert
    <3>2. \A s \in Sources : s # c => row'[s] = row[s]
      BY <1>0, <3>1 DEF TypeOK
    <3>3. \A v \in Workers : stage'[v] = "apply" => stage[v] = "apply"
      BY <1>0, <3>1 DEF TypeOK
    <3>4. \A v \in Workers : stage[v] = "apply" => held[v] # Received(c)
      BY <1>0, <3>1 DEF ReadIsFresh
    <3> QED
      BY <1>4, <3>1, <3>2, <3>3, <3>4
  <2>3. CASE Apply(w)
    <3>1. PICK s \in Sources : held[w] = Received(s) /\ target[held[w][2]] = s
      BY <2>3, HandlerFacts DEF Apply
    <3>2. /\ UNCHANGED held
          /\ \A v \in Workers : v # w => stage'[v] = stage[v] /\ seen'[v] = seen[v]
          /\ stage'[w] # "apply" /\ stage[w] # "idle"
          /\ \A t \in Sources : t # s => row'[t] = row[t]
      BY <1>0, <2>3, <3>1 DEF Apply, TypeOK
    <3>3. \A v \in Workers : v # w /\ stage[v] = "apply" => held[v] # Received(s)
      BY <1>0, <3>1, <3>2 DEF HandledOnce
    <3> QED
      BY <1>4, <3>2, <3>3
  <2> QED
    BY <1>5, <2>1, <2>2, <2>3 DEF Insert
<1>6. ASSUME NEW m \in Manuals, ManualInsert(m) PROVE ReadIsFresh'
  <2>1. /\ UNCHANGED <<stage, held, seen>>
        /\ \A s \in Sources : s # m => row'[s] = row[s]
        /\ row[m] = "ABSENT"
    BY <1>0, <1>6 DEF ManualInsert, OneEventPerRow, TypeOK, taskVars
  <2>2. \A v \in Workers : stage[v] = "apply" => held[v] # Received(m)
    BY <1>0, <2>1 DEF ReadIsFresh
  <2> QED
    BY <1>4, <2>1, <2>2
<1>7. ASSUME UNCHANGED <<row, held, seen>>,
             \A v \in Workers : stage'[v] = "apply" => stage[v] = "apply"
      PROVE  ReadIsFresh'
  BY <1>4, <1>7
<1>8. ASSUME NEW w \in Workers, Publish(w) \/ Notify(w) \/ Ack(w) PROVE ReadIsFresh'
  BY <1>0, <1>7, <1>8 DEF Publish, Notify, Ack, dbVars, TypeOK
<1>9. CASE WorkerCrash
  BY <1>7, <1>9 DEF WorkerCrash, dbVars
<1>10. ASSUME UNCHANGED <<dbVars, taskVars>> PROVE ReadIsFresh'
  BY <1>7, <1>10 DEF dbVars, taskVars
<1>11. ~Reconnect
  BY <1>0, PipelineAssumption DEF Reconnect, TypeOK
<1> QED
  BY <1>2, <1>3, <1>5, <1>6, <1>8, <1>9, <1>10, <1>11
  DEF Next, WebhookHandler, ReceivedHandler, ManualEntry, Callback, ManualCheck,
      ManualPublish, ApiCrash, vars

LEMMA NextAllocationsAgree ==
  ASSUME OnceInv, [Next]_vars PROVE AllocationsAgree'
<1> USE DEF AllocationsAgree
<1>1. TypeOK /\ AllocationsAgree /\ Callbacks \subseteq Sources /\ Manuals \subseteq Sources
  BY MsgFacts DEF OnceInv, RowInv
<1>2. ASSUME NEW x \in Sources, NEW v, row[x] = "ABSENT", v # "MATCHED",
             row' = [row EXCEPT ![x] = v], UNCHANGED applied
      PROVE  AllocationsAgree'
  BY <1>1, <1>2 DEF TypeOK
<1>3. ASSUME NEW s \in Sources, NEW o \in Outcome, row[s] # "MATCHED", applied[s] = 0,
             row' = [row EXCEPT ![s] = o],
             applied' = IF o = "MATCHED" THEN [applied EXCEPT ![s] = 1] ELSE applied
      PROVE  AllocationsAgree'
  BY <1>1, <1>3 DEF TypeOK
<1> QED
  BY <1>1, <1>2, <1>3, RowSteps

LEMMA NextOnceInv ==
  ASSUME MaxReconnects = 0, ManualsApart PROVE OnceInv /\ [Next]_vars => OnceInv'
  BY NextRowInv, NextHandledOnce, NextOneEventPerRow, NextReadIsFresh,
     NextAllocationsAgree DEF OnceInv

LEMMA OneRowPerPayment ==
  ASSUME ManualsApart, OnceInv, NEW s \in Stored, NEW t \in Stored,
         PaymentOf[s] = PaymentOf[t]
  PROVE  s = t
  BY PipelineAssumption
  DEF OnceInv, RowInv, OneRowPerReference, Stored, Sources, ManualsApart

\* As long as the worker keeps its broker connection and no manual entry repeats
\* a payment, a payment is allocated at most once, over all retried webhooks,
\* redeliveries, crashes and failed publishes (reconcile, _store_transaction).
THEOREM AllocatedOnce ==
  ASSUME MaxReconnects = 0, ManualsApart PROVE Spec => []CountedOnce
<1>1. OnceInv => CountedOnce
  BY OneRowPerPayment DEF OnceInv, AllocationsAgree, CountedOnce, Stored
<1>2. OnceInv /\ [Next]_vars => OnceInv'
  BY NextOnceInv
<1> QED
  BY <1>1, <1>2, InitOnceInv, PTL DEF Spec

\* Under the same conditions the MATCHED rows are exactly those with an
\* allocation, between any two commits of reconcile.
THEOREM StatusIsAllocation ==
  ASSUME MaxReconnects = 0, ManualsApart PROVE Spec => []StatusTellsAllocation
<1>1. OnceInv => StatusTellsAllocation
  BY DEF OnceInv, AllocationsAgree, StatusTellsAllocation
<1>2. OnceInv /\ [Next]_vars => OnceInv'
  BY NextOnceInv
<1> QED
  BY <1>1, <1>2, InitOnceInv, PTL DEF Spec

\* ... and no delivery, retry or manual entry moves a row that is MATCHED or
\* CATEGORIZED.
THEOREM ClosedIsFinal ==
  ASSUME MaxReconnects = 0, ManualsApart PROVE Spec => ClosedStays
<1>1. OnceInv /\ [Next]_vars => [\A s \in Sources : row[s] \in Closed => row'[s] = row[s]]_vars
  <2> SUFFICES ASSUME OnceInv, [Next]_vars, NEW s \in Sources, row[s] \in Closed
               PROVE  row'[s] = row[s]
    OBVIOUS
  <2>1. row \in [Sources -> RowStatus]
    BY DEF OnceInv, RowInv, TypeOK
  <2> QED
    BY <2>1, RowSteps DEF Closed
<1>2. OnceInv /\ [Next]_vars => OnceInv'
  BY NextOnceInv
<1> QED
  BY <1>1, <1>2, InitOnceInv, PTL DEF Spec, ClosedStays

-----------------------------------------------------------------------------
(* The pipeline implements PaymentLedger                                   *)

\* The entry of a closed row.
Entry(s) == <<s, IF row[s] = "MATCHED" THEN 1 ELSE 0>>

\* Seen from the rows, there is one credit for every closed row.
CreditsOfClosed == Credits = {Entry(s) : s \in {t \in Sources : row[t] \in Closed}}

LEMMA CreditsByStatus == TypeOK /\ AllocationsAgree => CreditsOfClosed
<1> SUFFICES ASSUME TypeOK, AllocationsAgree
             PROVE  Credits = {Entry(s) : s \in {t \in Sources : row[t] \in Closed}}
  BY DEF CreditsOfClosed
<1> DEFINE F(s) == {<<s, n>> : n \in 1..applied[s]}
<1> DEFINE Linked == {t \in Sources : row[t] = "CATEGORIZED"}
<1> DEFINE Allocated == UNION {F(s) : s \in Sources}
<1> DEFINE Collected == {<<s, 0>> : s \in Linked}
<1>1. \A s \in Sources : F(s) = IF row[s] = "MATCHED" THEN {<<s, 1>>} ELSE {}
  BY DEF AllocationsAgree
<1>2. \A e : e \in Credits <=> e \in Allocated \/ e \in Collected
  BY Zenon DEF Credits
<1>3. \A e : e \in Credits <=> \/ \E s \in Sources : e \in F(s)
                            \/ \E s \in Sources : row[s] = "CATEGORIZED" /\ e = <<s, 0>>
  <2> HIDE DEF F
  <2>1. \A e : e \in Allocated <=> \E s \in Sources : e \in F(s)
    BY Zenon
  <2>2. \A e : e \in Collected <=> \E s \in Sources : row[s] = "CATEGORIZED" /\ e = <<s, 0>>
    OBVIOUS
  <2> HIDE DEF Allocated, Collected
  <2> QED
    BY <1>2, <2>1, <2>2, Zenon
<1> HIDE DEF F
<1>4. \A e : e \in Credits <=> \E s \in Sources : row[s] \in Closed /\ e = Entry(s)
  <2>1. \A e, s : s \in Sources /\ e \in F(s) <=> 
                  s \in Sources /\ row[s] = "MATCHED" /\ e = <<s, 1>>
    BY <1>1
  <2> QED
    BY <1>3, <2>1 DEF Entry, Closed
<1> QED
  BY <1>4

\* Every payment the pipeline credits is credited once and for all: it behaves,
\* towards the obligations and collection points, as the abstract ledger.
THEOREM ImplementsLedger ==
  ASSUME MaxReconnects = 0, ManualsApart PROVE Spec => CreditsOnce
<1>1. Init => Ledger!Init
  <2> SUFFICES ASSUME Init PROVE Credits = {}
    BY DEF Ledger!Init
  <2>1. TypeOK /\ AllocationsAgree
    BY InitOnceInv DEF OnceInv, RowInv
  <2>2. \A s \in Sources : row[s] \notin Closed
    BY DEF Init, Closed
  <2> QED
    BY <2>1, <2>2, CreditsByStatus DEF CreditsOfClosed
<1>2. OnceInv /\ [Next]_vars => OnceInv'
  BY NextOnceInv
<1>3. OnceInv /\ [Next]_vars => CreditsOfClosed'
  <2>1. OnceInv => CreditsOfClosed
    BY CreditsByStatus DEF OnceInv, RowInv
  <2> QED
    BY <1>2, <2>1, PTL
<1>4. OnceInv /\ [Next]_vars => [Ledger!Next]_Credits
  <2> SUFFICES ASSUME OnceInv, [Next]_vars, Credits' # Credits
               PROVE  Ledger!Next
    OBVIOUS
  <2>1. /\ Credits = {Entry(s) : s \in {t \in Sources : row[t] \in Closed}}
        /\ row \in [Sources -> RowStatus] /\ Callbacks \subseteq Sources /\ Manuals \subseteq Sources
    BY CreditsByStatus, MsgFacts DEF CreditsOfClosed, OnceInv, RowInv, TypeOK
  <2>2. Credits' = {Entry(s)' : s \in {t \in Sources : row'[t] \in Closed}}
    BY <1>3 DEF CreditsOfClosed
  <2>4. ASSUME \A s \in Sources : row[s] \in Closed \/ row'[s] \in Closed => row'[s] = row[s]
        PROVE  FALSE
    <3>1. \A s \in Sources : row[s] \in Closed <=> row'[s] \in Closed
      BY <2>4
    <3>2. \A s \in Sources : row[s] \in Closed => Entry(s)' = Entry(s)
      BY <2>4 DEF Entry
    <3> QED
      BY <2>1, <2>2, <3>1, <3>2
  <2>5. PICK s \in Sources, o \in Closed :
          row[s] \in {"RAW", "MANUAL", "UNMATCHED"} /\ row' = [row EXCEPT ![s] = o]
    BY <2>1, <2>4, RowSteps DEF Closed, Outcome
  <2>6. \E n \in {0, 1} : Credits' = Credits \cup {<<s, n>>}
    <3>1. /\ \A t \in Sources : t # s => Entry(t)' = Entry(t) /\ row'[t] = row[t]
          /\ row[s] \notin Closed /\ row'[s] \in Closed
          /\ Entry(s)' \in {<<s, 0>>, <<s, 1>>}
      BY <2>1, <2>5 DEF Entry, Closed
    <3>2. Credits' = Credits \cup {Entry(s)'}
      BY <2>1, <2>2, <3>1
    <3> QED
      BY <3>1, <3>2
  <2>7. \A e \in Credits : PaymentOf[e[1]] # PaymentOf[s]
    <3> SUFFICES ASSUME NEW t \in Sources, row[t] \in Closed, PaymentOf[t] = PaymentOf[s]
                 PROVE  FALSE
      BY <2>1 DEF Entry
    <3>1. s \in Stored /\ t \in Stored /\ s # t
      BY <2>5 DEF Stored, Closed
    <3> QED
      BY <3>1, OneRowPerPayment
  <2> QED
    BY <2>6, <2>7 DEF Ledger!Next, Ledger!Post
<1> QED
  BY <1>1, <1>2, <1>4, InitOnceInv, PTL DEF Spec, CreditsOnce, Ledger!Spec
=============================================================================
