------------------------- MODULE NotificationsProofs -------------------------
(***************************************************************************)
(* Proofs about Notifications, for any events, any number of deliveries at *)
(* a time and any faults: the business is charged for no message to a      *)
(* payer that the provider did not accept, every channel of a payer has    *)
(* its row, and a code goes out.                                           *)
(*                                                                         *)
(* Between the answer of the provider and the row stands a handler, which  *)
(* other handlers of the same event may run beside: for the first, the     *)
(* invariant counts those that have a good answer and have not written it  *)
(* down yet.  For the others it says of every handler that what is not in  *)
(* the logs is still among its calls to make.                              *)
(***************************************************************************)
EXTENDS Notifications, FiniteSetTheorems, SequenceTheorems, TLAPS

JobFields == {"event", "todo", "answer", "acks"}

JobsOK ==
  /\ queue \subseteq Events
  /\ job = [s \in Slots |-> job[s]]
  /\ \A s \in Slots :
       /\ job[s] = [f \in JobFields |-> job[s][f]]
       /\ job[s].todo # <<>> \/ job[s].acks => job[s].event \in Events

CountsOK ==
  /\ tasks \in [Events \X Channels -> Nat]
  /\ rows \in [Events \X Channels \X Status -> Nat]
  /\ calls \in [Events \X Audience \X Channels \X Answer -> Nat]
  /\ metered \in [Events \X {"payer", "owner"} \X Channels -> Nat]

\* The handlers of e that hold a good answer for the payer on a channel.
Awaiting(e, ch) ==
  {s \in Slots : job[s].event = e /\ job[s].answer = "ok" /\ Back(s, Send("payer", ch))}

ChargedOK ==
  \A e \in Events, ch \in Channels :
    metered[<<e, "payer", ch>>] + tasks[<<e, ch>>] <= rows[<<e, ch, "SENT">>]

SentOK ==
  \A e \in Events, ch \in Channels :
    Cardinality(Awaiting(e, ch)) + rows[<<e, ch, "SENT">>] <= calls[<<e, "payer", ch, "ok">>]

ChargeInv == JobsOK /\ CountsOK /\ ChargedOK /\ SentOK

LEMMA AwaitingFinite ==
  ASSUME NEW e, NEW ch
  PROVE  IsFiniteSet(Awaiting(e, ch)) /\ Cardinality(Awaiting(e, ch)) \in Nat
<1>1. IsFiniteSet(Awaiting(e, ch))
  BY FS_Subset, NotificationsAssumption DEF Awaiting
<1> QED
  BY <1>1, FS_CardinalityType

LEMMA ChargeInit == Init => ChargeInv
<1> SUFFICES ASSUME Init PROVE ChargeInv
  OBVIOUS
<1>1. JobsOK
  BY DEF Init, JobsOK, Idle, JobFields
<1>2. CountsOK
  BY DEF Init, CountsOK, Zero
<1>3. ChargedOK
  BY DEF Init, ChargedOK, Zero, Status
<1>4. SentOK
  <2> SUFFICES ASSUME NEW e \in Events, NEW ch \in Channels
               PROVE  Cardinality(Awaiting(e, ch)) + rows[<<e, ch, "SENT">>]
                        <= calls[<<e, "payer", ch, "ok">>]
    BY DEF SentOK
  <2>1. Awaiting(e, ch) = {}
    BY DEF Init, Awaiting, Back, Idle
  <2>2. Cardinality(Awaiting(e, ch)) = 0
    BY <2>1, FS_EmptySet
  <2>3. rows[<<e, ch, "SENT">>] = 0 /\ calls[<<e, "payer", ch, "ok">>] = 0
    BY DEF Init, Zero, Status, Audience, Answer
  <2> QED
    BY <2>2, <2>3
<1> QED
  BY <1>1, <1>2, <1>3, <1>4 DEF ChargeInv

\* A step in which no handler comes to hold a good answer, and no SENT row is written.
LEMMA NoneSent ==
  ASSUME ChargeInv, CountsOK',
         \A e \in Events, ch \in Channels :
           /\ Awaiting(e, ch)' \subseteq Awaiting(e, ch)
           /\ rows'[<<e, ch, "SENT">>] = rows[<<e, ch, "SENT">>]
           /\ calls'[<<e, "payer", ch, "ok">>] >= calls[<<e, "payer", ch, "ok">>]
  PROVE  SentOK'
<1> SUFFICES ASSUME NEW e \in Events, NEW ch \in Channels
             PROVE  Cardinality(Awaiting(e, ch)') + rows'[<<e, ch, "SENT">>]
                      <= calls'[<<e, "payer", ch, "ok">>]
  BY DEF SentOK
<1>1. Cardinality(Awaiting(e, ch)') <= Cardinality(Awaiting(e, ch))
      /\ Cardinality(Awaiting(e, ch)') \in Nat
  BY AwaitingFinite, FS_Subset, FS_CardinalityType
<1>2. Cardinality(Awaiting(e, ch)) + rows[<<e, ch, "SENT">>] <= calls[<<e, "payer", ch, "ok">>]
  BY DEF ChargeInv, SentOK
<1>3. rows[<<e, ch, "SENT">>] \in Nat /\ calls[<<e, "payer", ch, "ok">>] \in Nat
      /\ calls'[<<e, "payer", ch, "ok">>] \in Nat
  BY DEF ChargeInv, CountsOK, Status, Audience, Answer
<1> QED
  BY <1>1, <1>2, <1>3, AwaitingFinite

\* What a step of one handler leaves of the others.
LEMMA JobStep ==
  ASSUME JobsOK, NEW s \in Slots, NEW new,
         job' = [job EXCEPT ![s] = new],
         new = [f \in JobFields |-> new[f]],
         (new.todo # <<>> \/ new.acks) => new.event \in Events,
         queue' \subseteq Events
  PROVE  /\ JobsOK'
         /\ job'[s] = new
         /\ \A r \in Slots \ {s} : job'[r] = job[r]
<1>1. job'[s] = new /\ \A r \in Slots \ {s} : job'[r] = job[r]
  BY DEF JobsOK
<1>2. job' = [r \in Slots |-> job'[r]]
  BY DEF JobsOK
<1>3. ASSUME NEW r \in Slots
      PROVE  /\ job'[r] = [f \in JobFields |-> job'[r][f]]
             /\ job'[r].todo # <<>> \/ job'[r].acks => job'[r].event \in Events
  <2>1. CASE r = s
    BY <1>1, <2>1
  <2>2. CASE r # s
    BY <1>1, <2>2 DEF JobsOK
  <2> QED
    BY <2>1, <2>2
<1> QED
  BY <1>1, <1>2, <1>3 DEF JobsOK

\* A handler that goes on to its next call awaits no answer.
LEMMA GoesOn ==
  ASSUME JobsOK, NEW s \in Slots, NEW todo, job[s].todo # <<>>, Goes(s, todo), queue' = queue
  PROVE  /\ JobsOK'
         /\ \A e \in Events, ch \in Channels : Awaiting(e, ch)' = Awaiting(e, ch) \ {s}
<1> DEFINE new == [job[s] EXCEPT !.todo = todo, !.answer = Nothing]
<1>1. job[s] = [f \in JobFields |-> job[s][f]] /\ job[s].event \in Events /\ queue \subseteq Events
  BY DEF JobsOK
<1>2. /\ new = [f \in JobFields |-> new[f]]
      /\ new.event = job[s].event /\ new.answer = Nothing
  BY <1>1 DEF JobFields
<1>3. job' = [job EXCEPT ![s] = new]
  BY DEF Goes, JobsOK
<1> HIDE DEF new
<1>4. /\ JobsOK'
      /\ job'[s] = new
      /\ \A r \in Slots \ {s} : job'[r] = job[r]
  BY <1>1, <1>2, <1>3, JobStep
<1>5. ASSUME NEW e \in Events, NEW ch \in Channels
      PROVE  Awaiting(e, ch)' = Awaiting(e, ch) \ {s}
  BY <1>2, <1>4 DEF Awaiting, Back
<1> QED
  BY <1>4, <1>5

\* A step that leaves what is sent and charged to payers alone.
LEMMA NoCharge ==
  ASSUME ChargeInv, JobsOK',
         UNCHANGED <<tasks, rows, calls, metered>>,
         \A e \in Events, ch \in Channels : Awaiting(e, ch)' \subseteq Awaiting(e, ch)
  PROVE  ChargeInv'
<1>1. CountsOK' /\ ChargedOK'
  BY DEF ChargeInv, CountsOK, ChargedOK
<1>2. \A e \in Events, ch \in Channels :
        /\ rows'[<<e, ch, "SENT">>] = rows[<<e, ch, "SENT">>]
        /\ calls'[<<e, "payer", ch, "ok">>] >= calls[<<e, "payer", ch, "ok">>]
  BY DEF ChargeInv, CountsOK, Status, Audience, Answer
<1>3. SentOK'
  BY <1>1, <1>2, NoneSent
<1> QED
  BY <1>1, <1>3 DEF ChargeInv

LEMMA RequestsCharge ==
  ASSUME ChargeInv,
         \/ CreateTemplate \/ CreateBulk \/ UpdateTemplate \/ DeleteTemplate
         \/ UpdateSettings \/ UpdatePrefs
  PROVE  ChargeInv'
<1>1. UNCHANGED <<queue, job, tasks, rows, calls, metered>>
  BY DEF CreateTemplate, CreateBulk, UpdateTemplate, DeleteTemplate, UpdateSettings,
         UpdatePrefs, Unchanged, bus, log
<1>2. JobsOK'
  BY <1>1 DEF ChargeInv, JobsOK
<1>3. \A e \in Events, ch \in Channels : Awaiting(e, ch)' = Awaiting(e, ch)
  BY <1>1 DEF Awaiting, Back
<1> QED
  BY <1>1, <1>2, <1>3, NoCharge

LEMMA DeliverCharge ==
  ASSUME ChargeInv, NEW s \in Slots, Deliver(s)
  PROVE  ChargeInv'
<1>1. PICK e \in queue :
        /\ queue' = queue \ {e}
        /\ job' = [job EXCEPT ![s] = [event |-> e, todo |-> Handler(e), answer |-> Nothing,
                                      acks |-> TRUE]]
  BY DEF Deliver
<1> DEFINE new == [event |-> e, todo |-> Handler(e), answer |-> Nothing, acks |-> TRUE]
<1>2. new = [f \in JobFields |-> new[f]] /\ new.answer = Nothing /\ new.event = e
  BY DEF JobFields
<1>3. e \in Events /\ queue' \subseteq Events
  BY <1>1 DEF ChargeInv, JobsOK
<1>4. job' = [job EXCEPT ![s] = new]
  BY <1>1
<1> HIDE DEF new
<1>5. /\ JobsOK'
      /\ job'[s] = new
      /\ \A r \in Slots \ {s} : job'[r] = job[r]
  BY <1>2, <1>3, <1>4, JobStep DEF ChargeInv
<1>6. \A d \in Events, ch \in Channels : Awaiting(d, ch)' \subseteq Awaiting(d, ch)
  BY <1>2, <1>5 DEF Awaiting, Back
<1>7. UNCHANGED <<tasks, rows, calls, metered>>
  BY DEF Deliver, log
<1> QED
  BY <1>5, <1>6, <1>7, NoCharge

LEMMA FinishCharge ==
  ASSUME ChargeInv, NEW s \in Slots, Finish(s)
  PROVE  ChargeInv'
<1>1. Idle = [f \in JobFields |-> Idle[f]] /\ Idle.todo = <<>> /\ Idle.acks = FALSE
  BY DEF Idle, JobFields
<1>2. job' = [job EXCEPT ![s] = Idle] /\ queue' \subseteq Events
  BY DEF Finish, ChargeInv, JobsOK
<1>3. /\ JobsOK'
      /\ job'[s] = Idle
      /\ \A r \in Slots \ {s} : job'[r] = job[r]
  BY <1>1, <1>2, JobStep DEF ChargeInv
<1>4. \A d \in Events, ch \in Channels : Awaiting(d, ch)' \subseteq Awaiting(d, ch)
  BY <1>1, <1>3 DEF Awaiting, Back
<1>5. UNCHANGED <<tasks, rows, calls, metered>>
  BY DEF Finish, log
<1> QED
  BY <1>3, <1>4, <1>5, NoCharge

\* The calls that are not to the payer: the business may be charged for one.
LEMMA OthersCharge ==
  ASSUME ChargeInv, NEW s \in Slots,
         AskPreferences(s) \/ ReturnOwner(s) \/ ReturnNotice(s) \/ ReturnAccount(s)
  PROVE  ChargeInv'
<1>1. job[s].todo # <<>> /\ \E todo : Goes(s, todo)
  BY DEF AskPreferences, ReturnOwner, ReturnNotice, ReturnAccount, At, Back
<1>2. queue' = queue /\ UNCHANGED <<tasks, rows, calls>>
  BY DEF AskPreferences, ReturnOwner, ReturnNotice, ReturnAccount, bus, log
<1>3. JobsOK' /\ \A e \in Events, ch \in Channels : Awaiting(e, ch)' \subseteq Awaiting(e, ch)
  BY <1>1, <1>2, GoesOn DEF ChargeInv
<1>4. /\ metered' \in [Events \X {"payer", "owner"} \X Channels -> Nat]
      /\ \A e \in Events, ch \in Channels :
           metered'[<<e, "payer", ch>>] = metered[<<e, "payer", ch>>]
  <2>1. CASE UNCHANGED metered
    BY <2>1 DEF ChargeInv, CountsOK
  <2>2. ASSUME NEW ch \in Channels, metered' = Count(metered, <<job[s].event, "owner", ch>>)
        PROVE  <1>4
    <3>1. job[s].event \in Events
      BY <1>1 DEF ChargeInv, JobsOK
    <3> QED
      BY <2>2, <3>1 DEF ChargeInv, CountsOK, Count
  <2> QED
    BY <2>1, <2>2 DEF AskPreferences, ReturnOwner, ReturnNotice, ReturnAccount
<1>5. CountsOK' /\ ChargedOK'
  BY <1>2, <1>4 DEF ChargeInv, CountsOK, ChargedOK
<1>6. \A e \in Events, ch \in Channels :
        /\ rows'[<<e, ch, "SENT">>] = rows[<<e, ch, "SENT">>]
        /\ calls'[<<e, "payer", ch, "ok">>] >= calls[<<e, "payer", ch, "ok">>]
  BY <1>2 DEF ChargeInv, CountsOK, Status, Audience, Answer
<1>7. SentOK'
  BY <1>3, <1>5, <1>6, NoneSent
<1> QED
  BY <1>3, <1>5, <1>7 DEF ChargeInv

LEMMA PublishCharge ==
  ASSUME ChargeInv, NEW t \in Events \X Channels, PublishTask(t)
  PROVE  ChargeInv'
<1>1. UNCHANGED <<queue, job, rows, calls>>
  BY DEF PublishTask, bus, log
<1>2. JobsOK' /\ \A e \in Events, ch \in Channels : Awaiting(e, ch)' = Awaiting(e, ch)
  BY <1>1 DEF ChargeInv, JobsOK, Awaiting, Back
<1>3. PICK e \in Events, ch \in Channels : t = <<e, ch>>
  OBVIOUS
<1>4. /\ tasks' = [tasks EXCEPT ![<<e, ch>>] = @ - 1]
      /\ tasks[<<e, ch>>] \in Nat /\ tasks[<<e, ch>>] > 0
      /\ \/ metered' = Count(metered, <<e, "payer", ch>>)
         \/ metered' = metered
  BY <1>3 DEF PublishTask, ChargeInv, CountsOK
<1>5. CountsOK'
  <2>1. tasks' \in [Events \X Channels -> Nat]
    BY <1>4 DEF ChargeInv, CountsOK
  <2>2. metered' \in [Events \X {"payer", "owner"} \X Channels -> Nat]
    <3>1. metered \in [Events \X {"payer", "owner"} \X Channels -> Nat]
      BY DEF ChargeInv, CountsOK
    <3>2. metered[<<e, "payer", ch>>] \in Nat
      BY <3>1
    <3> QED
      BY <1>4, <3>1, <3>2 DEF Count
  <2> QED
    BY <1>1, <2>1, <2>2 DEF ChargeInv, CountsOK
<1>6. ASSUME NEW d \in Events, NEW c \in Channels
      PROVE  metered'[<<d, "payer", c>>] + tasks'[<<d, c>>] <= rows'[<<d, c, "SENT">>]
  <2>1. /\ metered[<<d, "payer", c>>] + tasks[<<d, c>>] <= rows[<<d, c, "SENT">>]
        /\ metered[<<d, "payer", c>>] \in Nat /\ tasks[<<d, c>>] \in Nat
        /\ rows[<<d, c, "SENT">>] \in Nat
    BY DEF ChargeInv, ChargedOK, CountsOK, Status
  <2>2. CASE <<d, c>> = <<e, ch>>
    <3>1. tasks'[<<d, c>>] = tasks[<<d, c>>] - 1
      BY <1>4, <2>2 DEF ChargeInv, CountsOK
    <3>2. metered'[<<d, "payer", c>>] \in {metered[<<d, "payer", c>>], metered[<<d, "payer", c>>] + 1}
      BY <1>4, <2>2 DEF ChargeInv, CountsOK, Count
    <3> QED
      BY <1>1, <2>1, <3>1, <3>2
  <2>3. CASE <<d, c>> # <<e, ch>>
    <3>1. tasks'[<<d, c>>] = tasks[<<d, c>>]
      BY <1>4, <2>3 DEF ChargeInv, CountsOK
    <3>2. metered'[<<d, "payer", c>>] = metered[<<d, "payer", c>>]
      BY <1>4, <2>3 DEF ChargeInv, CountsOK, Count
    <3> QED
      BY <1>1, <2>1, <3>1, <3>2
  <2> QED
    BY <2>2, <2>3
<1>7. ChargedOK'
  BY <1>6 DEF ChargedOK
<1>8. SentOK'
  BY <1>1, <1>2 DEF ChargeInv, SentOK
<1> QED
  BY <1>2, <1>5, <1>7, <1>8 DEF ChargeInv

LEMMA UnfinishedAreEvents == JobsOK => Unfinished \subseteq Events
  BY DEF JobsOK, Unfinished

LEMMA CrashCharge ==
  ASSUME ChargeInv, Crash
  PROVE  ChargeInv'
<1>1. /\ queue' = queue \cup Unfinished
      /\ job' = [s \in Slots |-> Idle]
      /\ tasks' = Zero(Events \X Channels)
      /\ UNCHANGED <<rows, calls, metered>>
  BY DEF Crash, log
<1>2. JobsOK'
  BY <1>1, UnfinishedAreEvents DEF ChargeInv, JobsOK, Idle, JobFields
<1>3. \A e \in Events, ch \in Channels : Awaiting(e, ch)' \subseteq Awaiting(e, ch)
  BY <1>1 DEF Awaiting, Back, Idle
<1>4. CountsOK'
  BY <1>1 DEF ChargeInv, CountsOK, Zero
<1>5. ASSUME NEW e \in Events, NEW ch \in Channels
      PROVE  metered'[<<e, "payer", ch>>] + tasks'[<<e, ch>>] <= rows'[<<e, ch, "SENT">>]
  <2>1. /\ metered[<<e, "payer", ch>>] + tasks[<<e, ch>>] <= rows[<<e, ch, "SENT">>]
        /\ metered[<<e, "payer", ch>>] \in Nat /\ tasks[<<e, ch>>] \in Nat
        /\ rows[<<e, ch, "SENT">>] \in Nat
    BY DEF ChargeInv, ChargedOK, CountsOK, Status
  <2>2. tasks'[<<e, ch>>] = 0
    BY <1>1 DEF Zero
  <2> QED
    BY <1>1, <2>1, <2>2
<1>6. ChargedOK'
  BY <1>5 DEF ChargedOK
<1>7. \A e \in Events, ch \in Channels :
        /\ rows'[<<e, ch, "SENT">>] = rows[<<e, ch, "SENT">>]
        /\ calls'[<<e, "payer", ch, "ok">>] >= calls[<<e, "payer", ch, "ok">>]
  BY <1>1 DEF ChargeInv, CountsOK, Status, Audience, Answer
<1>8. SentOK'
  BY <1>3, <1>4, <1>7, NoneSent
<1> QED
  BY <1>2, <1>4, <1>6, <1>8 DEF ChargeInv

LEMMA LoseConnectionCharge ==
  ASSUME ChargeInv, LoseConnection
  PROVE  ChargeInv'
<1>1. /\ queue' = queue \cup Unfinished
      /\ job' = [s \in Slots |-> [job[s] EXCEPT !.acks = FALSE]]
      /\ UNCHANGED <<tasks, rows, calls, metered>>
  BY DEF LoseConnection, log
<1>2. ASSUME NEW s \in Slots
      PROVE  /\ job'[s] = [f \in JobFields |-> job'[s][f]]
             /\ job'[s].event = job[s].event /\ job'[s].todo = job[s].todo
             /\ job'[s].answer = job[s].answer /\ job'[s].acks = FALSE
  <2>1. job[s] = [f \in JobFields |-> job[s][f]]
    BY DEF ChargeInv, JobsOK
  <2>2. job'[s] = [job[s] EXCEPT !.acks = FALSE]
    BY <1>1
  <2> QED
    BY <2>1, <2>2 DEF JobFields
<1>3. JobsOK'
  <2>1. job' = [s \in Slots |-> job'[s]]
    BY <1>1
  <2>2. queue' \subseteq Events
    BY <1>1, UnfinishedAreEvents DEF ChargeInv, JobsOK
  <2>3. \A s \in Slots : job[s].todo # <<>> => job[s].event \in Events
    BY DEF ChargeInv, JobsOK
  <2> QED
    BY <1>2, <2>1, <2>2, <2>3 DEF JobsOK
<1>4. \A e \in Events, ch \in Channels : Awaiting(e, ch)' = Awaiting(e, ch)
  BY <1>2 DEF Awaiting, Back
<1> QED
  BY <1>1, <1>3, <1>4, NoCharge

\* One more good answer to a payer, and one more handler that awaits its row.
LEMMA CallCharge ==
  ASSUME ChargeInv, NEW s \in Slots, Call(s)
  PROVE  ChargeInv'
<1>1. PICK to \in Audience, ch \in Channels, a \in Answer :
        /\ At(s, Send(to, ch))
        /\ job' = [job EXCEPT ![s].answer = a]
        /\ calls' = Count(calls, <<job[s].event, to, ch, a>>)
        /\ UNCHANGED <<queue, tasks, rows, metered>>
  BY DEF Call, Answers, Answer, bus
<1> DEFINE new == [job[s] EXCEPT !.answer = a]
<1>2. /\ job[s] = [f \in JobFields |-> job[s][f]]
      /\ job[s].event \in Events /\ queue \subseteq Events
      /\ job[s].todo # <<>> /\ job[s].answer = Nothing /\ Head(job[s].todo) = Send(to, ch)
  BY <1>1 DEF ChargeInv, JobsOK, At
<1>3. /\ new = [f \in JobFields |-> new[f]]
      /\ new.event = job[s].event /\ new.todo = job[s].todo /\ new.answer = a
  BY <1>2 DEF JobFields
<1>4. job' = [job EXCEPT ![s] = new]
  BY <1>1 DEF ChargeInv, JobsOK
<1> HIDE DEF new
<1>5. /\ JobsOK'
      /\ job'[s] = new
      /\ \A r \in Slots \ {s} : job'[r] = job[r]
  BY <1>1, <1>2, <1>3, <1>4, JobStep DEF ChargeInv
<1>6. CountsOK'
  BY <1>1, <1>2 DEF ChargeInv, CountsOK, Count
<1>7. ChargedOK'
  BY <1>1 DEF ChargeInv, ChargedOK
<1>8. ASSUME NEW e \in Events, NEW c \in Channels
      PROVE  Cardinality(Awaiting(e, c)') + rows'[<<e, c, "SENT">>]
               <= calls'[<<e, "payer", c, "ok">>]
  <2> DEFINE good == a = "ok" /\ to = "payer" /\ c = ch /\ e = job[s].event
  <2>1. /\ Cardinality(Awaiting(e, c)) + rows[<<e, c, "SENT">>] <= calls[<<e, "payer", c, "ok">>]
        /\ rows[<<e, c, "SENT">>] \in Nat /\ calls[<<e, "payer", c, "ok">>] \in Nat
        /\ rows'[<<e, c, "SENT">>] = rows[<<e, c, "SENT">>]
    BY <1>1 DEF ChargeInv, SentOK, CountsOK, Status, Audience, Answer
  <2>2. /\ IsFiniteSet(Awaiting(e, c)) /\ Cardinality(Awaiting(e, c)) \in Nat
        /\ IsFiniteSet(Awaiting(e, c)') /\ Cardinality(Awaiting(e, c)') \in Nat
    BY AwaitingFinite, <1>5, FS_Subset, FS_CardinalityType, NotificationsAssumption DEF Awaiting
  <2>3. CASE good
    <3>1. calls'[<<e, "payer", c, "ok">>] = calls[<<e, "payer", c, "ok">>] + 1
      BY <1>1, <1>2, <2>3 DEF ChargeInv, CountsOK, Count
    <3>2. Awaiting(e, c)' \subseteq Awaiting(e, c) \cup {s}
      BY <1>5 DEF Awaiting, Back
    <3>3. /\ IsFiniteSet(Awaiting(e, c) \cup {s})
          /\ Cardinality(Awaiting(e, c) \cup {s})
               \in {Cardinality(Awaiting(e, c)), Cardinality(Awaiting(e, c)) + 1}
      BY <2>2, FS_AddElement
    <3>4. Cardinality(Awaiting(e, c)') <= Cardinality(Awaiting(e, c) \cup {s})
      BY <3>2, <3>3, FS_Subset
    <3> HIDE DEF good
    <3> QED
      BY <2>1, <2>2, <3>1, <3>3, <3>4
  <2>4. CASE ~good
    <3>1. calls'[<<e, "payer", c, "ok">>] = calls[<<e, "payer", c, "ok">>]
      BY <1>1, <1>2, <2>4 DEF ChargeInv, CountsOK, Count, Audience, Answer
    <3>2. Awaiting(e, c)' \subseteq Awaiting(e, c)
      BY <1>2, <1>3, <1>5, <2>4 DEF Awaiting, Back, Send
    <3>3. Cardinality(Awaiting(e, c)') <= Cardinality(Awaiting(e, c))
      BY <2>2, <3>2, FS_Subset
    <3> HIDE DEF good
    <3> QED
      BY <2>1, <2>2, <3>1, <3>3
  <2> QED
    BY <2>3, <2>4
<1>9. SentOK'
  BY <1>8 DEF SentOK
<1> QED
  BY <1>5, <1>6, <1>7, <1>9 DEF ChargeInv

\* A row that is not SENT, and no charge: a SKIPPED or FAILED row, or none.
LEMMA RowCharge ==
  ASSUME ChargeInv, NEW s \in Slots, NEW todo, job[s].todo # <<>>, Goes(s, todo),
         UNCHANGED <<queue, tasks, calls, metered>>,
         NEW ch \in Channels,
         rows' = rows \/ \E status \in {"FAILED", "SKIPPED"} : Row(s, ch, status)
  PROVE  ChargeInv'
<1>1. JobsOK' /\ \A e \in Events, c \in Channels : Awaiting(e, c)' \subseteq Awaiting(e, c)
  BY GoesOn DEF ChargeInv
<1>2. job[s].event \in Events
  BY DEF ChargeInv, JobsOK
<1>3. /\ rows' \in [Events \X Channels \X Status -> Nat]
      /\ \A e \in Events, c \in Channels : rows'[<<e, c, "SENT">>] = rows[<<e, c, "SENT">>]
  <2>1. rows \in [Events \X Channels \X Status -> Nat]
    BY DEF ChargeInv, CountsOK
  <2>2. CASE rows' = rows
    BY <2>1, <2>2
  <2>3. ASSUME NEW status \in {"FAILED", "SKIPPED"}, Row(s, ch, status)
        PROVE  <1>3
    <3> DEFINE mine == <<job[s].event, ch, status>>
    <3>1. mine \in Events \X Channels \X Status /\ rows[mine] \in Nat
      BY <1>2, <2>1 DEF Status
    <3>2. \A e \in Events, c \in Channels : <<e, c, "SENT">> # mine
      OBVIOUS
    <3>3. rows' = [rows EXCEPT ![mine] = @ + 1]
      BY <2>3 DEF Row, Count
    <3>4. \A e \in Events, c \in Channels : <<e, c, "SENT">> \in Events \X Channels \X Status
      BY DEF Status
    <3> HIDE DEF mine
    <3> QED
      BY <2>1, <3>1, <3>2, <3>3, <3>4
  <2> QED
    BY <2>2, <2>3
<1>4. CountsOK' /\ ChargedOK'
  BY <1>3 DEF ChargeInv, CountsOK, ChargedOK
<1>5. \A e \in Events, c \in Channels :
        /\ rows'[<<e, c, "SENT">>] = rows[<<e, c, "SENT">>]
        /\ calls'[<<e, "payer", c, "ok">>] >= calls[<<e, "payer", c, "ok">>]
  <2>1. ASSUME NEW e \in Events, NEW c \in Channels
        PROVE  calls'[<<e, "payer", c, "ok">>] >= calls[<<e, "payer", c, "ok">>]
    <3>1. calls[<<e, "payer", c, "ok">>] \in Nat /\ calls' = calls
      BY DEF ChargeInv, CountsOK, Audience, Answer
    <3> QED
      BY <3>1
  <2> QED
    BY <1>3, <2>1
<1>6. SentOK'
  BY <1>1, <1>4, <1>5, NoneSent
<1> QED
  BY <1>1, <1>4, <1>6 DEF ChargeInv

\* The SENT row of a good answer: one handler less awaits it, and one task more charges it.
LEMMA SentCharge ==
  ASSUME ChargeInv, NEW s \in Slots, NEW todo, NEW ch \in Channels,
         Back(s, Send("payer", ch)), job[s].answer = "ok", Sent(s, ch), Goes(s, todo),
         UNCHANGED <<queue, calls, metered>>
  PROVE  ChargeInv'
<1> DEFINE mine == job[s].event
<1>1. job[s].todo # <<>> /\ mine \in Events
  BY DEF Back, ChargeInv, JobsOK
<1>2. JobsOK' /\ \A e \in Events, c \in Channels : Awaiting(e, c)' = Awaiting(e, c) \ {s}
  BY <1>1, GoesOn DEF ChargeInv
<1>3. s \in Awaiting(mine, ch)
  BY DEF Awaiting
<1>4. /\ rows' = [rows EXCEPT ![<<mine, ch, "SENT">>] = @ + 1]
      /\ tasks' = [tasks EXCEPT ![<<mine, ch>>] = @ + 1]
  BY DEF Sent, Row, Count
<1>5. /\ rows \in [Events \X Channels \X Status -> Nat]
      /\ tasks \in [Events \X Channels -> Nat]
      /\ <<mine, ch, "SENT">> \in Events \X Channels \X Status
  BY <1>1 DEF ChargeInv, CountsOK, Status
<1> HIDE DEF mine
<1>6. CountsOK'
  BY <1>1, <1>4, <1>5 DEF ChargeInv, CountsOK
<1>7. ASSUME NEW e \in Events, NEW c \in Channels
      PROVE  /\ metered'[<<e, "payer", c>>] + tasks'[<<e, c>>] <= rows'[<<e, c, "SENT">>]
             /\ Cardinality(Awaiting(e, c)') + rows'[<<e, c, "SENT">>]
                  <= calls'[<<e, "payer", c, "ok">>]
  <2>1. /\ metered[<<e, "payer", c>>] + tasks[<<e, c>>] <= rows[<<e, c, "SENT">>]
        /\ Cardinality(Awaiting(e, c)) + rows[<<e, c, "SENT">>] <= calls[<<e, "payer", c, "ok">>]
        /\ metered[<<e, "payer", c>>] \in Nat /\ tasks[<<e, c>>] \in Nat
        /\ rows[<<e, c, "SENT">>] \in Nat /\ calls[<<e, "payer", c, "ok">>] \in Nat
    BY DEF ChargeInv, ChargedOK, SentOK, CountsOK, Status, Audience, Answer
  <2>2. IsFiniteSet(Awaiting(e, c)) /\ Cardinality(Awaiting(e, c)) \in Nat
    BY AwaitingFinite
  <2>3. Awaiting(e, c)' = Awaiting(e, c) \ {s}
    BY <1>2
  <2>4. CASE e = mine /\ c = ch
    <3>1. rows'[<<e, c, "SENT">>] = rows[<<e, c, "SENT">>] + 1
      BY <1>4, <1>5, <2>4
    <3>2. tasks'[<<e, c>>] = tasks[<<e, c>>] + 1
      BY <1>4, <1>5, <2>4
    <3>3. Cardinality(Awaiting(e, c)') = Cardinality(Awaiting(e, c)) - 1
      BY <1>3, <2>2, <2>3, <2>4, FS_RemoveElement
    <3> QED
      BY <2>1, <2>2, <3>1, <3>2, <3>3
  <2>5. CASE ~(e = mine /\ c = ch)
    <3>1. rows'[<<e, c, "SENT">>] = rows[<<e, c, "SENT">>]
      BY <1>4, <1>5, <2>5 DEF Status
    <3>2. tasks'[<<e, c>>] = tasks[<<e, c>>]
      BY <1>4, <1>5, <2>5
    <3>3. Cardinality(Awaiting(e, c)') <= Cardinality(Awaiting(e, c))
          /\ Cardinality(Awaiting(e, c)') \in Nat
      BY <2>2, <2>3, FS_Subset, FS_CardinalityType
    <3> QED
      BY <2>1, <2>2, <3>1, <3>2, <3>3
  <2> QED
    BY <2>4, <2>5
<1>8. ChargedOK' /\ SentOK'
  BY <1>7 DEF ChargedOK, SentOK
<1> QED
  BY <1>2, <1>6, <1>8 DEF ChargeInv

LEMMA SkipCharge ==
  ASSUME ChargeInv, NEW s \in Slots, Skip(s)
  PROVE  ChargeInv'
<1>1. PICK ch \in Channels :
        /\ At(s, Send("payer", ch))
        /\ \/ Row(s, ch, "SKIPPED") /\ Goes(s, Tail(job[s].todo))
           \/ RowFails(s) /\ UNCHANGED rows
        /\ UNCHANGED <<queue, tasks, calls, metered>>
  BY DEF Skip, bus
<1>2. job[s].todo # <<>> /\ \E todo : Goes(s, todo)
  BY <1>1 DEF At, RowFails
<1>3. rows' = rows \/ \E status \in {"FAILED", "SKIPPED"} : Row(s, ch, status)
  BY <1>1
<1> QED
  BY <1>1, <1>2, <1>3, RowCharge

LEMMA ReturnPayerCharge ==
  ASSUME ChargeInv, NEW s \in Slots, ReturnPayer(s)
  PROVE  ChargeInv'
<1>1. PICK ch \in Channels :
        /\ Back(s, Send("payer", ch))
        /\ \/ /\ IF job[s].answer = "ok" THEN Sent(s, ch) ELSE NotSent(s, ch)
              /\ Goes(s, Rest(s))
           \/ Row(s, ch, "FAILED") /\ Goes(s, Rest(s)) /\ UNCHANGED tasks
           \/ RowFails(s) /\ UNCHANGED <<rows, tasks>>
        /\ UNCHANGED <<queue, calls, metered>>
  BY DEF ReturnPayer, bus
<1>2. job[s].todo # <<>>
  BY <1>1 DEF Back
<1>3. ASSUME job[s].answer = "ok", Sent(s, ch), Goes(s, Rest(s))
      PROVE  ChargeInv'
  BY <1>1, <1>3, SentCharge
<1>4. ASSUME NotSent(s, ch), Goes(s, Rest(s))
      PROVE  ChargeInv'
  <2>1. UNCHANGED tasks /\ \E status \in {"FAILED", "SKIPPED"} : Row(s, ch, status)
    BY <1>4 DEF NotSent
  <2> QED
    BY <1>1, <1>2, <1>4, <2>1, RowCharge
<1>5. ASSUME Row(s, ch, "FAILED"), Goes(s, Rest(s)), UNCHANGED tasks
      PROVE  ChargeInv'
  BY <1>1, <1>2, <1>5, RowCharge
<1>6. ASSUME RowFails(s), UNCHANGED <<rows, tasks>>
      PROVE  ChargeInv'
  <2>1. \E todo : Goes(s, todo)
    BY <1>6 DEF RowFails
  <2> QED
    BY <1>1, <1>2, <1>6, <2>1, RowCharge
<1> QED
  BY <1>1, <1>3, <1>4, <1>5, <1>6

LEMMA ChargeNext ==
  ASSUME ChargeInv, [Next]_vars
  PROVE  ChargeInv'
<1>1. ASSUME NEW s \in Slots, Work(s)
      PROVE  ChargeInv'
  BY <1>1, OthersCharge, CallCharge, SkipCharge, ReturnPayerCharge, FinishCharge DEF Work
<1>2. CASE UNCHANGED vars
  <2>1. UNCHANGED <<queue, job, tasks, rows, calls, metered>>
    BY <1>2 DEF vars, bus, log
  <2>2. JobsOK' /\ \A e \in Events, ch \in Channels : Awaiting(e, ch)' = Awaiting(e, ch)
    BY <2>1 DEF ChargeInv, JobsOK, Awaiting, Back
  <2> QED
    BY <2>1, <2>2, NoCharge
<1> QED
  BY <1>1, <1>2, RequestsCharge, DeliverCharge, PublishCharge, CrashCharge,
     LoseConnectionCharge DEF Next

\* What the business is charged for messages to payers (_publish_billing_notification of
\* the dispatcher) is never more than the notification_logs rows that say SENT, and those
\* never more than the provider accepted, for any events, handlers at a time, crashes,
\* lost connections and rows that fail.
THEOREM ChargedForSent == Spec => []MeteredIsSent
<1>1. ChargeInv => MeteredIsSent
  <2> SUFFICES ASSUME ChargeInv, NEW e \in Events, NEW ch \in Channels
               PROVE  /\ metered[<<e, "payer", ch>>] + tasks[<<e, ch>>] <= rows[<<e, ch, "SENT">>]
                      /\ rows[<<e, ch, "SENT">>] <= calls[<<e, "payer", ch, "ok">>]
    BY DEF MeteredIsSent
  <2>1. /\ metered[<<e, "payer", ch>>] + tasks[<<e, ch>>] <= rows[<<e, ch, "SENT">>]
        /\ Cardinality(Awaiting(e, ch)) + rows[<<e, ch, "SENT">>] <= calls[<<e, "payer", ch, "ok">>]
        /\ rows[<<e, ch, "SENT">>] \in Nat /\ calls[<<e, "payer", ch, "ok">>] \in Nat
    BY DEF ChargeInv, ChargedOK, SentOK, CountsOK, Status, Audience, Answer
  <2> QED
    BY <2>1, AwaitingFinite
<1> QED
  BY <1>1, ChargeInit, ChargeNext, PTL DEF Spec

-----------------------------------------------------------------------------
(* What a handler still has to do                                          *)

\* A provider that did not raise took the code, or every contact was tried.
Out(e) ==
  \/ \E ch \in Channels, a \in Answer \ {"raised"} : calls[<<e, "account", ch, a>>] > 0
  \/ \A ch \in event[e].contacts : calls[<<e, "account", ch, "raised">>] > 0

Has(todo, step) == \E i \in 1..Len(todo) : todo[i] = step

\* A handler of payments or obligations: the calls to the payer come first, and a
\* channel has its row or is still to come.
PayerOK(e, todo) ==
  /\ todo \in Seq(Step)
  /\ \A i, j \in 1..Len(todo) : i < j /\ todo[i].to # "payer" => todo[j].to # "payer"
  /\ \A ch \in event[e].contacts : Told(e, ch) > 0 \/ Has(todo, Send("payer", ch))

\* A handler of a code: a provider took it, or a contact was tried or is to come.
AccountOK(e, todo, answer) ==
  /\ todo \in Seq(Step) /\ \A i \in 1..Len(todo) : todo[i].to = "account"
  /\ todo # <<>> /\ answer # Nothing =>
       /\ answer \in Answer /\ Head(todo).ch \in Channels
       /\ calls[<<e, "account", Head(todo).ch, answer>>] > 0
  /\ \/ \E ch \in Channels, a \in Answer \ {"raised"} : calls[<<e, "account", ch, a>>] > 0
     \/ \A ch \in event[e].contacts :
          calls[<<e, "account", ch, "raised">>] > 0 \/ Has(todo, Send("account", ch))

WorkOK(e, todo, answer) ==
  e \in Events \ {Nothing} =>
    /\ event[e].kind \in ToPayer /\ e \notin aborted => PayerOK(e, todo)
    /\ event[e].kind \in Auth => AccountOK(e, todo, answer)

SlotOK(s) == WorkOK(job[s].event, job[s].todo, job[s].answer)

HandledInv ==
  /\ ChargeInv /\ event \in [Events -> Payload] /\ acked \subseteq Events
  /\ \A s \in Slots : SlotOK(s)
  /\ EveryChannelLogged /\ CodeIsAnswered

\* Rows and answers stay, and a row that could not be written is not forgotten.
Grows ==
  /\ event' = event /\ aborted \subseteq aborted'
  /\ \A x \in Events \X Channels \X Status : rows'[x] >= rows[x]
  /\ \A x \in Events \X Audience \X Channels \X Answer : calls'[x] >= calls[x]

LEMMA ToldGrows ==
  ASSUME Grows, CountsOK, CountsOK', NEW e \in Events, NEW ch \in Channels, Told(e, ch) > 0
  PROVE  Told(e, ch)' > 0
<1>1. \A status \in Status : <<e, ch, status>> \in Events \X Channels \X Status
  OBVIOUS
<1>2. {"SENT", "FAILED", "SKIPPED"} = Status
  BY DEF Status
<1>3. \A status \in Status : /\ rows[<<e, ch, status>>] \in Nat /\ rows'[<<e, ch, status>>] \in Nat
                             /\ rows'[<<e, ch, status>>] >= rows[<<e, ch, status>>]
  BY <1>1 DEF Grows, CountsOK
<1> QED
  BY <1>2, <1>3 DEF Told

LEMMA CallsGrow ==
  ASSUME Grows, CountsOK, CountsOK', NEW e \in Events, NEW ch \in Channels, NEW a \in Answer,
         calls[<<e, "account", ch, a>>] > 0
  PROVE  calls'[<<e, "account", ch, a>>] > 0
<1>1. <<e, "account", ch, a>> \in Events \X Audience \X Channels \X Answer
  BY DEF Audience
<1> QED
  BY <1>1 DEF Grows, CountsOK

LEMMA WorkGrows ==
  ASSUME Grows, CountsOK, CountsOK', event \in [Events -> Payload],
         NEW e, NEW todo, NEW answer, WorkOK(e, todo, answer)
  PROVE  WorkOK(e, todo, answer)'
<1> SUFFICES ASSUME e \in Events \ {Nothing}
             PROVE  /\ event'[e].kind \in ToPayer /\ e \notin aborted' => PayerOK(e, todo)'
                    /\ event'[e].kind \in Auth => AccountOK(e, todo, answer)'
  BY DEF WorkOK
<1>1. event' = event /\ event[e].contacts \subseteq Channels
  BY DEF Grows, Payload
<1>2. ASSUME event[e].kind \in ToPayer, e \notin aborted' PROVE PayerOK(e, todo)'
  <2>1. PayerOK(e, todo)
    BY <1>2 DEF WorkOK, Grows
  <2> QED
    BY <1>1, <2>1, ToldGrows DEF PayerOK
<1>3. ASSUME event[e].kind \in Auth PROVE AccountOK(e, todo, answer)'
  <2>1. AccountOK(e, todo, answer)
    BY <1>3 DEF WorkOK
  <2>2. "raised" \in Answer
    BY DEF Answer
  <2>3. ASSUME todo # <<>>, answer # Nothing
        PROVE  /\ answer \in Answer /\ Head(todo).ch \in Channels
               /\ calls'[<<e, "account", Head(todo).ch, answer>>] > 0
    <3>1. /\ answer \in Answer /\ Head(todo).ch \in Channels
          /\ calls[<<e, "account", Head(todo).ch, answer>>] > 0
      BY <2>1, <2>3 DEF AccountOK
    <3> QED
      BY <3>1, CallsGrow
  <2> QED
    BY <1>1, <2>1, <2>2, <2>3, CallsGrow DEF AccountOK
<1> QED
  BY <1>1, <1>2, <1>3

LEMMA LogsGrow ==
  ASSUME Grows, CountsOK, CountsOK', event \in [Events -> Payload], acked \subseteq Events,
         acked' = acked, EveryChannelLogged, CodeIsAnswered
  PROVE  EveryChannelLogged' /\ CodeIsAnswered'
<1>1. event' = event /\ aborted \subseteq aborted' /\ \A e \in Events : event[e].contacts \subseteq Channels
  BY DEF Grows, Payload
<1>2. EveryChannelLogged'
  BY <1>1, ToldGrows DEF EveryChannelLogged
<1>3. CodeIsAnswered'
  <2>1. "raised" \in Answer
    BY DEF Answer
  <2> QED
    BY <1>1, <2>1, CallsGrow DEF CodeIsAnswered
<1> QED
  BY <1>2, <1>3

\* A handler whose next state is known.
LEMMA SlotIs ==
  ASSUME NEW r \in Slots, NEW e, NEW todo, NEW answer,
         job'[r].event = e, job'[r].todo = todo, job'[r].answer = answer,
         WorkOK(e, todo, answer)'
  PROVE  SlotOK(r)'
  BY DEF SlotOK, WorkOK, PayerOK, AccountOK, Told

\* A step of one handler, that acknowledges nothing.
LEMMA OneHandler ==
  ASSUME HandledInv, ChargeInv', Grows, acked' = acked, NEW s \in Slots,
         \A r \in Slots \ {s} : job'[r] = job[r],
         SlotOK(s)'
  PROVE  HandledInv'
<1>1. CountsOK /\ CountsOK' /\ event \in [Events -> Payload] /\ event' = event
  BY DEF HandledInv, ChargeInv, Grows
<1>2. ASSUME NEW r \in Slots \ {s} PROVE SlotOK(r)'
  <2>1. WorkOK(job[r].event, job[r].todo, job[r].answer)
    BY DEF HandledInv, SlotOK
  <2>2. PICK e, todo, answer :
          e = job[r].event /\ todo = job[r].todo /\ answer = job[r].answer
    OBVIOUS
  <2>3. WorkOK(e, todo, answer)'
    BY <1>1, <2>1, <2>2, WorkGrows
  <2> QED
    BY <2>2, <2>3, SlotIs
<1>3. EveryChannelLogged' /\ CodeIsAnswered'
  BY <1>1, LogsGrow DEF HandledInv
<1> QED
  BY <1>1, <1>2, <1>3 DEF HandledInv

\* A step that leaves the handlers at their calls.
LEMMA NoHandler ==
  ASSUME HandledInv, ChargeInv', Grows, acked' = acked,
         \A r \in Slots : \/ job'[r].event = Nothing
                          \/ /\ job'[r].event = job[r].event /\ job'[r].todo = job[r].todo
                             /\ job'[r].answer = job[r].answer
  PROVE  HandledInv'
<1>1. CountsOK /\ CountsOK' /\ event \in [Events -> Payload] /\ event' = event
  BY DEF HandledInv, ChargeInv, Grows
<1>2. ASSUME NEW r \in Slots PROVE SlotOK(r)'
  <2>1. WorkOK(job[r].event, job[r].todo, job[r].answer)
    BY DEF HandledInv, SlotOK
  <2>2. PICK e, todo, answer :
          e = job[r].event /\ todo = job[r].todo /\ answer = job[r].answer
    OBVIOUS
  <2>3. WorkOK(e, todo, answer)'
    BY <1>1, <2>1, <2>2, WorkGrows
  <2>4. CASE job'[r].event = Nothing
    BY <2>4 DEF SlotOK, WorkOK
  <2>5. CASE job'[r].event # Nothing
    BY <2>2, <2>3, <2>5, SlotIs
  <2> QED
    BY <2>4, <2>5
<1>3. EveryChannelLogged' /\ CodeIsAnswered'
  BY <1>1, LogsGrow DEF HandledInv
<1> QED
  BY <1>1, <1>2, <1>3 DEF HandledInv

LEMMA StandsStill ==
  ASSUME HandledInv, UNCHANGED <<event, aborted, rows, calls>>
  PROVE  Grows
<1>1. /\ rows \in [Events \X Channels \X Status -> Nat]
      /\ calls \in [Events \X Audience \X Channels \X Answer -> Nat]
  BY DEF HandledInv, ChargeInv, CountsOK
<1>2. /\ \A x \in Events \X Channels \X Status : rows[x] \in Nat
      /\ \A x \in Events \X Audience \X Channels \X Answer : calls[x] \in Nat
  BY <1>1
<1> QED
  BY <1>2 DEF Grows

LEMMA QuietHandled ==
  ASSUME HandledInv, ChargeInv',
         \/ CreateTemplate \/ CreateBulk \/ UpdateTemplate \/ DeleteTemplate
         \/ UpdateSettings \/ UpdatePrefs \/ Crash \/ LoseConnection
         \/ \E t \in Events \X Channels : PublishTask(t)
         \/ UNCHANGED vars
  PROVE  HandledInv'
<1>1. UNCHANGED <<event, aborted, rows, calls, acked>>
  BY DEF CreateTemplate, CreateBulk, UpdateTemplate, DeleteTemplate, UpdateSettings, UpdatePrefs,
         Unchanged, Crash, LoseConnection, PublishTask, bus, world, log, vars
<1>2. Grows
  BY <1>1, StandsStill
<1>3. \/ job' = job \/ job' = [s \in Slots |-> Idle]
      \/ job' = [s \in Slots |-> [job[s] EXCEPT !.acks = FALSE]]
  BY DEF CreateTemplate, CreateBulk, UpdateTemplate, DeleteTemplate, UpdateSettings, UpdatePrefs,
         Unchanged, Crash, LoseConnection, PublishTask, vars
<1>4. \A r \in Slots : job[r] = [f \in JobFields |-> job[r][f]]
  BY DEF HandledInv, ChargeInv, JobsOK
<1>5. \A r \in Slots : \/ job'[r].event = Nothing
                       \/ /\ job'[r].event = job[r].event /\ job'[r].todo = job[r].todo
                          /\ job'[r].answer = job[r].answer
  <2>1. Idle.event = Nothing
    BY DEF Idle
  <2>2. CASE job' = job
    BY <2>2
  <2>3. CASE job' = [s \in Slots |-> Idle]
    BY <2>1, <2>3
  <2>4. CASE job' = [s \in Slots |-> [job[s] EXCEPT !.acks = FALSE]]
    BY <1>4, <2>4 DEF JobFields
  <2> QED
    BY <1>3, <2>2, <2>3, <2>4
<1> QED
  BY <1>1, <1>2, <1>5, NoHandler

-----------------------------------------------------------------------------
(* The calls of a handler                                                  *)

AllTo(todo, to) == todo \in Seq(Step) /\ \A i \in 1..Len(todo) : todo[i].to = to

LEMMA ThroughOK ==
  ASSUME NEW to \in Audience, NEW ch, NEW contacts, contacts \subseteq Channels
  PROVE  /\ AllTo(Through(to, ch, contacts), to)
         /\ ch \in contacts => Has(Through(to, ch, contacts), Send(to, ch))
<1>1. CASE ch \in contacts
  <2>1. Through(to, ch, contacts) = <<Send(to, ch)>> /\ Send(to, ch) \in Step
        /\ Send(to, ch).to = to
    BY <1>1 DEF Through, Send, Step
  <2> QED
    BY <2>1 DEF AllTo, Has
<1>2. CASE ch \notin contacts
  <2>1. Through(to, ch, contacts) = <<>>
    BY <1>2 DEF Through
  <2>2. <<>> \in Seq(Step) /\ Len(<<>>) = 0
    OBVIOUS
  <2> QED
    BY <1>2, <2>1, <2>2 DEF AllTo
<1> QED
  BY <1>1, <1>2

LEMMA Joined ==
  ASSUME NEW s \in Seq(Step), NEW t \in Seq(Step)
  PROVE  /\ s \o t \in Seq(Step) /\ Len(s \o t) = Len(s) + Len(t)
         /\ \A i \in 1..Len(s) : (s \o t)[i] = s[i]
         /\ \A i \in 1..Len(t) : (s \o t)[Len(s) + i] = t[i]
         /\ \A i \in 1..(Len(s) + Len(t)) :
              \/ i \in 1..Len(s)
              \/ i - Len(s) \in 1..Len(t) /\ i = Len(s) + (i - Len(s))
         /\ \A step : Has(s, step) \/ Has(t, step) => Has(s \o t, step)
<1>1. Len(s) \in Nat /\ Len(t) \in Nat
  BY LenProperties
<1>2. /\ s \o t \in Seq(Step) /\ Len(s \o t) = Len(s) + Len(t)
      /\ \A i \in 1..(Len(s) + Len(t)) :
           (s \o t)[i] = IF i <= Len(s) THEN s[i] ELSE t[i - Len(s)]
  BY <1>1, ConcatProperties
<1> DEFINE both == s \o t
<1> HIDE DEF both
<1>3. \A i \in 1..Len(s) : both[i] = s[i]
  BY <1>1, <1>2 DEF both
<1>4. \A i \in 1..Len(t) : both[Len(s) + i] = t[i]
  <2> SUFFICES ASSUME NEW i \in 1..Len(t) PROVE both[Len(s) + i] = t[i]
    OBVIOUS
  <2>1. Len(s) + i \in 1..(Len(s) + Len(t)) /\ ~(Len(s) + i <= Len(s)) /\ Len(s) + i - Len(s) = i
    BY <1>1
  <2> QED
    BY <1>2, <2>1 DEF both
<1>5. \A step : Has(s, step) \/ Has(t, step) => Has(both, step)
  <2>1. ASSUME NEW step, NEW i \in 1..Len(s), s[i] = step PROVE Has(both, step)
    <3>1. i \in 1..Len(both) /\ both[i] = step
      BY <1>1, <1>2, <1>3, <2>1 DEF both
    <3> QED
      BY <3>1 DEF Has
  <2>2. ASSUME NEW step, NEW i \in 1..Len(t), t[i] = step PROVE Has(both, step)
    <3>1. Len(s) + i \in 1..Len(both) /\ both[Len(s) + i] = step
      BY <1>1, <1>2, <1>4, <2>2 DEF both
    <3> QED
      BY <3>1 DEF Has
  <2> QED
    BY <2>1, <2>2 DEF Has
<1> QED
  BY <1>1, <1>2, <1>3, <1>4, <1>5 DEF both

LEMMA AllJoined ==
  ASSUME NEW to, NEW s, NEW t, AllTo(s, to), AllTo(t, to)
  PROVE  AllTo(s \o t, to)
<1>1. s \in Seq(Step) /\ t \in Seq(Step)
  BY DEF AllTo
<1> DEFINE both == s \o t
<1>2. /\ both \in Seq(Step) /\ Len(both) = Len(s) + Len(t)
      /\ \A i \in 1..Len(s) : both[i] = s[i]
      /\ \A i \in 1..Len(t) : both[Len(s) + i] = t[i]
      /\ \A i \in 1..(Len(s) + Len(t)) :
           \/ i \in 1..Len(s)
           \/ i - Len(s) \in 1..Len(t) /\ i = Len(s) + (i - Len(s))
  BY <1>1, Joined
<1> HIDE DEF both
<1>3. ASSUME NEW i \in 1..Len(both) PROVE both[i].to = to
  <2>1. CASE i \in 1..Len(s)
    BY <1>2, <2>1 DEF AllTo
  <2>2. CASE i - Len(s) \in 1..Len(t) /\ i = Len(s) + (i - Len(s))
    <3>1. both[i] = t[i - Len(s)]
      BY <1>2, <2>2
    <3> QED
      BY <2>2, <3>1 DEF AllTo
  <2> QED
    BY <1>2, <1>3, <2>1, <2>2
<1> QED
  BY <1>2, <1>3 DEF AllTo, both

\* TextThenMail and MailThenText go through every contact.
LEMMA BothOK ==
  ASSUME NEW to \in Audience, NEW contacts, contacts \subseteq Channels
  PROVE  /\ AllTo(TextThenMail(to, contacts), to) /\ AllTo(MailThenText(to, contacts), to)
         /\ \A ch \in contacts : /\ Has(TextThenMail(to, contacts), Send(to, ch))
                                 /\ Has(MailThenText(to, contacts), Send(to, ch))
<1> DEFINE text == Through(to, "sms", contacts)
           mail == Through(to, "email", contacts)
<1>1. /\ AllTo(text, to) /\ AllTo(mail, to)
      /\ "sms" \in contacts => Has(text, Send(to, "sms"))
      /\ "email" \in contacts => Has(mail, Send(to, "email"))
  BY ThroughOK
<1>2. text \in Seq(Step) /\ mail \in Seq(Step)
  BY <1>1 DEF AllTo
<1> HIDE DEF text, mail
<1>3. AllTo(text \o mail, to) /\ AllTo(mail \o text, to)
  BY <1>1, AllJoined
<1>4. \A ch \in contacts : Has(text \o mail, Send(to, ch)) /\ Has(mail \o text, Send(to, ch))
  <2>1. \A step : Has(text, step) \/ Has(mail, step) =>
                    Has(text \o mail, step) /\ Has(mail \o text, step)
    BY <1>2, Joined
  <2>2. \A ch \in contacts : ch = "sms" \/ ch = "email"
    BY DEF Channels
  <2> QED
    BY <1>1, <2>1, <2>2
<1> QED
  BY <1>3, <1>4 DEF TextThenMail, MailThenText, text, mail

\* A handler that begins has every contact before it.
LEMMA HandlerOK ==
  ASSUME NEW e \in Events, event \in [Events -> Payload]
  PROVE  WorkOK(e, Handler(e), Nothing)
<1> DEFINE p == event[e]
<1>1. p \in Payload /\ p.contacts \subseteq Channels
  BY DEF Payload
<1>2. ASSUME p.kind \in ToPayer PROVE PayerOK(e, Handler(e))
  <2> DEFINE s == TextThenMail("payer", p.contacts)
             t == IF p.kind \in Payment THEN <<Send("owner", "ask")>> ELSE <<>>
             todo == s \o t
  <2>1. Handler(e) = todo
    BY <1>2 DEF Handler
  <2>2. AllTo(s, "payer") /\ \A ch \in p.contacts : Has(s, Send("payer", ch))
    BY <1>1, BothOK DEF Audience
  <2>3. AllTo(t, "owner")
    <3>1. Send("owner", "ask") \in Step /\ Send("owner", "ask").to = "owner"
      BY DEF Send, Step, Audience
    <3>2. <<>> \in Seq(Step) /\ Len(<<>>) = 0
      OBVIOUS
    <3>3. AllTo(<<Send("owner", "ask")>>, "owner") /\ AllTo(<<>>, "owner")
      BY <3>1, <3>2 DEF AllTo
    <3> QED
      BY <3>3
  <2>4. s \in Seq(Step) /\ t \in Seq(Step)
    BY <2>2, <2>3 DEF AllTo
  <2> HIDE DEF s, t
  <2>5. /\ todo \in Seq(Step) /\ Len(todo) = Len(s) + Len(t)
        /\ \A i \in 1..Len(s) : todo[i] = s[i]
        /\ \A i \in 1..Len(t) : todo[Len(s) + i] = t[i]
        /\ \A i \in 1..(Len(s) + Len(t)) :
             \/ i \in 1..Len(s)
             \/ i - Len(s) \in 1..Len(t) /\ i = Len(s) + (i - Len(s))
        /\ \A step : Has(s, step) => Has(todo, step)
    BY <2>4, Joined
  <2> HIDE DEF todo
  <2>6. \A i \in 1..Len(todo) : /\ i \in 1..Len(s) => todo[i].to = "payer"
                                /\ i \notin 1..Len(s) => todo[i].to = "owner"
    <3> SUFFICES ASSUME NEW i \in 1..Len(todo)
                 PROVE  /\ i \in 1..Len(s) => todo[i].to = "payer"
                        /\ i \notin 1..Len(s) => todo[i].to = "owner"
      OBVIOUS
    <3>1. CASE i \in 1..Len(s)
      BY <2>2, <2>5, <3>1 DEF AllTo
    <3>2. CASE i \notin 1..Len(s)
      <4>1. i - Len(s) \in 1..Len(t) /\ i = Len(s) + (i - Len(s))
        BY <2>5, <3>2
      <4>2. todo[i] = t[i - Len(s)]
        BY <2>5, <4>1
      <4> QED
        BY <2>3, <3>2, <4>1, <4>2 DEF AllTo
    <3> QED
      BY <3>1, <3>2
  <2>7. Len(s) \in Nat /\ Len(todo) \in Nat
    BY <2>4, <2>5, LenProperties
  <2>8. \A i, j \in 1..Len(todo) : i < j /\ todo[i].to # "payer" => todo[j].to # "payer"
    BY <2>6, <2>7
  <2> QED
    BY <2>1, <2>2, <2>5, <2>8 DEF PayerOK
<1>3. ASSUME p.kind \in Auth PROVE AccountOK(e, Handler(e), Nothing)
  <2> DEFINE s == Through("account", p.primary, p.contacts)
             t == MailThenText("account", p.contacts)
  <2>1. p.kind \notin ToPayer /\ p.kind \notin Config /\ p.kind \notin Topup
    BY <1>3 DEF Auth, ToPayer, Config, Topup, Payment
  <2>2. Handler(e) = s \o t
    BY <2>1 DEF Handler, CodeSteps
  <2>3. /\ AllTo(s, "account") /\ AllTo(t, "account")
        /\ \A ch \in p.contacts : Has(t, Send("account", ch))
    BY <1>1, ThroughOK, BothOK DEF Audience
  <2> HIDE DEF s, t
  <2>4. AllTo(s \o t, "account")
    BY <2>3, AllJoined
  <2>5. \A ch \in p.contacts : Has(s \o t, Send("account", ch))
    BY <2>3, Joined DEF AllTo
  <2> QED
    BY <2>2, <2>4, <2>5 DEF AccountOK, AllTo
<1> QED
  BY <1>2, <1>3 DEF WorkOK

-----------------------------------------------------------------------------
(* What is left of a handler's calls                                       *)

LEMMA TailOf ==
  ASSUME NEW todo \in Seq(Step), todo # <<>>
  PROVE  /\ Tail(todo) \in Seq(Step) /\ Len(todo) \in Nat /\ Len(Tail(todo)) = Len(todo) - 1
         /\ 1 \in 1..Len(todo) /\ todo[1] = Head(todo)
         /\ \A i \in 1..Len(Tail(todo)) : i + 1 \in 1..Len(todo) /\ Tail(todo)[i] = todo[i + 1]
         /\ \A step : Has(todo, step) /\ step # Head(todo) => Has(Tail(todo), step)
<1> DEFINE rest == Tail(todo)
<1>1. Len(todo) \in Nat /\ Len(todo) > 0
  BY EmptySeq, LenProperties
<1>2. /\ rest \in Seq(Step) /\ Len(rest) = Len(todo) - 1 /\ Head(todo) = todo[1]
      /\ \A i \in 1..Len(rest) : rest[i] = todo[i + 1]
  BY HeadTailProperties
<1> HIDE DEF rest
<1>3. ASSUME NEW step, NEW i \in 1..Len(todo), todo[i] = step, step # Head(todo)
      PROVE  Has(rest, step)
  <2>1. i - 1 \in 1..Len(rest) /\ (i - 1) + 1 = i
    BY <1>1, <1>2, <1>3
  <2>2. rest[i - 1] = step
    BY <1>2, <1>3, <2>1
  <2> QED
    BY <2>1, <2>2 DEF Has
<1>4. \A i \in 1..Len(rest) : i + 1 \in 1..Len(todo)
  BY <1>1, <1>2
<1>5. \A step : Has(todo, step) /\ step # Head(todo) => Has(rest, step)
  BY <1>3 DEF Has
<1> QED
  BY <1>1, <1>2, <1>4, <1>5 DEF rest

\* The head is done: its row is written, or it was not to the payer.
LEMMA PayerTail ==
  ASSUME NEW e, NEW todo, PayerOK(e, todo)', todo # <<>>,
         \A ch \in event'[e].contacts : Head(todo) = Send("payer", ch) => Told(e, ch)' > 0
  PROVE  PayerOK(e, Tail(todo))'
<1> DEFINE rest == Tail(todo)
<1>1. /\ todo \in Seq(Step)
      /\ \A i, j \in 1..Len(todo) : i < j /\ todo[i].to # "payer" => todo[j].to # "payer"
      /\ \A ch \in event'[e].contacts : Told(e, ch)' > 0 \/ Has(todo, Send("payer", ch))
  BY DEF PayerOK, Has
<1>2. /\ rest \in Seq(Step) /\ Len(todo) \in Nat /\ Len(rest) = Len(todo) - 1
      /\ \A i \in 1..Len(rest) : i + 1 \in 1..Len(todo) /\ rest[i] = todo[i + 1]
      /\ \A step : Has(todo, step) /\ step # Head(todo) => Has(rest, step)
  BY <1>1, TailOf
<1> HIDE DEF rest
<1>3. \A i, j \in 1..Len(rest) : i < j /\ rest[i].to # "payer" => rest[j].to # "payer"
  <2> SUFFICES ASSUME NEW i \in 1..Len(rest), NEW j \in 1..Len(rest), i < j, rest[i].to # "payer"
               PROVE  rest[j].to # "payer"
    OBVIOUS
  <2>1. i + 1 \in 1..Len(todo) /\ j + 1 \in 1..Len(todo) /\ i + 1 < j + 1
    BY <1>2
  <2>2. rest[i] = todo[i + 1] /\ rest[j] = todo[j + 1]
    BY <1>2
  <2> QED
    BY <1>1, <2>1, <2>2
<1>4. \A ch \in event'[e].contacts : Told(e, ch)' > 0 \/ Has(rest, Send("payer", ch))
  BY <1>1, <1>2
<1>5. PayerOK(e, rest)'
  BY <1>2, <1>3, <1>4 DEF PayerOK, Has, Told
<1> QED
  BY <1>5 DEF rest

\* Once the head is not to the payer, the payer has been told.
LEMMA PayerDone ==
  ASSUME NEW e, NEW todo, PayerOK(e, todo)', todo # <<>>, Head(todo).to # "payer"
  PROVE  \A ch \in event'[e].contacts : Told(e, ch)' > 0
<1>1. /\ todo \in Seq(Step)
      /\ \A i, j \in 1..Len(todo) : i < j /\ todo[i].to # "payer" => todo[j].to # "payer"
      /\ \A ch \in event'[e].contacts : Told(e, ch)' > 0 \/ Has(todo, Send("payer", ch))
  BY DEF PayerOK, Has
<1>2. 1 \in 1..Len(todo) /\ todo[1] = Head(todo) /\ Len(todo) \in Nat
  BY <1>1, TailOf
<1>3. \A i \in 1..Len(todo) : todo[i].to # "payer"
  <2> SUFFICES ASSUME NEW i \in 1..Len(todo) PROVE todo[i].to # "payer"
    OBVIOUS
  <2>1. i = 1 \/ 1 < i
    BY <1>2
  <2> QED
    BY <1>1, <1>2, <2>1
<1>4. \A ch : Send("payer", ch).to = "payer"
  BY DEF Send
<1>5. \A ch : ~Has(todo, Send("payer", ch))
  BY <1>3, <1>4 DEF Has
<1> QED
  BY <1>1, <1>5

\* A code whose head raised goes on to the rest.
LEMMA AccountTail ==
  ASSUME NEW e, NEW todo, AccountOK(e, todo, "raised")', todo # <<>>, "raised" # Nothing
  PROVE  AccountOK(e, Tail(todo), Nothing)'
<1> DEFINE rest == Tail(todo)
<1>1. /\ todo \in Seq(Step) /\ \A i \in 1..Len(todo) : todo[i].to = "account"
      /\ calls'[<<e, "account", Head(todo).ch, "raised">>] > 0
      /\ \/ \E ch \in Channels, a \in Answer \ {"raised"} : calls'[<<e, "account", ch, a>>] > 0
         \/ \A ch \in event'[e].contacts :
              calls'[<<e, "account", ch, "raised">>] > 0 \/ Has(todo, Send("account", ch))
  BY DEF AccountOK, Has
<1>2. /\ rest \in Seq(Step) 
      /\ \A i \in 1..Len(rest) : i + 1 \in 1..Len(todo) /\ rest[i] = todo[i + 1]
      /\ \A step : Has(todo, step) /\ step # Head(todo) => Has(rest, step)
  BY <1>1, TailOf
<1> HIDE DEF rest
<1>3. \A ch : Send("account", ch).ch = ch
  BY DEF Send
<1>4. \/ \E ch \in Channels, a \in Answer \ {"raised"} : calls'[<<e, "account", ch, a>>] > 0
      \/ \A ch \in event'[e].contacts :
           calls'[<<e, "account", ch, "raised">>] > 0 \/ Has(rest, Send("account", ch))
  BY <1>1, <1>2, <1>3
<1>5. AccountOK(e, rest, Nothing)'
  BY <1>1, <1>2, <1>4 DEF AccountOK, Has
<1> QED
  BY <1>5 DEF rest

\* A code whose head went out is done.
LEMMA AccountDone ==
  ASSUME NEW e, NEW todo, NEW answer, AccountOK(e, todo, answer)', todo # <<>>,
         answer # "raised", answer # Nothing
  PROVE  AccountOK(e, <<>>, Nothing)'
<1>1. answer \in Answer \ {"raised"} /\ Head(todo).ch \in Channels
      /\ calls'[<<e, "account", Head(todo).ch, answer>>] > 0
  BY DEF AccountOK
<1>2. <<>> \in Seq(Step) /\ Len(<<>>) = 0
  OBVIOUS
<1>3. \E ch \in Channels, a \in Answer \ {"raised"} : calls'[<<e, "account", ch, a>>] > 0
  BY <1>1
<1>4. \A i \in 1..Len(<<>>) : <<>>[i].to = "account"
  BY <1>2
<1> QED
  BY <1>2, <1>3, <1>4 DEF AccountOK

\* A handler that goes on to what is left of its calls.
LEMMA HandlerGoes ==
  ASSUME HandledInv, ChargeInv', Grows, acked' = acked, NEW s \in Slots,
         NEW e, NEW todo, NEW answer, NEW new,
         e = job[s].event, todo = job[s].todo, answer = job[s].answer,
         Goes(s, new), WorkOK(e, todo, answer)' => WorkOK(e, new, Nothing)'
  PROVE  HandledInv'
<1>1. job[s] = [f \in JobFields |-> job[s][f]] /\ job = [r \in Slots |-> job[r]]
  BY DEF HandledInv, ChargeInv, JobsOK
<1>2. job' = [job EXCEPT ![s] = [job[s] EXCEPT !.todo = new, !.answer = Nothing]]
  BY <1>1 DEF Goes
<1>3. /\ job'[s].event = e /\ job'[s].todo = new /\ job'[s].answer = Nothing
      /\ \A r \in Slots \ {s} : job'[r] = job[r]
  BY <1>1, <1>2 DEF JobFields
<1>4. WorkOK(e, todo, answer)
  BY DEF HandledInv, SlotOK
<1>5. WorkOK(e, new, Nothing)'
  BY <1>4, WorkGrows DEF HandledInv, ChargeInv
<1>6. SlotOK(s)'
  BY <1>3, <1>5, SlotIs
<1> QED
  BY <1>3, <1>6, OneHandler

LEMMA KindsDiffer == ToPayer \cap Auth = {}
  BY DEF ToPayer, Payment, Auth

\* The head of a code's calls is to the account, that of the others' is not.
LEMMA AccountHead ==
  ASSUME NEW e, NEW todo, NEW answer, AccountOK(e, todo, answer)', todo # <<>>
  PROVE  Head(todo).to = "account"
<1>1. todo \in Seq(Step) /\ \A i \in 1..Len(todo) : todo[i].to = "account"
  BY DEF AccountOK
<1> QED
  BY <1>1, TailOf

LEMMA HandledInit == Init => HandledInv
<1> SUFFICES ASSUME Init PROVE HandledInv
  OBVIOUS
<1>1. ChargeInv
  BY ChargeInit
<1>2. event \in [Events -> Payload] /\ acked = {}
  BY NotificationsAssumption DEF Init
<1>3. \A s \in Slots : job[s].event = Nothing
  BY DEF Init, Idle
<1> QED
  BY <1>1, <1>2, <1>3 DEF HandledInv, SlotOK, WorkOK, EveryChannelLogged, CodeIsAnswered

LEMMA DeliverHandled ==
  ASSUME HandledInv, ChargeInv', NEW s \in Slots, Deliver(s)
  PROVE  HandledInv'
<1>1. PICK e \in queue :
        job' = [job EXCEPT ![s] = [event |-> e, todo |-> Handler(e), answer |-> Nothing,
                                   acks |-> TRUE]]
  BY DEF Deliver
<1>2. UNCHANGED <<event, aborted, rows, calls, acked>>
  BY DEF Deliver, world, log
<1>3. Grows
  BY <1>2, StandsStill
<1>4. e \in Events /\ event \in [Events -> Payload] /\ job = [r \in Slots |-> job[r]]
  BY DEF HandledInv, ChargeInv, JobsOK
<1>5. PICK todo : todo = Handler(e)
  OBVIOUS
<1>6. WorkOK(e, todo, Nothing)
  BY <1>4, <1>5, HandlerOK
<1>7. WorkOK(e, todo, Nothing)'
  BY <1>3, <1>4, <1>6, WorkGrows DEF HandledInv, ChargeInv
<1>8. /\ job'[s].event = e /\ job'[s].todo = todo /\ job'[s].answer = Nothing
      /\ \A r \in Slots \ {s} : job'[r] = job[r]
  BY <1>1, <1>4, <1>5
<1>9. SlotOK(s)'
  BY <1>7, <1>8, SlotIs
<1> QED
  BY <1>2, <1>3, <1>8, <1>9, OneHandler

LEMMA AskHandled ==
  ASSUME HandledInv, ChargeInv', NEW s \in Slots, AskPreferences(s)
  PROVE  HandledInv'
<1>1. UNCHANGED <<event, aborted, rows, calls, acked>> /\ At(s, Send("owner", "ask"))
  BY DEF AskPreferences, bus, world, log
<1>2. Grows
  BY <1>1, StandsStill
<1>3. PICK e, todo, answer, new :
        /\ e = job[s].event /\ todo = job[s].todo /\ answer = job[s].answer
        /\ new = IF meta # Nothing /\ meta.on
                 THEN MailThenText("owner", meta.channels \cap OwnerContacts) ELSE <<>>
  OBVIOUS
<1>4. Goes(s, new) /\ todo # <<>> /\ Head(todo).to = "owner"
  BY <1>1, <1>3 DEF AskPreferences, At, Send
<1>5. AllTo(new, "owner")
  <2>1. "owner" \in Audience /\ OwnerContacts \subseteq Channels
    BY NotificationsAssumption DEF Audience
  <2>2. AllTo(MailThenText("owner", meta.channels \cap OwnerContacts), "owner")
    BY <2>1, BothOK
  <2>3. <<>> \in Seq(Step) /\ Len(<<>>) = 0
    OBVIOUS
  <2>4. AllTo(<<>>, "owner")
    BY <2>3 DEF AllTo
  <2> QED
    BY <1>3, <2>2, <2>4
<1>6. ASSUME WorkOK(e, todo, answer)' PROVE WorkOK(e, new, Nothing)'
  <2> SUFFICES ASSUME e \in Events \ {Nothing}
               PROVE  /\ event'[e].kind \in ToPayer /\ e \notin aborted' => PayerOK(e, new)'
                      /\ event'[e].kind \in Auth => AccountOK(e, new, Nothing)'
    BY DEF WorkOK, PayerOK, AccountOK, Told
  <2>1. ASSUME PayerOK(e, todo)' PROVE PayerOK(e, new)'
    <3>1. \A ch \in event'[e].contacts : Told(e, ch)' > 0
      BY <1>4, <2>1, PayerDone
    <3>2. new \in Seq(Step) /\ \A i \in 1..Len(new) : new[i].to = "owner"
      BY <1>5 DEF AllTo
    <3> QED
      BY <3>1, <3>2 DEF PayerOK, Told
  <2>2. ~AccountOK(e, todo, answer)'
    BY <1>4, AccountHead
  <2> QED
    BY <1>6, <2>1, <2>2 DEF WorkOK, PayerOK, AccountOK, Told
<1> QED
  BY <1>1, <1>2, <1>3, <1>4, <1>6, HandlerGoes

\* A call is answered: what the provider said is counted.
LEMMA CallHandled ==
  ASSUME HandledInv, ChargeInv', NEW s \in Slots, Call(s)
  PROVE  HandledInv'
<1>1. PICK to \in Audience, ch \in Channels, a \in Answer :
        /\ At(s, Send(to, ch))
        /\ job' = [job EXCEPT ![s].answer = a]
        /\ calls' = Count(calls, <<job[s].event, to, ch, a>>)
        /\ UNCHANGED <<event, acked, aborted, rows>>
  BY DEF Call, Answers, Answer, bus, world
<1>2. PICK e, todo, answer : e = job[s].event /\ todo = job[s].todo /\ answer = job[s].answer
  OBVIOUS
<1>3. /\ job[s] = [f \in JobFields |-> job[s][f]] /\ job = [r \in Slots |-> job[r]]
      /\ e \in Events /\ todo # <<>> /\ Head(todo).to = to /\ Head(todo).ch = ch
  BY <1>1, <1>2 DEF HandledInv, ChargeInv, JobsOK, At, Send
<1>4. job' = [job EXCEPT ![s] = [job[s] EXCEPT !.answer = a]]
  BY <1>1, <1>3
<1>5. /\ job'[s].event = e /\ job'[s].todo = todo /\ job'[s].answer = a
      /\ \A r \in Slots \ {s} : job'[r] = job[r]
  BY <1>2, <1>3, <1>4 DEF JobFields
<1>6. calls \in [Events \X Audience \X Channels \X Answer -> Nat]
  BY DEF HandledInv, ChargeInv, CountsOK
<1>7. /\ \A x \in Events \X Audience \X Channels \X Answer : calls'[x] >= calls[x]
      /\ calls'[<<e, to, ch, a>>] > 0
  <2>1. PICK mine : mine = <<e, to, ch, a>>
    OBVIOUS
  <2>2. mine \in Events \X Audience \X Channels \X Answer
    BY <1>3, <2>1
  <2>3. calls' = [calls EXCEPT ![mine] = @ + 1]
    BY <1>1, <1>2, <2>1 DEF Count
  <2>4. \A x \in Events \X Audience \X Channels \X Answer : calls[x] \in Nat
    BY <1>6
  <2>5. calls'[mine] = calls[mine] + 1
    BY <1>6, <2>2, <2>3
  <2>6. \A x \in Events \X Audience \X Channels \X Answer : x # mine => calls'[x] = calls[x]
    BY <1>6, <2>3
  <2> QED
    BY <2>1, <2>2, <2>4, <2>5, <2>6
<1>8. Grows
  <2>1. \A x \in Events \X Channels \X Status : rows[x] \in Nat
    BY DEF HandledInv, ChargeInv, CountsOK
  <2> QED
    BY <1>1, <1>7, <2>1 DEF Grows
<1>9. WorkOK(e, todo, answer)'
  <2>1. WorkOK(e, todo, answer)
    BY <1>2 DEF HandledInv, SlotOK
  <2> QED
    BY <1>8, <2>1, WorkGrows DEF HandledInv, ChargeInv
<1>10. WorkOK(e, todo, a)'
  <2> SUFFICES ASSUME e \in Events \ {Nothing}
               PROVE  /\ event'[e].kind \in ToPayer /\ e \notin aborted' => PayerOK(e, todo)'
                      /\ event'[e].kind \in Auth => AccountOK(e, todo, a)'
    BY DEF WorkOK, PayerOK, AccountOK, Told
  <2>1. ASSUME AccountOK(e, todo, answer)' PROVE AccountOK(e, todo, a)'
    <3>1. to = "account"
      BY <1>3, <2>1, AccountHead
    <3>2. calls'[<<e, "account", Head(todo).ch, a>>] > 0 /\ a \in Answer /\ Head(todo).ch \in Channels
      BY <1>3, <1>7, <3>1
    <3> QED
      BY <2>1, <3>2 DEF AccountOK
  <2> QED
    BY <1>9, <2>1 DEF WorkOK, PayerOK, AccountOK, Told
<1>11. SlotOK(s)'
  BY <1>5, <1>10, SlotIs
<1> QED
  BY <1>1, <1>5, <1>8, <1>11, OneHandler

\* A row, or none because it could not be written.
LEMMA RowHandled ==
  ASSUME HandledInv, ChargeInv', NEW s \in Slots, NEW ch \in Channels,
         job[s].todo # <<>>, Head(job[s].todo) = Send("payer", ch),
         UNCHANGED <<event, acked, calls>>,
         \/ /\ \E status \in Status : Row(s, ch, status)
            /\ Goes(s, Tail(job[s].todo)) /\ aborted' = aborted
         \/ RowFails(s) /\ rows' = rows
  PROVE  HandledInv'
<1>1. PICK e, todo, answer, new :
        /\ e = job[s].event /\ todo = job[s].todo /\ answer = job[s].answer
        /\ Goes(s, new)
        /\ \/ new = Tail(todo) /\ (\E status \in Status : Row(s, ch, status)) /\ aborted' = aborted
           \/ rows' = rows /\ aborted' = aborted \cup {job[s].event}
  BY DEF RowFails
<1>2. e \in Events /\ todo # <<>> /\ Head(todo) = Send("payer", ch)
  BY <1>1 DEF HandledInv, ChargeInv, JobsOK
<1>3. /\ rows \in [Events \X Channels \X Status -> Nat]
      /\ calls \in [Events \X Audience \X Channels \X Answer -> Nat]
  BY DEF HandledInv, ChargeInv, CountsOK
<1>4. /\ \A x \in Events \X Channels \X Status : rows'[x] >= rows[x]
      /\ new = Tail(todo) /\ (\E status \in Status : Row(s, ch, status)) =>
           \E status \in Status : rows'[<<e, ch, status>>] > 0
  <2>1. \A x \in Events \X Channels \X Status : rows[x] \in Nat
    BY <1>3
  <2>2. CASE rows' = rows /\ ~\E status \in Status : Row(s, ch, status)
    BY <2>1, <2>2
  <2>3. ASSUME NEW status \in Status, Row(s, ch, status)
        PROVE  <1>4
    <3>1. PICK mine : mine = <<e, ch, status>>
      OBVIOUS
    <3>2. mine \in Events \X Channels \X Status
      BY <1>2, <3>1
    <3>3. rows' = [rows EXCEPT ![mine] = @ + 1]
      BY <1>1, <2>3, <3>1 DEF Row, Count
    <3>4. rows'[mine] = rows[mine] + 1
      BY <1>3, <3>2, <3>3
    <3>5. \A x \in Events \X Channels \X Status : x # mine => rows'[x] = rows[x]
      BY <1>3, <3>3
    <3> QED
      BY <2>1, <3>1, <3>2, <3>4, <3>5
  <2> QED
    BY <1>1, <2>2, <2>3
<1>5. Grows
  <2>1. \A x \in Events \X Audience \X Channels \X Answer : calls[x] \in Nat
    BY <1>3
  <2> QED
    BY <1>1, <1>4, <2>1 DEF Grows
<1>6. ASSUME WorkOK(e, todo, answer)' PROVE WorkOK(e, new, Nothing)'
  <2> SUFFICES ASSUME e \in Events \ {Nothing}
               PROVE  /\ event'[e].kind \in ToPayer /\ e \notin aborted' => PayerOK(e, new)'
                      /\ event'[e].kind \in Auth => AccountOK(e, new, Nothing)'
    BY DEF WorkOK, PayerOK, AccountOK, Told
  <2>1. Head(todo).to = "payer" /\ Head(todo).ch = ch
    BY <1>2 DEF Send
  <2>2. ~AccountOK(e, todo, answer)'
    BY <1>2, <2>1, AccountHead
  <2>3. ASSUME PayerOK(e, todo)', e \notin aborted' PROVE PayerOK(e, new)'
    <3>1. new = Tail(todo) /\ \E status \in Status : Row(s, ch, status)
      BY <1>1, <2>3
    <3>2. Told(e, ch)' > 0
      <4>1. PICK status \in Status : rows'[<<e, ch, status>>] > 0
        BY <1>4, <3>1
      <4>2. \A other \in Status : rows'[<<e, ch, other>>] \in Nat
        BY <1>2 DEF ChargeInv, CountsOK
      <4> QED
        <5>1. status = "SENT" \/ status = "FAILED" \/ status = "SKIPPED"
          BY DEF Status
        <5>2. /\ rows'[<<e, ch, "SENT">>] \in Nat /\ rows'[<<e, ch, "FAILED">>] \in Nat
              /\ rows'[<<e, ch, "SKIPPED">>] \in Nat
          BY <4>2 DEF Status
        <5> QED
          BY <4>1, <5>1, <5>2 DEF Told
    <3>3. \A c \in event'[e].contacts : Head(todo) = Send("payer", c) => Told(e, c)' > 0
      <4> SUFFICES ASSUME NEW c, Head(todo) = Send("payer", c) PROVE Told(e, c)' > 0
        OBVIOUS
      <4>1. c = ch
        BY <2>1 DEF Send
      <4> QED
        BY <3>2, <4>1 DEF Told
    <3>4. PayerOK(e, Tail(todo))'
      BY <1>2, <2>3, <3>3, PayerTail
    <3> QED
      BY <3>1, <3>4 DEF PayerOK, Told
  <2> QED
    BY <1>6, <2>2, <2>3 DEF WorkOK, PayerOK, AccountOK, Told
<1> QED
  BY <1>1, <1>5, <1>6, HandlerGoes

LEMMA PayerHandled ==
  ASSUME HandledInv, ChargeInv', NEW s \in Slots, Skip(s) \/ ReturnPayer(s)
  PROVE  HandledInv'
<1>1. "SENT" \in Status /\ "FAILED" \in Status /\ "SKIPPED" \in Status
  BY DEF Status
<1>2. PICK ch \in Channels :
        /\ job[s].todo # <<>> /\ Head(job[s].todo) = Send("payer", ch)
        /\ \/ /\ \E status \in Status : Row(s, ch, status)
              /\ Goes(s, Tail(job[s].todo)) /\ aborted' = aborted
           \/ RowFails(s) /\ rows' = rows
        /\ UNCHANGED <<event, acked, calls>>
  BY <1>1 DEF Skip, ReturnPayer, At, Back, Sent, NotSent, Rest, bus, world
<1> QED
  BY <1>2, RowHandled

\* The calls to the business and of the notices: the payer has been told before.
LEMMA NoticeHandled ==
  ASSUME HandledInv, ChargeInv', NEW s \in Slots, ReturnOwner(s) \/ ReturnNotice(s)
  PROVE  HandledInv'
<1>1. /\ job[s].todo # <<>> /\ Head(job[s].todo).to \in {"owner", "notice"}
      /\ Goes(s, Tail(job[s].todo))
      /\ UNCHANGED <<event, aborted, rows, calls, acked>>
  <2>1. \E ch \in Channels : Back(s, Send("owner", ch)) \/ Back(s, Send("notice", ch))
    BY DEF ReturnOwner, ReturnNotice
  <2>2. job[s].todo # <<>> /\ Head(job[s].todo).to \in {"owner", "notice"}
    BY <2>1 DEF Back, Send
  <2>3. Goes(s, Tail(job[s].todo)) /\ UNCHANGED <<event, aborted, rows, calls, acked>>
    BY DEF ReturnOwner, ReturnNotice, Rest, bus, world, log
  <2> QED
    BY <2>2, <2>3
<1>2. Grows
  BY <1>1, StandsStill
<1>3. PICK e, todo, answer, new :
        /\ e = job[s].event /\ todo = job[s].todo /\ answer = job[s].answer /\ new = Tail(todo)
  OBVIOUS
<1>4. ASSUME WorkOK(e, todo, answer)' PROVE WorkOK(e, new, Nothing)'
  <2> SUFFICES ASSUME e \in Events \ {Nothing}
               PROVE  /\ event'[e].kind \in ToPayer /\ e \notin aborted' => PayerOK(e, new)'
                      /\ event'[e].kind \in Auth => AccountOK(e, new, Nothing)'
    BY DEF WorkOK, PayerOK, AccountOK, Told
  <2>1. todo # <<>> /\ Head(todo).to # "payer" /\ Head(todo).to # "account"
    BY <1>1, <1>3
  <2>2. ~AccountOK(e, todo, answer)'
    BY <2>1, AccountHead
  <2>3. ASSUME PayerOK(e, todo)' PROVE PayerOK(e, new)'
    <3>1. \A ch : Send("payer", ch).to = "payer"
      BY DEF Send
    <3>2. PayerOK(e, Tail(todo))'
      BY <2>1, <2>3, <3>1, PayerTail
    <3> QED
      BY <1>3, <3>2 DEF PayerOK, Told
  <2> QED
    BY <1>4, <2>2, <2>3 DEF WorkOK, PayerOK, AccountOK, Told
<1> QED
  BY <1>1, <1>2, <1>3, <1>4, HandlerGoes

\* The code is out, or the next contact is tried.
LEMMA AccountHandled ==
  ASSUME HandledInv, ChargeInv', NEW s \in Slots, ReturnAccount(s)
  PROVE  HandledInv'
<1>1. /\ job[s].todo # <<>> /\ Head(job[s].todo).to = "account" /\ job[s].answer # Nothing
      /\ Goes(s, IF job[s].answer = "raised" THEN Tail(job[s].todo) ELSE <<>>)
      /\ UNCHANGED <<event, aborted, rows, calls, acked>>
  BY DEF ReturnAccount, Back, Send, bus, world, log
<1>2. Grows
  BY <1>1, StandsStill
<1>3. PICK e, todo, answer, new :
        /\ e = job[s].event /\ todo = job[s].todo /\ answer = job[s].answer
        /\ new = IF job[s].answer = "raised" THEN Tail(job[s].todo) ELSE <<>>
  OBVIOUS
<1>4. ASSUME WorkOK(e, todo, answer)' PROVE WorkOK(e, new, Nothing)'
  <2> SUFFICES ASSUME e \in Events \ {Nothing}
               PROVE  /\ event'[e].kind \in ToPayer /\ e \notin aborted' => PayerOK(e, new)'
                      /\ event'[e].kind \in Auth => AccountOK(e, new, Nothing)'
    BY DEF WorkOK, PayerOK, AccountOK, Told
  <2>1. ASSUME AccountOK(e, todo, answer)' PROVE AccountOK(e, new, Nothing)'
    <3>1. CASE answer = "raised"
      <4>1. AccountOK(e, todo, "raised")'
        BY <2>1, <3>1 DEF AccountOK
      <4>2. AccountOK(e, Tail(todo), Nothing)'
        BY <1>1, <1>3, <3>1, <4>1, AccountTail
      <4> QED
        BY <1>3, <3>1, <4>2 DEF AccountOK
    <3>2. CASE answer # "raised"
      <4>1. AccountOK(e, <<>>, Nothing)'
        BY <1>1, <1>3, <2>1, <3>2, AccountDone
      <4>2. new = <<>>
        BY <1>3, <3>2
      <4> QED
        BY <4>1, <4>2 DEF AccountOK
    <3> QED
      BY <3>1, <3>2
  <2>2. ASSUME event'[e].kind \in ToPayer, e \notin aborted' PROVE PayerOK(e, new)'
    <3>1. PayerOK(e, todo)'
      BY <1>4, <2>2 DEF WorkOK, PayerOK, Told
    <3>2. \A ch \in event'[e].contacts : Told(e, ch)' > 0
      BY <1>1, <1>3, <3>1, PayerDone
    <3>3. \A ch : Send("payer", ch).to = "payer"
      BY DEF Send
    <3>4. PayerOK(e, Tail(todo))'
      BY <1>1, <1>3, <3>1, <3>3, PayerTail
    <3>5. <<>> \in Seq(Step) /\ Len(<<>>) = 0
      OBVIOUS
    <3>6. CASE answer = "raised"
      BY <1>3, <3>4, <3>6 DEF PayerOK, Told
    <3>7. CASE answer # "raised"
      BY <1>3, <3>2, <3>5, <3>7 DEF PayerOK, Told
    <3> QED
      BY <3>6, <3>7
  <2> QED
    BY <1>4, <2>1, <2>2 DEF WorkOK, PayerOK, AccountOK, Told
<1> QED
  BY <1>1, <1>2, <1>3, <1>4, HandlerGoes

\* A handler that has no call left has told the payer, or has sent the code.
LEMMA FinishHandled ==
  ASSUME HandledInv, ChargeInv', NEW s \in Slots, Finish(s)
  PROVE  HandledInv'
<1>1. /\ job[s].event # Nothing /\ job[s].todo = <<>>
      /\ acked' = IF job[s].acks THEN acked \cup {job[s].event} ELSE acked
      /\ job' = [job EXCEPT ![s] = Idle]
      /\ UNCHANGED <<event, aborted, rows, calls>>
  BY DEF Finish, world, log
<1>2. Grows
  BY <1>1, StandsStill
<1>3. PICK e, todo, answer : e = job[s].event /\ todo = job[s].todo /\ answer = job[s].answer
  OBVIOUS
<1>4. WorkOK(e, todo, answer) /\ todo = <<>> /\ e # Nothing
  BY <1>1, <1>3 DEF HandledInv, SlotOK
<1>5. job[s].acks => e \in Events
  BY <1>3 DEF HandledInv, ChargeInv, JobsOK
<1>6. \A step : ~Has(<<>>, step)
  BY DEF Has
<1>7. acked' \subseteq Events /\ event' \in [Events -> Payload]
  BY <1>1, <1>3, <1>5 DEF HandledInv
<1>8. EveryChannelLogged'
  <2> SUFFICES ASSUME NEW d \in acked' \ aborted', event'[d].kind \in ToPayer,
                      NEW ch \in event'[d].contacts
               PROVE  Told(d, ch)' > 0
    BY DEF EveryChannelLogged
  <2>1. CASE d \in acked
    BY <1>1, <2>1 DEF HandledInv, EveryChannelLogged, Told
  <2>2. CASE d \notin acked
    <3>1. d = e /\ job[s].acks
      BY <1>1, <1>3, <2>2
    <3>2. PayerOK(e, todo)
      BY <1>1, <1>4, <1>5, <3>1 DEF WorkOK
    <3> QED
      BY <1>1, <1>4, <1>6, <3>1, <3>2 DEF PayerOK, Told
  <2> QED
    BY <2>1, <2>2
<1>9. CodeIsAnswered'
  <2> SUFFICES ASSUME NEW d \in acked', event'[d].kind \in Auth
               PROVE  \/ \E ch \in Channels, a \in Answer \ {"raised"} :
                           calls'[<<d, "account", ch, a>>] > 0
                      \/ \A ch \in event'[d].contacts : calls'[<<d, "account", ch, "raised">>] > 0
    BY DEF CodeIsAnswered
  <2>1. CASE d \in acked
    BY <1>1, <2>1 DEF HandledInv, CodeIsAnswered
  <2>2. CASE d \notin acked
    <3>1. d = e /\ job[s].acks
      BY <1>1, <1>3, <2>2
    <3>2. AccountOK(e, todo, answer)
      BY <1>1, <1>4, <1>5, <3>1 DEF WorkOK
    <3> QED
      BY <1>1, <1>4, <1>6, <3>1, <3>2 DEF AccountOK
  <2> QED
    BY <2>1, <2>2
<1>10. job'[s].event = Nothing /\ \A r \in Slots \ {s} : job'[r] = job[r]
  BY <1>1 DEF Idle, HandledInv, ChargeInv, JobsOK
<1>11. ASSUME NEW r \in Slots PROVE SlotOK(r)'
  <2>1. CASE r = s
    BY <1>10, <2>1 DEF SlotOK, WorkOK
  <2>2. CASE r # s
    <3>1. PICK d, left, back : d = job[r].event /\ left = job[r].todo /\ back = job[r].answer
      OBVIOUS
    <3>2. WorkOK(d, left, back)
      BY <3>1 DEF HandledInv, SlotOK
    <3>3. WorkOK(d, left, back)'
      BY <1>2, <3>2, WorkGrows DEF HandledInv, ChargeInv
    <3> QED
      BY <1>10, <2>2, <3>1, <3>3, SlotIs
  <2> QED
    BY <2>1, <2>2
<1> QED
  BY <1>7, <1>8, <1>9, <1>11 DEF HandledInv

LEMMA HandledNext ==
  ASSUME HandledInv, [Next]_vars
  PROVE  HandledInv'
<1>1. ChargeInv'
  BY ChargeNext DEF HandledInv
<1>2. ASSUME NEW s \in Slots, Work(s)
      PROVE  HandledInv'
  BY <1>1, <1>2, AskHandled, CallHandled, PayerHandled, NoticeHandled, AccountHandled,
     FinishHandled DEF Work
<1> QED
  BY <1>1, <1>2, DeliverHandled, QuietHandled DEF Next

\* When the event of a payment or an obligation is acknowledged (process_message of the
\* worker), every channel the payer has a contact for has a notification_logs row: dispatch
\* goes on to the mail when the SMS fails, through crashes, redeliveries and changes of the
\* templates. The exception is an event one of whose rows could not be written.
THEOREM ChannelsAreLogged == Spec => []EveryChannelLogged
<1>1. HandledInv => EveryChannelLogged
  BY DEF HandledInv
<1> QED
  BY <1>1, HandledInit, HandledNext, PTL DEF Spec

\* When the event of a code is acknowledged a call for it has come back, or the calls to
\* all the contacts of the account have raised (_send_auth_notification): no crash between
\* two calls leaves it out, because the event is delivered again.
THEOREM CodesAnswered == Spec => []CodeIsAnswered
<1>1. HandledInv => CodeIsAnswered
  BY DEF HandledInv
<1> QED
  BY <1>1, HandledInit, HandledNext, PTL DEF Spec
=============================================================================
